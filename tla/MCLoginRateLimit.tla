-------------------------- MODULE MCLoginRateLimit --------------------------
(* LoginRateLimit with two workers, two accounts and one address: a block  *)
(* after one or two failures; a window and a block of two ticks, a request *)
(* that lags at most one tick.  At the last tick the rows last written at  *)
(* the first are stale.                                                    *)
EXTENDS LoginRateLimit, TLC

CONSTANTS w1, w2, alice, bob, home

MCWorkers == {w1, w2}
MCUsers == {alice, bob}
MCSources == {home}
=============================================================================
