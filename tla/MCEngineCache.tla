---------------------------- MODULE MCEngineCache ----------------------------
(* EngineCache with two workers and three collections.                    *)
EXTENDS EngineCache, TLC

CONSTANTS w1, w2

MCWorkers == {w1, w2}
MCIds == 1 .. 3
=============================================================================
