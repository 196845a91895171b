---------------------------- MODULE PolicyScores ----------------------------
(***************************************************************************)
(* The two scores given to a policy: the risk of a firewall policy         *)
(* (engine/risk_assessor.py, higher is worse) and the audit of a DoS       *)
(* policy (engine/dos_policy_auditor.py, higher is better).  The firewall's *)
(* administrator changes one setting at a time; the scores are functions   *)
(* of the policy as it is.                                                 *)
(*                                                                         *)
(* A list of names is how many of its names are ANY, how many resolve to a *)
(* network of /16 or wider, and how many are anything else: a group, which *)
(* resolves to nothing, counts among the last.                             *)
(***************************************************************************)
EXTENDS Integers, FiniteSets

CONSTANTS
  Sides,     \* the address lists a policy may have: [any, broad, other]
  Tuned,     \* the anomalies of a DoS policy that are set one by one
  Scopes     \* its scopes: [src, dst, service]

Critical ==
  {"tcp_syn_flood", "icmp_flood", "udp_flood", "tcp_udp_flood", "ip_spoofing", "land_attack"}

Recommended ==
  Critical \cup
  {"tcp_syn_proxy", "tcp_port_scan", "tcp_udp_other", "icmp_land", "udp_land", "ip_martian_source",
   "ip_bad_options", "ip_unknown_protocol", "tcp_crlf", "tcp_no_flag", "tcp_syn_fin", "tcp_syn_rst",
   "tcp_fin_no_ack", "tcp_xmas", "tcp_null", "tcp_fin_only", "udp_broadcast"}

\* The keys of DEFAULT_THRESHOLDS.
Thresholded == {"tcp_syn_flood", "icmp_flood", "udp_flood", "tcp_udp_flood"}

\* ANY appears once in a list, if at all.
ASSUME SidesAssumption == Sides \subseteq [any : {0, 1}, broad : Nat, other : Nat]
ASSUME TunedAssumption == Tuned \subseteq Recommended

ASSUME ScopesAssumption ==
  Scopes \subseteq [src : {"none", "all", "named"}, dst : {"none", "all", "named"}, service : BOOLEAN]

\* The policy that is scored.  A firewall policy has its sides, how many
\* services, whether an interface is ANY, and its flags; a DoS policy has its
\* scope, the settings of the tuned anomalies, and the other anomalies that
\* are on, all of them well set.
VARIABLE subject

Add(condition, points) == IF condition THEN points ELSE 0
Capped(n, most) == IF n < most THEN n ELSE most
Floored(n) == IF n < 0 THEN 0 ELSE n

\* Python's round: n / d to the nearest integer, a tie to the even one.
Round(n, d) ==
  LET q == n \div d
      r == n % d
  IN  q + Add(2 * r > d \/ (2 * r = d /\ q % 2 = 1), 1)

(***************************************************************************)
(* The risk of a firewall policy                                           *)
(***************************************************************************)

Size(side) == side.any + side.broad + side.other

\* Faulty: the weights of ANY and of a broad network are swapped.
SideRiskSwapped(side) == Add(side.any > 0, 12) + Capped(40 * side.broad, 80)

SideRisk(side) == Add(side.any > 0, 40) + Capped(12 * side.broad, 25)

AddressScope(p) ==
  Capped(SideRisk(p.src) + SideRisk(p.dst) + Add(Size(p.src) + Size(p.dst) > 20, 10), 100)

Unlogged(p) == p.log = "disable"

LoggingRisk(p) ==
  Add(Unlogged(p), 60) + Add(p.log = "utm" /\ ~ p.utm, 20) + Add(p.deny /\ Unlogged(p), 20)

ConfigRisk(p) ==
  Add(p.srcany, 25) + Add(p.dstany, 25) + Add(~ p.always, 5)
    + Add(~ p.enabled, 30) + Add(p.services > 10, 10)

Staleness(p) == Add(~ p.enabled, 70) + Add(p.deny /\ Unlogged(p), 20)

\* The weights are floating point numbers: 0.35 * 90 falls short of 31.5 and
\* is rounded down.  No other sum of the weights misses its tie.
RiskScore(p) ==
  LET sum == 35 * AddressScope(p) + 25 * LoggingRisk(p) + 25 * ConfigRisk(p) + 15 * Staleness(p)
  IN  IF AddressScope(p) = 90 /\ sum = 35 * 90 THEN 31 ELSE Round(sum, 100)

RiskLevel(score) ==
  IF score >= 80 THEN "critical" ELSE IF score >= 60 THEN "high"
  ELSE IF score >= 40 THEN "medium" ELSE IF score >= 20 THEN "low" ELSE "info"

When(condition, remedy) == IF condition THEN {remedy} ELSE {}

\* Faulty: broad networks are scored, but nothing is said about them.
RemediesWithoutNarrowing(p) ==
  When(p.src.any > 0, "source") \cup When(p.dst.any > 0, "destination")
    \cup When(Unlogged(p), "log") \cup When(p.deny /\ Unlogged(p), "log denied")
    \cup When(p.srcany, "source interface") \cup When(p.dstany, "destination interface")
    \cup When(~ p.enabled, "remove") \cup When(p.services > 10, "split services")

\* _get_remediation, for all dimensions: it tests the policy again.
Remedies(p) == RemediesWithoutNarrowing(p) \cup When(p.src.broad + p.dst.broad > 0, "narrow")

(***************************************************************************)
(* The audit of a DoS policy                                               *)
(***************************************************************************)

Fit(a) == [on |-> TRUE, log |-> TRUE, block |-> TRUE,
           threshold |-> IF a \in Thresholded THEN "fit" ELSE "none"]

SettingOf(d, a) == IF a \in Tuned THEN d.anomaly[a] ELSE Fit(a)
Enabled(d) == {a \in Tuned : d.anomaly[a].on} \cup d.others

\* A critical anomaly that is missing costs 70 / 6 of a part of 0.7, one that
\* is only recommended 30 / 17 of a part of 0.3.
CoverageScore(d) ==
  LET c == Cardinality(Critical)
      r == Cardinality(Recommended \ Critical)
      missingCritical == Cardinality(Critical \ Enabled(d))
      missingRecommended == Cardinality((Recommended \ Critical) \ Enabled(d))
  IN  Round(100 * c * r - 49 * missingCritical * r - 9 * missingRecommended * c, c * r)

\* Less than a tenth of the default is low, more than ten times is high.
ThresholdScore(d) ==
  LET scored == {a \in Enabled(d) : a \in Thresholded /\ SettingOf(d, a).threshold # "none"}
      low == {a \in scored : SettingOf(d, a).threshold = "low"}
      high == {a \in scored : SettingOf(d, a).threshold = "high"}
  IN  IF scored = {} THEN 80 ELSE Floored(100 - 20 * Cardinality(low) - 15 * Cardinality(high))

\* Faulty: the share of those that do not log.
LoggingScoreInverted(d) ==
  LET enabled == Cardinality(Enabled(d))
      unlogged == Cardinality({a \in Enabled(d) : ~ SettingOf(d, a).log})
  IN  IF enabled = 0 THEN 60
      ELSE 100 - Add(2 * unlogged < enabled, 30) - Add(2 * unlogged >= enabled /\ unlogged < enabled, 15)

LoggingScore(d) ==
  LET enabled == Cardinality(Enabled(d))
      logged == Cardinality({a \in Enabled(d) : SettingOf(d, a).log})
  IN  IF enabled = 0 THEN 60
      ELSE 100 - Add(2 * logged < enabled, 30) - Add(2 * logged >= enabled /\ logged < enabled, 15)

ScopeScore(d) ==
  100 - Add(d.scope.src = "none", 15) - Add(d.scope.src = "all", 10)
      - Add(d.scope.dst = "none", 15) - Add(d.scope.dst = "all", 10) - Add(~ d.scope.service, 20)

ActionScore(d) ==
  Floored(100 - 15 * Cardinality({a \in Enabled(d) \cap Critical : ~ SettingOf(d, a).block}))

\* Faulty: full marks for having nothing to get wrong.
EffectiveAlways(d, score) == score

\* With no check enabled, nothing is in effect: those dimensions score zero.
Effective(d, score) == IF Enabled(d) = {} THEN 0 ELSE score

AuditScore(d) ==
  Round(30 * CoverageScore(d) + 25 * Effective(d, ThresholdScore(d)) + 20 * Effective(d, LoggingScore(d))
          + 15 * ScopeScore(d) + 10 * Effective(d, ActionScore(d)), 100)

(***************************************************************************)
(* The firewall's administrator                                            *)
(***************************************************************************)

AllOff(scope) ==
  [kind |-> "dos", scope |-> scope, others |-> {},
   anomaly |-> [a \in Tuned |-> [Fit(a) EXCEPT !.on = FALSE]]]

ScoresInit ==
  \/ \E s \in Sides :
       subject = [kind |-> "firewall", src |-> s, dst |-> s, services |-> 1, srcany |-> FALSE,
                  dstany |-> FALSE, always |-> TRUE, enabled |-> TRUE, deny |-> FALSE,
                  log |-> "utm", utm |-> FALSE]
  \/ \E s \in Scopes : subject = AllOff(s)

\* One field is set to any of its values.
SetFirewall ==
  /\ subject.kind = "firewall"
  /\ \/ \E s \in Sides : subject' = [subject EXCEPT !.src = s]
     \/ \E s \in Sides : subject' = [subject EXCEPT !.dst = s]
     \/ \E n \in {1, 11} : subject' = [subject EXCEPT !.services = n]
     \/ \E l \in {"disable", "utm", "all"} : subject' = [subject EXCEPT !.log = l]
     \/ \E f \in {"srcany", "dstany", "always", "enabled", "deny", "utm"} :
          subject' = [subject EXCEPT ![f] = ~ @]

SetDos ==
  /\ subject.kind = "dos"
  /\ \/ \E a \in Tuned, f \in {"on", "log", "block"} : subject' = [subject EXCEPT !.anomaly[a][f] = ~ @]
     \/ \E a \in Tuned \cap Thresholded, t \in {"none", "low", "fit", "high"} :
          subject' = [subject EXCEPT !.anomaly[a].threshold = t]
     \/ \E o \in {{}, Recommended \ Tuned} : subject' = [subject EXCEPT !.others = o]
     \/ \E s \in Scopes : subject' = [subject EXCEPT !.scope = s]

ScoresNext == SetFirewall \/ SetDos
ScoresSpec == ScoresInit /\ [][ScoresNext]_subject

(***************************************************************************)
(* Properties                                                              *)
(***************************************************************************)

\* Each name of one list is removed or replaced by a narrower one.
Narrower(t, s) ==
  t.any <= s.any /\ t.any + t.broad <= s.any + s.broad /\ Size(t) <= Size(s)

LogRank(log) == IF log = "disable" THEN 0 ELSE IF log = "utm" THEN 1 ELSE 2

Hardened(q, p) ==
  /\ Narrower(q.src, p.src) /\ Narrower(q.dst, p.dst) /\ q.services <= p.services
  /\ q.srcany => p.srcany
  /\ q.dstany => p.dstany
  /\ LogRank(q.log) >= LogRank(p.log)
  /\ p.utm => q.utm
  /\ q.deny = p.deny /\ q.enabled = p.enabled /\ q.always = p.always

\* Hardening a firewall policy never raises its risk, in the rounded and
\* capped sum of four dimensions: ANY outweighs the broad networks that may
\* replace it, and the steps of logging fall together (assess).
HardeningNeverRaisesRisk ==
  [][subject.kind = "firewall" /\ Hardened(subject', subject)
       => RiskScore(subject') <= RiskScore(subject)]_subject

\* A policy shown at any level above "info" comes with something to do about
\* it, although the scores and the remediation are computed from conditions
\* written twice, three of which have no remedy (sprawl of addresses, UTM
\* logging without UTM, a schedule).
RiskHasRemedy ==
  subject.kind = "firewall" /\ RiskLevel(RiskScore(subject)) # "info" => Remedies(subject) # {}

\* An anomaly is turned on well set, or one that is on is set better.
Improved(e, d) ==
  /\ e.scope = d.scope /\ d.others \subseteq e.others
  /\ \A a \in Tuned :
       LET new == e.anomaly[a]
           old == d.anomaly[a]
       IN  \/ new = old
           \/ ~ old.on /\ new = Fit(a)
           \/ old.on /\ new.on /\ (old.log => new.log) /\ (old.block => new.block)
              /\ new.threshold \in {old.threshold, "fit"}

\* Turning on a check that logs, blocks and has a fitting threshold, or
\* setting an enabled one better, never lowers the audit score: what is
\* gained in coverage is not lost to the shares and penalties of the other
\* dimensions (_audit_single).
ProtectionNeverLowersAudit ==
  [][subject.kind = "dos" /\ Improved(subject', subject)
       => AuditScore(subject') >= AuditScore(subject)]_subject

\* "A policy with no enabled anomaly checks would otherwise earn full or
\* near-full marks": a policy without any scores less than every policy of
\* the same scope that has one, however badly its checks are set.
UnprotectedScoresWorst ==
  subject.kind = "dos" /\ Enabled(subject) # {} => AuditScore(AllOff(subject.scope)) < AuditScore(subject)

=============================================================================
