--------------------------- MODULE PolicyEvaluation ---------------------------
(***************************************************************************)
(* The evaluator: SecureTrackLite in engine/evaluator.py, with             *)
(* engine/cidr_tools.py, engine/interface_selector.py and the validation   *)
(* of requests in validation/evaluation.py.  Given one collected snapshot, *)
(* a request (sources, destinations, services) is validated, its address   *)
(* objects are expanded, and every accepting policy is scored, filtered    *)
(* and ranked.                                                             *)
(*                                                                         *)
(* Addresses are the low bits of IPv4 addresses that share the rest; a     *)
(* network or range is its bounds.  Names are in lower case already.       *)
(***************************************************************************)
EXTENDS Integers, FiniteSets, SequencesExt, Ordering

CONSTANTS
  Snapshots,   \* collected snapshots: see SnapshotsAssumption
  Requests,    \* requests: [srcs, dsts, srvs], sequences of items
  All,         \* the name "all"
  AnyPort,         \* the interface name "any"
  None         \* no interface

\* What a snapshot holds.  An address is a group or a range; a service has a
\* group, port entries <<proto, port>> or <<proto, first, last>>, or is any.
IsList(s) == s \in Seq(Range(s))
AddressType(a) == /\ IsList(a.group)
                  /\ a.lo \in Nat /\ a.hi \in Nat /\ a.lo <= a.hi /\ a.broad \in BOOLEAN
                  /\ a.group # <<>> => a.lo = 0 /\ a.hi = 0 /\ ~ a.broad
PortEntries == ({"tcp", "udp"} \X Nat) \cup ({"tcp", "udp"} \X Nat \X Nat)
RouteType(r) == r.enabled \in BOOLEAN /\ r.lo \in Nat /\ r.hi \in Nat /\ r.length \in Nat
PolicyType(p) ==
  /\ p = [id |-> p.id, srcaddr |-> p.srcaddr, dstaddr |-> p.dstaddr, service |-> p.service,
          srcintf |-> p.srcintf, dstintf |-> p.dstintf, accept |-> p.accept, enabled |-> p.enabled]
  /\ IsList(p.srcaddr) /\ IsList(p.dstaddr) /\ IsList(p.service)
  /\ p.accept \in BOOLEAN /\ p.enabled \in BOOLEAN
SnapshotType(s) ==
  /\ s = [addresses |-> s.addresses, services |-> s.services, routes |-> s.routes, policies |-> s.policies]
  /\ IsFiniteSet(DOMAIN s.addresses)
  /\ \A n \in DOMAIN s.addresses : AddressType(s.addresses[n])
  /\ IsFiniteSet(DOMAIN s.services)
  /\ \A n \in DOMAIN s.services : /\ n \notin PortEntries /\ s.services[n].any \in BOOLEAN
                                  /\ s.services[n].ports \subseteq PortEntries
  /\ IsList(s.routes) /\ \A k \in DOMAIN s.routes : RouteType(s.routes[k])
  /\ IsList(s.policies) /\ \A k \in DOMAIN s.policies : PolicyType(s.policies[k])
ASSUME SnapshotsAssumption == All \notin PortEntries /\ \A s \in Snapshots : SnapshotType(s)

\* An item is a name or the bounds of a network, first to last.
ASSUME RequestsAssumption ==
  \A req \in Requests :
    /\ IsList(req.srcs) /\ IsList(req.dsts) /\ IsList(req.srvs)
    /\ \A i \in Range(req.srcs) \cup Range(req.dsts) : i \in [lo: Nat, hi: Nat] => i.lo <= i.hi

VARIABLES
  snapshot,   \* the dataset of the engine
  request,    \* the request answered last
  results     \* its ranked candidates

vars == <<snapshot, request, results>>

Min2(a, b) == IF a < b THEN a ELSE b

(***************************************************************************)
(* Address objects                                                         *)
(***************************************************************************)

\* Faulty: only groups are remembered.
ExpandOneForgetful(map, w) ==
  LET n == Head(w.todo)
      rest == Tail(w.todo)
  IN  IF n \in w.seen THEN [w EXCEPT !.todo = rest]
      ELSE IF n \in DOMAIN map /\ map[n].group # <<>>
        THEN [w EXCEPT !.todo = map[n].group \o rest, !.seen = @ \cup {n}]
        ELSE [w EXCEPT !.todo = rest, !.out = Append(@, n)]

\* _expand_address_names: depth first, one "seen" for all levels.  What the
\* levels have still to do is one list, the innermost level first.
ExpandOne(map, w) ==
  LET n == Head(w.todo)
      rest == Tail(w.todo)
  IN  IF n \in w.seen THEN [w EXCEPT !.todo = rest]
      ELSE IF n \in DOMAIN map /\ map[n].group # <<>>
        THEN [w EXCEPT !.todo = map[n].group \o rest, !.seen = @ \cup {n}]
        ELSE [todo |-> rest, seen |-> w.seen \cup {n}, out |-> Append(w.out, n)]

\* No expansion takes more steps: no group is entered twice.
Groups(map) == {n \in DOMAIN map : map[n].group # <<>>}
Steps(map, names) ==
  Cardinality(Groups(map)) * Max({0} \cup {Len(map[n].group) : n \in Groups(map)}) + Len(names)

ExpandNames(map, names) ==
  LET walk[k \in Nat] ==
        IF k = 0 THEN [todo |-> names, seen |-> {}, out |-> <<>>]
        ELSE LET w == walk[k - 1] IN IF w.todo = <<>> THEN w ELSE ExpandOne(map, w)
  IN  walk[Steps(map, names)].out

\* _resolve: a group, and a name that is not mapped (an FQDN), is nothing.
Resolves(map, n) == n \in DOMAIN map /\ map[n].group = <<>>
Bounds(map, names) == {map[n] : n \in {m \in Range(names) : Resolves(map, m)}}

\* _request_networks: known names are expanded, the rest are networks.
RequestNetworks(map, items) ==
  LET known == {k \in DOMAIN items : items[k] \in DOMAIN map}
      names == [k \in DOMAIN items |->
                  IF k \in known THEN ExpandNames(map, <<items[k]>>) ELSE <<items[k]>>]
      places == {p \in UNION {{k} \X (DOMAIN names[k]) : k \in DOMAIN items} :
                   p[1] \in known => Resolves(map, names[p[1]][p[2]])}
      order == InOrder(places, {pq \in places \X places :
                 LET p == pq[1] q == pq[2] IN p[1] < q[1] \/ (p[1] = q[1] /\ p[2] < q[2])})
      Network(p) == IF p[1] \in known THEN map[names[p[1]][p[2]]] ELSE items[p[1]]
  IN  [i \in 1 .. Cardinality(places) |-> Network(order[i])]

\* Faulty: any_overlap in place of is_subset.
Overlaps(child, parent) == parent.lo <= child.hi /\ child.lo <= parent.hi

IsCoveredBy(child, parent) == parent.lo <= child.lo /\ child.hi <= parent.hi

Covered(net, bounds) == \E b \in bounds : IsCoveredBy(net, b)
CoveredOf(nets, bounds) == Cardinality({k \in DOMAIN nets : Covered(nets[k], bounds)})

\* The score for the common prefix of the first addresses, by the number of
\* bits below it: prefixes of 31, 28, 24, 22 and 16 bits.
Proximity(net, b) ==
  LET Close(bits) == net.lo \div 2^bits = b.lo \div 2^bits
  IN  IF Close(1) THEN 50 ELSE IF Close(4) THEN 35 ELSE IF Close(8) THEN 18
      ELSE IF Close(10) THEN 12 ELSE IF Close(16) THEN 6 ELSE 0

(***************************************************************************)
(* Services                                                                *)
(***************************************************************************)

\* A service and the members of the groups met.
ReachFrom(map, s) ==
  LET reach[k \in Nat] ==
        IF k = 0 THEN {s}
        ELSE LET met == reach[k - 1] IN met \cup UNION {map[n].group : n \in met \cap DOMAIN map}
  IN  reach[Cardinality(DOMAIN map)]

\* _service_aliases: the service, its ports, and those of its members.  A
\* requested number stands for the port of both protocols.
Aliases(map, s) ==
  IF s \in DOMAIN map
    THEN UNION {{n} \cup (IF n \in DOMAIN map THEN map[n].ports ELSE {})
                : n \in ReachFrom(map, s)}
    ELSE {s} \cup (IF s[1] = "port" THEN {<<"tcp", s[2]>>, <<"udp", s[2]>>} ELSE {})

IsAny(map, n) == IF n \in DOMAIN map THEN map[n].any ELSE n = All
IsAnyOrHasAny(map, n) ==
  IsAny(map, n) \/ (n \in DOMAIN map /\ \E m \in map[n].group : IsAny(map, m))

IsPort(map, a) == a \notin DOMAIN map /\ a # All /\ Len(a) = 2 /\ a[1] \in {"tcp", "udp"}
IsPortRange(map, a) == a \notin DOMAIN map /\ a # All /\ Len(a) = 3

\* Faulty: the last port of a range is left out.
PortWithinOpen(r, a) == r[1] = a[1] /\ a[2] <= r[2] /\ r[2] < a[3]

PortWithin(r, a) == r[1] = a[1] /\ a[2] <= r[2] /\ r[2] <= a[3]

ServiceMatches(map, requested, offered) ==
  LET req == Aliases(map, requested)
      pol == Aliases(map, offered)
  IN  \/ IsAnyOrHasAny(map, offered)
      \/ req \cap pol # {}
      \/ \E r \in {x \in req : IsPort(map, x)}, a \in {x \in pol : IsPortRange(map, x)} :
           PortWithin(r, a)

ServiceOffered(map, sv, services) == \E k \in DOMAIN services : ServiceMatches(map, sv, services[k])
OfferedOf(map, srvs, services) == Cardinality({k \in DOMAIN srvs : ServiceOffered(map, srvs[k], services)})

(***************************************************************************)
(* Routes                                                                  *)
(***************************************************************************)

\* Faulty: the first route that contains the address.
FirstRoute(routes, ip) ==
  LET usable == {k \in DOMAIN routes : /\ routes[k].enabled
                                       /\ routes[k].lo <= ip /\ ip <= routes[k].hi}
      best == {k \in usable : \A j \in usable : k <= j}
  IN  IF usable = {} THEN None ELSE routes[CHOOSE k \in best : TRUE].interface

\* select_interface_for_ip: the longest prefix, the first of equals.  (The
\* search for a default route that follows finds nothing new: a default route
\* with an interface contains every address.)
SelectInterface(routes, ip) ==
  LET usable == {k \in DOMAIN routes : /\ routes[k].enabled
                                       /\ routes[k].lo <= ip /\ ip <= routes[k].hi}
      best == {k \in usable : \A j \in usable :
                 \/ routes[j].length < routes[k].length
                 \/ routes[j].length = routes[k].length /\ k <= j}
  IN  IF usable = {} THEN None ELSE routes[CHOOSE k \in best : TRUE].interface

InterfaceMatches(interfaces, itf) ==
  itf = None \/ {All, AnyPort, itf} \cap interfaces # {}
InterfaceHasRoute(interfaces, itf) == itf # None /\ itf \in interfaces

(***************************************************************************)
(* Scoring and ranking                                                     *)
(***************************************************************************)

\* Faulty: "all" and the broad networks cost nothing.
SideScoreByCoverage(map, nets, addrs) ==
  LET covered == CoveredOf(nets, Bounds(map, addrs))
  IN  40 * covered - Min2(10, Len(addrs) - covered)

\* The part of score_policy for one side of the request: 40 points for a
\* covered network, or those for the nearest address.
SideScore(map, nets, addrs) ==
  LET bounds == Bounds(map, addrs)
      covered == CoveredOf(nets, bounds)
      Near(points) == points * Cardinality({k \in DOMAIN nets :
                        /\ ~ Covered(nets[k], bounds)
                        /\ points = Max({0} \cup {Proximity(nets[k], b) : b \in bounds})})
      broad == Cardinality({k \in DOMAIN addrs : Resolves(map, addrs[k]) /\ map[addrs[k]].broad})
  IN  40 * covered + Near(50) + Near(35) + Near(18) + Near(12) + Near(6)
        - Min2(10, Len(addrs) - covered)
        - (IF All \in Range(addrs) THEN 15 ELSE 0)
        - 15 * broad

ServiceScore(map, srvs, services) ==
  LET offered == OfferedOf(map, srvs, services)
  IN  20 * offered - Min2(5, Len(services) - offered)

\* The sides on which some network of the request is not covered.
Missing(map, p, srcs, dsts) ==
  {side \in {"srcaddr", "dstaddr"} :
     LET nets == IF side = "srcaddr" THEN srcs ELSE dsts
         addrs == IF side = "srcaddr" THEN p.srcaddr ELSE p.dstaddr
     IN  \E k \in DOMAIN nets : ~ Covered(nets[k], Bounds(map, addrs))}

\* _is_extension_candidate, from the numbers of matches.
IsCandidate(srcs, dsts, srvs, sm, dm, vm, dstHasRoute) ==
  IF srvs # <<>> /\ vm = 0 THEN FALSE
  ELSE IF dsts # <<>> /\ dm = 0 THEN srvs # <<>> /\ vm > 0 /\ dstHasRoute
  ELSE IF srcs # <<>> /\ dsts # <<>> THEN dm > 0
  ELSE IF srcs # <<>> THEN sm > 0
  ELSE IF dsts # <<>> THEN dm > 0
  ELSE TRUE

InterfaceScore(nets, fits) == IF nets = <<>> THEN 0 ELSE IF fits THEN 10 ELSE -5

\* _normalize_policies: enabled accepting policies, their addresses expanded.
Normalized(s) ==
  LET kept == At(s.policies, {k \in DOMAIN s.policies : s.policies[k].accept /\ s.policies[k].enabled})
  IN  [k \in DOMAIN kept |->
        [kept[k] EXCEPT !.srcaddr = ExpandNames(s.addresses, @),
                        !.dstaddr = ExpandNames(s.addresses, @)]]

Scored(s, p, srcs, dsts, srvs) ==
  LET map == s.addresses
      sm == CoveredOf(srcs, Bounds(map, p.srcaddr))
      dm == CoveredOf(dsts, Bounds(map, p.dstaddr))
      vm == OfferedOf(s.services, srvs, p.service)
      srcitf == IF srcs = <<>> THEN None ELSE SelectInterface(s.routes, srcs[1].lo)
      dstitf == IF dsts = <<>> THEN None ELSE SelectInterface(s.routes, dsts[1].lo)
  IN  [policy    |-> p,
       score     |-> SideScore(map, srcs, p.srcaddr) + SideScore(map, dsts, p.dstaddr)
                       + ServiceScore(s.services, srvs, p.service)
                       + InterfaceScore(srcs, InterfaceMatches(p.srcintf, srcitf))
                       + InterfaceScore(dsts, InterfaceMatches(p.dstintf, dstitf)),
       missing   |-> Missing(map, p, srcs, dsts),
       candidate |-> IsCandidate(srcs, dsts, srvs, sm, dm, vm,
                                 InterfaceHasRoute(p.dstintf, dstitf)),
       srcitf    |-> srcitf,
       dstitf    |-> dstitf]

\* sorted(..., reverse=True) keeps the order of equals.
Ranked(seq) ==
  LET before == {p \in (DOMAIN seq) \X (DOMAIN seq) :
                   \/ seq[p[1]].score > seq[p[2]].score
                   \/ seq[p[1]].score = seq[p[2]].score /\ p[1] < p[2]}
      order == InOrder(DOMAIN seq, before)
  IN  [k \in 1 .. Len(seq) |-> seq[order[k]]]

Evaluate(s, req) ==
  LET srcs == RequestNetworks(s.addresses, req.srcs)
      dsts == RequestNetworks(s.addresses, req.dsts)
      policies == Normalized(s)
      all == [k \in DOMAIN policies |-> Scored(s, policies[k], srcs, dsts, req.srvs)]
  IN  IF srcs = <<>> /\ dsts = <<>> /\ req.srvs = <<>> THEN <<>>
      ELSE Ranked(At(all, {k \in DOMAIN all : all[k].candidate}))

(***************************************************************************)
(* The service                                                             *)
(***************************************************************************)

NoRequest == [srcs |-> <<>>, dsts |-> <<>>, srvs |-> <<>>]

Init ==
  /\ snapshot \in Snapshots
  /\ request = NoRequest
  /\ results = <<>>

\* A name that is not known, and a port range that
\* descends, is refused, and the whole request with it.
Valid(s, req) ==
  /\ req.srcs # <<>> /\ req.dsts # <<>>
  /\ \A i \in (Range(req.srcs) \cup Range(req.dsts)) \ DOMAIN s.addresses :
       i \in [lo: Nat, hi: Nat]
  /\ \A v \in Range(req.srvs) \ DOMAIN s.services :
       v[1] \in {"port", "tcp", "udp"} /\ v[2] <= v[Len(v)]

\* An evaluation changes nothing in the engine: one request stands for all.
Submit ==
  /\ request = NoRequest
  /\ \E req \in Requests :
       /\ Valid(snapshot, req)
       /\ request' = req
       /\ results' = Evaluate(snapshot, req)
  /\ UNCHANGED snapshot

Next == Submit
Spec == Init /\ [][Next]_vars

(***************************************************************************)
(* Properties                                                              *)
(***************************************************************************)

\* The names that every set closed under "members of a group" and holding
\* the given names must hold.
Reachable(map, names) ==
  LET universe == Range(names) \cup UNION {{n} \cup Range(map[n].group) : n \in DOMAIN map}
      closed == {S \in SUBSET universe :
                   /\ Range(names) \subseteq S
                   /\ \A n \in S \cap DOMAIN map : Range(map[n].group) \subseteq S}
  IN  {n \in universe : \A S \in closed : n \in S}

Leaves(map, names) ==
  {n \in Reachable(map, names) : n \in DOMAIN map => map[n].group = <<>>}

\* Expanding the addresses of a policy ends, whatever groups contain each
\* other, and gives each address under them exactly once: nothing is lost to
\* the names already seen, nothing is counted twice by the scores.
ExpansionIsClosure ==
  \A k \in DOMAIN snapshot.policies :
    LET names == snapshot.policies[k].srcaddr
        expanded == ExpandNames(snapshot.addresses, names)
    IN  /\ Range(expanded) = Leaves(snapshot.addresses, names)
        /\ Len(expanded) = Cardinality(Range(expanded))

\* The single addresses that names, or an item of a request, stand for.
Points(names) ==
  UNION {snapshot.addresses[n].lo .. snapshot.addresses[n].hi :
           n \in Leaves(snapshot.addresses, names) \cap DOMAIN snapshot.addresses}
PointsAsked(items) ==
  UNION {IF i \in DOMAIN snapshot.addresses THEN Points(<<i>>) ELSE i.lo .. i.hi : i \in Range(items)}

\* A result shown as "already covered" comes from a policy that holds every
\* single address of the request, on both sides.
CoveredMeansCovered ==
  \A k \in DOMAIN results :
    results[k].missing = {} =>
      /\ PointsAsked(request.srcs) \subseteq Points(results[k].policy.srcaddr)
      /\ PointsAsked(request.dsts) \subseteq Points(results[k].policy.dstaddr)

\* The ports that a service of a policy opens: those of the service and of
\* all the services grouped under it.
OpenPorts(service) ==
  UNION {{<<a[1], p>> : p \in a[2] .. a[Len(a)]} :
           a \in UNION {snapshot.services[n].ports :
                           n \in ReachFrom(snapshot.services, service) \cap DOMAIN snapshot.services}}

\* No policy that already does what was asked is left out: an enabled
\* accepting policy with an address that contains each address asked for on
\* both sides, and with the port asked for open, is among the results, with
\* nothing missing.
CoveringIsOffered ==
  \A k \in DOMAIN snapshot.policies :
    LET p == snapshot.policies[k]
        Holds(names, item) ==
          \E n \in Leaves(snapshot.addresses, names) \cap DOMAIN snapshot.addresses :
            PointsAsked(<<item>>) \subseteq snapshot.addresses[n].lo .. snapshot.addresses[n].hi
    IN  /\ request # NoRequest
        /\ p.accept /\ p.enabled
        /\ \A i \in Range(request.srcs) : Holds(p.srcaddr, i)
        /\ \A i \in Range(request.dsts) : Holds(p.dstaddr, i)
        /\ \E v \in Range(request.srvs), o \in Range(p.service) \cap DOMAIN snapshot.services :
             v \in OpenPorts(o)
        => \E j \in DOMAIN results : results[j].policy.id = p.id /\ results[j].missing = {}

Alike(p, q) == /\ p.dstaddr = q.dstaddr /\ p.service = q.service
               /\ p.srcintf = q.srcintf /\ p.dstintf = q.dstintf
IsBroad(names) ==
  \E n \in Range(names) : n = All \/ (n \in DOMAIN snapshot.addresses /\ snapshot.addresses[n].broad)

\* Of two policies that differ only in their sources and both cover the
\* request, the one open to every source does not come first.
NarrowBeforeBroad(i, j) ==
  /\ Alike(results[i].policy, results[j].policy)
  /\ results[i].missing = {} /\ results[j].missing = {}
  /\ ~ IsBroad(results[i].policy.srcaddr) /\ IsBroad(results[j].policy.srcaddr)
  => i < j

\* Least privilege, for requests of at most five networks: however many
\* addresses the narrower policy lists beside.  Of more networks the penalty for
\* the other addresses, negative for one that covers several, can favour the
\* broad policy.
LeastPrivilegeFirst ==
  Len(RequestNetworks(snapshot.addresses, request.srcs)) <= 5 =>
    \A i, j \in DOMAIN results : NarrowBeforeBroad(i, j)

\* The order in which the routes were collected does not choose the
\* interfaces, as long as no two of them have the same length.
RouteOrderIrrelevant ==
  LET other == [snapshot EXCEPT !.routes = Reverse(@)]
      lengths == {snapshot.routes[k].length : k \in DOMAIN snapshot.routes}
      again == Evaluate(other, request)
  IN  Cardinality(lengths) = Len(snapshot.routes) =>
        /\ Len(again) = Len(results)
        /\ \A k \in DOMAIN results : again[k].srcitf = results[k].srcitf
                                     /\ again[k].dstitf = results[k].dstitf

\* "The engine ranks collected policies by coverage": of two policies that
\* differ only in their sources, lists of the same length with nothing broad,
\* the one that covers the request does not come after the one that lacks its
\* sources.
CoveringRanksFirst ==
  \A i, j \in DOMAIN results :
    /\ Alike(results[i].policy, results[j].policy)
    /\ Len(results[i].policy.srcaddr) = Len(results[j].policy.srcaddr)
    /\ ~ IsBroad(results[i].policy.srcaddr) /\ ~ IsBroad(results[j].policy.srcaddr)
    /\ results[i].missing = {} /\ results[j].missing = {"srcaddr"}
    => results[i].score >= results[j].score

=============================================================================
