-------------------------- MODULE MCPolicyEvaluation --------------------------
(* Snapshots of two policies over two groups of addresses, which may hold    *)
(* each other, and services with ranges, groups and ALL.  The scores of       *)
(* single policies share nothing with an evaluation but the data: they are    *)
(* explored beside one snapshot, while no request is made.                    *)
EXTENDS PolicyEvaluation, PolicyScores

CONSTANTS host, half, net, fqdn, g1, g2,    \* address names
          web, wide, mixed,                 \* service names
          port1, port2

Span(lo, hi, broad) == [group |-> <<>>, lo |-> lo, hi |-> hi, broad |-> broad]
Group(names) == [group |-> names, lo |-> 0, hi |-> 0, broad |-> FALSE]

Addresses(a, b) ==
  host :> Span(2, 2, FALSE) @@ half :> Span(4, 5, FALSE) @@ net :> Span(4, 7, FALSE)
    @@ All :> Span(0, 15, TRUE) @@ g1 :> Group(a) @@ g2 :> Group(b)

Service(group, ports, any) == [group |-> group, ports |-> ports, any |-> any]
Services ==
  web :> Service({}, {<<"tcp", 3>>}, FALSE)
    @@ wide :> Service({}, {<<"tcp", 4, 6>>, <<"udp", 3>>}, FALSE)
    @@ mixed :> Service({web, wide}, {}, FALSE) @@ All :> Service({}, {}, TRUE)

Route(lo, hi, length, interface, enabled) ==
  [lo |-> lo, hi |-> hi, length |-> length, interface |-> interface, enabled |-> enabled]
RouteTables ==
  {<<Route(0, 15, 0, port1, TRUE), Route(4, 7, 2, port2, TRUE)>>,
   <<Route(4, 7, 2, port2, FALSE), Route(0, 7, 1, port1, TRUE), Route(4, 5, 3, port2, TRUE)>>,
   <<Route(4, 7, 2, port2, TRUE), Route(4, 7, 2, port1, TRUE)>>}

Policy(id, src, service, itf, on) ==
  [id |-> id, srcaddr |-> src, dstaddr |-> <<net>>, service |-> service,
   srcintf |-> {AnyPort}, dstintf |-> itf, accept |-> TRUE, enabled |-> on]

Bodies == {<<host>>, <<host, g2>>, <<g1, net>>, <<fqdn, g1, host>>}
Sources == {<<g1>>, <<g1, g2>>, <<All>>, <<half>>}
OfServices == {<<mixed>>, <<All>>}

MCSnapshots ==
  {[addresses |-> Addresses(a, b), services |-> Services, routes |-> r,
    policies |-> <<Policy(1, src, sv, {port2}, TRUE), Policy(2, other, sv, {port2}, TRUE),
                   Policy(3, src, <<web>>, {port1}, src # <<g1>>)>>]
   : a \in Bodies \ {<<host>>}, b \in Bodies \ {<<host, g2>>}, r \in RouteTables, src \in Sources,
     other \in {<<net>>, <<g2, host>>}, sv \in OfServices}

From == {<<fqdn>>, <<g2>>, <<[lo |-> 4, hi |-> 7]>>, <<[lo |-> 5, hi |-> 5], host>>}
To == {<<half>>, <<[lo |-> 6, hi |-> 8]>>}
For == {<<>>, <<web>>, <<<<"port", 3>>>>, <<<<"tcp", 6>>, <<"tcp", 7>>>>, <<<<"udp", 5>>>>, <<<<"tcp", 5, 4>>>>}
MCRequests == {[srcs |-> s, dsts |-> d, srvs |-> v] : s \in From, d \in To, v \in For}

-----------------------------------------------------------------------------
Names(any, broad, other) == [any |-> any, broad |-> broad, other |-> other]
MCSides ==
  {Names(0, 0, 1), Names(0, 0, 21), Names(0, 1, 0), Names(0, 3, 0), Names(1, 0, 0), Names(1, 2, 0)}
MCTuned == {"tcp_syn_flood", "udp_flood", "ip_spoofing"}
Unscoped == [src |-> "none", dst |-> "none", service |-> FALSE]
MCScopes == {Unscoped, [src |-> "all", dst |-> "named", service |-> TRUE]}

Unscored == AllOff(Unscoped)
Sample == CHOOSE s \in Snapshots : TRUE

MCInit ==
  \/ Init /\ subject = Unscored
  \/ ScoresInit /\ snapshot = Sample /\ request = NoRequest /\ results = <<>>

MCNext ==
  \/ subject = Unscored /\ Next /\ UNCHANGED subject
  \/ snapshot = Sample /\ request = NoRequest /\ ScoresNext /\ UNCHANGED vars

MCSpec == MCInit /\ [][MCNext]_<<vars, subject>>

=============================================================================
