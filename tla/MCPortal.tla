------------------------------- MODULE MCPortal -------------------------------
(* What users do at the portal: administrators and clients (PortalAccess), a *)
(* walk over pages of policies (PolicyPages) and the arrangement of a        *)
(* dashboard (DashboardLayout).  The three share no state, so one of them    *)
(* moves while the others stay at rest.                                      *)
(* A dashboard has one tab, one service and two posts, but for one of them:  *)
(* it has two tabs, two services or three posts.                             *)
EXTENDS MCPortalAccess, PolicyPages, DashboardLayout

CONSTANTS t1, t2, c1, c2

VARIABLE part   \* what moves

portalVars == <<part, vars, pagesVars, layoutVars>>

MCTabs == {t1, t2}
MCCards == {c1, c2}
Dashboards == {"two tabs", "two cards", "three posts"}
Parts == {"access", "pages"} \cup Dashboards

Symmetry == WorkerSymmetry \cup Permutations(MCCards)

Policy(n, called, is) == [id |-> n, name |-> called, status |-> is]
MCPoliciesOf ==
  <<<<Policy(1, 2, "enable"), Policy(2, 1, "disable"), Policy(3, 2, "enable"),
      Policy(4, 3, "enable"), Policy(5, 1, "enable")>>,
    <<Policy(2, 1, "enable")>>>>

MCPortalInit ==
  /\ part \in Parts
  /\ Init /\ PagesInit /\ LayoutInit
  /\ part # "access" => \A o \in Objects : Exists(o) => o = CHOOSE u \in Users : TRUE
  /\ part # "pages" => script = "dos" /\ version = 1
  /\ subscribed = {}

Bounded ==
  /\ part # "two tabs" => page'[t2] = page[t2] /\ \A p \in posts' : p.tab # t2
  /\ part # "two cards" => subscribed' \subseteq {c1}
  /\ part # "three posts" => sent' <= 2

MCPortalNext ==
  /\ part' = part
  /\ \/ part = "access" /\ Next /\ UNCHANGED <<pagesVars, layoutVars>>
     \/ part = "pages" /\ PagesNext /\ UNCHANGED <<vars, layoutVars>>
     \/ part \in Dashboards /\ LayoutNext /\ Bounded /\ UNCHANGED <<vars, pagesVars>>

MCPortalSpec == MCPortalInit /\ [][MCPortalNext]_portalVars
=============================================================================
