----------------------------- MODULE PolicyPages -----------------------------
(***************************************************************************)
(* A client walks through the results of a search, page by page.  The      *)
(* pages of the policy catalogue and of the risk assessment run the same   *)
(* script (templates/client/policy_catalog.html, risk_assessment.html)     *)
(* over services/policy_search.py and services/risk_assessment.py; the     *)
(* page of DoS policies (dos_policies.html) has another, over the live     *)
(* list of the firewall.  Each request is answered from the policies as    *)
(* they are when it is served; nothing ties a page to the one before, nor  *)
(* an answer to the last search.                                           *)
(***************************************************************************)
EXTENDS Naturals, FiniteSets, SequencesExt, Ordering

CONSTANTS
  Versions,       \* the snapshots, or the states of the firewall
  PoliciesOf,     \* PoliciesOf[v]: its policies, in order
  PageLimit,      \* policies to a page
  MaxRequests,    \* bound: requests on their way at a time
  MaxPage         \* bound: pages the DoS script counts

\* The names of policies are numbers, in the order of the names.
ASSUME PagesAssumption ==
  /\ PageLimit \in Nat \ {0} /\ MaxPage \in Nat
  /\ \A v \in Versions :
       PoliciesOf[v] \in Seq([id: Nat, name: Nat, status: {"enable", "disable"}])

VARIABLES
  script,         \* which of the two scripts the browser runs
  version,        \* what a request is answered from
  form,           \* the filter and the order as the browser has them
  currentPage,
  totalResults,   \* of the answer shown last
  table,          \* are there rows in view, of which search, and from which offset
  nav,            \* can Next be pressed?
  requests,       \* on their way to the server
  answers,        \* on their way back
  walk,           \* history: the rows shown by Next after Next since page 0
  single          \* history: was the last request made with none on its way, and
                  \* nothing typed since?

pagesVars ==
  <<script, version, form, currentPage, totalResults, table, nav, requests, answers, walk, single>>

Forms == [status: {"any", "enable"}, sortBy: {"id", "name"}, descending: BOOLEAN]
NoFilter == [status |-> "any", sortBy |-> "id", descending |-> FALSE]
NoTable == [visible |-> FALSE, offset |-> 0, form |-> NoFilter]
Disturbed == [on |-> FALSE, rows |-> <<>>]

PagesInit ==
  /\ script \in {"catalog", "dos"}
  /\ version \in Versions
  /\ form = NoFilter
  /\ currentPage = 0 /\ totalResults = 0
  /\ table = NoTable
  /\ nav = FALSE
  /\ requests = {[form |-> form, offset |-> 0]} /\ answers = {}
  /\ walk = [on |-> TRUE, rows |-> <<>>] /\ single = TRUE

(***************************************************************************)
(* The server                                                              *)
(***************************************************************************)

\* The places of the policies that pass the filter.
Matching(policies, f) == {n \in DOMAIN policies : f.status \in {"any", policies[n].status}}

\* list.sort: stable, also when reversed.
Before(policies, f, m, n) ==
  LET Key(i) == IF f.sortBy = "id" THEN policies[i].id ELSE policies[i].name
  IN  \/ IF f.descending THEN Key(m) > Key(n) ELSE Key(m) < Key(n)
      \/ Key(m) = Key(n) /\ m < n

Sorted(policies, f) ==
  LET places == Matching(policies, f)
      order == InOrder(places, {p \in places \X places : Before(policies, f, p[1], p[2])})
  IN  [k \in 1 .. Cardinality(places) |-> policies[order[k]]]

Listing(f) == Sorted(PoliciesOf[version], f)

\* Faulty: each page begins with the last row of the one before.
SliceOverlapping(list, offset) ==
  SubSeq(list, IF offset = 0 THEN 1 ELSE offset, Min({offset + PageLimit - 1, Len(list)}))

Slice(list, offset) == SubSeq(list, offset + 1, Min({offset + PageLimit, Len(list)}))

Answer(r) ==
  [rows |-> Slice(Listing(r.form), r.offset), offset |-> r.offset, form |-> r.form,
   total |-> Len(Listing(r.form)), failed |-> FALSE]

Serve(r) ==
  /\ requests' = requests \ {r}
  /\ answers' = answers \cup {Answer(r)}
  /\ UNCHANGED <<script, version, form, currentPage, totalResults, table, nav, walk, single>>

Failure == [rows |-> <<>>, offset |-> 0, form |-> NoFilter, total |-> 0, failed |-> TRUE]

\* No snapshot, no firewall, no connection: the client learns of a failure.
ServeFails(r) ==
  /\ requests' = requests \ {r}
  /\ answers' = answers \cup {Failure}
  /\ UNCHANGED <<script, version, form, currentPage, totalResults, table, nav, walk, single>>

\* A collection is published, or the firewall is configured.
Publish ==
  /\ \E v \in Versions \ {version} : version' = v
  /\ walk' = Disturbed
  /\ UNCHANGED <<script, form, currentPage, totalResults, table, nav, requests, answers, single>>

(***************************************************************************)
(* The browser                                                             *)
(***************************************************************************)

Waiting == requests \cup answers # {}

\* A walk is undisturbed while each page is asked for after the last was shown.
Walked(press) ==
  walk' = IF Waiting THEN Disturbed
          ELSE IF press = "next" THEN walk
          ELSE IF press = "load" THEN [on |-> TRUE, rows |-> <<>>]
          ELSE Disturbed

\* fetch: the table is hidden until the answer; the catalogue hides the
\* buttons too.
Ask(press, f, page) ==
  /\ Cardinality(requests \cup answers) < MaxRequests
  /\ requests' = requests \cup {[form |-> f, offset |-> page * PageLimit]}
  /\ table' = NoTable
  /\ Walked(press) /\ single' = ~ Waiting
  /\ UNCHANGED <<script, version, totalResults, answers>>

\* A new filter typed, not submitted.
TypeFilter ==
  /\ \E s \in {"any", "enable"} : form' = [form EXCEPT !.status = s]
  /\ form' # form
  /\ walk' = Disturbed /\ single' = FALSE
  /\ UNCHANGED <<script, version, currentPage, totalResults, table, nav, requests, answers>>

\* The catalogue: the page is an argument, and set by its answer.
Search ==
  /\ script = "catalog"
  /\ Ask("load", form, 0) /\ nav' = FALSE
  /\ UNCHANGED <<form, currentPage>>

\* Faulty: the filter is not sent along.
NextPageUnfiltered ==
  /\ script = "catalog" /\ nav
  /\ (currentPage + 1) * PageLimit < totalResults
  /\ Ask("next", NoFilter, currentPage + 1) /\ nav' = FALSE
  /\ UNCHANGED <<form, currentPage>>

NextPage ==
  /\ script = "catalog" /\ nav
  /\ (currentPage + 1) * PageLimit < totalResults
  /\ Ask("next", form, currentPage + 1) /\ nav' = FALSE
  /\ UNCHANGED <<form, currentPage>>

PrevPage ==
  /\ script = "catalog" /\ nav /\ currentPage > 0
  /\ Ask("prev", form, currentPage - 1) /\ nav' = FALSE
  /\ UNCHANGED <<form, currentPage>>

\* The DoS policies: the page moves first, and the buttons stay as they were.
\* The new filter, and a new order, are asked for at the current page.
ApplyFilters ==
  /\ script = "dos"
  /\ Ask(IF currentPage = 0 THEN "load" ELSE "apply", form, currentPage)
  /\ UNCHANGED <<form, currentPage, nav>>

SortTable ==
  /\ script = "dos"
  /\ \E field \in {"id", "name"} :
       form' = IF field = form.sortBy THEN [form EXCEPT !.descending = ~ @]
               ELSE [form EXCEPT !.sortBy = field, !.descending = FALSE]
  /\ Ask(IF currentPage = 0 THEN "load" ELSE "apply", form', currentPage)
  /\ UNCHANGED <<currentPage, nav>>

ClearFilters ==
  /\ form' = [form EXCEPT !.status = "any"]
  /\ currentPage' = IF script = "dos" THEN 0 ELSE currentPage
  /\ nav' = (nav /\ script = "dos")
  /\ Ask("load", form', 0)

NextLive ==
  /\ script = "dos" /\ nav /\ currentPage < MaxPage
  /\ currentPage' = currentPage + 1
  /\ Ask("next", form, currentPage')
  /\ UNCHANGED <<form, nav>>

PrevLive ==
  /\ script = "dos"
  /\ currentPage' = IF currentPage > 0 THEN currentPage - 1 ELSE 0
  /\ Ask("prev", form, currentPage')
  /\ UNCHANGED <<form, nav>>

\* floor(offset / limit); the catalogue computes whether there is a next page,
\* the server of the DoS policies says it.
Show(a) ==
  /\ answers' = answers \ {a}
  /\ totalResults' = a.total
  /\ table' = IF a.rows = <<>> THEN NoTable
               ELSE [visible |-> TRUE, offset |-> a.offset, form |-> a.form]
  /\ walk' = IF walk.on THEN [walk EXCEPT !.rows = @ \o a.rows] ELSE walk
  /\ IF script = "catalog"
     THEN currentPage' = a.offset \div PageLimit /\ nav' = (a.total > 0)
     ELSE nav' = (a.offset + PageLimit < a.total) /\ UNCHANGED currentPage
  /\ UNCHANGED <<script, version, form, requests, single>>

ShowFailure(a) ==
  /\ answers' = answers \ {a}
  /\ walk' = Disturbed
  /\ UNCHANGED <<script, version, form, currentPage, totalResults, table, nav, requests, single>>

PagesNext ==
  \/ \E r \in requests : Serve(r) \/ ServeFails(r)
  \/ \E a \in answers : IF a.failed THEN ShowFailure(a) ELSE Show(a)
  \/ Publish \/ TypeFilter
  \/ Search \/ NextPage \/ PrevPage
  \/ ApplyFilters \/ SortTable \/ ClearFilters \/ NextLive \/ PrevLive

PagesSpec == PagesInit /\ [][PagesNext]_pagesVars

(***************************************************************************)
(* Properties                                                              *)
(***************************************************************************)

NextOffered == nav /\ (script = "dos" \/ (currentPage + 1) * PageLimit < totalResults)

\* Page after page, each asked for when the last is in view, with nothing
\* published in between: every matching policy is shown once, in order, and
\* Next is offered as long as one is missing.
WalkShowsEachOnce ==
  walk.on /\ ~ Waiting =>
    /\ walk.rows = SubSeq(Listing(form), 1, Len(walk.rows))
    /\ NextOffered <=> walk.rows # Listing(form)

\* Whatever answers are late, lost or of an older search, the catalogue's Next asks
\* for the offset that follows the rows in view.  It asks with the filters as they
\* are now: when the last search was made with no request on its way, and nothing was
\* typed since, that is the next page of the listing in view.  Else it may be a page
\* of another listing, at the offset of this one.
NextFollowsTable ==
  [][NextPage => \E r \in requests' :
                   /\ table.visible /\ r.offset = table.offset + PageLimit
                   /\ single => r.form = table.form]_pagesVars
=============================================================================
