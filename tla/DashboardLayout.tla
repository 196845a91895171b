--------------------------- MODULE DashboardLayout ---------------------------
(***************************************************************************)
(* The cards of a client's dashboard: the layout stored with the user      *)
(* (client/dashboard_widgets.py, dashboard and dashboard_layout of         *)
(* client/routes.py) and the script of templates/client/dashboard.html,    *)
(* which after every change posts the whole list of visible cards.  The    *)
(* user may have several tabs open; posts overtake each other; the         *)
(* administrators give and take services meanwhile.                        *)
(***************************************************************************)
EXTENDS Naturals, FiniteSets, SequencesExt, Ordering

CONSTANTS
  CardServices,   \* services of the portal
  Catalog,        \* the card every client has
  Tabs,
  Closed,         \* the tab of a post nobody waits for any more
  Unset,          \* NULL: never customised
  MaxPosts        \* bound: posts made

Cards == CardServices \cup {Catalog}

ASSUME CardsAssumption ==
  /\ IsFiniteSet(CardServices) /\ Catalog \notin CardServices
  /\ Closed \notin Tabs /\ Unset \notin Seq(Cards)

VARIABLES
  subscribed,   \* the services with an active subscription
  stored,       \* users.dashboard_layout
  page,         \* of each tab: the cards shown, in order, and those in the tray
  posts,        \* the requests not yet answered, or not yet over
  sent,         \* posts made so far
  calm          \* history: when its page was loaded no request was at work; since then
                \* each change followed the answer to the one before, none was lost
                \* from sight, and nobody else changed anything

layoutVars == <<subscribed, stored, page, posts, sent, calm>>

Available == subscribed \cup {Catalog}

\* The keys that are in S, in the order given.
Kept(keys, S) == At(keys, {n \in DOMAIN keys : keys[n] \in S})

\* Faulty: an empty list counts as never customised.
ResolveFalsy(order) ==
  LET keys == IF stored \in {Unset, <<>>} THEN order ELSE Kept(stored, Available)
  IN  [shown |-> keys, tray |-> Available \ ToSet(keys)]

\* Keys that are known.  The browser sends no key twice.
Sanitize(keys) == Kept(keys, Available)

\* Services come in the order the database pleases, the catalogue last.
Orders == {Append(s, Catalog) : s \in SetToSeqs(subscribed)}
Resolve(order) ==
  LET keys == IF stored = Unset THEN order ELSE Sanitize(stored)
  IN  [shown |-> keys, tray |-> Available \ ToSet(keys)]

LayoutInit ==
  /\ subscribed \in SUBSET CardServices
  /\ stored = Unset
  /\ page \in [Tabs -> {Resolve(order) : order \in Orders}]
  /\ posts = {} /\ sent = 0
  /\ calm = [t \in Tabs |-> TRUE]

\* Leaving a page does not recall its posts; a closed post is over when it is saved.
Close(ps) == {[p EXCEPT !.tab = Closed] : p \in {q \in ps : q.step # "saved"}}
LeftBehind(t) == {p \in posts : p.tab # t} \cup Close({p \in posts : p.tab = t})

Load(t, atWork) ==
  /\ \E order \in Orders : page' = [page EXCEPT ![t] = Resolve(order)]
  /\ posts' = atWork
  /\ calm' = [calm EXCEPT ![t] = atWork = {}]
  /\ UNCHANGED <<subscribed, stored, sent>>

Open(t) == Load(t, LeftBehind(t))

Post(t, body) ==
  /\ sent < MaxPosts
  /\ sent' = sent + 1
  /\ posts' = posts \cup {[nr |-> sent, tab |-> t, body |-> body, step |-> "sent"]}
  /\ calm' = [s \in Tabs |-> s = t /\ calm[t] /\ posts = {}]
  /\ UNCHANGED <<subscribed, stored>>

\* Change what tab t shows, and post all of it.
Save(t, shown, tray) ==
  /\ page' = [page EXCEPT ![t] = [shown |-> shown, tray |-> tray]]
  /\ Post(t, shown)

Hide(t, k) ==
  /\ k \in ToSet(page[t].shown)
  /\ Save(t, Kept(page[t].shown, Cards \ {k}), page[t].tray \cup {k})

AddBack(t, k) ==
  /\ k \in page[t].tray
  /\ Save(t, Append(page[t].shown, k), page[t].tray \ {k})

\* The arrows move a card by one, dragging moves it anywhere.
Arrange(t, i, j) ==
  /\ {i, j} \subseteq DOMAIN page[t].shown
  /\ Save(t, InsertAt(RemoveAt(page[t].shown, i), j, page[t].shown[i]), page[t].tray)

Reset(t) == Post(t, Unset) /\ UNCHANGED page

\* The handler reads the user and the services, and assigns the layout.
Handle(p) ==
  /\ p.step = "sent"
  /\ LET new == IF p.body = Unset THEN Unset ELSE Sanitize(p.body)
         handled == [p EXCEPT !.body = new, !.step = IF new = stored THEN "same" ELSE "new"]
     IN  posts' = (posts \ {p}) \cup {handled}
  /\ UNCHANGED <<subscribed, stored, page, sent, calm>>

\* An assignment of the value that was read writes nothing.  What was saved
\* no longer matters, but that it was a reset.
CommitLayout(p) ==
  /\ p.step \in {"same", "new"}
  /\ stored' = IF p.step = "same" THEN stored ELSE p.body
  /\ LET saved == [p EXCEPT !.step = "saved", !.body = IF @ = Unset THEN Unset ELSE <<>>]
     IN  posts' = (posts \ {p}) \cup (IF p.tab = Closed THEN {} ELSE {saved})
  /\ UNCHANGED <<subscribed, page, sent, calm>>

\* After a reset the page is loaded again.
Confirm(p) ==
  /\ p.step = "saved"
  /\ IF p.body = Unset THEN Load(p.tab, LeftBehind(p.tab))
     ELSE posts' = posts \ {p} /\ UNCHANGED <<subscribed, stored, page, sent, calm>>

\* The request does not arrive, is refused, or its commit is rolled back: nothing
\* is stored.  After a save the page is loaded again, after a reset there is only
\* a message.
Refuse(p) ==
  /\ p.step # "saved"
  /\ IF p.body # Unset /\ p.tab # Closed
     THEN Load(p.tab, LeftBehind(p.tab) \ Close({p}))
     ELSE posts' = posts \ {p} /\ UNCHANGED <<subscribed, stored, page, sent, calm>>

\* The browser loses the connection, and does the same; the handler goes on, and may
\* commit when the page has been loaded again.
Lose(p) ==
  /\ p.tab # Closed
  /\ IF p.body # Unset THEN Load(p.tab, LeftBehind(p.tab))
     ELSE /\ posts' = (posts \ {p}) \cup Close({p})
          /\ calm' = [calm EXCEPT ![p.tab] = FALSE]
          /\ UNCHANGED <<subscribed, stored, page, sent>>

Subscribe ==
  /\ \E s \in CardServices \ subscribed : subscribed' = subscribed \cup {s}
  /\ calm' = [t \in Tabs |-> FALSE]
  /\ UNCHANGED <<stored, page, posts, sent>>

Unsubscribe ==
  /\ \E s \in subscribed : subscribed' = subscribed \ {s}
  /\ UNCHANGED <<stored, page, posts, sent, calm>>

LayoutNext ==
  \/ \E t \in Tabs :
       \/ Open(t) \/ Reset(t)
       \/ \E k \in Cards : Hide(t, k) \/ AddBack(t, k)
       \/ \E i, j \in DOMAIN page[t].shown : Arrange(t, i, j)
  \/ \E p \in posts : Handle(p) \/ CommitLayout(p) \/ Confirm(p) \/ Refuse(p) \/ Lose(p)
  \/ Subscribe \/ Unsubscribe

LayoutSpec == LayoutInit /\ [][LayoutNext]_layoutVars

(***************************************************************************)
(* Properties                                                              *)
(***************************************************************************)

\* One change at a time, whatever failed on the server and whoever lost a service
\* meanwhile: once all is answered, loading the page again shows what the tab shows.
\* An empty dashboard stays empty, and one never customised has every card.  A page
\* that was loaded again while the request it gave up was still at work is not calm:
\* the late commit replaces the layout it shows, and nothing tells it.
CalmSaveIsShown ==
  \A t \in Tabs :
    calm[t] /\ posts = {} =>
      IF stored = Unset THEN Available \subseteq ToSet(page[t].shown)
      ELSE Resolve(<<>>).shown = Sanitize(page[t].shown)
=============================================================================
