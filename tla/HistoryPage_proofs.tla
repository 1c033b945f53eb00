------------------------- MODULE HistoryPage_proofs -------------------------
(***************************************************************************)
(* The history page keeps its types, one timer at most moves its playback, *)
(* the replay it draws is that of the selection, and no run has two rows,  *)
(* for any number of runs, agents, filters, requests and failures.         *)
(***************************************************************************)
EXTENDS HistoryPage, FiniteSetTheorems, SequenceTheorems, WellFoundedInduction, TLAPS

-----------------------------------------------------------------------------
(* The inductive invariant.                                                *)

Fields == {"view", "filter", "items", "cursor", "loading", "epoch", "notice", "sel",
           "selEpoch", "detail", "detailLoading", "agent", "replayLoading", "data",
           "playing", "timer", "position", "intervals", "lists", "loads", "store"}

Shape(p) == DOMAIN p = Fields

Views == {"history", "replay", "workspace"}
Cursors == [filter : Filters, after : Runs]
Stores == [run : Runs \cup {None}, agent : Agents, known : BOOLEAN,
           summary : Agents \cup {None}, request : StoreRequests \cup {None}]

\* Rows are terminal runs, none of them twice.
RowsOK(rows, dn) == rows \in Seq(dn) /\ IsInjective(rows)

AnswerOK(a, dn) == RowsOK(a.rows, dn) /\ a.cursor \in Cursors \cup {None}

ListCallOK(l, epoch, dn) ==
  /\ DOMAIN l = {"epoch", "filter", "cursor", "prior", "link", "open", "answer"}
  /\ l.epoch \in 1 .. epoch /\ l.filter \in Filters /\ l.cursor \in Cursors \cup {None}
  /\ l.link \in Runs \cup {None} /\ l.open \in Opens
  /\ RowsOK(l.prior, dn)
  /\ l.answer # None => AnswerOK(l.answer, dn)

ListOK(p, dn) ==
  /\ p.filter \in Filters /\ p.cursor \in Cursors \cup {None} /\ p.epoch \in Nat
  /\ RowsOK(p.items, dn)
  /\ \A l \in p.lists : ListCallOK(l, p.epoch, dn)

LoadOK(l, epoch) ==
  l.run \in Runs /\ l.agent \in Agents /\ l.epoch \in 1 .. epoch /\ l.open \in Opens

RequestOK(req, epoch) == req.then # "none" => req.epoch \in 1 .. epoch

ReplayTypes(p, dn) ==
  /\ p.view \in Views /\ p.sel \in dn \cup {None} /\ p.selEpoch \in Nat
  /\ p.sel # None => p.selEpoch > 0
  /\ p.detail \in Runs \cup {None} /\ p.agent \in Agents
  /\ p.data \in {None} \cup [run : Runs, agent : Agents]
  /\ p.position \in 0 .. Points - 1
  /\ \A l \in p.loads : LoadOK(l, p.selEpoch)

\* What the store knows of the run it follows; a request of it is one for
\* results that are not there.
StoreOK(s, epoch, dn) ==
  /\ s \in Stores
  /\ s.known => s.run \in dn
  /\ s.summary # None => s.known /\ s.summary = s.agent /\ ArtifactGate(s.run)
  /\ s.request # None => s.summary = None /\ RequestOK(s.request, epoch)

TimerOK(p) ==
  /\ p.intervals = IF p.timer THEN 1 ELSE 0
  /\ p.playing = p.timer /\ p.timer \in BOOLEAN
  /\ p.timer => p.view = "replay"

\* What waits for the store and is not superseded.
WaitsFor(p, then) ==
  p.store.request # None /\ p.store.request.then = then /\ p.store.request.epoch = p.selEpoch

Opening(p, l) == l \in p.loads /\ l.epoch = p.selEpoch /\ l.open # None

\* A load that will change the view is the only one of its selection, there is
\* nothing to play before it ends, and no agent can be chosen.
OpeningOK(p) ==
  \A l \in p.loads : Opening(p, l) =>
      /\ p.data = None /\ ~p.timer /\ (p.replayLoading \/ p.sel = None)
      /\ \A m \in p.loads : m.epoch = p.selEpoch => m = l
      /\ ~WaitsFor(p, "agent")

\* A selection that waits for its detail has nothing to play and no loads.
SelectionOK(p) ==
  WaitsFor(p, "select") =>
      /\ p.detail = None /\ p.data = None /\ ~p.timer
      /\ \A l \in p.loads : l.epoch # p.selEpoch

\* Points of another run or agent are on the page only while the store
\* follows something else or is asked for the agent, so they are not drawn.
Mismatch(p) ==
  /\ p.data # None /\ p.data # [run |-> p.sel, agent |-> p.agent]
  /\ p.sel # None /\ p.detail = p.sel /\ ArtifactGate(p.sel) /\ p.store.run = p.sel

DataOK(p) ==
  Mismatch(p) => WaitsFor(p, "agent") /\ p.store.request.run = p.sel

ReplayOK(p, dn) ==
  /\ ReplayTypes(p, dn) /\ StoreOK(p.store, p.selEpoch, dn)
  /\ TimerOK(p) /\ OpeningOK(p) /\ SelectionOK(p) /\ DataOK(p)

PageOK(p, dn) == Shape(p) /\ ListOK(p, dn) /\ ReplayOK(p, dn)

InputBounds == inputs \in 0 .. MaxInputs /\ failures \in 0 .. MaxFailures

HInv == done \subseteq Runs /\ InputBounds /\ PageOK(hist, done)

-----------------------------------------------------------------------------
(* What the two groups of conditions read.                                 *)

ListPart(p) == <<p.filter, p.items, p.cursor, p.epoch, p.lists>>

ReplayPart(p) == <<p.view, p.sel, p.selEpoch, p.detail, p.agent, p.replayLoading, p.data,
                   p.playing, p.timer, p.position, p.intervals, p.loads, p.store>>

LEMMA ListFrame ==
  ASSUME NEW p, NEW q, NEW dn, ListPart(q) = ListPart(p), ListOK(p, dn)
  PROVE  ListOK(q, dn)
<1>1. /\ q.filter = p.filter /\ q.items = p.items /\ q.cursor = p.cursor
      /\ q.epoch = p.epoch /\ q.lists = p.lists
  BY DEF ListPart
<1> QED
  BY <1>1 DEF ListOK

LEMMA ReplayFrame ==
  ASSUME NEW p, NEW q, NEW dn, ReplayPart(q) = ReplayPart(p), ReplayOK(p, dn)
  PROVE  ReplayOK(q, dn)
<1>1. /\ q.view = p.view /\ q.sel = p.sel /\ q.selEpoch = p.selEpoch /\ q.detail = p.detail
      /\ q.agent = p.agent /\ q.replayLoading = p.replayLoading /\ q.data = p.data
      /\ q.playing = p.playing /\ q.timer = p.timer /\ q.position = p.position
      /\ q.intervals = p.intervals /\ q.loads = p.loads /\ q.store = p.store
  BY DEF ReplayPart
<1>2. ReplayTypes(q, dn) /\ StoreOK(q.store, q.selEpoch, dn) /\ TimerOK(q)
  BY <1>1 DEF ReplayOK, ReplayTypes, TimerOK
<1>3. \A then : WaitsFor(q, then) <=> WaitsFor(p, then)
  BY <1>1 DEF WaitsFor
<1>4. \A l : Opening(q, l) <=> Opening(p, l)
  BY <1>1 DEF Opening
<1>5. OpeningOK(q) /\ SelectionOK(q)
  BY <1>1, <1>3, <1>4 DEF ReplayOK, OpeningOK, SelectionOK
<1>6. DataOK(q)
  BY <1>1, <1>3 DEF ReplayOK, DataOK, Mismatch
<1> QED
  BY <1>2, <1>5, <1>6 DEF ReplayOK

\* More runs end.
LEMMA RowsGrow ==
  ASSUME NEW dn, NEW dn2, dn \subseteq dn2, NEW rows, RowsOK(rows, dn)
  PROVE  RowsOK(rows, dn2)
  BY SeqMonotonic DEF RowsOK

LEMMA PageGrows ==
  ASSUME NEW dn, NEW dn2, dn \subseteq dn2, NEW p, PageOK(p, dn)
  PROVE  PageOK(p, dn2)
<1>1. \A l \in p.lists : ListCallOK(l, p.epoch, dn2)
  BY RowsGrow DEF PageOK, ListOK, ListCallOK, AnswerOK
<1>2. ListOK(p, dn2)
  BY <1>1, RowsGrow DEF PageOK, ListOK
<1>3. ReplayTypes(p, dn2) /\ StoreOK(p.store, p.selEpoch, dn2)
  BY DEF PageOK, ReplayOK, ReplayTypes, StoreOK
<1> QED
  BY <1>2, <1>3 DEF PageOK, ReplayOK

-----------------------------------------------------------------------------
(* The functions of the replay.                                            *)

LEMMA Stopped ==
  ASSUME NEW p, Shape(p), TimerOK(p)
  PROVE  LET q == StopPlayback(p)
         IN /\ Shape(q) /\ ListPart(q) = ListPart(p)
            /\ ~q.timer /\ q.timer = FALSE /\ q.playing = FALSE /\ q.intervals = 0
            /\ q.view = p.view /\ q.sel = p.sel /\ q.selEpoch = p.selEpoch
            /\ q.detail = p.detail /\ q.agent = p.agent
            /\ q.replayLoading = p.replayLoading /\ q.data = p.data
            /\ q.position = p.position /\ q.loads = p.loads /\ q.store = p.store
  BY DEF Shape, Fields, TimerOK, StopPlayback, ListPart

\* Stopping the playback is always fine.
LEMMA StoppedOK ==
  ASSUME NEW p, NEW dn, Shape(p), ReplayOK(p, dn)
  PROVE  ReplayOK(StopPlayback(p), dn)
<1> DEFINE q == StopPlayback(p)
<1>1. /\ q.timer = FALSE /\ q.playing = FALSE /\ q.intervals = 0
      /\ q.view = p.view /\ q.sel = p.sel /\ q.selEpoch = p.selEpoch
      /\ q.detail = p.detail /\ q.agent = p.agent
      /\ q.replayLoading = p.replayLoading /\ q.data = p.data
      /\ q.position = p.position /\ q.loads = p.loads /\ q.store = p.store
  BY Stopped DEF ReplayOK
<1> HIDE DEF q
<1>2. ReplayTypes(q, dn) /\ StoreOK(q.store, q.selEpoch, dn) /\ TimerOK(q)
  BY <1>1 DEF ReplayOK, ReplayTypes, TimerOK
<1>3. \A then : WaitsFor(q, then) <=> WaitsFor(p, then)
  BY <1>1 DEF WaitsFor
<1>4. \A l : Opening(q, l) <=> Opening(p, l)
  BY <1>1 DEF Opening
<1>5. OpeningOK(q) /\ SelectionOK(q)
  BY <1>1, <1>3, <1>4 DEF ReplayOK, OpeningOK, SelectionOK
<1>6. DataOK(q)
  BY <1>1, <1>3 DEF ReplayOK, DataOK, Mismatch
<1> QED
  BY <1>2, <1>5, <1>6 DEF ReplayOK, q

\* The view the button asked for, when nothing plays.
LEMMA OpenedOK ==
  ASSUME NEW p, NEW dn, Shape(p), ReplayOK(p, dn), NEW epoch, NEW open \in Opens,
         open # None /\ p.selEpoch = epoch => ~p.timer
  PROVE  LET q == Opened(p, epoch, open)
         IN Shape(q) /\ ListPart(q) = ListPart(p) /\ ReplayOK(q, dn)
<1>1. CASE ~(open # None /\ p.selEpoch = epoch)
  BY <1>1 DEF Opened
<1>2. CASE open # None /\ p.selEpoch = epoch
  <2> DEFINE q == [p EXCEPT !.view = open]
  <2>1. /\ Shape(q) /\ ListPart(q) = ListPart(p) /\ q.view = open
        /\ q.sel = p.sel /\ q.selEpoch = p.selEpoch /\ q.detail = p.detail
        /\ q.agent = p.agent /\ q.replayLoading = p.replayLoading /\ q.data = p.data
        /\ q.playing = p.playing /\ q.timer = p.timer /\ q.position = p.position
        /\ q.intervals = p.intervals /\ q.loads = p.loads /\ q.store = p.store
    BY DEF Shape, Fields, ListPart
  <2> HIDE DEF q
  <2>2. open \in Views
    BY <1>2 DEF Opens, Views
  <2>3. ReplayTypes(q, dn) /\ StoreOK(q.store, q.selEpoch, dn) /\ TimerOK(q)
    BY <1>2, <2>1, <2>2 DEF ReplayOK, ReplayTypes, TimerOK
  <2>4. \A then : WaitsFor(q, then) <=> WaitsFor(p, then)
    BY <2>1 DEF WaitsFor
  <2>5. \A l : Opening(q, l) <=> Opening(p, l)
    BY <2>1 DEF Opening
  <2>6. OpeningOK(q) /\ SelectionOK(q)
    BY <2>1, <2>4, <2>5 DEF ReplayOK, OpeningOK, SelectionOK
  <2>7. DataOK(q)
    BY <2>1, <2>4 DEF ReplayOK, DataOK, Mismatch
  <2> QED
    BY <1>2, <2>1, <2>3, <2>6, <2>7 DEF ReplayOK, Opened, q
<1> QED
  BY <1>1, <1>2

\* A load of the selection whose detail is there: allowed when no other load
\* of it will change the view and no detail is awaited; one that will change
\* the view itself also needs that nothing plays or loads or waits.
LEMMA LoadReplayOK ==
  ASSUME NEW p, NEW dn, dn \subseteq Runs, Shape(p), ReplayTypes(p, dn),
         StoreOK(p.store, p.selEpoch, dn), TimerOK(p),
         NEW epoch, epoch = p.selEpoch, NEW open \in Opens,
         ~WaitsFor(p, "select"), \A l \in p.loads : ~Opening(p, l),
         open # None => /\ p.data = None /\ ~p.timer /\ ~WaitsFor(p, "agent")
                        /\ \A l \in p.loads : l.epoch # p.selEpoch
  PROVE  LET q == LoadReplay(p, epoch, open)
         IN Shape(q) /\ ListPart(q) = ListPart(p) /\ ReplayOK(q, dn)
<1>1. CASE p.sel = None \/ p.detail = None \/ ~ArtifactGate(p.detail)
  <2>1. OpeningOK(p) /\ SelectionOK(p)
    BY DEF OpeningOK, SelectionOK
  <2>2. DataOK(p)
    BY <1>1 DEF DataOK, Mismatch
  <2>3. ReplayOK(p, dn)
    BY <2>1, <2>2 DEF ReplayOK
  <2> QED
    BY <1>1, <2>3, OpenedOK DEF LoadReplay
<1>2. CASE ~(p.sel = None \/ p.detail = None \/ ~ArtifactGate(p.detail))
  <2> DEFINE id == CHOOSE i \in 0 .. Cardinality(p.loads) : \A l \in p.loads : l.id # i
             new == [id |-> id, run |-> p.sel, agent |-> p.agent, epoch |-> epoch,
                     open |-> open]
             q == [p EXCEPT !.replayLoading = TRUE, !.data = None,
                            !.loads = @ \cup {new}]
  <2>1. LoadReplay(p, epoch, open) = q
    BY <1>2 DEF LoadReplay
  <2> HIDE DEF id
  <2>2. new.run = p.sel /\ new.agent = p.agent /\ new.epoch = epoch /\ new.open = open
    OBVIOUS
  <2> HIDE DEF new
  <2>3. /\ Shape(q) /\ ListPart(q) = ListPart(p) /\ q.view = p.view
        /\ q.sel = p.sel /\ q.selEpoch = p.selEpoch /\ q.detail = p.detail
        /\ q.agent = p.agent /\ q.replayLoading = TRUE /\ q.data = None
        /\ q.playing = p.playing /\ q.timer = p.timer /\ q.position = p.position
        /\ q.intervals = p.intervals /\ q.loads = p.loads \cup {new} /\ q.store = p.store
    BY DEF Shape, Fields, ListPart
  <2> HIDE DEF q
  <2>4. LoadOK(new, p.selEpoch)
    BY <1>2, <2>2 DEF LoadOK, ReplayTypes
  <2>5. ReplayTypes(q, dn) /\ StoreOK(q.store, q.selEpoch, dn) /\ TimerOK(q)
    BY <2>3, <2>4 DEF ReplayTypes, TimerOK
  <2>6. \A then : WaitsFor(q, then) <=> WaitsFor(p, then)
    BY <2>3 DEF WaitsFor
  <2>7. \A l : Opening(q, l) => l = new /\ open # None
    BY <2>2, <2>3 DEF Opening
  <2>8. OpeningOK(q)
    BY <2>3, <2>6, <2>7 DEF OpeningOK
  <2>9. SelectionOK(q)
    BY <2>6 DEF SelectionOK
  <2>10. DataOK(q)
    BY <2>3 DEF DataOK, Mismatch
  <2> QED
    BY <2>1, <2>3, <2>5, <2>8, <2>9, <2>10 DEF ReplayOK
<1> QED
  BY <1>1, <1>2

\* An answer of a load: points of the selection, or none.
LEMMA FinishedOK ==
  ASSUME NEW p, NEW dn, Shape(p), ReplayOK(p, dn), NEW l \in p.loads,
         NEW data \in {None, [run |-> l.run, agent |-> l.agent]}
  PROVE  LET q == Finished(p, l, data)
         IN Shape(q) /\ ListPart(q) = ListPart(p) /\ ReplayOK(q, dn)
<1> DEFINE r == [p EXCEPT !.loads = @ \ {l}]
           q == Landed(r, l, data)
<1>1. LoadOK(l, p.selEpoch) /\ ReplayTypes(p, dn)
  BY DEF ReplayOK, ReplayTypes
<1>2. /\ Shape(r) /\ ListPart(r) = ListPart(p) /\ r.view = p.view /\ r.sel = p.sel
      /\ r.selEpoch = p.selEpoch /\ r.detail = p.detail /\ r.agent = p.agent
      /\ r.replayLoading = p.replayLoading /\ r.data = p.data /\ r.playing = p.playing
      /\ r.timer = p.timer /\ r.position = p.position /\ r.intervals = p.intervals
      /\ r.loads = p.loads \ {l} /\ r.store = p.store
  BY DEF Shape, Fields, ListPart
<1> HIDE DEF r
<1>3. ReplayOK(r, dn)
  <2>1. ReplayTypes(r, dn) /\ StoreOK(r.store, r.selEpoch, dn) /\ TimerOK(r)
    BY <1>2 DEF ReplayOK, ReplayTypes, TimerOK
  <2>2. \A then : WaitsFor(r, then) <=> WaitsFor(p, then)
    BY <1>2 DEF WaitsFor
  <2>3. \A m : Opening(r, m) => Opening(p, m)
    BY <1>2 DEF Opening
  <2>4. OpeningOK(r) /\ SelectionOK(r)
    BY <1>2, <2>2, <2>3 DEF ReplayOK, OpeningOK, SelectionOK
  <2>5. DataOK(r)
    BY <1>2, <2>2 DEF ReplayOK, DataOK, Mismatch
  <2> QED
    BY <2>1, <2>4, <2>5 DEF ReplayOK
<1>4. Opening(p, l) => ~p.timer
  BY DEF ReplayOK, OpeningOK
<1>5. /\ Shape(q) /\ ListPart(q) = ListPart(p) /\ ReplayOK(q, dn)
      /\ q.selEpoch = p.selEpoch /\ q.timer = p.timer
  <2>1. CASE ~(r.selEpoch = l.epoch /\ r.sel = l.run /\ r.agent = l.agent)
    BY <1>2, <1>3, <2>1 DEF Landed
  <2>2. CASE r.selEpoch = l.epoch /\ r.sel = l.run /\ r.agent = l.agent
    <3>1. q = [r EXCEPT !.replayLoading = FALSE, !.data = data]
      BY <2>2 DEF Landed
    <3>2. /\ Shape(q) /\ ListPart(q) = ListPart(r) /\ q.view = r.view /\ q.sel = r.sel
          /\ q.selEpoch = r.selEpoch /\ q.detail = r.detail /\ q.agent = r.agent
          /\ q.replayLoading = FALSE /\ q.data = data /\ q.playing = r.playing
          /\ q.timer = r.timer /\ q.position = r.position /\ q.intervals = r.intervals
          /\ q.loads = r.loads /\ q.store = r.store
      BY <1>2, <3>1 DEF Shape, Fields, ListPart
    <3> HIDE DEF q
    <3>3. ReplayTypes(q, dn) /\ StoreOK(q.store, q.selEpoch, dn) /\ TimerOK(q)
      BY <1>1, <1>3, <3>2 DEF ReplayOK, ReplayTypes, TimerOK, LoadOK
    <3>4. \A then : WaitsFor(q, then) <=> WaitsFor(p, then)
      BY <1>2, <3>2 DEF WaitsFor
    <3>5. \A m : ~Opening(q, m)
      <4>1. SUFFICES ASSUME NEW m, Opening(q, m) PROVE FALSE
        OBVIOUS
      <4>2. m \in p.loads /\ m # l /\ Opening(p, m)
        BY <1>2, <3>2, <4>1 DEF Opening
      <4> QED
        BY <1>2, <2>2, <4>2 DEF ReplayOK, OpeningOK
    <3>6. OpeningOK(q)
      BY <3>5 DEF OpeningOK
    <3>7. ~WaitsFor(p, "select")
      BY <1>2, <2>2 DEF ReplayOK, SelectionOK
    <3>8. SelectionOK(q)
      BY <3>4, <3>7 DEF SelectionOK
    <3>9. DataOK(q)
      BY <2>2, <3>2 DEF DataOK, Mismatch
    <3> QED
      BY <1>2, <3>2, <3>3, <3>6, <3>8, <3>9 DEF ReplayOK
  <2> QED
    BY <2>1, <2>2
<1>6. Finished(p, l, data) = Opened(q, l.epoch, l.open)
  BY DEF Finished, r
<1> HIDE DEF q
<1>7. l.open # None /\ q.selEpoch = l.epoch => ~q.timer
  BY <1>4, <1>5 DEF Opening
<1>8. l.open \in Opens
  BY <1>1 DEF LoadOK
<1> QED
  BY <1>5, <1>6, <1>7, <1>8, OpenedOK

-----------------------------------------------------------------------------
(* What waits for the store, and a new run, agent or request of it.        *)

Selects(p, req) == req.then = "select" /\ req.epoch = p.selEpoch
ForAgent(p, req) ==
  req.then = "agent" /\ req.epoch = p.selEpoch /\ req.run = p.store.run

\* A page whose replay is fine but for what the request req still has to do.
ReadyFor(p, req, dn) ==
  /\ ReplayTypes(p, dn) /\ StoreOK(p.store, p.selEpoch, dn)
  /\ TimerOK(p) /\ OpeningOK(p) /\ SelectionOK(p)
  /\ Mismatch(p) => \/ WaitsFor(p, "agent") /\ p.store.request.run = p.sel
                    \/ ForAgent(p, req)
  /\ Selects(p, req) => /\ p.detail = None /\ p.data = None /\ ~p.timer
                        /\ ~WaitsFor(p, "agent") /\ ~WaitsFor(p, "select")
                        /\ \A l \in p.loads : l.epoch # p.selEpoch
  /\ ForAgent(p, req) => ~WaitsFor(p, "select") /\ \A l \in p.loads : ~Opening(p, l)

LEMMA ContinuedOK ==
  ASSUME NEW p, NEW dn, dn \subseteq Runs, Shape(p), NEW req \in StoreRequests,
         ReadyFor(p, req, dn)
  PROVE  LET q == Continued(p, req)
         IN Shape(q) /\ ListPart(q) = ListPart(p) /\ ReplayOK(q, dn)
<1>1. CASE Selects(p, req) /\ req.run = p.store.run
  <2> DEFINE loaded == [p EXCEPT !.detail = req.run, !.detailLoading = FALSE]
             r == [p EXCEPT !.detailLoading = FALSE]
  <2>1. Continued(p, req) = IF p.store.known /\ p.store.summary # None
                            THEN LoadReplay(loaded, req.epoch, req.open) ELSE r
    BY <1>1 DEF Continued, Selects
  <2>2. CASE p.store.known /\ p.store.summary # None
    <3>1. /\ Shape(loaded) /\ ListPart(loaded) = ListPart(p)
          /\ loaded.view = p.view /\ loaded.sel = p.sel
          /\ loaded.selEpoch = p.selEpoch /\ loaded.detail = req.run
          /\ loaded.agent = p.agent /\ loaded.data = p.data
          /\ loaded.playing = p.playing /\ loaded.timer = p.timer
          /\ loaded.position = p.position /\ loaded.intervals = p.intervals
          /\ loaded.loads = p.loads /\ loaded.store = p.store
      BY DEF Shape, Fields, ListPart
    <3> HIDE DEF loaded
    <3>2. /\ ReplayTypes(loaded, dn) /\ StoreOK(loaded.store, loaded.selEpoch, dn)
          /\ TimerOK(loaded)
      BY <3>1 DEF ReadyFor, ReplayTypes, TimerOK, StoreRequests
    <3>3. \A then : WaitsFor(loaded, then) <=> WaitsFor(p, then)
      BY <3>1 DEF WaitsFor
    <3>4. /\ loaded.data = None /\ ~loaded.timer /\ ~WaitsFor(loaded, "agent")
          /\ ~WaitsFor(loaded, "select")
          /\ \A l \in loaded.loads : l.epoch # loaded.selEpoch
      BY <1>1, <3>1, <3>3 DEF ReadyFor
    <3>5. \A l \in loaded.loads : ~Opening(loaded, l)
      BY <3>4 DEF Opening
    <3>6. req.epoch = loaded.selEpoch /\ req.open \in Opens
      BY <1>1, <3>1 DEF Selects, StoreRequests
    <3> QED
      BY <2>1, <2>2, <3>1, <3>2, <3>4, <3>5, <3>6, LoadReplayOK
  <2>3. CASE ~(p.store.known /\ p.store.summary # None)
    <3>1. Shape(r) /\ ListPart(r) = ListPart(p) /\ ReplayPart(r) = ReplayPart(p)
      BY DEF Shape, Fields, ListPart, ReplayPart
    <3>2. DataOK(p)
      BY <1>1 DEF ReadyFor, DataOK, Mismatch
    <3>3. ReplayOK(p, dn)
      BY <3>2 DEF ReadyFor, ReplayOK
    <3> QED
      BY <2>1, <2>3, <3>1, <3>3, ReplayFrame
  <2> QED
    BY <2>2, <2>3
<1>2. CASE ForAgent(p, req)
  <2>1. Continued(p, req) = LoadReplay(p, req.epoch, None)
    BY <1>2 DEF Continued, ForAgent
  <2> QED
    BY <1>2, <2>1, LoadReplayOK DEF ReadyFor, ForAgent, Opens
<1>3. CASE ~(Selects(p, req) /\ req.run = p.store.run) /\ ~ForAgent(p, req)
  <2>1. Continued(p, req) = p
    BY <1>3 DEF Continued, Selects, ForAgent
  <2>2. DataOK(p)
    BY <1>3 DEF ReadyFor, DataOK
  <2> QED
    BY <2>1, <2>2 DEF ReadyFor, ReplayOK
<1> QED
  BY <1>1, <1>2, <1>3

\* The store is given something new to do: what waited for it goes on.
LEMMA RequestKeeps ==
  ASSUME NEW p, NEW dn, dn \subseteq Runs, Shape(p), NEW store,
         p.store.request \in StoreRequests \cup {None},
         LET sent == [p EXCEPT !.store = store]
         IN IF p.store.request = None THEN ReplayOK(sent, dn)
            ELSE ReadyFor(sent, p.store.request, dn)
  PROVE  LET q == Request(p, store)
         IN Shape(q) /\ ListPart(q) = ListPart(p) /\ ReplayOK(q, dn)
<1> DEFINE sent == [p EXCEPT !.store = store]
<1>1. Shape(sent) /\ ListPart(sent) = ListPart(p)
  BY DEF Shape, Fields, ListPart
<1>2. Request(p, store) = IF p.store.request = None THEN sent
                          ELSE Continued(sent, p.store.request)
  BY DEF Request
<1>3. IF p.store.request = None THEN ReplayOK(sent, dn)
      ELSE ReadyFor(sent, p.store.request, dn)
  OBVIOUS
<1> HIDE DEF sent
<1>4. CASE p.store.request = None
  BY <1>1, <1>2, <1>3, <1>4
<1>5. CASE p.store.request # None
  <2>1. p.store.request \in StoreRequests /\ ReadyFor(sent, p.store.request, dn)
    BY <1>3, <1>5
  <2> QED
    BY <1>1, <1>2, <1>5, <2>1, ContinuedOK
<1> QED
  BY <1>4, <1>5

\* selectHistoryRun: a new epoch, so nothing that waits or loads is current.
LEMMA SelectOK ==
  ASSUME NEW p, NEW dn, dn \subseteq Runs, Shape(p), ListOK(p, dn), ReplayOK(p, dn),
         NEW r, NEW open \in Opens
  PROVE  LET q == Select(p, r, open)
         IN Shape(q) /\ ListPart(q) = ListPart(p) /\ ReplayOK(q, dn)
<1>1. CASE ~Contains(p.items, r)
  BY <1>1 DEF Select
<1>2. CASE Contains(p.items, r)
  <2> DEFINE stopped == StopPlayback(p)
             fresh == [NoReplay(stopped) EXCEPT !.position = 0, !.sel = r, !.detail = None,
                          !.detailLoading = TRUE, !.selEpoch = @ + 1]
             n == p.selEpoch + 1
             req == [then |-> "select", epoch |-> n, run |-> r, open |-> open]
             store == [run |-> r, agent |-> FirstAgent, known |-> FALSE, summary |-> None,
                       request |-> req]
             sent == [fresh EXCEPT !.store = store]
  <2>1. r \in dn
    BY <1>2 DEF ListOK, RowsOK, Contains
  <2>2. p.selEpoch \in Nat /\ (\A l \in p.loads : l.epoch \in 1 .. p.selEpoch)
    BY DEF ReplayOK, ReplayTypes, LoadOK
  <2>3. /\ Shape(stopped) /\ ListPart(stopped) = ListPart(p) /\ stopped.timer = FALSE
        /\ stopped.playing = FALSE /\ stopped.intervals = 0 /\ stopped.view = p.view
        /\ stopped.selEpoch = p.selEpoch /\ stopped.loads = p.loads
        /\ stopped.store = p.store
    BY Stopped DEF ReplayOK
  <2>4. Select(p, r, open) = Request(fresh, store)
    <3>1. Select(p, r, open) = Follow(fresh, r, req)
      BY <1>2 DEF Select
    <3> QED
      BY <3>1 DEF Follow
  <2> HIDE DEF stopped
  <2>5. /\ Shape(fresh) /\ ListPart(fresh) = ListPart(p) /\ fresh.store = p.store
    BY <2>3 DEF Shape, Fields, ListPart, NoReplay
  <2>6. /\ Shape(sent) /\ sent.store = store /\ sent.view = p.view
        /\ sent.sel = r /\ sent.selEpoch = n /\ sent.detail = None
        /\ sent.agent = FirstAgent /\ sent.replayLoading = FALSE /\ sent.data = None
        /\ sent.playing = FALSE /\ sent.timer = FALSE /\ sent.position = 0
        /\ sent.intervals = 0 /\ sent.loads = p.loads
    BY <2>3 DEF Shape, Fields, NoReplay
  <2> HIDE DEF sent, fresh
  <2>7. /\ store.run = r /\ store.request = req /\ req.then = "select" /\ req.epoch = n
        /\ store.summary = None /\ store.known = FALSE /\ store.agent = FirstAgent
        /\ req.run = r
    OBVIOUS
  <2>8. StoreOK(store, n, dn)
    <3>1. n \in Nat /\ n \in 1 .. n
      BY <2>2
    <3>2. req \in StoreRequests
      BY <2>1, <3>1 DEF StoreRequests
    <3> HIDE DEF req
    <3>3. store \in Stores
      BY <2>1, <3>2, HistoryAssumption DEF Stores
    <3> HIDE DEF store, n
    <3> QED
      BY <2>7, <3>1, <3>3 DEF StoreOK, RequestOK
  <2> HIDE DEF store, req
  <2>9. \A l \in sent.loads : l.epoch # sent.selEpoch /\ ~Opening(sent, l)
    BY <2>2, <2>6 DEF Opening
  <2>10. ReplayTypes(sent, dn)
    <3>1. \A l \in p.loads : LoadOK(l, n)
      BY <2>2 DEF ReplayOK, ReplayTypes, LoadOK
    <3>2. n \in Nat /\ n > 0 /\ p.view \in Views /\ 0 \in 0 .. Points - 1
      BY <2>2, HistoryAssumption DEF ReplayOK, ReplayTypes
    <3> HIDE DEF n
    <3> QED
      BY <2>1, <2>6, <3>1, <3>2, HistoryAssumption DEF ReplayTypes
  <2>11. StoreOK(sent.store, sent.selEpoch, dn) /\ TimerOK(sent) /\ ~Mismatch(sent)
    BY <2>6, <2>8 DEF TimerOK, Mismatch
  <2>12. OpeningOK(sent) /\ SelectionOK(sent)
    BY <2>6, <2>9 DEF OpeningOK, SelectionOK
  <2>13. ReplayOK(sent, dn)
    BY <2>10, <2>11, <2>12 DEF ReplayOK, DataOK
  <2>14. ASSUME p.store.request # None
         PROVE  ReadyFor(sent, p.store.request, dn)
    <3>1. p.store.request.then # "none" => p.store.request.epoch \in 1 .. p.selEpoch
      BY <2>14 DEF ReplayOK, StoreOK, RequestOK
    <3>2. ~Selects(sent, p.store.request) /\ ~ForAgent(sent, p.store.request)
      BY <2>2, <2>6, <3>1 DEF Selects, ForAgent
    <3> QED
      BY <2>10, <2>11, <2>12, <3>2 DEF ReadyFor
  <2>15. p.store.request \in StoreRequests \cup {None}
    BY DEF ReplayOK, StoreOK, Stores
  <2>16. Shape(Request(fresh, store)) /\ ListPart(Request(fresh, store)) = ListPart(fresh)
         /\ ReplayOK(Request(fresh, store), dn)
    BY <2>5, <2>13, <2>14, <2>15, RequestKeeps DEF sent
  <2> QED
    BY <2>4, <2>5, <2>16
<1> QED
  BY <1>1, <1>2

\* upsertHistoryRun puts in rows of ended runs that have none.
LEMMA UpsertOK ==
  ASSUME NEW p, NEW dn, Shape(p), ListOK(p, dn), p.store.known => p.store.run \in dn
  PROVE  LET q == Upsert(p)
         IN Shape(q) /\ ListOK(q, dn) /\ ReplayPart(q) = ReplayPart(p)
<1>1. CASE ~(p.store.known /\ ~Contains(p.items, p.store.run))
  BY <1>1 DEF Upsert
<1>2. CASE p.store.known /\ ~Contains(p.items, p.store.run)
  <2> DEFINE run == p.store.run
             rows == <<run>> \o p.items
             q == [p EXCEPT !.items = rows]
             n == Len(p.items)
  <2>1. run \in dn /\ p.items \in Seq(dn) /\ n \in Nat /\ DOMAIN p.items = 1 .. n
    BY <1>2 DEF ListOK, RowsOK
  <2>2. <<run>> \in Seq(dn) /\ Len(<<run>>) = 1 /\ <<run>>[1] = run
    BY <2>1
  <2>3. /\ rows \in Seq(dn) /\ Len(rows) = Len(<<run>>) + n
        /\ \A i \in 1 .. Len(<<run>>) + n :
              rows[i] = IF i <= Len(<<run>>) THEN <<run>>[i] ELSE p.items[i - Len(<<run>>)]
    BY <2>1, <2>2, ConcatProperties
  <2> HIDE DEF rows, n
  <2>4. DOMAIN rows = 1 .. n + 1 /\ rows[1] = run
        /\ \A i \in 2 .. n + 1 : i - 1 \in 1 .. n /\ rows[i] = p.items[i - 1]
    BY <2>1, <2>2, <2>3
  <2>5. \A i \in 1 .. n : p.items[i] # run
    BY <1>2, <2>1 DEF Contains, n
  <2>6. IsInjective(rows)
    <3> SUFFICES ASSUME NEW i \in 1 .. n + 1, NEW j \in 1 .. n + 1, rows[i] = rows[j]
                 PROVE  i = j
      BY <2>4 DEF IsInjective
    <3>1. CASE i = 1 \/ j = 1
      <4>1. ASSUME NEW k \in 2 .. n + 1 PROVE rows[k] # rows[1]
        <5>1. k - 1 \in 1 .. n /\ rows[k] = p.items[k - 1]
          BY <2>4
        <5> QED
          BY <5>1, <2>4, <2>5
      <4>2. i = 1 \/ i \in 2 .. n + 1
        BY <2>1
      <4>3. j = 1 \/ j \in 2 .. n + 1
        BY <2>1
      <4> QED
        BY <3>1, <4>1, <4>2, <4>3
    <3>2. CASE i \in 2 .. n + 1 /\ j \in 2 .. n + 1
      <4>1. p.items[i - 1] = p.items[j - 1] /\ i - 1 \in 1 .. n /\ j - 1 \in 1 .. n
        BY <2>4, <3>2
      <4>2. i - 1 = j - 1
        BY <2>1, <4>1 DEF ListOK, RowsOK, IsInjective
      <4> QED
        BY <3>2, <4>2
    <3> QED
      BY <2>1, <3>1, <3>2
  <2>7. RowsOK(rows, dn)
    BY <2>3, <2>6 DEF RowsOK
  <2>8. /\ Shape(q) /\ ReplayPart(q) = ReplayPart(p) /\ q.items = rows
        /\ q.filter = p.filter /\ q.cursor = p.cursor /\ q.epoch = p.epoch
        /\ q.lists = p.lists
    BY DEF Shape, Fields, ReplayPart
  <2> HIDE DEF q
  <2>9. ListOK(q, dn)
    BY <2>7, <2>8 DEF ListOK
  <2> QED
    BY <1>2, <2>8, <2>9 DEF Upsert, q, rows
<1> QED
  BY <1>1, <1>2

LEMMA StoreSet ==
  ASSUME NEW p, Shape(p), NEW store
  PROVE  LET q == [p EXCEPT !.store = store]
         IN /\ Shape(q) /\ ListPart(q) = ListPart(p) /\ q.store = store
            /\ q.view = p.view /\ q.sel = p.sel /\ q.selEpoch = p.selEpoch
            /\ q.detail = p.detail /\ q.agent = p.agent
            /\ q.replayLoading = p.replayLoading /\ q.data = p.data
            /\ q.playing = p.playing /\ q.timer = p.timer /\ q.position = p.position
            /\ q.intervals = p.intervals /\ q.loads = p.loads
  BY DEF Shape, Fields, ListPart

\* A store that does something else: what is waited for is what it says.
LEMMA Redirected ==
  ASSUME NEW p, NEW dn, Shape(p), ReplayOK(p, dn), NEW store,
         StoreOK(store, p.selEpoch, dn),
         NEW q, q = [p EXCEPT !.store = store],
         ~WaitsFor(q, "select"), \A l \in p.loads : Opening(p, l) => ~WaitsFor(q, "agent")
  PROVE  /\ ReplayTypes(q, dn) /\ StoreOK(q.store, q.selEpoch, dn)
         /\ TimerOK(q) /\ OpeningOK(q) /\ SelectionOK(q)
         /\ \A l : Opening(q, l) <=> Opening(p, l)
         /\ q.store = store /\ q.sel = p.sel /\ q.selEpoch = p.selEpoch
         /\ q.detail = p.detail /\ q.agent = p.agent /\ q.data = p.data
         /\ q.timer = p.timer /\ q.loads = p.loads
<1>1. /\ q.store = store
      /\ q.view = p.view /\ q.sel = p.sel /\ q.selEpoch = p.selEpoch
      /\ q.detail = p.detail /\ q.agent = p.agent
      /\ q.replayLoading = p.replayLoading /\ q.data = p.data
      /\ q.playing = p.playing /\ q.timer = p.timer /\ q.position = p.position
      /\ q.intervals = p.intervals /\ q.loads = p.loads
  BY StoreSet
<1>2. ReplayTypes(q, dn) /\ StoreOK(q.store, q.selEpoch, dn) /\ TimerOK(q)
  BY <1>1 DEF ReplayOK, ReplayTypes, TimerOK
<1>3. \A l : Opening(q, l) <=> Opening(p, l)
  BY <1>1 DEF Opening
<1>4. OpeningOK(q) /\ SelectionOK(q)
  BY <1>1, <1>3 DEF ReplayOK, OpeningOK, SelectionOK
<1> QED
  BY <1>1, <1>2, <1>3, <1>4

\* What waited for the request goes on with the store's answer or failure.
LEMMA Released ==
  ASSUME NEW p, NEW dn, Shape(p), ReplayOK(p, dn), p.store.request # None,
         NEW store, StoreOK(store, p.selEpoch, dn),
         store.request = None, store.run = p.store.run
  PROVE  ReadyFor([p EXCEPT !.store = store], p.store.request, dn)
<1> DEFINE q == [p EXCEPT !.store = store]
           req == p.store.request
<1>1. q.store = store /\ \A then : ~WaitsFor(q, then)
  BY StoreSet DEF WaitsFor
<1>2. /\ ReplayTypes(q, dn) /\ StoreOK(q.store, q.selEpoch, dn)
      /\ TimerOK(q) /\ OpeningOK(q) /\ SelectionOK(q)
      /\ \A l : Opening(q, l) <=> Opening(p, l)
      /\ q.sel = p.sel /\ q.selEpoch = p.selEpoch
      /\ q.detail = p.detail /\ q.agent = p.agent /\ q.data = p.data
      /\ q.timer = p.timer /\ q.loads = p.loads
  BY <1>1, Redirected
<1> HIDE DEF q
<1>3. Mismatch(q) => ForAgent(q, req)
  BY <1>1, <1>2 DEF ReplayOK, DataOK, Mismatch, WaitsFor, ForAgent
<1>4. Selects(q, req) => /\ q.detail = None /\ q.data = None /\ ~q.timer
                         /\ \A l \in q.loads : l.epoch # q.selEpoch
  BY <1>2 DEF ReplayOK, SelectionOK, WaitsFor, Selects
<1>5. ForAgent(q, req) => \A l \in q.loads : ~Opening(q, l)
  BY <1>2 DEF ReplayOK, OpeningOK, WaitsFor, ForAgent
<1> QED
  BY <1>1, <1>2, <1>3, <1>4, <1>5 DEF ReadyFor, q

LEMMA ReadyFrame ==
  ASSUME NEW p, NEW q, NEW dn, NEW req, ReplayPart(q) = ReplayPart(p), ReadyFor(p, req, dn)
  PROVE  ReadyFor(q, req, dn)
<1>1. /\ q.view = p.view /\ q.sel = p.sel /\ q.selEpoch = p.selEpoch /\ q.detail = p.detail
      /\ q.agent = p.agent /\ q.replayLoading = p.replayLoading /\ q.data = p.data
      /\ q.playing = p.playing /\ q.timer = p.timer /\ q.position = p.position
      /\ q.intervals = p.intervals /\ q.loads = p.loads /\ q.store = p.store
  BY DEF ReplayPart
<1>2. ReplayTypes(q, dn) /\ StoreOK(q.store, q.selEpoch, dn) /\ TimerOK(q)
  BY <1>1 DEF ReadyFor, ReplayTypes, TimerOK
<1>3. (\A then : WaitsFor(q, then) <=> WaitsFor(p, then)) /\ (Mismatch(q) <=> Mismatch(p))
  BY <1>1 DEF WaitsFor, Mismatch
<1>4. (\A l : Opening(q, l) <=> Opening(p, l)) /\ (Selects(q, req) <=> Selects(p, req))
      /\ (ForAgent(q, req) <=> ForAgent(p, req))
  BY <1>1 DEF Opening, Selects, ForAgent
<1>5. OpeningOK(q) /\ SelectionOK(q)
  BY <1>1, <1>3, <1>4 DEF ReadyFor, OpeningOK, SelectionOK
<1> QED
  BY <1>1, <1>2, <1>3, <1>4, <1>5 DEF ReadyFor

-----------------------------------------------------------------------------
(* The steps of the replay and of the store.                               *)

\* A step that leaves the list alone.
LEMMA ReplayKeeps ==
  ASSUME HInv, UNCHANGED done, InputBounds',
         Shape(hist'), ListPart(hist') = ListPart(hist), ReplayOK(hist', done)
  PROVE  HInv'
  BY ListFrame DEF HInv, PageOK

\* A step that leaves the replay alone.
LEMMA ListKeeps ==
  ASSUME HInv, UNCHANGED done, InputBounds',
         Shape(hist'), ReplayPart(hist') = ReplayPart(hist), ListOK(hist', done)
  PROVE  HInv'
  BY ReplayFrame DEF HInv, PageOK

LEMMA KeptReplayAnswers ==
  \A l \in hist.loads : HInv /\ (ReplayArrives(l) \/ ReplayFails(l)) => HInv'
<1> SUFFICES ASSUME NEW l \in hist.loads, HInv, ReplayArrives(l) \/ ReplayFails(l)
             PROVE  HInv'
  OBVIOUS
<1>1. PICK data \in {None, [run |-> l.run, agent |-> l.agent]} :
         hist' = Finished(hist, l, data)
  BY DEF ReplayArrives, ReplayFails
<1>2. InputBounds' /\ UNCHANGED done
  BY HistoryAssumption DEF HInv, InputBounds, ReplayArrives, ReplayFails
<1> QED
  BY <1>1, <1>2, FinishedOK, ReplayKeeps DEF HInv, PageOK

LEMMA KeptStoreAnswers == HInv /\ StoreAnswers => HInv'
<1> SUFFICES ASSUME HInv, StoreAnswers PROVE HInv'
  OBVIOUS
<1> DEFINE s == hist.store
           known == s.run \in done
           summary == IF s.run \in done /\ ArtifactGate(s.run) THEN s.agent ELSE None
           store == [s EXCEPT !.known = known, !.request = None, !.summary = summary]
           p == [hist EXCEPT !.store = store]
           q == Upsert(p)
<1>1. /\ s.request # None /\ hist' = Continued(q, s.request)
      /\ UNCHANGED <<done, inputs, failures>>
  BY DEF StoreAnswers
<1>2. /\ Shape(hist) /\ ListOK(hist, done) /\ ReplayOK(hist, done) /\ done \subseteq Runs
      /\ s \in Stores /\ s.request \in StoreRequests
  BY <1>1 DEF HInv, PageOK, ReplayOK, StoreOK, Stores
<1>3. /\ store \in Stores /\ store.known = known /\ store.request = None
      /\ store.summary = summary /\ store.run = s.run /\ store.agent = s.agent
  <2>1. known \in BOOLEAN /\ summary \in Agents \cup {None}
    BY <1>2 DEF Stores
  <2> HIDE DEF known, summary
  <2> QED
    BY <1>2, <2>1 DEF Stores
<1> HIDE DEF store
<1>4. StoreOK(store, hist.selEpoch, done)
  BY <1>3 DEF StoreOK
<1>5. ReadyFor(p, s.request, done)
  BY <1>1, <1>2, <1>3, <1>4, Released
<1>6. Shape(p) /\ ListPart(p) = ListPart(hist) /\ p.store = store
  BY <1>2, StoreSet
<1>7. ListOK(p, done)
  BY <1>2, <1>6, ListFrame
<1> HIDE DEF p
<1>8. Shape(q) /\ ListOK(q, done) /\ ReplayPart(q) = ReplayPart(p)
  BY <1>3, <1>6, <1>7, UpsertOK
<1> HIDE DEF q
<1>9. ReadyFor(q, s.request, done)
  BY <1>5, <1>8, ReadyFrame
<1>10. Shape(hist') /\ ListPart(hist') = ListPart(q) /\ ReplayOK(hist', done)
  BY <1>1, <1>2, <1>8, <1>9, ContinuedOK
<1>11. ListOK(hist', done)
  BY <1>8, <1>10, ListFrame
<1> QED
  BY <1>1, <1>10, <1>11 DEF HInv, PageOK, InputBounds

LEMMA KeptStoreFails == HInv /\ StoreFails => HInv'
<1> SUFFICES ASSUME HInv, StoreFails PROVE HInv'
  OBVIOUS
<1> DEFINE store == [hist.store EXCEPT !.request = None]
           p == [hist EXCEPT !.store = store]
<1>1. /\ Shape(hist) /\ ReplayOK(hist, done) /\ done \subseteq Runs
      /\ hist.store \in Stores /\ hist.store.request \in StoreRequests
      /\ hist.store.request # None
  BY DEF HInv, PageOK, ReplayOK, StoreOK, Stores, StoreFails
<1>2. hist' = Continued(p, hist.store.request) /\ UNCHANGED done /\ InputBounds'
  BY <1>1, HistoryAssumption DEF StoreFails, HInv, InputBounds
<1>3. /\ store \in Stores /\ store.known = hist.store.known /\ store.request = None
      /\ store.summary = hist.store.summary /\ store.run = hist.store.run
      /\ store.agent = hist.store.agent
  BY <1>1 DEF Stores
<1> HIDE DEF store
<1>4. StoreOK(store, hist.selEpoch, done)
  BY <1>1, <1>3 DEF StoreOK, ReplayOK
<1>5. ReadyFor(p, hist.store.request, done)
  BY <1>1, <1>3, <1>4, Released
<1>6. Shape(p) /\ ListPart(p) = ListPart(hist)
  BY <1>1, StoreSet
<1> HIDE DEF p
<1>7. Shape(hist') /\ ListPart(hist') = ListPart(p) /\ ReplayOK(hist', done)
  BY <1>1, <1>2, <1>5, <1>6, ContinuedOK
<1> QED
  BY <1>2, <1>6, <1>7, ReplayKeeps

LEMMA KeptEndIsStreamed == HInv /\ EndIsStreamed => HInv'
<1> SUFFICES ASSUME HInv, EndIsStreamed PROVE HInv'
  OBVIOUS
<1> DEFINE store == [hist.store EXCEPT !.request = NoRequest]
           q == [hist EXCEPT !.store = store]
<1>1. /\ Shape(hist) /\ ReplayOK(hist, done) /\ hist.store \in Stores
      /\ hist.store.request = None /\ ~hist.store.known
  BY DEF HInv, PageOK, ReplayOK, StoreOK, EndIsStreamed
<1>2. hist' = q /\ UNCHANGED <<done, inputs, failures>>
  BY <1>1 DEF EndIsStreamed, Shape, Fields
<1>3. NoRequest \in StoreRequests /\ NoRequest.then = "none"
  BY DEF NoRequest, StoreRequests, Opens
<1>4. /\ store \in Stores /\ store.known = hist.store.known /\ store.request = NoRequest
      /\ store.summary = hist.store.summary /\ store.run = hist.store.run
      /\ store.agent = hist.store.agent
  BY <1>1, <1>3 DEF Stores
<1> HIDE DEF store
<1>5. StoreOK(store, hist.selEpoch, done)
  BY <1>1, <1>3, <1>4 DEF StoreOK, RequestOK, ReplayOK
<1>6. q.store = store /\ ~WaitsFor(q, "select") /\ ~WaitsFor(q, "agent")
  BY <1>1, <1>3, <1>4, StoreSet DEF WaitsFor
<1>7. /\ ReplayTypes(q, done) /\ StoreOK(q.store, q.selEpoch, done)
      /\ TimerOK(q) /\ OpeningOK(q) /\ SelectionOK(q)
      /\ q.sel = hist.sel /\ q.detail = hist.detail /\ q.agent = hist.agent
      /\ q.data = hist.data
  BY <1>1, <1>5, <1>6, Redirected
<1>8. Shape(q) /\ ListPart(q) = ListPart(hist)
  BY <1>1, StoreSet
<1> HIDE DEF q
<1>9. DataOK(q)
  BY <1>1, <1>4, <1>6, <1>7 DEF ReplayOK, DataOK, Mismatch, WaitsFor
<1> QED
  BY <1>2, <1>7, <1>8, <1>9, ReplayKeeps DEF ReplayOK, HInv, InputBounds

LEMMA KeptReadinessEmitted == HInv /\ ReadinessEmitted => HInv'
<1> SUFFICES ASSUME HInv, ReadinessEmitted PROVE HInv'
  OBVIOUS
<1>1. Shape(hist') /\ ListOK(hist', done) /\ ReplayPart(hist') = ReplayPart(hist)
  BY UpsertOK DEF HInv, PageOK, ReplayOK, StoreOK, ReadinessEmitted
<1> QED
  BY <1>1, ListKeeps DEF HInv, InputBounds, ReadinessEmitted

\* The tab of an agent that the store shows, or has to be asked for.
LEMMA KeptReplayAgent == \A a \in Agents : HInv /\ ReplayAgent(a) => HInv'
<1> SUFFICES ASSUME NEW a \in Agents, HInv, ReplayAgent(a) PROVE HInv'
  OBVIOUS
<1> DEFINE stopped == StopPlayback(hist)
           p == [stopped EXCEPT !.position = 0, !.agent = a]
           req == [then |-> "agent", epoch |-> hist.selEpoch, run |-> hist.sel,
                   open |-> None]
           s == hist.store
           store == [s EXCEPT !.agent = a, !.summary = None, !.request = req]
           sent == [p EXCEPT !.store = store]
<1>1. /\ Shape(hist) /\ ReplayOK(hist, done) /\ done \subseteq Runs /\ s \in Stores
      /\ hist.detail # None /\ hist.detail = hist.sel /\ ~hist.replayLoading
      /\ hist.sel \in Runs /\ hist.selEpoch \in 1 .. hist.selEpoch
  BY HistoryAssumption DEF HInv, PageOK, ReplayOK, ReplayTypes, StoreOK, ReplayAgent
<1>2. hist' = StoreAgent(p, a, req) /\ UNCHANGED done /\ InputBounds'
  BY HistoryAssumption DEF ReplayAgent, Input, HInv, InputBounds
<1>3. /\ ReplayOK(stopped, done) /\ Shape(stopped) /\ ListPart(stopped) = ListPart(hist)
      /\ stopped.sel = hist.sel /\ stopped.selEpoch = hist.selEpoch
      /\ stopped.detail = hist.detail /\ stopped.store = s
      /\ stopped.replayLoading = hist.replayLoading
  BY <1>1, Stopped, StoppedOK DEF ReplayOK
<1> HIDE DEF stopped
<1>4. /\ Shape(p) /\ ListPart(p) = ListPart(hist) /\ p.view = stopped.view
      /\ p.sel = hist.sel /\ p.selEpoch = hist.selEpoch /\ p.detail = hist.detail
      /\ p.agent = a /\ p.replayLoading = hist.replayLoading /\ p.data = stopped.data
      /\ p.playing = stopped.playing /\ p.timer = stopped.timer /\ p.position = 0
      /\ p.intervals = stopped.intervals /\ p.loads = stopped.loads /\ p.store = s
  BY <1>3 DEF Shape, Fields, ListPart
<1> HIDE DEF p
<1>5. (\A then : WaitsFor(p, then) <=> WaitsFor(stopped, then))
      /\ (\A l : Opening(p, l) <=> Opening(stopped, l))
  BY <1>3, <1>4 DEF WaitsFor, Opening
<1>6. \A l \in p.loads : ~Opening(p, l)
  BY <1>1, <1>3, <1>4, <1>5, HistoryAssumption DEF ReplayOK, OpeningOK
<1>7. ~WaitsFor(p, "select")
  BY <1>1, <1>3, <1>5 DEF ReplayOK, SelectionOK
<1>8. ReplayTypes(p, done) /\ StoreOK(p.store, p.selEpoch, done) /\ TimerOK(p)
  <2>1. 0 \in 0 .. Points - 1
    BY HistoryAssumption
  <2> QED
    BY <1>3, <1>4, <2>1 DEF ReplayOK, ReplayTypes, TimerOK
<1>9. OpeningOK(p) /\ SelectionOK(p)
  BY <1>6, <1>7 DEF OpeningOK, SelectionOK
<1>10. req \in StoreRequests /\ RequestOK(req, hist.selEpoch) /\ req.then = "agent"
       /\ req.epoch = hist.selEpoch /\ req.run = hist.sel
  BY <1>1 DEF StoreRequests, Opens, RequestOK
<1> HIDE DEF req
<1>11. CASE s.agent = a /\ s.summary = a
  <2>1. hist' = Continued(p, req)
    BY <1>2, <1>4, <1>11 DEF StoreAgent
  <2>2. Mismatch(p) => ForAgent(p, req)
    BY <1>4, <1>10 DEF Mismatch, ForAgent
  <2>3. ~Selects(p, req)
    BY <1>10 DEF Selects
  <2>4. ReadyFor(p, req, done)
    BY <1>6, <1>7, <1>8, <1>9, <2>2, <2>3 DEF ReadyFor
  <2>5. Shape(hist') /\ ListPart(hist') = ListPart(p) /\ ReplayOK(hist', done)
    BY <1>1, <1>4, <1>10, <2>1, <2>4, ContinuedOK
  <2> QED
    BY <1>2, <1>4, <2>5, ReplayKeeps
<1>12. CASE ~(s.agent = a /\ s.summary = a)
  <2>1. hist' = Request(p, store)
    BY <1>2, <1>4, <1>12 DEF StoreAgent
  <2>2. /\ store \in Stores /\ store.known = s.known /\ store.request = req
        /\ store.summary = None /\ store.run = s.run /\ store.agent = a
    BY <1>1, <1>10 DEF Stores
  <2> HIDE DEF store
  <2>3. StoreOK(store, p.selEpoch, done)
    BY <1>4, <1>8, <1>10, <2>2 DEF StoreOK
  <2>4. /\ sent.store = store /\ sent.view = p.view /\ sent.sel = p.sel
        /\ sent.selEpoch = p.selEpoch /\ sent.detail = p.detail /\ sent.agent = p.agent
        /\ sent.replayLoading = p.replayLoading /\ sent.data = p.data
        /\ sent.playing = p.playing /\ sent.timer = p.timer
        /\ sent.position = p.position /\ sent.intervals = p.intervals
        /\ sent.loads = p.loads
    BY <1>4, StoreSet
  <2> HIDE DEF sent
  <2>5. /\ ReplayTypes(sent, done) /\ StoreOK(sent.store, sent.selEpoch, done)
        /\ TimerOK(sent)
    BY <1>8, <2>3, <2>4 DEF ReplayTypes, TimerOK
  <2>6. ~WaitsFor(sent, "select") /\ \A l \in sent.loads : ~Opening(sent, l)
    BY <1>6, <1>10, <2>2, <2>4 DEF WaitsFor, Opening
  <2>7. OpeningOK(sent) /\ SelectionOK(sent)
    BY <2>6 DEF OpeningOK, SelectionOK
  <2>8. req # None => WaitsFor(sent, "agent") /\ sent.store.request.run = sent.sel
    BY <1>4, <1>10, <2>2, <2>4 DEF WaitsFor
  <2>9. req # None
    BY <1>10, RequestAssumption
  <2>10. ReplayOK(sent, done)
    BY <2>5, <2>7, <2>8, <2>9 DEF ReplayOK, DataOK
  <2>11. ASSUME s.request # None
         PROVE  ReadyFor(sent, s.request, done)
    <3>1. ~Selects(sent, s.request)
      BY <1>4, <1>7, <2>4, <2>11 DEF Selects, WaitsFor
    <3> QED
      BY <2>5, <2>6, <2>7, <2>8, <2>9, <3>1 DEF ReadyFor
  <2>12. s.request \in StoreRequests \cup {None}
    BY <1>1 DEF Stores
  <2>13. Shape(hist') /\ ListPart(hist') = ListPart(p) /\ ReplayOK(hist', done)
    BY <1>1, <1>4, <2>1, <2>10, <2>11, <2>12, RequestKeeps DEF sent
  <2> QED
    BY <1>2, <1>4, <2>13, ReplayKeeps
<1> QED
  BY <1>11, <1>12

LEMMA KeptWorkspaceAgent == \A a \in Agents : HInv /\ WorkspaceAgent(a) => HInv'
<1> SUFFICES ASSUME NEW a \in Agents, HInv, WorkspaceAgent(a) PROVE HInv'
  OBVIOUS
<1> DEFINE s == hist.store
           store == [s EXCEPT !.agent = a, !.summary = None, !.request = NoRequest]
           q == [hist EXCEPT !.store = store]
<1>1. /\ Shape(hist) /\ ReplayOK(hist, done) /\ s \in Stores /\ s.request = None
  BY DEF HInv, PageOK, ReplayOK, StoreOK, WorkspaceAgent
<1>2. hist' = StoreAgent(hist, a, NoRequest) /\ UNCHANGED done /\ InputBounds'
  BY HistoryAssumption DEF WorkspaceAgent, Input, HInv, InputBounds
<1>3. NoRequest \in StoreRequests /\ NoRequest.then = "none"
  BY DEF NoRequest, StoreRequests, Opens
<1>4. CASE s.agent = a /\ s.summary = a
  <2>1. hist' = hist
    BY <1>2, <1>3, <1>4 DEF StoreAgent, Continued
  <2> QED
    BY <1>2, <2>1 DEF HInv
<1>5. CASE ~(s.agent = a /\ s.summary = a)
  <2>1. hist' = q
    BY <1>1, <1>2, <1>5 DEF StoreAgent, Request
  <2>2. /\ store \in Stores /\ store.known = s.known /\ store.request = NoRequest
        /\ store.summary = None /\ store.run = s.run
    BY <1>1, <1>3 DEF Stores
  <2> HIDE DEF store
  <2>3. StoreOK(store, hist.selEpoch, done)
    BY <1>1, <1>3, <2>2 DEF StoreOK, RequestOK, ReplayOK
  <2>4. q.store = store /\ ~WaitsFor(q, "select") /\ ~WaitsFor(q, "agent")
    BY <1>1, <1>3, <2>2, StoreSet DEF WaitsFor
  <2>5. /\ ReplayTypes(q, done) /\ StoreOK(q.store, q.selEpoch, done)
        /\ TimerOK(q) /\ OpeningOK(q) /\ SelectionOK(q)
        /\ q.sel = hist.sel /\ q.detail = hist.detail /\ q.agent = hist.agent
        /\ q.data = hist.data
    BY <1>1, <2>3, <2>4, Redirected
  <2>6. Shape(q) /\ ListPart(q) = ListPart(hist)
    BY <1>1, StoreSet
  <2> HIDE DEF q
  <2>7. DataOK(q)
    BY <1>1, <2>2, <2>4, <2>5 DEF ReplayOK, DataOK, Mismatch, WaitsFor
  <2> QED
    BY <1>2, <2>1, <2>5, <2>6, <2>7, ReplayKeeps DEF ReplayOK
<1> QED
  BY <1>4, <1>5

\* The store follows a run that has not ended, so not the selected one.
LEMMA KeptFollowLive == \A r \in Runs : HInv /\ FollowLive(r) => HInv'
<1> SUFFICES ASSUME NEW r \in Runs, HInv, FollowLive(r) PROVE HInv'
  OBVIOUS
<1> DEFINE s == hist.store
           store == [run |-> r, agent |-> FirstAgent, known |-> FALSE, summary |-> None,
                     request |-> NoRequest]
           q == [hist EXCEPT !.store = store]
<1>1. /\ Shape(hist) /\ ReplayOK(hist, done) /\ done \subseteq Runs
      /\ s.request \in StoreRequests \cup {None} /\ hist.sel \in done \cup {None}
      /\ r \notin done
  BY DEF HInv, PageOK, ReplayOK, ReplayTypes, StoreOK, Stores, FollowLive
<1>2. hist' = Request(hist, store) /\ UNCHANGED done /\ InputBounds'
  BY HistoryAssumption DEF FollowLive, Follow, Input, HInv, InputBounds
<1>3. NoRequest \in StoreRequests /\ NoRequest.then = "none"
  BY DEF NoRequest, StoreRequests, Opens
<1>4. /\ store \in Stores /\ store.known = FALSE /\ store.request = NoRequest
      /\ store.summary = None /\ store.run = r
  BY <1>3, HistoryAssumption DEF Stores
<1> HIDE DEF store
<1>5. StoreOK(store, hist.selEpoch, done)
  BY <1>3, <1>4 DEF StoreOK, RequestOK
<1>6. q.store = store /\ ~WaitsFor(q, "select") /\ ~WaitsFor(q, "agent")
  BY <1>1, <1>3, <1>4, StoreSet DEF WaitsFor
<1>7. /\ ReplayTypes(q, done) /\ StoreOK(q.store, q.selEpoch, done)
      /\ TimerOK(q) /\ OpeningOK(q) /\ SelectionOK(q)
      /\ \A l : Opening(q, l) <=> Opening(hist, l)
      /\ q.sel = hist.sel /\ q.selEpoch = hist.selEpoch /\ q.detail = hist.detail
      /\ q.data = hist.data /\ q.timer = hist.timer /\ q.loads = hist.loads
  BY <1>1, <1>5, <1>6, Redirected
<1> HIDE DEF q
<1>8. ~Mismatch(q)
  BY <1>1, <1>4, <1>6, <1>7 DEF Mismatch
<1>9. ReplayOK(q, done)
  BY <1>7, <1>8 DEF ReplayOK, DataOK
<1>10. ASSUME s.request # None
       PROVE  ReadyFor(q, s.request, done)
  <2>1. Selects(q, s.request) => /\ q.detail = None /\ q.data = None /\ ~q.timer
                                 /\ \A l \in q.loads : l.epoch # q.selEpoch
    BY <1>1, <1>7, <1>10 DEF ReplayOK, SelectionOK, WaitsFor, Selects
  <2>2. ForAgent(q, s.request) => \A l \in q.loads : ~Opening(q, l)
    BY <1>1, <1>7, <1>10 DEF ReplayOK, OpeningOK, WaitsFor, ForAgent
  <2> QED
    BY <1>6, <1>7, <1>8, <2>1, <2>2 DEF ReadyFor
<1>11. Shape(hist') /\ ListPart(hist') = ListPart(hist) /\ ReplayOK(hist', done)
  BY <1>1, <1>2, <1>9, <1>10, RequestKeeps DEF q
<1> QED
  BY <1>2, <1>11, ReplayKeeps

-----------------------------------------------------------------------------
(* Playback, and the end of a run.                                         *)

LEMMA Least ==
  ASSUME NEW S \in SUBSET Nat, S # {}
  PROVE  Min(S) \in S /\ \A y \in S : Min(S) <= y
<1>1. PICK x \in S : \A y \in S : ~(<<y, x>> \in OpToRel(<, Nat))
  BY NatLessThanWellFounded, WFMin
<1>2. \A y \in S : ~(y < x)
  BY <1>1 DEF OpToRel
<1>3. \A y \in S : x <= y
  BY <1>2
<1> QED
  BY <1>1, <1>3 DEF Min

LEMMA NextPosition ==
  ASSUME NEW i \in 0 .. Points - 1
  PROVE  Min({Points - 1, i + 1}) \in 0 .. Points - 1
<1>1. Points - 1 \in Nat /\ i + 1 \in Nat
  BY HistoryAssumption
<1>2. Min({Points - 1, i + 1}) \in {Points - 1, i + 1}
      /\ Min({Points - 1, i + 1}) <= Points - 1
  BY <1>1, Least
<1> QED
  BY <1>1, <1>2

\* The position alone moves.
LEMMA Moved ==
  ASSUME NEW p, NEW dn, Shape(p), ReplayOK(p, dn), NEW i \in 0 .. Points - 1
  PROVE  LET q == [p EXCEPT !.position = i]
         IN Shape(q) /\ ListPart(q) = ListPart(p) /\ ReplayOK(q, dn)
<1> DEFINE q == [p EXCEPT !.position = i]
<1>1. /\ Shape(q) /\ ListPart(q) = ListPart(p) /\ q.view = p.view /\ q.sel = p.sel
      /\ q.selEpoch = p.selEpoch /\ q.detail = p.detail /\ q.agent = p.agent
      /\ q.replayLoading = p.replayLoading /\ q.data = p.data /\ q.playing = p.playing
      /\ q.timer = p.timer /\ q.position = i /\ q.intervals = p.intervals
      /\ q.loads = p.loads /\ q.store = p.store
  BY DEF Shape, Fields, ListPart
<1> HIDE DEF q
<1>2. ReplayTypes(q, dn) /\ StoreOK(q.store, q.selEpoch, dn) /\ TimerOK(q)
  BY <1>1 DEF ReplayOK, ReplayTypes, TimerOK
<1>3. (\A then : WaitsFor(q, then) <=> WaitsFor(p, then))
      /\ (\A l : Opening(q, l) <=> Opening(p, l)) /\ (Mismatch(q) <=> Mismatch(p))
  BY <1>1 DEF WaitsFor, Opening, Mismatch
<1>4. OpeningOK(q) /\ SelectionOK(q) /\ DataOK(q)
  BY <1>1, <1>3 DEF ReplayOK, OpeningOK, SelectionOK, DataOK
<1> QED
  BY <1>1, <1>2, <1>4 DEF ReplayOK, q

\* A timer starts only over points that are there, so no view is about to open.
LEMMA KeptToggle == HInv /\ Toggle => HInv'
<1> SUFFICES ASSUME HInv, Toggle PROVE HInv'
  OBVIOUS
<1>1. Shape(hist) /\ ReplayOK(hist, done) /\ InputBounds' /\ UNCHANGED done
  BY DEF HInv, PageOK, InputBounds, Toggle
<1>2. CASE hist.playing
  <2>1. Shape(hist') /\ ListPart(hist') = ListPart(hist) /\ ReplayOK(hist', done)
    BY <1>1, <1>2, Stopped, StoppedOK DEF Toggle, ReplayOK
  <2> QED
    BY <1>1, <2>1, ReplayKeeps
<1>3. CASE ~hist.playing
  <2> DEFINE i == IF hist.position >= Points - 1 THEN 0 ELSE hist.position
  <2>1. i \in 0 .. Points - 1
    BY <1>1, HistoryAssumption DEF ReplayOK, ReplayTypes
  <2>2. /\ hist' = [hist EXCEPT !.playing = TRUE, !.timer = TRUE, !.intervals = @ + 1,
                                !.position = i]
        /\ hist.view = "replay" /\ hist.data # None
        /\ hist.intervals = 0
    BY <1>1, <1>3 DEF Toggle, ReplayOK, TimerOK
  <2> HIDE DEF i
  <2>3. /\ Shape(hist') /\ ListPart(hist') = ListPart(hist) /\ hist'.view = hist.view
        /\ hist'.sel = hist.sel /\ hist'.selEpoch = hist.selEpoch
        /\ hist'.detail = hist.detail /\ hist'.agent = hist.agent
        /\ hist'.replayLoading = hist.replayLoading /\ hist'.data = hist.data
        /\ hist'.playing = TRUE /\ hist'.timer = TRUE /\ hist'.position = i
        /\ hist'.intervals = 1 /\ hist'.loads = hist.loads /\ hist'.store = hist.store
    BY <1>1, <2>2 DEF Shape, Fields, ListPart
  <2>4. /\ ReplayTypes(hist', done) /\ StoreOK(hist'.store, hist'.selEpoch, done)
        /\ TimerOK(hist')
    BY <1>1, <2>1, <2>2, <2>3 DEF ReplayOK, ReplayTypes, TimerOK
  <2>5. ~WaitsFor(hist, "select") /\ \A l \in hist.loads : ~Opening(hist, l)
    BY <1>1, <2>2 DEF ReplayOK, OpeningOK, SelectionOK
  <2>6. ~WaitsFor(hist', "select") /\ \A l \in hist'.loads : ~Opening(hist', l)
    BY <2>3, <2>5 DEF WaitsFor, Opening
  <2>7. DataOK(hist')
    BY <1>1, <2>3 DEF ReplayOK, DataOK, Mismatch, WaitsFor
  <2>8. ReplayOK(hist', done)
    BY <2>4, <2>6, <2>7 DEF ReplayOK, OpeningOK, SelectionOK
  <2> QED
    BY <1>1, <2>3, <2>8, ReplayKeeps
<1> QED
  BY <1>2, <1>3

LEMMA KeptTick == HInv /\ Tick => HInv'
<1> SUFFICES ASSUME HInv, Tick PROVE HInv'
  OBVIOUS
<1> DEFINE next == Min({Points - 1, hist.position + 1})
           moved == [hist EXCEPT !.position = next]
<1>1. Shape(hist) /\ ReplayOK(hist, done) /\ InputBounds' /\ UNCHANGED done
  BY DEF HInv, PageOK, InputBounds, Tick
<1>2. next \in 0 .. Points - 1
  BY <1>1, NextPosition DEF ReplayOK, ReplayTypes
<1>3. hist' = IF next = Points - 1 THEN StopPlayback(moved) ELSE moved
  BY DEF Tick
<1> HIDE DEF next
<1>4. Shape(moved) /\ ListPart(moved) = ListPart(hist) /\ ReplayOK(moved, done)
  BY <1>1, <1>2, Moved
<1> HIDE DEF moved
<1>5. Shape(hist') /\ ListPart(hist') = ListPart(hist) /\ ReplayOK(hist', done)
  BY <1>3, <1>4, Stopped, StoppedOK DEF ReplayOK
<1> QED
  BY <1>1, <1>5, ReplayKeeps

LEMMA KeptSeek == \A i \in 0 .. Points - 1 : HInv /\ Seek(i) => HInv'
<1> SUFFICES ASSUME NEW i \in 0 .. Points - 1, HInv, Seek(i) PROVE HInv'
  OBVIOUS
<1>1. Shape(hist') /\ ListPart(hist') = ListPart(hist) /\ ReplayOK(hist', done)
  BY Moved DEF HInv, PageOK, Seek
<1> QED
  BY <1>1, ReplayKeeps DEF HInv, InputBounds, Seek

LEMMA KeptRunEnds == \A r \in Runs : HInv /\ RunEnds(r) => HInv'
<1> SUFFICES ASSUME NEW r \in Runs, HInv, RunEnds(r) PROVE HInv'
  OBVIOUS
<1>1. done' = done \cup {r} /\ UNCHANGED <<hist, inputs, failures>>
  BY DEF RunEnds
<1>2. PageOK(hist, done')
  BY <1>1, PageGrows DEF HInv
<1> QED
  BY <1>1, <1>2 DEF HInv, InputBounds

-----------------------------------------------------------------------------
(* The rows of the list.                                                   *)

LEMMA RunsAreFinite == Runs \in SUBSET Nat /\ IsFiniteSet(Runs)
<1>1. NRuns \in Nat /\ 1 \in Int
  BY HistoryAssumption
<1>2. IsFiniteSet(1 .. NRuns)
  BY <1>1, FS_Interval
<1> QED
  BY <1>1, <1>2 DEF Runs

\* The rows a page of the server adds, newest first.
LEMMA OrderedRows ==
  ASSUME NEW S, S \subseteq Runs, NEW more \in InOrder(S)
  PROVE  RowsOK(Reverse(more), S)
<1> DEFINE n == Cardinality(S)
           rows == Reverse(more)
<1>1. n \in Nat /\ S \subseteq Nat
  <2>1. IsFiniteSet(S)
    BY RunsAreFinite, FS_Subset
  <2> QED
    BY <2>1, RunsAreFinite, FS_CardinalityType
<1>2. more \in [1 .. n -> S] /\ \A i, j \in 1 .. n : i < j => more[i] < more[j]
  BY DEF InOrder
<1> HIDE DEF n
<1>3. \A i \in 1 .. n : more[i] \in S /\ more[i] \in Nat
  BY <1>1, <1>2
<1>4. more \in Seq(S) /\ Len(more) = n
  <2>1. more = [i \in 1 .. n |-> more[i]]
    BY <1>2
  <2>2. [i \in 1 .. n |-> more[i]] \in Seq(S)
    BY <1>1, <1>3, IsASeq
  <2>3. more \in Seq(S)
    BY <2>1, <2>2
  <2>4. DOMAIN more = 1 .. Len(more) /\ Len(more) \in Nat
    BY <2>3, LenProperties
  <2> QED
    BY <1>1, <1>2, <2>3, <2>4
<1>5. rows = [i \in 1 .. n |-> more[n - i + 1]]
  BY <1>4 DEF Reverse
<1>6. \A i \in 1 .. n : n - i + 1 \in 1 .. n
  BY <1>1
<1>7. rows \in Seq(S)
  <2>1. \A i \in 1 .. n : more[n - i + 1] \in S
    BY <1>3, <1>6
  <2> QED
    BY <1>1, <1>5, <2>1, IsASeq
<1>8. \A i, j \in 1 .. n : more[i] = more[j] => i = j
  <2> TAKE i \in 1 .. n, j \in 1 .. n
  <2> QED
    BY <1>1, <1>2, <1>3
<1>9. IsInjective(rows)
  <2> SUFFICES ASSUME NEW i \in 1 .. n, NEW j \in 1 .. n, rows[i] = rows[j]
               PROVE  i = j
    BY <1>5 DEF IsInjective
  <2>1. more[n - i + 1] = more[n - j + 1]
    BY <1>5
  <2>2. n - i + 1 = n - j + 1
    BY <1>6, <1>8, <2>1
  <2> QED
    BY <1>1, <2>2
<1> QED
  BY <1>7, <1>9 DEF RowsOK

LEMMA MergedRows ==
  ASSUME NEW dn, dn \subseteq Runs, NEW prior, RowsOK(prior, dn),
         NEW runs, runs \subseteq dn, NEW more \in InOrder(Appended(prior, runs))
  PROVE  RowsOK(prior \o Reverse(more), dn)
<1> DEFINE new == Reverse(more)
           rows == prior \o new
           n == Len(prior)
           k == Len(new)
<1>1. Appended(prior, runs) \subseteq dn /\ Appended(prior, runs) \subseteq Runs
  BY DEF Appended
<1>2. new \in Seq(Appended(prior, runs)) /\ IsInjective(new)
  BY <1>1, OrderedRows DEF RowsOK
<1> HIDE DEF new
<1>3. new \in Seq(dn)
  BY <1>1, <1>2, SeqMonotonic
<1>4. prior \in Seq(dn) /\ IsInjective(prior)
  BY DEF RowsOK
<1>5. /\ rows \in Seq(dn) /\ Len(rows) = n + k
      /\ \A i \in 1 .. n + k : rows[i] = IF i <= n THEN prior[i] ELSE new[i - n]
  BY <1>3, <1>4, ConcatProperties
<1>6. n \in Nat /\ k \in Nat /\ DOMAIN prior = 1 .. n /\ DOMAIN new = 1 .. k
      /\ DOMAIN rows = 1 .. n + k
  BY <1>3, <1>4, <1>5, LenProperties
<1>7. \A i \in 1 .. k : new[i] \notin ToSet(prior)
  BY <1>2, <1>6, ElementOfSeq DEF Appended
<1>8. \A i \in 1 .. n : prior[i] \in ToSet(prior)
  BY <1>6 DEF ToSet
<1> HIDE DEF rows, n, k
<1>9. IsInjective(rows)
  <2> SUFFICES ASSUME NEW i \in 1 .. n + k, NEW j \in 1 .. n + k, rows[i] = rows[j]
               PROVE  i = j
    BY <1>6 DEF IsInjective
  <2>1. CASE i <= n /\ j <= n
    <3>1. prior[i] = prior[j] /\ i \in 1 .. n /\ j \in 1 .. n
      BY <1>5, <1>6, <2>1
    <3> QED
      BY <1>4, <1>6, <3>1 DEF IsInjective
  <2>2. CASE ~(i <= n) /\ ~(j <= n)
    <3>1. new[i - n] = new[j - n] /\ i - n \in 1 .. k /\ j - n \in 1 .. k
      BY <1>5, <1>6, <2>2
    <3>2. i - n = j - n
      BY <1>2, <1>6, <3>1 DEF IsInjective
    <3> QED
      BY <1>6, <3>2
  <2>3. CASE i <= n /\ ~(j <= n)
    <3>1. prior[i] = new[j - n] /\ i \in 1 .. n /\ j - n \in 1 .. k
      BY <1>5, <1>6, <2>3
    <3> QED
      BY <1>7, <1>8, <3>1
  <2>4. CASE ~(i <= n) /\ j <= n
    <3>1. prior[j] = new[i - n] /\ j \in 1 .. n /\ i - n \in 1 .. k
      BY <1>5, <1>6, <2>4
    <3> QED
      BY <1>7, <1>8, <3>1
  <2> QED
    BY <2>1, <2>2, <2>3, <2>4
<1> QED
  BY <1>5, <1>9 DEF RowsOK, rows, new

\* A page that is not the last has rows, the oldest of which its cursor names.
LEMMA AnswerType ==
  ASSUME NEW l, l.filter \in Filters
  PROVE  /\ Answer(l).rows \subseteq done
         /\ Answer(l).cursor \in Cursors \cup {None}
<1> DEFINE listed == Listed(l)
           page == {r \in listed : Cardinality({q \in listed : q > r}) < PageSize}
<1>1. listed \subseteq Runs /\ NRuns \in Nat
  BY HistoryAssumption DEF Listed
<1>2. Answer(l) = [rows |-> page \cap done,
                   cursor |-> IF page = listed THEN None
                              ELSE [filter |-> l.filter, after |-> Min(page)]]
  BY DEF Answer
<1> HIDE DEF listed
<1>3. ASSUME page # listed
      PROVE  page # {}
  <2> DEFINE ages == {k \in Nat : NRuns - k \in listed}
  <2>1. ages # {} /\ ages \in SUBSET Nat
    <3>1. PICK r \in listed : TRUE
      BY <1>3
    <3>2. r \in Runs /\ NRuns - r \in Nat /\ NRuns - (NRuns - r) = r
      BY <1>1 DEF Runs
    <3> QED
      BY <3>1, <3>2
  <2>2. Min(ages) \in ages /\ \A k \in ages : Min(ages) <= k
    BY <2>1, Least
  <2> DEFINE r == NRuns - Min(ages)
  <2>3. r \in listed
    BY <2>2
  <2>4. \A q \in listed : ~(q > r)
    <3> SUFFICES ASSUME NEW q \in listed, q > r PROVE FALSE
      OBVIOUS
    <3>1. q \in Nat /\ NRuns - q \in Nat /\ NRuns - (NRuns - q) = q
      BY <1>1 DEF Runs
    <3>2. NRuns - q \in ages
      BY <3>1
    <3>3. Min(ages) <= NRuns - q /\ Min(ages) \in Nat
      BY <2>2, <3>2
    <3> QED
      BY <1>1, <3>1, <3>3
  <2> HIDE DEF r
  <2>5. {q \in listed : q > r} = {}
    BY <2>4
  <2>6. Cardinality({q \in listed : q > r}) < PageSize
    BY <2>5, FS_EmptySet, HistoryAssumption
  <2> QED
    BY <2>3, <2>6
<1>4. ASSUME page # listed
      PROVE  Min(page) \in Runs
  <2>1. page \in SUBSET Nat /\ page \subseteq Runs
    <3>1. page \subseteq listed
      OBVIOUS
    <3> QED
      BY <1>1, <3>1, RunsAreFinite
  <2> HIDE DEF page
  <2> QED
    BY <1>3, <1>4, <2>1, Least
<1> HIDE DEF page
<1> QED
  BY <1>2, <1>4 DEF Cursors

-----------------------------------------------------------------------------
(* The functions of the list.                                              *)

LEMMA EmptyRows == \A dn : RowsOK(<<>>, dn)
  BY EmptySeq DEF RowsOK, IsInjective

LEMMA Noticed ==
  ASSUME NEW p, Shape(p), NEW loaded, NEW link
  PROVE  LET q == NoticeUnless(p, loaded, link)
         IN Shape(q) /\ ListPart(q) = ListPart(p) /\ ReplayPart(q) = ReplayPart(p)
  BY DEF NoticeUnless, Shape, Fields, ListPart, ReplayPart

\* A load of the list, from the start or from its cursor.
LEMMA LoadHistoryOK ==
  ASSUME NEW p, NEW dn, Shape(p), ListOK(p, dn), NEW append \in BOOLEAN,
         NEW link \in Runs \cup {None}, NEW open \in Opens
  PROVE  LET q == LoadHistory(p, append, link, open)
         IN Shape(q) /\ ListOK(q, dn) /\ ReplayPart(q) = ReplayPart(p)
<1>1. CASE p.loading \/ (append /\ p.cursor = None)
  BY <1>1, Noticed, ListFrame DEF LoadHistory
<1>2. CASE ~(p.loading \/ (append /\ p.cursor = None))
  <2> DEFINE cursor == IF append THEN p.cursor ELSE None
             prior == IF append THEN p.items ELSE <<>>
             n == p.epoch + 1
             new == [epoch |-> n, filter |-> p.filter, cursor |-> cursor,
                     prior |-> prior, link |-> link, open |-> open, answer |-> None]
             q == [p EXCEPT !.epoch = n, !.loading = TRUE, !.items = prior,
                            !.cursor = cursor, !.lists = @ \cup {new}]
  <2>1. LoadHistory(p, append, link, open) = q
    BY <1>2 DEF LoadHistory
  <2>2. RowsOK(prior, dn) /\ cursor \in Cursors \cup {None} /\ n \in Nat /\ n \in 1 .. n
    BY EmptyRows DEF ListOK
  <2>3. \A e \in 1 .. p.epoch : e \in 1 .. n
    BY DEF ListOK
  <2> HIDE DEF prior, cursor, n
  <2>4. ListCallOK(new, n, dn)
    BY <2>2 DEF ListCallOK, ListOK
  <2> HIDE DEF new
  <2>5. /\ Shape(q) /\ ReplayPart(q) = ReplayPart(p) /\ q.filter = p.filter
        /\ q.cursor = cursor /\ q.epoch = n /\ q.items = prior
        /\ q.lists = p.lists \cup {new}
    BY DEF Shape, Fields, ReplayPart
  <2> HIDE DEF q
  <2>6. \A l \in p.lists : ListCallOK(l, n, dn)
    BY <2>3 DEF ListOK, ListCallOK
  <2>7. ListOK(q, dn)
    BY <2>2, <2>4, <2>5, <2>6 DEF ListOK
  <2> QED
    BY <2>1, <2>5, <2>7
<1> QED
  BY <1>1, <1>2

\* A link whose run has a row selects it; otherwise nothing is selected.
LEMMA FollowLinkOK ==
  ASSUME NEW p, NEW dn, dn \subseteq Runs, PageOK(p, dn), NEW link, NEW open \in Opens
  PROVE  PageOK(FollowLink(p, link, open), dn)
<1>1. CASE link = None
  BY <1>1 DEF FollowLink
<1>2. CASE link # None /\ Contains(p.items, link)
  BY <1>2, SelectOK, ListFrame DEF FollowLink, PageOK
<1>3. CASE link # None /\ ~Contains(p.items, link)
  <2> DEFINE q == [p EXCEPT !.items = <<>>, !.sel = None, !.detail = None,
                            !.notice = "unavailable"]
  <2>1. FollowLink(p, link, open) = q
    BY <1>3 DEF FollowLink
  <2>2. /\ Shape(q) /\ q.filter = p.filter /\ q.items = <<>> /\ q.cursor = p.cursor
        /\ q.epoch = p.epoch /\ q.lists = p.lists /\ q.view = p.view /\ q.sel = None
        /\ q.selEpoch = p.selEpoch /\ q.detail = None /\ q.agent = p.agent
        /\ q.replayLoading = p.replayLoading /\ q.data = p.data /\ q.playing = p.playing
        /\ q.timer = p.timer /\ q.position = p.position /\ q.intervals = p.intervals
        /\ q.loads = p.loads /\ q.store = p.store
    BY DEF PageOK, Shape, Fields
  <2> HIDE DEF q
  <2>3. ListOK(q, dn)
    BY <2>2, EmptyRows DEF PageOK, ListOK
  <2>4. ReplayTypes(q, dn) /\ StoreOK(q.store, q.selEpoch, dn) /\ TimerOK(q)
    BY <2>2 DEF PageOK, ReplayOK, ReplayTypes, TimerOK
  <2>5. (\A then : WaitsFor(q, then) <=> WaitsFor(p, then))
        /\ (\A l : Opening(q, l) <=> Opening(p, l))
    BY <2>2 DEF WaitsFor, Opening
  <2>6. OpeningOK(q) /\ SelectionOK(q) /\ DataOK(q)
    BY <2>2, <2>5 DEF PageOK, ReplayOK, OpeningOK, SelectionOK, DataOK, Mismatch
  <2> QED
    BY <2>1, <2>2, <2>3, <2>4, <2>6 DEF PageOK, ReplayOK
<1> QED
  BY <1>1, <1>2, <1>3

-----------------------------------------------------------------------------
(* The steps of the list.                                                  *)

LEMMA KeptListArrives == \A l \in hist.lists : HInv /\ ListArrives(l) => HInv'
<1> SUFFICES ASSUME NEW l \in hist.lists, HInv, ListArrives(l) PROVE HInv'
  OBVIOUS
<1> DEFINE rest == hist.lists \ {l}
           dropped == [hist EXCEPT !.lists = rest]
<1>1. /\ Shape(hist) /\ ListOK(hist, done) /\ ListCallOK(l, hist.epoch, done)
      /\ done \subseteq Runs
  BY DEF HInv, PageOK, ListOK
<1>2. InputBounds' /\ UNCHANGED done
  BY DEF ListArrives, HInv, InputBounds
<1>3. CASE hist.epoch # l.epoch
  <2>1. hist' = NoticeUnless(dropped, FALSE, l.link)
    BY <1>3 DEF ListArrives
  <2>2. /\ Shape(dropped) /\ ReplayPart(dropped) = ReplayPart(hist)
        /\ dropped.filter = hist.filter /\ dropped.items = hist.items
        /\ dropped.cursor = hist.cursor /\ dropped.epoch = hist.epoch
        /\ dropped.lists = rest
    BY <1>1 DEF Shape, Fields, ReplayPart
  <2> HIDE DEF dropped
  <2>3. ListOK(dropped, done)
    BY <1>1, <2>2 DEF ListOK
  <2>4. Shape(hist') /\ ReplayPart(hist') = ReplayPart(hist) /\ ListOK(hist', done)
    BY <2>1, <2>2, <2>3, Noticed, ListFrame
  <2> QED
    BY <1>2, <2>4, ListKeeps
<1>4. CASE hist.epoch = l.epoch
  <2>1. PICK more \in InOrder(Appended(l.prior, Answer(l).rows)) :
          hist' = [hist EXCEPT !.lists = rest \cup
                      {[l EXCEPT !.answer = [rows |-> l.prior \o Reverse(more),
                                             cursor |-> Answer(l).cursor]]}]
    BY <1>4 DEF ListArrives
  <2> DEFINE rows == l.prior \o Reverse(more)
             answer == [rows |-> rows, cursor |-> Answer(l).cursor]
             kept == [l EXCEPT !.answer = answer]
  <2>2. Answer(l).rows \subseteq done /\ Answer(l).cursor \in Cursors \cup {None}
    BY <1>1, AnswerType DEF ListCallOK
  <2>3. RowsOK(rows, done)
    BY <1>1, <2>2, MergedRows DEF ListCallOK
  <2> HIDE DEF rows
  <2>4. AnswerOK(answer, done)
    BY <2>2, <2>3 DEF AnswerOK
  <2> HIDE DEF answer
  <2>5. ListCallOK(kept, hist.epoch, done)
    BY <1>1, <2>4 DEF ListCallOK
  <2>6. hist' = [hist EXCEPT !.lists = rest \cup {kept}]
    BY <2>1 DEF rows, answer
  <2> HIDE DEF kept
  <2>7. /\ Shape(hist') /\ ReplayPart(hist') = ReplayPart(hist)
        /\ hist'.filter = hist.filter /\ hist'.items = hist.items
        /\ hist'.cursor = hist.cursor /\ hist'.epoch = hist.epoch
        /\ hist'.lists = rest \cup {kept}
    BY <1>1, <2>6 DEF Shape, Fields, ReplayPart
  <2>8. ListOK(hist', done)
    BY <1>1, <2>5, <2>7 DEF ListOK
  <2> QED
    BY <1>2, <2>7, <2>8, ListKeeps
<1> QED
  BY <1>3, <1>4

LEMMA KeptMetricsArrive == \A l \in hist.lists : HInv /\ MetricsArrive(l) => HInv'
<1> SUFFICES ASSUME NEW l \in hist.lists, HInv, MetricsArrive(l) PROVE HInv'
  OBVIOUS
<1> DEFINE p == [hist EXCEPT !.lists = @ \ {l}, !.items = l.answer.rows,
                             !.cursor = l.answer.cursor, !.loading = FALSE]
<1>1. /\ Shape(hist) /\ ListOK(hist, done) /\ ReplayOK(hist, done)
      /\ ListCallOK(l, hist.epoch, done) /\ done \subseteq Runs
  BY DEF HInv, PageOK, ListOK
<1>2. AnswerOK(l.answer, done) /\ l.open \in Opens
  BY <1>1 DEF MetricsArrive, ListCallOK
<1>3. hist' = FollowLink(p, l.link, l.open) /\ UNCHANGED <<done, inputs, failures>>
  BY DEF MetricsArrive
<1>4. /\ Shape(p) /\ ReplayPart(p) = ReplayPart(hist)
      /\ p.filter = hist.filter /\ p.items = l.answer.rows
      /\ p.cursor = l.answer.cursor /\ p.epoch = hist.epoch
      /\ p.lists = hist.lists \ {l}
  BY <1>1 DEF Shape, Fields, ReplayPart
<1> HIDE DEF p
<1>5. ListOK(p, done)
  BY <1>1, <1>2, <1>4 DEF ListOK, AnswerOK
<1>6. PageOK(p, done)
  BY <1>1, <1>4, <1>5, ReplayFrame DEF PageOK
<1>7. PageOK(hist', done)
  BY <1>1, <1>2, <1>3, <1>6, FollowLinkOK
<1> QED
  BY <1>3, <1>7 DEF HInv, InputBounds

LEMMA KeptListFails == \A l \in hist.lists : HInv /\ ListFails(l) => HInv'
<1> SUFFICES ASSUME NEW l \in hist.lists, HInv, ListFails(l) PROVE HInv'
  OBVIOUS
<1> DEFINE loading == IF hist.epoch = l.epoch THEN FALSE ELSE hist.loading
           p == [hist EXCEPT !.lists = @ \ {l}, !.loading = loading]
<1>1. Shape(hist) /\ ListOK(hist, done)
  BY DEF HInv, PageOK
<1>2. InputBounds' /\ UNCHANGED done
  BY HistoryAssumption DEF ListFails, HInv, InputBounds
<1>3. hist' = NoticeUnless(p, FALSE, l.link)
  BY <1>1 DEF ListFails, Failed, Shape, Fields
<1> HIDE DEF loading
<1>4. /\ Shape(p) /\ ReplayPart(p) = ReplayPart(hist)
      /\ p.filter = hist.filter /\ p.items = hist.items /\ p.cursor = hist.cursor
      /\ p.epoch = hist.epoch /\ p.lists = hist.lists \ {l}
  BY <1>1 DEF Shape, Fields, ReplayPart
<1> HIDE DEF p
<1>5. ListOK(p, done)
  BY <1>1, <1>4 DEF ListOK
<1>6. Shape(hist') /\ ReplayPart(hist') = ReplayPart(hist) /\ ListOK(hist', done)
  BY <1>3, <1>4, <1>5, Noticed, ListFrame
<1> QED
  BY <1>2, <1>6, ListKeeps

-----------------------------------------------------------------------------
(* The steps of the user.                                                  *)

LEMMA InputKeeps ==
  ASSUME HInv, NEW p, PageOK(p, done), Input(p)
  PROVE  HInv'
<1>1. InputBounds' /\ UNCHANGED done /\ hist' = p
  BY HistoryAssumption DEF HInv, InputBounds, Input
<1> QED
  BY <1>1 DEF HInv

\* A page whose list is loaded anew.
LEMMA ReloadOK ==
  ASSUME NEW p, NEW dn, PageOK(p, dn), NEW append \in BOOLEAN,
         NEW link \in Runs \cup {None}, NEW open \in Opens
  PROVE  PageOK(LoadHistory(p, append, link, open), dn)
  BY LoadHistoryOK, ReplayFrame DEF PageOK

LEMMA KeptNav == \A v \in Views : HInv /\ Nav(v) => HInv'
<1> SUFFICES ASSUME NEW v \in Views, HInv, Nav(v) PROVE HInv'
  OBVIOUS
<1> DEFINE base == IF v = "replay" THEN hist ELSE StopPlayback(hist)
           seen == [base EXCEPT !.view = v]
<1>1. Shape(hist) /\ ListOK(hist, done) /\ ReplayOK(hist, done)
  BY DEF HInv, PageOK
<1>2. /\ Shape(base) /\ ListPart(base) = ListPart(hist) /\ ReplayOK(base, done)
      /\ base.timer => v = "replay"
  BY <1>1, Stopped, StoppedOK DEF ReplayOK
<1> HIDE DEF base
<1>3. /\ Shape(seen) /\ ListPart(seen) = ListPart(base) /\ seen.view = v
      /\ seen.sel = base.sel /\ seen.selEpoch = base.selEpoch /\ seen.detail = base.detail
      /\ seen.agent = base.agent /\ seen.replayLoading = base.replayLoading
      /\ seen.data = base.data /\ seen.playing = base.playing /\ seen.timer = base.timer
      /\ seen.position = base.position /\ seen.intervals = base.intervals
      /\ seen.loads = base.loads /\ seen.store = base.store
  BY <1>2 DEF Shape, Fields, ListPart
<1> HIDE DEF seen
<1>4. ReplayTypes(seen, done) /\ StoreOK(seen.store, seen.selEpoch, done) /\ TimerOK(seen)
  BY <1>2, <1>3 DEF ReplayOK, ReplayTypes, TimerOK
<1>5. (\A then : WaitsFor(seen, then) <=> WaitsFor(base, then))
      /\ (\A l : Opening(seen, l) <=> Opening(base, l))
      /\ (Mismatch(seen) <=> Mismatch(base))
  BY <1>3 DEF WaitsFor, Opening, Mismatch
<1>6. OpeningOK(seen) /\ SelectionOK(seen) /\ DataOK(seen)
  BY <1>2, <1>3, <1>5 DEF ReplayOK, OpeningOK, SelectionOK, DataOK
<1>7. PageOK(seen, done)
  BY <1>1, <1>2, <1>3, <1>4, <1>6, ListFrame DEF PageOK, ReplayOK
<1>8. PageOK(LoadHistory(seen, FALSE, None, None), done)
  BY <1>7, ReloadOK DEF Opens
<1> QED
  BY <1>7, <1>8, InputKeeps DEF Nav, seen, base

LEMMA KeptOpenLink ==
  \A v \in {"history", "replay"}, r \in Runs : HInv /\ OpenLink(v, r) => HInv'
<1> SUFFICES ASSUME NEW v \in {"history", "replay"}, NEW r \in Runs, HInv, OpenLink(v, r)
             PROVE  HInv'
  OBVIOUS
<1> DEFINE stopped == StopPlayback(hist)
           p == [NoReplay(stopped) EXCEPT !.view = v, !.items = <<>>, !.sel = None,
                    !.detail = None, !.detailLoading = FALSE, !.notice = None]
           open == IF v = "replay" THEN v ELSE None
<1>1. Shape(hist) /\ ListOK(hist, done) /\ ReplayOK(hist, done)
  BY DEF HInv, PageOK
<1>2. /\ Shape(stopped) /\ ListPart(stopped) = ListPart(hist) /\ ReplayOK(stopped, done)
      /\ stopped.timer = FALSE /\ stopped.playing = FALSE /\ stopped.intervals = 0
  BY <1>1, Stopped, StoppedOK DEF ReplayOK
<1>3. ListOK(stopped, done)
  BY <1>1, <1>2, ListFrame
<1>4. Input(LoadHistory(p, FALSE, r, open))
  BY DEF OpenLink
<1> HIDE DEF stopped
<1>5. /\ Shape(p) /\ p.filter = stopped.filter /\ p.items = <<>>
      /\ p.cursor = stopped.cursor /\ p.epoch = stopped.epoch /\ p.lists = stopped.lists
      /\ p.view = v /\ p.sel = None /\ p.selEpoch = stopped.selEpoch /\ p.detail = None
      /\ p.agent = FirstAgent /\ p.replayLoading = FALSE /\ p.data = None
      /\ p.playing = FALSE /\ p.timer = FALSE /\ p.position = stopped.position
      /\ p.intervals = 0 /\ p.loads = stopped.loads /\ p.store = stopped.store
  BY <1>2 DEF NoReplay, Shape, Fields
<1> HIDE DEF p
<1>6. ListOK(p, done)
  BY <1>3, <1>5, EmptyRows DEF ListOK
<1>7. ReplayTypes(p, done) /\ StoreOK(p.store, p.selEpoch, done) /\ TimerOK(p)
  BY <1>2, <1>5, HistoryAssumption DEF ReplayOK, ReplayTypes, TimerOK, Views
<1>8. (\A then : WaitsFor(p, then) <=> WaitsFor(stopped, then))
      /\ (\A l : Opening(p, l) <=> Opening(stopped, l))
  BY <1>5 DEF WaitsFor, Opening
<1>9. OpeningOK(p) /\ SelectionOK(p) /\ DataOK(p)
  BY <1>2, <1>5, <1>8 DEF ReplayOK, OpeningOK, SelectionOK, DataOK, Mismatch
<1>10. PageOK(p, done)
  BY <1>5, <1>6, <1>7, <1>9 DEF PageOK, ReplayOK
<1>11. open \in Opens
  BY DEF Opens
<1> HIDE DEF open
<1>12. PageOK(LoadHistory(p, FALSE, r, open), done)
  BY <1>10, <1>11, ReloadOK
<1> QED
  BY <1>4, <1>12, InputKeeps

LEMMA KeptUpdateFilters == \A f \in Filters : HInv /\ UpdateFilters(f) => HInv'
<1> SUFFICES ASSUME NEW f \in Filters, HInv, UpdateFilters(f) PROVE HInv'
  OBVIOUS
<1> DEFINE p == [hist EXCEPT !.filter = f, !.items = <<>>, !.cursor = None,
                             !.loading = FALSE, !.epoch = @ + 1]
<1>1. Shape(hist) /\ ListOK(hist, done) /\ ReplayOK(hist, done)
  BY DEF HInv, PageOK
<1>2. /\ Shape(p) /\ ReplayPart(p) = ReplayPart(hist) /\ p.filter = f /\ p.items = <<>>
      /\ p.cursor = None /\ p.epoch = hist.epoch + 1 /\ p.lists = hist.lists
  BY <1>1 DEF Shape, Fields, ReplayPart
<1> HIDE DEF p
<1>3. \A l \in p.lists : ListCallOK(l, p.epoch, done)
  BY <1>1, <1>2 DEF ListOK, ListCallOK
<1>4. ListOK(p, done)
  BY <1>1, <1>2, <1>3, EmptyRows DEF ListOK
<1>5. PageOK(p, done)
  BY <1>1, <1>2, <1>4, ReplayFrame DEF PageOK
<1>6. PageOK(LoadHistory(p, FALSE, None, None), done)
  BY <1>5, ReloadOK DEF Opens
<1> QED
  BY <1>6, InputKeeps DEF UpdateFilters, p

LEMMA KeptMore == HInv /\ More => HInv'
<1> SUFFICES ASSUME HInv, More PROVE HInv'
  OBVIOUS
<1>1. PageOK(LoadHistory(hist, TRUE, None, None), done)
  BY ReloadOK DEF HInv, Opens
<1> QED
  BY <1>1, InputKeeps DEF More

LEMMA KeptSelectRow ==
  \A r \in Runs, open \in {"replay", "workspace"} : HInv /\ SelectRow(r, open) => HInv'
<1> SUFFICES ASSUME NEW r \in Runs, NEW open \in {"replay", "workspace"},
                    HInv, SelectRow(r, open)
             PROVE  HInv'
  OBVIOUS
<1>1. PageOK(Select(hist, r, open), done)
  BY SelectOK, ListFrame DEF HInv, PageOK, Opens
<1> QED
  BY <1>1, InputKeeps DEF SelectRow

-----------------------------------------------------------------------------
(* The theorems.                                                           *)

LEMMA HistoryInit == HInit => HInv
<1> SUFFICES ASSUME HInit PROVE HInv
  OBVIOUS
<1>1. done \subseteq Runs /\ InputBounds
  BY HistoryAssumption DEF HInit, InputBounds
<1>2. /\ hist.view = "workspace" /\ hist.filter = NoFilter /\ hist.items = <<>>
      /\ hist.cursor = None /\ hist.epoch = 0 /\ hist.sel = None /\ hist.selEpoch = 0
      /\ hist.detail = None /\ hist.agent = FirstAgent /\ hist.replayLoading = FALSE
      /\ hist.data = None /\ hist.playing = FALSE /\ hist.timer = FALSE
      /\ hist.position = 0 /\ hist.intervals = 0 /\ hist.lists = {} /\ hist.loads = {}
      /\ hist.store = [run |-> None, agent |-> FirstAgent, known |-> FALSE,
                       summary |-> None, request |-> None]
  BY DEF HInit
<1>3. Shape(hist)
  BY DEF HInit, Shape, Fields
<1>4. ListOK(hist, done)
  BY <1>2, EmptyRows, HistoryAssumption DEF ListOK
<1>5. StoreOK(hist.store, hist.selEpoch, done)
  BY <1>2, HistoryAssumption DEF StoreOK, Stores
<1>6. ReplayTypes(hist, done) /\ TimerOK(hist)
  <2>1. 0 \in 0 .. Points - 1 /\ FirstAgent \in Agents
    BY HistoryAssumption
  <2>2. TimerOK(hist)
    BY <1>2 DEF TimerOK
  <2> QED
    BY <1>2, <2>1, <2>2 DEF ReplayTypes, Views
<1>7. OpeningOK(hist) /\ SelectionOK(hist) /\ DataOK(hist)
  BY <1>2 DEF OpeningOK, SelectionOK, DataOK, Mismatch
<1> QED
  BY <1>1, <1>3, <1>4, <1>5, <1>6, <1>7 DEF HInv, PageOK, ReplayOK

LEMMA HistoryNext == HInv /\ [HNext]_hvars => HInv'
<1> SUFFICES ASSUME HInv, [HNext]_hvars PROVE HInv'
  OBVIOUS
<1>1. CASE UNCHANGED hvars
  BY <1>1 DEF HInv, InputBounds, hvars
<1>2. CASE \E r \in Runs : \/ RunEnds(r) \/ FollowLive(r)
                           \/ \E open \in {"replay", "workspace"} : SelectRow(r, open)
  BY <1>2, KeptRunEnds, KeptFollowLive, KeptSelectRow
<1>3. CASE \E v \in {"history", "replay", "workspace"} : Nav(v)
  BY <1>3, KeptNav DEF Views
<1>4. CASE \E v \in {"history", "replay"}, r \in Runs : OpenLink(v, r)
  BY <1>4, KeptOpenLink
<1>5. CASE \E f \in Filters : UpdateFilters(f)
  BY <1>5, KeptUpdateFilters
<1>6. CASE \E a \in Agents : ReplayAgent(a) \/ WorkspaceAgent(a)
  BY <1>6, KeptReplayAgent, KeptWorkspaceAgent
<1>7. CASE More \/ Toggle \/ Tick \/ \E i \in 0 .. Points - 1 : Seek(i)
  BY <1>7, KeptMore, KeptToggle, KeptTick, KeptSeek
<1>8. CASE StoreAnswers \/ StoreFails \/ EndIsStreamed \/ ReadinessEmitted
  BY <1>8, KeptStoreAnswers, KeptStoreFails, KeptEndIsStreamed, KeptReadinessEmitted
<1>9. CASE ListStep
  BY <1>9, KeptListArrives, KeptMetricsArrive, KeptListFails DEF ListStep
<1>10. CASE ReplayStep
  BY <1>10, KeptReplayAnswers DEF ReplayStep
<1> QED
  BY <1>1, <1>2, <1>3, <1>4, <1>5, <1>6, <1>7, <1>8, <1>9, <1>10 DEF HNext

LEMMA HistoryInv == HSpec => []HInv
  BY HistoryInit, HistoryNext, PTL DEF HSpec

\* Types of the page's history, playback and store (createApplicationState).
THEOREM HistoryTypes == HSpec => []HTypeOK
<1>1. HInv => HTypeOK
  <2> SUFFICES ASSUME HInv PROVE HTypeOK
    OBVIOUS
  <2>1. /\ done \subseteq Runs /\ InputBounds /\ ListOK(hist, done)
        /\ ReplayTypes(hist, done) /\ StoreOK(hist.store, hist.selEpoch, done)
    BY DEF HInv, PageOK, ReplayOK
  <2>2. hist.items \in Seq(Runs)
    BY <2>1, SeqMonotonic DEF ListOK, RowsOK
  <2>3. \A l \in hist.lists : l.epoch \in 1 .. hist.epoch
    BY <2>1 DEF ListOK, ListCallOK
  <2>4. \A l \in hist.loads : l.epoch \in 1 .. hist.selEpoch
    BY <2>1 DEF ReplayTypes, LoadOK
  <2>5. /\ hist.store.run \in Runs \cup {None} /\ hist.store.agent \in Agents
        /\ hist.store.summary \in {None, hist.store.agent}
    BY <2>1 DEF StoreOK, Stores
  <2>6. hist.filter \in Filters /\ hist.cursor \in {None} \cup [filter : Filters, after : Runs]
    BY <2>1 DEF ListOK, Cursors
  <2>7. /\ hist.view \in {"history", "replay", "workspace"}
        /\ hist.sel \in Runs \cup {None} /\ hist.detail \in Runs \cup {None}
        /\ hist.agent \in Agents /\ hist.data \in {None} \cup [run : Runs, agent : Agents]
        /\ hist.position \in 0 .. Points - 1
    BY <2>1 DEF ReplayTypes, Views
  <2> QED
    BY <2>1, <2>2, <2>3, <2>4, <2>5, <2>6, <2>7 DEF HTypeOK, InputBounds
<1> QED
  BY <1>1, HistoryInv, PTL

\* No run has two rows (loadHistory's merge, upsertHistoryRun).
THEOREM RowsAreDistinct == HSpec => []NoDuplicateRows
<1>1. HInv => NoDuplicateRows
  BY DEF HInv, PageOK, ListOK, RowsOK, NoDuplicateRows
<1> QED
  BY <1>1, HistoryInv, PTL

\* The replay that is drawn is that of the selected run and active agent (the
\* guard of loadReplayResources, and what replayView asks of the store).
THEOREM DrawnReplayIsSelected == HSpec => []ReplayShowsSelection
<1>1. HInv => ReplayShowsSelection
  <2> SUFFICES ASSUME HInv, ReplayShown
               PROVE  hist.data = [run |-> hist.sel, agent |-> hist.agent]
    BY DEF ReplayShowsSelection
  <2>1. ReplayOK(hist, done) /\ hist.store.summary # None /\ hist.detail = hist.sel
        /\ hist.detail # None /\ hist.data # None /\ hist.store.run = hist.sel
    BY DEF HInv, PageOK, ReplayShown
  <2>2. ArtifactGate(hist.sel) /\ hist.store.request = None
    BY <2>1 DEF ReplayOK, StoreOK
  <2>3. ~Mismatch(hist)
    BY <2>1, <2>2 DEF ReplayOK, DataOK, WaitsFor
  <2> QED
    BY <2>1, <2>2, <2>3 DEF Mismatch
<1> QED
  BY <1>1, HistoryInv, PTL

\* At most one interval moves the playback, and only while the replay is in
\* view (stopReplayPlayback, openReplayAfterSelection).
THEOREM PlaybackHasOneTimer == HSpec => []OneTimer
<1>1. HInv => OneTimer
  BY DEF HInv, PageOK, ReplayOK, TimerOK, OneTimer
<1> QED
  BY <1>1, HistoryInv, PTL
=============================================================================
