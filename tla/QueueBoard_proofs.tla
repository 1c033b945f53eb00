------------------------- MODULE QueueBoard_proofs -------------------------
(***************************************************************************)
(* The queue board keeps its types, and a run is marked as being cancelled *)
(* exactly while one call cancels it, for any number of runs and calls.    *)
(***************************************************************************)
EXTENDS QueueBoard, SequenceTheorems, TLAPS

-----------------------------------------------------------------------------
(* The inductive invariant.                                                *)

Rows == [Tasks -> Stages \cup {None}]
Loads == [loading : BOOLEAN, request : {"none", "list", "details"}, rows : Rows,
          unread : SUBSET Tasks]
Boards == [items : Rows, load : Loads, pending : SUBSET Tasks,
           calls : [Calls -> CallRecords \cup {None}]]

\* The store shows a point of its run's trail.
TaskOK(t, tr) ==
  /\ t \in [run : Tasks \cup {None}, seen : Nat]
  /\ t.run # None => t.seen <= Len(tr[t.run])

\* PendingExact of any board.
Exact(b) ==
  LET busy == {c \in Calls : b.calls[c] # None}
  IN /\ b.pending = {b.calls[c].run : c \in busy}
     /\ \A c, d \in busy : b.calls[c].run = b.calls[d].run => c = d

BoardOK(b) == b \in Boards /\ Exact(b)

Rest ==
  /\ view \in {"workspace", "queue", "history"} /\ starting \subseteq Tasks
  /\ clicks \in 0 .. MaxClicks /\ missed \in 0 .. MaxLost

QInv ==
  /\ trail \in [Tasks -> Seq(Stages)]
  /\ TaskOK(task, trail) /\ BoardOK(board) /\ Rest

-----------------------------------------------------------------------------
(* What the board's functions keep.                                        *)

LEMMA StatusType ==
  ASSUME trail \in [Tasks -> Seq(Stages)], NEW r \in Tasks
  PROVE  StatusOf(r) \in Stages \cup {None}
<1>1. CASE trail[r] = <<>>
  BY <1>1 DEF StatusOf
<1>2. CASE trail[r] # <<>>
  <2>1. trail[r] \in Seq(Stages) /\ Len(trail[r]) \in 1 .. Len(trail[r])
    BY <1>2
  <2>2. trail[r][Len(trail[r])] \in Stages
    BY <2>1
  <2> QED
    BY <1>2, <2>2 DEF StatusOf, Last
<1> QED
  BY <1>1, <1>2

LEMMA ShownType ==
  ASSUME trail \in [Tasks -> Seq(Stages)], NEW t, TaskOK(t, trail)
  PROVE  ShownStatus(t) \in Stages \cup {None}
<1>1. CASE t.run = None \/ t.seen = 0
  BY <1>1 DEF ShownStatus
<1>2. CASE t.run # None /\ t.seen # 0
  <2>1. t.run \in Tasks /\ trail[t.run] \in Seq(Stages) /\ t.seen \in 1 .. Len(trail[t.run])
    BY <1>2 DEF TaskOK
  <2>2. trail[t.run][t.seen] \in Stages
    BY <2>1
  <2> QED
    BY <1>2, <2>2 DEF ShownStatus
<1> QED
  BY <1>1, <1>2

LEMMA ProjectedType ==
  ASSUME trail \in [Tasks -> Seq(Stages)], NEW t, TaskOK(t, trail), NEW items \in Rows
  PROVE  Projected(items, t) \in Rows
<1>1. ShownStatus(t) \in Stages \cup {None}
  BY ShownType
<1> QED
  BY <1>1 DEF Projected, Rows

\* Anything may happen to the items and to the load.
LEMMA OtherFields ==
  ASSUME NEW b, BoardOK(b), NEW items \in Rows, NEW load \in Loads
  PROVE  /\ BoardOK([b EXCEPT !.items = items])
         /\ BoardOK([b EXCEPT !.load = load])
         /\ BoardOK([b EXCEPT !.items = items, !.load = load])
<1> SUFFICES ASSUME NEW bb \in Boards, bb.calls = b.calls, bb.pending = b.pending
             PROVE  BoardOK(bb)
  <2>1. \A bb \in Boards : bb.calls = b.calls /\ bb.pending = b.pending => BoardOK(bb)
    OBVIOUS
  <2>2. /\ [b EXCEPT !.items = items] \in Boards
        /\ [b EXCEPT !.items = items].calls = b.calls
        /\ [b EXCEPT !.items = items].pending = b.pending
    BY DEF BoardOK, Boards
  <2>3. /\ [b EXCEPT !.load = load] \in Boards
        /\ [b EXCEPT !.load = load].calls = b.calls
        /\ [b EXCEPT !.load = load].pending = b.pending
    BY DEF BoardOK, Boards
  <2>4. /\ [b EXCEPT !.items = items, !.load = load] \in Boards
        /\ [b EXCEPT !.items = items, !.load = load].calls = b.calls
        /\ [b EXCEPT !.items = items, !.load = load].pending = b.pending
    BY DEF BoardOK, Boards
  <2> QED
    BY <2>1, <2>2, <2>3, <2>4
<1> QED
  BY DEF BoardOK, Exact

\* A call that goes on cancels the same run.
LEMMA CallGoesOn ==
  ASSUME NEW b, BoardOK(b), NEW c \in Calls, b.calls[c] # None,
         NEW call \in CallRecords, call.run = b.calls[c].run
  PROVE  BoardOK([b EXCEPT !.calls[c] = call])
<1> DEFINE bb == [b EXCEPT !.calls[c] = call]
           busy == {x \in Calls : b.calls[x] # None}
           after == {x \in Calls : bb.calls[x] # None}
<1>1. bb \in Boards /\ bb.pending = b.pending
  BY DEF BoardOK, Boards
<1>2. \A x \in Calls : bb.calls[x] = IF x = c THEN call ELSE b.calls[x]
  BY DEF BoardOK, Boards
<1>3. after = busy /\ \A x \in busy : bb.calls[x].run = b.calls[x].run
  BY <1>2, CallAssumption
<1>4. bb.pending = {bb.calls[x].run : x \in after}
  <2> HIDE DEF bb, after, busy
  <2>1. b.pending = {b.calls[x].run : x \in busy}
    BY DEF BoardOK, Exact, busy
  <2> QED
    BY <1>1, <1>3, <2>1
<1>5. \A x, y \in after : bb.calls[x].run = bb.calls[y].run => x = y
  <2> HIDE DEF bb, after, busy
  <2>1. \A x, y \in busy : b.calls[x].run = b.calls[y].run => x = y
    BY DEF BoardOK, Exact, busy
  <2> QED
    BY <1>3, <2>1
<1> QED
  BY <1>1, <1>4, <1>5 DEF BoardOK, Exact

\* Calls that end take the marks of their runs with them.
LEMMA CallsEnd ==
  ASSUME NEW b, BoardOK(b), NEW ended \in SUBSET Calls,
         \A c \in ended : b.calls[c] # None
  PROVE  BoardOK([b EXCEPT !.calls = [c \in Calls |-> IF c \in ended THEN None ELSE b.calls[c]],
                           !.pending = b.pending \ {b.calls[c].run : c \in ended}])
<1> DEFINE bb == [b EXCEPT !.calls = [c \in Calls |-> IF c \in ended THEN None ELSE b.calls[c]],
                           !.pending = b.pending \ {b.calls[c].run : c \in ended}]
           busy == {x \in Calls : b.calls[x] # None}
           after == {x \in Calls : bb.calls[x] # None}
<1>1. /\ bb \in Boards /\ bb.pending = b.pending \ {b.calls[c].run : c \in ended}
      /\ bb.calls = [c \in Calls |-> IF c \in ended THEN None ELSE b.calls[c]]
  BY DEF BoardOK, Boards
<1>2. after = busy \ ended /\ \A x \in after : bb.calls[x] = b.calls[x]
  BY <1>1
<1>3. /\ b.pending = {b.calls[x].run : x \in busy}
      /\ \A x, y \in busy : b.calls[x].run = b.calls[y].run => x = y
  BY DEF BoardOK, Exact
<1>4. ended \subseteq busy
  OBVIOUS
<1> HIDE DEF bb, after, busy
<1>5. bb.pending = {bb.calls[x].run : x \in after}
  BY <1>1, <1>2, <1>3, <1>4
<1>6. \A x, y \in after : bb.calls[x].run = bb.calls[y].run => x = y
  BY <1>2, <1>3
<1> QED
  BY <1>1, <1>5, <1>6 DEF BoardOK, Exact, bb, after

LEMMA SettledKeeps ==
  ASSUME NEW b, BoardOK(b), NEW c \in Calls, b.calls[c] # None
  PROVE  BoardOK(Settled(b, c))
<1>1. b.calls \in [Calls -> CallRecords \cup {None}]
  BY DEF BoardOK, Boards
<1>2. [b.calls EXCEPT ![c] = None] = [x \in Calls |-> IF x \in {c} THEN None ELSE b.calls[x]]
  BY <1>1
<1>3. {b.calls[c].run} = {b.calls[x].run : x \in {c}}
  OBVIOUS
<1>4. BoardOK([b EXCEPT !.calls = [x \in Calls |-> IF x \in {c} THEN None ELSE b.calls[x]],
                        !.pending = b.pending \ {b.calls[x].run : x \in {c}}])
  BY CallsEnd
<1>5. BoardOK([b EXCEPT !.calls = [b.calls EXCEPT ![c] = None],
                        !.pending = b.pending \ {b.calls[c].run}])
  BY <1>2, <1>3, <1>4
<1>6. Settled(b, c) = [b EXCEPT !.calls = [b.calls EXCEPT ![c] = None],
                                !.pending = b.pending \ {b.calls[c].run}]
  BY DEF Settled, BoardOK, Boards
<1> QED
  BY <1>5, <1>6

LEMMA ResumedKeeps ==
  ASSUME NEW b, BoardOK(b)
  PROVE  BoardOK(Resumed(b))
BY CallsEnd DEF Resumed, Waiting

LEMMA StartedKeeps ==
  ASSUME NEW b, BoardOK(b)
  PROVE  BoardOK(Started(b))
<1>1. [b.load EXCEPT !.loading = TRUE, !.request = "list"] \in Loads
  BY DEF BoardOK, Boards, Loads
<1>2. BoardOK([b EXCEPT !.load = [b.load EXCEPT !.loading = TRUE, !.request = "list"]])
  <2>1. b.items \in Rows
    BY DEF BoardOK, Boards
  <2> QED
    BY <1>1, <2>1, OtherFields
<1>3. [b EXCEPT !.load = [b.load EXCEPT !.loading = TRUE, !.request = "list"]]
        = [b EXCEPT !.load = [@ EXCEPT !.loading = TRUE, !.request = "list"]]
  OBVIOUS
<1> QED
  BY <1>2, <1>3 DEF Started

-----------------------------------------------------------------------------
(* Every action keeps the invariant.                                       *)

LEMMA QueueInit == QInit => QInv
<1> SUFFICES ASSUME QInit PROVE QInv
  OBVIOUS
<1>1. trail \in [Tasks -> Seq(Stages)]
  <2>1. <<>> \in Seq(Stages) /\ <<"QUEUED">> \in Seq(Stages)
    BY DEF Stages, Alive, Over
  <2> QED
    BY <2>1 DEF QInit
<1>2. TaskOK(task, trail)
  BY DEF QInit, TaskOK
<1>3. BoardOK(board)
  BY DEF QInit, BoardOK, Boards, Rows, Loads, Idle, Exact
<1>4. Rest
  BY QueueAssumption DEF QInit, Rest
<1> QED
  BY <1>1, <1>2, <1>3, <1>4 DEF QInv

\* A run that goes on leaves the store where it was.
LEMMA TrailGrows ==
  ASSUME QInv, NEW r \in Tasks, NEW s \in Stages, Become(r, s)
  PROVE  trail' \in [Tasks -> Seq(Stages)] /\ TaskOK(task, trail')
<1>1. trail' = [trail EXCEPT ![r] = Append(@, s)] /\ trail \in [Tasks -> Seq(Stages)]
  BY DEF Become, QInv
<1>2. /\ Append(trail[r], s) \in Seq(Stages)
      /\ Len(Append(trail[r], s)) = Len(trail[r]) + 1
  BY <1>1
<1>3. \A q \in Tasks : Len(trail'[q]) >= Len(trail[q]) /\ Len(trail[q]) \in Nat
  BY <1>1, <1>2
<1>4. trail' \in [Tasks -> Seq(Stages)]
  BY <1>1, <1>2
<1>5. TaskOK(task, trail')
  <2>1. TaskOK(task, trail)
    BY DEF QInv
  <2>2. ASSUME task.run # None PROVE task.seen <= Len(trail'[task.run])
    <3>1. task.run \in Tasks /\ task.seen <= Len(trail[task.run]) /\ task.seen \in Nat
      BY <2>1, <2>2 DEF TaskOK
    <3>2. Len(trail'[task.run]) \in Nat
      BY <1>4, <3>1
    <3> QED
      BY <1>3, <3>1, <3>2
  <2> QED
    BY <2>1, <2>2 DEF TaskOK
<1> QED
  BY <1>4, <1>5

\* A step of the board alone.
LEMMA BoardStep ==
  ASSUME QInv, BoardOK(board'), UNCHANGED <<trail, task, view, starting, clicks>>,
         missed' \in 0 .. MaxLost
  PROVE  QInv'
<1>1. Rest'
  BY DEF QInv, Rest
<1>2. TaskOK(task, trail)'
  BY DEF QInv
<1>3. (trail \in [Tasks -> Seq(Stages)])' /\ BoardOK(board)'
  BY DEF QInv
<1> QED
  BY <1>1, <1>2, <1>3 DEF QInv

LEMMA FailureCounted ==
  ASSUME QInv, missed < MaxLost /\ missed' = missed + 1
  PROVE  missed' \in 0 .. MaxLost
BY QueueAssumption DEF QInv, Rest

LEMMA ClickCounted ==
  ASSUME QInv, Click
  PROVE  clicks' \in 0 .. MaxClicks
BY QueueAssumption DEF QInv, Rest, Click

\* A run that starts to be followed is shown from the beginning.
LEMMA SelectingOK ==
  ASSUME trail \in [Tasks -> Seq(Stages)], NEW r \in Tasks
  PROVE  TaskOK(Selecting(r), trail)
<1>1. Len(trail[r]) \in Nat
  OBVIOUS
<1> QED
  BY <1>1 DEF TaskOK, Selecting

-----------------------------------------------------------------------------
(* Loads.                                                                  *)

LEMMA LoadQueueKeeps ==
  ASSUME QInv, LoadQueue
  PROVE  QInv'
BY StartedKeeps, BoardStep DEF QInv, LoadQueue, Rest

LEMMA ListServedKeeps ==
  ASSUME QInv, ListServed
  PROVE  QInv'
<1> DEFINE rows == [r \in Tasks |-> IF StatusOf(r) \in Alive THEN StatusOf(r) ELSE None]
           load == [loading |-> TRUE, request |-> "details", rows |-> rows,
                    unread |-> {r \in Tasks : rows[r] # None}]
<1>1. rows \in Rows
  BY DEF Rows, Stages
<1>2. load \in Loads
  <2> HIDE DEF rows
  <2> QED
    BY <1>1 DEF Loads
<1>3. board' = [board EXCEPT !.load = load]
  BY DEF ListServed
<1>4. BoardOK(board) /\ board.items \in Rows
  BY DEF QInv, BoardOK, Boards
<1>5. BoardOK(board')
  <2> HIDE DEF load
  <2> QED
    BY <1>2, <1>3, <1>4, OtherFields
<1> QED
  BY <1>5, BoardStep DEF ListServed, QInv, Rest

LEMMA DetailKeeps ==
  ASSUME QInv, NEW r \in Tasks, DetailServed(r) \/ DetailFails(r)
  PROVE  QInv'
<1>1. BoardOK(board) /\ board.items \in Rows /\ board.load \in Loads
  BY DEF QInv, BoardOK, Boards
<1>2. StatusOf(r) \in Stages \cup {None}
  BY StatusType DEF QInv
<1>3. CASE DetailServed(r)
  <2> DEFINE load == [board.load EXCEPT !.unread = board.load.unread \ {r}, !.rows[r] = StatusOf(r)]
  <2>1. load \in Loads
    BY <1>1, <1>2 DEF Loads, Rows
  <2>2. board' = [board EXCEPT !.load = load]
    BY <1>3 DEF DetailServed
  <2>3. BoardOK(board')
    <3> HIDE DEF load
    <3> QED
      BY <1>1, <2>1, <2>2, OtherFields
  <2> QED
    BY <1>3, <2>3, BoardStep DEF DetailServed, QInv, Rest
<1>4. CASE DetailFails(r)
  <2> DEFINE load == [board.load EXCEPT !.unread = board.load.unread \ {r}]
  <2>1. load \in Loads
    BY <1>1 DEF Loads
  <2>2. board' = [board EXCEPT !.load = load]
    BY <1>4 DEF DetailFails
  <2>3. BoardOK(board')
    <3> HIDE DEF load
    <3> QED
      BY <1>1, <2>1, <2>2, OtherFields
  <2> QED
    BY <1>4, <2>3, BoardStep, FailureCounted DEF DetailFails
<1> QED
  BY <1>3, <1>4

LEMMA IdleIsLoad == Idle \in Loads
BY DEF Idle, Loads, Rows

LEMMA LoadDoneKeeps ==
  ASSUME QInv, LoadDone
  PROVE  QInv'
<1>1. BoardOK(board) /\ board.items \in Rows /\ board.load \in Loads
  BY DEF QInv, BoardOK, Boards
<1>2. board.load.rows \in Rows
  BY <1>1 DEF Loads
<1>3. BoardOK(board')
  <2>1. BoardOK([board EXCEPT !.items = board.load.rows, !.load = Idle])
    BY <1>1, <1>2, IdleIsLoad, OtherFields
  <2> QED
    BY <2>1, ResumedKeeps DEF LoadDone
<1>4. task' = task \/ \E r \in Tasks : task' = Selecting(r)
  BY DEF LoadDone
<1>5. TaskOK(task', trail)
  BY <1>4, SelectingOK DEF QInv
<1> QED
  BY <1>3, <1>5 DEF QInv, Rest, LoadDone

LEMMA LoadFailsKeeps ==
  ASSUME QInv, LoadFails
  PROVE  QInv'
<1>1. BoardOK(board) /\ board.items \in Rows
  BY DEF QInv, BoardOK, Boards
<1>2. BoardOK(board')
  <2>1. BoardOK([board EXCEPT !.load = Idle])
    BY <1>1, IdleIsLoad, OtherFields
  <2> QED
    BY <2>1, ResumedKeeps DEF LoadFails, LoadGivenUp
<1> QED
  BY <1>2, BoardStep, FailureCounted DEF LoadFails

-----------------------------------------------------------------------------
(* The store.                                                              *)

LEMMA StoreKeeps ==
  ASSUME QInv, StoreShows \/ StoreEmits
  PROVE  QInv'
<1>1. BoardOK(board) /\ board.items \in Rows /\ board.load \in Loads
  BY DEF QInv, BoardOK, Boards
<1> SUFFICES ASSUME NEW t, TaskOK(t, trail), task' = t,
                    board' = [board EXCEPT !.items = Projected(@, t)],
                    UNCHANGED <<trail, view, starting, clicks, missed>>
             PROVE  QInv'
  <2>1. CASE StoreEmits
    BY <2>1 DEF StoreEmits, QInv
  <2>2. CASE StoreShows
    <3>1. PICK i \in task.seen + 1 .. Len(trail[task.run]) :
            task' = [task EXCEPT !.seen = i]
              /\ board' = [board EXCEPT !.items = Projected(@, [task EXCEPT !.seen = i])]
      BY <2>2 DEF StoreShows
    <3>2. TaskOK(task, trail) /\ task.run \in Tasks
      BY <2>2 DEF QInv, StoreShows, TaskOK
    <3>3. Len(trail[task.run]) \in Nat /\ task.seen \in Nat
      BY <3>2 DEF QInv, TaskOK
    <3>4. TaskOK([task EXCEPT !.seen = i], trail)
      BY <3>2, <3>3 DEF TaskOK
    <3> QED
      BY <2>2, <3>1, <3>4 DEF StoreShows
  <2> QED
    BY <2>1, <2>2
<1>2. Projected(board.items, t) \in Rows
  BY <1>1, ProjectedType DEF QInv
<1>3. BoardOK(board')
  BY <1>1, <1>2, OtherFields
<1> QED
  BY <1>3 DEF QInv, Rest

\* startSimulation.
LEMMA StartKeeps ==
  ASSUME QInv, NEW r \in Tasks, StartClicked(r) \/ StartAnswered(r)
  PROVE  QInv'
<1>1. CASE StartClicked(r)
  <2>1. trail' \in [Tasks -> Seq(Stages)] /\ TaskOK(task, trail')
    BY <1>1, TrailGrows DEF StartClicked, Stages, Alive, Over
  <2>2. clicks' \in 0 .. MaxClicks
    BY <1>1, ClickCounted DEF StartClicked
  <2> QED
    BY <1>1, <2>1, <2>2 DEF StartClicked, QInv, Rest
<1>2. CASE StartAnswered(r)
  BY <1>2, SelectingOK DEF StartAnswered, QInv, Rest
<1> QED
  BY <1>1, <1>2

LEMMA NavKeeps ==
  ASSUME QInv, NEW v \in {"workspace", "queue", "history"}, NavTo(v)
  PROVE  QInv'
<1>1. BoardOK(board')
  BY StartedKeeps DEF NavTo, QInv
<1>2. clicks' \in 0 .. MaxClicks
  BY ClickCounted DEF NavTo
<1> QED
  BY <1>1, <1>2 DEF NavTo, QInv, Rest

-----------------------------------------------------------------------------
(* Runs and their cancellations.                                           *)

LEMMA RunAdvancesKeeps ==
  ASSUME QInv, NEW r \in Tasks, RunAdvances(r)
  PROVE  QInv'
<1>1. trail' \in [Tasks -> Seq(Stages)] /\ TaskOK(task, trail')
  BY TrailGrows DEF RunAdvances, Cancelled, Stages, Alive, Over
<1> QED
  BY <1>1 DEF RunAdvances, QInv, Rest

LEMMA TopBarCancelKeeps ==
  ASSUME QInv, TopBarCancel
  PROVE  QInv'
<1>1. task.run \in Tasks
  BY CallAssumption DEF TopBarCancel, ShownStatus, QInv, TaskOK, Cancellable, Stages, Alive, Over
<1>2. trail' \in [Tasks -> Seq(Stages)] /\ TaskOK(task, trail')
  BY <1>1, TrailGrows DEF TopBarCancel, Cancelled, Stages, Alive, Over
<1>3. clicks' \in 0 .. MaxClicks
  BY ClickCounted DEF TopBarCancel
<1> QED
  BY <1>2, <1>3 DEF TopBarCancel, QInv, Rest

\* A new call marks its run.
LEMMA CancelClickedKeeps ==
  ASSUME QInv, NEW c \in Calls, NEW r \in Tasks, CancelClicked(c, r)
  PROVE  QInv'
<1> DEFINE call == [pc |-> "before", run |-> r, after |-> None]
           busy == {x \in Calls : board.calls[x] # None}
           after == {x \in Calls : board'.calls[x] # None}
<1>1. BoardOK(board) /\ board \in Boards
  BY DEF QInv, BoardOK
<1>2. call \in CallRecords
  BY DEF CallRecords
<1>3. /\ board' \in Boards /\ board'.pending = board.pending \cup {r}
      /\ board'.calls = [board.calls EXCEPT ![c] = call]
  BY <1>1, <1>2 DEF CancelClicked, Boards
<1>4. c \notin busy /\ r \notin board.pending
  BY DEF CancelClicked
<1>5. \A x \in Calls : board'.calls[x] = IF x = c THEN call ELSE board.calls[x]
  BY <1>1, <1>3 DEF Boards
<1>6. after = busy \cup {c}
  BY <1>2, <1>5, CallAssumption
<1>7. /\ board.pending = {board.calls[x].run : x \in busy}
      /\ \A x, y \in busy : board.calls[x].run = board.calls[y].run => x = y
  BY <1>1 DEF BoardOK, Exact
<1>8. board'.calls[c].run = r /\ \A x \in busy : board'.calls[x].run = board.calls[x].run
  BY <1>4, <1>5
<1> HIDE DEF call, busy, after
<1>9. board'.pending = {board'.calls[x].run : x \in after}
  BY <1>3, <1>6, <1>7, <1>8
<1>10. \A x, y \in after : board'.calls[x].run = board'.calls[y].run => x = y
  BY <1>4, <1>6, <1>7, <1>8
<1>11. BoardOK(board')
  BY <1>3, <1>9, <1>10 DEF BoardOK, Exact, after
<1>12. clicks' \in 0 .. MaxClicks
  BY ClickCounted DEF CancelClicked
<1> QED
  BY <1>11, <1>12 DEF CancelClicked, QInv, Rest

\* What a call is and how it may go on.
LEMMA CallFacts ==
  ASSUME QInv, NEW c \in Calls, board.calls[c] # None
  PROVE  /\ board.calls[c] \in CallRecords /\ board.calls[c].run \in Tasks
         /\ BoardOK(Settled(board, c))
         /\ \A call \in CallRecords :
              call.run = board.calls[c].run => BoardOK([board EXCEPT !.calls[c] = call])
<1>1. BoardOK(board)
  BY DEF QInv
<1>2. board.calls[c] \in CallRecords /\ board.calls[c].run \in Tasks
  BY <1>1 DEF BoardOK, Boards, CallRecords
<1> QED
  BY <1>1, <1>2, CallGoesOn, SettledKeeps

LEMMA BeforeServedKeeps ==
  ASSUME QInv, NEW c \in Calls, BeforeServed(c)
  PROVE  QInv'
<1>1. board.calls[c] # None
  BY DEF BeforeServed, At
<1>2. BoardOK([board EXCEPT !.calls[c].pc = "post"])
  <2>1. [board.calls[c] EXCEPT !.pc = "post"] \in CallRecords
    BY <1>1, CallFacts DEF CallRecords
  <2>2. [board.calls[c] EXCEPT !.pc = "post"].run = board.calls[c].run
    BY <1>1, CallFacts DEF CallRecords
  <2>3. BoardOK([board EXCEPT !.calls[c] = [board.calls[c] EXCEPT !.pc = "post"]])
    BY <1>1, <2>1, <2>2, CallFacts
  <2> QED
    BY <2>3
<1>3. BoardOK(board')
  BY <1>1, <1>2, CallFacts DEF BeforeServed
<1> QED
  BY <1>3, BoardStep DEF BeforeServed, QInv, Rest

LEMMA PostServedKeeps ==
  ASSUME QInv, NEW c \in Calls, PostServed(c)
  PROVE  QInv'
<1>1. board.calls[c] # None
  BY DEF PostServed, At
<1>2. BoardOK([board EXCEPT !.calls[c].pc = "read"])
  <2>1. [board.calls[c] EXCEPT !.pc = "read"] \in CallRecords
    BY <1>1, CallFacts DEF CallRecords
  <2>2. [board.calls[c] EXCEPT !.pc = "read"].run = board.calls[c].run
    BY <1>1, CallFacts DEF CallRecords
  <2>3. BoardOK([board EXCEPT !.calls[c] = [board.calls[c] EXCEPT !.pc = "read"]])
    BY <1>1, <2>1, <2>2, CallFacts
  <2> QED
    BY <2>3
<1>3. BoardOK(board')
  BY <1>1, <1>2, CallFacts DEF PostServed
<1>4. trail' \in [Tasks -> Seq(Stages)] /\ TaskOK(task, trail')
  <2>1. CASE UNCHANGED trail
    BY <2>1 DEF QInv
  <2>2. CASE Become(board.calls[c].run, Cancelled(StatusOf(board.calls[c].run)))
    BY <1>1, <2>2, CallFacts, TrailGrows DEF Cancelled, Stages, Alive, Over
  <2> QED
    BY <2>1, <2>2 DEF PostServed
<1> QED
  BY <1>3, <1>4 DEF PostServed, QInv, Rest

LEMMA AfterServedKeeps ==
  ASSUME QInv, NEW c \in Calls, AfterServed(c)
  PROVE  QInv'
<1> DEFINE call == [board.calls[c] EXCEPT !.pc = "patch",
                                          !.after = StatusOf(board.calls[c].run)]
<1>1. board.calls[c] # None
  BY DEF AfterServed, At
<1>2. StatusOf(board.calls[c].run) \in Stages \cup {None}
  BY <1>1, CallFacts, StatusType DEF QInv
<1>3. call \in CallRecords /\ call.run = board.calls[c].run
  BY <1>1, <1>2, CallFacts DEF CallRecords
<1>4. board' = [board EXCEPT !.calls[c] = call]
  BY DEF AfterServed
<1>5. BoardOK(board')
  <2> HIDE DEF call
  <2> QED
    BY <1>1, <1>3, <1>4, CallFacts
<1> QED
  BY <1>5, BoardStep DEF AfterServed, QInv, Rest

LEMMA RowPatchedKeeps ==
  ASSUME QInv, NEW c \in Calls, RowPatched(c)
  PROVE  QInv'
<1> DEFINE call == [board.calls[c] EXCEPT !.pc = "refresh", !.after = None]
           items == [board.items EXCEPT ![board.calls[c].run] =
                       IF @ = None THEN None ELSE board.calls[c].after]
           patched == [board EXCEPT !.calls[c] = call]
<1>1. board.calls[c] # None
  BY DEF RowPatched, At
<1>2. call \in CallRecords /\ call.run = board.calls[c].run
  BY <1>1, CallFacts DEF CallRecords
<1>3. BoardOK(patched)
  <2> HIDE DEF call
  <2> QED
    BY <1>1, <1>2, CallFacts
<1>4. items \in Rows
  <2>1. board.items \in Rows /\ board.calls[c].after \in Stages \cup {None}
    BY <1>1, CallFacts DEF QInv, BoardOK, Boards, CallRecords
  <2> QED
    BY <2>1 DEF Rows
<1>5. board' = [patched EXCEPT !.items = items]
  BY DEF RowPatched, QInv, BoardOK, Boards
<1>6. patched.load \in Loads
  BY <1>3 DEF BoardOK, Boards
<1>7. BoardOK(board')
  <2> HIDE DEF patched, items
  <2> QED
    BY <1>3, <1>4, <1>5, <1>6, OtherFields
<1> QED
  BY <1>7, BoardStep DEF RowPatched, QInv, Rest

LEMMA ReloadKeeps ==
  ASSUME QInv, NEW c \in Calls, Reload(c)
  PROVE  QInv'
<1>1. board.calls[c] # None
  BY DEF Reload, At
<1>2. BoardOK([board EXCEPT !.calls[c].pc = "reload"])
  <2>1. [board.calls[c] EXCEPT !.pc = "reload"] \in CallRecords
    BY <1>1, CallFacts DEF CallRecords
  <2>2. [board.calls[c] EXCEPT !.pc = "reload"].run = board.calls[c].run
    BY <1>1, CallFacts DEF CallRecords
  <2>3. BoardOK([board EXCEPT !.calls[c] = [board.calls[c] EXCEPT !.pc = "reload"]])
    BY <1>1, <2>1, <2>2, CallFacts
  <2> QED
    BY <2>3
<1>3. BoardOK(board')
  BY <1>1, <1>2, CallFacts, StartedKeeps DEF Reload
<1> QED
  BY <1>3, BoardStep DEF Reload, QInv, Rest

LEMMA CallFailsKeeps ==
  ASSUME QInv, NEW c \in Calls, CallFails(c)
  PROVE  QInv'
<1>1. board.calls[c] # None
  BY DEF CallFails, At
<1> QED
  BY <1>1, CallFacts, BoardStep, FailureCounted DEF CallFails

-----------------------------------------------------------------------------
(* The theorems.                                                           *)

LEMMA QueueNext == QInv /\ [QNext]_qvars => QInv'
<1> SUFFICES ASSUME QInv, [QNext]_qvars PROVE QInv'
  OBVIOUS
<1>1. CASE UNCHANGED qvars
  BY <1>1 DEF qvars, QInv, TaskOK, BoardOK, Exact, Rest
<1>2. CASE QNext
  BY <1>2, RunAdvancesKeeps, StartKeeps, DetailKeeps, BeforeServedKeeps,
     PostServedKeeps, AfterServedKeeps, RowPatchedKeeps, ReloadKeeps,
     CallFailsKeeps, CancelClickedKeeps, LoadQueueKeeps, ListServedKeeps,
     LoadDoneKeeps, LoadFailsKeeps, StoreKeeps, TopBarCancelKeeps, NavKeeps DEF QNext
<1> QED
  BY <1>1, <1>2

\* state.queue, its load and its calls keep their types, and the board shows
\* the store at a point of its run's trail.
THEOREM QueueTypes == QSpec => []QTypeOK
<1>1. QInv => QTypeOK
  BY DEF QInv, TaskOK, BoardOK, Boards, Loads, Rows, Rest, QTypeOK
<1> QED
  BY <1>1, QueueInit, QueueNext, PTL DEF QSpec

\* A run is marked as being cancelled exactly while one call cancels it
\* (the pending list of cancelQueuedSimulation), for any number of runs and
\* calls.
THEOREM PendingIsExact == QSpec => []PendingExact
<1>1. QInv => PendingExact
  BY DEF QInv, BoardOK, Exact, PendingExact
<1> QED
  BY <1>1, QueueInit, QueueNext, PTL DEF QSpec
=============================================================================
