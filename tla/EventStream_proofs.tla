------------------------- MODULE EventStream_proofs -------------------------
(***************************************************************************)
(* What a page shows belongs to its selection, and a page that shows a run *)
(* follows it, for any number of runs, agents, streams and events.         *)
(***************************************************************************)
EXTENDS EventStream, FiniteSetTheorems, SequenceTheorems, WellFoundedInduction, TLAPS

-----------------------------------------------------------------------------
(* The log.                                                                *)

\* A set of naturals with a bound has a maximum.
LEMMA MaxOfBounded ==
  ASSUME NEW S \in SUBSET Nat, S # {}, NEW n \in Nat, \A x \in S : x <= n
  PROVE  Max(S) \in S /\ \A x \in S : x <= Max(S)
<1> DEFINE Bounds == {b \in Nat : \A x \in S : x <= b}
<1>1. PICK b \in Bounds : \A c \in Bounds : ~(<<c, b>> \in OpToRel(<, Nat))
  <2>1. Bounds \subseteq Nat /\ Bounds # {}
    OBVIOUS
  <2> HIDE DEF Bounds
  <2> QED
    BY <2>1, NatLessThanWellFounded, WFMin
<1>2. \A c \in Bounds : ~(c < b)
  BY <1>1 DEF OpToRel
<1>3. b \in S
  <2> SUFFICES ASSUME b \notin S PROVE FALSE
    OBVIOUS
  <2>1. PICK x \in S : TRUE
    OBVIOUS
  <2>2. \A y \in S : y <= b - 1
    OBVIOUS
  <2>3. b - 1 \in Bounds
    BY <2>1, <2>2
  <2> QED
    BY <1>2, <2>3
<1> QED
  BY <1>3 DEF Max

\* The rows of a run's log, whose newest possible id is last.
Rows(last) == {rows \in SUBSET Events : IsFiniteSet(rows) /\ \A e \in rows : e.id \in 1..last}

LEMMA LatestOfRows ==
  ASSUME NEW last \in Nat, NEW rows \in Rows(last)
  PROVE  /\ LatestId(rows) \in 0..last
         /\ \A e \in rows : e.id <= LatestId(rows)
<1>1. CASE rows = {}
  BY <1>1 DEF LatestId
<1>2. CASE rows # {}
  <2>1. /\ Ids(rows) \in SUBSET Nat /\ Ids(rows) # {}
        /\ \A x \in Ids(rows) : x <= last
    BY <1>2 DEF Ids, Rows, Events
  <2>2. Max(Ids(rows)) \in Ids(rows) /\ \A x \in Ids(rows) : x <= Max(Ids(rows))
    BY <2>1, MaxOfBounded
  <2> QED
    BY <1>2, <2>2 DEF LatestId, Ids, Rows
<1> QED
  BY <1>1, <1>2

\* The newest event survives retain_simulation_events.
LEMMA InsertedRows ==
  ASSUME NEW rows \in Rows(lastId), lastId \in Nat, NEW stats \in Seq(Statuses), stats # <<>>
  PROVE  /\ Inserted(rows, stats) \in Rows(lastId + Len(stats))
         /\ LatestId(Inserted(rows, stats)) = lastId + Len(stats)
<1> DEFINE row(i) == [id |-> lastId + i, status |-> stats[i]]
           more == {row(i) : i \in DOMAIN stats}
           n == Len(stats)
           last == lastId + n
<1>1. n \in Nat \ {0} /\ DOMAIN stats = 1..n /\ \A i \in 1..n : stats[i] \in Statuses
  BY EmptySeq, LenProperties, ElementOfSeq
<1>2. IsFiniteSet(more)
  <2> DEFINE f == [i \in 1..n |-> row(i)]
  <2>1. f \in Surjection(1..n, more)
    BY <1>1 DEF Surjection
  <2>2. IsFiniteSet(1..n)
    BY <1>1, FS_Interval
  <2> HIDE DEF f, more
  <2> QED
    BY <2>1, <2>2, FS_Surjection
<1>3. \A e \in more : e \in Events /\ e.id \in 1..last
  BY <1>1 DEF Events
<1>4. rows \cup more \in Rows(last)
  <2>1. IsFiniteSet(rows \cup more)
    <3> HIDE DEF more
    <3> QED BY <1>2, FS_Union DEF Rows
  <2>2. \A e \in rows : e.id \in 1..last
    BY <1>1 DEF Rows
  <2> QED
    BY <1>3, <2>1, <2>2 DEF Rows
<1>5. row(n) \in rows \cup more /\ row(n).id = last
  <2>1. n \in DOMAIN stats
    BY <1>1
  <2>2. row(n) \in more
    <3> HIDE DEF row, n
    <3> QED BY <2>1
  <2> QED
    BY <2>2
<1> HIDE DEF row, more, n
<1>6. Inserted(rows, stats) = Retained(rows \cup more)
  BY DEF Inserted, more, row
<1>7. Retained(rows \cup more) \in Rows(last)
  <2>1. Retained(rows \cup more) \in SUBSET (rows \cup more)
    BY DEF Retained
  <2> QED
    BY <1>4, <2>1, FS_Subset DEF Rows
<1>8. row(n) \in Retained(rows \cup more)
  <2>1. {f \in rows \cup more : f.id > row(n).id} = {}
    BY <1>4, <1>5, <1>1 DEF Rows
  <2>2. Cardinality({}) < Retention
    BY FS_EmptySet, StreamAssumption
  <2> QED
    BY <1>5, <2>1, <2>2 DEF Retained
<1>9. last \in Nat
  BY <1>1
<1> HIDE DEF last
<1>10. LatestId(Retained(rows \cup more)) \in 0..last /\ last <= LatestId(Retained(rows \cup more))
  BY <1>5, <1>7, <1>8, <1>9, LatestOfRows
<1> QED
  BY <1>6, <1>7, <1>9, <1>10 DEF last, n

\* Frames of events a log may hold, and ordered rows as the handler sends them.
Sent(rows) == {f \in Frames : f.status # None => f.id <= LatestId(rows)}

LEMMA RowsInOrder ==
  ASSUME NEW last \in Nat, NEW rows \in Rows(last), NEW cursor \in Nat,
         NEW events \in InIdOrder(EventsAfter(cursor, rows))
  PROVE  /\ [i \in DOMAIN events |-> EventFrame(events[i])] \in Seq(Sent(rows))
         /\ events # <<>> => Last(events).id \in Nat
<1> DEFINE after == EventsAfter(cursor, rows)
           n == Cardinality(after)
           frames == [i \in DOMAIN events |-> EventFrame(events[i])]
<1>1. after \in SUBSET rows
  BY DEF EventsAfter
<1>2. n \in Nat
  BY <1>1, FS_Subset, FS_CardinalityType DEF Rows
<1>3. DOMAIN events = 1..n /\ \A i \in 1..n : events[i] \in rows
  BY <1>1 DEF InIdOrder
<1>4. \A i \in 1..n : EventFrame(events[i]) \in Sent(rows)
  <2> SUFFICES ASSUME NEW i \in 1..n PROVE EventFrame(events[i]) \in Sent(rows)
    OBVIOUS
  <2>1. events[i] \in Events /\ events[i].id <= LatestId(rows)
    BY <1>3, LatestOfRows DEF Rows
  <2> QED
    BY <2>1 DEF EventFrame, Sent, Frames, Events
<1>5. ASSUME events # <<>> PROVE Last(events).id \in Nat
  <2>1. Len(events) = n
    BY <1>2, <1>3, LenProperties, IsASeq
  <2>2. n # 0
    BY <1>3, <1>5, <1>2, IsASeq, EmptySeq, <2>1
  <2>3. events[n] \in Events
    BY <1>2, <1>3, <2>2 DEF Rows
  <2> QED
    BY <2>1, <2>3 DEF Last, Events
<1> HIDE DEF after, n
<1>6. frames \in Seq(Sent(rows))
  BY <1>2, <1>3, <1>4, IsASeq
<1> QED
  BY <1>5, <1>6

-----------------------------------------------------------------------------
(* The invariant: a log whose ids are bounded, and a page that fits it.    *)

LogOK(st, lg, last) ==
  /\ st \in [Runs -> Statuses \cup {"ABSENT"}]
  /\ last \in 0..MaxEvents
  /\ DOMAIN lg = Runs /\ \A r \in Runs : lg[r] \in Rows(last)

Handlers == [pc : {"free", "read", "rows", "wait", "lost"}, run : Runs \cup {None},
             lastID : Nat, latest : Nat, frames : Seq(Frames)]
Pages == [runId : Runs \cup {None}, agent : Agents,
          detail : [run : Runs, status : Statuses] \cup {None},
          results : [run : Runs, agent : Agents] \cup {None}, lastEventId : Nat,
          request : Requests \cup {None}, subscription : Streams \cup {None},
          reconnectTimer : Streams \cup {None}, streams : [Streams -> Handlers]]

\* A status on its way to the page is an event of the run's log.
HandlerOK(h, lg) ==
  /\ h.pc = "free" => h = Free
  /\ h.pc # "free" => h.run \in Runs /\ h.frames \in Seq(Sent(lg[h.run]))

\* A completed run stays as it is, so an answer that says so is still true.
RequestOK(q, st, lg) ==
  /\ st[q.run] # "ABSENT"
  /\ q.phase # "sent" /\ q.answer.status = "COMPLETED" =>
       st[q.run] = "COMPLETED" /\ q.answer.latest = LatestId(lg[q.run])
  /\ q.phase = "results" => q.answer.status = "COMPLETED"

\* Results are shown of a completed run whose events are all older.
ViewOK(p, st, lg) ==
  /\ p.runId # None => st[p.runId] # "ABSENT"
  /\ p.detail # None => p.detail.run = p.runId
  /\ p.results # None =>
       /\ p.results = [run |-> p.runId, agent |-> p.agent] /\ p.runId # None
       /\ p.detail.status = "COMPLETED" /\ st[p.runId] = "COMPLETED"
       /\ p.lastEventId >= LatestId(lg[p.runId])

PageOK(p, st, lg) ==
  /\ p \in Pages
  /\ \A s \in Streams : HandlerOK(p.streams[s], lg)
  /\ p.request # None => RequestOK(p.request, st, lg) /\ p.runId # None
  /\ ViewOK(p, st, lg)

\* Every stream that is promised has a slot.
Busy(p) == {s \in Streams : p.streams[s].pc # "free"}
Pending(q) == IF q # None /\ q.thenConnect THEN 1 ELSE 0
Room(p) == Cardinality(Busy(p)) + Pending(p.request) <= Cardinality(Streams)

Followed(p) ==
  p.runId # None =>
    \/ p.request # None /\ p.request.thenConnect
    \/ \E s \in Streams : p.streams[s].run = p.runId

StreamInv ==
  /\ LogOK(status, log, lastId) /\ failures \in 0..RestFailures
  /\ PageOK(page, status, log)
  /\ Room(page) /\ Followed(page)

-----------------------------------------------------------------------------
(* The page's calls keep it.                                               *)

LEMMA BusyIsFinite ==
  ASSUME NEW p
  PROVE  /\ IsFiniteSet(Busy(p)) /\ Cardinality(Busy(p)) \in Nat /\ Cardinality(Streams) \in Nat
         /\ Pending(p.request) \in 0..1
         /\ Cardinality(Busy(p)) < Cardinality(Streams) => Busy(p) # Streams
<1>1. Busy(p) \in SUBSET Streams
  BY DEF Busy
<1> QED
  BY <1>1, FS_Subset, FS_CardinalityType, StreamAssumption DEF Pending

LEMMA FreeIsHandler == Free \in Handlers /\ Free.run = None
BY EmptySeq DEF Free, Handlers

\* Putting another record into a slot.
LEMMA WithStream ==
  ASSUME NEW st, NEW lg, NEW p, PageOK(p, st, lg), NEW s \in Streams,
         NEW h \in Handlers, HandlerOK(h, lg)
  PROVE  LET q == [p EXCEPT !.streams[s] = h]
         IN /\ PageOK(q, st, lg)
            /\ q.streams = [p.streams EXCEPT ![s] = h]
            /\ q.request = p.request /\ q.runId = p.runId
<1> DEFINE q == [p EXCEPT !.streams[s] = h]
<1>1. /\ q.streams = [p.streams EXCEPT ![s] = h] /\ q \in Pages
      /\ q.request = p.request /\ q.runId = p.runId /\ q.agent = p.agent
      /\ q.detail = p.detail /\ q.results = p.results /\ q.lastEventId = p.lastEventId
  BY DEF PageOK, Pages
<1> HIDE DEF q
<1>2. \A x \in Streams : HandlerOK(q.streams[x], lg)
  BY <1>1 DEF PageOK, Pages
<1>3. PageOK(q, st, lg)
  BY <1>1, <1>2 DEF PageOK, ViewOK
<1> QED
  BY <1>1, <1>3 DEF q

\* connect(): a slot that was free follows the run.
LEMMA ConnectKeeps ==
  ASSUME NEW st, NEW lg, NEW p, PageOK(p, st, lg), p.runId # None,
         Cardinality(Busy(p)) < Cardinality(Streams)
  PROVE  /\ PageOK(Connect(p), st, lg)
         /\ Cardinality(Busy(Connect(p))) = Cardinality(Busy(p)) + 1
         /\ Connect(p).request = p.request /\ Connect(p).runId = p.runId
         /\ \E s \in Streams : Connect(p).streams[s].run = p.runId
<1> DEFINE s == CHOOSE x \in Streams : p.streams[x].pc = "free"
           h == Opened(p.runId, p.lastEventId)
           q == [p EXCEPT !.streams[s] = h]
<1>1. s \in Streams /\ p.streams[s].pc = "free"
  BY BusyIsFinite DEF Busy
<1>2. Connect(p) = [q EXCEPT !.subscription = s]
  BY DEF Connect, PageOK, Pages
<1>3. h \in Handlers /\ HandlerOK(h, lg) /\ h.run = p.runId /\ h.pc = "read"
  BY EmptySeq DEF Opened, Free, Handlers, HandlerOK, PageOK, Pages
<1> HIDE DEF s, h
<1>4. /\ PageOK(q, st, lg) /\ q.streams = [p.streams EXCEPT ![s] = h]
      /\ q.request = p.request /\ q.runId = p.runId
  BY <1>1, <1>3, WithStream
<1> HIDE DEF q
<1>5. /\ PageOK(Connect(p), st, lg) /\ Connect(p).streams = q.streams
      /\ Connect(p).request = p.request /\ Connect(p).runId = p.runId
  BY <1>1, <1>2, <1>4 DEF PageOK, Pages, ViewOK
<1>6. Busy(Connect(p)) = Busy(p) \cup {s} /\ s \notin Busy(p)
  BY <1>1, <1>3, <1>4, <1>5 DEF Busy, PageOK, Pages
<1>7. Cardinality(Busy(Connect(p))) = Cardinality(Busy(p)) + 1
  BY <1>6, BusyIsFinite, FS_AddElement
<1>8. Connect(p).streams[s].run = p.runId
  BY <1>1, <1>3, <1>4, <1>5 DEF PageOK, Pages
<1> QED
  BY <1>1, <1>5, <1>7, <1>8

\* The guard at the end of refresh() lets in only what was asked for the selection.
LEMMA EmittedKeeps ==
  ASSUME NEW st, NEW lg, NEW last, LogOK(st, lg, last), NEW p, PageOK(p, st, lg),
         NEW q \in Requests, q.phase # "sent", RequestOK(q, st, lg),
         NEW results,
         results # None =>
           results = [run |-> q.run, agent |-> q.agent] /\ q.answer.status = "COMPLETED"
  PROVE  /\ PageOK(Emitted(p, q, results), st, lg)
         /\ Emitted(p, q, results).streams = p.streams
         /\ Emitted(p, q, results).request = p.request
         /\ Emitted(p, q, results).runId = p.runId
<1> DEFINE e == Emitted(p, q, results)
           id == MonotonicEventId(p.lastEventId, q.answer.latest)
           detail == [run |-> q.run, status |-> q.answer.status]
<1>1. CASE ~(q.run = p.runId /\ q.agent = p.agent)
  BY <1>1 DEF Emitted
<1>2. CASE q.run = p.runId /\ q.agent = p.agent
  <2>1. e = [p EXCEPT !.detail = detail, !.results = results, !.lastEventId = id]
    BY <1>2 DEF Emitted, PageOK, Pages
  <2>2. /\ q.run \in Runs /\ q.agent \in Agents
        /\ q.answer.status \in Statuses /\ q.answer.latest \in Nat /\ p.lastEventId \in Nat
    BY DEF Requests, Answers, PageOK, Pages
  <2>3. id \in Nat /\ id >= q.answer.latest
    <3>1. /\ {p.lastEventId, q.answer.latest} \in SUBSET Nat
          /\ \A x \in {p.lastEventId, q.answer.latest} : x <= p.lastEventId + q.answer.latest
          /\ p.lastEventId + q.answer.latest \in Nat
      BY <2>2
    <3> QED
      BY <3>1, MaxOfBounded DEF MonotonicEventId
  <2>4. /\ detail \in [run : Runs, status : Statuses] /\ results \in [run : Runs, agent : Agents] \cup {None}
        /\ detail.run = p.runId /\ detail.status = q.answer.status
    BY <1>2, <2>2
  <2> HIDE DEF id, detail
  <2>5. /\ e \in Pages /\ e.streams = p.streams /\ e.request = p.request /\ e.runId = p.runId
        /\ e.agent = p.agent /\ e.detail = detail /\ e.results = results /\ e.lastEventId = id
    BY <2>1, <2>3, <2>4 DEF PageOK, Pages
  <2> HIDE DEF e
  <2>6. ViewOK(e, st, lg)
    <3>1. CASE results = None
      BY <2>4, <2>5, <3>1 DEF PageOK, ViewOK
    <3>2. CASE results # None
      BY <1>2, <2>2, <2>3, <2>4, <2>5, <3>2, StreamAssumption DEF PageOK, ViewOK, RequestOK
    <3> QED
      BY <3>1, <3>2
  <2>7. PageOK(e, st, lg)
    BY <2>5, <2>6 DEF PageOK
  <2> QED
    BY <2>5, <2>7 DEF e
<1> QED
  BY <1>1, <1>2

\* A caller that connects takes the slot it was promised.
LEMMA ContinuedKeeps ==
  ASSUME NEW st, NEW lg, NEW p, PageOK(p, st, lg), p.runId # None,
         NEW q \in Requests,
         Cardinality(Busy(p)) + Pending(q) <= Cardinality(Streams)
  PROVE  /\ PageOK(Continued(p, q), st, lg)
         /\ Cardinality(Busy(Continued(p, q))) = Cardinality(Busy(p)) + Pending(q)
         /\ Continued(p, q).request = p.request /\ Continued(p, q).runId = p.runId
         /\ q.thenConnect => \E s \in Streams : Continued(p, q).streams[s].run = p.runId
         /\ ~q.thenConnect => Continued(p, q) = p
<1>1. q # None /\ q.thenConnect \in BOOLEAN
  BY NullAssumption DEF Requests
<1>2. CASE q.thenConnect
  <2>1. Cardinality(Busy(p)) < Cardinality(Streams) /\ Pending(q) = 1
    BY <1>1, <1>2, BusyIsFinite DEF Pending
  <2> QED
    BY <1>2, <2>1, ConnectKeeps DEF Continued
<1>3. CASE ~q.thenConnect
  BY <1>1, <1>3, BusyIsFinite DEF Continued, Pending
<1> QED
  BY <1>1, <1>2, <1>3

\* refresh(): the new request is for the selection; the old one ends at once.
LEMMA RefreshKeeps ==
  ASSUME NEW st, NEW lg, NEW last, LogOK(st, lg, last), NEW p, PageOK(p, st, lg), Room(p),
         NEW connects \in BOOLEAN, p.runId # None
  PROVE  LET q == Refresh(p, connects)
         IN /\ PageOK(q, st, lg)
            /\ Cardinality(Busy(q)) + Pending(q.request)
                 = Cardinality(Busy(p)) + Pending(p.request) + (IF connects THEN 1 ELSE 0)
            /\ q.runId = p.runId
            /\ connects \/ Followed(p) => Followed(q)
<1> DEFINE new == [run |-> p.runId, agent |-> p.agent, phase |-> "sent", answer |-> None,
                   thenConnect |-> connects]
           sent == [p EXCEPT !.request = new]
           q == Refresh(p, connects)
<1>1. q = AfterAbort(sent, p.request)
  BY DEF Refresh
<1>2. new \in Requests /\ new # None /\ RequestOK(new, st, lg)
  BY NullAssumption DEF Requests, RequestOK, PageOK, ViewOK, Pages
<1>3. Pending(new) = IF connects THEN 1 ELSE 0
  BY <1>2 DEF Pending
<1>4. new.thenConnect = connects
  OBVIOUS
<1> HIDE DEF new
<1>5. /\ sent \in Pages /\ sent.request = new /\ sent.streams = p.streams
      /\ sent.runId = p.runId /\ sent.agent = p.agent /\ sent.detail = p.detail
      /\ sent.results = p.results /\ sent.lastEventId = p.lastEventId
  BY <1>2 DEF PageOK, Pages
<1> HIDE DEF sent
<1>6. PageOK(sent, st, lg)
  BY <1>2, <1>5 DEF PageOK, ViewOK
<1>7. Busy(sent) = Busy(p)
  BY <1>5 DEF Busy
<1> HIDE DEF q
<1>8. CASE p.request = None
  <2>1. q = sent
    BY <1>1, <1>8 DEF AfterAbort
  <2>2. Pending(p.request) = 0
    BY <1>8 DEF Pending
  <2>3. Followed(q) \/ ~(connects \/ Followed(p))
    BY <2>1, <1>2, <1>4, <1>5, <1>8 DEF Followed
  <2>4. Pending(sent.request) = IF connects THEN 1 ELSE 0
    BY <1>3, <1>5
  <2> QED
    BY <2>1, <2>2, <2>3, <2>4, <1>5, <1>6, <1>7, BusyIsFinite DEF q
<1>9. CASE p.request # None
  <2> DEFINE shown == IF p.request.phase = "results" THEN Emitted(sent, p.request, None) ELSE sent
  <2>1. q = Continued(shown, p.request)
    BY <1>1, <1>9 DEF AfterAbort
  <2>2. p.request \in Requests /\ RequestOK(p.request, st, lg)
    BY <1>9 DEF PageOK, Pages
  <2>3. /\ PageOK(shown, st, lg) /\ shown.streams = p.streams
        /\ shown.request = new /\ shown.runId = p.runId
    <3>1. CASE p.request.phase = "results"
      <4>2. p.request.phase # "sent"
        BY <3>1
      <4> DEFINE e == Emitted(sent, p.request, None)
      <4>3. /\ PageOK(e, st, lg) /\ e.streams = sent.streams
            /\ e.request = sent.request /\ e.runId = sent.runId
        BY <2>2, <4>2, <1>6, EmittedKeeps
      <4> QED
        BY <3>1, <4>3, <1>5
    <3>2. CASE p.request.phase # "results"
      BY <3>2, <1>5, <1>6
    <3> QED
      BY <3>1, <3>2
  <2> HIDE DEF shown
  <2>4. Busy(shown) = Busy(p)
    BY <2>3 DEF Busy
  <2>5. /\ PageOK(q, st, lg)
        /\ Cardinality(Busy(q)) = Cardinality(Busy(p)) + Pending(p.request)
        /\ q.request = new /\ q.runId = p.runId
        /\ p.request.thenConnect => \E s \in Streams : q.streams[s].run = p.runId
        /\ ~p.request.thenConnect => q = shown
    BY <2>1, <2>2, <2>3, <2>4, ContinuedKeeps DEF Room
  <2>6. Followed(q) \/ ~(connects \/ Followed(p))
    BY <2>3, <2>5, <1>2, <1>4 DEF Followed
  <2>7. Pending(q.request) = IF connects THEN 1 ELSE 0
    BY <2>5, <1>3
  <2> QED
    BY <2>5, <2>6, <2>7, BusyIsFinite DEF q
<1> QED
  BY <1>8, <1>9

\* Without a selection refresh() does nothing.
LEMMA RefreshWithoutRun ==
  ASSUME NEW p, NEW connects, p.runId = None
  PROVE  Refresh(p, connects) = p
BY DEF Refresh

\* A refresh that does not connect keeps everything.
LEMMA RefreshOnlyKeeps ==
  ASSUME NEW st, NEW lg, NEW last, LogOK(st, lg, last), NEW p, PageOK(p, st, lg), Room(p),
         Followed(p)
  PROVE  LET q == Refresh(p, FALSE)
         IN PageOK(q, st, lg) /\ Room(q) /\ Followed(q)
<1>1. CASE p.runId = None
  BY <1>1, RefreshWithoutRun
<1>2. CASE p.runId # None
  <2> DEFINE q == Refresh(p, FALSE)
  <2>1. /\ PageOK(q, st, lg) /\ Followed(q)
        /\ Cardinality(Busy(q)) + Pending(q.request) = Cardinality(Busy(p)) + Pending(p.request) + 0
    BY <1>2, RefreshKeeps
  <2> HIDE DEF q
  <2>2. Room(q)
    BY <2>1, BusyIsFinite DEF Room
  <2> QED
    BY <2>1, <2>2 DEF q
<1> QED
  BY <1>1, <1>2

\* A request that is over: what it brings is shown, and its caller goes on.
LEMMA SettledKeeps ==
  ASSUME NEW st, NEW lg, NEW last, LogOK(st, lg, last), NEW p, PageOK(p, st, lg), Room(p),
         Followed(p), p.request # None,
         NEW q, NEW results,
         \/ q = Continued([p EXCEPT !.request = None], p.request)
         \/ /\ q = Settled(p, results) /\ p.request.phase # "sent"
            /\ results # None =>
                 /\ results = [run |-> p.request.run, agent |-> p.request.agent]
                 /\ p.request.answer.status = "COMPLETED"
  PROVE  PageOK(q, st, lg) /\ Room(q) /\ Followed(q)
<1> DEFINE over == [p EXCEPT !.request = None]
<1>1. /\ over \in Pages /\ over.request = None /\ over.streams = p.streams
      /\ over.runId = p.runId /\ over.agent = p.agent /\ over.detail = p.detail
      /\ over.results = p.results /\ over.lastEventId = p.lastEventId
  BY DEF PageOK, Pages
<1>2. p.request \in Requests /\ RequestOK(p.request, st, lg) /\ p.runId # None
  BY DEF PageOK, Pages
<1>3. q = Continued(over, p.request)
      \/ /\ q = Continued(Emitted(over, p.request, results), p.request)
         /\ p.request.phase # "sent"
         /\ results # None =>
              /\ results = [run |-> p.request.run, agent |-> p.request.agent]
              /\ p.request.answer.status = "COMPLETED"
  BY DEF Settled
<1> HIDE DEF over
<1>4. PageOK(over, st, lg)
  BY <1>1 DEF PageOK, ViewOK
<1>5. PICK shown : /\ q = Continued(shown, p.request) /\ PageOK(shown, st, lg)
                   /\ shown.streams = p.streams /\ shown.request = None /\ shown.runId = p.runId
  <2>1. CASE q = Continued(over, p.request)
    BY <2>1, <1>1, <1>4
  <2>2. CASE q # Continued(over, p.request)
    <3> DEFINE e == Emitted(over, p.request, results)
    <3>1. /\ q = Continued(e, p.request)
          /\ p.request.phase # "sent"
          /\ results # None =>
               /\ results = [run |-> p.request.run, agent |-> p.request.agent]
               /\ p.request.answer.status = "COMPLETED"
      BY <2>2, <1>3
    <3>2. /\ PageOK(e, st, lg) /\ e.streams = over.streams
          /\ e.request = over.request /\ e.runId = over.runId
      BY <3>1, <1>2, <1>4, EmittedKeeps
    <3> HIDE DEF e
    <3> QED
      BY <3>1, <3>2, <1>1
  <2> QED
    BY <2>1, <2>2
<1>6. Busy(shown) = Busy(p)
  BY <1>5 DEF Busy
<1>7. /\ PageOK(q, st, lg)
      /\ Cardinality(Busy(q)) = Cardinality(Busy(p)) + Pending(p.request)
      /\ q.request = None /\ q.runId = p.runId
      /\ p.request.thenConnect => \E s \in Streams : q.streams[s].run = p.runId
      /\ ~p.request.thenConnect => q = shown
  BY <1>2, <1>5, <1>6, ContinuedKeeps DEF Room
<1>8. Followed(q)
  BY <1>5, <1>7 DEF Followed
<1>9. Room(q)
  BY <1>7, BusyIsFinite DEF Room, Pending
<1> QED
  BY <1>7, <1>8, <1>9

-----------------------------------------------------------------------------
(* The steps.                                                              *)

LEMMA TransactionTypes ==
  ASSUME NEW t \in Transactions
  PROVE  /\ t[1] \notin {"COMPLETED"} /\ t[2] \in Seq(Statuses) /\ t[2] # <<>>
         /\ Last(t[2]) \in Statuses
<1> DEFINE Types(stats) == stats \in Seq(Statuses) /\ stats # <<>> /\ Last(stats) \in Statuses
<1>1. \A a \in Statuses : Types(<<a>>)
  BY DEF Last
<1>2. \A a, b, c \in Statuses : Types(<<a, b, c>>)
  BY DEF Last
<1>3. t[1] # "COMPLETED"
  BY DEF Transactions
<1>4. \/ \E a \in Statuses : t[2] = <<a>>
      \/ \E a, b, c \in Statuses : t[2] = <<a, b, c>>
  BY DEF Transactions, Statuses
<1> HIDE DEF Types
<1>5. Types(t[2])
  BY <1>1, <1>2, <1>4
<1> QED
  BY <1>3, <1>5 DEF Types

\* What the page was sent of a run stays true when the run goes on.
LEMMA LogGrows ==
  ASSUME StreamInv, NEW r \in Runs, NEW stats \in Seq(Statuses), stats # <<>>,
         Insert(r, stats), NEW next \in Statuses, status' = [status EXCEPT ![r] = next],
         status[r] # "COMPLETED", UNCHANGED <<page, failures>>
  PROVE  StreamInv'
<1> DEFINE n == lastId + Len(stats)
           rows == Inserted(log[r], stats)
<1>1. log[r] \in Rows(lastId) /\ lastId \in Nat
  BY StreamAssumption DEF StreamInv, LogOK
<1>2. rows \in Rows(n) /\ LatestId(rows) = n
  BY <1>1, InsertedRows
<1>3. Len(stats) \in Nat /\ n \in 0..MaxEvents /\ lastId <= n
  BY <1>1, LenProperties, StreamAssumption DEF Insert
<1>4. lastId' = n /\ log' = [log EXCEPT ![r] = rows]
  BY DEF Insert
<1> HIDE DEF n, rows
<1>5. \A x \in Runs : LatestId(log[x]) <= LatestId(log'[x])
  <2> TAKE x \in Runs
  <2>1. LatestId(log[x]) \in 0..lastId
    BY <1>1, LatestOfRows DEF StreamInv, LogOK
  <2> QED
    BY <1>1, <1>2, <1>3, <1>4, <2>1 DEF StreamInv, LogOK
<1>6. \A x \in Runs : x # r => log'[x] = log[x] /\ status'[x] = status[x]
  BY <1>4 DEF StreamInv, LogOK
<1>7. LogOK(status, log, lastId)'
  <2>1. \A x \in Runs : log[x] \in Rows(n)
    BY <1>3, <1>1 DEF StreamInv, LogOK, Rows
  <2> QED
    BY <1>2, <1>3, <1>4, <2>1 DEF StreamInv, LogOK
<1>8. status[r] # "COMPLETED" /\ status'[r] # "ABSENT" /\ \A x \in Runs : status[x] # "ABSENT" => status'[x] # "ABSENT"
  BY <1>6 DEF StreamInv, LogOK, Statuses
<1>9. page' \in Pages /\ page' = page
  BY DEF StreamInv, PageOK
<1>10. \A s \in Streams : HandlerOK(page.streams[s], log')
  <2> TAKE s \in Streams
  <2>1. HandlerOK(page.streams[s], log)
    BY DEF StreamInv, PageOK
  <2>2. ASSUME page.streams[s].pc # "free"
        PROVE  page.streams[s].frames \in Seq(Sent(log'[page.streams[s].run]))
    <3> DEFINE x == page.streams[s].run
    <3>1. x \in Runs /\ page.streams[s].frames \in Seq(Sent(log[x]))
      BY <2>1, <2>2 DEF HandlerOK
    <3>2. LatestId(log[x]) \in Nat /\ LatestId(log'[x]) \in Nat
      <4>1. log[x] \in Rows(lastId) /\ log'[x] \in Rows(lastId') /\ lastId \in Nat /\ lastId' \in Nat
        BY <3>1, <1>1, <1>3, <1>4, <1>7 DEF StreamInv, LogOK
      <4> QED BY <4>1, LatestOfRows
    <3>3. Sent(log[x]) \subseteq Sent(log'[x])
      BY <1>5, <3>1, <3>2 DEF Sent, Frames
    <3> QED
      BY <3>1, <3>3, SeqMonotonic
  <2> QED
    BY <2>1, <2>2 DEF HandlerOK
<1>11. page.request # None => RequestOK(page.request, status', log') /\ page.runId # None
  <2> SUFFICES ASSUME page.request # None
               PROVE  RequestOK(page.request, status', log') /\ page.runId # None
    OBVIOUS
  <2>1. page.request.run \in Runs
    BY DEF StreamInv, PageOK, Pages, Requests
  <2> QED
    BY <2>1, <1>6, <1>8 DEF StreamInv, PageOK, RequestOK
<1>12. ViewOK(page, status', log')
  BY <1>6, <1>8, <1>9 DEF StreamInv, PageOK, ViewOK, Pages
<1> QED
  BY <1>7, <1>9, <1>10, <1>11, <1>12 DEF StreamInv, PageOK, Room, Followed, Busy

LEMMA StreamInit == Init => StreamInv
<1> SUFFICES ASSUME Init PROVE StreamInv
  OBVIOUS
<1>1. LogOK(status, log, lastId) /\ failures \in 0..RestFailures
  BY FS_EmptySet, StreamAssumption DEF Init, LogOK, Rows
<1>2. PageOK(page, status, log)
  BY FreeIsHandler, StreamAssumption DEF Init, PageOK, Pages, HandlerOK, ViewOK, Free
<1>3. Busy(page) = {} /\ Pending(page.request) = 0
  BY DEF Init, Busy, Free, Pending
<1>4. Room(page)
  BY <1>3, FS_EmptySet, BusyIsFinite DEF Room
<1> QED
  BY <1>1, <1>2, <1>4 DEF StreamInv, Followed, Init

\* The page that selectRun() refreshes: what was shown is gone.
Selected(r) ==
  [CloseRunSubscription(page) EXCEPT !.runId = r, !.detail = None, !.results = None,
                                     !.agent = FirstAgent, !.lastEventId = 0]

LEMMA SelectedFits ==
  ASSUME StreamInv, NEW r \in Runs, SelectRun(r)
  PROVE  LET p == Selected(r)
         IN /\ PageOK(p, status, log) /\ p.runId = r /\ r # None /\ p.detail = None
            /\ p.request = page.request
            /\ \A s \in Streams : p.streams[s] \in {page.streams[s], Free}
            /\ Cardinality(Busy(p)) + Pending(p.request) < Cardinality(Streams) /\ Room(p)
            /\ page' = Refresh(p, TRUE) /\ UNCHANGED <<status, log, lastId, failures>>
<1> DEFINE closed == CloseRunSubscription(page)
           p == Selected(r)
           streams == [s \in Streams |->
              IF \/ s = page.subscription /\ page.streams[s].pc # "lost"
                 \/ s = page.reconnectTimer
              THEN Free ELSE page.streams[s]]
<1>1. page' = Refresh(p, TRUE) /\ UNCHANGED <<status, log, lastId, failures>>
      /\ status[r] # "ABSENT" /\ Claims(closed) < Cardinality(Streams)
  BY DEF SelectRun, Selected
<1>2. /\ streams \in [Streams -> Handlers] /\ \A s \in Streams : HandlerOK(streams[s], log)
      /\ \A s \in Streams : streams[s] \in {page.streams[s], Free}
  BY FreeIsHandler DEF StreamInv, PageOK, Pages, HandlerOK, Free
<1>3. closed = [page EXCEPT !.streams = streams, !.subscription = None, !.reconnectTimer = None]
  BY DEF CloseRunSubscription
<1> HIDE DEF streams
<1>4. closed \in Pages /\ closed.streams = streams /\ closed.request = page.request
  BY <1>2, <1>3 DEF StreamInv, PageOK, Pages
<1>5. p = [closed EXCEPT !.runId = r, !.detail = None, !.results = None,
                         !.agent = FirstAgent, !.lastEventId = 0]
  BY DEF Selected
<1> HIDE DEF closed, p
<1>6. /\ p \in Pages /\ p.streams = streams /\ p.request = page.request
      /\ p.runId = r /\ p.detail = None /\ p.results = None
  BY <1>4, <1>5, StreamAssumption DEF Pages
<1>7. r # None
  BY StreamAssumption
<1>8. PageOK(p, status, log)
  BY <1>1, <1>2, <1>6, <1>7 DEF StreamInv, PageOK, ViewOK
<1>9. Cardinality(Busy(p)) + Pending(p.request) < Cardinality(Streams)
  BY <1>1, <1>4, <1>6 DEF Claims, Busy, Pending
<1>10. Room(p)
  BY <1>9, BusyIsFinite DEF Room
<1> QED
  BY <1>1, <1>2, <1>6, <1>7, <1>8, <1>9, <1>10 DEF p

\* selectRun(): the request of its refresh will connect.
LEMMA SelectRunKeeps ==
  ASSUME StreamInv, NEW r \in Runs, SelectRun(r)
  PROVE  StreamInv'
<1> DEFINE p == Selected(r)
<1>1. /\ PageOK(p, status, log) /\ p.runId = r /\ r # None
      /\ Cardinality(Busy(p)) + Pending(p.request) < Cardinality(Streams) /\ Room(p)
      /\ page' = Refresh(p, TRUE) /\ UNCHANGED <<status, log, lastId, failures>>
  BY SelectedFits
<1> HIDE DEF p
<1>2. /\ PageOK(page', status, log) /\ Followed(page')
      /\ Cardinality(Busy(page')) + Pending(page'.request)
           = Cardinality(Busy(p)) + Pending(p.request) + 1
  BY <1>1, RefreshKeeps DEF StreamInv
<1>3. Cardinality(Busy(p)) + Pending(p.request) < Cardinality(Streams)
  BY <1>1
<1>4. Room(page')
  BY <1>2, <1>3, BusyIsFinite DEF Room
<1> QED
  BY <1>1, <1>2, <1>4 DEF StreamInv, Room, Followed, Busy, PageOK, ViewOK, LogOK

LEMMA SelectAgentKeeps ==
  ASSUME StreamInv, NEW a \in Agents, SelectAgent(a)
  PROVE  StreamInv'
<1> DEFINE p == [page EXCEPT !.agent = a, !.results = None]
<1>1. page' = Refresh(p, FALSE) /\ UNCHANGED <<status, log, lastId, failures>>
  BY DEF SelectAgent
<1>2. /\ p \in Pages /\ p.streams = page.streams /\ p.request = page.request
      /\ p.runId = page.runId /\ p.detail = page.detail /\ p.results = None
  BY DEF StreamInv, PageOK, Pages
<1> HIDE DEF p
<1>3. PageOK(p, status, log) /\ Room(p) /\ Followed(p)
  BY <1>2 DEF StreamInv, PageOK, ViewOK, Room, Followed, Busy
<1>4. PageOK(page', status, log) /\ Room(page') /\ Followed(page')
  BY <1>1, <1>3, RefreshOnlyKeeps DEF StreamInv
<1> QED
  BY <1>1, <1>4 DEF StreamInv, Room, Followed, Busy, PageOK, ViewOK, LogOK

\* The request moves on; its answer is what the database says.
LEMMA RequestKeeps ==
  ASSUME StreamInv, page.request # None,
         NEW q \in Requests, RequestOK(q, status, log),
         q.thenConnect = page.request.thenConnect,
         page' = [page EXCEPT !.request = q],
         UNCHANGED <<status, log, lastId, failures>>
  PROVE  StreamInv'
<1>1. /\ page' \in Pages /\ page'.streams = page.streams /\ page'.request = q
      /\ page'.runId = page.runId /\ page'.agent = page.agent /\ page'.detail = page.detail
      /\ page'.results = page.results /\ page'.lastEventId = page.lastEventId
  BY DEF StreamInv, PageOK, Pages
<1>2. q # None
  BY NullAssumption
<1>3. PageOK(page', status, log)
  BY <1>1 DEF StreamInv, PageOK, ViewOK
<1>4. Room(page') /\ Followed(page')
  BY <1>1, <1>2 DEF StreamInv, Room, Followed, Busy, Pending
<1> QED
  BY <1>3, <1>4 DEF StreamInv, Room, Followed, Busy, PageOK, ViewOK, LogOK

LEMMA ServeDetailKeeps ==
  ASSUME StreamInv, ServeDetail PROVE StreamInv'
<1> DEFINE r == page.request.run
           answer == [status |-> status[r], latest |-> LatestId(log[r])]
           q == [page.request EXCEPT !.phase = "answered", !.answer = answer]
<1>1. /\ page.request # None /\ page.request \in Requests /\ page.request.phase = "sent"
      /\ RequestOK(page.request, status, log)
  BY DEF ServeDetail, StreamInv, PageOK, Pages
<1>2. r \in Runs /\ status[r] \in Statuses /\ LatestId(log[r]) \in Nat
  <2>1. r \in Runs /\ status[r] \in Statuses
    BY <1>1 DEF Requests, RequestOK, StreamInv, LogOK
  <2>2. log[r] \in Rows(lastId) /\ lastId \in Nat
    BY <2>1, StreamAssumption DEF StreamInv, LogOK
  <2> QED
    BY <2>1, <2>2, LatestOfRows
<1>3. answer \in Answers /\ answer.status = status[r] /\ answer.latest = LatestId(log[r])
  BY <1>2 DEF Answers
<1>4. page' = [page EXCEPT !.request = q] /\ UNCHANGED <<status, log, lastId, failures>>
  BY DEF ServeDetail, StreamInv, PageOK, Pages
<1> HIDE DEF answer
<1>5. /\ q \in Requests /\ q.thenConnect = page.request.thenConnect
      /\ q.run = r /\ q.phase = "answered" /\ q.answer = answer
  BY <1>1, <1>3 DEF Requests
<1> HIDE DEF q
<1>6. RequestOK(q, status, log)
  BY <1>1, <1>3, <1>5 DEF RequestOK
<1> QED
  BY <1>1, <1>4, <1>5, <1>6, RequestKeeps

\* Steps that leave the log and give a page that fits it.
LEMMA PageStep ==
  ASSUME StreamInv, PageOK(page', status, log), Room(page'), Followed(page'),
         UNCHANGED <<status, log, lastId>>, failures' \in 0..RestFailures
  PROVE  StreamInv'
BY DEF StreamInv, Room, Followed, Busy, PageOK, ViewOK, LogOK

LEMMA DetailArrivesKeeps ==
  ASSUME StreamInv, DetailArrives PROVE StreamInv'
<1>1. /\ page.request # None /\ page.request \in Requests /\ page.request.phase = "answered"
      /\ RequestOK(page.request, status, log) /\ UNCHANGED <<status, log, lastId, failures>>
  BY DEF DetailArrives, StreamInv, PageOK, Pages
<1>2. CASE page.request.answer.status = "COMPLETED"
  <2> DEFINE q == [page.request EXCEPT !.phase = "results"]
  <2>1. page' = [page EXCEPT !.request = q]
    BY <1>2 DEF DetailArrives, StreamInv, PageOK, Pages
  <2>2. /\ q \in Requests /\ q.thenConnect = page.request.thenConnect
        /\ q.run = page.request.run /\ q.phase = "results" /\ q.answer = page.request.answer
    BY <1>1 DEF Requests
  <2> HIDE DEF q
  <2>3. RequestOK(q, status, log)
    BY <1>1, <1>2, <2>2 DEF RequestOK
  <2> QED
    BY <1>1, <2>1, <2>2, <2>3, RequestKeeps
<1>3. CASE page.request.answer.status # "COMPLETED"
  <2>1. page' = Settled(page, None)
    BY <1>3 DEF DetailArrives
  <2>2. PageOK(page', status, log) /\ Room(page') /\ Followed(page')
    BY <1>1, <2>1, SettledKeeps DEF StreamInv
  <2> QED
    BY <1>1, <2>2, PageStep DEF StreamInv
<1> QED
  BY <1>2, <1>3

LEMMA ResultsArriveKeeps ==
  ASSUME StreamInv, ResultsArrive PROVE StreamInv'
<1> DEFINE results == [run |-> page.request.run, agent |-> page.request.agent]
<1>1. /\ page.request # None /\ page.request.phase = "results"
      /\ page.request.answer.status = "COMPLETED" /\ page' = Settled(page, results)
      /\ UNCHANGED <<status, log, lastId, failures>>
  BY DEF ResultsArrive, StreamInv, PageOK, RequestOK
<1>2. page.request.phase # "sent" /\ results = [run |-> page.request.run, agent |-> page.request.agent]
  BY <1>1
<1> HIDE DEF results
<1>3. PageOK(page', status, log) /\ Room(page') /\ Followed(page')
  BY <1>1, <1>2, SettledKeeps DEF StreamInv
<1> QED
  BY <1>1, <1>3, PageStep DEF StreamInv

LEMMA RequestFailsKeeps ==
  ASSUME StreamInv, RequestFails PROVE StreamInv'
<1>1. /\ page.request # None /\ failures' \in 0..RestFailures
      /\ UNCHANGED <<status, log, lastId>>
  BY StreamAssumption DEF RequestFails, StreamInv
<1>2. PageOK(page', status, log) /\ Room(page') /\ Followed(page')
  <2>1. CASE page.request.phase = "results"
    <3>1. page' = Settled(page, None) /\ page.request.phase # "sent"
      BY <2>1 DEF RequestFails
    <3> QED
      BY <1>1, <3>1, SettledKeeps DEF StreamInv
  <2>2. CASE page.request.phase # "results"
    <3>1. page' = Continued([page EXCEPT !.request = None], page.request)
      BY <2>2 DEF RequestFails
    <3> QED
      BY <1>1, <3>1, SettledKeeps DEF StreamInv
  <2> QED
    BY <2>1, <2>2
<1> QED
  BY <1>1, <1>2, PageStep

\* A handler goes on: its slot stays taken, for the same run.
LEMMA HandlerKeeps ==
  ASSUME StreamInv, NEW s \in Streams, page.streams[s].pc # "free",
         NEW h \in Handlers, h.pc # "free", h.run = page.streams[s].run,
         h.frames \in Seq(Sent(log[h.run])), Handler(s, h)
  PROVE  StreamInv'
<1>1. HandlerOK(h, log)
  BY DEF StreamInv, PageOK, HandlerOK
<1>2. /\ PageOK(page', status, log) /\ page'.streams = [page.streams EXCEPT ![s] = h]
      /\ page'.request = page.request /\ page'.runId = page.runId
  BY <1>1, WithStream DEF Handler, StreamInv
<1>3. Busy(page') = Busy(page)
  BY <1>2 DEF Busy, StreamInv, PageOK, Pages
<1>4. \A x \in Streams : page'.streams[x].run = page.streams[x].run
  BY <1>2 DEF StreamInv, PageOK, Pages
<1>5. Room(page') /\ Followed(page')
  BY <1>2, <1>3, <1>4 DEF StreamInv, Room, Followed
<1> QED
  BY <1>2, <1>5, PageStep DEF Handler, StreamInv

\* A frame without a status fits every log.
LEMMA FrameOfNoEvent ==
  ASSUME NEW rows, NEW type \in {"heartbeat", "stream.reset"}, NEW id \in Nat
  PROVE  [type |-> type, id |-> id, status |-> None] \in Sent(rows)
BY DEF Sent, Frames

LEMMA TakenHandler ==
  ASSUME StreamInv, NEW s \in Streams, page.streams[s].pc # "free"
  PROVE  /\ page.streams[s] \in Handlers /\ page.streams[s].run \in Runs
         /\ page.streams[s].frames \in Seq(Sent(log[page.streams[s].run]))
         /\ log[page.streams[s].run] \in Rows(lastId) /\ lastId \in Nat
         /\ LatestId(log[page.streams[s].run]) \in Nat
<1>1. /\ page.streams[s] \in Handlers /\ page.streams[s].run \in Runs
      /\ page.streams[s].frames \in Seq(Sent(log[page.streams[s].run]))
  BY DEF StreamInv, PageOK, Pages, HandlerOK
<1>2. log[page.streams[s].run] \in Rows(lastId) /\ lastId \in Nat
  BY <1>1, StreamAssumption DEF StreamInv, LogOK
<1> QED
  BY <1>1, <1>2, LatestOfRows

LEMMA SentAreFrames == \A rows : Seq(Sent(rows)) \subseteq Seq(Frames)
<1> TAKE rows
<1>1. Sent(rows) \subseteq Frames
  BY DEF Sent
<1> QED
  BY <1>1, SeqMonotonic

LEMMA ReadBoundsKeeps ==
  ASSUME StreamInv, NEW s \in Streams, ReadBounds(s) PROVE StreamInv'
<1> DEFINE h == page.streams[s]
           latest == LatestId(log[h.run])
           frame == [type |-> "stream.reset", id |-> latest, status |-> None]
           frames == Append(h.frames, frame)
           reset == [h EXCEPT !.pc = "wait", !.latest = latest, !.lastID = latest,
                              !.frames = frames]
           going == [h EXCEPT !.pc = "rows", !.latest = latest]
<1>1. h.pc = "read"
  BY DEF ReadBounds
<1>2. /\ h \in Handlers /\ h.run \in Runs /\ h.frames \in Seq(Sent(log[h.run])) /\ latest \in Nat
  BY <1>1, TakenHandler
<1>3. frame \in Sent(log[h.run])
  BY <1>2, FrameOfNoEvent
<1>4. Handler(s, reset) \/ Handler(s, going)
  BY DEF ReadBounds
<1> HIDE DEF latest, frame
<1>5. frames \in Seq(Sent(log[h.run])) /\ frames \in Seq(Frames)
  BY <1>2, <1>3, AppendProperties, SentAreFrames
<1> HIDE DEF frames
<1>6. /\ reset \in Handlers /\ reset.pc = "wait" /\ reset.run = h.run /\ reset.frames = frames
      /\ going \in Handlers /\ going.pc = "rows" /\ going.run = h.run /\ going.frames = h.frames
  BY <1>2, <1>5 DEF Handlers
<1> HIDE DEF reset, going
<1> QED
  BY <1>1, <1>2, <1>4, <1>5, <1>6, HandlerKeeps

LEMMA ReadRowsKeeps ==
  ASSUME StreamInv, NEW s \in Streams, ReadRows(s) PROVE StreamInv'
<1> DEFINE h == page.streams[s]
           rows == log[h.run]
<1>1. h.pc = "rows"
  BY DEF ReadRows
<1>2. /\ h \in Handlers /\ h.run \in Runs /\ h.frames \in Seq(Sent(rows))
      /\ rows \in Rows(lastId) /\ lastId \in Nat /\ h.lastID \in Nat
  BY <1>1, TakenHandler DEF Handlers
<1>3. PICK events \in InIdOrder(EventsAfter(h.lastID, rows)) :
        Handler(s, [h EXCEPT !.pc = "wait",
                             !.lastID = IF events = <<>> THEN @ ELSE Last(events).id,
                             !.frames = @ \o [i \in DOMAIN events |-> EventFrame(events[i])]])
  BY DEF ReadRows
<1> DEFINE more == [i \in DOMAIN events |-> EventFrame(events[i])]
           cursor == IF events = <<>> THEN h.lastID ELSE Last(events).id
           frames == h.frames \o more
           upd == [h EXCEPT !.pc = "wait", !.lastID = cursor, !.frames = frames]
<1>4. more \in Seq(Sent(rows)) /\ cursor \in Nat
  BY <1>2, RowsInOrder
<1>5. Handler(s, upd)
  BY <1>3
<1> HIDE DEF more, cursor
<1>6. frames \in Seq(Sent(rows)) /\ frames \in Seq(Frames)
  BY <1>2, <1>4, ConcatProperties, SentAreFrames
<1> HIDE DEF frames
<1>7. upd \in Handlers /\ upd.pc = "wait" /\ upd.run = h.run /\ upd.frames = frames
  BY <1>2, <1>4, <1>6 DEF Handlers
<1> HIDE DEF upd
<1> QED
  BY <1>1, <1>2, <1>5, <1>6, <1>7, HandlerKeeps

LEMMA HeartbeatKeeps ==
  ASSUME StreamInv, NEW s \in Streams, Heartbeat(s) PROVE StreamInv'
<1> DEFINE h == page.streams[s]
           frame == [type |-> "heartbeat", id |-> h.latest, status |-> None]
           frames == Append(h.frames, frame)
           upd == [h EXCEPT !.pc = "read", !.frames = frames]
<1>1. h.pc = "wait" /\ Handler(s, upd)
  BY DEF Heartbeat
<1>2. h \in Handlers /\ h.run \in Runs /\ h.frames \in Seq(Sent(log[h.run])) /\ h.latest \in Nat
  BY <1>1, TakenHandler DEF Handlers
<1>3. frame \in Sent(log[h.run])
  BY <1>2, FrameOfNoEvent
<1> HIDE DEF frame
<1>4. frames \in Seq(Sent(log[h.run])) /\ frames \in Seq(Frames)
  BY <1>2, <1>3, AppendProperties, SentAreFrames
<1> HIDE DEF frames
<1>5. upd \in Handlers /\ upd.pc = "read" /\ upd.run = h.run /\ upd.frames = frames
  BY <1>2, <1>4 DEF Handlers
<1> HIDE DEF upd
<1> QED
  BY <1>1, <1>2, <1>4, <1>5, HandlerKeeps

LEMMA PollAgainKeeps ==
  ASSUME StreamInv, NEW s \in Streams, PollAgain(s) PROVE StreamInv'
<1> DEFINE h == page.streams[s]
           upd == [h EXCEPT !.pc = "read"]
<1>1. h.pc = "wait" /\ Handler(s, upd)
  BY DEF PollAgain
<1>2. h \in Handlers /\ h.run \in Runs /\ h.frames \in Seq(Sent(log[h.run]))
  BY <1>1, TakenHandler
<1>3. upd \in Handlers /\ upd.pc = "read" /\ upd.run = h.run /\ upd.frames = h.frames
  BY <1>2 DEF Handlers
<1> HIDE DEF upd
<1> QED
  BY <1>1, <1>2, <1>3, HandlerKeeps

\* What onEvent shows of a newer event.
Shown(p, f) ==
  [p EXCEPT !.detail = IF p.detail # None /\ f.status # None
                       THEN [p.detail EXCEPT !.status = f.status] ELSE p.detail,
            !.lastEventId = f.id]

\* An event newer than all the page has seen of the run is not one of a run
\* whose results it shows.
LEMMA ShownFits ==
  ASSUME StreamInv, NEW p, PageOK(p, status, log), Room(p), Followed(p), p.runId # None,
         NEW f \in Sent(log[p.runId]), f.id > p.lastEventId
  PROVE  LET q == Shown(p, f)
         IN /\ PageOK(q, status, log) /\ Room(q) /\ Followed(q)
            /\ Applied(p, f) = IF f.status # None THEN Refresh(q, FALSE) ELSE q
            /\ q.streams = p.streams /\ q.request = p.request /\ q.runId = p.runId
            /\ q.lastEventId = f.id
            /\ p.detail = None \/ f.status = None => q.detail = p.detail
            /\ p.detail # None /\ f.status # None => q.detail.status = f.status
<1> DEFINE detail == IF p.detail # None /\ f.status # None
                     THEN [p.detail EXCEPT !.status = f.status] ELSE p.detail
           q == Shown(p, f)
<1>1. Applied(p, f) = IF f.status # None THEN Refresh(q, FALSE) ELSE q
  BY DEF Applied, Shown
<1>2. /\ f.id \in Nat /\ f.status \in Statuses \cup {None} /\ p.lastEventId \in Nat
      /\ p.runId \in Runs
      /\ f.status # None => f.id <= LatestId(log[p.runId])
  BY DEF Sent, Frames, PageOK, Pages
<1>3. /\ detail \in [run : Runs, status : Statuses] \cup {None}
      /\ p.detail # None => detail.run = p.detail.run
      /\ p.detail = None => detail = None
      /\ f.status = None => detail = p.detail
      /\ p.detail # None /\ f.status # None => detail.status = f.status
  BY <1>2 DEF PageOK, Pages
<1>4. q = [p EXCEPT !.detail = detail, !.lastEventId = f.id]
  BY DEF Shown
<1> HIDE DEF detail, q
<1>5. /\ q \in Pages /\ q.streams = p.streams /\ q.request = p.request
      /\ q.runId = p.runId /\ q.agent = p.agent /\ q.detail = detail
      /\ q.results = p.results /\ q.lastEventId = f.id
  BY <1>2, <1>3, <1>4 DEF PageOK, Pages
<1>6. LatestId(log[p.runId]) \in Nat
  <2>1. log[p.runId] \in Rows(lastId) /\ lastId \in Nat
    BY <1>2, StreamAssumption DEF StreamInv, LogOK
  <2> QED
    BY <2>1, LatestOfRows
<1>7. ViewOK(q, status, log)
  <2>1. p.results # None => f.status = None
    BY <1>2, <1>6 DEF PageOK, ViewOK
  <2> QED
    BY <1>2, <1>3, <1>5, <1>6, <2>1 DEF PageOK, ViewOK
<1>8. PageOK(q, status, log) /\ Room(q) /\ Followed(q)
  BY <1>5, <1>7 DEF PageOK, Room, Followed, Busy
<1> QED
  BY <1>1, <1>3, <1>5, <1>8 DEF q

LEMMA AppliedKeeps ==
  ASSUME StreamInv, NEW p, PageOK(p, status, log), Room(p), Followed(p), p.runId # None,
         NEW f \in Sent(log[p.runId]), f.id > p.lastEventId
  PROVE  LET q == Applied(p, f)
         IN PageOK(q, status, log) /\ Room(q) /\ Followed(q)
<1> DEFINE shown == Shown(p, f)
<1>1. /\ PageOK(shown, status, log) /\ Room(shown) /\ Followed(shown)
      /\ Applied(p, f) = IF f.status # None THEN Refresh(shown, FALSE) ELSE shown
  BY ShownFits
<1> HIDE DEF shown
<1>2. LET q == Refresh(shown, FALSE)
      IN PageOK(q, status, log) /\ Room(q) /\ Followed(q)
  BY <1>1, RefreshOnlyKeeps DEF StreamInv
<1> QED
  BY <1>1, <1>2

\* The page whose stream s gave its first frame.
Taken(s) ==
  LET h == page.streams[s]
  IN [page EXCEPT !.streams[s] = [h EXCEPT !.frames = Tail(h.frames)]]

LEMMA TakenFits ==
  ASSUME StreamInv, NEW s \in Streams, DeliverFrame(s)
  PROVE  LET h == page.streams[s]
             p == Taken(s)
             rest == [h EXCEPT !.frames = Tail(h.frames)]
         IN /\ h.pc # "free" /\ h.frames # <<>> /\ h.run \in Runs /\ h.run # None
            /\ h \in Handlers /\ Head(h.frames) \in Sent(log[h.run])
            /\ page' = OnEvent(p, h.run, Head(h.frames))
            /\ UNCHANGED <<status, log, lastId, failures>>
            /\ PageOK(p, status, log) /\ Room(p) /\ Followed(p)
            /\ p.streams = [page.streams EXCEPT ![s] = rest]
            /\ rest.pc = h.pc /\ rest.run = h.run /\ rest.frames = Tail(h.frames)
            /\ p = [page EXCEPT !.streams[s] = rest]
<1> DEFINE h == page.streams[s]
           rest == [h EXCEPT !.frames = Tail(h.frames)]
           p == Taken(s)
           f == Head(h.frames)
<1>1. /\ h.pc # "free" /\ h.frames # <<>> /\ page' = OnEvent(p, h.run, f)
      /\ UNCHANGED <<status, log, lastId, failures>>
  BY DEF DeliverFrame, Live, StreamInv, PageOK, Pages, Taken
<1>2. h \in Handlers /\ h.run \in Runs /\ h.frames \in Seq(Sent(log[h.run]))
  BY <1>1, TakenHandler
<1>3. f \in Sent(log[h.run]) /\ Tail(h.frames) \in Seq(Sent(log[h.run]))
      /\ Tail(h.frames) \in Seq(Frames)
  BY <1>1, <1>2, HeadTailProperties, SentAreFrames
<1>4. p = [page EXCEPT !.streams[s] = rest]
  BY DEF Taken
<1> HIDE DEF f, p
<1>5. /\ rest \in Handlers /\ rest.pc = h.pc /\ rest.run = h.run
      /\ rest.frames = Tail(h.frames)
  BY <1>2, <1>3 DEF Handlers
<1> HIDE DEF rest
<1>6. HandlerOK(rest, log)
  BY <1>1, <1>2, <1>3, <1>5 DEF HandlerOK
<1>7. /\ PageOK(p, status, log) /\ p.streams = [page.streams EXCEPT ![s] = rest]
      /\ p.request = page.request /\ p.runId = page.runId
  BY <1>4, <1>5, <1>6, WithStream DEF StreamInv
<1>8. Busy(p) = Busy(page) /\ \A x \in Streams : p.streams[x].run = page.streams[x].run
  BY <1>5, <1>7 DEF Busy, StreamInv, PageOK, Pages
<1>9. Room(p) /\ Followed(p)
  BY <1>7, <1>8 DEF StreamInv, Room, Followed
<1>10. h.run # None
  BY <1>2, StreamAssumption
<1> QED
  BY <1>1, <1>2, <1>3, <1>4, <1>5, <1>7, <1>9, <1>10 DEF f, p, rest

LEMMA DeliverFrameKeeps ==
  ASSUME StreamInv, NEW s \in Streams, DeliverFrame(s) PROVE StreamInv'
<1> DEFINE h == page.streams[s]
           p == Taken(s)
           f == Head(h.frames)
<1>1. /\ h.run # None /\ f \in Sent(log[h.run]) /\ page' = OnEvent(p, h.run, f)
      /\ UNCHANGED <<status, log, lastId, failures>>
      /\ PageOK(p, status, log) /\ Room(p) /\ Followed(p)
  BY TakenFits
<1> HIDE DEF f, p
<1>2. PageOK(page', status, log) /\ Room(page') /\ Followed(page')
  <2>1. CASE page' = p
    BY <2>1, <1>1
  <2>2. CASE page' = Refresh(p, FALSE)
    BY <2>2, <1>1, RefreshOnlyKeeps DEF StreamInv
  <2>3. CASE h.run = p.runId /\ IsNewerEventId(p.lastEventId, f.id) /\ page' = Applied(p, f)
    BY <2>3, <1>1, AppliedKeeps DEF IsNewerEventId
  <2> QED
    BY <1>1, <2>1, <2>2, <2>3 DEF OnEvent
<1> QED
  BY <1>1, <1>2, PageStep DEF StreamInv

LEMMA DisconnectKeeps ==
  ASSUME StreamInv, NEW s \in Streams, Disconnect(s) PROVE StreamInv'
<1> DEFINE r == page.streams[s].run
           h == IF r = page.runId THEN Lost(r) ELSE Free
           p == [page EXCEPT !.streams[s] = h]
<1>1. page.streams[s].pc # "free" /\ UNCHANGED <<status, log, lastId, failures>>
  BY DEF Disconnect, Live, StreamInv, PageOK, Pages
<1>2. r \in Runs
  BY <1>1, TakenHandler
<1>3. h \in Handlers /\ HandlerOK(h, log) /\ (r = page.runId => h.pc = "lost" /\ h.run = r)
      /\ (r # page.runId => h.pc = "free")
  BY <1>2, EmptySeq, FreeIsHandler DEF Lost, Free, Handlers, HandlerOK
<1>4. page' = p \/ page' = [p EXCEPT !.reconnectTimer = s]
  BY DEF Disconnect
<1> HIDE DEF h
<1>5. /\ PageOK(p, status, log) /\ p.streams = [page.streams EXCEPT ![s] = h]
      /\ p.request = page.request /\ p.runId = page.runId
  BY <1>3, WithStream DEF StreamInv
<1> HIDE DEF p
<1>6. PageOK(page', status, log) /\ page'.streams = p.streams /\ page'.request = page.request
      /\ page'.runId = page.runId
  BY <1>4, <1>5 DEF PageOK, Pages, ViewOK
<1>7. Busy(page') \in {Busy(page), Busy(page) \ {s}}
  BY <1>1, <1>3, <1>5, <1>6 DEF Busy, StreamInv, PageOK, Pages
<1>8. Room(page')
  <2>1. Cardinality(Busy(page')) <= Cardinality(Busy(page))
    BY <1>1, <1>7, BusyIsFinite, FS_RemoveElement
  <2> QED
    BY <2>1, <1>6, BusyIsFinite DEF Room, StreamInv
<1>9. Followed(page')
  <2>1. \A x \in Streams : page.streams[x].run = page.runId => page'.streams[x].run = page.runId
    BY <1>3, <1>5, <1>6 DEF StreamInv, PageOK, Pages
  <2> QED
    BY <2>1, <1>6 DEF Followed, StreamInv
<1> QED
  BY <1>1, <1>6, <1>8, <1>9, PageStep DEF StreamInv

\* The page whose timer s fired.
Fired(s) == [page EXCEPT !.streams[s] = Free,
                         !.reconnectTimer = IF page.reconnectTimer = s THEN None
                                            ELSE page.reconnectTimer]

LEMMA FiredFits ==
  ASSUME StreamInv, NEW s \in Streams, Reconnect(s)
  PROVE  LET r == page.streams[s].run
             p == Fired(s)
         IN /\ page.streams[s].pc = "lost" /\ UNCHANGED <<status, log, lastId, failures>>
            /\ r \in Runs /\ r # None
            /\ page' = IF r = page.runId THEN Refresh(p, TRUE) ELSE p
            /\ PageOK(p, status, log) /\ p.streams = [page.streams EXCEPT ![s] = Free]
            /\ p.request = page.request /\ p.runId = page.runId
            /\ p.detail = page.detail /\ p.lastEventId = page.lastEventId
            /\ Cardinality(Busy(p)) + Pending(p.request) + 1 <= Cardinality(Streams) /\ Room(p)
<1> DEFINE r == page.streams[s].run
           p == [page EXCEPT !.streams[s] = Free]
           fired == Fired(s)
<1>1. /\ page.streams[s].pc = "lost" /\ UNCHANGED <<status, log, lastId, failures>>
      /\ page' = IF r = page.runId THEN Refresh(fired, TRUE) ELSE fired
  BY DEF Reconnect, Fired, StreamInv, PageOK, Pages
<1>2. r \in Runs /\ r # None
  BY <1>1, TakenHandler, StreamAssumption
<1>3. Free \in Handlers /\ HandlerOK(Free, log) /\ Free.pc = "free"
  BY FreeIsHandler DEF HandlerOK, Free
<1>4. /\ PageOK(p, status, log) /\ p.streams = [page.streams EXCEPT ![s] = Free]
      /\ p.request = page.request /\ p.runId = page.runId
  BY <1>3, WithStream DEF StreamInv
<1>5. p.detail = page.detail /\ p.lastEventId = page.lastEventId
  BY DEF StreamInv, PageOK, Pages
<1>6. fired = [p EXCEPT !.reconnectTimer = IF page.reconnectTimer = s THEN None
                                           ELSE page.reconnectTimer]
  BY DEF Fired, StreamInv, PageOK, Pages
<1> HIDE DEF p, fired
<1>7. page.reconnectTimer \in Streams \cup {None}
  BY DEF StreamInv, PageOK, Pages
<1>8. /\ PageOK(fired, status, log) /\ fired.streams = p.streams
      /\ fired.request = page.request /\ fired.runId = page.runId
      /\ fired.detail = page.detail /\ fired.lastEventId = page.lastEventId
  BY <1>4, <1>5, <1>6, <1>7 DEF PageOK, Pages, ViewOK
<1>9. Busy(fired) = Busy(page) \ {s} /\ s \in Busy(page)
  BY <1>1, <1>3, <1>4, <1>8 DEF Busy, StreamInv, PageOK, Pages
<1>10. Cardinality(Busy(fired)) + Pending(fired.request) + 1 <= Cardinality(Streams)
  <2>1. Cardinality(Busy(fired)) = Cardinality(Busy(page)) - 1
    BY <1>9, BusyIsFinite, FS_RemoveElement
  <2>2. Cardinality(Busy(page)) + Pending(page.request) <= Cardinality(Streams)
    BY DEF StreamInv, Room
  <2> QED
    BY <2>1, <2>2, <1>8, BusyIsFinite
<1>11. Room(fired)
  BY <1>10, BusyIsFinite DEF Room
<1> QED
  BY <1>1, <1>2, <1>4, <1>8, <1>10, <1>11 DEF fired

LEMMA ReconnectKeeps ==
  ASSUME StreamInv, NEW s \in Streams, Reconnect(s) PROVE StreamInv'
<1> DEFINE r == page.streams[s].run
           p == Fired(s)
<1>1. /\ UNCHANGED <<status, log, lastId, failures>> /\ r # None
      /\ page' = IF r = page.runId THEN Refresh(p, TRUE) ELSE p
      /\ PageOK(p, status, log) /\ p.streams = [page.streams EXCEPT ![s] = Free]
      /\ p.request = page.request /\ p.runId = page.runId
      /\ Cardinality(Busy(p)) + Pending(p.request) + 1 <= Cardinality(Streams) /\ Room(p)
  BY FiredFits
<1> HIDE DEF p
<1>2. PageOK(page', status, log) /\ Room(page') /\ Followed(page')
  <2>1. CASE r = page.runId
    <3>1. page' = Refresh(p, TRUE) /\ p.runId # None /\ PageOK(p, status, log) /\ Room(p)
      BY <2>1, <1>1
    <3>2. /\ PageOK(page', status, log) /\ Followed(page')
          /\ Cardinality(Busy(page')) + Pending(page'.request)
               = Cardinality(Busy(p)) + Pending(p.request) + 1
      BY <3>1, RefreshKeeps DEF StreamInv
    <3>3. Cardinality(Busy(p)) + Pending(p.request) + 1 <= Cardinality(Streams)
      BY <1>1
    <3> QED
      BY <3>2, <3>3, BusyIsFinite DEF Room
  <2>2. CASE r # page.runId
    <3>1. \A x \in Streams : page.streams[x].run = page.runId => p.streams[x].run = page.runId
      BY <2>2, <1>1 DEF StreamInv, PageOK, Pages
    <3>2. Followed(p)
      BY <3>1, <1>1 DEF Followed, StreamInv
    <3> QED
      BY <2>2, <3>2, <1>1
  <2> QED
    BY <2>1, <2>2
<1> QED
  BY <1>1, <1>2, PageStep DEF StreamInv

LEMMA StreamNext == StreamInv /\ [Next]_vars => StreamInv'
<1> SUFFICES ASSUME StreamInv, [Next]_vars PROVE StreamInv'
  OBVIOUS
<1>1. ASSUME NEW r \in Runs, Advance(r) PROVE StreamInv'
  <2>1. PICK t \in Transactions :
          /\ status[r] = t[1] /\ status' = [status EXCEPT ![r] = Last(t[2])]
          /\ Insert(r, t[2]) /\ UNCHANGED <<page, failures>>
    BY <1>1 DEF Advance
  <2>2. /\ status[r] # "COMPLETED" /\ t[2] \in Seq(Statuses) /\ t[2] # <<>>
        /\ Last(t[2]) \in Statuses
    BY <2>1, TransactionTypes
  <2> QED
    BY <2>1, <2>2, LogGrows
<1>2. ASSUME NEW r \in Runs, Notice(r) PROVE StreamInv'
  <2> DEFINE stats == <<status[r]>>
  <2>1. /\ status[r] \in Statuses /\ status[r] # "COMPLETED" /\ Insert(r, stats)
        /\ UNCHANGED <<status, page, failures>>
    BY <1>2 DEF Notice, Statuses
  <2>2. stats \in Seq(Statuses) /\ stats # <<>>
    BY <2>1
  <2>3. status' = [status EXCEPT ![r] = status[r]]
    BY <2>1 DEF StreamInv, LogOK
  <2> HIDE DEF stats
  <2> QED
    BY <2>1, <2>2, <2>3, LogGrows
<1>3. ASSUME NEW r \in Runs, SelectRun(r) PROVE StreamInv'
  BY <1>3, SelectRunKeeps
<1>4. ASSUME NEW a \in Agents, SelectAgent(a) PROVE StreamInv'
  BY <1>4, SelectAgentKeeps
<1>5. CASE ServeDetail \/ DetailArrives \/ ResultsArrive \/ RequestFails
  BY <1>5, ServeDetailKeeps, DetailArrivesKeeps, ResultsArriveKeeps, RequestFailsKeeps
<1>6. ASSUME NEW s \in Streams,
             ReadBounds(s) \/ ReadRows(s) \/ Heartbeat(s) \/ PollAgain(s)
      PROVE  StreamInv'
  BY <1>6, ReadBoundsKeeps, ReadRowsKeeps, HeartbeatKeeps, PollAgainKeeps
<1>7. ASSUME NEW s \in Streams, DeliverFrame(s) \/ Disconnect(s) \/ Reconnect(s)
      PROVE  StreamInv'
  BY <1>7, DeliverFrameKeeps, DisconnectKeeps, ReconnectKeeps
<1>8. CASE UNCHANGED vars
  BY <1>8 DEF vars, StreamInv, LogOK, PageOK, ViewOK, Room, Followed, Busy
<1> QED
  BY <1>1, <1>2, <1>3, <1>4, <1>5, <1>6, <1>7, <1>8 DEF Next

-----------------------------------------------------------------------------
\* Every variable keeps values of its type: the log, the store, both ends of
\* each stream.
THEOREM StreamTypes == Spec => []StreamTypeOK
<1>1. StreamInv => StreamTypeOK
  BY DEF StreamInv, LogOK, Rows, PageOK, Pages, Handlers, StreamTypeOK
<1> QED
  BY <1>1, StreamInit, StreamNext, PTL DEF Spec

\* What the page shows belongs to the selected run and agent, and results to a
\* completed run.
THEOREM SelectionShown == Spec => []ShowsSelection
<1>1. StreamInv => ShowsSelection
  BY DEF StreamInv, PageOK, ViewOK, ShowsSelection
<1> QED
  BY <1>1, StreamInit, StreamNext, PTL DEF Spec

\* A page that shows a run has a stream, a timer or a request that connects.
THEOREM AlwaysSubscribed == Spec => []StaysSubscribed
<1>1. StreamInv => StaysSubscribed
  BY DEF StreamInv, Followed, StaysSubscribed
<1> QED
  BY <1>1, StreamInit, StreamNext, PTL DEF Spec

-----------------------------------------------------------------------------
(* The status shown never goes back.  A history gives each run, at each id, *)
(* how far the run had come when the log reached that id.  Statuses that   *)
(* are on their way to the page keep their place in it, although their rows *)
(* may be gone from the log.                                               *)

Histories == [Runs -> [Nat -> 0..3]]
Now(st) == IF st = "ABSENT" THEN 0 ELSE Rank[st]

\* The log, and the status of each run, are the history's newest entries.
LogTold(hist, st, lg) ==
  \A r \in Runs :
     /\ \A i, j \in Nat : i <= j => hist[r][i] <= hist[r][j]
     /\ \A i \in Nat : hist[r][i] <= Now(st[r])
     /\ Now(st[r]) <= hist[r][LatestId(lg[r])]
     /\ \A e \in lg[r] : hist[r][e.id] = Rank[e.status]

\* A frame on its way has the place of its id; the detail shown and an answer
\* are not ahead of theirs.
Told(past) == {f \in Frames : f.status # None => past[f.id] = Rank[f.status]}
HandlerTold(hist, h) == h.pc # "free" => h.frames \in Seq(Told(hist[h.run]))
AnswerTold(hist, q) ==
  q # None /\ q.phase # "sent" => Rank[q.answer.status] <= hist[q.run][q.answer.latest]
DetailTold(hist, p) ==
  p.detail # None => Rank[p.detail.status] <= hist[p.runId][p.lastEventId]
PageTold(hist, p) ==
  /\ \A s \in Streams : HandlerTold(hist, p.streams[s])
  /\ AnswerTold(hist, p.request) /\ DetailTold(hist, p)

\* An event that overtakes an answer aborts its request.
NotBehind(p, q) ==
  q # None /\ q.phase # "sent" /\ q.run = p.runId /\ p.detail # None =>
    Rank[p.detail.status] <= Rank[q.answer.status]

OrderOK(hist, p) == PageTold(hist, p) /\ NotBehind(p, p.request)
OrderInv ==
  /\ StreamInv
  /\ \E hist \in Histories : LogTold(hist, status, log) /\ OrderOK(hist, page)

\* Of the same run, the page q shows no less than p.
NoLess(p, q) ==
  q.runId = p.runId /\ p.detail # None /\ q.detail # None =>
    Rank[q.detail.status] >= Rank[p.detail.status]

LEMMA Ranks ==
  /\ Rank \in [Statuses -> 0..3]
  /\ Rank["COMPLETED"] = 3 /\ Rank["QUEUED"] = 0 /\ Rank["RUNNING"] = 1
  /\ Rank["CANCELLING"] = 2 /\ Rank["GENERATING_ARTIFACTS"] = 2
  /\ Rank["CANCELLED"] = 3 /\ Rank["FAILED_RECOVERABLE"] = 3
BY DEF Rank, Statuses

\* A run only goes on: each event of a transaction ranks no less than the one
\* before it and than the status the transaction needs.
LEMMA TransactionOrder ==
  ASSUME NEW t \in Transactions
  PROVE  /\ Last(t[2]) = t[2][Len(t[2])] /\ Now(t[1]) <= Rank[t[2][1]]
         /\ \A i, j \in 1..Len(t[2]) : i <= j => Rank[t[2][i]] <= Rank[t[2][j]]
<1> DEFINE Order(from, stats) ==
      /\ Last(stats) = stats[Len(stats)] /\ Now(from) <= Rank[stats[1]]
      /\ \A i, j \in 1..Len(stats) : i <= j => Rank[stats[i]] <= Rank[stats[j]]
<1>1. \A from \in Statuses \cup {"ABSENT"}, a \in Statuses :
        Now(from) <= Rank[a] => Order(from, <<a>>)
  BY Ranks DEF Last
<1>2. Order("RUNNING", <<"GENERATING_ARTIFACTS", "COMPLETED", "COMPLETED">>)
  BY Ranks DEF Last, Now
<1>3. /\ Now("ABSENT") <= Rank["QUEUED"] /\ Now("QUEUED") <= Rank["RUNNING"]
      /\ Now("QUEUED") <= Rank["CANCELLED"] /\ Now("RUNNING") <= Rank["CANCELLING"]
      /\ Now("RUNNING") <= Rank["FAILED_RECOVERABLE"] /\ Now("CANCELLING") <= Rank["CANCELLED"]
  BY Ranks DEF Now
<1> HIDE DEF Order
<1>4. Order(t[1], t[2])
  BY <1>1, <1>2, <1>3 DEF Transactions, Statuses
<1> QED
  BY <1>4 DEF Order

\* The history goes on with the events inserted; what was told stays told.
LEMMA HistoryGrows ==
  ASSUME StreamInv, NEW hist \in Histories, LogTold(hist, status, log), PageTold(hist, page),
         NEW r \in Runs, NEW stats \in Seq(Statuses), stats # <<>>, Insert(r, stats),
         status' = [status EXCEPT ![r] = stats[Len(stats)]],
         Now(status[r]) <= Rank[stats[1]],
         \A i, j \in 1..Len(stats) : i <= j => Rank[stats[i]] <= Rank[stats[j]],
         UNCHANGED page
  PROVE  \E next \in Histories : LogTold(next, status', log') /\ PageTold(next, page')
<1> DEFINE n == Len(stats)
           rows == Inserted(log[r], stats)
           old == hist[r]
           place(i) == IF i <= lastId + n THEN i - lastId ELSE n
           late == [i \in Nat |-> Rank[stats[place(i)]]]
           past == [i \in Nat |-> IF i <= lastId THEN old[i] ELSE late[i]]
           next == [hist EXCEPT ![r] = past]
<1>1. /\ lastId \in Nat /\ n \in Nat \ {0} /\ \A i \in 1..n : stats[i] \in Statuses
      /\ \A i \in Nat : i > lastId => place(i) \in 1..n
  BY StreamAssumption, EmptySeq, LenProperties, ElementOfSeq DEF StreamInv, LogOK
<1>2. /\ log[r] \in Rows(lastId) /\ log' = [log EXCEPT ![r] = rows]
      /\ LatestId(rows) = lastId + n /\ DOMAIN log = Runs
      /\ DOMAIN status = Runs
  BY <1>1, InsertedRows DEF StreamInv, LogOK, Insert
<1>3. \A i \in Nat : i > lastId => late[i] \in 0..3
  BY <1>1, Ranks
<1>4. \A i, j \in Nat : i > lastId /\ i <= j => late[i] <= late[j]
  BY <1>1
<1>5. \A i \in 1..n : lastId + i > lastId /\ late[lastId + i] = Rank[stats[i]]
  BY <1>1
<1>6. \A i \in Nat : i > lastId => Rank[stats[1]] <= late[i] /\ late[i] <= Rank[stats[n]]
  BY <1>1
<1> HIDE DEF place, late, n, rows
<1>7. /\ old \in [Nat -> 0..3] /\ \A i, j \in Nat : i <= j => old[i] <= old[j]
      /\ \A i \in Nat : old[i] <= Now(status[r])
      /\ \A e \in log[r] : old[e.id] = Rank[e.status]
  BY DEF Histories, LogTold
<1> HIDE DEF old
<1>8. /\ past \in [Nat -> 0..3]
      /\ \A i \in Nat : i <= lastId => past[i] = old[i]
      /\ \A i \in Nat : i > lastId => past[i] = late[i]
  BY <1>1, <1>3, <1>7
<1> HIDE DEF past
<1>9. /\ next \in [Runs -> [Nat -> 0..3]]
      /\ next[r] = past /\ hist[r] = old /\ \A x \in Runs : x # r => next[x] = hist[x]
  BY <1>8 DEF Histories, old
<1> HIDE DEF next
<1>10. Now(status'[r]) = Rank[stats[n]] /\ Rank[stats[1]] \in 0..3 /\ Rank[stats[n]] \in 0..3
  BY <1>1, <1>2, Ranks DEF Now, n, Statuses
<1>11. Now(status[r]) \in 0..3
  BY Ranks DEF StreamInv, LogOK, Now
<1>12. \A i \in Nat : old[i] \in 0..3 /\ past[i] \in 0..3 /\ old[i] <= Rank[stats[1]]
  <2>1. \A i \in Nat : old[i] \in 0..3 /\ past[i] \in 0..3 /\ old[i] <= Now(status[r])
    BY <1>7, <1>8
  <2> QED
    BY <2>1, <1>10, <1>11
<1>13. Rank[stats[1]] <= Rank[stats[n]]
  BY <1>1 DEF n
<1>14. \A i, j \in Nat : i <= j => past[i] <= past[j]
  <2> SUFFICES ASSUME NEW i \in Nat, NEW j \in Nat, i <= j PROVE past[i] <= past[j]
    OBVIOUS
  <2>1. CASE j <= lastId
    BY <2>1, <1>1, <1>7, <1>8
  <2>2. CASE i <= lastId /\ j > lastId
    <3>1. past[i] = old[i] /\ old[i] \in 0..3 /\ old[i] <= Rank[stats[1]]
      BY <2>2, <1>8, <1>12
    <3>2. past[j] = late[j] /\ late[j] \in 0..3 /\ Rank[stats[1]] <= late[j]
      BY <2>2, <1>3, <1>6, <1>8
    <3> QED
      BY <3>1, <3>2, <1>10
  <2>3. CASE i > lastId
    <3>1. i > lastId /\ j > lastId /\ past[i] = late[i] /\ past[j] = late[j]
      BY <2>3, <1>1, <1>7, <1>8
    <3> QED
      BY <3>1, <1>4
  <2>4. lastId \in Nat
    BY <1>1
  <2> QED
    BY <2>1, <2>2, <2>3, <2>4
<1>15. \A i \in Nat : old[i] <= past[i]
  <2> TAKE i \in Nat
  <2>1. CASE i <= lastId
    BY <2>1, <1>7, <1>8, <1>12
  <2>2. CASE i > lastId
    <3>1. past[i] = late[i] /\ late[i] \in 0..3 /\ Rank[stats[1]] <= late[i]
      BY <2>2, <1>3, <1>6, <1>8
    <3>2. old[i] \in 0..3 /\ old[i] <= Rank[stats[1]]
      BY <1>12
    <3> QED
      BY <3>1, <3>2, <1>10
  <2> QED
    BY <2>1, <2>2, <1>1
<1>16. \A x \in Runs : \A i \in Nat :
         hist[x][i] \in 0..3 /\ next[x][i] \in 0..3 /\ hist[x][i] <= next[x][i]
  <2> TAKE x \in Runs
  <2>1. CASE x = r
    BY <2>1, <1>9, <1>12, <1>15
  <2>2. CASE x # r
    BY <2>2, <1>9 DEF Histories
  <2> QED
    BY <2>1, <2>2
<1>17. \A i \in Nat : past[i] <= Rank[stats[n]]
  <2> TAKE i \in Nat
  <2>1. CASE i <= lastId
    BY <2>1, <1>7, <1>8, <1>10, <1>12, <1>13
  <2>2. CASE i > lastId
    BY <2>2, <1>6, <1>7, <1>8
  <2> QED
    BY <2>1, <2>2, <1>1
<1>18. Rank[stats[n]] <= past[lastId + n]
  <2>1. n \in 1..n /\ lastId + n \in Nat /\ lastId + n > lastId
    BY <1>1 DEF n
  <2> QED
    BY <2>1, <1>5, <1>7, <1>8, <1>10
<1>19. \A e \in rows : past[e.id] = Rank[e.status]
  <2> SUFFICES ASSUME NEW e \in rows PROVE past[e.id] = Rank[e.status]
    OBVIOUS
  <2>1. e \in log[r] \/ \E i \in DOMAIN stats : e = [id |-> lastId + i, status |-> stats[i]]
    BY DEF rows, Inserted, Retained
  <2>2. CASE e \in log[r]
    BY <2>2, <1>1, <1>2, <1>7, <1>8 DEF Rows
  <2>3. CASE e \notin log[r]
    <3>1. PICK i \in 1..n : e.id = lastId + i /\ e.status = stats[i]
      BY <2>1, <2>3, <1>1, LenProperties DEF n
    <3>2. lastId + i \in Nat /\ lastId + i > lastId /\ Rank[stats[i]] \in 0..3
      BY <1>1, Ranks DEF n
    <3>3. past[e.id] = Rank[e.status]
      BY <3>1, <3>2, <1>5, <1>8
    <3> QED
      BY <3>1, <3>2, <3>3
  <2> QED
    BY <2>2, <2>3
<1>20. LogTold(next, status', log')
  <2> SUFFICES ASSUME NEW x \in Runs
               PROVE  /\ \A i, j \in Nat : i <= j => next[x][i] <= next[x][j]
                      /\ \A i \in Nat : next[x][i] <= Now(status'[x])
                      /\ Now(status'[x]) <= next[x][LatestId(log'[x])]
                      /\ \A e \in log'[x] : next[x][e.id] = Rank[e.status]
    BY DEF LogTold
  <2>1. CASE x = r
    BY <2>1, <1>2, <1>9, <1>10, <1>14, <1>17, <1>18, <1>19
  <2>2. CASE x # r
    BY <2>2, <1>2, <1>9 DEF LogTold
  <2> QED
    BY <2>1, <2>2
<1>21. \A s \in Streams : HandlerTold(next, page.streams[s])
  <2> SUFFICES ASSUME NEW s \in Streams, page.streams[s].pc # "free",
                      page.streams[s].run = r
               PROVE  page.streams[s].frames \in Seq(Told(past))
    BY <1>9, TakenHandler DEF HandlerTold, PageTold
  <2> DEFINE frames == page.streams[s].frames
  <2>1. frames \in Seq(Told(hist[r])) /\ frames \in Seq(Sent(log[r]))
    BY TakenHandler DEF PageTold, HandlerTold
  <2>2. LatestId(log[r]) <= lastId /\ LatestId(log[r]) \in Nat
    BY <1>1, <1>2, LatestOfRows
  <2>3. \A f \in Frames : f \in Told(hist[r]) /\ f \in Sent(log[r]) => f \in Told(past)
    BY <1>1, <1>7, <1>8, <1>9, <2>2 DEF Told, Sent, Frames
  <2> HIDE DEF frames
  <2>4. /\ Len(frames) \in Nat /\ DOMAIN frames = 1..Len(frames)
        /\ frames = [i \in 1..Len(frames) |-> frames[i]]
        /\ \A i \in 1..Len(frames) : frames[i] \in Told(hist[r]) /\ frames[i] \in Sent(log[r])
    BY <2>1, LenProperties, ElementOfSeq
  <2>5. \A i \in 1..Len(frames) : frames[i] \in Told(past)
    BY <2>3, <2>4 DEF Sent
  <2>6. frames \in Seq(Told(past))
    BY <2>4, <2>5, IsASeq
  <2> QED
    BY <2>6 DEF frames
<1>22. AnswerTold(next, page.request)
  <2> SUFFICES ASSUME page.request # None, page.request.phase # "sent"
               PROVE  Rank[page.request.answer.status] <=
                        next[page.request.run][page.request.answer.latest]
    BY DEF AnswerTold
  <2>1. /\ page.request.run \in Runs /\ page.request.answer.latest \in Nat
        /\ Rank[page.request.answer.status] \in 0..3
    BY Ranks DEF StreamInv, PageOK, Pages, Requests, Answers
  <2>2. Rank[page.request.answer.status] <= hist[page.request.run][page.request.answer.latest]
    BY DEF PageTold, AnswerTold
  <2> DEFINE rank == Rank[page.request.answer.status]
             before == hist[page.request.run][page.request.answer.latest]
             after == next[page.request.run][page.request.answer.latest]
  <2>3. before \in 0..3 /\ after \in 0..3 /\ before <= after
    BY <2>1, <1>16
  <2>4. rank \in 0..3 /\ rank <= before
    BY <2>1, <2>2
  <2> HIDE DEF rank, before, after
  <2>5. rank <= after
    BY <2>3, <2>4
  <2> QED
    BY <2>5 DEF rank, after
<1>23. DetailTold(next, page)
  <2> SUFFICES ASSUME page.detail # None
               PROVE  Rank[page.detail.status] <= next[page.runId][page.lastEventId]
    BY DEF DetailTold
  <2>1. page.runId \in Runs /\ page.lastEventId \in Nat /\ Rank[page.detail.status] \in 0..3
    BY Ranks DEF StreamInv, PageOK, ViewOK, Pages
  <2>2. Rank[page.detail.status] <= hist[page.runId][page.lastEventId]
    BY DEF PageTold, DetailTold
  <2> DEFINE rank == Rank[page.detail.status]
             before == hist[page.runId][page.lastEventId]
             after == next[page.runId][page.lastEventId]
  <2>3. before \in 0..3 /\ after \in 0..3 /\ before <= after
    BY <2>1, <1>16
  <2>4. rank \in 0..3 /\ rank <= before
    BY <2>1, <2>2
  <2> HIDE DEF rank, before, after
  <2>5. rank <= after
    BY <2>3, <2>4
  <2> QED
    BY <2>5 DEF rank, after
<1> QED
  BY <1>9, <1>20, <1>21, <1>22, <1>23 DEF PageTold, Histories


\* Two pages that show the same.
SameView(p, q) ==
  /\ q.detail = p.detail /\ q.runId = p.runId /\ q.request = p.request
  /\ q.lastEventId = p.lastEventId

\* Putting a record whose frames are told into a slot.
LEMMA SlotTold ==
  ASSUME NEW hist, NEW p \in Pages, PageTold(hist, p), NEW s \in Streams,
         NEW h, HandlerTold(hist, h), NEW q, SameView(p, q), q.streams = [p.streams EXCEPT ![s] = h]
  PROVE  PageTold(hist, q)
<1>1. \A x \in Streams : HandlerTold(hist, q.streams[x])
  BY DEF Pages, PageTold
<1> QED
  BY <1>1 DEF PageTold, DetailTold, SameView

LEMMA ConnectTold ==
  ASSUME NEW st, NEW lg, NEW hist, NEW p, PageOK(p, st, lg), p.runId # None, PageTold(hist, p),
         Cardinality(Busy(p)) < Cardinality(Streams)
  PROVE  PageTold(hist, Connect(p)) /\ SameView(p, Connect(p))
<1> DEFINE s == CHOOSE x \in Streams : p.streams[x].pc = "free"
           h == Opened(p.runId, p.lastEventId)
<1>1. s \in Streams
  BY BusyIsFinite DEF Busy
<1>2. SameView(p, Connect(p)) /\ Connect(p).streams = [p.streams EXCEPT ![s] = h]
  BY DEF Connect, PageOK, Pages, SameView
<1>3. HandlerTold(hist, h) /\ p \in Pages
  BY EmptySeq DEF Opened, Free, HandlerTold, PageOK
<1> HIDE DEF s, h
<1> QED
  BY <1>1, <1>2, <1>3, SlotTold

LEMMA ContinuedTold ==
  ASSUME NEW st, NEW lg, NEW hist, NEW p, PageOK(p, st, lg), p.runId # None, PageTold(hist, p),
         NEW q \in Requests, Cardinality(Busy(p)) + Pending(q) <= Cardinality(Streams)
  PROVE  PageTold(hist, Continued(p, q)) /\ SameView(p, Continued(p, q))
<1>1. CASE q.thenConnect
  <2>1. Cardinality(Busy(p)) < Cardinality(Streams)
    BY <1>1, NullAssumption, BusyIsFinite DEF Pending
  <2> QED
    BY <1>1, <2>1, ConnectTold DEF Continued
<1>2. CASE ~q.thenConnect
  BY <1>2 DEF Continued, SameView
<1> QED
  BY <1>1, <1>2

\* An answer takes the place of what was shown.
LEMMA EmittedTold ==
  ASSUME NEW hist \in Histories, NEW p \in Pages, PageTold(hist, p),
         NEW q \in Requests, q.phase # "sent", AnswerTold(hist, q),
         \A r \in Runs : \A i, j \in Nat : i <= j => hist[r][i] <= hist[r][j],
         NEW results
  PROVE  LET e == Emitted(p, q, results)
         IN /\ PageTold(hist, e) /\ e.request = p.request /\ e.runId = p.runId
            /\ \/ e.detail = p.detail
               \/ q.run = p.runId /\ e.detail.status = q.answer.status
<1> DEFINE e == Emitted(p, q, results)
           id == MonotonicEventId(p.lastEventId, q.answer.latest)
           detail == [run |-> q.run, status |-> q.answer.status]
<1>1. CASE ~(q.run = p.runId /\ q.agent = p.agent)
  BY <1>1 DEF Emitted
<1>2. CASE q.run = p.runId /\ q.agent = p.agent
  <2>1. e = [p EXCEPT !.detail = detail, !.results = results, !.lastEventId = id]
    BY <1>2 DEF Emitted, Pages
  <2>2. /\ q.run \in Runs /\ q.answer.status \in Statuses /\ q.answer.latest \in Nat
        /\ p.lastEventId \in Nat /\ q # None
    BY NullAssumption DEF Requests, Answers, Pages
  <2>3. id \in Nat /\ id >= q.answer.latest
    <3>1. /\ {p.lastEventId, q.answer.latest} \in SUBSET Nat
          /\ \A x \in {p.lastEventId, q.answer.latest} : x <= p.lastEventId + q.answer.latest
          /\ p.lastEventId + q.answer.latest \in Nat
      BY <2>2
    <3> QED
      BY <3>1, MaxOfBounded DEF MonotonicEventId
  <2>4. detail.status = q.answer.status /\ detail \in [run : Runs, status : Statuses]
    BY <2>2
  <2> HIDE DEF id, detail
  <2>5. /\ e.streams = p.streams /\ e.request = p.request /\ e.runId = p.runId
        /\ e.detail = detail /\ e.lastEventId = id
    BY <2>1 DEF Pages
  <2> HIDE DEF e
  <2>6. Rank[detail.status] <= hist[p.runId][id]
    <3>1. Rank[q.answer.status] <= hist[p.runId][q.answer.latest]
      BY <1>2, <2>2 DEF AnswerTold
    <3>2. hist[p.runId][q.answer.latest] <= hist[p.runId][id]
      BY <1>2, <2>2, <2>3
    <3>3. /\ Rank[q.answer.status] \in 0..3
          /\ hist[p.runId][q.answer.latest] \in 0..3 /\ hist[p.runId][id] \in 0..3
      BY <1>2, <2>2, <2>3, Ranks DEF Histories
    <3> QED
      BY <2>4, <3>1, <3>2, <3>3
  <2>7. PageTold(hist, e)
    BY <2>5, <2>6 DEF PageTold, DetailTold
  <2> QED
    BY <1>2, <2>4, <2>5, <2>7 DEF e
<1> QED
  BY <1>1, <1>2

LEMMA RefreshTold ==
  ASSUME NEW st, NEW lg, NEW last, LogOK(st, lg, last), NEW p, PageOK(p, st, lg), Room(p),
         NEW hist \in Histories, LogTold(hist, st, lg), PageTold(hist, p),
         NEW connects \in BOOLEAN
  PROVE  LET q == Refresh(p, connects)
         IN /\ PageTold(hist, q) /\ q.runId = p.runId
            /\ q.runId # None => NotBehind(q, q.request)
            /\ q.detail = p.detail \/ q.detail.status = "COMPLETED"
<1> DEFINE new == [run |-> p.runId, agent |-> p.agent, phase |-> "sent", answer |-> None,
                   thenConnect |-> connects]
           sent == [p EXCEPT !.request = new]
           old == p.request
           shown == IF old.phase = "results" THEN Emitted(sent, old, None) ELSE sent
           q == Refresh(p, connects)
<1>1. CASE p.runId = None
  BY <1>1 DEF Refresh
<1>2. CASE p.runId # None
  <2>1. q = AfterAbort(sent, old)
    BY <1>2 DEF Refresh
  <2>2. new \in Requests /\ new # None /\ RequestOK(new, st, lg) /\ new.phase = "sent"
    BY <1>2, NullAssumption DEF Requests, RequestOK, PageOK, ViewOK, Pages
  <2> HIDE DEF new
  <2>3. /\ sent \in Pages /\ sent.request = new /\ sent.streams = p.streams
        /\ sent.runId = p.runId /\ sent.agent = p.agent /\ sent.detail = p.detail
        /\ sent.results = p.results /\ sent.lastEventId = p.lastEventId
    BY <2>2 DEF PageOK, Pages
  <2> HIDE DEF sent
  <2>4. PageOK(sent, st, lg) /\ PageTold(hist, sent)
    BY <1>2, <2>2, <2>3 DEF PageOK, ViewOK, PageTold, AnswerTold, DetailTold
  <2>5. Busy(sent) = Busy(p)
    BY <2>3 DEF Busy
  <2>6. CASE old = None
    BY <2>1, <2>2, <2>3, <2>4, <2>6 DEF AfterAbort, NotBehind
  <2>7. CASE old # None
    <3>1. q = Continued(shown, old)
      BY <2>1, <2>7 DEF AfterAbort
    <3>2. old \in Requests /\ RequestOK(old, st, lg) /\ AnswerTold(hist, old)
      BY <2>7 DEF PageOK, Pages, PageTold
    <3>3. /\ PageOK(shown, st, lg) /\ PageTold(hist, shown) /\ shown.streams = p.streams
          /\ shown.request = new /\ shown.runId = p.runId
          /\ shown.detail = p.detail \/ shown.detail.status = "COMPLETED"
      <4>1. CASE old.phase = "results"
        <5> DEFINE e == Emitted(sent, old, None)
        <5>1. old.phase # "sent" /\ old.answer.status = "COMPLETED"
          BY <4>1, <3>2 DEF RequestOK
        <5>2. /\ PageOK(e, st, lg) /\ e.streams = sent.streams
              /\ e.request = sent.request /\ e.runId = sent.runId
          BY <5>1, <3>2, <2>4, EmittedKeeps
        <5>3. \A r \in Runs : \A i, j \in Nat : i <= j => hist[r][i] <= hist[r][j]
          BY DEF LogTold
        <5>4. PageTold(hist, e) /\ (e.detail = sent.detail \/ e.detail.status = old.answer.status)
          BY <5>1, <5>3, <3>2, <2>3, <2>4, EmittedTold
        <5> HIDE DEF e
        <5> QED
          BY <4>1, <5>1, <5>2, <5>4, <2>3 DEF e
      <4>2. CASE old.phase # "results"
        BY <4>2, <2>3, <2>4
      <4> QED
        BY <4>1, <4>2
    <3> HIDE DEF shown
    <3>4. Busy(shown) = Busy(p)
      BY <3>3 DEF Busy
    <3>5. PageTold(hist, q) /\ SameView(shown, q)
      BY <1>2, <3>1, <3>2, <3>3, <3>4, ContinuedTold DEF Room
    <3> HIDE DEF q
    <3> QED
      BY <2>2, <3>3, <3>5 DEF SameView, NotBehind, q
  <2> QED
    BY <2>6, <2>7
<1> QED
  BY <1>1, <1>2

LEMMA SettledTold ==
  ASSUME NEW st, NEW lg, NEW last, LogOK(st, lg, last), NEW p, PageOK(p, st, lg), Room(p),
         NEW hist \in Histories, LogTold(hist, st, lg), OrderOK(hist, p), p.request # None,
         NEW q, NEW results,
         \/ q = Continued([p EXCEPT !.request = None], p.request)
         \/ /\ q = Settled(p, results) /\ p.request.phase # "sent"
            /\ results # None =>
                 /\ results = [run |-> p.request.run, agent |-> p.request.agent]
                 /\ p.request.answer.status = "COMPLETED"
  PROVE  OrderOK(hist, q) /\ NoLess(p, q)
<1> DEFINE over == [p EXCEPT !.request = None]
           old == p.request
<1>1. /\ over \in Pages /\ over.request = None /\ over.streams = p.streams
      /\ over.runId = p.runId /\ over.agent = p.agent /\ over.detail = p.detail
      /\ over.results = p.results /\ over.lastEventId = p.lastEventId
  BY DEF PageOK, Pages
<1>2. /\ old \in Requests /\ RequestOK(old, st, lg) /\ p.runId # None
      /\ AnswerTold(hist, old) /\ NotBehind(p, old)
  BY DEF PageOK, Pages, OrderOK, PageTold
<1>3. \/ q = Continued(over, old)
      \/ /\ q = Continued(Emitted(over, old, results), old)
         /\ old.phase # "sent"
         /\ results # None =>
              /\ results = [run |-> old.run, agent |-> old.agent]
              /\ old.answer.status = "COMPLETED"
  BY DEF Settled
<1> HIDE DEF over
<1>4. PageOK(over, st, lg) /\ PageTold(hist, over)
  BY <1>1 DEF PageOK, ViewOK, OrderOK, PageTold, AnswerTold, DetailTold
<1>5. PICK shown : /\ q = Continued(shown, old) /\ PageOK(shown, st, lg) /\ PageTold(hist, shown)
                   /\ shown.streams = p.streams /\ shown.request = None /\ shown.runId = p.runId
                   /\ \/ shown.detail = p.detail
                      \/ /\ old.phase # "sent" /\ old.run = p.runId
                         /\ shown.detail.status = old.answer.status
  <2>1. CASE q = Continued(over, old)
    BY <2>1, <1>1, <1>4
  <2>2. CASE q # Continued(over, old)
    <3> DEFINE e == Emitted(over, old, results)
    <3>1. /\ q = Continued(e, old) /\ old.phase # "sent"
          /\ results # None =>
               /\ results = [run |-> old.run, agent |-> old.agent]
               /\ old.answer.status = "COMPLETED"
      BY <2>2, <1>3
    <3>2. /\ PageOK(e, st, lg) /\ e.streams = over.streams
          /\ e.request = over.request /\ e.runId = over.runId
      BY <3>1, <1>2, <1>4, EmittedKeeps
    <3>3. \A r \in Runs : \A i, j \in Nat : i <= j => hist[r][i] <= hist[r][j]
      BY DEF LogTold
    <3>4. /\ PageTold(hist, e)
          /\ \/ e.detail = over.detail
             \/ old.run = over.runId /\ e.detail.status = old.answer.status
      BY <3>1, <3>3, <1>1, <1>2, <1>4, EmittedTold
    <3> HIDE DEF e
    <3> QED
      BY <3>1, <3>2, <3>4, <1>1
  <2> QED
    BY <2>1, <2>2
<1>6. Busy(shown) = Busy(p)
  BY <1>5 DEF Busy
<1>7. PageTold(hist, q) /\ SameView(shown, q)
  BY <1>2, <1>5, <1>6, ContinuedTold DEF Room
<1>8. p.detail # None => Rank[p.detail.status] \in 0..3
  BY Ranks DEF PageOK, Pages
<1>9. NoLess(p, q)
  BY <1>2, <1>5, <1>7, <1>8 DEF NoLess, NotBehind, SameView
<1> QED
  BY <1>5, <1>7, <1>9 DEF OrderOK, NotBehind, SameView

\* The steps of the page and of the handlers, under one history.
LEMMA SelectRunTold ==
  ASSUME StreamInv, NEW hist \in Histories, LogTold(hist, status, log), OrderOK(hist, page),
         NEW r \in Runs, SelectRun(r)
  PROVE  OrderOK(hist, page') /\ NoLess(page, page')
<1> DEFINE p == Selected(r)
<1>1. /\ PageOK(p, status, log) /\ p.runId = r /\ r # None /\ p.detail = None
      /\ p.request = page.request /\ Room(p) /\ page' = Refresh(p, TRUE)
      /\ \A s \in Streams : p.streams[s] \in {page.streams[s], Free}
  BY SelectedFits
<1> HIDE DEF p
<1>2. PageTold(hist, p)
  BY <1>1 DEF OrderOK, PageTold, DetailTold, HandlerTold, Free
<1>3. /\ PageTold(hist, page') /\ page'.runId = p.runId
      /\ page'.runId # None => NotBehind(page', page'.request)
      /\ page'.detail = p.detail \/ page'.detail.status = "COMPLETED"
  BY <1>1, <1>2, RefreshTold DEF StreamInv
<1>4. page.detail # None => Rank[page.detail.status] \in 0..3
  BY Ranks DEF StreamInv, PageOK, Pages
<1>5. page'.detail # None => Rank[page'.detail.status] = 3
  BY <1>1, <1>3, Ranks
<1>6. NoLess(page, page')
  BY <1>4, <1>5 DEF NoLess
<1> QED
  BY <1>1, <1>3, <1>6 DEF OrderOK

LEMMA SelectAgentTold ==
  ASSUME StreamInv, NEW hist \in Histories, LogTold(hist, status, log), OrderOK(hist, page),
         NEW a \in Agents, SelectAgent(a)
  PROVE  OrderOK(hist, page') /\ NoLess(page, page')
<1> DEFINE p == [page EXCEPT !.agent = a, !.results = None]
<1>1. page' = Refresh(p, FALSE)
  BY DEF SelectAgent
<1>2. /\ p \in Pages /\ p.streams = page.streams /\ SameView(page, p) /\ p.results = None
  BY DEF StreamInv, PageOK, Pages, SameView
<1> HIDE DEF p
<1>3. PageOK(p, status, log) /\ Room(p) /\ PageTold(hist, p)
  BY <1>2 DEF StreamInv, PageOK, ViewOK, Room, Busy, OrderOK, PageTold, DetailTold, SameView
<1>4. /\ PageTold(hist, page') /\ page'.runId = p.runId
      /\ page'.runId # None => NotBehind(page', page'.request)
      /\ page'.detail = p.detail \/ page'.detail.status = "COMPLETED"
  BY <1>1, <1>3, RefreshTold DEF StreamInv
<1>5. page.detail # None => Rank[page.detail.status] \in 0..3
  BY Ranks DEF StreamInv, PageOK, Pages
<1>6. NoLess(page, page')
  BY <1>2, <1>4, <1>5, Ranks DEF NoLess, SameView
<1>7. CASE page'.runId = None
  <2>1. page' = p
    BY <1>1, <1>4, <1>7 DEF Refresh
  <2> QED
    BY <1>2, <1>3, <1>6, <2>1 DEF OrderOK, SameView, NotBehind
<1>8. CASE page'.runId # None
  BY <1>4, <1>6, <1>8 DEF OrderOK
<1> QED
  BY <1>7, <1>8

\* The answer is the run as it is, so it is not behind what is shown.
LEMMA ServeDetailTold ==
  ASSUME StreamInv, NEW hist \in Histories, LogTold(hist, status, log), OrderOK(hist, page),
         ServeDetail
  PROVE  OrderOK(hist, page') /\ NoLess(page, page')
<1> DEFINE r == page.request.run
           answer == [status |-> status[r], latest |-> LatestId(log[r])]
           q == [page.request EXCEPT !.phase = "answered", !.answer = answer]
<1>1. /\ page.request # None /\ page.request \in Requests
      /\ RequestOK(page.request, status, log)
  BY DEF ServeDetail, StreamInv, PageOK, Pages
<1>2. r \in Runs /\ status[r] \in Statuses
  BY <1>1 DEF Requests, RequestOK, StreamInv, LogOK
<1>3. page' = [page EXCEPT !.request = q]
  BY DEF ServeDetail, StreamInv, PageOK, Pages
<1>4. answer.status = status[r] /\ answer.latest = LatestId(log[r])
  OBVIOUS
<1> HIDE DEF answer
<1>5. q.run = r /\ q.answer = answer /\ q.phase = "answered"
  BY <1>1 DEF Requests
<1> HIDE DEF q
<1>6. /\ page'.streams = page.streams /\ page'.request = q
      /\ page'.runId = page.runId /\ page'.detail = page.detail
      /\ page'.lastEventId = page.lastEventId
  BY <1>3 DEF StreamInv, PageOK, Pages
<1>7. Now(status[r]) = Rank[status[r]]
  BY <1>2 DEF Now, Statuses
<1>8. AnswerTold(hist, q)
  BY <1>2, <1>4, <1>5, <1>7 DEF AnswerTold, LogTold
<1>9. NotBehind(page, q)
  <2> SUFFICES ASSUME r = page.runId, page.detail # None
               PROVE  Rank[page.detail.status] <= Rank[status[r]]
    BY <1>4, <1>5 DEF NotBehind
  <2>1. /\ page.lastEventId \in Nat /\ Rank[page.detail.status] \in 0..3
        /\ Rank[status[r]] \in 0..3
    BY <1>2, Ranks DEF StreamInv, PageOK, Pages
  <2>2. Rank[page.detail.status] <= hist[r][page.lastEventId]
    BY DEF OrderOK, PageTold, DetailTold
  <2>3. hist[r][page.lastEventId] <= Rank[status[r]] /\ hist[r][page.lastEventId] \in 0..3
    BY <1>2, <1>7, <2>1 DEF LogTold, Histories
  <2> QED
    BY <2>1, <2>2, <2>3
<1>10. page.detail # None => Rank[page.detail.status] \in 0..3
  BY Ranks DEF StreamInv, PageOK, Pages
<1> QED
  BY <1>6, <1>8, <1>9, <1>10 DEF OrderOK, PageTold, DetailTold, NotBehind, NoLess

LEMMA DetailArrivesTold ==
  ASSUME StreamInv, NEW hist \in Histories, LogTold(hist, status, log), OrderOK(hist, page),
         DetailArrives
  PROVE  OrderOK(hist, page') /\ NoLess(page, page')
<1>1. /\ page.request # None /\ page.request \in Requests /\ page.request.phase = "answered"
  BY DEF DetailArrives, StreamInv, PageOK, Pages
<1>2. CASE page.request.answer.status = "COMPLETED"
  <2> DEFINE q == [page.request EXCEPT !.phase = "results"]
  <2>1. page' = [page EXCEPT !.request = q]
    BY <1>2 DEF DetailArrives, StreamInv, PageOK, Pages
  <2>2. q.run = page.request.run /\ q.answer = page.request.answer
    BY <1>1 DEF Requests
  <2> HIDE DEF q
  <2>3. /\ page'.streams = page.streams /\ page'.request = q
        /\ page'.runId = page.runId /\ page'.detail = page.detail
        /\ page'.lastEventId = page.lastEventId
    BY <2>1 DEF StreamInv, PageOK, Pages
  <2>4. page.detail # None => Rank[page.detail.status] \in 0..3
    BY Ranks DEF StreamInv, PageOK, Pages
  <2>5. page.request.phase # "sent"
    BY <1>1
  <2> QED
    BY <1>1, <2>2, <2>3, <2>4, <2>5
       DEF OrderOK, PageTold, AnswerTold, DetailTold, NotBehind, NoLess
<1>3. CASE page.request.answer.status # "COMPLETED"
  <2>1. page' = Settled(page, None) /\ page.request.phase # "sent"
    BY <1>1, <1>3 DEF DetailArrives
  <2> QED
    BY <1>1, <2>1, SettledTold DEF StreamInv
<1> QED
  BY <1>2, <1>3

LEMMA ResultsArriveTold ==
  ASSUME StreamInv, NEW hist \in Histories, LogTold(hist, status, log), OrderOK(hist, page),
         ResultsArrive
  PROVE  OrderOK(hist, page') /\ NoLess(page, page')
<1> DEFINE results == [run |-> page.request.run, agent |-> page.request.agent]
<1>1. /\ page.request # None /\ page.request.phase # "sent"
      /\ page.request.answer.status = "COMPLETED" /\ page' = Settled(page, results)
      /\ results = [run |-> page.request.run, agent |-> page.request.agent]
  BY DEF ResultsArrive, StreamInv, PageOK, RequestOK
<1> HIDE DEF results
<1>2. /\ LogOK(status, log, lastId) /\ PageOK(page, status, log) /\ Room(page)
  BY DEF StreamInv
<1>3. /\ page' = Settled(page, results) /\ page.request.phase # "sent"
      /\ results # None =>
           /\ results = [run |-> page.request.run, agent |-> page.request.agent]
           /\ page.request.answer.status = "COMPLETED"
  BY <1>1
<1> QED
  BY <1>1, <1>2, <1>3, SettledTold

LEMMA RequestFailsTold ==
  ASSUME StreamInv, NEW hist \in Histories, LogTold(hist, status, log), OrderOK(hist, page),
         RequestFails
  PROVE  OrderOK(hist, page') /\ NoLess(page, page')
<1>1. page.request # None
  BY DEF RequestFails
<1>2. CASE page.request.phase = "results"
  <2>1. page' = Settled(page, None) /\ page.request.phase # "sent"
    BY <1>2 DEF RequestFails
  <2> QED
    BY <1>1, <2>1, SettledTold DEF StreamInv
<1>3. CASE page.request.phase # "results"
  <2>1. page' = Continued([page EXCEPT !.request = None], page.request)
    BY <1>3 DEF RequestFails
  <2> QED
    BY <1>1, <2>1, SettledTold DEF StreamInv
<1> QED
  BY <1>2, <1>3


LEMMA HandlerStepTold ==
  ASSUME StreamInv, NEW hist, OrderOK(hist, page), NEW s \in Streams,
         NEW h, HandlerTold(hist, h), Handler(s, h)
  PROVE  OrderOK(hist, page') /\ NoLess(page, page')
<1>1. /\ page \in Pages /\ SameView(page, page')
      /\ page'.streams = [page.streams EXCEPT ![s] = h]
  BY DEF Handler, StreamInv, PageOK, Pages, SameView
<1>2. PageTold(hist, page')
  BY <1>1, SlotTold DEF OrderOK
<1>3. page.detail # None => Rank[page.detail.status] \in 0..3
  BY Ranks DEF StreamInv, PageOK, Pages
<1> QED
  BY <1>1, <1>2, <1>3 DEF OrderOK, NotBehind, NoLess, SameView

LEMMA FrameOfNoEventTold ==
  ASSUME NEW past, NEW type \in {"heartbeat", "stream.reset"}, NEW id \in Nat
  PROVE  [type |-> type, id |-> id, status |-> None] \in Told(past)
BY DEF Told, Frames

LEMMA ReadBoundsTold ==
  ASSUME StreamInv, NEW hist, OrderOK(hist, page), NEW s \in Streams, ReadBounds(s)
  PROVE  OrderOK(hist, page') /\ NoLess(page, page')
<1> DEFINE h == page.streams[s]
           latest == LatestId(log[h.run])
           frame == [type |-> "stream.reset", id |-> latest, status |-> None]
           frames == Append(h.frames, frame)
           reset == [h EXCEPT !.pc = "wait", !.latest = latest, !.lastID = latest,
                              !.frames = frames]
           going == [h EXCEPT !.pc = "rows", !.latest = latest]
<1>1. h.pc = "read"
  BY DEF ReadBounds
<1>2. /\ h \in Handlers /\ latest \in Nat /\ h.frames \in Seq(Told(hist[h.run]))
  BY <1>1, TakenHandler DEF OrderOK, PageTold, HandlerTold
<1>3. frame \in Told(hist[h.run])
  BY <1>2, FrameOfNoEventTold
<1>4. Handler(s, reset) \/ Handler(s, going)
  BY DEF ReadBounds
<1> HIDE DEF latest, frame
<1>5. frames \in Seq(Told(hist[h.run]))
  BY <1>2, <1>3, AppendProperties
<1> HIDE DEF frames
<1>6. reset.run = h.run /\ reset.frames = frames /\ going.run = h.run /\ going.frames = h.frames
  BY <1>2 DEF Handlers
<1> HIDE DEF reset, going
<1>7. HandlerTold(hist, reset) /\ HandlerTold(hist, going)
  BY <1>2, <1>5, <1>6 DEF HandlerTold
<1> QED
  BY <1>4, <1>7, HandlerStepTold

\* The rows a handler sends are told, whatever its cursor.
LEMMA ReadRowsTold ==
  ASSUME StreamInv, NEW hist, LogTold(hist, status, log), OrderOK(hist, page),
         NEW s \in Streams, ReadRows(s)
  PROVE  OrderOK(hist, page') /\ NoLess(page, page')
<1> DEFINE h == page.streams[s]
           rows == log[h.run]
           past == hist[h.run]
<1>1. h.pc = "rows"
  BY DEF ReadRows
<1>2. /\ h \in Handlers /\ h.run \in Runs /\ h.frames \in Seq(Told(past))
      /\ rows \in Rows(lastId) /\ lastId \in Nat /\ h.lastID \in Nat
  BY <1>1, TakenHandler DEF Handlers, OrderOK, PageTold, HandlerTold
<1>3. PICK events \in InIdOrder(EventsAfter(h.lastID, rows)) :
        Handler(s, [h EXCEPT !.pc = "wait",
                             !.lastID = IF events = <<>> THEN @ ELSE Last(events).id,
                             !.frames = @ \o [i \in DOMAIN events |-> EventFrame(events[i])]])
  BY DEF ReadRows
<1> DEFINE more == [i \in DOMAIN events |-> EventFrame(events[i])]
           cursor == IF events = <<>> THEN h.lastID ELSE Last(events).id
           frames == h.frames \o more
           upd == [h EXCEPT !.pc = "wait", !.lastID = cursor, !.frames = frames]
<1>4. Handler(s, upd)
  BY <1>3
<1>5. more \in Seq(Sent(rows))
  BY <1>2, RowsInOrder
<1>6. \A i \in DOMAIN events : events[i] \in rows
  BY DEF InIdOrder, EventsAfter
<1>7. \A e \in rows : EventFrame(e) \in Told(past)
  BY <1>2 DEF EventFrame, Told, Frames, Rows, Events, LogTold
<1>8. /\ Len(more) \in Nat /\ DOMAIN more = 1..Len(more)
      /\ \A i \in DOMAIN events : more[i] \in Told(past)
      /\ DOMAIN more = DOMAIN events
  BY <1>5, <1>6, <1>7, LenProperties
<1> HIDE DEF cursor
<1>9. more \in Seq(Told(past))
  <2>1. more = [i \in 1..Len(more) |-> more[i]]
    BY <1>8
  <2> HIDE DEF more
  <2> QED
    BY <1>8, <2>1, IsASeq
<1> HIDE DEF more
<1>10. frames \in Seq(Told(past))
  BY <1>2, <1>9, ConcatProperties
<1> HIDE DEF frames
<1>11. upd.run = h.run /\ upd.frames = frames
  BY <1>2 DEF Handlers
<1> HIDE DEF upd
<1>12. HandlerTold(hist, upd)
  BY <1>10, <1>11 DEF HandlerTold
<1> QED
  BY <1>4, <1>12, HandlerStepTold

LEMMA HeartbeatTold ==
  ASSUME StreamInv, NEW hist, OrderOK(hist, page), NEW s \in Streams, Heartbeat(s)
  PROVE  OrderOK(hist, page') /\ NoLess(page, page')
<1> DEFINE h == page.streams[s]
           frame == [type |-> "heartbeat", id |-> h.latest, status |-> None]
           frames == Append(h.frames, frame)
           upd == [h EXCEPT !.pc = "read", !.frames = frames]
<1>1. h.pc = "wait" /\ Handler(s, upd)
  BY DEF Heartbeat
<1>2. h \in Handlers /\ h.frames \in Seq(Told(hist[h.run])) /\ h.latest \in Nat
  BY <1>1, TakenHandler DEF Handlers, OrderOK, PageTold, HandlerTold
<1>3. frame \in Told(hist[h.run])
  BY <1>2, FrameOfNoEventTold
<1> HIDE DEF frame
<1>4. frames \in Seq(Told(hist[h.run]))
  BY <1>2, <1>3, AppendProperties
<1> HIDE DEF frames
<1>5. upd.run = h.run /\ upd.frames = frames
  BY <1>2 DEF Handlers
<1> HIDE DEF upd
<1>6. HandlerTold(hist, upd)
  BY <1>4, <1>5 DEF HandlerTold
<1> QED
  BY <1>1, <1>6, HandlerStepTold

LEMMA PollAgainTold ==
  ASSUME StreamInv, NEW hist, OrderOK(hist, page), NEW s \in Streams, PollAgain(s)
  PROVE  OrderOK(hist, page') /\ NoLess(page, page')
<1> DEFINE h == page.streams[s]
           upd == [h EXCEPT !.pc = "read"]
<1>1. h.pc = "wait" /\ Handler(s, upd)
  BY DEF PollAgain
<1>2. h \in Handlers /\ h.frames \in Seq(Told(hist[h.run]))
  BY <1>1, TakenHandler DEF OrderOK, PageTold, HandlerTold
<1>3. upd.run = h.run /\ upd.frames = h.frames
  BY <1>2 DEF Handlers
<1> HIDE DEF upd
<1>4. HandlerTold(hist, upd)
  BY <1>2, <1>3 DEF HandlerTold
<1> QED
  BY <1>1, <1>4, HandlerStepTold

\* An event newer than the cursor is not behind what is shown, and the answer
\* it overtakes is not shown any more, unless the run is completed.
LEMMA AppliedTold ==
  ASSUME StreamInv, NEW hist \in Histories, LogTold(hist, status, log),
         NEW p, PageOK(p, status, log), Room(p), Followed(p), p.runId # None, OrderOK(hist, p),
         NEW f \in Sent(log[p.runId]), f \in Told(hist[p.runId]), f.id > p.lastEventId
  PROVE  LET q == Applied(p, f)
         IN OrderOK(hist, q) /\ NoLess(p, q)
<1> DEFINE shown == Shown(p, f)
           q == Applied(p, f)
<1>1. /\ PageOK(shown, status, log) /\ Room(shown)
      /\ q = IF f.status # None THEN Refresh(shown, FALSE) ELSE shown
      /\ shown.streams = p.streams /\ shown.request = p.request /\ shown.runId = p.runId
      /\ shown.lastEventId = f.id
      /\ p.detail = None \/ f.status = None => shown.detail = p.detail
      /\ p.detail # None /\ f.status # None => shown.detail.status = f.status
  BY ShownFits
<1> HIDE DEF shown
<1>2. /\ p.runId \in Runs /\ p.lastEventId \in Nat /\ f.id \in Nat
      /\ f.status # None => f.status \in Statuses /\ Rank[f.status] \in 0..3
      /\ p.detail # None => Rank[p.detail.status] \in 0..3
  BY Ranks DEF PageOK, Pages, Sent, Frames
<1>3. /\ hist[p.runId][p.lastEventId] \in 0..3 /\ hist[p.runId][f.id] \in 0..3
      /\ hist[p.runId][p.lastEventId] <= hist[p.runId][f.id]
  BY <1>2 DEF Histories, LogTold
<1>4. p.detail # None => Rank[p.detail.status] <= hist[p.runId][p.lastEventId]
  BY DEF OrderOK, PageTold, DetailTold
<1>5. f.status # None => hist[p.runId][f.id] = Rank[f.status]
  BY DEF Told
<1>6. /\ p.detail # None => Rank[p.detail.status] <= hist[p.runId][f.id]
      /\ p.detail # None /\ f.status # None => Rank[p.detail.status] <= Rank[f.status]
  BY <1>2, <1>3, <1>4, <1>5
<1>7. DetailTold(hist, shown)
  <2>1. CASE p.detail = None \/ f.status = None
    BY <2>1, <1>1, <1>6 DEF DetailTold
  <2>2. CASE p.detail # None /\ f.status # None
    BY <2>2, <1>1, <1>2, <1>5 DEF DetailTold
  <2> QED
    BY <2>1, <2>2
<1>8. PageTold(hist, shown)
  BY <1>1, <1>7 DEF OrderOK, PageTold
<1>9. CASE f.status = None
  BY <1>1, <1>2, <1>8, <1>9 DEF OrderOK, NotBehind, NoLess
<1>10. CASE f.status # None
  <2>1. q = Refresh(shown, FALSE)
    BY <1>1, <1>10
  <2>2. LogOK(status, log, lastId) /\ PageOK(shown, status, log) /\ Room(shown)
    BY <1>1 DEF StreamInv
  <2> HIDE DEF q
  <2>3. /\ PageTold(hist, q) /\ q.runId = shown.runId
        /\ q.runId # None => NotBehind(q, q.request)
        /\ q.detail = shown.detail \/ q.detail.status = "COMPLETED"
    BY <2>1, <2>2, <1>8, RefreshTold
  <2>4. OrderOK(hist, q)
    BY <2>3, <1>1 DEF OrderOK
  <2>5. p.detail # None => Rank[q.detail.status] >= Rank[p.detail.status]
    <3>1. p.detail # None => Rank[p.detail.status] <= 3
      BY <1>2
    <3> QED
      BY <3>1, <2>3, <1>1, <1>2, <1>6, <1>10, Ranks
  <2> QED
    BY <2>4, <2>5 DEF NoLess, q
<1> QED
  BY <1>9, <1>10

LEMMA DeliverFrameTold ==
  ASSUME StreamInv, NEW hist \in Histories, LogTold(hist, status, log), OrderOK(hist, page),
         NEW s \in Streams, DeliverFrame(s)
  PROVE  OrderOK(hist, page') /\ NoLess(page, page')
<1> DEFINE h == page.streams[s]
           rest == [h EXCEPT !.frames = Tail(h.frames)]
           p == Taken(s)
           f == Head(h.frames)
<1>1. /\ h.pc # "free" /\ h.frames # <<>> /\ h.run \in Runs /\ h.run # None
      /\ f \in Sent(log[h.run]) /\ page' = OnEvent(p, h.run, f)
      /\ PageOK(p, status, log) /\ Room(p) /\ Followed(p)
      /\ p.streams = [page.streams EXCEPT ![s] = rest]
      /\ rest.pc = h.pc /\ rest.run = h.run /\ rest.frames = Tail(h.frames)
      /\ p = [page EXCEPT !.streams[s] = rest]
  BY TakenFits
<1>2. h.frames \in Seq(Told(hist[h.run]))
  BY <1>1 DEF OrderOK, PageTold, HandlerTold
<1>3. f \in Told(hist[h.run]) /\ Tail(h.frames) \in Seq(Told(hist[h.run]))
  BY <1>1, <1>2, HeadTailProperties
<1>4. page \in Pages /\ SameView(page, p)
  BY <1>1 DEF SameView, StreamInv, PageOK, Pages
<1> HIDE DEF f, p, rest
<1>5. HandlerTold(hist, rest)
  BY <1>1, <1>3 DEF HandlerTold
<1>6. PageTold(hist, p)
  BY <1>1, <1>4, <1>5, SlotTold DEF OrderOK
<1>7. OrderOK(hist, p)
  BY <1>4, <1>6 DEF OrderOK, NotBehind, SameView
<1>8. page.detail # None => Rank[page.detail.status] \in 0..3
  BY Ranks DEF StreamInv, PageOK, Pages
<1>9. CASE page' = p
  BY <1>4, <1>7, <1>8, <1>9 DEF NoLess, SameView
<1>10. CASE h.run = p.runId /\ page' = Refresh(p, FALSE)
  <2>1. /\ PageTold(hist, page') /\ page'.runId = p.runId
        /\ page'.runId # None => NotBehind(page', page'.request)
        /\ page'.detail = p.detail \/ page'.detail.status = "COMPLETED"
    <3>1. page' = Refresh(p, FALSE) /\ PageOK(p, status, log) /\ Room(p)
      BY <1>1, <1>10
    <3> QED
      BY <3>1, <1>6, RefreshTold DEF StreamInv
  <2>2. OrderOK(hist, page')
    BY <1>1, <1>10, <2>1 DEF OrderOK
  <2>3. NoLess(page, page')
    BY <1>4, <1>8, <2>1, Ranks DEF NoLess, SameView
  <2> QED
    BY <2>2, <2>3
<1>11. CASE h.run = p.runId /\ IsNewerEventId(p.lastEventId, f.id) /\ page' = Applied(p, f)
  <2>1. f.id > p.lastEventId /\ f \in Sent(log[p.runId]) /\ f \in Told(hist[p.runId])
        /\ p.runId # None
    BY <1>1, <1>3, <1>11 DEF IsNewerEventId
  <2>2. PageOK(p, status, log) /\ Room(p) /\ Followed(p)
    BY <1>1
  <2>3. OrderOK(hist, page') /\ NoLess(p, page')
    BY <1>7, <1>11, <2>1, <2>2, AppliedTold
  <2> QED
    BY <1>4, <2>3 DEF NoLess, SameView
<1> QED
  BY <1>1, <1>9, <1>10, <1>11 DEF OnEvent

LEMMA DisconnectTold ==
  ASSUME StreamInv, NEW hist, OrderOK(hist, page), NEW s \in Streams, Disconnect(s)
  PROVE  OrderOK(hist, page') /\ NoLess(page, page')
<1> DEFINE r == page.streams[s].run
           h == IF r = page.runId THEN Lost(r) ELSE Free
<1>1. /\ page \in Pages /\ SameView(page, page')
      /\ page'.streams = [page.streams EXCEPT ![s] = h]
  BY DEF Disconnect, StreamInv, PageOK, Pages, SameView
<1>2. HandlerTold(hist, h)
  BY EmptySeq DEF Lost, Free, HandlerTold
<1> HIDE DEF h
<1>3. PageTold(hist, page')
  BY <1>1, <1>2, SlotTold DEF OrderOK
<1>4. page.detail # None => Rank[page.detail.status] \in 0..3
  BY Ranks DEF StreamInv, PageOK, Pages
<1> QED
  BY <1>1, <1>3, <1>4 DEF OrderOK, NotBehind, NoLess, SameView

LEMMA ReconnectTold ==
  ASSUME StreamInv, NEW hist \in Histories, LogTold(hist, status, log), OrderOK(hist, page),
         NEW s \in Streams, Reconnect(s)
  PROVE  OrderOK(hist, page') /\ NoLess(page, page')
<1> DEFINE r == page.streams[s].run
           p == Fired(s)
<1>1. /\ r # None /\ page' = IF r = page.runId THEN Refresh(p, TRUE) ELSE p
      /\ PageOK(p, status, log) /\ p.streams = [page.streams EXCEPT ![s] = Free]
      /\ SameView(page, p) /\ Room(p)
  BY FiredFits DEF SameView
<1> HIDE DEF p
<1>2. HandlerTold(hist, Free) /\ page \in Pages
  BY DEF HandlerTold, Free, StreamInv, PageOK
<1>3. PageTold(hist, p)
  BY <1>1, <1>2, SlotTold DEF OrderOK
<1>4. page.detail # None => Rank[page.detail.status] \in 0..3
  BY Ranks DEF StreamInv, PageOK, Pages
<1>5. CASE r = page.runId
  <2>1. /\ PageTold(hist, page') /\ page'.runId = p.runId
        /\ page'.runId # None => NotBehind(page', page'.request)
        /\ page'.detail = p.detail \/ page'.detail.status = "COMPLETED"
    <3>1. page' = Refresh(p, TRUE) /\ PageOK(p, status, log) /\ Room(p)
      BY <1>1, <1>5
    <3> QED
      BY <3>1, <1>3, RefreshTold DEF StreamInv
  <2>2. SameView(page, p) /\ p.runId # None
    BY <1>1, <1>5 DEF SameView
  <2>3. OrderOK(hist, page')
    BY <2>1, <2>2 DEF OrderOK
  <2>4. NoLess(page, page')
    BY <1>4, <2>1, <2>2, Ranks DEF NoLess, SameView
  <2> QED
    BY <2>3, <2>4
<1>6. CASE r # page.runId
  BY <1>1, <1>3, <1>4, <1>6 DEF OrderOK, NotBehind, NoLess, SameView
<1> QED
  BY <1>5, <1>6

LEMMA OrderInit == Init => OrderInv
<1> SUFFICES ASSUME Init PROVE OrderInv
  OBVIOUS
<1> DEFINE hist == [r \in Runs |-> [i \in Nat |-> 0]]
<1>1. hist \in Histories
  BY DEF Histories
<1>2. LogTold(hist, status, log)
  BY DEF Init, LogTold, Now, LatestId
<1>3. OrderOK(hist, page)
  BY DEF Init, OrderOK, PageTold, HandlerTold, AnswerTold, DetailTold, NotBehind, Free
<1> HIDE DEF hist
<1> QED
  BY <1>1, <1>2, <1>3, StreamInit DEF OrderInv

LEMMA OrderNext == OrderInv /\ [Next]_vars => OrderInv' /\ NoLess(page, page')
<1> SUFFICES ASSUME OrderInv, [Next]_vars PROVE OrderInv' /\ NoLess(page, page')
  OBVIOUS
<1>1. StreamInv /\ StreamInv'
  BY StreamNext DEF OrderInv
<1>2. PICK hist \in Histories : LogTold(hist, status, log) /\ OrderOK(hist, page)
  BY DEF OrderInv
<1>3. page.detail # None => Rank[page.detail.status] \in 0..3
  BY <1>1, Ranks DEF StreamInv, PageOK, Pages
<1>4. ASSUME UNCHANGED <<status, log>>, OrderOK(hist, page') /\ NoLess(page, page')
      PROVE  OrderInv' /\ NoLess(page, page')
  <2>1. LogTold(hist, status', log')
    BY <1>2, <1>4
  <2> QED
    BY <1>1, <1>2, <1>4, <2>1 DEF OrderInv, OrderOK, PageTold, NotBehind, DetailTold, AnswerTold, HandlerTold
<1>5. ASSUME NEW r \in Runs, NEW stats \in Seq(Statuses), stats # <<>>, Insert(r, stats),
             status' = [status EXCEPT ![r] = stats[Len(stats)]],
             Now(status[r]) <= Rank[stats[1]],
             \A i, j \in 1..Len(stats) : i <= j => Rank[stats[i]] <= Rank[stats[j]],
             UNCHANGED page
      PROVE  OrderInv' /\ NoLess(page, page')
  <2>1. PICK next \in Histories : LogTold(next, status', log') /\ PageTold(next, page')
    BY <1>1, <1>2, <1>5, HistoryGrows DEF OrderOK
  <2> QED
    BY <1>1, <1>2, <1>3, <1>5, <2>1
       DEF OrderInv, OrderOK, NoLess, PageTold, NotBehind, DetailTold, AnswerTold, HandlerTold
<1>6. ASSUME NEW r \in Runs, Advance(r) PROVE OrderInv' /\ NoLess(page, page')
  <2>1. PICK t \in Transactions :
          /\ status[r] = t[1] /\ status' = [status EXCEPT ![r] = Last(t[2])]
          /\ Insert(r, t[2]) /\ UNCHANGED <<page, failures>>
    BY <1>6 DEF Advance
  <2>2. t[2] \in Seq(Statuses) /\ t[2] # <<>>
    BY TransactionTypes
  <2>3. /\ Last(t[2]) = t[2][Len(t[2])] /\ Now(t[1]) <= Rank[t[2][1]]
        /\ \A i, j \in 1..Len(t[2]) : i <= j => Rank[t[2][i]] <= Rank[t[2][j]]
    BY TransactionOrder
  <2> QED
    BY <2>1, <2>2, <2>3, <1>5
<1>7. ASSUME NEW r \in Runs, Notice(r) PROVE OrderInv' /\ NoLess(page, page')
  <2> DEFINE stats == <<status[r]>>
  <2>1. /\ status[r] \in Statuses /\ Insert(r, stats) /\ UNCHANGED <<status, page>>
    BY <1>7 DEF Notice, Statuses
  <2>2. /\ stats \in Seq(Statuses) /\ stats # <<>> /\ Len(stats) = 1 /\ stats[1] = status[r]
    BY <2>1
  <2>3. status' = [status EXCEPT ![r] = stats[1]]
    BY <2>1, <2>2, <1>1 DEF StreamInv, LogOK
  <2> HIDE DEF stats
  <2>4. Now(status[r]) <= Rank[stats[1]] /\ Rank[stats[1]] \in 0..3
    BY <2>1, <2>2, Ranks DEF Now, Statuses
  <2>5. \A i, j \in 1..Len(stats) : i <= j => Rank[stats[i]] <= Rank[stats[j]]
    BY <2>2, <2>4
  <2> QED
    BY <2>1, <2>2, <2>3, <2>4, <2>5, <1>5
<1>8. ASSUME NEW r \in Runs, SelectRun(r) PROVE OrderInv' /\ NoLess(page, page')
  BY <1>1, <1>2, <1>4, <1>8, SelectRunTold DEF SelectRun
<1>9. ASSUME NEW a \in Agents, SelectAgent(a) PROVE OrderInv' /\ NoLess(page, page')
  BY <1>1, <1>2, <1>4, <1>9, SelectAgentTold DEF SelectAgent
<1>10. CASE ServeDetail
  BY <1>1, <1>2, <1>4, <1>10, ServeDetailTold DEF ServeDetail
<1>11. CASE DetailArrives
  BY <1>1, <1>2, <1>4, <1>11, DetailArrivesTold DEF DetailArrives
<1>12. CASE ResultsArrive
  BY <1>1, <1>2, <1>4, <1>12, ResultsArriveTold DEF ResultsArrive
<1>13. CASE RequestFails
  BY <1>1, <1>2, <1>4, <1>13, RequestFailsTold DEF RequestFails
<1>14. ASSUME NEW s \in Streams,
              ReadBounds(s) \/ ReadRows(s) \/ Heartbeat(s) \/ PollAgain(s)
       PROVE  OrderInv' /\ NoLess(page, page')
  <2>1. OrderOK(hist, page') /\ NoLess(page, page')
    BY <1>1, <1>2, <1>14, ReadBoundsTold, ReadRowsTold, HeartbeatTold, PollAgainTold
  <2>2. UNCHANGED <<status, log>>
    BY <1>14 DEF ReadBounds, ReadRows, Heartbeat, PollAgain, Handler
  <2> QED
    BY <2>1, <2>2, <1>4
<1>15. ASSUME NEW s \in Streams, DeliverFrame(s) \/ Disconnect(s) \/ Reconnect(s)
       PROVE  OrderInv' /\ NoLess(page, page')
  <2>1. OrderOK(hist, page') /\ NoLess(page, page')
    BY <1>1, <1>2, <1>15, DeliverFrameTold, DisconnectTold, ReconnectTold
  <2>2. UNCHANGED <<status, log>>
    BY <1>15 DEF DeliverFrame, Disconnect, Reconnect
  <2> QED
    BY <2>1, <2>2, <1>4
<1>16. CASE UNCHANGED vars
  <2>1. UNCHANGED <<status, log>> /\ page' = page
    BY <1>16 DEF vars
  <2> QED
    BY <2>1, <1>2, <1>3, <1>4 DEF NoLess
<1> QED
  BY <1>6, <1>7, <1>8, <1>9, <1>10, <1>11, <1>12, <1>13, <1>14, <1>15, <1>16 DEF Next

-----------------------------------------------------------------------------
\* The status shown for a run never goes back, whatever answers and events of it
\* overtake each other.
THEOREM ShownOnlyAdvances == Spec => ShownNeverRegresses
<1>1. OrderInv /\ [Next]_vars =>
        [page'.runId = page.runId /\ page.detail # None /\ page'.detail # None
           => Rank[page'.detail.status] >= Rank[page.detail.status]]_vars
  BY OrderNext DEF NoLess
<1> QED
  BY <1>1, OrderInit, OrderNext, PTL DEF Spec, ShownNeverRegresses

-----------------------------------------------------------------------------
(* A page with nothing left to read shows the run as it is, as long as     *)
(* what a handler has still to send fits one page of rows.  What matters   *)
(* is how far the page has come: its cursor, and the answer it waits for.  *)

Backlog(h) == {e \in log[h.run] : e.id > h.lastID}
BacklogFits ==
  \A s \in Streams :
    page.streams[s].pc = "rows" => Cardinality(Backlog(page.streams[s])) <= PageLimit

\* The page is, or its request will bring it, at n.
Knows(p, n) ==
  \/ p.lastEventId >= n
  \/ /\ p.request # None
     /\ p.request.phase = "sent" \/ p.request.answer.latest >= n

\* One of the first k frames will bring it there: a heartbeat does not count,
\* as it brings nothing to show.
Covered(p, frames, n, k) ==
  Knows(p, n) \/ \E j \in 1..k : frames[j].type # "heartbeat" /\ frames[j].id >= n

\* Nothing runs ahead of the log, nor a handler's heartbeat ahead of its rows.
Written(rows) == {f \in Frames : f.id <= LatestId(rows) /\ (f.type = "event" => f.status # None)}
StreamWithin(h, lg) ==
  h.pc # "free" =>
    /\ h.lastID <= LatestId(lg[h.run]) /\ h.latest <= LatestId(lg[h.run])
    /\ h.frames \in Seq(Written(lg[h.run]))
    /\ h.pc = "wait" => h.latest <= h.lastID
AnswerWithin(q, lg) == q.answer.latest <= LatestId(lg[q.run])
Within(p, lg) ==
  /\ p.runId # None => p.lastEventId <= LatestId(lg[p.runId])
  /\ \A s \in Streams : StreamWithin(p.streams[s], lg)
  /\ p.request # None /\ p.request.phase # "sent" => AnswerWithin(p.request, lg)

\* What a stream of the run has passed reaches the page, and does so before the
\* heartbeats that claim it.
Leads(p, h) ==
  h.pc # "free" /\ h.run = p.runId =>
    /\ Covered(p, h.frames, h.lastID, Len(h.frames))
    /\ \A i \in 1..Len(h.frames) : h.frames[i].type = "heartbeat" =>
         Covered(p, h.frames, h.frames[i].id, i - 1)

\* An answer, or what is shown while there is no request, is right unless the
\* log has gone on.
Answered(p, st, lg) ==
  p.request # None =>
    /\ p.request.run = p.runId /\ p.request.agent = p.agent
    /\ p.request.phase # "sent" =>
         /\ p.lastEventId <= p.request.answer.latest
         /\ p.request.answer.latest >= LatestId(lg[p.runId]) =>
              p.request.answer.status = st[p.runId]
Displayed(p, st, lg) ==
  p.request = None /\ p.runId # None =>
    /\ p.detail # None
    /\ p.lastEventId >= LatestId(lg[p.runId]) => p.detail.status = st[p.runId]
    /\ p.detail.status = "COMPLETED" => p.results # None
Follows(p, st, lg) ==
  /\ Answered(p, st, lg) /\ Displayed(p, st, lg)
  /\ \A s \in Streams : Leads(p, p.streams[s])

QuietInv ==
  /\ StreamInv /\ Within(page, log)
  /\ failures = 0 => Follows(page, status, log)

\* A request that was sent will bring the page anywhere.
LEMMA SentFollows ==
  ASSUME NEW p, NEW st, NEW lg, p.request # None, p.request.phase = "sent",
         p.request.run = p.runId, p.request.agent = p.agent
  PROVE  Follows(p, st, lg)
BY DEF Follows, Answered, Displayed, Leads, Covered, Knows

\* The rest of the page, when a slot changes.
SamePage(p, q) ==
  SameView(p, q) /\ q.agent = p.agent /\ q.results = p.results

LEMMA SlotWithin ==
  ASSUME NEW lg, NEW p \in Pages, Within(p, lg), NEW s \in Streams,
         NEW h, StreamWithin(h, lg), NEW q, SameView(p, q), q.streams = [p.streams EXCEPT ![s] = h]
  PROVE  Within(q, lg)
<1>1. \A x \in Streams : StreamWithin(q.streams[x], lg)
  BY DEF Pages, Within
<1> QED
  BY <1>1 DEF Within, SameView

LEMMA SlotFollows ==
  ASSUME NEW st, NEW lg, NEW p \in Pages, Follows(p, st, lg), NEW s \in Streams,
         NEW h, Leads(p, h), NEW q, SamePage(p, q), q.streams = [p.streams EXCEPT ![s] = h]
  PROVE  Follows(q, st, lg)
<1>1. \A x \in Streams : Leads(p, q.streams[x])
  BY DEF Pages, Follows
<1>2. \A x \in Streams : Leads(q, q.streams[x])
  BY <1>1 DEF Leads, Covered, Knows, SamePage, SameView
<1>3. Answered(q, st, lg) /\ Displayed(q, st, lg)
  BY DEF Follows, Answered, Displayed, SamePage, SameView
<1> QED
  BY <1>2, <1>3 DEF Follows

LEMMA LatestIsId ==
  ASSUME NEW st, NEW lg, NEW last, LogOK(st, lg, last), NEW r \in Runs
  PROVE  /\ LatestId(lg[r]) \in Nat /\ LatestId(lg[r]) <= last /\ last \in Nat
         /\ lg[r] \in Rows(last)
<1>1. last \in Nat /\ lg[r] \in Rows(last)
  BY StreamAssumption DEF LogOK
<1> QED
  BY <1>1, LatestOfRows

\* A stream that opens starts at the page's own cursor.
LEMMA OpenedLeads ==
  ASSUME NEW lg, NEW p \in Pages, Within(p, lg), p.runId # None,
         LatestId(lg[p.runId]) \in Nat
  PROVE  /\ StreamWithin(Opened(p.runId, p.lastEventId), lg)
         /\ Leads(p, Opened(p.runId, p.lastEventId))
<1> DEFINE h == Opened(p.runId, p.lastEventId)
<1>1. /\ h.pc = "read" /\ h.run = p.runId /\ h.lastID = p.lastEventId /\ h.latest = 0
      /\ h.frames = <<>>
  BY DEF Opened, Free
<1>2. p.lastEventId \in Nat /\ p.lastEventId <= LatestId(lg[p.runId])
  BY DEF Pages, Within
<1> HIDE DEF h
<1>3. StreamWithin(h, lg)
  <2>1. h.latest <= LatestId(lg[p.runId])
    BY <1>1, <1>2
  <2>2. h.frames \in Seq(Written(lg[h.run]))
    BY <1>1, EmptySeq
  <2> QED
    BY <1>1, <1>2, <2>1, <2>2 DEF StreamWithin
<1>4. Leads(p, h)
  <2>1. Knows(p, h.lastID)
    BY <1>1, <1>2 DEF Knows
  <2>2. Len(h.frames) = 0
    BY <1>1, EmptySeq
  <2> QED
    BY <2>1, <2>2 DEF Leads, Covered
<1> QED
  BY <1>3, <1>4 DEF h

LEMMA ConnectFollows ==
  ASSUME NEW st, NEW lg, NEW p, PageOK(p, st, lg), p.runId # None, Within(p, lg),
         LatestId(lg[p.runId]) \in Nat, Cardinality(Busy(p)) < Cardinality(Streams)
  PROVE  /\ Within(Connect(p), lg)
         /\ Follows(p, st, lg) => Follows(Connect(p), st, lg)
<1> DEFINE s == CHOOSE x \in Streams : p.streams[x].pc = "free"
           h == Opened(p.runId, p.lastEventId)
<1>1. s \in Streams /\ p \in Pages
  BY BusyIsFinite DEF Busy, PageOK
<1>2. SamePage(p, Connect(p)) /\ Connect(p).streams = [p.streams EXCEPT ![s] = h]
  BY DEF Connect, PageOK, Pages, SamePage, SameView
<1>3. StreamWithin(h, lg) /\ Leads(p, h)
  BY <1>1, OpenedLeads
<1> HIDE DEF s, h
<1> QED
  BY <1>1, <1>2, <1>3, SlotWithin, SlotFollows DEF SamePage

LEMMA ContinuedFollows ==
  ASSUME NEW st, NEW lg, NEW p, PageOK(p, st, lg), p.runId # None, Within(p, lg),
         LatestId(lg[p.runId]) \in Nat,
         NEW q \in Requests, Cardinality(Busy(p)) + Pending(q) <= Cardinality(Streams)
  PROVE  /\ Within(Continued(p, q), lg)
         /\ Follows(p, st, lg) => Follows(Continued(p, q), st, lg)
<1>1. CASE q.thenConnect
  <2>1. Cardinality(Busy(p)) < Cardinality(Streams)
    BY <1>1, NullAssumption, BusyIsFinite DEF Pending
  <2> QED
    BY <1>1, <2>1, ConnectFollows DEF Continued
<1>2. CASE ~q.thenConnect
  BY <1>2 DEF Continued
<1> QED
  BY <1>1, <1>2

LEMMA LaterId ==
  ASSUME NEW a \in Nat, NEW b \in Nat
  PROVE  /\ MonotonicEventId(a, b) = a \/ MonotonicEventId(a, b) = b
         /\ MonotonicEventId(a, b) >= a /\ MonotonicEventId(a, b) >= b
<1>1. {a, b} \in SUBSET Nat /\ a + b \in Nat /\ \A x \in {a, b} : x <= a + b
  OBVIOUS
<1>2. MonotonicEventId(a, b) \in {a, b} /\ \A x \in {a, b} : x <= MonotonicEventId(a, b)
  BY <1>1, MaxOfBounded DEF MonotonicEventId
<1> QED
  BY <1>2

\* An answer that is shown takes the cursor to where it was read, if it is not there.
LEMMA EmittedShown ==
  ASSUME NEW p \in Pages, NEW q \in Requests, NEW results
  PROVE  LET e == Emitted(p, q, results)
         IN /\ e.streams = p.streams /\ e.request = p.request /\ e.runId = p.runId
            /\ e.agent = p.agent
            /\ q.run = p.runId /\ q.agent = p.agent =>
                 /\ e.detail = [run |-> q.run, status |-> q.answer.status]
                 /\ e.results = results
                 /\ e.lastEventId = MonotonicEventId(p.lastEventId, q.answer.latest)
BY DEF Emitted, Pages

LEMMA EmittedWithin ==
  ASSUME NEW lg, NEW p \in Pages, Within(p, lg), NEW q \in Requests, q.phase # "sent",
         AnswerWithin(q, lg), NEW results
  PROVE  Within(Emitted(p, q, results), lg)
<1> DEFINE e == Emitted(p, q, results)
<1>1. CASE ~(q.run = p.runId /\ q.agent = p.agent)
  BY <1>1 DEF Emitted
<1>2. CASE q.run = p.runId /\ q.agent = p.agent
  <2>1. /\ e.streams = p.streams /\ e.request = p.request /\ e.runId = p.runId
        /\ e.lastEventId = MonotonicEventId(p.lastEventId, q.answer.latest)
    BY <1>2 DEF Emitted, Pages
  <2>2. p.lastEventId \in Nat /\ q.answer.latest \in Nat
    BY DEF Pages, Requests, Answers
  <2> HIDE DEF e
  <2>3. e.lastEventId = p.lastEventId \/ e.lastEventId = q.answer.latest
    BY <2>1, <2>2, LaterId
  <2> QED
    BY <1>2, <2>1, <2>3 DEF Within, AnswerWithin, e
<1> QED
  BY <1>1, <1>2

\* refresh(): whatever was known before, the new request will bring.
LEMMA RefreshFollows ==
  ASSUME NEW st, NEW lg, NEW last, LogOK(st, lg, last), NEW p, PageOK(p, st, lg), Room(p),
         Within(p, lg), NEW connects \in BOOLEAN, p.runId # None
  PROVE  LET q == Refresh(p, connects) IN Within(q, lg) /\ Follows(q, st, lg)
<1> DEFINE new == [run |-> p.runId, agent |-> p.agent, phase |-> "sent", answer |-> None,
                   thenConnect |-> connects]
           sent == [p EXCEPT !.request = new]
           old == p.request
           shown == IF old.phase = "results" THEN Emitted(sent, old, None) ELSE sent
           q == Refresh(p, connects)
<1>1. q = AfterAbort(sent, old)
  BY DEF Refresh
<1>2. /\ new \in Requests /\ new # None /\ RequestOK(new, st, lg) /\ new.phase = "sent"
      /\ new.run = p.runId /\ new.agent = p.agent
  BY NullAssumption DEF Requests, RequestOK, PageOK, ViewOK, Pages
<1> HIDE DEF new
<1>3. /\ sent \in Pages /\ sent.request = new /\ sent.streams = p.streams
      /\ sent.runId = p.runId /\ sent.agent = p.agent /\ sent.detail = p.detail
      /\ sent.results = p.results /\ sent.lastEventId = p.lastEventId
  BY <1>2 DEF PageOK, Pages
<1> HIDE DEF sent
<1>4. PageOK(sent, st, lg) /\ Within(sent, lg) /\ Follows(sent, st, lg)
  BY <1>2, <1>3, SentFollows DEF PageOK, ViewOK, Within
<1>5. Busy(sent) = Busy(p)
  BY <1>3 DEF Busy
<1>6. CASE old = None
  BY <1>1, <1>4, <1>6 DEF AfterAbort
<1>7. CASE old # None
  <2>1. q = Continued(shown, old)
    BY <1>1, <1>7 DEF AfterAbort
  <2>2. old \in Requests /\ RequestOK(old, st, lg)
    BY <1>7 DEF PageOK, Pages
  <2>3. /\ PageOK(shown, st, lg) /\ Within(shown, lg) /\ shown.streams = p.streams
        /\ shown.request = new /\ shown.runId = p.runId /\ shown.agent = p.agent
    <3>1. CASE old.phase = "results"
      <4> DEFINE e == Emitted(sent, old, None)
      <4>1. old.phase # "sent"
        BY <3>1
      <4>2. /\ PageOK(e, st, lg) /\ e.streams = sent.streams
            /\ e.request = sent.request /\ e.runId = sent.runId /\ e.agent = sent.agent
        BY <4>1, <2>2, <1>3, <1>4, EmittedKeeps, EmittedShown
      <4>3. AnswerWithin(old, lg)
        BY <4>1, <1>7 DEF Within
      <4>4. Within(e, lg)
        BY <4>1, <4>3, <2>2, <1>3, <1>4, EmittedWithin
      <4> HIDE DEF e
      <4> QED
        BY <3>1, <4>2, <4>4, <1>3 DEF e
    <3>2. CASE old.phase # "results"
      BY <3>2, <1>3, <1>4
    <3> QED
      BY <3>1, <3>2
  <2> HIDE DEF shown
  <2>4. Follows(shown, st, lg) /\ Busy(shown) = Busy(p)
    BY <1>2, <2>3, SentFollows DEF Busy
  <2>5. LatestId(lg[p.runId]) \in Nat
    BY LatestIsId DEF PageOK, Pages
  <2> QED
    BY <2>1, <2>2, <2>3, <2>4, <2>5, ContinuedFollows DEF Room
<1> QED
  BY <1>6, <1>7

\* A page that has come further is led by the same streams.
LEMMA LeadsOn ==
  ASSUME NEW p, NEW q, q.runId = p.runId, \A n \in Nat : Knows(p, n) => Knows(q, n),
         NEW h \in Handlers, Leads(p, h)
  PROVE  Leads(q, h)
<1>1. h.lastID \in Nat /\ h.frames \in Seq(Frames)
  BY DEF Handlers
<1>2. \A i \in 1..Len(h.frames) : h.frames[i].id \in Nat
  <2>1. \A i \in 1..Len(h.frames) : h.frames[i] \in Frames
    BY <1>1, ElementOfSeq
  <2> QED
    BY <2>1 DEF Frames
<1>3. \A n \in Nat : \A k \in Nat : Covered(p, h.frames, n, k) => Covered(q, h.frames, n, k)
  BY DEF Covered
<1>4. Len(h.frames) \in Nat /\ \A i \in 1..Len(h.frames) : i - 1 \in Nat
  BY <1>1, LenProperties
<1> QED
  BY <1>1, <1>2, <1>3, <1>4 DEF Leads

\* A request that is over leaves the page within the log, whether it failed or not.
LEMMA SettledWithin ==
  ASSUME NEW st, NEW lg, NEW last, LogOK(st, lg, last), NEW p, PageOK(p, st, lg), Room(p),
         Within(p, lg), p.request # None,
         NEW q, NEW results,
         \/ q = Continued([p EXCEPT !.request = None], p.request)
         \/ /\ q = Settled(p, results) /\ p.request.phase # "sent"
            /\ results # None =>
                 /\ results = [run |-> p.request.run, agent |-> p.request.agent]
                 /\ p.request.answer.status = "COMPLETED"
  PROVE  Within(q, lg)
<1> DEFINE over == [p EXCEPT !.request = None]
           old == p.request
<1>1. /\ over \in Pages /\ over.request = None /\ over.streams = p.streams
      /\ over.runId = p.runId /\ over.agent = p.agent /\ over.detail = p.detail
      /\ over.results = p.results /\ over.lastEventId = p.lastEventId
  BY DEF PageOK, Pages
<1>2. old \in Requests /\ RequestOK(old, st, lg) /\ p.runId # None
  BY DEF PageOK, Pages
<1>3. \/ q = Continued(over, old)
      \/ /\ q = Continued(Emitted(over, old, results), old)
         /\ old.phase # "sent"
         /\ results # None =>
              /\ results = [run |-> old.run, agent |-> old.agent]
              /\ old.answer.status = "COMPLETED"
  BY DEF Settled
<1> HIDE DEF over
<1>4. PageOK(over, st, lg) /\ Within(over, lg)
  BY <1>1 DEF PageOK, ViewOK, Within
<1>5. PICK shown : /\ q = Continued(shown, old) /\ PageOK(shown, st, lg) /\ Within(shown, lg)
                   /\ shown.streams = p.streams /\ shown.runId = p.runId
  <2>1. CASE q = Continued(over, old)
    BY <2>1, <1>1, <1>4
  <2>2. CASE q # Continued(over, old)
    <3> DEFINE e == Emitted(over, old, results)
    <3>1. /\ q = Continued(e, old) /\ old.phase # "sent"
          /\ results # None =>
               /\ results = [run |-> old.run, agent |-> old.agent]
               /\ old.answer.status = "COMPLETED"
      BY <2>2, <1>3
    <3>2. PageOK(e, st, lg) /\ e.streams = over.streams /\ e.runId = over.runId
      BY <3>1, <1>2, <1>4, EmittedKeeps
    <3>3. AnswerWithin(old, lg)
      BY <3>1 DEF Within
    <3>4. Within(e, lg)
      BY <3>1, <3>3, <1>1, <1>2, <1>4, EmittedWithin
    <3> HIDE DEF e
    <3> QED
      BY <3>1, <3>2, <3>4, <1>1
  <2> QED
    BY <2>1, <2>2
<1>6. Busy(shown) = Busy(p)
  BY <1>5 DEF Busy
<1>7. LatestId(lg[p.runId]) \in Nat
  BY <1>2, LatestIsId DEF PageOK, Pages
<1> QED
  BY <1>2, <1>5, <1>6, <1>7, ContinuedFollows DEF Room

\* An answer to the selection's request is shown; the page is then where it was read.
LEMMA SettledFollows ==
  ASSUME NEW st, NEW lg, NEW last, LogOK(st, lg, last), NEW p, PageOK(p, st, lg), Room(p),
         Within(p, lg), Follows(p, st, lg), p.request # None, p.request.phase # "sent",
         NEW results,
         p.request.answer.status = "COMPLETED" => results # None,
         results # None =>
           /\ results = [run |-> p.request.run, agent |-> p.request.agent]
           /\ p.request.answer.status = "COMPLETED"
  PROVE  Follows(Settled(p, results), st, lg)
<1> DEFINE over == [p EXCEPT !.request = None]
           old == p.request
           shown == Emitted(over, old, results)
<1>1. /\ over \in Pages /\ over.request = None /\ over.streams = p.streams
      /\ over.runId = p.runId /\ over.agent = p.agent /\ over.detail = p.detail
      /\ over.results = p.results /\ over.lastEventId = p.lastEventId
  BY DEF PageOK, Pages
<1>2. /\ old \in Requests /\ RequestOK(old, st, lg) /\ p.runId # None
      /\ old.run = p.runId /\ old.agent = p.agent /\ AnswerWithin(old, lg)
  BY DEF PageOK, Pages, Follows, Answered, Within
<1>3. Settled(p, results) = Continued(shown, old)
  BY DEF Settled
<1> HIDE DEF over
<1>4. PageOK(over, st, lg) /\ Within(over, lg)
  BY <1>1 DEF PageOK, ViewOK, Within
<1>5. /\ PageOK(shown, st, lg) /\ Within(shown, lg) /\ shown.streams = p.streams
      /\ shown.runId = p.runId /\ shown.request = None
  BY <1>1, <1>2, <1>4, EmittedKeeps, EmittedWithin
<1>6. /\ shown.detail = [run |-> old.run, status |-> old.answer.status]
      /\ shown.results = results
      /\ shown.lastEventId = MonotonicEventId(p.lastEventId, old.answer.latest)
  BY <1>1, <1>2 DEF Emitted, Pages
<1> HIDE DEF shown
<1>7. /\ p.lastEventId \in Nat /\ old.answer.latest \in Nat
      /\ p.lastEventId <= old.answer.latest
  BY <1>2 DEF PageOK, Pages, Requests, Answers, Follows, Answered
<1>8. shown.lastEventId = old.answer.latest
  BY <1>6, <1>7, LaterId
<1>9. Answered(shown, st, lg)
  BY <1>5 DEF Answered
<1>10. Displayed(shown, st, lg)
  <2>1. old.answer.latest >= LatestId(lg[p.runId]) => old.answer.status = st[p.runId]
    BY DEF Follows, Answered
  <2>2. shown.detail # None
    BY <1>2, <1>6, NullAssumption DEF Requests, Answers
  <2> QED
    BY <2>1, <2>2, <1>5, <1>6, <1>8 DEF Displayed
<1>11. \A s \in Streams : Leads(shown, shown.streams[s])
  <2>1. \A n \in Nat : Knows(p, n) => Knows(shown, n)
    BY <1>5, <1>7, <1>8 DEF Knows
  <2>2. \A s \in Streams : Leads(p, p.streams[s]) /\ p.streams[s] \in Handlers
    BY DEF Follows, PageOK, Pages
  <2> QED
    BY <2>1, <2>2, <1>5, LeadsOn
<1>12. Follows(shown, st, lg)
  BY <1>9, <1>10, <1>11 DEF Follows
<1>13. Busy(shown) = Busy(p) /\ LatestId(lg[p.runId]) \in Nat
  BY <1>2, <1>5, LatestIsId DEF Busy, PageOK, Pages
<1> QED
  BY <1>2, <1>3, <1>5, <1>12, <1>13, ContinuedFollows DEF Room

\* The log goes on: what is right stays right or is overtaken by its ids.
LEMMA LogGrowsQuietly ==
  ASSUME QuietInv, StreamInv', NEW r \in Runs, NEW stats \in Seq(Statuses), stats # <<>>,
         Insert(r, stats), \A x \in Runs : x # r => status'[x] = status[x],
         UNCHANGED <<page, failures>>
  PROVE  QuietInv'
<1> DEFINE n == lastId + Len(stats)
<1>1. \A x \in Runs : LatestId(log[x]) \in Nat /\ LatestId(log[x]) <= lastId /\ lastId \in Nat
  BY LatestIsId DEF QuietInv, StreamInv
<1>2. n \in Nat /\ n > lastId
  BY <1>1, LenProperties, EmptySeq
<1>3. LatestId(log'[r]) = n /\ \A x \in Runs : x # r => log'[x] = log[x]
  <2>1. log[r] \in Rows(lastId) /\ lastId \in Nat
    BY LatestIsId DEF QuietInv, StreamInv
  <2>2. LatestId(Inserted(log[r], stats)) = n
    BY <2>1, InsertedRows
  <2>3. log' = [log EXCEPT ![r] = Inserted(log[r], stats)] /\ DOMAIN log = Runs
    BY DEF Insert, QuietInv, StreamInv, LogOK
  <2> QED
    BY <2>2, <2>3
<1> HIDE DEF n
<1>4. \A x \in Runs : LatestId(log'[x]) \in Nat /\ LatestId(log[x]) <= LatestId(log'[x])
  <2> TAKE x \in Runs
  <2>1. CASE x = r
    BY <2>1, <1>1, <1>2, <1>3
  <2>2. CASE x # r
    BY <2>2, <1>1, <1>3
  <2> QED
    BY <2>1, <2>2
<1>5. Within(page, log')
  <2>1. page.runId # None => page.lastEventId <= LatestId(log'[page.runId])
    <3> SUFFICES ASSUME page.runId # None
                 PROVE  page.lastEventId <= LatestId(log'[page.runId])
      OBVIOUS
    <3>1. page.runId \in Runs /\ page.lastEventId \in Nat
      BY DEF QuietInv, StreamInv, PageOK, Pages
    <3>2. page.lastEventId <= LatestId(log[page.runId])
      BY DEF QuietInv, Within
    <3> QED
      BY <3>1, <3>2, <1>1, <1>4
  <2>2. ASSUME NEW s \in Streams, page.streams[s].pc # "free"
        PROVE  StreamWithin(page.streams[s], log')
    <3> DEFINE h == page.streams[s]
               x == h.run
    <3>1. /\ x \in Runs /\ h.lastID \in Nat /\ h.latest \in Nat
          /\ StreamWithin(h, log)
      BY <2>2 DEF QuietInv, StreamInv, PageOK, HandlerOK, Pages, Handlers, Within
    <3>2. Written(log[x]) \in SUBSET Written(log'[x])
      BY <3>1, <1>1, <1>4 DEF Written, Frames
    <3>3. Seq(Written(log[x])) \in SUBSET Seq(Written(log'[x]))
      BY <3>2, SeqMonotonic
    <3>4. h.frames \in Seq(Written(log'[x]))
      BY <3>1, <3>3, <2>2 DEF StreamWithin
    <3>5. LatestId(log[x]) \in Nat /\ LatestId(log'[x]) \in Nat /\ LatestId(log[x]) <= LatestId(log'[x])
      BY <3>1, <1>1, <1>4
    <3>6. h.lastID <= LatestId(log'[x]) /\ h.latest <= LatestId(log'[x])
      BY <3>1, <3>5, <2>2 DEF StreamWithin
    <3> QED
      BY <3>1, <3>4, <3>6, <2>2 DEF StreamWithin
  <2>3. page.request # None /\ page.request.phase # "sent" => AnswerWithin(page.request, log')
    <3> SUFFICES ASSUME page.request # None, page.request.phase # "sent"
                 PROVE  AnswerWithin(page.request, log')
      OBVIOUS
    <3>1. page.request.run \in Runs /\ page.request.answer.latest \in Nat
      BY DEF QuietInv, StreamInv, PageOK, Pages, Requests, Answers
    <3>2. AnswerWithin(page.request, log)
      BY DEF QuietInv, Within
    <3> QED
      BY <3>1, <3>2, <1>1, <1>4 DEF AnswerWithin
  <2> QED
    BY <2>1, <2>2, <2>3 DEF Within, StreamWithin
<1>6. ASSUME Follows(page, status, log) PROVE Follows(page, status', log')
  <2>1. ASSUME page.request # None, page.request.phase # "sent",
               page.request.answer.latest >= LatestId(log'[page.runId])
        PROVE  page.request.answer.status = status'[page.runId]
    <3>1. /\ page.request.run = page.runId /\ page.request.run \in Runs
          /\ page.request.answer.latest \in Nat /\ AnswerWithin(page.request, log)
      BY <1>6, <2>1 DEF Follows, Answered, QuietInv, StreamInv, PageOK, Pages, Requests, Answers,
                        Within
    <3>2. page.runId # r
      BY <3>1, <2>1, <1>1, <1>2, <1>3 DEF AnswerWithin
    <3> QED
      BY <3>1, <3>2, <1>3, <1>6, <2>1 DEF Follows, Answered
  <2>2. ASSUME page.request = None, page.runId # None,
               page.lastEventId >= LatestId(log'[page.runId])
        PROVE  page.detail.status = status'[page.runId]
    <3>1. page.runId \in Runs /\ page.lastEventId \in Nat
      BY <2>2 DEF QuietInv, StreamInv, PageOK, Pages
    <3>2. page.lastEventId <= LatestId(log[page.runId])
      BY <2>2 DEF QuietInv, Within
    <3>3. page.runId # r
      BY <3>1, <3>2, <2>2, <1>1, <1>2, <1>3
    <3> QED
      BY <3>1, <3>3, <1>3, <1>6, <2>2 DEF Follows, Displayed
  <2> QED
    BY <1>6, <2>1, <2>2 DEF Follows, Answered, Displayed
<1> QED
  BY <1>5, <1>6 DEF QuietInv, Within, StreamWithin, AnswerWithin, Follows, Answered, Displayed, Leads,
                    Covered, Knows

LEMMA QuietStep ==
  ASSUME StreamInv', UNCHANGED <<status, log>>, Within(page', log),
         failures' = 0 => Follows(page', status, log)
  PROVE  QuietInv'
BY DEF QuietInv, Within, StreamWithin, AnswerWithin, Follows, Answered, Displayed, Leads, Covered,
       Knows

LEMMA LatestOfRuns ==
  ASSUME QuietInv
  PROVE  \A r \in Runs : LatestId(log[r]) \in Nat
BY LatestIsId DEF QuietInv, StreamInv

LEMMA SelectRunQuiet ==
  ASSUME QuietInv, StreamInv', NEW r \in Runs, SelectRun(r)
  PROVE  QuietInv'
<1> DEFINE p == Selected(r)
<1>1. /\ PageOK(p, status, log) /\ p.runId = r /\ r # None /\ p.request = page.request
      /\ \A s \in Streams : p.streams[s] \in {page.streams[s], Free}
      /\ Room(p) /\ page' = Refresh(p, TRUE) /\ UNCHANGED <<status, log, lastId, failures>>
  BY SelectedFits DEF QuietInv
<1>2. p.lastEventId = 0
  <2>1. CloseRunSubscription(page) \in [DOMAIN page -> {CloseRunSubscription(page)[f] : f \in DOMAIN page}]
    BY DEF CloseRunSubscription
  <2>2. "lastEventId" \in DOMAIN page
    BY DEF QuietInv, StreamInv, PageOK, Pages
  <2> QED
    BY <2>1, <2>2 DEF Selected
<1> HIDE DEF p
<1>3. Within(p, log)
  <2>1. p.lastEventId <= LatestId(log[p.runId])
    BY <1>1, <1>2, LatestOfRuns
  <2>2. \A s \in Streams : StreamWithin(p.streams[s], log)
    BY <1>1 DEF QuietInv, Within, StreamWithin, Free
  <2> QED
    BY <1>1, <2>1, <2>2 DEF Within, QuietInv
<1>4. Within(page', log) /\ Follows(page', status, log)
  BY <1>1, <1>3, RefreshFollows DEF QuietInv, StreamInv
<1> QED
  BY <1>1, <1>4, QuietStep

LEMMA SelectAgentQuiet ==
  ASSUME QuietInv, StreamInv', NEW a \in Agents, SelectAgent(a)
  PROVE  QuietInv'
<1> DEFINE p == [page EXCEPT !.agent = a, !.results = None]
<1>1. page' = Refresh(p, FALSE) /\ UNCHANGED <<status, log, lastId, failures>>
  BY DEF SelectAgent
<1>2. p \in Pages /\ p.streams = page.streams /\ SameView(page, p) /\ p.results = None
  BY DEF QuietInv, StreamInv, PageOK, Pages, SameView
<1> HIDE DEF p
<1>3. PageOK(p, status, log) /\ Room(p) /\ Within(p, log)
  BY <1>2 DEF QuietInv, StreamInv, PageOK, ViewOK, Room, Busy, Within, SameView
<1>4. CASE p.runId # None
  <2>1. Within(page', log) /\ Follows(page', status, log)
    BY <1>1, <1>3, <1>4, RefreshFollows DEF QuietInv, StreamInv
  <2> QED
    BY <1>1, <2>1, QuietStep
<1>5. CASE p.runId = None
  <2>1. page' = p /\ p.request = None
    BY <1>1, <1>2, <1>5, RefreshWithoutRun DEF QuietInv, StreamInv, PageOK, SameView
  <2>2. ASSUME Follows(page, status, log) PROVE Follows(p, status, log)
    BY <1>2, <1>5, <2>1, <2>2
       DEF SameView, Follows, Answered, Displayed, Leads, Covered, Knows
  <2> QED
    BY <1>1, <1>3, <2>1, <2>2, QuietStep DEF QuietInv
<1> QED
  BY <1>4, <1>5

\* The answer is read when the streams have gone no further than the log.
LEMMA ServeDetailQuiet ==
  ASSUME QuietInv, StreamInv', ServeDetail PROVE QuietInv'
<1> DEFINE r == page.request.run
           answer == [status |-> status[r], latest |-> LatestId(log[r])]
           q == [page.request EXCEPT !.phase = "answered", !.answer = answer]
<1>1. /\ page.request # None /\ page.request \in Requests /\ r \in Runs
      /\ page.runId # None /\ page \in Pages
  BY DEF ServeDetail, QuietInv, StreamInv, PageOK, Pages, Requests
<1>2. page' = [page EXCEPT !.request = q] /\ UNCHANGED <<status, log, lastId, failures>>
  BY DEF ServeDetail, QuietInv, StreamInv, PageOK, Pages
<1>3. answer \in Answers /\ answer.status = status[r] /\ answer.latest = LatestId(log[r])
  <2>1. status[r] \in Statuses
    BY <1>1 DEF QuietInv, StreamInv, PageOK, RequestOK, LogOK
  <2> QED
    BY <1>1, <2>1, LatestOfRuns DEF Answers
<1> HIDE DEF answer
<1>4. q \in Requests /\ q.run = r /\ q.agent = page.request.agent /\ q.answer = answer
      /\ q.phase = "answered"
  BY <1>1, <1>3 DEF Requests
<1>5. q # None
  BY <1>4, NullAssumption
<1> HIDE DEF q
<1>6. /\ page'.streams = page.streams /\ page'.request = q
      /\ page'.runId = page.runId /\ page'.agent = page.agent
      /\ page'.detail = page.detail /\ page'.results = page.results
      /\ page'.lastEventId = page.lastEventId
  BY <1>1, <1>2 DEF Pages
<1>7. LatestId(log[r]) \in Nat
  BY <1>1, LatestOfRuns
<1>8. Within(page', log)
  BY <1>3, <1>4, <1>6, <1>7 DEF QuietInv, Within, AnswerWithin
<1>9. ASSUME Follows(page, status, log) PROVE Follows(page', status, log)
  <2>1. r = page.runId /\ page.request.agent = page.agent
    BY <1>1, <1>9 DEF Follows, Answered
  <2>2. page.lastEventId <= LatestId(log[r])
    BY <1>1, <2>1 DEF QuietInv, Within
  <2>4. Answered(page', status, log) /\ Displayed(page', status, log)
    BY <1>3, <1>4, <1>6, <2>1, <2>2, <1>5 DEF Answered, Displayed
  <2>5. \A n : n <= LatestId(log[r]) /\ n \in Nat => Knows(page', n)
    BY <1>3, <1>4, <1>6, <1>7, <1>5 DEF Knows
  <2>6. ASSUME NEW s \in Streams, page.streams[s].pc # "free", page.streams[s].run = r
        PROVE  Leads(page', page.streams[s])
    <3> DEFINE h == page.streams[s]
    <3>1. h \in Handlers /\ StreamWithin(h, log)
      BY <1>1 DEF Pages, QuietInv, Within
    <3>2. h.lastID \in Nat /\ h.lastID <= LatestId(log[r]) /\ h.frames \in Seq(Written(log[r]))
      BY <2>6, <3>1 DEF StreamWithin, Handlers
    <3>3. \A i \in 1..Len(h.frames) : h.frames[i] \in Written(log[r])
      BY <3>2, ElementOfSeq
    <3>4. \A i \in 1..Len(h.frames) : h.frames[i].id \in Nat /\ h.frames[i].id <= LatestId(log[r])
      BY <3>3 DEF Written, Frames
    <3> QED
      BY <3>2, <3>4, <2>5 DEF Leads, Covered
  <2>7. \A s \in Streams : Leads(page', page'.streams[s])
    BY <1>6, <2>1, <2>6 DEF Leads
  <2> QED
    BY <2>4, <2>7 DEF Follows
<1> QED
  BY <1>2, <1>8, <1>9, QuietStep DEF QuietInv

LEMMA DetailArrivesQuiet ==
  ASSUME QuietInv, StreamInv', DetailArrives PROVE QuietInv'
<1>1. /\ page.request # None /\ page.request \in Requests /\ page.request.phase = "answered"
      /\ RequestOK(page.request, status, log) /\ UNCHANGED <<status, log, lastId, failures>>
  BY DEF DetailArrives, QuietInv, StreamInv, PageOK, Pages
<1>2. CASE page.request.answer.status = "COMPLETED"
  <2> DEFINE q == [page.request EXCEPT !.phase = "results"]
  <2>1. page' = [page EXCEPT !.request = q]
    BY <1>2 DEF DetailArrives, QuietInv, StreamInv, PageOK, Pages
  <2>2. /\ q.run = page.request.run /\ q.agent = page.request.agent /\ q.phase = "results"
        /\ q.answer = page.request.answer /\ q \in Requests
    BY <1>1 DEF Requests
  <2>3. q # None
    BY <2>2, NullAssumption
  <2> HIDE DEF q
  <2>4. /\ page'.streams = page.streams /\ page'.request = q
        /\ page'.runId = page.runId /\ page'.agent = page.agent
        /\ page'.lastEventId = page.lastEventId
    BY <2>1 DEF QuietInv, StreamInv, PageOK, Pages
  <2>5. page.request.phase # "sent" /\ q.phase # "sent"
    BY <1>1, <2>2
  <2>6. Within(page', log)
    BY <1>1, <2>2, <2>4, <2>5 DEF QuietInv, Within, AnswerWithin
  <2>7. ASSUME Follows(page, status, log) PROVE Follows(page', status, log)
    <3>1. \A n \in Nat : Knows(page, n) => Knows(page', n)
      BY <2>2, <2>3, <2>4, <2>5 DEF Knows
    <3>2. \A s \in Streams : Leads(page, page.streams[s]) /\ page.streams[s] \in Handlers
      BY <2>7 DEF Follows, QuietInv, StreamInv, PageOK, Pages
    <3>3. \A s \in Streams : Leads(page', page'.streams[s])
      BY <3>1, <3>2, <2>4, LeadsOn
    <3>4. Answered(page', status, log) /\ Displayed(page', status, log)
      BY <1>1, <2>2, <2>3, <2>4, <2>5, <2>7 DEF Follows, Answered, Displayed
    <3> QED
      BY <3>3, <3>4 DEF Follows
  <2> QED
    BY <1>1, <2>6, <2>7, QuietStep DEF QuietInv
<1>3. CASE page.request.answer.status # "COMPLETED"
  <2>1. page' = Settled(page, None) /\ page.request.phase # "sent"
    BY <1>1, <1>3 DEF DetailArrives
  <2>2. Within(page', log)
    BY <1>1, <2>1, SettledWithin DEF QuietInv, StreamInv
  <2>3. Follows(page, status, log) => Follows(page', status, log)
    BY <1>1, <1>3, <2>1, SettledFollows DEF QuietInv, StreamInv
  <2> QED
    BY <1>1, <2>2, <2>3, QuietStep DEF QuietInv
<1> QED
  BY <1>2, <1>3

LEMMA ResultsArriveQuiet ==
  ASSUME QuietInv, StreamInv', ResultsArrive PROVE QuietInv'
<1> DEFINE results == [run |-> page.request.run, agent |-> page.request.agent]
<1>1. /\ page.request # None /\ page.request \in Requests /\ page.request.phase = "results"
      /\ page.request.answer.status = "COMPLETED" /\ page' = Settled(page, results)
      /\ UNCHANGED <<status, log, lastId, failures>>
  BY DEF ResultsArrive, QuietInv, StreamInv, PageOK, Pages, RequestOK
<1>2. page.request.phase # "sent" /\ results # None
      /\ results = [run |-> page.request.run, agent |-> page.request.agent]
  BY <1>1, NullAssumption DEF Requests
<1> HIDE DEF results
<1>3. Within(page', log)
  BY <1>1, <1>2, SettledWithin DEF QuietInv, StreamInv
<1>4. Follows(page, status, log) => Follows(page', status, log)
  BY <1>1, <1>2, SettledFollows DEF QuietInv, StreamInv
<1> QED
  BY <1>1, <1>3, <1>4, QuietStep DEF QuietInv

LEMMA RequestFailsQuiet ==
  ASSUME QuietInv, StreamInv', RequestFails PROVE QuietInv'
<1>1. page.request # None /\ failures' # 0 /\ UNCHANGED <<status, log, lastId>>
  BY StreamAssumption DEF RequestFails, QuietInv, StreamInv
<1>2. Within(page', log)
  <2>1. CASE page.request.phase = "results"
    <3>1. page' = Settled(page, None) /\ page.request.phase # "sent"
      BY <2>1 DEF RequestFails
    <3> QED
      BY <1>1, <3>1, SettledWithin DEF QuietInv, StreamInv
  <2>2. CASE page.request.phase # "results"
    <3>1. page' = Continued([page EXCEPT !.request = None], page.request)
      BY <2>2 DEF RequestFails
    <3> QED
      BY <1>1, <3>1, SettledWithin DEF QuietInv, StreamInv
  <2> QED
    BY <2>1, <2>2
<1> QED
  BY <1>1, <1>2, QuietStep

-----------------------------------------------------------------------------
(* The handlers.                                                           *)

\* Frames that are added bring the page on; a heartbeat claims what is on its way.
LEMMA LeadsGrows ==
  ASSUME NEW p, NEW h \in Handlers, Leads(p, h), h.pc # "free",
         NEW g \in Handlers, g.run = h.run, Len(h.frames) <= Len(g.frames),
         \A i \in 1..Len(h.frames) : g.frames[i] = h.frames[i],
         h.run = p.runId =>
           /\ Covered(p, g.frames, g.lastID, Len(g.frames))
           /\ \A i \in (Len(h.frames) + 1)..Len(g.frames) :
                g.frames[i].type = "heartbeat" =>
                  Covered(p, h.frames, g.frames[i].id, Len(h.frames))
  PROVE  Leads(p, g)
<1> SUFFICES ASSUME h.run = p.runId,
                    NEW i \in 1..Len(g.frames), g.frames[i].type = "heartbeat"
             PROVE  Covered(p, g.frames, g.frames[i].id, i - 1)
  BY DEF Leads
<1>1. Len(h.frames) \in Nat /\ Len(g.frames) \in Nat
  BY LenProperties DEF Handlers
<1>2. CASE i <= Len(h.frames)
  <2>1. Covered(p, h.frames, h.frames[i].id, i - 1)
    BY <1>1, <1>2 DEF Leads
  <2>2. \A j \in 1..(i - 1) : g.frames[j] = h.frames[j]
    BY <1>1, <1>2
  <2> QED
    BY <1>1, <1>2, <2>1, <2>2 DEF Covered
<1>3. CASE i > Len(h.frames)
  <2>1. Covered(p, h.frames, g.frames[i].id, Len(h.frames))
    BY <1>1, <1>3
  <2>2. \A j \in 1..Len(h.frames) : j \in 1..(i - 1) /\ g.frames[j] = h.frames[j]
    BY <1>1, <1>3
  <2> QED
    BY <2>1, <2>2 DEF Covered
<1> QED
  BY <1>1, <1>2, <1>3

\* With a backlog that fits one page, a handler that read it has read all of it.
LEMMA WholeBacklog ==
  ASSUME NEW last \in Nat, NEW rows \in Rows(last), NEW cursor \in Nat,
         Cardinality({e \in rows : e.id > cursor}) <= PageLimit, NEW events \in InIdOrder(EventsAfter(cursor, rows))
  PROVE  /\ events = <<>> => LatestId(rows) <= cursor
         /\ events # <<>> =>
              /\ Len(events) \in Nat \ {0} /\ events[Len(events)] \in rows
              /\ LatestId(rows) <= events[Len(events)].id
<1> DEFINE after == {e \in rows : e.id > cursor}
           n == Cardinality(after)
<1>1. /\ IsFiniteSet(rows) /\ rows \in SUBSET Events /\ IsFiniteSet(after) /\ n \in Nat
      /\ Cardinality(rows) \in Nat
  BY FS_Subset, FS_CardinalityType DEF Rows
<1>2. EventsAfter(cursor, rows) = after
  <2>1. ASSUME NEW e \in after PROVE Cardinality({f \in after : f.id < e.id}) < PageLimit
    <3> DEFINE older == {f \in after : f.id < e.id}
    <3>1. older \in SUBSET (after \ {e})
      BY <1>1, <2>1 DEF Events
    <3>2. IsFiniteSet(after \ {e}) /\ Cardinality(after \ {e}) = n - 1
      BY <1>1, <2>1, FS_RemoveElement
    <3>3. Cardinality(older) <= Cardinality(after \ {e}) /\ Cardinality(older) \in Nat
      BY <3>1, <3>2, FS_Subset, FS_CardinalityType
    <3> QED
      BY <1>1, <3>2, <3>3, StreamAssumption
  <2> QED
    BY <2>1 DEF EventsAfter
<1> HIDE DEF after
<1>3. /\ events \in [1..n -> after]
      /\ \A i, j \in 1..n : i < j => events[i].id < events[j].id
  BY <1>2 DEF InIdOrder
<1>4. \A e \in after : e.id \in Nat /\ e \in rows
  BY <1>1 DEF after, Events
<1>5. events \in Surjection(1..n, after)
  <2>1. \A i, j \in 1..n : events[i] = events[j] => i = j
    <3> SUFFICES ASSUME NEW i \in 1..n, NEW j \in 1..n, events[i] = events[j], i < j
                 PROVE  FALSE
      BY <1>1
    <3>1. events[i].id < events[j].id /\ events[i].id \in Nat
      BY <1>3, <1>4
    <3> QED
      BY <3>1
  <2>2. events \in Injection(1..n, after)
    BY <1>3, <2>1 DEF Injection, IsInjective
  <2>3. Cardinality(1..n) = n
    BY <1>1, FS_Interval
  <2> QED
    BY <1>1, <2>2, <2>3, FS_Injection
<1> HIDE DEF n
<1>6. Len(events) = n
  BY <1>1, <1>3, LenProperties, IsASeq
<1>7. CASE after = {}
  <2>1. n = 0
    BY <1>7, FS_EmptySet DEF n
  <2>2. events = <<>>
    BY <1>3, <2>1, <1>6, IsASeq, EmptySeq
  <2>3. LatestId(rows) <= cursor
    <3>1. CASE rows = {}
      BY <3>1 DEF LatestId
    <3>2. CASE rows # {}
      <4>1. \E e \in rows : e.id = LatestId(rows)
        <5>1. Ids(rows) \in SUBSET Nat /\ Ids(rows) # {} /\ \A x \in Ids(rows) : x <= last
          BY <3>2 DEF Ids, Rows, Events
        <5>2. Max(Ids(rows)) \in Ids(rows)
          BY <5>1, MaxOfBounded
        <5> QED
          BY <3>2, <5>2 DEF LatestId, Ids
      <4> QED
        BY <4>1, <1>1, <1>7 DEF after, Events
    <3> QED
      BY <3>1, <3>2
  <2> QED
    BY <2>2, <2>3
<1>8. CASE after # {}
  <2>1. PICK m \in after : LatestId(rows) = m.id
    <3>1. PICK x \in after : TRUE
      BY <1>8
    <3>2. rows # {} /\ x.id > cursor /\ x.id \in Nat /\ x \in rows
      BY <1>4 DEF after
    <3>3. Ids(rows) \in SUBSET Nat /\ Ids(rows) # {} /\ \A y \in Ids(rows) : y <= last
      BY <3>2 DEF Ids, Rows, Events
    <3>4. Max(Ids(rows)) \in Ids(rows) /\ \A y \in Ids(rows) : y <= Max(Ids(rows))
      BY <3>3, MaxOfBounded
    <3>5. PICK m \in rows : m.id = Max(Ids(rows))
      BY <3>4 DEF Ids
    <3>6. x.id <= m.id
      BY <3>2, <3>4, <3>5 DEF Ids
    <3> QED
      BY <3>2, <3>5, <3>6, <1>1 DEF LatestId, after, Events
  <2>2. PICK k \in 1..n : events[k] = m
    BY <1>5, <2>1 DEF Surjection
  <2>3. n \in 1..n /\ events[n] \in after
    BY <1>1, <1>3, <2>2
  <2>4. m.id <= events[n].id
    <3>1. CASE k = n
      BY <3>1, <2>1, <2>2, <1>4
    <3>2. CASE k < n
      BY <3>2, <1>3, <1>4, <2>1, <2>2, <2>3
    <3> QED
      BY <3>1, <3>2, <1>1, <2>2
  <2>5. events # <<>>
    BY <1>6, <2>3, EmptySeq
  <2> QED
    BY <1>1, <1>4, <1>6, <2>1, <2>3, <2>4, <2>5
<1> QED
  BY <1>7, <1>8

LEMMA HandlerQuiet ==
  ASSUME QuietInv, StreamInv', NEW s \in Streams, NEW h, Handler(s, h), StreamWithin(h, log),
         Follows(page, status, log) => Leads(page, h)
  PROVE  QuietInv'
<1>1. /\ page \in Pages /\ SamePage(page, page')
      /\ page'.streams = [page.streams EXCEPT ![s] = h]
      /\ UNCHANGED <<status, log, lastId, failures>>
  BY DEF Handler, QuietInv, StreamInv, PageOK, Pages, SamePage, SameView
<1>2. Within(page', log)
  BY <1>1, SlotWithin DEF QuietInv, SamePage
<1>3. Follows(page, status, log) => Follows(page', status, log)
  BY <1>1, SlotFollows
<1> QED
  BY <1>1, <1>2, <1>3, QuietStep DEF QuietInv

LEMMA ReadBoundsQuiet ==
  ASSUME QuietInv, StreamInv', NEW s \in Streams, ReadBounds(s) PROVE QuietInv'
<1> DEFINE h == page.streams[s]
           latest == LatestId(log[h.run])
           frame == [type |-> "stream.reset", id |-> latest, status |-> None]
           frames == Append(h.frames, frame)
           reset == [h EXCEPT !.pc = "wait", !.latest = latest, !.lastID = latest,
                              !.frames = frames]
           going == [h EXCEPT !.pc = "rows", !.latest = latest]
<1>1. h.pc = "read"
  BY DEF ReadBounds
<1>2. /\ h \in Handlers /\ h.run \in Runs /\ latest \in Nat /\ h.lastID \in Nat
      /\ h.frames \in Seq(Frames)
  BY <1>1, TakenHandler DEF QuietInv, Handlers
<1>3. StreamWithin(h, log) /\ h.frames \in Seq(Written(log[h.run])) /\ h.lastID <= latest
  BY <1>1 DEF QuietInv, Within, StreamWithin
<1>4. Handler(s, reset) \/ Handler(s, going)
  BY DEF ReadBounds
<1>5. frame \in Written(log[h.run]) /\ frame \in Frames /\ frame.type = "stream.reset" /\ frame.id = latest
  BY <1>2 DEF Written, Frames
<1> HIDE DEF latest, frame
<1>6. /\ frames \in Seq(Written(log[h.run])) /\ frames \in Seq(Frames)
      /\ Len(frames) = Len(h.frames) + 1 /\ Len(h.frames) \in Nat
      /\ \A i \in 1..Len(h.frames) : frames[i] = h.frames[i]
      /\ frames[Len(h.frames) + 1] = frame
  BY <1>2, <1>3, <1>5, AppendProperties, LenProperties
<1> HIDE DEF frames
<1>7. /\ reset \in Handlers /\ reset.pc = "wait" /\ reset.run = h.run /\ reset.frames = frames
      /\ reset.lastID = latest /\ reset.latest = latest
      /\ going \in Handlers /\ going.pc = "rows" /\ going.run = h.run /\ going.frames = h.frames
      /\ going.lastID = h.lastID /\ going.latest = latest
  BY <1>2, <1>6 DEF Handlers
<1> HIDE DEF reset, going
<1>8. StreamWithin(reset, log)
  BY <1>2, <1>6, <1>7 DEF StreamWithin, latest
<1>9. StreamWithin(going, log)
  BY <1>2, <1>3, <1>7 DEF StreamWithin, latest
<1>10. ASSUME Leads(page, h) PROVE Leads(page, reset) /\ Leads(page, going)
  <2>1. Covered(page, frames, latest, Len(frames))
    <3>1. Len(frames) \in 1..Len(frames) /\ frames[Len(frames)] = frame
      BY <1>6
    <3> QED
      BY <3>1, <1>2, <1>5 DEF Covered
  <2>2. Leads(page, reset)
    <3>1. \A i \in (Len(h.frames) + 1)..Len(frames) : frames[i].type # "heartbeat"
      BY <1>5, <1>6
    <3>2. Len(h.frames) <= Len(reset.frames)
      BY <1>6, <1>7
    <3>3. \A i \in (Len(h.frames) + 1)..Len(reset.frames) : reset.frames[i].type # "heartbeat"
      BY <1>7, <3>1
    <3>4. Covered(page, reset.frames, reset.lastID, Len(reset.frames))
      BY <1>7, <2>1
    <3>5. \A i \in 1..Len(h.frames) : reset.frames[i] = h.frames[i]
      BY <1>6, <1>7
    <3> HIDE DEF h
    <3> QED
      BY <1>1, <1>2, <1>7, <1>10, <3>2, <3>3, <3>4, <3>5, LeadsGrows
  <2>3. Leads(page, going)
    BY <1>1, <1>7, <1>10 DEF Leads
  <2> QED
    BY <2>2, <2>3
<1>11. Follows(page, status, log) => Leads(page, h)
  BY DEF Follows
<1> QED
  BY <1>4, <1>8, <1>9, <1>10, <1>11, HandlerQuiet

LEMMA ReadRowsQuiet ==
  ASSUME QuietInv, StreamInv', BacklogFits, NEW s \in Streams, ReadRows(s) PROVE QuietInv'
<1> DEFINE h == page.streams[s]
           rows == log[h.run]
<1>1. h.pc = "rows"
  BY DEF ReadRows
<1>2. /\ h \in Handlers /\ h.run \in Runs /\ rows \in Rows(lastId) /\ lastId \in Nat
      /\ h.lastID \in Nat /\ h.latest \in Nat /\ LatestId(rows) \in Nat
      /\ h.frames \in Seq(Frames)
  BY <1>1, TakenHandler DEF Handlers, QuietInv
<1>3. /\ StreamWithin(h, log) /\ h.frames \in Seq(Written(rows)) /\ h.lastID <= LatestId(rows)
      /\ h.latest <= LatestId(rows)
  BY <1>1 DEF QuietInv, Within, StreamWithin
<1>4. PICK events \in InIdOrder(EventsAfter(h.lastID, rows)) :
        Handler(s, [h EXCEPT !.pc = "wait",
                             !.lastID = IF events = <<>> THEN @ ELSE Last(events).id,
                             !.frames = @ \o [i \in DOMAIN events |-> EventFrame(events[i])]])
  BY DEF ReadRows
<1> DEFINE more == [i \in DOMAIN events |-> EventFrame(events[i])]
           cursor == IF events = <<>> THEN h.lastID ELSE Last(events).id
           frames == h.frames \o more
           upd == [h EXCEPT !.pc = "wait", !.lastID = cursor, !.frames = frames]
<1>5. Handler(s, upd)
  BY <1>4
<1>6. /\ events = <<>> => LatestId(rows) <= h.lastID
      /\ events # <<>> =>
           /\ Len(events) \in Nat \ {0} /\ events[Len(events)] \in rows
           /\ LatestId(rows) <= events[Len(events)].id
  <2>1. Cardinality({e \in rows : e.id > h.lastID}) <= PageLimit
    BY <1>1 DEF BacklogFits, Backlog
  <2> QED
    BY <1>2, <2>1, WholeBacklog
<1>7. more \in Seq(Sent(rows))
  BY <1>2, RowsInOrder
<1>8. \A i \in DOMAIN events : events[i] \in rows
  BY DEF InIdOrder, EventsAfter
<1>9. \A e \in rows : /\ EventFrame(e) \in Written(rows) /\ EventFrame(e).type = "event"
                      /\ EventFrame(e).id = e.id /\ e.id \in Nat /\ e.id <= LatestId(rows)
  <2> TAKE e \in rows
  <2>1. e \in Events /\ e.id <= LatestId(rows)
    BY <1>2, LatestOfRows DEF Rows
  <2>2. e.status \in Statuses /\ e.status # None /\ e.id \in Nat
    BY <2>1, NullAssumption DEF Events
  <2> QED
    BY <2>1, <2>2 DEF EventFrame, Written, Frames
<1>10. /\ Len(more) \in Nat /\ DOMAIN more = 1..Len(more) /\ DOMAIN more = DOMAIN events
       /\ \A i \in 1..Len(more) : more[i] = EventFrame(events[i])
  BY <1>7, LenProperties
<1>11. cursor = LatestId(rows) /\ cursor \in Nat
  <2>1. CASE events = <<>>
    BY <2>1, <1>2, <1>3, <1>6
  <2>2. CASE events # <<>>
    <3>1. Last(events) = events[Len(events)]
      BY DEF Last
    <3> QED
      BY <3>1, <2>2, <1>2, <1>6, <1>9
  <2> QED
    BY <2>1, <2>2
<1>12. more \in Seq(Written(rows)) /\ more \in Seq(Frames)
       /\ \A i \in 1..Len(more) : more[i].type = "event"
  <2>1. more = [i \in 1..Len(more) |-> more[i]]
    BY <1>10
  <2>2. \A i \in 1..Len(more) : more[i] \in Written(rows) /\ more[i].type = "event"
    BY <1>8, <1>9, <1>10
  <2>3. Written(rows) \subseteq Frames
    BY DEF Written
  <2> HIDE DEF more
  <2> QED
    BY <1>10, <2>1, <2>2, <2>3, IsASeq
<1>13. events # <<>> => \E i \in 1..Len(more) : more[i].id = cursor
  <2> SUFFICES ASSUME events # <<>> PROVE \E i \in 1..Len(more) : more[i].id = cursor
    OBVIOUS
  <2>1. Len(events) \in 1..Len(more)
    <3>1. DOMAIN events = 1..Len(events) /\ Len(events) \in Nat \ {0}
      <4>1. events = [i \in 1..Len(more) |-> events[i]]
        BY <1>10 DEF InIdOrder
      <4>2. events \in Seq(rows)
        BY <4>1, <1>8, <1>10, IsASeq
      <4> QED
        BY <4>2, <1>6, LenProperties
    <3> QED
      BY <3>1, <1>10
  <2>2. more[Len(events)].id = events[Len(events)].id
    BY <2>1, <1>6, <1>9, <1>10
  <2>3. cursor = events[Len(events)].id
    BY DEF Last
  <2> QED
    BY <2>1, <2>2, <2>3
<1> HIDE DEF more
<1>14. /\ frames \in Seq(Written(rows)) /\ frames \in Seq(Frames)
       /\ Len(frames) = Len(h.frames) + Len(more) /\ Len(h.frames) \in Nat
       /\ \A i \in 1..Len(h.frames) : frames[i] = h.frames[i]
       /\ \A i \in (Len(h.frames) + 1)..Len(frames) : frames[i] = more[i - Len(h.frames)]
  BY <1>2, <1>3, <1>10, <1>12, ConcatProperties, LenProperties
<1>20. events = <<>> => cursor = h.lastID
  OBVIOUS
<1> HIDE DEF cursor, frames
<1>15. ASSUME Covered(page, h.frames, h.lastID, Len(h.frames))
       PROVE  Covered(page, frames, cursor, Len(frames))
  <2>1. CASE events = <<>>
    <3>1. cursor = h.lastID
      BY <2>1, <1>20
    <3>2. \A j \in 1..Len(h.frames) : j \in 1..Len(frames) /\ frames[j] = h.frames[j]
      BY <1>10, <1>14
    <3> QED
      BY <3>1, <3>2, <1>15 DEF Covered
  <2>2. CASE events # <<>>
    <3>1. PICK i \in 1..Len(more) : more[i].id = cursor
      BY <2>2, <1>13
    <3> DEFINE m == Len(h.frames)
               k == m + i
    <3>2. /\ m \in Nat /\ Len(frames) = m + Len(more) /\ Len(more) \in Nat
          /\ \A j \in (m + 1)..Len(frames) : frames[j] = more[j - m]
      BY <1>10, <1>14
    <3> HIDE DEF m
    <3>3. k \in (m + 1)..Len(frames) /\ k - m = i /\ k \in 1..Len(frames)
      BY <3>1, <3>2
    <3>4. frames[k] = more[i]
      BY <3>2, <3>3
    <3> HIDE DEF k
    <3> QED
      BY <3>1, <3>3, <3>4, <1>11, <1>12 DEF Covered
  <2> QED
    BY <2>1, <2>2
<1>16. /\ upd \in Handlers /\ upd.pc = "wait" /\ upd.run = h.run /\ upd.frames = frames
       /\ upd.lastID = cursor /\ upd.latest = h.latest
  BY <1>2, <1>11, <1>14 DEF Handlers
<1> HIDE DEF upd
<1>17. StreamWithin(upd, log)
  BY <1>2, <1>3, <1>11, <1>14, <1>16 DEF StreamWithin
<1>18. ASSUME Leads(page, h) PROVE Leads(page, upd)
  <2>1. \A i \in (Len(h.frames) + 1)..Len(frames) : frames[i].type # "heartbeat"
    <3> TAKE i \in (Len(h.frames) + 1)..Len(frames)
    <3>1. i - Len(h.frames) \in 1..Len(more) /\ frames[i] = more[i - Len(h.frames)]
      BY <1>10, <1>14
    <3> QED
      BY <3>1, <1>12
  <2>2. h.run = page.runId => Covered(page, frames, cursor, Len(frames))
    BY <1>1, <1>15, <1>18 DEF Leads
  <2>3. Len(h.frames) <= Len(frames)
    BY <1>10, <1>14
  <2> QED
    BY <1>1, <1>2, <1>14, <1>16, <1>18, <2>1, <2>2, <2>3, LeadsGrows
<1>19. Follows(page, status, log) => Leads(page, h)
  BY DEF Follows
<1> QED
  BY <1>5, <1>17, <1>18, <1>19, HandlerQuiet

LEMMA CoveredDown ==
  ASSUME NEW p \in Pages, NEW frames \in Seq(Frames), NEW n \in Nat, NEW m \in Nat, m <= n,
         NEW k \in 0..Len(frames), Covered(p, frames, n, k)
  PROVE  Covered(p, frames, m, k)
<1>1. Knows(p, n) => Knows(p, m)
  <2>1. p.lastEventId \in Nat
    BY DEF Pages
  <2>2. ASSUME p.request # None, p.request.phase # "sent"
        PROVE  p.request.answer.latest \in Nat
    BY <2>2 DEF Pages, Requests, Answers
  <2> QED
    BY <2>1, <2>2 DEF Knows
<1>2. \A j \in 1..k : frames[j].id \in Nat
  <2>1. Len(frames) \in Nat /\ \A j \in 1..Len(frames) : frames[j] \in Frames
    BY LenProperties, ElementOfSeq
  <2>2. \A j \in 1..k : j \in 1..Len(frames)
    BY <2>1
  <2> QED
    BY <2>1, <2>2 DEF Frames
<1> QED
  BY <1>1, <1>2 DEF Covered

LEMMA HeartbeatQuiet ==
  ASSUME QuietInv, StreamInv', NEW s \in Streams, Heartbeat(s) PROVE QuietInv'
<1> DEFINE h == page.streams[s]
           frame == [type |-> "heartbeat", id |-> h.latest, status |-> None]
           frames == Append(h.frames, frame)
           upd == [h EXCEPT !.pc = "read", !.frames = frames]
<1>1. h.pc = "wait" /\ Handler(s, upd)
  BY DEF Heartbeat
<1>2. /\ h \in Handlers /\ h.run \in Runs /\ h.latest \in Nat /\ h.lastID \in Nat
      /\ h.frames \in Seq(Frames) /\ LatestId(log[h.run]) \in Nat
  BY <1>1, TakenHandler DEF QuietInv, Handlers
<1>3. /\ StreamWithin(h, log) /\ h.frames \in Seq(Written(log[h.run])) /\ h.latest <= h.lastID
      /\ h.lastID <= LatestId(log[h.run]) /\ h.latest <= LatestId(log[h.run])
  BY <1>1 DEF QuietInv, Within, StreamWithin
<1>4. frame \in Written(log[h.run]) /\ frame \in Frames /\ frame.id = h.latest
  BY <1>2, <1>3 DEF Written, Frames
<1> HIDE DEF frame
<1>5. /\ frames \in Seq(Written(log[h.run])) /\ frames \in Seq(Frames)
      /\ Len(frames) = Len(h.frames) + 1 /\ Len(h.frames) \in Nat
      /\ \A i \in 1..Len(h.frames) : frames[i] = h.frames[i]
      /\ frames[Len(h.frames) + 1] = frame
  BY <1>2, <1>3, <1>4, AppendProperties, LenProperties
<1> HIDE DEF frames
<1>6. /\ upd \in Handlers /\ upd.pc = "read" /\ upd.run = h.run /\ upd.frames = frames
      /\ upd.lastID = h.lastID /\ upd.latest = h.latest
  BY <1>2, <1>5 DEF Handlers
<1> HIDE DEF upd
<1>7. StreamWithin(upd, log)
  BY <1>2, <1>3, <1>5, <1>6 DEF StreamWithin
<1>8. Follows(page, status, log) => Leads(page, h)
  BY DEF Follows
<1>9. page \in Pages
  BY DEF QuietInv, StreamInv, PageOK
<1> HIDE DEF h
<1>10. ASSUME Leads(page, h) PROVE Leads(page, upd)
  <2>1. CASE h.run = page.runId
    <3>1. Covered(page, h.frames, h.lastID, Len(h.frames))
      BY <1>1, <1>10, <2>1 DEF Leads
    <3>2. Covered(page, h.frames, h.latest, Len(h.frames))
      <4>1. Len(h.frames) \in 0..Len(h.frames)
        BY <1>5
      <4> QED
        BY <1>2, <1>3, <1>9, <3>1, <4>1, CoveredDown
    <3>3. Covered(page, frames, h.lastID, Len(frames))
      <4>1. \A j \in 1..Len(h.frames) : j \in 1..Len(frames) /\ frames[j] = h.frames[j]
        BY <1>5
      <4> QED
        BY <3>1, <4>1 DEF Covered
    <3>4. /\ Len(h.frames) <= Len(upd.frames) /\ upd.run = h.run
          /\ \A i \in 1..Len(h.frames) : upd.frames[i] = h.frames[i]
          /\ Covered(page, upd.frames, upd.lastID, Len(upd.frames))
      BY <1>5, <1>6, <3>3
    <3>5. ASSUME NEW i \in (Len(h.frames) + 1)..Len(upd.frames)
          PROVE  Covered(page, h.frames, upd.frames[i].id, Len(h.frames))
      <4>1. i = Len(h.frames) + 1 /\ upd.frames[i].id = h.latest
        BY <1>4, <1>5, <1>6
      <4> QED
        BY <3>2, <4>1
    <3> QED
      BY <1>1, <1>2, <1>6, <1>10, <3>4, <3>5, LeadsGrows
  <2>2. CASE h.run # page.runId
    BY <1>6, <2>2 DEF Leads
  <2> QED
    BY <2>1, <2>2
<1> QED
  BY <1>1, <1>7, <1>8, <1>10, HandlerQuiet

LEMMA PollAgainQuiet ==
  ASSUME QuietInv, StreamInv', NEW s \in Streams, PollAgain(s) PROVE QuietInv'
<1> DEFINE h == page.streams[s]
           upd == [h EXCEPT !.pc = "read"]
<1>1. h.pc = "wait" /\ Handler(s, upd)
  BY DEF PollAgain
<1>2. h \in Handlers /\ StreamWithin(h, log)
  BY <1>1, TakenHandler DEF QuietInv, Within
<1>3. /\ upd.pc = "read" /\ upd.run = h.run /\ upd.frames = h.frames
      /\ upd.lastID = h.lastID /\ upd.latest = h.latest
  BY <1>2 DEF Handlers
<1> HIDE DEF upd
<1>4. StreamWithin(upd, log)
  BY <1>1, <1>2, <1>3 DEF StreamWithin
<1>5. Follows(page, status, log) => Leads(page, upd)
  BY <1>1, <1>3 DEF Follows, Leads
<1> QED
  BY <1>1, <1>4, <1>5, HandlerQuiet

-----------------------------------------------------------------------------
(* The callbacks.                                                          *)

\* A frame that is taken no longer counts: it was a heartbeat, or the page is past it.
LEMMA TailLeads ==
  ASSUME NEW p, NEW q, q.runId = p.runId, \A n \in Nat : Knows(p, n) => Knows(q, n),
         NEW h \in Handlers, Leads(p, h), h.frames # <<>>,
         \/ Head(h.frames).type = "heartbeat"
         \/ \A n \in Nat : n <= Head(h.frames).id => Knows(q, n),
         NEW rest, rest.pc = h.pc, rest.run = h.run, rest.lastID = h.lastID,
         rest.frames = Tail(h.frames)
  PROVE  Leads(q, rest)
<1>1. h.frames \in Seq(Frames) /\ h.lastID \in Nat
  BY DEF Handlers
<1> DEFINE k == Len(h.frames)
<1>2. /\ k \in Nat \ {0} /\ Len(rest.frames) = k - 1
      /\ \A i \in 1..(k - 1) : rest.frames[i] = h.frames[i + 1]
      /\ Head(h.frames) = h.frames[1]
  BY <1>1, HeadTailProperties, LenProperties, EmptySeq
<1>3. \A i \in 1..k : h.frames[i].id \in Nat
  <2>1. \A i \in 1..k : h.frames[i] \in Frames
    BY <1>1, ElementOfSeq
  <2> QED
    BY <2>1 DEF Frames
<1>4. Leads(p, h) = (h.pc # "free" /\ h.run = p.runId =>
        /\ Covered(p, h.frames, h.lastID, k)
        /\ \A i \in 1..k : h.frames[i].type = "heartbeat" =>
             Covered(p, h.frames, h.frames[i].id, i - 1))
  BY DEF Leads
<1> HIDE DEF k
<1>5. ASSUME NEW n \in Nat, NEW m \in 0..(k - 1), Covered(p, h.frames, n, m + 1)
      PROVE  Covered(q, rest.frames, n, m)
  <2>1. CASE Knows(p, n)
    BY <2>1 DEF Covered
  <2>2. ASSUME NEW j \in 1..(m + 1), h.frames[j].type # "heartbeat", h.frames[j].id >= n
        PROVE  Covered(q, rest.frames, n, m)
    <3>1. CASE j = 1
      BY <1>2, <1>3, <2>2, <3>1 DEF Covered
    <3>2. CASE j # 1
      <4>1. j - 1 \in 1..m /\ rest.frames[j - 1] = h.frames[j]
        BY <1>2, <3>2
      <4> QED
        BY <4>1, <2>2 DEF Covered
    <3> QED
      BY <3>1, <3>2
  <2> QED
    BY <1>5, <2>1, <2>2 DEF Covered
<1> SUFFICES ASSUME h.pc # "free", h.run = p.runId PROVE Leads(q, rest)
  BY DEF Leads
<1>6. Covered(q, rest.frames, rest.lastID, Len(rest.frames))
  <2>1. k - 1 \in 0..(k - 1) /\ (k - 1) + 1 = k
    BY <1>2
  <2> QED
    BY <2>1, <1>1, <1>2, <1>4, <1>5
<1>7. ASSUME NEW i \in 1..(k - 1), rest.frames[i].type = "heartbeat"
      PROVE  Covered(q, rest.frames, rest.frames[i].id, i - 1)
  <2>1. i - 1 \in 0..(k - 1) /\ (i - 1) + 1 = i /\ i + 1 \in 1..k /\ (i + 1) - 1 = i
    BY <1>2
  <2>2. rest.frames[i] = h.frames[i + 1]
    BY <1>2
  <2>3. Covered(p, h.frames, h.frames[i + 1].id, i)
    BY <2>1, <2>2, <1>4, <1>7
  <2> QED
    BY <2>1, <2>2, <2>3, <1>3, <1>5
<1> QED
  BY <1>2, <1>6, <1>7 DEF Leads

LEMMA DeliverFrameQuiet ==
  ASSUME QuietInv, StreamInv', NEW s \in Streams, DeliverFrame(s) PROVE QuietInv'
<1> DEFINE h == page.streams[s]
           rest == [h EXCEPT !.frames = Tail(h.frames)]
           p == Taken(s)
           f == Head(h.frames)
           q == Shown(p, f)
<1>1. /\ h.pc # "free" /\ h.frames # <<>> /\ h.run \in Runs /\ h.run # None
      /\ h \in Handlers /\ f \in Sent(log[h.run]) /\ page' = OnEvent(p, h.run, f)
      /\ UNCHANGED <<status, log, lastId, failures>>
      /\ PageOK(p, status, log) /\ Room(p) /\ Followed(p)
      /\ p.streams = [page.streams EXCEPT ![s] = rest]
      /\ rest.pc = h.pc /\ rest.run = h.run /\ rest.frames = Tail(h.frames)
      /\ p = [page EXCEPT !.streams[s] = rest]
  BY TakenFits DEF QuietInv
<1>2. rest.lastID = h.lastID /\ rest.latest = h.latest
  BY <1>1 DEF Handlers
<1>3. page \in Pages /\ LatestId(log[h.run]) \in Nat
  BY <1>1, LatestOfRuns DEF QuietInv, StreamInv, PageOK
<1>4. SamePage(page, p)
  BY <1>1, <1>3 DEF SamePage, SameView, Pages
<1>5. StreamWithin(h, log)
  BY DEF QuietInv, Within
<1>6. f \in Written(log[h.run]) /\ Tail(h.frames) \in Seq(Written(log[h.run]))
  BY <1>1, <1>5, HeadTailProperties DEF StreamWithin
<1> HIDE DEF f, p, rest
<1>7. StreamWithin(rest, log)
  BY <1>1, <1>2, <1>5, <1>6 DEF StreamWithin
<1>8. Within(p, log)
  BY <1>1, <1>3, <1>4, <1>7, SlotWithin DEF QuietInv, SamePage
<1>9. /\ f.id \in Nat /\ f.id <= LatestId(log[h.run]) /\ f.type \in {"event", "heartbeat", "stream.reset"}
      /\ f.type = "event" => f.status # None
  BY <1>6 DEF Written, Frames
<1>10. page.lastEventId \in Nat /\ p.lastEventId = page.lastEventId /\ p.runId = page.runId
       /\ p.request = page.request
  BY <1>3, <1>4 DEF Pages, SamePage, SameView
<1>11. ASSUME Follows(page, status, log),
              \/ h.run # page.runId \/ f.type = "heartbeat" \/ f.id <= page.lastEventId
       PROVE  Follows(p, status, log)
  <2>1. Leads(page, h)
    BY <1>11 DEF Follows
  <2>2. Leads(page, rest)
    <3>1. CASE h.run # page.runId
      BY <3>1, <1>1 DEF Leads
    <3>2. CASE f.type = "heartbeat"
      BY <3>2, <1>1, <1>2, <2>1, TailLeads DEF f
    <3>3. CASE f.id <= page.lastEventId
      <4>1. \A n \in Nat : n <= f.id => Knows(page, n)
        BY <3>3, <1>9, <1>10 DEF Knows
      <4> QED
        BY <4>1, <1>1, <1>2, <2>1, TailLeads DEF f
    <3> QED
      BY <3>1, <3>2, <3>3, <1>11
  <2> QED
    BY <1>1, <1>3, <1>4, <1>11, <2>2, SlotFollows
<1>12. CASE page' = p /\ (h.run # page.runId \/ f.id <= page.lastEventId)
  BY <1>1, <1>8, <1>11, <1>12, QuietStep DEF QuietInv
<1>15. StreamInv /\ LogOK(status, log, lastId)
  BY DEF QuietInv, StreamInv
<1>13. CASE page' = Refresh(p, FALSE) /\ h.run = p.runId
  <2>1. p.runId # None
    BY <1>1, <1>13
  <2>3. PageOK(p, status, log) /\ Room(p) /\ page' = Refresh(p, FALSE)
    BY <1>1, <1>13
  <2>2. Within(page', log) /\ Follows(page', status, log)
    BY <1>8, <1>15, <2>1, <2>3, RefreshFollows
  <2> QED
    BY <1>1, <2>2, QuietStep
<1>14. CASE /\ h.run = p.runId /\ f.id > p.lastEventId /\ f.type # "stream.reset"
            /\ page' = Applied(p, f)
  <2>1. /\ PageOK(q, status, log) /\ Room(q) /\ Followed(q)
        /\ Applied(p, f) = IF f.status # None THEN Refresh(q, FALSE) ELSE q
        /\ q.streams = p.streams /\ q.request = p.request /\ q.runId = p.runId
        /\ q.lastEventId = f.id
        /\ f.status = None => q.detail = p.detail
    <3>1. p.runId # None /\ f \in Sent(log[p.runId]) /\ f.id > p.lastEventId
      BY <1>1, <1>14
    <3> HIDE DEF q
    <3> QED
      BY <1>1, <1>15, <3>1, ShownFits DEF q
  <2>2. q.agent = p.agent /\ q.results = p.results
    BY <1>1 DEF Shown, PageOK, Pages
  <2> HIDE DEF q
  <2>3. Within(q, log)
    BY <1>8, <1>9, <1>14, <2>1 DEF Within
  <2>4. CASE f.status # None
    <3>1. page' = Refresh(q, FALSE) /\ q.runId # None
      BY <1>1, <1>14, <2>1, <2>4
    <3>2. Within(page', log) /\ Follows(page', status, log)
      BY <1>15, <2>1, <2>3, <3>1, RefreshFollows
    <3> QED
      BY <1>1, <3>2, QuietStep
  <2>5. CASE f.status = None
    <3>1. page' = q /\ f.type = "heartbeat"
      BY <1>9, <1>14, <2>1, <2>5
    <3>2. ASSUME Follows(page, status, log) PROVE Follows(q, status, log)
      <4>1. Follows(p, status, log)
        BY <1>11, <3>1, <3>2
      <4>2. Knows(page, f.id)
        <5>1. Leads(page, h)
          BY <3>2 DEF Follows
        <5>2. f = h.frames[1] /\ 1 \in 1..Len(h.frames)
          <6>1. h.frames \in Seq(Frames)
            BY <1>1 DEF Handlers
          <6>2. Len(h.frames) \in Nat \ {0}
            BY <6>1, <1>1, LenProperties, EmptySeq
          <6> QED
            BY <6>1, <6>2, <1>1, HeadTailProperties DEF f
        <5>3. Covered(page, h.frames, f.id, 0)
          <6>1. h.frames[1].type = "heartbeat" /\ h.run = page.runId
            BY <1>10, <1>14, <3>1, <5>2
          <6> QED
            BY <5>1, <5>2, <6>1, <1>1 DEF Leads
        <5> QED
          BY <5>3 DEF Covered
      <4>3. /\ p.request # None
            /\ p.request.phase = "sent" \/ f.id <= p.request.answer.latest
        <5>1. p.request # None /\ (p.request.phase = "sent" \/ p.request.answer.latest >= f.id)
          BY <4>2, <1>9, <1>10, <1>14 DEF Knows
        <5>2. p.request.phase # "sent" => p.request.answer.latest \in Nat
          BY <1>1, <5>1 DEF PageOK, Pages, Requests, Answers
        <5> QED
          BY <5>1, <5>2, <1>9
      <4>4. \A n \in Nat : Knows(p, n) => Knows(q, n)
        BY <1>9, <1>10, <1>14, <2>1 DEF Knows
      <4>5. \A x \in Streams : p.streams[x] \in Handlers /\ Leads(p, p.streams[x])
        BY <4>1, <1>1 DEF Follows, PageOK, Pages
      <4>6. \A x \in Streams : Leads(q, q.streams[x])
        BY <4>4, <4>5, <2>1, LeadsOn
      <4>7. Answered(q, status, log) /\ Displayed(q, status, log)
        BY <4>1, <4>3, <2>1, <2>2 DEF Follows, Answered, Displayed
      <4> QED
        BY <4>6, <4>7 DEF Follows
    <3> QED
      BY <1>1, <2>3, <3>1, <3>2, QuietStep DEF QuietInv
  <2> QED
    BY <2>4, <2>5
<1>16. \/ page' = p /\ (h.run # page.runId \/ f.id <= page.lastEventId)
       \/ page' = Refresh(p, FALSE) /\ h.run = p.runId
       \/ /\ h.run = p.runId /\ f.id > p.lastEventId /\ f.type # "stream.reset"
          /\ page' = Applied(p, f)
  <2>1. f.id > p.lastEventId \/ f.id <= page.lastEventId
    BY <1>9, <1>10
  <2> QED
    BY <2>1, <1>1, <1>10 DEF OnEvent, IsNewerEventId
<1> QED
  BY <1>12, <1>13, <1>14, <1>16

LEMMA DisconnectQuiet ==
  ASSUME QuietInv, StreamInv', NEW s \in Streams, Disconnect(s) PROVE QuietInv'
<1> DEFINE r == page.streams[s].run
           h == IF r = page.runId THEN Lost(r) ELSE Free
<1>1. page.streams[s].pc # "free" /\ UNCHANGED <<status, log, lastId, failures>>
  BY DEF Disconnect, Live, QuietInv, StreamInv, PageOK, Pages
<1>2. r \in Runs /\ LatestId(log[r]) \in Nat /\ page \in Pages
  BY <1>1, TakenHandler DEF QuietInv, StreamInv, PageOK
<1>3. page'.streams = [page.streams EXCEPT ![s] = h] /\ SamePage(page, page')
  BY <1>2 DEF Disconnect, Pages, SamePage, SameView
<1>4. \/ h.pc = "free"
      \/ h.pc = "lost" /\ h.run = r /\ h.lastID = 0 /\ h.latest = 0 /\ h.frames = <<>>
  BY DEF Lost, Free
<1> HIDE DEF h
<1>5. StreamWithin(h, log)
  <2> SUFFICES ASSUME h.pc # "free" PROVE StreamWithin(h, log)
    BY DEF StreamWithin
  <2>1. <<>> \in Seq(Written(log[r]))
    BY EmptySeq
  <2>2. h.pc = "lost" /\ h.run = r /\ h.lastID = 0 /\ h.latest = 0 /\ h.frames = <<>>
    BY <1>4
  <2>3. 0 <= LatestId(log[r])
    BY <1>2
  <2> HIDE DEF r
  <2> QED
    BY <2>1, <2>2, <2>3 DEF StreamWithin
<1>6. Leads(page, h)
  <2>1. page.lastEventId >= 0 /\ Len(<<>>) = 0
    BY <1>2, EmptySeq DEF Pages
  <2> QED
    BY <1>4, <2>1 DEF Leads, Covered, Knows
<1>7. Within(page', log)
  BY <1>2, <1>3, <1>5, SlotWithin DEF QuietInv, SamePage
<1>8. Follows(page, status, log) => Follows(page', status, log)
  BY <1>2, <1>3, <1>6, SlotFollows
<1> QED
  BY <1>1, <1>7, <1>8, QuietStep DEF QuietInv

LEMMA ReconnectQuiet ==
  ASSUME QuietInv, StreamInv', NEW s \in Streams, Reconnect(s) PROVE QuietInv'
<1> DEFINE r == page.streams[s].run
           p == Fired(s)
<1>1. /\ UNCHANGED <<status, log, lastId, failures>> /\ r # None
      /\ page' = IF r = page.runId THEN Refresh(p, TRUE) ELSE p
      /\ PageOK(p, status, log) /\ p.streams = [page.streams EXCEPT ![s] = Free]
      /\ p.runId = page.runId /\ Room(p)
  BY FiredFits DEF QuietInv
<1>2. page \in Pages /\ StreamInv /\ LogOK(status, log, lastId)
  BY DEF QuietInv, StreamInv, PageOK
<1>3. SamePage(page, p)
  BY <1>2 DEF Fired, Pages, SamePage, SameView
<1> HIDE DEF p
<1>4. StreamWithin(Free, log) /\ Leads(page, Free)
  BY DEF StreamWithin, Leads, Free
<1>5. Within(p, log)
  BY <1>1, <1>2, <1>3, <1>4, SlotWithin DEF QuietInv, SamePage
<1>6. Follows(page, status, log) => Follows(p, status, log)
  BY <1>1, <1>2, <1>3, <1>4, SlotFollows
<1>7. CASE r = page.runId
  <2>1. page' = Refresh(p, TRUE) /\ p.runId # None
    BY <1>1, <1>7
  <2>2. PageOK(p, status, log) /\ Room(p)
    BY <1>1
  <2>3. Within(page', log) /\ Follows(page', status, log)
    BY <1>2, <1>5, <2>1, <2>2, RefreshFollows
  <2> QED
    BY <1>1, <2>3, QuietStep
<1>8. CASE r # page.runId
  BY <1>1, <1>5, <1>6, <1>8, QuietStep DEF QuietInv
<1> QED
  BY <1>7, <1>8

LEMMA QuietInit == Init => QuietInv
<1> SUFFICES ASSUME Init PROVE QuietInv
  OBVIOUS
<1>1. StreamInv
  BY StreamInit
<1>2. page.runId = None /\ page.request = None /\ \A s \in Streams : page.streams[s] = Free
  BY DEF Init
<1> QED
  BY <1>1, <1>2
     DEF QuietInv, Within, StreamWithin, Follows, Answered, Displayed, Leads, Free

LEMMA QuietNext == QuietInv /\ BacklogFits /\ [Next]_vars => QuietInv'
<1> SUFFICES ASSUME QuietInv, BacklogFits, [Next]_vars PROVE QuietInv'
  OBVIOUS
<1>1. StreamInv /\ StreamInv'
  BY StreamNext DEF QuietInv
<1>2. ASSUME NEW r \in Runs, Advance(r) PROVE QuietInv'
  <2>1. PICK t \in Transactions :
          /\ status[r] = t[1] /\ status' = [status EXCEPT ![r] = Last(t[2])]
          /\ Insert(r, t[2]) /\ UNCHANGED <<page, failures>>
    BY <1>2 DEF Advance
  <2>2. t[2] \in Seq(Statuses) /\ t[2] # <<>>
    BY <2>1, TransactionTypes
  <2>3. \A x \in Runs : x # r => status'[x] = status[x]
    BY <1>1, <2>1 DEF StreamInv, LogOK
  <2> QED
    BY <1>1, <2>1, <2>2, <2>3, LogGrowsQuietly
<1>3. ASSUME NEW r \in Runs, Notice(r) PROVE QuietInv'
  <2> DEFINE stats == <<status[r]>>
  <2>1. status[r] \in Statuses /\ Insert(r, stats) /\ UNCHANGED <<status, page, failures>>
    BY <1>3 DEF Notice, Statuses
  <2>2. stats \in Seq(Statuses) /\ stats # <<>>
    BY <2>1
  <2> HIDE DEF stats
  <2> QED
    BY <1>1, <2>1, <2>2, LogGrowsQuietly
<1>4. ASSUME NEW r \in Runs, SelectRun(r) PROVE QuietInv'
  BY <1>1, <1>4, SelectRunQuiet
<1>5. ASSUME NEW a \in Agents, SelectAgent(a) PROVE QuietInv'
  BY <1>1, <1>5, SelectAgentQuiet
<1>6. CASE ServeDetail \/ DetailArrives \/ ResultsArrive \/ RequestFails
  BY <1>1, <1>6, ServeDetailQuiet, DetailArrivesQuiet, ResultsArriveQuiet, RequestFailsQuiet
<1>7. ASSUME NEW s \in Streams,
             ReadBounds(s) \/ ReadRows(s) \/ Heartbeat(s) \/ PollAgain(s)
      PROVE  QuietInv'
  BY <1>1, <1>7, ReadBoundsQuiet, ReadRowsQuiet, HeartbeatQuiet, PollAgainQuiet
<1>8. ASSUME NEW s \in Streams, DeliverFrame(s) \/ Disconnect(s) \/ Reconnect(s)
      PROVE  QuietInv'
  BY <1>1, <1>8, DeliverFrameQuiet, DisconnectQuiet, ReconnectQuiet
<1>9. CASE UNCHANGED vars
  BY <1>1, <1>9, QuietStep DEF vars, QuietInv
<1> QED
  BY <1>2, <1>3, <1>4, <1>5, <1>6, <1>7, <1>8, <1>9 DEF Next

\* The invariant says more than the property: a quiet page knows the whole log.
LEMMA QuietEnough == QuietInv => QuietMeansCurrent
<1> SUFFICES ASSUME QuietInv, failures = 0, NEW s \in Streams, Quiet(s) PROVE Current
  BY DEF QuietMeansCurrent
<1> DEFINE h == page.streams[s]
<1>1. /\ h.pc # "free" /\ h.run = page.runId /\ page.request = None /\ h.frames = <<>>
      /\ h.lastID >= LatestId(log[page.runId])
  BY DEF Quiet, Live
<1>2. /\ h.run \in Runs /\ h.run # None /\ h.lastID \in Nat /\ LatestId(log[h.run]) \in Nat
      /\ page.lastEventId \in Nat
  BY <1>1, TakenHandler, StreamAssumption DEF QuietInv, StreamInv, PageOK, Pages, Handlers
<1>3. Leads(page, h) /\ Displayed(page, status, log)
  BY DEF QuietInv, Follows
<1>4. page.lastEventId >= h.lastID
  <2>1. Covered(page, h.frames, h.lastID, 0)
    BY <1>1, <1>3, EmptySeq DEF Leads
  <2> QED
    BY <1>1, <2>1 DEF Covered, Knows
<1> HIDE DEF h
<1>5. page.lastEventId >= LatestId(log[page.runId])
  BY <1>1, <1>2, <1>4
<1> QED
  BY <1>1, <1>2, <1>3, <1>5 DEF Displayed, Current

\* A page that has nothing left to read shows the run as it is, and the results
\* of a completed run, as long as REST reads succeed and what a handler has still
\* to send fits one page of EventsAfter: however streams are lost and reopened,
\* requests aborted and answers overtaken by events, resets and heartbeats.
THEOREM QuietPagesAreCurrent == Spec /\ []BacklogFits => []QuietMeansCurrent
<1>1. Spec /\ []BacklogFits => []QuietInv
  BY QuietInit, QuietNext, PTL DEF Spec
<1> QED
  BY <1>1, QuietEnough, PTL

-----------------------------------------------------------------------------
(* How much of a log there is to read.                                     *)

Distinct(rows) == \A e, f \in rows : e.id = f.id => e = f
ShortLogs == \A r \in Runs : Distinct(log[r]) /\ Cardinality(log[r]) <= Retention

LEMMA RetainedIsShort ==
  ASSUME NEW last \in Nat, NEW rows \in Rows(last), Distinct(rows)
  PROVE  Distinct(Retained(rows)) /\ Cardinality(Retained(rows)) <= Retention
<1> DEFINE kept == Retained(rows)
<1>1. kept \in SUBSET rows /\ IsFiniteSet(kept) /\ IsFiniteSet(rows)
  BY FS_Subset DEF Retained, Rows
<1>2. \A e \in rows : e.id \in Nat
  BY DEF Rows
<1>3. CASE kept = {}
  BY <1>3, FS_EmptySet, StreamAssumption DEF Distinct
<1>4. CASE kept # {}
  <2>1. PICK n \in Ids(kept) : \A i \in Ids(kept) : ~(<<i, n>> \in OpToRel(<, Nat))
    <3>1. Ids(kept) \subseteq Nat /\ Ids(kept) # {}
      BY <1>1, <1>2, <1>4 DEF Ids
    <3> HIDE DEF kept
    <3> QED
      BY <3>1, NatLessThanWellFounded, WFMin
  <2>2. PICK m \in kept : m.id = n
    BY DEF Ids
  <2> DEFINE newer == {f \in rows : f.id > m.id}
  <2>3. kept \ {m} \in SUBSET newer
    <3>1. ASSUME NEW e \in kept, e # m PROVE e.id > m.id
      <4>1. ~(e.id < m.id)
        BY <1>1, <1>2, <2>1, <2>2 DEF Ids, OpToRel
      <4>2. e.id # m.id
        BY <1>1, <3>1 DEF Distinct
      <4> QED
        BY <4>1, <4>2, <1>1, <1>2
    <3> QED
      BY <3>1, <1>1
  <2>4. IsFiniteSet(newer) /\ Cardinality(newer) < Retention
    <3>1. newer \in SUBSET rows
      OBVIOUS
    <3> QED
      BY <1>1, <3>1, FS_Subset DEF Retained
  <2>5. Cardinality(kept \ {m}) <= Cardinality(newer) /\ Cardinality(newer) \in Nat
    BY <2>3, <2>4, FS_Subset, FS_CardinalityType
  <2>6. Cardinality(kept \ {m}) = Cardinality(kept) - 1 /\ Cardinality(kept) \in Nat
    BY <1>1, FS_RemoveElement, FS_CardinalityType
  <2> QED
    BY <1>1, <2>4, <2>5, <2>6, StreamAssumption DEF Distinct
<1> QED
  BY <1>3, <1>4

LEMMA InsertedIsShort ==
  ASSUME lastId \in Nat, NEW rows \in Rows(lastId), Distinct(rows), NEW stats \in Seq(Statuses)
  PROVE  Distinct(Inserted(rows, stats)) /\ Cardinality(Inserted(rows, stats)) <= Retention
<1> DEFINE n == Len(stats)
           row(i) == [id |-> lastId + i, status |-> stats[i]]
           more == {row(i) : i \in DOMAIN stats}
<1>1. n \in Nat /\ DOMAIN stats = 1..n /\ \A i \in 1..n : stats[i] \in Statuses
  BY LenProperties, ElementOfSeq
<1>2. \A e \in more : e \in Events /\ e.id \in (lastId + 1)..(lastId + n)
  BY <1>1 DEF Events
<1>3. Distinct(more)
  BY <1>1 DEF Distinct
<1>4. IsFiniteSet(more)
  <2> DEFINE f == [i \in 1..n |-> row(i)]
  <2>1. f \in Surjection(1..n, more)
    BY <1>1 DEF Surjection
  <2>2. IsFiniteSet(1..n)
    BY <1>1, FS_Interval
  <2> HIDE DEF f, more
  <2> QED
    BY <2>1, <2>2, FS_Surjection
<1> HIDE DEF more
<1>5. \A e \in rows : e \in Events /\ e.id \in 1..lastId
  BY DEF Rows
<1>6. rows \cup more \in Rows(lastId + n) /\ lastId + n \in Nat
  <2>1. IsFiniteSet(rows \cup more)
    BY <1>4, FS_Union DEF Rows
  <2>2. \A e \in rows \cup more : e \in Events /\ e.id \in 1..(lastId + n)
    BY <1>1, <1>2, <1>5
  <2> QED
    BY <1>1, <2>1, <2>2 DEF Rows
<1>7. Distinct(rows \cup more)
  BY <1>2, <1>3, <1>5 DEF Distinct
<1> HIDE DEF n
<1>8. Inserted(rows, stats) = Retained(rows \cup more)
  BY DEF Inserted, more
<1> QED
  BY <1>6, <1>7, <1>8, RetainedIsShort

LEMMA ShortLogsNext == StreamInv /\ ShortLogs /\ [Next]_vars => ShortLogs'
<1> SUFFICES ASSUME StreamInv, ShortLogs, [Next]_vars PROVE ShortLogs'
  OBVIOUS
<1>1. ASSUME NEW r \in Runs, NEW stats \in Seq(Statuses), Insert(r, stats) PROVE ShortLogs'
  <2>1. lastId \in Nat /\ log[r] \in Rows(lastId) /\ Distinct(log[r])
    BY LatestIsId DEF StreamInv, ShortLogs
  <2>2. \A x \in Runs : log'[x] = IF x = r THEN Inserted(log[r], stats) ELSE log[x]
    BY <1>1 DEF Insert, StreamInv, LogOK
  <2>3. Distinct(Inserted(log[r], stats)) /\ Cardinality(Inserted(log[r], stats)) <= Retention
    BY <2>1, InsertedIsShort
  <2> QED
    BY <2>2, <2>3 DEF ShortLogs
<1>2. ASSUME NEW r \in Runs, Advance(r) PROVE ShortLogs'
  <2>1. PICK t \in Transactions : Insert(r, t[2])
    BY <1>2 DEF Advance
  <2>2. t[2] \in Seq(Statuses)
    BY TransactionTypes
  <2> QED
    BY <1>1, <2>1, <2>2
<1>3. ASSUME NEW r \in Runs, Notice(r) PROVE ShortLogs'
  <2>1. <<status[r]>> \in Seq(Statuses) /\ Insert(r, <<status[r]>>)
    BY <1>3 DEF Notice, Statuses
  <2> QED
    BY <1>1, <2>1
<1>4. CASE UNCHANGED log
  BY <1>4 DEF ShortLogs
<1> QED
  BY <1>2, <1>3, <1>4
     DEF Next, vars, SelectRun, SelectAgent, ServeDetail, DetailArrives, ResultsArrive,
         RequestFails, ReadBounds, ReadRows, Heartbeat, PollAgain, Handler, DeliverFrame,
         Disconnect, Reconnect

\* retain_simulation_events keeps at most Retention rows of a run, with
\* distinct ids, however many rows a transaction inserts: what a reader that was
\* away has still to fetch is bounded.
THEOREM LogsStayShort == Spec => []ShortLogs
<1>1. Init => ShortLogs
  <2>1. Cardinality({}) <= Retention
    BY FS_EmptySet, StreamAssumption
  <2> QED
    BY <2>1 DEF Init, ShortLogs, Distinct
<1> QED
  BY <1>1, StreamInit, StreamNext, ShortLogsNext, PTL DEF Spec
=============================================================================
