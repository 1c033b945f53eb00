------------------------ MODULE ProfileDrafts_proofs ------------------------
(***************************************************************************)
(* The configuration view and the versions behind it keep their types,     *)
(* equal contents share one version, and every copy the page holds of a    *)
(* version is faithful, for any values, constraints, names and calls.      *)
(***************************************************************************)
EXTENDS ProfileDrafts, FiniteSetTheorems, SequenceTheorems, TLAPS

-----------------------------------------------------------------------------
(* The inductive invariant.  What the page, the calls and the answers on   *)
(* their way hold are copies of stored versions or the Reference; a        *)
(* version's content and base never change, so copies of earlier versions  *)
(* stay copies.                                                            *)

Versions == [base : {0}, name : Aliases, content : Contents]

Copies(st) ==
  {p \in [id : 1 .. Len(st), base : {0}, name : Aliases, content : Contents] :
      p.content = st[p.id].content /\ p.base = st[p.id].base}

\* What the list route answers with, and so what the page lists and shows.
Listable(st) == Copies(st) \cup {Reference}

\* No version twice.
DistinctIds(list) == \A i, j \in DOMAIN list : list[i].id = list[j].id => i = j

DraftsOf(st) == [of : Listable(st), base : {0},
                 name : Aliases \cup {None}, content : Contents]

PagesOf(st) ==
  [reference : BOOLEAN, custom : Listable(st) \cup {None}, list : Seq(Listable(st)),
   draft : {None} \cup DraftsOf(st), pending : BOOLEAN,
   rename : {"closed", "open", "pending"},
   load : {"reference", "list", "served", "done"}, loaded : Seq(Listable(st))]

ConfigOK(c, st) ==
  /\ c \in PagesOf(st)
  /\ DistinctIds(c.list) /\ DistinctIds(c.loaded)
  /\ c.pending => c.draft # None

CallsOf(st) ==
  [at : {"sent", "refused", "insert", "answered"}, base : {0}, name : Aliases,
   content : Contents, answer : Copies(st) \cup {None}]

CallOK(call, st) ==
  /\ call \in CallsOf(st)
  /\ call.at = "answered" => call.answer \in Copies(st)

SavesOK(calls, st) ==
  /\ calls = [s \in Saves |-> calls[s]]
  /\ \A s \in Saves : calls[s] # None => CallOK(calls[s], st)

RenameOK(r, st) ==
  /\ r \in [at : {"sent", "answered", "refused"}, id : 0 .. Len(st), name : Aliases,
            answer : Copies(st) \cup {None}]
  /\ r.at = "answered" => r.answer \in Copies(st) /\ r.answer.id = r.id

StoredOK(st) ==
  /\ st \in Seq(Versions)
  /\ \A i, j \in DOMAIN st : st[i].content = st[j].content => i = j

ActBounds == acts \in 0 .. MaxActs /\ broken \in 0 .. MaxBroken

PInv ==
  /\ StoredOK(stored) /\ ConfigOK(config, stored) /\ SavesOK(saves, stored)
  /\ \A r \in renames : RenameOK(r, stored)
  /\ ActBounds

-----------------------------------------------------------------------------
(* Versions only grow, and are only renamed.                               *)

Grown(st, st2) ==
  /\ Len(st) <= Len(st2)
  /\ \A i \in DOMAIN st : st2[i].content = st[i].content /\ st2[i].base = st[i].base

LEMMA CopiesGrow ==
  ASSUME NEW st \in Seq(Versions), NEW st2 \in Seq(Versions), Grown(st, st2)
  PROVE  Copies(st) \subseteq Copies(st2)
<1>1. Len(st) \in Nat /\ Len(st2) \in Nat /\ DOMAIN st = 1 .. Len(st)
  OBVIOUS
<1> QED
  BY <1>1 DEF Copies, Grown

LEMMA ConfigGrows ==
  ASSUME NEW st \in Seq(Versions), NEW st2 \in Seq(Versions), Grown(st, st2),
         NEW c, ConfigOK(c, st)
  PROVE  ConfigOK(c, st2)
<1>1. Listable(st) \subseteq Listable(st2)
  BY CopiesGrow DEF Listable
<1>2. c.list \in Seq(Listable(st2)) /\ c.loaded \in Seq(Listable(st2))
  BY <1>1, SeqMonotonic DEF ConfigOK, PagesOf
<1>3. DraftsOf(st) \subseteq DraftsOf(st2)
  BY <1>1 DEF DraftsOf
<1> QED
  BY <1>1, <1>2, <1>3 DEF ConfigOK, PagesOf

LEMMA SavesGrow ==
  ASSUME NEW st \in Seq(Versions), NEW st2 \in Seq(Versions), Grown(st, st2),
         NEW calls, SavesOK(calls, st)
  PROVE  SavesOK(calls, st2)
<1>1. Copies(st) \subseteq Copies(st2)
  BY CopiesGrow
<1>2. \A call : CallOK(call, st) => CallOK(call, st2)
  BY <1>1 DEF CallOK, CallsOf
<1> QED
  BY <1>2 DEF SavesOK

LEMMA RenameGrows ==
  ASSUME NEW st \in Seq(Versions), NEW st2 \in Seq(Versions), Grown(st, st2),
         NEW r, RenameOK(r, st)
  PROVE  RenameOK(r, st2)
<1>1. Copies(st) \subseteq Copies(st2)
  BY CopiesGrow
<1>2. Len(st) \in Nat /\ Len(st2) \in Nat
  OBVIOUS
<1> QED
  BY <1>1, <1>2 DEF RenameOK, Grown

-----------------------------------------------------------------------------
(* Lists of copies.                                                        *)

\* The answer of a save goes to the front of what the page listed of others.
LEMMA Fronted ==
  ASSUME NEW T, NEW p \in T, NEW list \in Seq(T),
         \A x \in T : x.id \in Nat,
         DistinctIds(list),
         NEW others \in InOrder({i \in DOMAIN list : list[i].id # p.id})
  PROVE  LET next == <<p>> \o [i \in DOMAIN others |-> list[others[i]]]
         IN next \in Seq(T) /\ DistinctIds(next)
<1> DEFINE K == {i \in DOMAIN list : list[i].id # p.id}
           n == Cardinality(K)
           rest == [i \in DOMAIN others |-> list[others[i]]]
           next == <<p>> \o rest
<1>1. DOMAIN list = 1 .. Len(list) /\ Len(list) \in Nat
  OBVIOUS
<1>2. n \in Nat
  <2>1. IsFiniteSet(1 .. Len(list))
    BY <1>1, FS_Interval
  <2>2. K \subseteq 1 .. Len(list)
    BY <1>1
  <2> QED
    BY <2>1, <2>2, FS_Subset, FS_CardinalityType
<1>3. others \in [1 .. n -> K] /\ \A i, j \in 1 .. n : i < j => others[i] < others[j]
  BY DEF InOrder
<1>4. DOMAIN others = 1 .. n
  BY <1>3
<1>5. \A i \in 1 .. n : others[i] \in K /\ list[others[i]] \in T
  BY <1>1, <1>3
<1>6. rest \in Seq(T) /\ Len(rest) = n /\ \A i \in 1 .. n : rest[i] = list[others[i]]
  <2> HIDE DEF K, n
  <2>1. rest = [i \in 1 .. n |-> list[others[i]]]
    BY <1>4
  <2>2. [i \in 1 .. n |-> list[others[i]]] \in Seq(T)
    BY <1>2, <1>5, IsASeq
  <2> QED
    BY <1>2, <2>1, <2>2
<1>7. <<p>> \in Seq(T) /\ Len(<<p>>) = 1 /\ <<p>>[1] = p
  OBVIOUS
<1>8. /\ next \in Seq(T) /\ DOMAIN next = 1 .. n + 1
      /\ next[1] = p /\ \A i \in 2 .. n + 1 : next[i] = list[others[i - 1]]
  <2> HIDE DEF rest, n
  <2>1. /\ next \in Seq(T) /\ Len(next) = Len(<<p>>) + Len(rest)
        /\ \A i \in 1 .. Len(<<p>>) + Len(rest) :
              next[i] = IF i <= Len(<<p>>) THEN <<p>>[i] ELSE rest[i - Len(<<p>>)]
    BY <1>6, <1>7, ConcatProperties
  <2> HIDE DEF next
  <2>2. Len(next) = n + 1 /\ DOMAIN next = 1 .. n + 1
    BY <1>2, <1>6, <1>7, <2>1
  <2>3. next[1] = p
    BY <1>2, <1>6, <1>7, <2>1
  <2>4. ASSUME NEW i \in 2 .. n + 1
        PROVE  next[i] = list[others[i - 1]]
    <3>1. i \in 1 .. Len(<<p>>) + Len(rest) /\ ~(i <= Len(<<p>>)) /\ i - 1 \in 1 .. n
      BY <1>2, <1>6, <1>7, <2>4
    <3>2. next[i] = rest[i - 1]
      BY <1>7, <2>1, <3>1
    <3> QED
      BY <1>6, <3>1, <3>2
  <2> QED
    BY <2>1, <2>2, <2>3, <2>4
<1>9. \A i, j \in 1 .. n : others[i] = others[j] => i = j
  <2> TAKE i \in 1 .. n, j \in 1 .. n
  <2>1. others[i] \in Nat /\ others[j] \in Nat
    BY <1>1, <1>5
  <2> QED
    BY <1>2, <1>3, <2>1
<1>10. DistinctIds(next)
  <2> SUFFICES ASSUME NEW i \in 1 .. n + 1, NEW j \in 1 .. n + 1,
                      next[i].id = next[j].id
               PROVE  i = j
    BY <1>8 DEF DistinctIds
  <2> HIDE DEF next
  <2>1. \A k \in 2 .. n + 1 : k - 1 \in 1 .. n
    BY <1>2
  <2>2. \A k \in 2 .. n + 1 : next[k].id # p.id
    BY <1>5, <1>8, <2>1
  <2>3. CASE i = 1 \/ j = 1
    BY <1>2, <1>8, <2>2, <2>3
  <2>4. CASE i \in 2 .. n + 1 /\ j \in 2 .. n + 1
    <3>1. list[others[i - 1]].id = list[others[j - 1]].id
      BY <1>8, <2>4
    <3>2. others[i - 1] = others[j - 1]
      BY <1>5, <2>1, <2>4, <3>1 DEF DistinctIds
    <3>3. i - 1 = j - 1
      BY <1>9, <2>1, <2>4, <3>2
    <3> QED
      BY <2>4, <3>3
  <2> QED
    BY <1>2, <2>3, <2>4
<1> QED
  BY <1>8, <1>10

-----------------------------------------------------------------------------
(* Copies and drafts.                                                      *)

LEMMA ReferenceFacts ==
  /\ Reference.id = 0 /\ Reference.base = None /\ Reference.content = Original
  /\ Original \in Contents
  BY DraftAssumption DEF Reference, Original, Contents

LEMMA CopyType ==
  ASSUME StoredOK(stored), NEW i \in DOMAIN stored
  PROVE  Copy(i) \in Copies(stored) /\ Copy(i).id = i
<1>1. stored[i] \in Versions /\ i \in 1 .. Len(stored)
  BY DEF StoredOK
<1> QED
  BY <1>1 DEF Copy, Copies, Versions

\* What the list route answers with has each version at most once.
LEMMA ListedOK ==
  ASSUME StoredOK(stored)
  PROVE  ListedVersions \in Seq(Listable(stored)) /\ DistinctIds(ListedVersions)
<1> DEFINE n == Len(stored)
           copies == [i \in DOMAIN stored |-> Copy(i)]
           newest == Reverse(copies)
           all == newest \o <<Reference>>
           k == IF Len(all) < ListLimit THEN Len(all) ELSE ListLimit
<1>1. n \in Nat /\ DOMAIN stored = 1 .. n
  BY DEF StoredOK
<1>2. \A i \in 1 .. n : Copy(i) \in Listable(stored) /\ Copy(i).id = i
  BY <1>1, CopyType DEF Listable
<1>3. ListedVersions = SubSeq(all, 1, k)
  BY DEF ListedVersions
<1> HIDE DEF n
<1>4. copies = [i \in 1 .. n |-> Copy(i)]
  BY <1>1
<1>5. Len(copies) = n
  BY <1>1, <1>2, <1>4, IsASeq
<1>6. newest = [i \in 1 .. n |-> Copy(n - i + 1)]
  BY <1>1, <1>4, <1>5 DEF Reverse
<1>7. \A i \in 1 .. n : Copy(n - i + 1) \in Listable(stored) /\ Copy(n - i + 1).id = n - i + 1
  BY <1>1, <1>2
<1>8. newest \in Seq(Listable(stored)) /\ Len(newest) = n
      /\ \A i \in 1 .. n : newest[i].id = n - i + 1
  <2> HIDE DEF newest
  <2>1. newest \in Seq(Listable(stored))
    BY <1>1, <1>6, <1>7, IsASeq
  <2>2. DOMAIN newest = 1 .. n /\ \A i \in 1 .. n : newest[i].id = n - i + 1
    BY <1>6, <1>7
  <2>3. Len(newest) = n
    BY <1>1, <2>1, <2>2
  <2> QED
    BY <2>1, <2>2, <2>3
<1>9. <<Reference>> \in Seq(Listable(stored)) /\ Len(<<Reference>>) = 1
      /\ <<Reference>>[1].id = 0
  BY ReferenceFacts DEF Listable
<1> HIDE DEF newest
<1>10. /\ all \in Seq(Listable(stored)) /\ Len(all) = n + 1
       /\ \A i \in 1 .. n + 1 : all[i].id = n + 1 - i
  <2>1. /\ all \in Seq(Listable(stored)) /\ Len(all) = Len(newest) + Len(<<Reference>>)
        /\ \A i \in 1 .. Len(newest) + Len(<<Reference>>) :
              all[i] = IF i <= Len(newest) THEN newest[i] ELSE <<Reference>>[i - Len(newest)]
    BY <1>8, <1>9, ConcatProperties
  <2> HIDE DEF all
  <2>2. ASSUME NEW i \in 1 .. n + 1 PROVE all[i].id = n + 1 - i
    <3>1. CASE i \in 1 .. n
      <4>1. all[i] = newest[i]
        BY <1>1, <1>8, <1>9, <2>1, <3>1
      <4> QED
        BY <1>1, <1>8, <3>1, <4>1
    <3>2. CASE i = n + 1
      <4>1. all[i] = <<Reference>>[1]
        BY <1>1, <1>8, <1>9, <2>1, <3>2
      <4> QED
        BY <1>1, <1>9, <3>2, <4>1
    <3> QED
      BY <1>1, <3>1, <3>2
  <2> QED
    BY <1>8, <1>9, <2>1, <2>2
<1> HIDE DEF all
<1>11. k \in 0 .. n + 1
  BY <1>1, <1>10, DraftAssumption
<1> HIDE DEF k
<1>12. /\ ListedVersions \in Seq(Listable(stored)) /\ DOMAIN ListedVersions = 1 .. k
       /\ \A i \in 1 .. k : ListedVersions[i] = all[i] /\ i \in 1 .. n + 1
  BY <1>1, <1>3, <1>10, <1>11
<1>13. DistinctIds(ListedVersions)
  <2> SUFFICES ASSUME NEW i \in 1 .. k, NEW j \in 1 .. k, ListedVersions[i].id = ListedVersions[j].id
               PROVE  i = j
    BY <1>12 DEF DistinctIds
  <2>1. n + 1 - i = n + 1 - j
    BY <1>10, <1>12
  <2> QED
    BY <1>1, <1>11, <2>1
<1> QED
  BY <1>12, <1>13

LEMMA DraftType ==
  ASSUME NEW st, NEW p \in Listable(st)
  PROVE  DraftOf(p) \in DraftsOf(st)
<1>1. CASE p \in Copies(st)
  <2>1. p.base = 0 /\ p.content \in Contents /\ None # 0
    BY <1>1, DraftAssumption DEF Copies
  <2> QED
    BY <1>1, <2>1 DEF DraftOf, DraftsOf, Listable
<1>2. CASE p = Reference
  BY <1>2, ReferenceFacts DEF DraftOf, DraftsOf, Listable
<1> QED
  BY <1>1, <1>2 DEF Listable

LEMMA BegunOK ==
  ASSUME NEW st, NEW c, ConfigOK(c, st)
  PROVE  ConfigOK(Begun(c), st)
<1>1. CASE c.pending \/ (c.custom = None /\ ~c.reference)
  BY <1>1 DEF Begun
<1>2. CASE ~(c.pending \/ (c.custom = None /\ ~c.reference))
  <2> DEFINE d == DraftOf(IF c.custom # None THEN c.custom ELSE Reference)
  <2>1. d \in DraftsOf(st)
    BY DraftType DEF ConfigOK, PagesOf, Listable
  <2>2. Begun(c) = [c EXCEPT !.draft = d, !.rename = "closed"]
    BY <1>2 DEF Begun
  <2> HIDE DEF d
  <2>3. [c EXCEPT !.draft = d, !.rename = "closed"] \in PagesOf(st)
    BY <2>1 DEF ConfigOK, PagesOf
  <2> QED
    BY <1>2, <2>2, <2>3 DEF ConfigOK, PagesOf
<1> QED
  BY <1>1, <1>2

-----------------------------------------------------------------------------
(* The steps of the user.                                                  *)

\* A step of the user that keeps the calls: the page is all there is to it.
LEMMA ActKeeps ==
  ASSUME PInv, NEW c, ConfigOK(c, stored), Act(c), UNCHANGED saves
  PROVE  PInv'
<1>1. /\ stored' = stored /\ config' = c /\ saves' = saves /\ renames' = renames
      /\ acts' = acts + 1 /\ acts < MaxActs /\ broken' = broken
  BY DEF Act
<1>2. ActBounds'
  BY <1>1, DraftAssumption DEF PInv, ActBounds
<1> QED
  BY <1>1, <1>2 DEF PInv

LEMMA KeptChooseReference == PInv /\ ChooseReference => PInv'
<1> SUFFICES ASSUME PInv, ChooseReference PROVE PInv'
  OBVIOUS
<1> DEFINE c == [config EXCEPT !.custom = None, !.draft = None, !.rename = "closed"]
<1>1. ConfigOK(c, stored)
  BY DEF PInv, ConfigOK, PagesOf, ChooseReference
<1> QED
  BY <1>1, ActKeeps DEF ChooseReference

LEMMA KeptBeginDraft == PInv /\ BeginDraft => PInv'
  BY BegunOK, ActKeeps DEF PInv, BeginDraft

LEMMA KeptPickVersion == \A p : PInv /\ PickVersion(p) => PInv'
<1> SUFFICES ASSUME NEW p, PInv, PickVersion(p) PROVE PInv'
  OBVIOUS
<1> DEFINE c == [config EXCEPT !.custom = p]
<1>1. p \in Listable(stored)
  BY DEF PInv, ConfigOK, PagesOf, PickVersion, Contains
<1>2. c \in PagesOf(stored)
  BY <1>1 DEF PInv, ConfigOK, PagesOf
<1>3. ConfigOK(c, stored)
  BY <1>2 DEF PInv, ConfigOK, PagesOf
<1> HIDE DEF c
<1>4. ConfigOK(Begun(c), stored)
  BY <1>3, BegunOK
<1> QED
  BY <1>4, ActKeeps DEF PickVersion, c

\* Any change of the draft alone, while no save is pending.
LEMMA DraftChanged ==
  ASSUME NEW st, NEW c, ConfigOK(c, st), NEW d \in {None} \cup DraftsOf(st), ~c.pending
  PROVE  ConfigOK([c EXCEPT !.draft = d], st)
<1>1. [c EXCEPT !.draft = d] \in PagesOf(st)
  BY DEF ConfigOK, PagesOf
<1> QED
  BY <1>1 DEF ConfigOK, PagesOf

LEMMA KeptNameDraft == \A n \in Aliases : PInv /\ NameDraft(n) => PInv'
<1> SUFFICES ASSUME NEW n \in Aliases, PInv, NameDraft(n) PROVE PInv'
  OBVIOUS
<1> DEFINE d == [config.draft EXCEPT !.name = n]
           c == [config EXCEPT !.draft = d]
<1>1. config.draft \in DraftsOf(stored) /\ ~config.pending /\ ConfigOK(config, stored)
  BY DEF PInv, ConfigOK, PagesOf, NameDraft, FreeDraft
<1>2. d \in DraftsOf(stored)
  BY <1>1 DEF DraftsOf
<1>3. ConfigOK(c, stored)
  BY <1>1, <1>2, DraftChanged
<1>4. [config EXCEPT !.draft.name = n] = c
  BY <1>1 DEF ConfigOK, PagesOf
<1> QED
  BY <1>3, <1>4, ActKeeps DEF NameDraft

LEMMA KeptEditField ==
  \A field \in {"shared", "own"}, v \in Values \cup {None} :
      PInv /\ EditField(field, v) => PInv'
<1> SUFFICES ASSUME NEW field \in {"shared", "own"}, NEW v \in Values \cup {None},
                    PInv, EditField(field, v)
             PROVE  PInv'
  OBVIOUS
<1> DEFINE x == [config.draft.content EXCEPT ![field] = v]
           d == [config.draft EXCEPT !.content = x]
           c == [config EXCEPT !.draft = d, !.pending = FALSE]
<1>1. config.draft \in DraftsOf(stored) /\ ConfigOK(config, stored)
  BY DEF PInv, ConfigOK, PagesOf, EditField
<1>2. config.draft.content \in Contents
  BY <1>1 DEF DraftsOf
<1>3. x \in Contents
  <2>1. CASE field = "own"
    BY <1>2, <2>1 DEF Contents
  <2>2. CASE field = "shared"
    <3>1. v \in Values
      BY <2>2 DEF EditField, Offers
    <3> QED
      BY <1>2, <2>2, <3>1 DEF Contents
  <2> QED
    BY <2>1, <2>2
<1> HIDE DEF x
<1>4. d \in DraftsOf(stored)
  BY <1>1, <1>3 DEF DraftsOf
<1>5. Edited(config, x) = c
  BY <1>1 DEF Edited, ConfigOK, PagesOf
<1> HIDE DEF d
<1>6. c \in PagesOf(stored) /\ c.pending = FALSE
      /\ c.list = config.list /\ c.loaded = config.loaded
  BY <1>1, <1>4 DEF ConfigOK, PagesOf
<1>7. ConfigOK(c, stored)
  BY <1>1, <1>6 DEF ConfigOK
<1> QED
  BY <1>5, <1>7, ActKeeps DEF EditField, x

LEMMA KeptChangeDraft == PInv /\ ChangeDraft => PInv'
<1> SUFFICES ASSUME PInv, ChangeDraft PROVE PInv'
  OBVIOUS
<1>1. config.draft \in DraftsOf(stored) /\ ~config.pending /\ ConfigOK(config, stored)
  BY DEF PInv, ConfigOK, PagesOf, ChangeDraft, FreeDraft
<1>2. CASE Act([config EXCEPT !.draft = DraftOf(config.draft.of)])
  <2>1. DraftOf(config.draft.of) \in DraftsOf(stored)
    BY <1>1, DraftType DEF DraftsOf
  <2>2. ConfigOK([config EXCEPT !.draft = DraftOf(config.draft.of)], stored)
    BY <1>1, <2>1, DraftChanged
  <2> QED
    BY <1>2, <2>2, ActKeeps DEF ChangeDraft
<1>3. CASE Act([config EXCEPT !.draft.content = Original])
  <2> DEFINE d == [config.draft EXCEPT !.content = Original]
  <2>1. d \in DraftsOf(stored)
    BY <1>1, ReferenceFacts DEF DraftsOf
  <2>2. ConfigOK([config EXCEPT !.draft = d], stored)
    BY <1>1, <2>1, DraftChanged
  <2>3. [config EXCEPT !.draft.content = Original] = [config EXCEPT !.draft = d]
    BY <1>1 DEF ConfigOK, PagesOf
  <2> QED
    BY <1>3, <2>2, <2>3, ActKeeps DEF ChangeDraft
<1>4. CASE Act([config EXCEPT !.draft = None])
  <2>1. ConfigOK([config EXCEPT !.draft = None], stored)
    BY <1>1, DraftChanged
  <2> QED
    BY <1>4, <2>1, ActKeeps DEF ChangeDraft
<1> QED
  BY <1>2, <1>3, <1>4 DEF ChangeDraft

LEMMA KeptToggleRename == PInv /\ ToggleRename => PInv'
<1> SUFFICES ASSUME PInv, ToggleRename PROVE PInv'
  OBVIOUS
<1> DEFINE c == [config EXCEPT !.rename = IF @ = "open" THEN "closed" ELSE "open"]
<1>1. c \in PagesOf(stored)
  BY DEF PInv, ConfigOK, PagesOf
<1>2. ConfigOK(c, stored)
  BY <1>1 DEF PInv, ConfigOK, PagesOf
<1> QED
  BY <1>2, ActKeeps DEF ToggleRename

LEMMA KeptSaveDraft == \A s \in Saves : PInv /\ SaveDraft(s) => PInv'
<1> SUFFICES ASSUME NEW s \in Saves, PInv, SaveDraft(s) PROVE PInv'
  OBVIOUS
<1> DEFINE call == Payload(config.draft)
           c == [config EXCEPT !.pending = TRUE]
<1>1. /\ config.draft \in DraftsOf(stored) /\ config.draft.name # None
      /\ ConfigOK(config, stored)
  BY DEF PInv, ConfigOK, PagesOf, SaveDraft, Savable, FreeDraft
<1>2. CallOK(call, stored)
  BY <1>1 DEF CallOK, CallsOf, DraftsOf, Payload
<1>3. /\ stored' = stored /\ config' = c /\ saves' = [saves EXCEPT ![s] = call]
      /\ renames' = renames /\ acts' = acts + 1 /\ acts < MaxActs /\ broken' = broken
  BY DEF SaveDraft, Act
<1> HIDE DEF call
<1>4. SavesOK(saves', stored)
  BY <1>2, <1>3 DEF PInv, SavesOK
<1>5. ConfigOK(c, stored)
  <2>1. c \in PagesOf(stored)
    BY <1>1 DEF ConfigOK, PagesOf
  <2>2. config.draft # None
    BY DEF SaveDraft, Savable, FreeDraft
  <2> QED
    BY <1>1, <2>1, <2>2 DEF ConfigOK, PagesOf
<1>6. ActBounds'
  BY <1>3, DraftAssumption DEF PInv, ActBounds
<1> QED
  BY <1>3, <1>4, <1>5, <1>6 DEF PInv

LEMMA KeptSubmitRename == \A n \in Aliases : PInv /\ SubmitRename(n) => PInv'
<1> SUFFICES ASSUME NEW n \in Aliases, PInv, SubmitRename(n) PROVE PInv'
  OBVIOUS
<1> DEFINE c == [config EXCEPT !.rename = "pending"]
           r == [at |-> "sent", id |-> config.custom.id, name |-> n, answer |-> None]
<1>1. config.custom \in Listable(stored) /\ ConfigOK(config, stored)
  BY DEF PInv, ConfigOK, PagesOf, SubmitRename
<1>2. RenameOK(r, stored)
  <2>1. Len(stored) \in Nat
    BY DEF PInv, StoredOK
  <2>2. config.custom.id \in 0 .. Len(stored)
    BY <1>1, <2>1, ReferenceFacts DEF Listable, Copies
  <2> QED
    BY <2>2 DEF RenameOK
<1>3. ConfigOK(c, stored)
  <2>1. c \in PagesOf(stored)
    BY <1>1 DEF ConfigOK, PagesOf
  <2> QED
    BY <1>1, <2>1 DEF ConfigOK, PagesOf
<1>4. /\ stored' = stored /\ config' = c /\ saves' = saves /\ renames' = renames \cup {r}
      /\ acts' = acts + 1 /\ acts < MaxActs /\ broken' = broken
  BY DEF SubmitRename
<1>5. ActBounds'
  BY <1>4, DraftAssumption DEF PInv, ActBounds
<1> QED
  BY <1>2, <1>3, <1>4, <1>5 DEF PInv

-----------------------------------------------------------------------------
(* The calls and their answers.                                            *)

\* One call goes on; the others, the versions and the page stay.
LEMMA CallSet ==
  ASSUME NEW calls, NEW st, SavesOK(calls, st), NEW s \in Saves, NEW x,
         x = None \/ CallOK(x, st)
  PROVE  SavesOK([calls EXCEPT ![s] = x], st)
  BY DEF SavesOK

LEMMA AnsweredOK ==
  ASSUME NEW st, NEW call, CallOK(call, st), NEW p \in Copies(st)
  PROVE  CallOK([call EXCEPT !.at = "answered", !.answer = p], st)
  BY DEF CallOK, CallsOf

LEMMA KeptCheckProfile == \A s \in Saves : PInv /\ CheckProfile(s) => PInv'
<1> SUFFICES ASSUME NEW s \in Saves, PInv, CheckProfile(s) PROVE PInv'
  OBVIOUS
<1> DEFINE call == saves[s]
           i == CHOOSE i \in Same(call.content) : TRUE
<1>1. CallOK(call, stored) /\ saves = [t \in Saves |-> saves[t]]
  BY DEF PInv, SavesOK, CheckProfile, SaveAt
<1>2. \/ saves' = [saves EXCEPT ![s] = [call EXCEPT !.at = "refused"]]
      \/ Same(call.content) # {} /\ saves' = Answered(s, Copy(i))
      \/ saves' = [saves EXCEPT ![s] = [call EXCEPT !.at = "insert"]]
  BY <1>1 DEF CheckProfile
<1>3. SavesOK(saves', stored)
  <2>1. CASE saves' = [saves EXCEPT ![s] = [call EXCEPT !.at = "refused"]]
    <3>1. CallOK([call EXCEPT !.at = "refused"], stored)
      BY <1>1 DEF CallOK, CallsOf
    <3> QED
      BY <2>1, <3>1, CallSet DEF PInv
  <2>2. CASE Same(call.content) # {} /\ saves' = Answered(s, Copy(i))
    <3>1. i \in DOMAIN stored
      BY <2>2 DEF PInv, StoredOK, Same
    <3>2. Copy(i) \in Copies(stored)
      BY <3>1, CopyType DEF PInv
    <3>3. CallOK([call EXCEPT !.at = "answered", !.answer = Copy(i)], stored)
      BY <1>1, <3>2, AnsweredOK
    <3>4. saves' = [saves EXCEPT ![s] = [call EXCEPT !.at = "answered", !.answer = Copy(i)]]
      BY <1>1, <2>2 DEF Answered
    <3> QED
      BY <3>3, <3>4, CallSet DEF PInv
  <2>3. CASE saves' = [saves EXCEPT ![s] = [call EXCEPT !.at = "insert"]]
    <3>1. CallOK([call EXCEPT !.at = "insert"], stored)
      BY <1>1 DEF CallOK, CallsOf
    <3> QED
      BY <2>3, <3>1, CallSet DEF PInv
  <2> QED
    BY <1>2, <2>1, <2>2, <2>3
<1> QED
  BY <1>3 DEF PInv, CheckProfile, ActBounds

\* A version with new contents at the end of the others.
LEMMA Inserted ==
  ASSUME NEW st, StoredOK(st), NEW v \in Versions,
         \A i \in 1 .. Len(st) : st[i].content # v.content
  PROVE  /\ StoredOK(Append(st, v)) /\ Grown(st, Append(st, v))
         /\ Len(Append(st, v)) = Len(st) + 1 /\ Append(st, v)[Len(st) + 1] = v
<1> DEFINE st2 == Append(st, v)
<1>1. st \in Seq(Versions) /\ Len(st) \in Nat /\ DOMAIN st = 1 .. Len(st)
  BY DEF StoredOK
<1>2. /\ st2 \in Seq(Versions) /\ Len(st2) = Len(st) + 1 /\ DOMAIN st2 = 1 .. Len(st) + 1
      /\ st2[Len(st) + 1] = v /\ \A i \in 1 .. Len(st) : st2[i] = st[i]
  BY <1>1, AppendProperties
<1> HIDE DEF st2
<1>3. Grown(st, st2)
  BY <1>1, <1>2 DEF Grown
<1>4. \A i, j \in 1 .. Len(st) + 1 : st2[i].content = st2[j].content => i = j
  <2> TAKE i \in 1 .. Len(st) + 1, j \in 1 .. Len(st) + 1
  <2>1. CASE i \in 1 .. Len(st) /\ j \in 1 .. Len(st)
    BY <1>1, <1>2, <2>1 DEF StoredOK
  <2>2. CASE i = Len(st) + 1 \/ j = Len(st) + 1
    <3>1. i \in 1 .. Len(st) \/ i = Len(st) + 1
      BY <1>1
    <3>2. j \in 1 .. Len(st) \/ j = Len(st) + 1
      BY <1>1
    <3> QED
      BY <1>2, <2>2, <3>1, <3>2
  <2> QED
    BY <1>1, <2>1, <2>2
<1>5. StoredOK(st2)
  BY <1>2, <1>4 DEF StoredOK
<1> QED
  BY <1>2, <1>3, <1>5 DEF st2

LEMMA KeptInsertProfile == \A s \in Saves : PInv /\ InsertProfile(s) => PInv'
<1> SUFFICES ASSUME NEW s \in Saves, PInv, InsertProfile(s) PROVE PInv'
  OBVIOUS
<1> DEFINE call == saves[s]
<1>1. CallOK(call, stored) /\ saves = [t \in Saves |-> saves[t]]
  BY DEF PInv, SavesOK, InsertProfile, SaveAt
<1>2. CASE Conflict(call.content) # {}
  <2> DEFINE i == CHOOSE i \in Conflict(call.content) : TRUE
  <2>1. i \in DOMAIN stored
    BY <1>2 DEF PInv, StoredOK, Conflict, Same
  <2>2. Copy(i) \in Copies(stored)
    BY <2>1, CopyType DEF PInv
  <2>3. CallOK([call EXCEPT !.at = "answered", !.answer = Copy(i)], stored)
    BY <1>1, <2>2, AnsweredOK
  <2>4. saves' = [saves EXCEPT ![s] = [call EXCEPT !.at = "answered", !.answer = Copy(i)]]
    BY <1>1, <1>2 DEF Answered, InsertProfile
  <2>5. SavesOK(saves', stored)
    BY <2>3, <2>4, CallSet DEF PInv
  <2>6. UNCHANGED <<stored, config, renames, acts, broken>>
    BY <1>2 DEF InsertProfile
  <2> QED
    BY <2>5, <2>6 DEF PInv, ActBounds
<1>3. CASE Conflict(call.content) = {}
  <2> DEFINE v == [base |-> call.base, name |-> call.name, content |-> call.content]
             n == Len(stored) + 1
             p == [id |-> n, base |-> call.base, name |-> call.name,
                   content |-> call.content]
             done == [call EXCEPT !.at = "answered", !.answer = p]
  <2>1. v \in Versions /\ \A i \in 1 .. Len(stored) : stored[i].content # v.content
    BY <1>1, <1>3 DEF Conflict, Same, CallOK, CallsOf, Versions
  <2>2. stored' = Append(stored, v) /\ saves' = Answered(s, p)
        /\ UNCHANGED <<config, renames, acts, broken>>
    BY <1>3 DEF InsertProfile
  <2>3. /\ StoredOK(stored') /\ Grown(stored, stored') /\ Len(stored') = n
        /\ stored'[n] = v
    BY <2>1, <2>2, Inserted DEF PInv
  <2>4. stored \in Seq(Versions) /\ stored' \in Seq(Versions) /\ n \in 1 .. n
    BY <2>3 DEF PInv, StoredOK
  <2>5. p \in Copies(stored')
    BY <1>1, <2>3, <2>4 DEF Copies, CallOK, CallsOf
  <2>6. SavesOK(saves, stored') /\ ConfigOK(config, stored')
    BY <2>3, <2>4, SavesGrow, ConfigGrows DEF PInv
  <2>7. CallOK(done, stored')
    <3>1. CallOK(call, stored')
      BY <2>6 DEF SavesOK, InsertProfile, SaveAt
    <3> QED
      BY <2>5, <3>1, AnsweredOK
  <2>8. SavesOK(saves', stored')
    <3>1. saves' = [saves EXCEPT ![s] = done]
      BY <1>1, <2>2 DEF Answered
    <3> QED
      BY <2>6, <2>7, <3>1, CallSet
  <2>9. \A r \in renames' : RenameOK(r, stored')
    BY <2>2, <2>3, <2>4, RenameGrows DEF PInv
  <2>10. ActBounds' /\ ConfigOK(config', stored')
    BY <2>2, <2>6 DEF PInv, ActBounds
  <2> QED
    BY <2>3, <2>8, <2>9, <2>10 DEF PInv
<1> QED
  BY <1>2, <1>3

LEMMA KeptSaveAnswered == \A s \in Saves : PInv /\ SaveAnswered(s) => PInv'
<1> SUFFICES ASSUME NEW s \in Saves, PInv, SaveAnswered(s) PROVE PInv'
  OBVIOUS
<1> DEFINE p == saves[s].answer
<1>1. p \in Copies(stored)
  BY DEF PInv, SavesOK, CallOK, SaveAnswered, SaveAt
<1>2. PICK others \in InOrder({i \in DOMAIN config.list : config.list[i].id # p.id}) :
        config' = [config EXCEPT
            !.custom = p, !.draft = None, !.pending = FALSE, !.rename = "closed",
            !.list = <<p>> \o [i \in DOMAIN others |-> config.list[others[i]]]]
  BY DEF SaveAnswered
<1> DEFINE next == <<p>> \o [i \in DOMAIN others |-> config.list[others[i]]]
<1>3. next \in Seq(Listable(stored)) /\ DistinctIds(next)
  <2>1. config.list \in Seq(Listable(stored)) /\ DistinctIds(config.list)
    BY DEF PInv, ConfigOK, PagesOf
  <2>2. \A x \in Listable(stored) : x.id \in Nat
    BY ReferenceFacts DEF Copies, Listable
  <2>3. p \in Listable(stored)
    BY <1>1 DEF Listable
  <2> QED
    BY <2>1, <2>2, <2>3, Fronted
<1> HIDE DEF p, next
<1>4. config' = [config EXCEPT !.custom = p, !.draft = None, !.pending = FALSE,
                               !.rename = "closed", !.list = next]
  BY <1>2 DEF next
<1>5. ConfigOK(config', stored)
  <2>1. config \in PagesOf(stored) /\ DistinctIds(config.loaded)
    BY DEF PInv, ConfigOK
  <2>2. config' \in PagesOf(stored)
    BY <1>1, <1>3, <1>4, <2>1 DEF PagesOf, Listable
  <2>3. config'.list = next /\ config'.loaded = config.loaded /\ ~config'.pending
    BY <1>4, <2>1 DEF PagesOf
  <2> QED
    BY <1>3, <2>1, <2>2, <2>3 DEF ConfigOK
<1>6. SavesOK(saves', stored)
  BY CallSet DEF PInv, SaveAnswered
<1>7. UNCHANGED <<stored, renames, acts, broken>>
  BY DEF SaveAnswered
<1> QED
  BY <1>5, <1>6, <1>7 DEF PInv, ActBounds

LEMMA KeptSaveFails == \A s \in Saves : PInv /\ SaveFails(s) => PInv'
<1> SUFFICES ASSUME NEW s \in Saves, PInv, SaveFails(s) PROVE PInv'
  OBVIOUS
<1>1. SavesOK(saves', stored)
  BY CallSet DEF PInv, SaveFails
<1>2. [config EXCEPT !.pending = FALSE] \in PagesOf(stored)
  BY DEF PInv, ConfigOK, PagesOf
<1>3. ConfigOK(config', stored)
  BY <1>2 DEF PInv, ConfigOK, PagesOf, SaveFails, NotPending
<1>4. ActBounds' /\ UNCHANGED <<stored, renames, acts>>
  BY DraftAssumption DEF PInv, ActBounds, SaveFails
<1> QED
  BY <1>1, <1>3, <1>4 DEF PInv

-----------------------------------------------------------------------------
(* Renaming, and the load of the page.                                     *)

\* A list with one version's copy replaced by the answer of its renaming.
LEMMA Replaced ==
  ASSUME NEW T, NEW p \in T, NEW list \in Seq(T), DistinctIds(list)
  PROVE  LET next == [i \in DOMAIN list |-> IF list[i].id = p.id THEN p ELSE list[i]]
         IN next \in Seq(T) /\ DistinctIds(next)
<1> DEFINE n == Len(list)
           next == [i \in DOMAIN list |-> IF list[i].id = p.id THEN p ELSE list[i]]
<1>1. n \in Nat /\ DOMAIN list = 1 .. n /\ \A i \in 1 .. n : list[i] \in T
  OBVIOUS
<1> HIDE DEF n
<1>2. next = [i \in 1 .. n |-> IF list[i].id = p.id THEN p ELSE list[i]]
  BY <1>1
<1>3. \A i \in 1 .. n : (IF list[i].id = p.id THEN p ELSE list[i]) \in T
  BY <1>1
<1>4. next \in Seq(T)
  BY <1>1, <1>2, <1>3, IsASeq
<1>5. DOMAIN next = 1 .. n /\ \A i \in 1 .. n : next[i].id = list[i].id
  BY <1>2
<1> HIDE DEF next
<1>6. DistinctIds(next)
  BY <1>1, <1>5 DEF DistinctIds
<1> QED
  BY <1>4, <1>6 DEF next

\* The Reference keeps its name.
LEMMA KeptRenameRefused ==
  \A r \in renames : PInv /\ ServeRename(r) /\ r.id = Reference.id => PInv'
<1> SUFFICES ASSUME NEW r \in renames, PInv, ServeRename(r), r.id = Reference.id
             PROVE  PInv'
  OBVIOUS
<1>1. RenameOK([r EXCEPT !.at = "refused"], stored)
  BY DEF PInv, RenameOK
<1>2. /\ renames' = (renames \ {r}) \cup {[r EXCEPT !.at = "refused"]}
      /\ UNCHANGED <<stored, config, saves, acts, broken>>
  BY DEF ServeRename
<1> QED
  BY <1>1, <1>2 DEF PInv, ActBounds

LEMMA KeptServeRename == \A r \in renames : PInv /\ ServeRename(r) => PInv'
<1> SUFFICES ASSUME NEW r \in renames, PInv, ServeRename(r), r.id # Reference.id
             PROVE  PInv'
  BY KeptRenameRefused
<1> DEFINE v == [stored[r.id] EXCEPT !.name = r.name]
           st2 == [stored EXCEPT ![r.id] = v]
           p == [id |-> r.id, base |-> st2[r.id].base, name |-> r.name,
                 content |-> st2[r.id].content]
           served == [r EXCEPT !.at = "answered", !.answer = p]
<1>1. /\ RenameOK(r, stored) /\ stored \in Seq(Versions) /\ Len(stored) \in Nat
      /\ DOMAIN stored = 1 .. Len(stored)
  BY DEF PInv, StoredOK
<1>2. r.id \in 1 .. Len(stored) /\ r.name \in Aliases
  BY <1>1, ReferenceFacts DEF RenameOK
<1>3. stored[r.id] \in Versions
  BY <1>1, <1>2
<1>4. v \in Versions /\ v.content = stored[r.id].content /\ v.base = stored[r.id].base
  BY <1>2, <1>3 DEF Versions
<1> HIDE DEF v
<1>5. /\ st2 \in Seq(Versions) /\ Len(st2) = Len(stored) /\ st2[r.id] = v
      /\ \A i \in 1 .. Len(stored) : st2[i] = IF i = r.id THEN v ELSE stored[i]
  BY <1>1, <1>2, <1>4, ExceptSeq
<1>6. stored' = st2 /\ renames' = (renames \ {r}) \cup {served}
      /\ UNCHANGED <<config, saves, acts, broken>>
  BY <1>1, <1>2 DEF ServeRename, v
<1> HIDE DEF st2
<1>7. Grown(stored, st2)
  BY <1>1, <1>4, <1>5 DEF Grown
<1>8. StoredOK(st2)
  <2>1. DOMAIN st2 = 1 .. Len(stored)
    BY <1>5
  <2>2. \A i \in 1 .. Len(stored) : st2[i].content = stored[i].content
    BY <1>4, <1>5
  <2> QED
    BY <1>1, <1>5, <2>1, <2>2 DEF PInv, StoredOK
<1>9. p \in Copies(st2) /\ p.id = r.id
  BY <1>2, <1>4, <1>5 DEF Copies, Versions
<1>10. RenameOK(r, st2) /\ \A q \in renames : RenameOK(q, st2)
  BY <1>1, <1>5, <1>7, RenameGrows DEF PInv
<1> HIDE DEF p
<1>11. RenameOK(served, st2)
  BY <1>9, <1>10 DEF RenameOK
<1>12. SavesOK(saves, st2) /\ ConfigOK(config, st2)
  BY <1>1, <1>5, <1>7, SavesGrow, ConfigGrows DEF PInv
<1> HIDE DEF served
<1> QED
  BY <1>6, <1>8, <1>10, <1>11, <1>12 DEF PInv, ActBounds

LEMMA KeptRenameAnswered == \A r \in renames : PInv /\ RenameAnswered(r) => PInv'
<1> SUFFICES ASSUME NEW r \in renames, PInv, RenameAnswered(r) PROVE PInv'
  OBVIOUS
<1> DEFINE p == r.answer
           next == [i \in DOMAIN config.list |->
                      IF config.list[i].id = p.id THEN p ELSE config.list[i]]
<1>1. p \in Listable(stored) /\ p.id = r.id
  BY DEF PInv, RenameOK, RenameAnswered, Listable
<1>2. config \in PagesOf(stored) /\ DistinctIds(config.list) /\ DistinctIds(config.loaded)
  BY DEF PInv, ConfigOK
<1>3. next \in Seq(Listable(stored)) /\ DistinctIds(next)
  <2>1. config.list \in Seq(Listable(stored))
    BY <1>2 DEF PagesOf
  <2> QED
    BY <1>1, <1>2, <2>1, Replaced
<1>4. config' = [config EXCEPT !.custom = p, !.rename = "closed", !.list = next]
  BY <1>1, <1>2 DEF RenameAnswered, PagesOf
<1> HIDE DEF p, next
<1>5. config' \in PagesOf(stored)
  BY <1>1, <1>2, <1>3, <1>4 DEF PagesOf
<1>6. /\ config'.list = next /\ config'.loaded = config.loaded
      /\ config'.pending = config.pending /\ config'.draft = config.draft
  BY <1>2, <1>4 DEF PagesOf
<1>7. ConfigOK(config', stored)
  BY <1>2, <1>3, <1>5, <1>6 DEF PInv, ConfigOK
<1> QED
  BY <1>7 DEF PInv, ActBounds, RenameAnswered

LEMMA KeptRenameFails == \A r \in renames : PInv /\ RenameFails(r) => PInv'
<1> SUFFICES ASSUME NEW r \in renames, PInv, RenameFails(r) PROVE PInv'
  OBVIOUS
<1>1. [config EXCEPT !.rename = "open"] \in PagesOf(stored)
  BY DEF PInv, ConfigOK, PagesOf
<1>2. ConfigOK(config', stored)
  BY <1>1 DEF PInv, ConfigOK, PagesOf, RenameFails
<1>3. ActBounds' /\ UNCHANGED <<stored, saves, acts>> /\ renames' \subseteq renames
  BY DraftAssumption DEF PInv, ActBounds, RenameFails
<1> QED
  BY <1>2, <1>3 DEF PInv

\* The steps of loadConfiguration change only the page.
LEMMA PageKeeps ==
  ASSUME PInv, ConfigOK(config', stored), ActBounds', UNCHANGED <<stored, saves, renames>>
  PROVE  PInv'
  BY DEF PInv

LEMMA KeptLoadReference == PInv /\ LoadReference => PInv'
<1> SUFFICES ASSUME PInv, LoadReference PROVE PInv'
  OBVIOUS
<1>1. [config EXCEPT !.reference = TRUE, !.load = "list"] \in PagesOf(stored)
  BY DEF PInv, ConfigOK, PagesOf
<1>2. ConfigOK(config', stored)
  BY <1>1 DEF PInv, ConfigOK, PagesOf, LoadReference
<1> QED
  BY <1>2, PageKeeps DEF PInv, ActBounds, LoadReference

LEMMA KeptServeVersions == PInv /\ ServeVersions => PInv'
<1> SUFFICES ASSUME PInv, ServeVersions PROVE PInv'
  OBVIOUS
<1>1. ListedVersions \in Seq(Listable(stored)) /\ DistinctIds(ListedVersions)
  BY ListedOK DEF PInv
<1>2. config' = [config EXCEPT !.load = "served", !.loaded = ListedVersions]
  BY DEF ServeVersions
<1>3. config \in PagesOf(stored)
  BY DEF PInv, ConfigOK
<1>4. config' \in PagesOf(stored)
  BY <1>1, <1>2, <1>3 DEF PagesOf
<1>5. /\ config'.list = config.list /\ config'.loaded = ListedVersions
      /\ config'.pending = config.pending /\ config'.draft = config.draft
  BY <1>2, <1>3 DEF PagesOf
<1>6. ConfigOK(config', stored)
  BY <1>1, <1>4, <1>5 DEF PInv, ConfigOK
<1> QED
  BY <1>6, PageKeeps DEF PInv, ActBounds, ServeVersions

LEMMA KeptVersionsLoaded == PInv /\ VersionsLoaded => PInv'
<1> SUFFICES ASSUME PInv, VersionsLoaded PROVE PInv'
  OBVIOUS
<1>1. config' = [config EXCEPT !.list = config.loaded, !.loaded = <<>>, !.load = "done"]
  BY DEF VersionsLoaded
<1>2. config \in PagesOf(stored)
  BY DEF PInv, ConfigOK
<1>3. config' \in PagesOf(stored)
  <2>1. <<>> \in Seq(Listable(stored))
    BY EmptySeq
  <2> QED
    BY <1>1, <1>2, <2>1 DEF PagesOf
<1>4. /\ config'.list = config.loaded /\ config'.loaded = <<>>
      /\ config'.pending = config.pending /\ config'.draft = config.draft
  BY <1>1, <1>2 DEF PagesOf
<1>5. ConfigOK(config', stored)
  BY <1>3, <1>4 DEF PInv, ConfigOK, DistinctIds
<1> QED
  BY <1>5, PageKeeps DEF PInv, ActBounds, VersionsLoaded

LEMMA KeptLoadConfigFails == PInv /\ LoadConfigFails => PInv'
<1> SUFFICES ASSUME PInv, LoadConfigFails PROVE PInv'
  OBVIOUS
<1>1. config' = [config EXCEPT !.loaded = <<>>, !.load = "done"]
  BY DEF LoadConfigFails
<1>2. config \in PagesOf(stored)
  BY DEF PInv, ConfigOK
<1>3. config' \in PagesOf(stored)
  <2>1. <<>> \in Seq(Listable(stored))
    BY EmptySeq
  <2> QED
    BY <1>1, <1>2, <2>1 DEF PagesOf
<1>4. /\ config'.list = config.list /\ config'.loaded = <<>>
      /\ config'.pending = config.pending /\ config'.draft = config.draft
  BY <1>1, <1>2 DEF PagesOf
<1>5. ConfigOK(config', stored)
  BY <1>3, <1>4 DEF PInv, ConfigOK, DistinctIds
<1>6. ActBounds'
  BY DraftAssumption DEF PInv, ActBounds, LoadConfigFails
<1> QED
  BY <1>5, <1>6, PageKeeps DEF LoadConfigFails

-----------------------------------------------------------------------------
(* The theorems.                                                           *)

LEMMA DraftInit == PInit => PInv
<1> SUFFICES ASSUME PInit PROVE PInv
  OBVIOUS
<1>1. StoredOK(stored)
  <2>1. CASE stored = <<>>
    BY <2>1 DEF StoredOK
  <2>2. CASE stored # <<>>
    <3>1. PICK n \in Aliases : stored = <<[base |-> 0, name |-> n,
                                           content |-> [Original EXCEPT !.own = Factory]]>>
      BY <2>2, ReferenceFacts DEF PInit
    <3>2. [Original EXCEPT !.own = Factory] \in Contents
      BY DraftAssumption DEF Original, Contents
    <3>3. [base |-> 0, name |-> n, content |-> [Original EXCEPT !.own = Factory]] \in Versions
      BY <3>2 DEF Versions
    <3>4. stored \in Seq(Versions) /\ DOMAIN stored = 1 .. 1
      BY <3>1, <3>3
    <3>5. \A i, j \in 1 .. 1 : i = j
      OBVIOUS
    <3> QED
      BY <3>4, <3>5 DEF StoredOK
  <2> QED
    BY <2>1, <2>2
<1>2. ConfigOK(config, stored)
  BY DEF PInit, ConfigOK, PagesOf, DistinctIds
<1>3. SavesOK(saves, stored)
  BY DEF PInit, SavesOK
<1>4. renames = {} /\ ActBounds
  BY DraftAssumption DEF PInit, ActBounds
<1> QED
  BY <1>1, <1>2, <1>3, <1>4 DEF PInv

LEMMA DraftNext == PInv /\ [PNext]_pvars => PInv'
<1> SUFFICES ASSUME PInv, [PNext]_pvars PROVE PInv'
  OBVIOUS
<1>1. CASE UNCHANGED pvars
  BY <1>1 DEF PInv, ActBounds, pvars
<1>2. CASE LoadReference \/ ServeVersions \/ VersionsLoaded \/ LoadConfigFails
  BY <1>2, KeptLoadReference, KeptServeVersions, KeptVersionsLoaded, KeptLoadConfigFails
<1>3. CASE ChooseReference \/ BeginDraft \/ ChangeDraft \/ ToggleRename
  BY <1>3, KeptChooseReference, KeptBeginDraft, KeptChangeDraft, KeptToggleRename
<1>4. CASE \E p \in ToSet(config.list) : PickVersion(p)
  BY <1>4, KeptPickVersion
<1>5. CASE \E n \in Aliases : NameDraft(n) \/ SubmitRename(n)
  BY <1>5, KeptNameDraft, KeptSubmitRename
<1>6. CASE \E field \in {"shared", "own"}, v \in Values \cup {None} : EditField(field, v)
  BY <1>6, KeptEditField
<1>7. CASE \E s \in Saves : SaveDraft(s)
  BY <1>7, KeptSaveDraft
<1>8. CASE SaveServed
  BY <1>8, KeptCheckProfile, KeptInsertProfile DEF SaveServed
<1>9. CASE SaveReturns
  BY <1>9, KeptSaveAnswered, KeptSaveFails DEF SaveReturns
<1>10. CASE \E r \in renames : ServeRename(r) \/ RenameAnswered(r) \/ RenameFails(r)
  BY <1>10, KeptServeRename, KeptRenameAnswered, KeptRenameFails
<1> QED
  BY <1>1, <1>2, <1>3, <1>4, <1>5, <1>6, <1>7, <1>8, <1>9, <1>10 DEF PNext

LEMMA DraftInv == PSpec => []PInv
<1> QED
  BY DraftInit, DraftNext, PTL DEF PSpec

\* What the page holds of the versions has the types of its profiles.
LEMMA CopyIsProfile ==
  ASSUME PInv
  PROVE  /\ Copies(stored) \subseteq Profiles /\ Reference \in Profiles
         /\ \A p \in Listable(stored) : Faithful(p)
<1>1. Len(stored) \in Nat /\ DOMAIN stored = 1 .. Len(stored)
  BY DEF PInv, StoredOK
<1>2. Copies(stored) \subseteq Profiles
  BY <1>1, ReferenceFacts DEF Copies, Profiles
<1>3. Reference \in Profiles
  BY <1>1, ReferenceFacts DEF Reference, Profiles
<1>4. \A p \in Copies(stored) : Faithful(p)
  BY <1>1, ReferenceFacts DEF Copies, Faithful
<1>5. Faithful(Reference)
  BY DEF Faithful
<1> QED
  BY <1>2, <1>3, <1>4, <1>5 DEF Listable

\* Types of the versions, of the page's profiles and draft and of the calls; a
\* draft made of any version names the Reference as its base (createCustomDraft,
\* CreateCustomProfile).
THEOREM DraftTypes == PSpec => []PTypeOK
<1>1. PInv => PTypeOK
  <2> SUFFICES ASSUME PInv PROVE PTypeOK
    OBVIOUS
  <2>1. Copies(stored) \subseteq Profiles /\ Listable(stored) \subseteq Profiles
    BY CopyIsProfile DEF Listable
  <2>2. stored \in Seq([base : {Reference.id}, name : Aliases, content : Contents])
    BY ReferenceFacts DEF PInv, StoredOK, Versions
  <2>3. config \in PagesOf(stored)
    BY DEF PInv, ConfigOK
  <2>4. config.custom \in Profiles \cup {None}
    BY <2>1, <2>3 DEF PagesOf
  <2>5. config.list \in Seq(Profiles)
    BY <2>1, <2>3, SeqMonotonic DEF PagesOf
  <2>6. config.draft \in {None} \cup [of : Profiles, base : {Reference.id},
                                      name : Aliases \cup {None}, content : Contents]
    BY <2>1, <2>3, ReferenceFacts DEF PagesOf, DraftsOf
  <2>7. /\ config.rename \in {"closed", "open", "pending"}
        /\ config.load \in {"reference", "list", "served", "done"}
    BY <2>3 DEF PagesOf
  <2>8. config.pending => config.draft # None
    BY DEF PInv, ConfigOK
  <2>9. ASSUME NEW s \in Saves, saves[s] # None
        PROVE  saves[s] \in [at : {"sent", "refused", "insert", "answered"},
                             base : {Reference.id}, name : Aliases, content : Contents,
                             answer : Profiles \cup {None}]
    <3>1. saves[s] \in CallsOf(stored)
      BY <2>9 DEF PInv, SavesOK, CallOK
    <3> QED
      BY <2>1, <3>1, ReferenceFacts DEF CallsOf
  <2>10. ActBounds
    BY DEF PInv
  <2> QED
    BY <2>2, <2>4, <2>5, <2>6, <2>7, <2>8, <2>9, <2>10 DEF PTypeOK, ActBounds
<1> QED
  BY <1>1, DraftInv, PTL

\* Equal contents share one version however many saves race each other, and
\* the page lists no version twice (persistCustomProfile, saveCustomDraft).
THEOREM VersionsAreUnique == PSpec => []OneVersionPerContent
<1>1. PInv => OneVersionPerContent
  BY DEF PInv, StoredOK, ConfigOK, DistinctIds, OneVersionPerContent
<1> QED
  BY <1>1, DraftInv, PTL

\* What the page shows, lists and drafts from is what the server stored or the
\* Reference itself, which the list route includes among the versions, however
\* edits, saves, renames and the first load are ordered.
THEOREM CopiesStayFaithful == PSpec => []CopiesAreFaithful
<1>1. PInv => CopiesAreFaithful
  <2> SUFFICES ASSUME PInv PROVE CopiesAreFaithful
    OBVIOUS
  <2>1. config \in PagesOf(stored)
    BY DEF PInv, ConfigOK
  <2>2. \A p \in Listable(stored) : Faithful(p)
    BY CopyIsProfile
  <2>3. \A p \in ToSet(config.list) : p \in Listable(stored)
    BY <2>1 DEF PagesOf, ToSet
  <2>4. config.custom # None => config.custom \in Listable(stored)
    BY <2>1 DEF PagesOf
  <2>5. config.draft # None => config.draft.of \in Listable(stored)
    BY <2>1 DEF PagesOf, DraftsOf
  <2> QED
    BY <2>2, <2>3, <2>4, <2>5 DEF CopiesAreFaithful
<1> QED
  BY <1>1, DraftInv, PTL
=============================================================================
