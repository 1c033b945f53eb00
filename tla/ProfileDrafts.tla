--------------------------- MODULE ProfileDrafts ---------------------------
(***************************************************************************)
(* The configuration view: a draft of a parameter profile, its save as a   *)
(* new immutable version, which the server shares between equal contents,  *)
(* the list of versions and their renaming, and the load of all this when  *)
(* the page starts.  The list route answers with the Reference among the   *)
(* versions, and the page treats it as one of them.                        *)
(*                                                                         *)
(* Of the parameters one editable path is kept, with its shared value and  *)
(* the override of one agent: paths and agents do not interact.  A draft   *)
(* with a valid alias differs from its base by that alias, so draftIsDirty *)
(* never decides.                                                          *)
(***************************************************************************)
EXTENDS Naturals, Sequences, FiniteSets, SequencesExt, PageValues

CONSTANTS
    Values,       \* what a user can enter
    Allowed,      \* what the server's constraints accept
    Factory,      \* the value of the Reference profile
    Aliases,      \* display names
    Saves,        \* slots for createParameterProfile calls
    ListLimit,    \* rows the list route answers with (queryLimit)
    MaxActs,      \* bound: what the user does
    MaxBroken     \* bound: requests that fail or lose their answer

ASSUME DraftAssumption ==
    /\ Allowed \subseteq Values /\ Factory \in Allowed
    /\ None \notin Values /\ None \notin Aliases /\ None \notin Nat
    /\ ListLimit \in Nat \ {0} /\ MaxActs \in Nat /\ MaxBroken \in Nat

VARIABLES
    stored,       \* parameter_profiles: the CUSTOM versions, numbered from 1
    config,       \* state.profile and state.custom*, loadConfiguration
    saves,        \* createParameterProfile calls
    renames,      \* renameParameterProfile calls
    acts, broken

pvars == <<stored, config, saves, renames, acts, broken>>

Contents == [shared : Values, own : Values \cup {None}]
Original == [shared |-> Factory, own |-> None]

\* A profile as the page holds it; version 0 is the Reference.
Reference == [id |-> 0, base |-> None, name |-> None, content |-> Original]
Copy(i) == [id |-> i, base |-> stored[i].base, name |-> stored[i].name,
            content |-> stored[i].content]

----------------------------------------------------------------------------
(* Drafts.                                                                 *)

\* Mutant: the version a draft is made of is its base.
DraftOfVersion(p) == [of |-> p, base |-> p.id, name |-> None, content |-> p.content]

\* createCustomDraft: a custom version hands on its own base.
DraftOf(p) == [of |-> p, base |-> IF p.base # None THEN p.base ELSE p.id,
               name |-> None, content |-> p.content]

\* beginCustomDraft, over the version picked or the Reference.
Begun(c) ==
    IF c.pending \/ (c.custom = None /\ ~c.reference) THEN c
    ELSE [c EXCEPT !.draft = DraftOf(IF c.custom # None THEN c.custom ELSE Reference),
                   !.rename = "closed"]

\* configView: which of its controls there are, and which are enabled.
NoDraft == config.draft = None /\ ~config.pending
FreeDraft == config.draft # None /\ ~config.pending

Act(c) ==
    /\ acts < MaxActs /\ acts' = acts + 1
    /\ config' = c
    /\ UNCHANGED <<stored, renames, broken>>

\* The Reference button, and the first entry of the list: no version picked.
ChooseReference ==
    /\ ~config.pending
    /\ Act([config EXCEPT !.custom = None, !.draft = None, !.rename = "closed"])
    /\ UNCHANGED saves

\* The Custom button and the edit button.
BeginDraft ==
    /\ NoDraft
    /\ Act(Begun(config))
    /\ UNCHANGED saves

\* selectCustomProfile, of any version listed, the Reference included; the
\* list is disabled while there is a draft.
PickVersion(p) ==
    /\ NoDraft /\ Contains(config.list, p)
    /\ Act(Begun([config EXCEPT !.custom = p]))
    /\ UNCHANGED saves

NameDraft(n) ==
    /\ FreeDraft /\ n # config.draft.name
    /\ Act([config EXCEPT !.draft.name = n])
    /\ UNCHANGED saves

\* Mutant: the draft shares its parameters with the version it is made of.
EditedInPlace(c, x) ==
    [c EXCEPT !.draft.content = x, !.pending = FALSE,
              !.custom = IF @ = None THEN None ELSE [@ EXCEPT !.content = x]]

\* updateDraftValue.  The fields stay enabled while a save is pending, and an
\* edit takes its pending mark away.
Edited(c, x) == [c EXCEPT !.draft.content = x, !.pending = FALSE]

\* renderDraftControl: the control of an agent can also inherit.
Offers(field) == Values \cup (IF field = "own" THEN {None} ELSE {})

EditField(field, v) ==
    /\ config.draft # None /\ v # config.draft.content[field] /\ v \in Offers(field)
    /\ Act(Edited(config, [config.draft.content EXCEPT ![field] = v]))
    /\ UNCHANGED saves

\* resetCustomDraft, restoreCustomDraftDefaults and discardCustomDraft.
ChangeDraft ==
    /\ FreeDraft
    /\ \/ Act([config EXCEPT !.draft = DraftOf(config.draft.of)])
       \/ config.reference /\ Act([config EXCEPT !.draft.content = Original])
       \/ Act([config EXCEPT !.draft = None])
    /\ UNCHANGED saves

----------------------------------------------------------------------------
(* Saving.                                                                 *)

\* draftIsDirty and validateCustomDraftName.
Savable == FreeDraft /\ config.draft.name # None

\* buildCustomProfilePayload: a call with the draft's base, name and content.
Payload(draft) == [at |-> "sent", base |-> draft.base, name |-> draft.name,
                   content |-> draft.content, answer |-> None]

\* saveCustomDraft, up to its answer.
SaveDraft(s) ==
    /\ Savable /\ saves[s] = None
    /\ saves' = [saves EXCEPT ![s] = Payload(config.draft)]
    /\ Act([config EXCEPT !.pending = TRUE])

SaveAt(s, at) == saves[s] # None /\ saves[s].at = at

Same(content) == {i \in 1 .. Len(stored) : stored[i].content = content}

Answered(s, p) == [saves EXCEPT ![s] = [@ EXCEPT !.at = "answered", !.answer = p]]

\* CreateCustomProfile up to exactCustomProfileByNormalized.
CheckProfile(s) ==
    LET call == saves[s]
    IN /\ SaveAt(s, "sent")
       /\ saves' =
            IF call.base # Reference.id \/ ~ {call.content.shared, call.content.own}
                                               \subseteq Allowed \cup {None}
            THEN [saves EXCEPT ![s].at = "refused"]
            ELSE IF Same(call.content) # {}
                 THEN Answered(s, Copy(CHOOSE i \in Same(call.content) : TRUE))
                 ELSE [saves EXCEPT ![s].at = "insert"]
       /\ UNCHANGED <<stored, config, renames, acts, broken>>

\* Mutant: nothing but the lookup keeps equal versions apart.
Duplicate(content) == {}

\* The unique index on the hash of the content.
Conflict(content) == Same(content)

\* persistCustomProfile; after a conflict the version is looked up again.
InsertProfile(s) ==
    LET call == saves[s]
    IN /\ SaveAt(s, "insert")
       /\ IF Conflict(call.content) # {}
          THEN /\ saves' = Answered(s, Copy(CHOOSE i \in Conflict(call.content) : TRUE))
               /\ UNCHANGED stored
          ELSE LET version == [base |-> call.base, name |-> call.name,
                               content |-> call.content]
               IN /\ stored' = Append(stored, version)
                  /\ saves' = Answered(s, [id |-> Len(stored) + 1, base |-> call.base,
                                           name |-> call.name, content |-> call.content])
       /\ UNCHANGED <<config, renames, acts, broken>>

\* saveCustomDraft goes on: whatever draft there is by now is gone.
SaveAnswered(s) ==
    LET p == saves[s].answer
    IN /\ SaveAt(s, "answered")
       /\ \E others \in InOrder({i \in DOMAIN config.list : config.list[i].id # p.id}) :
             config' = [config EXCEPT
                 !.custom = p, !.draft = None, !.pending = FALSE, !.rename = "closed",
                 !.list = <<p>> \o [i \in DOMAIN others |-> config.list[others[i]]]]
       /\ saves' = [saves EXCEPT ![s] = None]
       /\ UNCHANGED <<stored, renames, acts, broken>>

\* Mutant: the catch only keeps the error.
StillPending(c) == c

\* The catch of saveCustomDraft.
NotPending(c) == [c EXCEPT !.pending = FALSE]

SaveFails(s) ==
    /\ saves[s] # None
    /\ \/ SaveAt(s, "refused") /\ UNCHANGED broken
       \/ ~SaveAt(s, "refused") /\ broken < MaxBroken /\ broken' = broken + 1
    /\ config' = NotPending(config)
    /\ saves' = [saves EXCEPT ![s] = None]
    /\ UNCHANGED <<stored, renames, acts>>

----------------------------------------------------------------------------
(* Renaming.                                                               *)

\* The rename and the cancel button.
ToggleRename ==
    /\ config.custom # None /\ config.draft = None /\ config.rename # "pending"
    /\ Act([config EXCEPT !.rename = IF @ = "open" THEN "closed" ELSE "open"])
    /\ UNCHANGED saves

\* renameCustomProfile, up to its answer.
SubmitRename(n) ==
    /\ config.custom # None /\ config.draft = None /\ config.rename = "open"
    /\ acts < MaxActs /\ acts' = acts + 1
    /\ config' = [config EXCEPT !.rename = "pending"]
    /\ renames' = renames \cup {[at |-> "sent", id |-> config.custom.id, name |-> n,
                                 answer |-> None]}
    /\ UNCHANGED <<stored, saves, broken>>

\* UpdateCustomProfileDisplayName; the Reference's name cannot be changed.
ServeRename(r) ==
    LET renamed == [stored EXCEPT ![r.id].name = r.name]
    IN /\ r.at = "sent"
       /\ IF r.id = Reference.id
          THEN /\ renames' = (renames \ {r}) \cup {[r EXCEPT !.at = "refused"]}
               /\ UNCHANGED stored
          ELSE /\ stored' = renamed
               /\ renames' = (renames \ {r}) \cup {[r EXCEPT !.at = "answered", !.answer =
                         [id |-> r.id, base |-> renamed[r.id].base, name |-> r.name,
                          content |-> renamed[r.id].content]]}
       /\ UNCHANGED <<config, saves, acts, broken>>

\* The renamed version is shown, whatever was chosen since.
RenameAnswered(r) ==
    /\ r.at = "answered"
    /\ config' = [config EXCEPT
          !.custom = r.answer, !.rename = "closed",
          !.list = [i \in DOMAIN @ |-> IF @[i].id = r.id THEN r.answer ELSE @[i]]]
    /\ renames' = renames \ {r}
    /\ UNCHANGED <<stored, saves, acts, broken>>

\* The catch of renameCustomProfile.
RenameFails(r) ==
    /\ \/ r.at = "refused" /\ UNCHANGED broken
       \/ r.at # "refused" /\ broken < MaxBroken /\ broken' = broken + 1
    /\ config' = [config EXCEPT !.rename = "open"]
    /\ renames' = renames \ {r}
    /\ UNCHANGED <<stored, saves, acts>>

----------------------------------------------------------------------------
(* loadConfiguration: the Reference, then the list of all versions.        *)

LoadReference ==
    /\ config.load = "reference"
    /\ config' = [config EXCEPT !.reference = TRUE, !.load = "list"]
    /\ UNCHANGED <<stored, saves, renames, acts, broken>>

\* ListParameterProfiles: newest first, so the Reference last, and no filter on
\* the mode the page asks for.
ListedVersions ==
    LET all == Reverse([i \in DOMAIN stored |-> Copy(i)]) \o <<Reference>>
    IN SubSeq(all, 1, IF Len(all) < ListLimit THEN Len(all) ELSE ListLimit)

ServeVersions ==
    /\ config.load = "list"
    /\ config' = [config EXCEPT !.load = "served", !.loaded = ListedVersions]
    /\ UNCHANGED <<stored, saves, renames, acts, broken>>

VersionsLoaded ==
    /\ config.load = "served"
    /\ config' = [config EXCEPT !.list = config.loaded, !.loaded = <<>>, !.load = "done"]
    /\ UNCHANGED <<stored, saves, renames, acts, broken>>

LoadConfigFails ==
    /\ config.load # "done"
    /\ broken < MaxBroken /\ broken' = broken + 1
    /\ config' = [config EXCEPT !.loaded = <<>>, !.load = "done"]
    /\ UNCHANGED <<stored, saves, renames, acts>>

----------------------------------------------------------------------------
PInit ==
    /\ stored \in {<<>>} \cup {<<[base |-> Reference.id, name |-> n,
                                  content |-> [Original EXCEPT !.own = Factory]]>>
                               : n \in Aliases}
    /\ config = [reference |-> FALSE, custom |-> None, list |-> <<>>, draft |-> None,
                 pending |-> FALSE, rename |-> "closed", load |-> "reference",
                 loaded |-> <<>>]
    /\ saves = [s \in Saves |-> None] /\ renames = {}
    /\ acts = 0 /\ broken = 0

SaveServed == \E s \in Saves : CheckProfile(s) \/ InsertProfile(s)
SaveReturns == \E s \in Saves : SaveAnswered(s) \/ SaveFails(s)

PNext ==
    \/ LoadReference \/ ServeVersions \/ VersionsLoaded \/ LoadConfigFails
    \/ ChooseReference \/ BeginDraft \/ ChangeDraft \/ ToggleRename
    \/ \E p \in ToSet(config.list) : PickVersion(p)
    \/ \E n \in Aliases : NameDraft(n) \/ SubmitRename(n)
    \/ \E field \in {"shared", "own"}, v \in Values \cup {None} : EditField(field, v)
    \/ \E s \in Saves : SaveDraft(s)
    \/ SaveServed \/ SaveReturns
    \/ \E r \in renames : ServeRename(r) \/ RenameAnswered(r) \/ RenameFails(r)

PSpec == PInit /\ [][PNext]_pvars

\* Requests are served and answered.
PFairness ==
    /\ \A s \in Saves : WF_pvars(CheckProfile(s) \/ InsertProfile(s))
    /\ \A s \in Saves : WF_pvars(SaveAnswered(s) \/ SaveFails(s))

----------------------------------------------------------------------------
(* Properties.                                                             *)

\* A copy the page holds of a version: its content and base are the stored
\* ones (its name need not be).
Faithful(p) ==
    IF p.id = Reference.id THEN p = Reference
    ELSE /\ p.id \in DOMAIN stored
         /\ p.content = stored[p.id].content /\ p.base = stored[p.id].base

Profiles == [id : 0 .. Len(stored), base : {None, Reference.id},
             name : Aliases \cup {None}, content : Contents]

\* Types of the profiles, drafts and calls.  A draft, and so every save, names
\* the Reference as its base: the server refuses all other bases.
PTypeOK ==
    /\ stored \in Seq([base : {Reference.id}, name : Aliases, content : Contents])
    /\ config.custom \in Profiles \cup {None} /\ config.list \in Seq(Profiles)
    /\ config.draft \in {None} \cup [of : Profiles, base : {Reference.id},
                                     name : Aliases \cup {None}, content : Contents]
    /\ config.rename \in {"closed", "open", "pending"}
    /\ config.load \in {"reference", "list", "served", "done"}
    /\ config.pending => config.draft # None
    /\ \A s \in Saves : saves[s] # None =>
          saves[s] \in [at : {"sent", "refused", "insert", "answered"},
                        base : {Reference.id}, name : Aliases, content : Contents,
                        answer : Profiles \cup {None}]
    /\ acts \in 0 .. MaxActs /\ broken \in 0 .. MaxBroken

\* Equal contents share one version, also when saves race each other or are
\* repeated after a lost answer (lookup, insert, lookup again), and the page
\* lists each version once.
OneVersionPerContent ==
    /\ \A i, j \in DOMAIN stored : stored[i].content = stored[j].content => i = j
    /\ \A i, j \in DOMAIN config.list : config.list[i].id = config.list[j].id => i = j

\* A saved version is immutable on the page, too: what it shows, lists and
\* drafts from is what the server stored, however drafts are edited, reset and
\* saved and answers of saves, renames and the first load are ordered.
CopiesAreFaithful ==
    /\ \A p \in ToSet(config.list) : Faithful(p)
    /\ config.custom # None => Faithful(config.custom)
    /\ config.draft # None => Faithful(config.draft.of)

\* A save that is shown as pending ends, so its buttons come back.
SaveSettles == config.pending ~> ~config.pending
=============================================================================
