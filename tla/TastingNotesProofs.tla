------------------------- MODULE TastingNotesProofs -------------------------
(***************************************************************************)
(* Edits of one note merge, for any number of screens, fields and edits.   *)
(***************************************************************************)
EXTENDS TastingNotes, TLAPS

NoteStep(e) == \/ OpenDraft(e) \/ LoadNote(e) \/ KeepNote(e) \/ UpdateNote(e)
           \/ RemoveNote(e) \/ NoteGone(e) \/ CommitNote(e) \/ DraftFails(e)

(* Who is to commit holds the row: nobody else changes it meanwhile. What is   *)
(* to be committed differs from the row only in the fields the request         *)
(* carries.                                                                    *)
HoldsLock(e) == draft[e].pc = "commit" => noteLock = e
OnlyCarried(e) ==
    (draft[e].pc = "commit" /\ draft[e].row # NoNote) =>
        /\ note # NoNote
        /\ \A f \in Fields : draft[e].row[f] # note[f] => f \in draft[e].carries

MergeInv == TastingTypeOK /\ \A e \in Editors : HoldsLock(e) /\ OnlyCarried(e)

(* The invariant holds before the first edit.                                  *)
LEMMA MergeInit == TastingInit => MergeInv
  <1> SUFFICES ASSUME TastingInit PROVE MergeInv OBVIOUS
  <1>1. [pc |-> "free"] \in Draft BY DEF Draft
  <1>2. TastingTypeOK BY <1>1, TastingNotesAssumption DEF TastingInit, TastingTypeOK
  <1> QED BY <1>2 DEF TastingInit, MergeInv, HoldsLock, OnlyCarried

(* A request that goes on, or ends, without a lock or a write.                 *)
LEMMA MovesOn ==
    ASSUME MergeInv, NEW e \in Editors, NEW new \in Draft, new.pc # "commit",
           SetDraft(e, new), note' = note, drafts' \in 0..MaxDrafts,
           noteLock' = noteLock \/ (noteLock = e /\ noteLock' = Unheld)
    PROVE  MergeInv'
  <1>1. draft' \in [Editors -> Draft] BY DEF SetDraft, MergeInv, TastingTypeOK
  <1>2. TastingTypeOK' BY <1>1 DEF MergeInv, TastingTypeOK
  <1>3. ASSUME NEW x \in Editors PROVE HoldsLock(x)' /\ OnlyCarried(x)'
    <2>1. CASE x = e
      <3>1. draft'[x].pc # "commit" BY <2>1 DEF SetDraft, MergeInv, TastingTypeOK
      <3> QED BY <3>1 DEF HoldsLock, OnlyCarried
    <2>2. CASE x # e
      <3>1. draft'[x] = draft[x] BY <2>2 DEF SetDraft, MergeInv, TastingTypeOK
      <3> QED BY <2>2, <3>1 DEF MergeInv, HoldsLock, OnlyCarried
    <2> QED BY <2>1, <2>2
  <1> QED BY <1>2, <1>3 DEF MergeInv

(* A write that takes the lock of the row.                                     *)
LEMMA TakesLock ==
    ASSUME MergeInv, NEW e \in Editors, NEW row \in {NoNote} \union Filled,
           NEW carries \in SUBSET Fields, noteLock = Unheld, noteLock' = e,
           SetDraft(e, [pc |-> "commit", row |-> row, carries |-> carries]),
           UNCHANGED <<note, drafts>>,
           row # NoNote => /\ note # NoNote
                           /\ \A f \in Fields : row[f] # note[f] => f \in carries
    PROVE  MergeInv'
  <1> DEFINE new == [pc |-> "commit", row |-> row, carries |-> carries]
  <1>1. new \in Draft BY DEF Draft
  <1>2. draft' \in [Editors -> Draft] BY <1>1 DEF SetDraft, MergeInv, TastingTypeOK
  <1>3. TastingTypeOK' BY <1>2 DEF MergeInv, TastingTypeOK
  <1>4. ASSUME NEW x \in Editors PROVE HoldsLock(x)' /\ OnlyCarried(x)'
    <2>1. CASE x = e
      <3>1. draft'[x] = new BY <2>1 DEF SetDraft, MergeInv, TastingTypeOK
      <3> QED BY <2>1, <3>1 DEF HoldsLock, OnlyCarried
    <2>2. CASE x # e
      <3>1. draft'[x] = draft[x] BY <2>2 DEF SetDraft, MergeInv, TastingTypeOK
      <3>2. draft[x].pc # "commit"
          BY TastingNotesAssumption DEF MergeInv, HoldsLock, Unheld
      <3> QED BY <3>1, <3>2 DEF HoldsLock, OnlyCarried
    <2> QED BY <2>1, <2>2
  <1> QED BY <1>3, <1>4 DEF MergeInv

(* Every step of an edit keeps it.                                             *)
LEMMA MergeStep ==
    ASSUME MergeInv, NEW e \in Editors, NoteStep(e)
    PROVE  MergeInv'
  <1> USE TastingNotesAssumption
  <1>d. draft[e] \in Draft /\ drafts \in 0..MaxDrafts BY DEF MergeInv, TastingTypeOK
  <1>f. [pc |-> "free"] \in Draft BY DEF Draft
  <1>1. CASE OpenDraft(e)
    <2> DEFINE edit(mine, patch) ==
                 [pc |-> "load", mine |-> mine, remove |-> FALSE, patch |-> patch]
               removal(mine) == [pc |-> "load", mine |-> mine, remove |-> TRUE]
    <2>1. PICK mine \in BOOLEAN : \/ \E patch \in Patches : SetDraft(e, edit(mine, patch))
                                 \/ SetDraft(e, removal(mine))
        BY <1>1 DEF OpenDraft
    <2>3. PICK new : SetDraft(e, new) /\ new \in Draft /\ new.pc # "commit"
      <3>1. CASE \E patch \in Patches : SetDraft(e, edit(mine, patch))
        <4>1. PICK patch \in Patches : SetDraft(e, edit(mine, patch)) BY <3>1
        <4>2. edit(mine, patch) \in Draft /\ edit(mine, patch).pc # "commit" BY DEF Draft
        <4> QED BY <4>1, <4>2
      <3>2. CASE SetDraft(e, removal(mine))
        <4>1. removal(mine) \in Draft /\ removal(mine).pc # "commit" BY DEF Draft
        <4> QED BY <3>2, <4>1
      <3> QED BY <2>1, <3>1, <3>2
    <2>2. drafts' \in 0..MaxDrafts BY <1>1, <1>d DEF OpenDraft
    <2> QED BY <1>1, <2>2, <2>3, MovesOn DEF OpenDraft
  <1>2. CASE LoadNote(e)
    <2> DEFINE new == IF ~Owned(e) THEN [pc |-> "free"]
                      ELSE IF draft[e].remove THEN [pc |-> "remove"]
                      ELSE [pc |-> "change", patch |-> draft[e].patch, loaded |-> note]
    <2>1. draft[e].pc = "load" /\ SetDraft(e, new) /\ UNCHANGED <<note, noteLock, drafts>>
        BY <1>2 DEF LoadNote
    <2>2. new \in Draft
      <3>1. CASE ~Owned(e) BY <3>1, <1>f
      <3>2. CASE Owned(e) /\ draft[e].remove BY <3>2 DEF Draft
      <3>3. CASE Owned(e) /\ ~draft[e].remove
        <4>1. note \in Filled BY <3>3 DEF Owned, MergeInv, TastingTypeOK
        <4>2. draft[e].patch \in Patches BY <2>1, <3>3, <1>d DEF Draft
        <4>3. [pc |-> "change", patch |-> draft[e].patch, loaded |-> note] \in Draft
            BY <4>1, <4>2 DEF Draft
        <4> QED BY <3>3, <4>3
      <3> QED BY <3>1, <3>2, <3>3
    <2>3. new.pc # "commit" OBVIOUS
    <2> QED BY <2>1, <2>2, <2>3, <1>d, MovesOn
  <1>3. CASE KeepNote(e) BY <1>3, <1>d, <1>f, MovesOn DEF KeepNote
  <1>4. CASE UpdateNote(e)
    <2> DEFINE row == [f \in Fields |-> IF f \in Changed(e) THEN FieldOf(e, f) ELSE note[f]]
    <2>1. /\ draft[e].pc = "change" /\ noteLock = Unheld /\ note # NoNote /\ noteLock' = e
          /\ SetDraft(e, [pc |-> "commit", carries |-> Carried(e), row |-> row])
          /\ UNCHANGED <<note, drafts>>
        BY <1>4 DEF UpdateNote
    <2>2. note \in Filled /\ draft[e].patch \in Patches
        BY <2>1, <1>d DEF MergeInv, TastingTypeOK, Draft
    <2>3. row \in Filled
      <3>1. \A f \in Carried(e) : draft[e].patch[f] \in FieldValues
          BY <2>2 DEF Carried, Patches
      <3> QED BY <2>2, <3>1 DEF Filled, FieldOf, Changed
    <2>4. Carried(e) \in SUBSET Fields BY DEF Carried
    <2>5. \A f \in Fields : row[f] # note[f] => f \in Carried(e) BY DEF Changed
    <2> QED BY <2>1, <2>3, <2>4, <2>5, TakesLock
  <1>5. CASE RemoveNote(e)
    BY <1>5, TakesLock DEF RemoveNote
  <1>6. CASE NoteGone(e) BY <1>6, <1>d, <1>f, MovesOn DEF NoteGone
  <1>7. CASE CommitNote(e)
    <2>1. /\ draft[e].pc = "commit" /\ note' = draft[e].row /\ noteLock' = Unheld
          /\ SetDraft(e, [pc |-> "free"]) /\ drafts' = drafts
        BY <1>7 DEF CommitNote
    <2>2. TastingTypeOK' BY <2>1, <1>d, <1>f DEF SetDraft, MergeInv, TastingTypeOK, Draft
    <2>3. ASSUME NEW x \in Editors PROVE HoldsLock(x)' /\ OnlyCarried(x)'
      <3>1. draft'[x].pc # "commit"
          BY <2>1 DEF SetDraft, MergeInv, TastingTypeOK, HoldsLock
      <3> QED BY <3>1 DEF HoldsLock, OnlyCarried
    <2> QED BY <2>2, <2>3 DEF MergeInv
  <1>8. CASE DraftFails(e) BY <1>8, <1>d, <1>f, MovesOn DEF DraftFails
  <1> QED BY <1>1, <1>2, <1>3, <1>4, <1>5, <1>6, <1>7, <1>8 DEF NoteStep

(* So does a note that is created.                                             *)
LEMMA CreateKeeps ==
    ASSUME MergeInv, CreateNote PROVE MergeInv'
  <1>1. /\ note = NoNote /\ note' \in Filled /\ UNCHANGED <<noteLock, draft, drafts>>
      BY DEF CreateNote
  <1> QED BY <1>1 DEF MergeInv, TastingTypeOK, HoldsLock, OnlyCarried

(* The variables keep their types, the row has one writer at a time, and it    *)
(* writes the fields of its request only.                                      *)
THEOREM MergeInvariant == TastingSpec => []MergeInv
  <1>1. MergeInv /\ [TastingNext]_tastingVars => MergeInv'
    <2> SUFFICES ASSUME MergeInv, [TastingNext]_tastingVars PROVE MergeInv' OBVIOUS
    <2>1. CASE TastingNext BY <2>1, MergeStep, CreateKeeps DEF TastingNext, NoteStep
    <2>2. CASE UNCHANGED tastingVars
        BY <2>2 DEF tastingVars, MergeInv, TastingTypeOK, HoldsLock, OnlyCarried
    <2> QED BY <2>1, <2>2
  <1> QED BY MergeInit, <1>1, PTL DEF TastingSpec

(* An edit overwrites no field but those it carries, however old the row it    *)
(* had loaded.                                                                 *)
THEOREM EditsMergeHolds == TastingSpec => EditsMerge
  <1> DEFINE Merges ==
        (note # NoNote /\ note' \notin {NoNote, note}) =>
           \E e \in Editors :
              draft[e].pc = "commit" /\ \A f \in Fields : note'[f] # note[f] => f \in draft[e].carries
  <1>1. MergeInv /\ [TastingNext]_tastingVars => Merges
    <2> SUFFICES ASSUME MergeInv, [TastingNext]_tastingVars,
                        note # NoNote, note' \notin {NoNote, note}
                 PROVE  Merges
        OBVIOUS
    <2>1. PICK e \in Editors : CommitNote(e)
        BY DEF TastingNext, tastingVars, CreateNote, OpenDraft, LoadNote, KeepNote, UpdateNote,
               RemoveNote, NoteGone, DraftFails
    <2>2. draft[e].pc = "commit" /\ note' = draft[e].row BY <2>1 DEF CommitNote
    <2>3. \A f \in Fields : note'[f] # note[f] => f \in draft[e].carries
        BY <2>2 DEF MergeInv, OnlyCarried
    <2> QED BY <2>2, <2>3
  <1> QED BY MergeInvariant, <1>1, PTL DEF TastingSpec, EditsMerge
=============================================================================
