---------------------------- MODULE TastingNotes ----------------------------
(***************************************************************************)
(* One tasting note under requests of several screens. To edit or delete   *)
(* it is to load the row, to check whose it is, and to write it by its id; *)
(* an edit carries some of the fields, and writes those in which what it   *)
(* carries differs from what it loaded. The row is locked from the write   *)
(* to the commit; a statement that finds it locked waits.                  *)
(***************************************************************************)
EXTENDS Naturals

CONSTANTS
    Editors,     \* requests that may be under way at a time
    Fields,      \* rating, notes, pairing, tasted_at
    FieldValues,
    MaxDrafts    \* bound: edits and deletions asked for

ASSUME TastingNotesAssumption == MaxDrafts \in Nat /\ "unheld" \notin Editors

VARIABLES
    note,        \* the committed row, or NoNote
    noteLock,    \* the request whose transaction holds the row
    draft,       \* the requests
    drafts

tastingVars == <<note, noteLock, draft, drafts>>

NoNote == <<>>
Filled == [Fields -> FieldValues]
Nothing == "nothing"                                  \* a field the request leaves out
Patches == [Fields -> FieldValues \union {Nothing}]
Unheld == "unheld"

Draft == [pc: {"free"}]
    \union [pc: {"load"}, mine: BOOLEAN, remove: {FALSE}, patch: Patches]
    \union [pc: {"load"}, mine: BOOLEAN, remove: {TRUE}]
    \union [pc: {"change"}, patch: Patches, loaded: Filled]
    \union [pc: {"remove"}]
    \union [pc: {"commit"}, row: {NoNote} \union Filled, carries: SUBSET Fields]

TastingTypeOK ==
    /\ note \in {NoNote} \union Filled
    /\ noteLock \in Editors \union {Unheld}
    /\ draft \in [Editors -> Draft]
    /\ drafts \in 0..MaxDrafts

TastingInit ==
    /\ note = NoNote /\ noteLock = Unheld /\ drafts = 0
    /\ draft = [e \in Editors |-> [pc |-> "free"]]

-----------------------------------------------------------------------------
SetDraft(e, new) == draft' = [draft EXCEPT ![e] = new]

(* POST: one INSERT; an unknown wine fails it. The id is known to nobody before. *)
CreateNote ==
    /\ note = NoNote /\ drafts = 0
    /\ \E row \in Filled : note' = row
    /\ UNCHANGED <<noteLock, draft, drafts>>

(* PATCH and DELETE name the note by its id; the caller may be another person. *)
OpenDraft(e) ==
    /\ draft[e].pc = "free"
    /\ drafts < MaxDrafts /\ drafts' = drafts + 1
    /\ \E mine \in BOOLEAN :
          \/ \E patch \in Patches :
                SetDraft(e, [pc |-> "load", mine |-> mine, remove |-> FALSE, patch |-> patch])
          \/ SetDraft(e, [pc |-> "load", mine |-> mine, remove |-> TRUE])
    /\ UNCHANGED <<note, noteLock>>

Owned(e) == note # NoNote /\ draft[e].mine

LoadNote(e) ==
    /\ draft[e].pc = "load"
    /\ SetDraft(e, IF ~Owned(e) THEN [pc |-> "free"]                   \* 404, 403
                   ELSE IF draft[e].remove THEN [pc |-> "remove"]
                   ELSE [pc |-> "change", patch |-> draft[e].patch, loaded |-> note])
    /\ UNCHANGED <<note, noteLock, drafts>>

Carried(e) == {f \in Fields : draft[e].patch[f] # Nothing}

(* The columns of the UPDATE. *)
(* Mutant: all of them, as loaded and patched. *)
AllColumns(e) == Fields
Changed(e) == {f \in Carried(e) : draft[e].patch[f] # draft[e].loaded[f]}

FieldOf(e, f) == IF f \in Carried(e) THEN draft[e].patch[f] ELSE draft[e].loaded[f]

KeepNote(e) ==
    /\ draft[e].pc = "change" /\ Changed(e) = {}
    /\ SetDraft(e, [pc |-> "free"])
    /\ UNCHANGED <<note, noteLock, drafts>>

UpdateNote(e) ==
    /\ draft[e].pc = "change" /\ Changed(e) # {} /\ noteLock = Unheld
    /\ note # NoNote
    /\ noteLock' = e
    /\ SetDraft(e, [pc |-> "commit", carries |-> Carried(e),
                    row |-> [f \in Fields |-> IF f \in Changed(e) THEN FieldOf(e, f) ELSE note[f]]])
    /\ UNCHANGED <<note, drafts>>

RemoveNote(e) ==
    /\ draft[e].pc = "remove" /\ noteLock = Unheld
    /\ note # NoNote
    /\ noteLock' = e
    /\ SetDraft(e, [pc |-> "commit", row |-> NoNote, carries |-> {}])
    /\ UNCHANGED <<note, drafts>>

(* Removed since it was loaded: the UPDATE that matches no row is an error, the *)
(* DELETE is not.                                                              *)
NoteGone(e) ==
    /\ draft[e].pc \in {"change", "remove"} /\ noteLock = Unheld
    /\ note = NoNote
    /\ SetDraft(e, [pc |-> "free"])
    /\ UNCHANGED <<note, noteLock, drafts>>

CommitNote(e) ==
    /\ draft[e].pc = "commit"
    /\ note' = draft[e].row /\ noteLock' = Unheld
    /\ SetDraft(e, [pc |-> "free"])
    /\ UNCHANGED drafts

(* Connection or process lost: the transaction is rolled back. *)
DraftFails(e) ==
    /\ draft[e].pc # "free"
    /\ noteLock' = IF noteLock = e THEN Unheld ELSE noteLock
    /\ SetDraft(e, [pc |-> "free"])
    /\ UNCHANGED <<note, drafts>>

TastingNext ==
    \/ CreateNote
    \/ \E e \in Editors : \/ OpenDraft(e) \/ LoadNote(e) \/ KeepNote(e) \/ UpdateNote(e)
                          \/ RemoveNote(e) \/ NoteGone(e) \/ CommitNote(e) \/ DraftFails(e)

TastingSpec == TastingInit /\ [][TastingNext]_tastingVars

-----------------------------------------------------------------------------
(* What one screen writes is overwritten only by a request that carries the   *)
(* field: two edits of the same note merge field by field, whatever each had  *)
(* loaded.                                                                    *)
EditsMerge ==
    [][(note # NoNote /\ note' \notin {NoNote, note}) =>
         \E e \in Editors :
            draft[e].pc = "commit" /\ \A f \in Fields : note'[f] # note[f] => f \in draft[e].carries
      ]_tastingVars
=============================================================================
