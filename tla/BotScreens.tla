----------------------------- MODULE BotScreens -----------------------------
(***************************************************************************)
(* What the bot's messages show of a list one person keeps in the backend: *)
(* the stores (or the watches) saved. One message offers the stores around *)
(* with a mark on those saved, and toggles them; one lists what is saved,  *)
(* each with a button that removes it. The same list is edited from the    *)
(* web. The bot handles one tap after the other; each of its calls may     *)
(* fail, before or after the backend has done what it asks. The backend    *)
(* answers a change first and commits it afterwards, if it can: until then *)
(* the row is locked, and every reader sees it as it was.                  *)
(***************************************************************************)
EXTENDS Naturals, FiniteSets

CONSTANTS
    Items,        \* stores around, and stores or wines that may be saved
    MaxTaps,      \* bound: taps
    MaxWeb        \* bound: edits from the web

ASSUME BotScreensAssumption == MaxTaps \in Nat /\ MaxWeb \in Nat

VARIABLES
    saved,        \* the rows in the backend, as committed
    pending,      \* of each item, what a call of the bot's is still to commit
    nearby,       \* user_data: whether the stores around are remembered
    marks,        \* the first message: sent or not, the stores marked
    listing,       \* the second: sent or not, the items listed
    tap,          \* what is being handled
    taps, web,
    \* history, read by no action
    was,          \* of each item, whether it was saved or absent since the tap; of
                  \* the one the tap made a call for, what was committed since
    failed        \* the changes the backend could not commit since the tap, or since
                  \* that call

screenVars == <<saved, pending, nearby, marks, listing, tap, taps, web, was, failed>>

States == {"saved", "absent"}
Unsent == <<>>
Messages == {Unsent} \union {<<S>> : S \in SUBSET Items}
NoTap == [pc |-> "idle"]
Taps == {NoTap}
    \union [pc: {"location", "alerts", "done", "relist"}]
    \union [pc: {"toggle", "remove"}, item: Items]
    \union [pc: {"toggled"}, item: Items, prefs: SUBSET Items]
    \union [pc: {"mark"}, item: Items, prefs: SUBSET Items]

BotScreensTypeOK ==
    /\ saved \subseteq Items /\ pending \in [Items -> {"none"} \union States]
    /\ nearby \in BOOLEAN
    /\ marks \in Messages /\ listing \in Messages
    /\ tap \in Taps /\ taps \in 0..MaxTaps /\ web \in 0..MaxWeb
    /\ was \in [Items -> SUBSET States] /\ failed \subseteq Items \X States

(* What an item is when the rows are S. *)
In(S, i) == IF i \in S THEN "saved" ELSE "absent"
Is(S) == [i \in Items |-> {In(S, i)}]

BotScreensInit ==
    /\ saved \in SUBSET Items /\ pending = [i \in Items |-> "none"] /\ nearby = FALSE
    /\ marks = Unsent /\ listing = Unsent
    /\ tap = NoTap /\ taps = 0 /\ web = 0 /\ was = Is(saved) /\ failed = {}

-----------------------------------------------------------------------------
(* The row of i is committed as s. *)
Save(i, s) ==
    /\ saved' = IF s = "saved" THEN saved \union {i} ELSE saved \ {i}
    /\ was' = [was EXCEPT ![i] = @ \union {s}]

Kept == UNCHANGED <<saved, pending, was, failed>>

(* A statement that finds the row locked waits for the commit. *)
Unpended(i) == pending[i] = "none"

(* The row of i is changed to s, in a transaction still to be committed. *)
Execute(i, s) ==
    /\ Unpended(i) /\ pending' = [pending EXCEPT ![i] = s]
    /\ UNCHANGED saved

(* From here on, of i only what becomes of the call counts. *)
Called(i, committed) ==
    /\ was' = [was EXCEPT ![i] = committed]
    /\ failed' = failed \ ({i} \X States)

(* get_db, once the response is sent. *)
RowCommits(i) ==
    /\ ~Unpended(i) /\ Save(i, pending[i])
    /\ pending' = [pending EXCEPT ![i] = "none"]
    /\ UNCHANGED <<nearby, marks, listing, tap, taps, web, failed>>

RowFails(i) ==
    /\ ~Unpended(i) /\ failed' = failed \union {<<i, pending[i]>>}
    /\ pending' = [pending EXCEPT ![i] = "none"]
    /\ UNCHANGED <<saved, nearby, marks, listing, tap, taps, web, was>>

Begin(new) ==
    /\ tap = NoTap /\ taps < MaxTaps /\ taps' = taps + 1
    /\ tap' = new
    /\ was' = Is(saved) /\ failed' = {}
    /\ UNCHANGED <<saved, pending, nearby, marks, listing, web>>

ShareLocation == Begin([pc |-> "location"])
AskList == Begin([pc |-> "alerts"])
TapStore(i) == marks # Unsent /\ Begin([pc |-> "toggle", item |-> i])
TapRemove(i) == listing # Unsent /\ i \in listing[1] /\ Begin([pc |-> "remove", item |-> i])
TapDone == marks # Unsent /\ Begin([pc |-> "done"])

(* The web, or a call the bot gave up before the backend came to it. *)
WebEdits ==
    /\ web < MaxWeb /\ web' = web + 1
    /\ \E i \in Items, s \in States : Unpended(i) /\ Save(i, s)
    /\ UNCHANGED <<pending, nearby, marks, listing, tap, taps, failed>>

(* A handler that gives up says so and leaves its message as it is. *)
Apology ==
    /\ tap' = NoTap
    /\ UNCHANGED <<nearby, marks, listing, taps, web>>

CallFails ==
    /\ tap.pc \in {"location", "alerts", "toggle"}
    /\ Apology /\ Kept

(* location_handler: the stores around, then those saved. *)
Locate ==
    /\ tap.pc = "location"
    /\ nearby' = TRUE /\ marks' = <<saved>> /\ tap' = NoTap
    /\ Kept /\ UNCHANGED <<listing, taps, web>>

(* mystores_command, alerts_command *)
List ==
    /\ tap.pc = "alerts"
    /\ listing' = IF saved = {} THEN listing ELSE <<saved>>   \* a text without buttons
    /\ tap' = NoTap
    /\ Kept /\ UNCHANGED <<nearby, marks, taps, web>>

(* store_toggle_callback: read the list, call, draw the marks from what was read. *)
ToggleReads ==
    /\ tap.pc = "toggle"
    /\ tap' = [pc |-> "toggled", item |-> tap.item, prefs |-> saved]
    /\ Kept /\ UNCHANGED <<nearby, marks, listing, taps, web>>

Draw(S) ==
    /\ tap' = [pc |-> "mark", item |-> tap.item, prefs |-> S]
    /\ UNCHANGED <<nearby, marks, listing, taps, web>>

(* Mutant: the marks are those read, not those of the call. *)
AsRead(prefs, i) == prefs
AfterRemove(prefs, i) == prefs \ {i}
AfterAdd(prefs, i) == prefs \union {i}

ToggleOff ==
    /\ tap.pc = "toggled" /\ tap.item \in tap.prefs
    /\ \/ /\ tap.item \in saved /\ Execute(tap.item, "absent") /\ Called(tap.item, {})
          /\ Draw(AfterRemove(tap.prefs, tap.item))
       \/ /\ tap.item \notin saved                         \* 404: "Store not found."
          /\ Kept /\ Apology

(* A conflict is an addition that was committed since the list was read: the   *)
(* store is saved.                                                             *)
ToggleOn ==
    /\ tap.pc = "toggled" /\ tap.item \notin tap.prefs
    /\ \/ tap.item \notin saved /\ Execute(tap.item, "saved") /\ Called(tap.item, {})
       \/ /\ tap.item \in saved /\ Unpended(tap.item)
          /\ Called(tap.item, {"saved"}) /\ UNCHANGED <<saved, pending>>
    /\ Draw(AfterAdd(tap.prefs, tap.item))

(* No answer, whether the row was written or not. *)
ToggleLost ==
    /\ tap.pc = "toggled"
    /\ \/ Kept
       \/ /\ tap.item \in saved <=> tap.item \in tap.prefs
          /\ Execute(tap.item, IF tap.item \in tap.prefs THEN "absent" ELSE "saved")
          /\ UNCHANGED <<was, failed>>
    /\ Apology

Mark ==
    /\ tap.pc = "mark"
    /\ marks' = IF nearby THEN <<tap.prefs>> ELSE marks
    /\ tap' = NoTap
    /\ Kept /\ UNCHANGED <<nearby, listing, taps, web>>

(* store_remove_callback, watch_remove_callback: a row already gone is as good *)
(* as removed; the list is then read again, and when that fails drawn empty.   *)
RemoveTapped ==
    /\ tap.pc = "remove"
    /\ \/ /\ \/ /\ tap.item \in saved /\ Execute(tap.item, "absent")
                /\ UNCHANGED <<was, failed>>
             \/ tap.item \notin saved /\ Kept              \* 404
          /\ tap' = [pc |-> "relist"] /\ UNCHANGED <<nearby, marks, listing, taps, web>>
       \/ /\ tap.item \in saved /\ Execute(tap.item, "absent")
          /\ UNCHANGED <<was, failed>> /\ Apology
       \/ Kept /\ Apology

ReadAgain ==
    /\ tap.pc = "relist"
    /\ listing' = IF saved = {} THEN Unsent ELSE <<saved>>
    /\ tap' = NoTap
    /\ Kept /\ UNCHANGED <<nearby, marks, taps, web>>

ReadAgainFails ==
    /\ tap.pc = "relist"
    /\ listing' = Unsent
    /\ tap' = NoTap
    /\ Kept /\ UNCHANGED <<nearby, marks, taps, web>>

(* The message becomes a text, the stores around are forgotten. *)
Finish ==
    /\ tap.pc = "done"
    /\ marks' = Unsent /\ nearby' = FALSE /\ tap' = NoTap
    /\ Kept /\ UNCHANGED <<listing, taps, web>>

(* user_data is in memory; the messages stay in the chat. *)
Restart ==
    /\ nearby' = FALSE /\ tap' = NoTap
    /\ Kept /\ UNCHANGED <<marks, listing, taps, web>>

BotScreensNext ==
    \/ ShareLocation \/ AskList \/ TapDone \/ \E i \in Items : TapStore(i) \/ TapRemove(i)
    \/ WebEdits \/ \E i \in Items : RowCommits(i) \/ RowFails(i)
    \/ CallFails \/ Locate \/ List \/ ToggleReads \/ ToggleOff \/ ToggleOn \/ ToggleLost \/ Mark
    \/ RemoveTapped \/ ReadAgain \/ ReadAgainFails \/ Finish \/ Restart

BotScreensSpec == BotScreensInit /\ [][BotScreensNext]_screenVars

-----------------------------------------------------------------------------
(* Answered by the backend, and still to be committed, or not to be. *)
Answered(i, s) == tap.pc = "mark" /\ i = tap.item /\ (pending[i] = s \/ <<i, s>> \in failed)

True(S) == \A i \in Items : In(S, i) \in was[i] \/ Answered(i, In(S, i))

(* Each mark drawn was true at some moment while the tap was handled. That of   *)
(* the store tapped became true since the call for it, or is about to, or is    *)
(* what the backend answered before a commit that failed: the only way to a     *)
(* mark that was never true, although the list is read before the call, the web *)
(* writes between the two, and a conflict is taken for success.                 *)
MarksTrue == [][(marks' # marks /\ marks' # Unsent) => True(marks'[1])]_screenVars
=============================================================================
