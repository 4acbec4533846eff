------------------------------- MODULE Cellar -------------------------------
(***************************************************************************)
(* The entry of one wine in one person's cellar, under the requests of one *)
(* screen or of several. To add a bottle is one statement, an upsert that  *)
(* counts in the database; to set the count or to remove the entry is to   *)
(* load the row, then to write it by its id. The answer is sent, and only  *)
(* then the transaction committed, if it can be: the session is closed     *)
(* after the response. The row is locked from the write to the commit; a   *)
(* statement that finds it locked waits, then sees what was committed.     *)
(***************************************************************************)
EXTENDS Naturals

CONSTANTS
    Screens,     \* requests under way at a time
    Most,        \* MAX_CELLAR_QUANTITY
    MaxEntries   \* bound: rows ever inserted

ASSUME CellarAssumption ==
    Most \in Nat \ {0} /\ MaxEntries \in Nat /\ "free" \notin Screens

VARIABLES
    entry,       \* the committed row, or none
    lastId,      \* of the sequence
    lock,        \* the request whose transaction holds the row
    patch,       \* each request
    \* history, read by no action
    asked, counted, replied

cellarHistory == <<asked, counted, replied>>
cellarVars == <<entry, lastId, lock, patch, cellarHistory>>

Counts == 0..Most
NoEntry == [id |-> 0, quantity |-> 0]
CellarRow == {NoEntry} \union [id: 1..MaxEntries, quantity: 1..Most]
Free == "free"
Asked == {<<>>, <<"add">>} \union {<<"set", n>> : n \in Counts}
Done(n) == <<"done", n>>
Missing == <<"no such entry">>
Error == <<"error">>

Patch == [pc: {"idle", "upsert"}]
    \union [pc: {"find"}, quantity: Counts]
    \union [pc: {"write"}, quantity: Counts, loaded: CellarRow \ {NoEntry}]
    \union [pc: {"answer", "commit"}, row: CellarRow]

CellarTypeOK ==
    /\ entry \in CellarRow /\ lastId \in 0..MaxEntries
    /\ lock \in Screens \union {Free}
    /\ patch \in [Screens -> Patch]
    /\ \A r \in Screens : patch[r].pc \in {"answer", "commit"} => lock = r
    /\ asked \in [Screens -> Asked]
    /\ counted \in [Screens -> SUBSET Counts]
    /\ replied \in [Screens -> {Done(n) : n \in Counts} \union {Missing, Error}]

CellarInit ==
    /\ entry = NoEntry /\ lastId = 0 /\ lock = Free
    /\ patch = [r \in Screens |-> [pc |-> "idle"]]
    /\ asked = [r \in Screens |-> <<>>] /\ counted = [r \in Screens |-> {}]
    /\ replied = [r \in Screens |-> Error]

-----------------------------------------------------------------------------
SetPatch(r, new) == patch' = [patch EXCEPT ![r] = new]

Close(r) ==
    /\ SetPatch(r, [pc |-> "idle"])
    /\ asked' = [asked EXCEPT ![r] = <<>>]
    /\ counted' = [x \in Screens |-> IF asked'[x] = <<>> THEN {}
                                  ELSE counted[x] \union {entry'.quantity}]

Reply(r, a) == replied' = [replied EXCEPT ![r] = a]

(* A request that wrote nothing: its answer is all there is to it. *)
Respond(r, a) == Close(r) /\ Reply(r, a)

Request(r, what, first) ==
    /\ patch[r].pc = "idle"
    /\ SetPatch(r, first)
    /\ asked' = [asked EXCEPT ![r] = what] /\ counted' = [counted EXCEPT ![r] = {entry.quantity}]
    /\ UNCHANGED <<entry, lastId, lock, replied>>

AddBottle(r) == Request(r, <<"add">>, [pc |-> "upsert"])
SetQuantity(r, n) == Request(r, <<"set", n>>, [pc |-> "find", quantity |-> n])

(* INSERT ... ON CONFLICT (user_id, sku) DO UPDATE: the sum is made on the row  *)
(* as it is when the lock is had.                                              *)
(* Mutant: no upper limit. *)
OneMore(n) == n + 1
Sum(n) == IF n < Most THEN n + 1 ELSE Most

(* Mutant: the count is read by one statement and written by another. *)
NotLocked == TRUE
Unlocked == lock = Free

Upsert(r) ==
    /\ patch[r].pc = "upsert" /\ Unlocked
    /\ entry = NoEntry => lastId < MaxEntries
    /\ lock' = r
    /\ lastId' = IF entry = NoEntry THEN lastId + 1 ELSE lastId
    /\ SetPatch(r, [pc |-> "answer",
                    row |-> IF entry = NoEntry THEN [id |-> lastId + 1, quantity |-> 1]
                            ELSE [id |-> entry.id, quantity |-> Sum(entry.quantity)]])
    /\ UNCHANGED <<entry, cellarHistory>>

Find(r) ==
    /\ patch[r].pc = "find"
    /\ UNCHANGED <<entry, lastId, lock>>
    /\ IF entry = NoEntry
       THEN Respond(r, Missing)
       ELSE /\ SetPatch(r, [pc |-> "write", quantity |-> patch[r].quantity, loaded |-> entry])
            /\ UNCHANGED cellarHistory

(* SQLAlchemy writes what differs from what it loaded: nothing, when the count *)
(* is the same. *)
Same(r) == patch[r].quantity = patch[r].loaded.quantity

WriteNothing(r) ==
    /\ patch[r].pc = "write" /\ Same(r)
    /\ UNCHANGED entry /\ Respond(r, Done(patch[r].quantity))
    /\ UNCHANGED <<lastId, lock>>

RowFound(r) == entry.id = patch[r].loaded.id

Write(r) ==
    /\ patch[r].pc = "write" /\ ~Same(r) /\ Unlocked
    /\ RowFound(r)
    /\ lock' = r
    /\ SetPatch(r, [pc |-> "answer",
                    row |-> IF patch[r].quantity = 0 THEN NoEntry
                            ELSE [id |-> entry.id, quantity |-> patch[r].quantity]])
    /\ UNCHANGED <<entry, lastId, cellarHistory>>

(* The row has been deleted since, and may have been inserted anew: an UPDATE  *)
(* that matches nothing is an error, a DELETE is not.                          *)
WriteMisses(r) ==
    /\ patch[r].pc = "write" /\ ~Same(r)
    /\ ~RowFound(r)
    /\ UNCHANGED entry
    /\ Respond(r, IF patch[r].quantity = 0 THEN Done(0) ELSE Error)
    /\ UNCHANGED <<lastId, lock>>

(* The response goes out before the session commits; it may not arrive. *)
SendAnswer(r) ==
    /\ patch[r].pc = "answer"
    /\ SetPatch(r, [patch[r] EXCEPT !.pc = "commit"])
    /\ \E a \in {Done(patch[r].row.quantity), Error} : Reply(r, a)
    /\ UNCHANGED <<entry, lastId, lock, asked, counted>>

Commit(r) ==
    /\ patch[r].pc = "commit"
    /\ entry' = patch[r].row
    /\ Close(r)
    /\ lock' = Free
    /\ UNCHANGED <<lastId, replied>>

(* The connection or the process is lost after the answer. *)
CommitFails(r) ==
    /\ patch[r].pc = "commit"
    /\ UNCHANGED entry /\ Close(r)
    /\ lock' = Free
    /\ UNCHANGED <<lastId, replied>>

(* An unknown wine, no connection, a restart, before the answer. *)
RequestFails(r) ==
    /\ patch[r].pc \notin {"idle", "commit"}
    /\ UNCHANGED entry /\ Respond(r, Error)
    /\ lock' = IF lock = r THEN Free ELSE lock
    /\ UNCHANGED lastId

CellarNext ==
    \E r \in Screens :
        \/ AddBottle(r) \/ \E n \in Counts : SetQuantity(r, n)
        \/ Upsert(r) \/ Find(r) \/ WriteNothing(r) \/ Write(r) \/ WriteMisses(r)
        \/ SendAnswer(r) \/ Commit(r) \/ CommitFails(r) \/ RequestFails(r)

CellarSpec == CellarInit /\ [][CellarNext]_cellarVars

-----------------------------------------------------------------------------
(* The count moves only by whole requests, each by what it asked for and to    *)
(* what it answered: the cellar behaves as the atomic one, although setting a  *)
(* count loads the row in one statement and writes it in another, and although *)
(* a request is answered before it takes effect, if it ever does.              *)
Atomic == INSTANCE AtomicCellar
              WITH bottles <- entry.quantity,
                   pledged <- {r \in Screens : patch[r].pc = "commit"}
CellarIsAtomic == Atomic!AtomicSpec
=============================================================================
