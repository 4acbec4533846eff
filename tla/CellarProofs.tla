---------------------------- MODULE CellarProofs ----------------------------
(***************************************************************************)
(* The cellar behaves as the atomic one for any screens, any limit and any *)
(* number of rows.                                                         *)
(***************************************************************************)
EXTENDS Cellar, TLAPS

(* One step of the cellar's, named for the lemmas. *)
CellarStep(r) ==
    \/ AddBottle(r) \/ \E n \in Counts : SetQuantity(r, n)
    \/ Upsert(r) \/ Find(r) \/ WriteNothing(r) \/ Write(r) \/ WriteMisses(r)
    \/ SendAnswer(r) \/ Commit(r) \/ CommitFails(r) \/ RequestFails(r)

(* What a request that ends leaves in the variables. *)
LEMMA CloseTyped ==
    ASSUME CellarTypeOK, NEW r \in Screens, Close(r), entry' \in CellarRow
    PROVE  /\ patch' \in [Screens -> Patch]
           /\ patch'[r].pc = "idle"
           /\ \A x \in Screens \ {r} : patch'[x] = patch[x]
           /\ asked' \in [Screens -> Asked]
           /\ counted' \in [Screens -> SUBSET Counts]
  <1> USE CellarAssumption
  <1>1. [pc |-> "idle"] \in Patch BY DEF Patch
  <1>2. patch' \in [Screens -> Patch]
      BY <1>1 DEF Close, SetPatch, CellarTypeOK
  <1>3. patch'[r].pc = "idle" /\ \A x \in Screens \ {r} : patch'[x] = patch[x]
      BY DEF Close, SetPatch, CellarTypeOK
  <1>4. asked' \in [Screens -> Asked]
    <2>1. <<>> \in Asked BY DEF Asked
    <2> QED BY <2>1 DEF Close, CellarTypeOK
  <1>5. counted' \in [Screens -> SUBSET Counts]
    <2>1. entry'.quantity \in Counts BY DEF CellarRow, NoEntry, Counts
    <2> QED BY <2>1 DEF Close, CellarTypeOK
  <1> QED BY <1>2, <1>3, <1>4, <1>5

(* An answer that is all there is to the request. *)
LEMMA RespondTyped ==
    ASSUME CellarTypeOK, NEW r \in Screens,
           NEW a \in {Done(n) : n \in Counts} \union {Missing, Error},
           Respond(r, a), UNCHANGED <<entry, lastId>>,
           lock' \in Screens \union {Free},
           \A x \in Screens \ {r} : patch[x].pc \in {"answer", "commit"} => lock' = x
    PROVE  CellarTypeOK'
  <1>1. /\ Close(r) /\ Reply(r, a) BY DEF Respond
  <1>2. entry' \in CellarRow BY DEF CellarTypeOK
  <1>3. replied' \in [Screens -> {Done(n) : n \in Counts} \union {Missing, Error}]
      BY <1>1 DEF Reply, CellarTypeOK
  <1> QED BY <1>1, <1>2, <1>3, CloseTyped DEF CellarTypeOK

(* The holder of the lock gives it up, whether its row is committed or not. *)
LEMMA FreedTyped ==
    ASSUME CellarTypeOK, NEW r \in Screens, patch[r].pc = "commit",
           Close(r), entry' \in CellarRow, lock' = Free, UNCHANGED <<lastId, replied>>
    PROVE  CellarTypeOK'
  <1>1. \A x \in Screens \ {r} : patch[x].pc \notin {"answer", "commit"}
      BY DEF CellarTypeOK
  <1> QED BY <1>1, CloseTyped DEF CellarTypeOK

(* A request that begins. *)
LEMMA RequestTyped ==
    ASSUME CellarTypeOK, NEW r \in Screens, NEW what \in Asked, NEW first \in Patch,
           first.pc \notin {"answer", "commit"}, Request(r, what, first)
    PROVE  CellarTypeOK'
  <1>1. entry.quantity \in Counts
      BY CellarAssumption DEF CellarTypeOK, CellarRow, NoEntry, Counts
  <1> QED BY <1>1 DEF Request, SetPatch, CellarTypeOK

(* A statement that writes the row, and keeps it locked. *)
LEMMA WrittenTyped ==
    ASSUME CellarTypeOK, NEW r \in Screens, NEW row \in CellarRow,
           patch[r].pc # "idle", Unlocked, lock' = r, lastId' \in 0..MaxEntries,
           SetPatch(r, [pc |-> "answer", row |-> row]),
           UNCHANGED <<entry, cellarHistory>>
    PROVE  CellarTypeOK'
  <1>1. \A x \in Screens : patch[x].pc \notin {"answer", "commit"}
      BY CellarAssumption DEF CellarTypeOK, Unlocked, Free
  <1>2. [pc |-> "answer", row |-> row] \in Patch BY DEF Patch
  <1>3. patch' \in [Screens -> Patch] BY <1>2 DEF SetPatch, CellarTypeOK
  <1>4. \A x \in Screens : patch'[x].pc \in {"answer", "commit"} => lock' = x
      BY <1>1 DEF SetPatch, CellarTypeOK
  <1> QED BY <1>3, <1>4 DEF CellarTypeOK, cellarHistory

(* The empty cellar has its types.                                             *)
LEMMA TypeInit == CellarInit => CellarTypeOK
  <1> SUFFICES ASSUME CellarInit PROVE CellarTypeOK OBVIOUS
  <1>1. [pc |-> "idle"] \in Patch BY DEF Patch
  <1>2. <<>> \in Asked BY DEF Asked
  <1> QED BY <1>1, <1>2, CellarAssumption DEF CellarInit, CellarTypeOK, CellarRow, Counts

(* A step keeps them, and hands the lock of the row over.                      *)
LEMMA TypeStep ==
    ASSUME CellarTypeOK, NEW r \in Screens, CellarStep(r)
    PROVE  CellarTypeOK'
  <1> USE CellarAssumption
  <1>r. patch[r] \in Patch BY DEF CellarTypeOK
  <1>n. NoEntry \in CellarRow BY DEF CellarRow
  <1>q. \A row \in CellarRow : row.quantity \in Counts
      BY DEF CellarRow, NoEntry, Counts
  <1>1. CASE AddBottle(r)
    <2>1. [pc |-> "upsert"] \in Patch BY DEF Patch
    <2>2. <<"add">> \in Asked BY DEF Asked
    <2> QED BY <1>1, <2>1, <2>2, RequestTyped DEF AddBottle
  <1>2. CASE \E n \in Counts : SetQuantity(r, n)
    <2>1. PICK n \in Counts : SetQuantity(r, n) BY <1>2
    <2>2. [pc |-> "find", quantity |-> n] \in Patch BY DEF Patch
    <2>3. <<"set", n>> \in Asked BY DEF Asked
    <2> QED BY <2>1, <2>2, <2>3, RequestTyped DEF SetQuantity
  <1>3. CASE Upsert(r)
    <2> DEFINE row == IF entry = NoEntry THEN [id |-> lastId + 1, quantity |-> 1]
                      ELSE [id |-> entry.id, quantity |-> Sum(entry.quantity)]
    <2>1. row \in CellarRow
        BY <1>3 DEF Upsert, CellarTypeOK, CellarRow, Sum
    <2>2. lastId' \in 0..MaxEntries BY <1>3 DEF Upsert, CellarTypeOK
    <2> QED BY <1>3, <2>1, <2>2, WrittenTyped DEF Upsert
  <1>4. CASE Find(r)
    <2>1. CASE entry = NoEntry
      <3>1. /\ Respond(r, Missing) /\ UNCHANGED <<entry, lastId, lock>>
            /\ patch[r].pc = "find"
          BY <1>4, <2>1 DEF Find
      <3> QED BY <3>1, RespondTyped DEF CellarTypeOK
    <2>2. CASE entry # NoEntry
      <3> DEFINE new == [pc |-> "write", quantity |-> patch[r].quantity, loaded |-> entry]
      <3>1. /\ patch[r].pc = "find" /\ SetPatch(r, new)
            /\ UNCHANGED cellarHistory /\ UNCHANGED <<entry, lastId, lock>>
          BY <1>4, <2>2 DEF Find
      <3>2. patch[r].quantity \in Counts BY <1>r, <3>1 DEF Patch
      <3>3. entry \in CellarRow \ {NoEntry} BY <2>2 DEF CellarTypeOK
      <3>4. new \in [pc: {"write"}, quantity: Counts, loaded: CellarRow \ {NoEntry}]
          BY <3>2, <3>3
      <3>5. new \in Patch BY <3>4 DEF Patch
      <3> QED BY <3>1, <3>5 DEF SetPatch, CellarTypeOK, cellarHistory
    <2> QED BY <2>1, <2>2
  <1>5. CASE WriteNothing(r)
    <2>1. patch[r].quantity \in Counts BY <1>5, <1>r DEF WriteNothing, Patch
    <2> QED BY <1>5, <2>1, RespondTyped DEF WriteNothing, CellarTypeOK
  <1>6. CASE Write(r)
    <2> DEFINE row == IF patch[r].quantity = 0 THEN NoEntry
                      ELSE [id |-> entry.id, quantity |-> patch[r].quantity]
    <2>1. /\ patch[r].pc = "write" /\ ~Same(r) /\ Unlocked /\ RowFound(r) /\ lock' = r
          /\ SetPatch(r, [pc |-> "answer", row |-> row])
          /\ UNCHANGED <<entry, lastId, cellarHistory>>
        BY <1>6 DEF Write
    <2>2. patch[r].quantity \in Counts BY <2>1, <1>r DEF Patch
    <2>3. entry # NoEntry
      <3>1. patch[r].loaded \in CellarRow \ {NoEntry} BY <2>1, <1>r DEF Patch
      <3>2. patch[r].loaded.id # 0 BY <3>1 DEF CellarRow
      <3> QED BY <2>1, <3>2 DEF RowFound, NoEntry
    <2>4. row \in CellarRow
        BY <2>2, <2>3, <1>n DEF CellarTypeOK, CellarRow, Counts
    <2> QED BY <2>1, <2>4, WrittenTyped DEF CellarTypeOK
  <1>7. CASE WriteMisses(r)
    <2>1. Done(0) \in {Done(n) : n \in Counts} BY DEF Counts
    <2> QED BY <1>7, <2>1, RespondTyped DEF WriteMisses, CellarTypeOK
  <1>8. CASE SendAnswer(r)
    <2>1. PICK a \in {Done(patch[r].row.quantity), Error} : Reply(r, a)
        BY <1>8 DEF SendAnswer
    <2>2. /\ patch[r].pc = "answer" /\ lock = r
          /\ SetPatch(r, [patch[r] EXCEPT !.pc = "commit"])
          /\ UNCHANGED <<entry, lastId, lock, asked, counted>>
        BY <1>8 DEF SendAnswer, CellarTypeOK
    <2>3. patch[r] \in [pc: {"answer", "commit"}, row: CellarRow] BY <2>2, <1>r DEF Patch
    <2>4. [patch[r] EXCEPT !.pc = "commit"] \in Patch BY <2>3 DEF Patch
    <2>5. patch' \in [Screens -> Patch] BY <2>2, <2>4 DEF SetPatch, CellarTypeOK
    <2>6. \A x \in Screens : patch'[x].pc \in {"answer", "commit"} => lock' = x
        BY <2>2 DEF SetPatch, CellarTypeOK
    <2>7. patch[r].row.quantity \in Counts BY <2>3, <1>q
    <2>8. a \in {Done(n) : n \in Counts} \union {Missing, Error} BY <2>1, <2>7
    <2>9. replied' \in [Screens -> {Done(n) : n \in Counts} \union {Missing, Error}]
        BY <2>1, <2>8 DEF Reply, CellarTypeOK
    <2> QED BY <2>2, <2>5, <2>6, <2>9 DEF CellarTypeOK
  <1>9. CASE Commit(r)
    <2>1. patch[r].pc = "commit" /\ patch[r].row \in CellarRow
        BY <1>9, <1>r DEF Commit, Patch
    <2> QED BY <1>9, <2>1, FreedTyped DEF Commit
  <1>10. CASE CommitFails(r)
      BY <1>10, FreedTyped DEF CommitFails, CellarTypeOK
  <1>11. CASE RequestFails(r)
    <2>1. /\ Respond(r, Error) /\ UNCHANGED <<entry, lastId>>
          /\ lock' = IF lock = r THEN Free ELSE lock
        BY <1>11 DEF RequestFails
    <2> QED BY <2>1, RespondTyped DEF CellarTypeOK
  <1> QED BY <1>1, <1>2, <1>3, <1>4, <1>5, <1>6, <1>7, <1>8, <1>9, <1>10, <1>11
          DEF CellarStep

(* Every variable of the cellar keeps its type: a committed count is between   *)
(* one and the limit, and only the holder of the row's lock is to commit.      *)
THEOREM CellarTypeCorrect == CellarSpec => []CellarTypeOK
  <1>1. CellarTypeOK /\ [CellarNext]_cellarVars => CellarTypeOK'
    <2> SUFFICES ASSUME CellarTypeOK, [CellarNext]_cellarVars PROVE CellarTypeOK' OBVIOUS
    <2>1. CASE CellarNext BY <2>1, TypeStep DEF CellarNext, CellarStep
    <2>2. CASE UNCHANGED cellarVars
        BY <2>2 DEF cellarVars, cellarHistory, CellarTypeOK
    <2> QED BY <2>1, <2>2
  <1> QED BY TypeInit, <1>1, PTL DEF CellarSpec

-----------------------------------------------------------------------------
(* What a request under way knows: what it was asked, that the present count   *)
(* is among those it has lived through, and that when the row it loaded is     *)
(* gone, so is a moment without bottles.                                       *)
Expects(r) ==
    /\ patch[r].pc = "idle" <=> asked[r] = <<>>
    /\ patch[r].pc = "upsert" => asked[r] = <<"add">>
    /\ patch[r].pc \in {"find", "write"} => asked[r] = <<"set", patch[r].quantity>>

Lived(r) == patch[r].pc # "idle" => entry.quantity \in counted[r]

Remembers(r) ==
    patch[r].pc = "write" =>
        /\ patch[r].loaded.quantity \in counted[r]
        /\ ~RowFound(r) => 0 \in counted[r]

(* The row written, which the answer is made from and which is to be committed, *)
(* is what the atomic cellar would come to.                                    *)
Promises(r) ==
    patch[r].pc \in {"answer", "commit"} =>
        LET row == patch[r].row IN
        /\ patch[r].pc = "commit" => replied[r] \in {Done(row.quantity), Error}
        /\ \/ asked[r] = <<"add">> /\ row.quantity = Sum(entry.quantity)
           \/ \E n \in Counts : /\ asked[r] = <<"set", n>> /\ row.quantity = n
                                /\ entry # NoEntry
        /\ row = NoEntry \/ row.id = entry.id \/ entry = NoEntry

CellarInv ==
    CellarTypeOK /\ \A r \in Screens : Expects(r) /\ Lived(r) /\ Remembers(r) /\ Promises(r)

(* The empty cellar satisfies it.                                              *)
LEMMA InvInit == CellarInit => CellarInv
  <1> SUFFICES ASSUME CellarInit PROVE CellarInv OBVIOUS
  <1>1. CellarTypeOK BY TypeInit
  <1> QED BY <1>1 DEF CellarInit, CellarInv, Expects, Lived, Remembers, Promises

(* An end leaves the others what they were waiting for, and adds the count  *)
(* it leaves to those they have lived through.                                 *)
LEMMA CloseKeeps ==
    ASSUME CellarTypeOK, NEW r \in Screens, Close(r),
           NEW x \in Screens, x # r, Expects(x), Remembers(x)
    PROVE  /\ patch'[x] = patch[x] /\ asked'[x] = asked[x]
           /\ Expects(x)' /\ Lived(x)'
           /\ patch[x].pc # "idle" => counted'[x] = counted[x] \union {entry'.quantity}
  BY DEF Close, SetPatch, CellarTypeOK, Expects, Lived

(* It leaves nothing to know to the one it is for.                             *)
LEMMA CloseEnds ==
    ASSUME CellarTypeOK, NEW r \in Screens, Close(r)
    PROVE  Expects(r)' /\ Lived(r)' /\ Remembers(r)' /\ Promises(r)'
  <1>1. patch'[r].pc = "idle" /\ asked'[r] = <<>>
      BY DEF Close, SetPatch, CellarTypeOK
  <1> QED BY <1>1 DEF Expects, Lived, Remembers, Promises

(* An end that leaves the row and the other answers alone keeps the invariant. *)
LEMMA CloseInv ==
    ASSUME CellarInv, NEW r \in Screens, Close(r), entry' = entry,
           \A x \in Screens \ {r} : replied'[x] = replied[x]
    PROVE  \A x \in Screens : Expects(x)' /\ Lived(x)' /\ Remembers(x)' /\ Promises(x)'
  <1> SUFFICES ASSUME NEW x \in Screens
               PROVE  Expects(x)' /\ Lived(x)' /\ Remembers(x)' /\ Promises(x)'
      OBVIOUS
  <1>1. CASE x = r BY <1>1, CloseEnds DEF CellarInv
  <1>2. CASE x # r
    <2>1. /\ patch'[x] = patch[x] /\ asked'[x] = asked[x]
          /\ Expects(x)' /\ Lived(x)'
          /\ patch[x].pc # "idle" => counted'[x] = counted[x] \union {entry'.quantity}
        BY <1>2, CloseKeeps DEF CellarInv
    <2>2. Remembers(x)' BY <2>1 DEF CellarInv, Remembers, RowFound
    <2>3. replied'[x] = replied[x] BY <1>2
    <2>4. Promises(x)' BY <2>1, <2>3 DEF CellarInv, Promises
    <2> QED BY <2>1, <2>2, <2>4
  <1> QED BY <1>1, <1>2

(* And so does a request that only answers.                                    *)
LEMMA RespondInv ==
    ASSUME CellarInv, NEW r \in Screens, NEW a, Respond(r, a), entry' = entry
    PROVE  \A x \in Screens : Expects(x)' /\ Lived(x)' /\ Remembers(x)' /\ Promises(x)'
  <1>1. Close(r) /\ Reply(r, a) BY DEF Respond
  <1>2. \A x \in Screens \ {r} : replied'[x] = replied[x]
      BY <1>1 DEF Reply, CellarInv, CellarTypeOK
  <1> QED BY <1>1, <1>2, CloseInv

(* A step that only moves a request on keeps what the others know.             *)
LEMMA MoveInv ==
    ASSUME CellarInv, NEW r \in Screens, NEW new, SetPatch(r, new),
           UNCHANGED <<entry, cellarHistory>>,
           Expects(r)', Lived(r)', Remembers(r)', Promises(r)'
    PROVE  \A x \in Screens : Expects(x)' /\ Lived(x)' /\ Remembers(x)' /\ Promises(x)'
  <1> SUFFICES ASSUME NEW x \in Screens, x # r
               PROVE  Expects(x)' /\ Lived(x)' /\ Remembers(x)' /\ Promises(x)'
      OBVIOUS
  <1>1. /\ patch'[x] = patch[x] /\ entry' = entry
        /\ asked' = asked /\ counted' = counted /\ replied' = replied
      BY DEF SetPatch, CellarInv, CellarTypeOK, cellarHistory
  <1> QED BY <1>1 DEF CellarInv, Expects, Lived, Remembers, RowFound, Promises

(* Every step keeps it.                                                        *)
LEMMA InvStep ==
    ASSUME CellarInv, NEW r \in Screens, CellarStep(r)
    PROVE  CellarInv'
  <1> USE CellarAssumption
  <1>t. CellarTypeOK' BY TypeStep DEF CellarInv
  <1>r. patch[r] \in Patch BY DEF CellarInv, CellarTypeOK
  <1> DEFINE Known == \A x \in Screens : Expects(x)' /\ Lived(x)' /\ Remembers(x)' /\ Promises(x)'
  <1>1. CASE AddBottle(r) \/ \E n \in Counts : SetQuantity(r, n)
    <2>1. PICK what, first :
             /\ Request(r, what, first) /\ first.pc \in {"upsert", "find"}
             /\ first.pc = "upsert" => what = <<"add">>
             /\ first.pc = "find" => what = <<"set", first.quantity>>
             /\ what # <<>>
        BY <1>1 DEF AddBottle, SetQuantity
    <2>2. ASSUME NEW x \in Screens, x # r
          PROVE  Expects(x)' /\ Lived(x)' /\ Remembers(x)' /\ Promises(x)'
      <3>1. /\ patch'[x] = patch[x] /\ asked'[x] = asked[x]
            /\ counted'[x] = counted[x] /\ entry' = entry /\ replied' = replied
          BY <2>1, <2>2 DEF Request, SetPatch, CellarInv, CellarTypeOK
      <3> QED BY <3>1 DEF CellarInv, Expects, Lived, Remembers, RowFound, Promises
    <2>3. /\ patch'[r] = first /\ asked'[r] = what
          /\ counted'[r] = {entry.quantity} /\ entry' = entry
        BY <2>1 DEF Request, SetPatch, CellarInv, CellarTypeOK
    <2>4. Expects(r)' /\ Lived(r)' /\ Remembers(r)' /\ Promises(r)'
        BY <2>1, <2>3 DEF Expects, Lived, Remembers, Promises
    <2> QED BY <2>2, <2>4, <1>t DEF CellarInv
  <1>3. CASE Upsert(r)
    <2> DEFINE row == IF entry = NoEntry THEN [id |-> lastId + 1, quantity |-> 1]
                      ELSE [id |-> entry.id, quantity |-> Sum(entry.quantity)]
    <2>1. /\ patch[r].pc = "upsert" /\ SetPatch(r, [pc |-> "answer", row |-> row])
          /\ UNCHANGED <<entry, cellarHistory>>
        BY <1>3 DEF Upsert
    <2>2. patch'[r] = [pc |-> "answer", row |-> row]
        BY <2>1 DEF SetPatch, CellarInv, CellarTypeOK
    <2>3. row.quantity = Sum(entry.quantity) /\ (row.id = entry.id \/ entry = NoEntry)
        BY DEF Sum, NoEntry
    <2>4. /\ asked'[r] = <<"add">> /\ entry' = entry
          /\ entry.quantity \in counted'[r] /\ asked'[r] # <<>>
        BY <2>1 DEF CellarInv, Expects, Lived, cellarHistory
    <2>5. Expects(r)' /\ Lived(r)' /\ Remembers(r)' BY <2>2, <2>4 DEF Expects, Lived, Remembers
    <2>6. Promises(r)' BY <2>2, <2>3, <2>4 DEF Promises, Sum
    <2> QED BY <2>1, <2>5, <2>6, <1>t, MoveInv DEF CellarInv
  <1>4. CASE Find(r)
    <2>1. CASE entry = NoEntry
        BY <1>4, <2>1, <1>t, RespondInv DEF Find, CellarInv
    <2>2. CASE entry # NoEntry
      <3> DEFINE new == [pc |-> "write", quantity |-> patch[r].quantity, loaded |-> entry]
      <3>1. /\ patch[r].pc = "find" /\ SetPatch(r, new) /\ UNCHANGED <<entry, cellarHistory>>
          BY <1>4, <2>2 DEF Find
      <3>2. patch'[r] = new BY <3>1 DEF SetPatch, CellarInv, CellarTypeOK
      <3>3. /\ asked'[r] = <<"set", patch[r].quantity>> /\ entry' = entry
            /\ entry.quantity \in counted'[r]
          BY <3>1 DEF CellarInv, Expects, Lived, cellarHistory
      <3>4. Expects(r)' /\ Lived(r)' /\ Remembers(r)' /\ Promises(r)'
          BY <3>2, <3>3 DEF Expects, Lived, Remembers, RowFound, Promises
      <3> QED BY <3>1, <3>4, <1>t, MoveInv DEF CellarInv
    <2> QED BY <2>1, <2>2
  <1>5. CASE WriteNothing(r)
      BY <1>5, <1>t, RespondInv DEF WriteNothing, CellarInv
  <1>6. CASE Write(r)
    <2> DEFINE row == IF patch[r].quantity = 0 THEN NoEntry
                      ELSE [id |-> entry.id, quantity |-> patch[r].quantity]
    <2>1. /\ patch[r].pc = "write" /\ RowFound(r)
          /\ SetPatch(r, [pc |-> "answer", row |-> row]) /\ UNCHANGED <<entry, cellarHistory>>
        BY <1>6 DEF Write
    <2>2. patch'[r] = [pc |-> "answer", row |-> row]
        BY <2>1 DEF SetPatch, CellarInv, CellarTypeOK
    <2>3. patch[r].quantity \in Counts /\ patch[r].loaded \in CellarRow \ {NoEntry}
        BY <2>1, <1>r DEF Patch
    <2>4. entry # NoEntry
      <3>1. patch[r].loaded.id # 0 BY <2>3 DEF CellarRow
      <3> QED BY <2>1, <3>1 DEF RowFound, NoEntry
    <2>5. row.quantity = patch[r].quantity /\ (row = NoEntry \/ row.id = entry.id)
        BY DEF NoEntry
    <2>6. /\ asked'[r] = <<"set", patch[r].quantity>> /\ entry' = entry
          /\ entry.quantity \in counted'[r]
        BY <2>1 DEF CellarInv, Expects, Lived, cellarHistory
    <2>7. Expects(r)' /\ Lived(r)' /\ Remembers(r)' BY <2>2, <2>6 DEF Expects, Lived, Remembers
    <2>8. Promises(r)' BY <2>2, <2>3, <2>4, <2>5, <2>6 DEF Promises
    <2> QED BY <2>1, <2>7, <2>8, <1>t, MoveInv DEF CellarInv
  <1>7. CASE WriteMisses(r)
      BY <1>7, <1>t, RespondInv DEF WriteMisses, CellarInv
  <1>8. CASE SendAnswer(r)
    <2>1. PICK a \in {Done(patch[r].row.quantity), Error} : Reply(r, a)
        BY <1>8 DEF SendAnswer
    <2>2. /\ patch[r].pc = "answer" /\ SetPatch(r, [patch[r] EXCEPT !.pc = "commit"])
          /\ entry' = entry /\ asked' = asked /\ counted' = counted
        BY <1>8 DEF SendAnswer
    <2>3. patch[r] \in [pc: {"answer", "commit"}, row: CellarRow] BY <2>2, <1>r DEF Patch
    <2>4. patch'[r].pc = "commit" /\ patch'[r].row = patch[r].row
        BY <2>2, <2>3 DEF SetPatch, CellarInv, CellarTypeOK
    <2>5. replied'[r] = a BY <2>1 DEF Reply, CellarInv, CellarTypeOK
    <2>6. Expects(r)' /\ Lived(r)' /\ Remembers(r)'
        BY <2>2, <2>4 DEF CellarInv, Expects, Lived, Remembers
    <2>7. Promises(r)' BY <2>1, <2>2, <2>4, <2>5 DEF CellarInv, Promises
    <2>8. ASSUME NEW x \in Screens, x # r
          PROVE  Expects(x)' /\ Lived(x)' /\ Remembers(x)' /\ Promises(x)'
      <3>1. patch'[x] = patch[x] /\ replied'[x] = replied[x]
          BY <2>1, <2>2, <2>8 DEF SetPatch, Reply, CellarInv, CellarTypeOK
      <3> QED BY <3>1, <2>2 DEF CellarInv, Expects, Lived, Remembers, RowFound, Promises
    <2> QED BY <2>6, <2>7, <2>8, <1>t DEF CellarInv
  <1>9. CASE Commit(r)
    <2>1. /\ patch[r].pc = "commit" /\ entry' = patch[r].row /\ Close(r)
        BY <1>9 DEF Commit
    <2>2. ASSUME NEW x \in Screens, x # r
          PROVE  Expects(x)' /\ Lived(x)' /\ Remembers(x)' /\ Promises(x)'
      <3>1. /\ patch'[x] = patch[x] /\ asked'[x] = asked[x]
            /\ Expects(x)' /\ Lived(x)'
            /\ patch[x].pc # "idle" => counted'[x] = counted[x] \union {entry'.quantity}
          BY <2>1, <2>2, CloseKeeps DEF CellarInv
      <3>2. patch[x].pc \notin {"answer", "commit"} BY <2>1, <2>2 DEF CellarInv, CellarTypeOK
      <3>3. Promises(x)' BY <3>1, <3>2 DEF Promises
      <3>4. ASSUME patch[x].pc = "write"
            PROVE  /\ patch[x].loaded.quantity \in counted'[x]
                   /\ entry'.id # patch[x].loaded.id => 0 \in counted'[x]
        <4>1. patch[x].loaded \in CellarRow \ {NoEntry}
            BY <3>4 DEF CellarInv, CellarTypeOK, Patch
        <4>2. patch[x].loaded.id # 0 BY <4>1 DEF CellarRow
        <4>3. \/ entry'.quantity = 0
              \/ entry'.id = entry.id
              \/ entry.id # patch[x].loaded.id
            BY <2>1, <4>2 DEF CellarInv, Promises, NoEntry
        <4> QED BY <3>1, <3>4, <4>3 DEF CellarInv, Remembers, RowFound
      <3>5. Remembers(x)' BY <3>1, <3>4 DEF Remembers, RowFound
      <3> QED BY <3>1, <3>3, <3>5
    <2>3. Expects(r)' /\ Lived(r)' /\ Remembers(r)' /\ Promises(r)'
        BY <2>1, CloseEnds DEF CellarInv
    <2> QED BY <2>2, <2>3, <1>t DEF CellarInv
  <1>10. CASE CommitFails(r)
      BY <1>10, <1>t, CloseInv DEF CommitFails, CellarInv
  <1>11. CASE RequestFails(r)
      BY <1>11, <1>t, RespondInv DEF RequestFails, CellarInv
  <1> QED BY <1>1, <1>3, <1>4, <1>5, <1>6, <1>7, <1>8, <1>9, <1>10, <1>11 DEF CellarStep

(* The invariant the refinement needs, of every reachable state.               *)
THEOREM CellarInvariant == CellarSpec => []CellarInv
  <1>1. CellarInv /\ [CellarNext]_cellarVars => CellarInv'
    <2> SUFFICES ASSUME CellarInv, [CellarNext]_cellarVars PROVE CellarInv' OBVIOUS
    <2>1. CASE CellarNext BY <2>1, InvStep DEF CellarNext, CellarStep
    <2>2. CASE UNCHANGED cellarVars
        BY <2>2 DEF cellarVars, cellarHistory, CellarInv, CellarTypeOK, Expects, Lived,
                    Remembers, RowFound, Promises
    <2> QED BY <2>1, <2>2
  <1> QED BY InvInit, <1>1, PTL DEF CellarSpec

-----------------------------------------------------------------------------
(* A step of the cellar is a step of the atomic one, or changes nothing it shows. *)
LEMMA Simulates ==
    ASSUME CellarInv, NEW r \in Screens, CellarStep(r)
    PROVE  Atomic!AtomicNext \/ UNCHANGED Atomic!atomicVars
  <1> DEFINE pledged == {x \in Screens : patch[x].pc = "commit"}
  <1> USE CellarAssumption DEF Atomic!Counts, Atomic!Nothing, Atomic!Add, Atomic!Set,
          Atomic!Done, Atomic!Missing, Atomic!Error
  <1>r. patch[r] \in Patch BY DEF CellarInv, CellarTypeOK
  <1>k. Expects(r) /\ Lived(r) /\ Remembers(r) /\ Promises(r) BY DEF CellarInv
  <1>a. ASSUME Close(r) PROVE Atomic!End(r)
      BY <1>a DEF Close, Atomic!End
  <1>b. ASSUME NEW a, Reply(r, a) PROVE Atomic!Reply(r, a)
      BY <1>b DEF Reply, Atomic!Reply
  <1>c. ASSUME NEW new, SetPatch(r, new), patch[r].pc # "commit", new.pc # "commit"
        PROVE  r \notin pledged /\ pledged' = pledged
      BY <1>c DEF SetPatch, CellarInv, CellarTypeOK
  <1>d. ASSUME NEW a, Respond(r, a), patch[r].pc # "commit"
        PROVE  Atomic!End(r) /\ Atomic!Reply(r, a) /\ r \notin pledged /\ pledged' = pledged
    <2>1. Close(r) /\ Reply(r, a) BY <1>d DEF Respond
    <2>2. SetPatch(r, [pc |-> "idle"]) BY <2>1 DEF Close
    <2> QED BY <2>1, <2>2, <1>a, <1>b, <1>c, <1>d
  <1>e. patch[r].pc = "commit" => pledged = {r} BY DEF CellarInv, CellarTypeOK
  <1>f. ASSUME patch[r].pc = "commit", Close(r) PROVE pledged' = {}
      BY <1>e, <1>f DEF Close, SetPatch, CellarInv, CellarTypeOK
  <1>g. ASSUME patch[r].pc \in {"answer", "commit"}
        PROVE  /\ asked[r] # <<>>
               /\ asked[r] # <<"add">> => entry.quantity # 0
               /\ patch[r].row.quantity = Atomic!Result(asked[r], entry.quantity)
    <2> DEFINE row == patch[r].row
    <2>1. CASE asked[r] = <<"add">> /\ row.quantity = Sum(entry.quantity)
      <3>1. entry.quantity \in 0..Most
          BY DEF CellarInv, CellarTypeOK, CellarRow, NoEntry
      <3>2. row.quantity = Atomic!Result(asked[r], entry.quantity)
          BY <2>1, <3>1 DEF Atomic!Result, Sum
      <3> QED BY <2>1, <3>2
    <2>2. CASE \E n \in Counts : /\ asked[r] = <<"set", n>> /\ row.quantity = n
                                 /\ entry # NoEntry
      <3>1. entry.quantity # 0
          BY <2>2 DEF CellarInv, CellarTypeOK, CellarRow
      <3>2. asked[r] # <<>> /\ asked[r] # <<"add">> BY <2>2
      <3>3. row.quantity = Atomic!Result(asked[r], entry.quantity)
          BY <2>2, <3>2 DEF Atomic!Result
      <3> QED BY <3>1, <3>2, <3>3
    <2> QED BY <1>g, <1>k, <2>1, <2>2 DEF Promises
  <1>1. CASE AddBottle(r) \/ \E n \in Counts : SetQuantity(r, n)
    <2>1. asked[r] = <<>> BY <1>1, <1>k DEF AddBottle, SetQuantity, Request, Expects
    <2>2. ASSUME AddBottle(r) PROVE pledged' = pledged
      <3>1. patch[r].pc = "idle" /\ SetPatch(r, [pc |-> "upsert"])
          BY <2>2 DEF AddBottle, Request
      <3> QED BY <3>1, <1>c
    <2>3. ASSUME NEW n \in Counts, SetQuantity(r, n) PROVE pledged' = pledged
      <3>1. patch[r].pc = "idle" /\ SetPatch(r, [pc |-> "find", quantity |-> n])
          BY <2>3 DEF SetQuantity, Request
      <3> QED BY <3>1, <1>c
    <2>4. pledged' = pledged BY <1>1, <2>2, <2>3
    <2>5. Atomic!Ask(r)
        BY <1>1, <2>1, <2>4 DEF AddBottle, SetQuantity, Request, Atomic!Ask, Counts
    <2> QED BY <2>5 DEF Atomic!AtomicNext
  <1>2. CASE Upsert(r) \/ Write(r)
    <2>1. PICK new : SetPatch(r, new) /\ new.pc = "answer" BY <1>2 DEF Upsert, Write
    <2>2. pledged' = pledged BY <1>2, <2>1, <1>c DEF Upsert, Write
    <2> QED BY <1>2, <2>2 DEF Upsert, Write, cellarHistory, Atomic!atomicVars
  <1>3. CASE Find(r)
    <2>1. CASE entry = NoEntry
      <3>1. patch[r].pc = "find" /\ entry' = entry /\ Respond(r, Missing)
          BY <1>3, <2>1 DEF Find
      <3>2. patch[r].quantity \in Counts BY <3>1, <1>r DEF Patch
      <3>3. asked[r] = <<"set", patch[r].quantity>> /\ 0 \in counted[r]
          BY <3>1, <1>k, <2>1 DEF Expects, Lived, NoEntry
      <3>4. /\ Atomic!End(r) /\ Atomic!Reply(r, Missing)
            /\ r \notin pledged /\ pledged' = pledged
          BY <3>1, <1>d
      <3>5. Atomic!NoEntry(r)
          BY <3>1, <3>2, <3>3, <3>4 DEF Atomic!NoEntry, Counts, Missing
      <3> QED BY <3>5 DEF Atomic!AtomicNext
    <2>2. CASE entry # NoEntry
      <3>1. PICK new : SetPatch(r, new) /\ new.pc = "write" BY <1>3, <2>2 DEF Find
      <3>2. pledged' = pledged BY <1>3, <3>1, <1>c DEF Find
      <3> QED BY <1>3, <2>2, <3>2 DEF Find, cellarHistory, Atomic!atomicVars
    <2> QED BY <2>1, <2>2
  <1>4. CASE WriteNothing(r)
    <2>1. /\ patch[r].pc = "write" /\ patch[r].quantity = patch[r].loaded.quantity
          /\ entry' = entry /\ Respond(r, Done(patch[r].quantity))
        BY <1>4 DEF WriteNothing, Same
    <2>2. asked[r] = <<"set", patch[r].quantity>> /\ patch[r].quantity \in counted[r]
        BY <2>1, <1>k DEF Expects, Remembers
    <2>3. /\ Atomic!End(r) /\ Atomic!Reply(r, Done(patch[r].quantity))
          /\ r \notin pledged /\ pledged' = pledged
        BY <2>1, <1>d
    <2>4. Atomic!NothingToDo(r) BY <2>1, <2>2, <2>3 DEF Atomic!NothingToDo, Done
    <2> QED BY <2>4 DEF Atomic!AtomicNext
  <1>5. CASE WriteMisses(r)
    <2>1. /\ patch[r].pc = "write" /\ ~RowFound(r) /\ entry' = entry
          /\ Respond(r, IF patch[r].quantity = 0 THEN Done(0) ELSE Error)
        BY <1>5 DEF WriteMisses
    <2>2. asked[r] = <<"set", patch[r].quantity>> /\ 0 \in counted[r]
        BY <2>1, <1>k DEF Expects, Remembers
    <2>3. CASE patch[r].quantity = 0
      <3>1. /\ Atomic!End(r) /\ Atomic!Reply(r, Done(0))
            /\ r \notin pledged /\ pledged' = pledged
          BY <2>1, <2>3, <1>d
      <3>2. Atomic!NothingToDo(r) BY <2>1, <2>2, <2>3, <3>1 DEF Atomic!NothingToDo, Done
      <3> QED BY <3>2 DEF Atomic!AtomicNext
    <2>4. CASE patch[r].quantity # 0
      <3>1. /\ Atomic!End(r) /\ Atomic!Reply(r, Error)
            /\ r \notin pledged /\ pledged' = pledged
          BY <2>1, <2>4, <1>d
      <3>2. Atomic!Fail(r) BY <2>1, <2>2, <3>1 DEF Atomic!Fail, Error
      <3> QED BY <3>2 DEF Atomic!AtomicNext
    <2> QED BY <2>3, <2>4
  <1>6. CASE SendAnswer(r)
    <2> DEFINE row == patch[r].row
    <2>1. /\ patch[r].pc = "answer" /\ SetPatch(r, [patch[r] EXCEPT !.pc = "commit"])
          /\ entry' = entry /\ asked' = asked /\ counted' = counted
          /\ \E a \in {Done(row.quantity), Error} : Reply(r, a)
        BY <1>6 DEF SendAnswer
    <2>2. patch[r] \in [pc: {"answer", "commit"}, row: CellarRow] BY <2>1, <1>r DEF Patch
    <2>3. pledged = {} /\ pledged' = {r}
        BY <2>1, <2>2 DEF SetPatch, CellarInv, CellarTypeOK
    <2>4. /\ asked[r] # <<>>
          /\ asked[r] # <<"add">> => entry.quantity # 0
          /\ row.quantity = Atomic!Result(asked[r], entry.quantity)
        BY <2>1, <1>g
    <2>5. \E a \in {Done(row.quantity), Error} : Atomic!Reply(r, a) BY <2>1, <1>b
    <2>6. Atomic!Pledge(r)
        BY <2>1, <2>3, <2>4, <2>5 DEF Atomic!Pledge, Done, Error
    <2> QED BY <2>6 DEF Atomic!AtomicNext
  <1>7. CASE Commit(r)
    <2>1. /\ patch[r].pc = "commit" /\ entry' = patch[r].row
          /\ Close(r) /\ replied' = replied
        BY <1>7 DEF Commit
    <2>2. pledged = {r} /\ pledged' = {} /\ Atomic!End(r) BY <2>1, <1>a, <1>e, <1>f
    <2>3. entry'.quantity = Atomic!Result(asked[r], entry.quantity) BY <2>1, <1>g
    <2>4. replied[r] \in {Done(entry'.quantity), Error} BY <2>1, <1>k DEF Promises
    <2>5. Atomic!TakeEffect(r)
        BY <2>1, <2>2, <2>3, <2>4 DEF Atomic!TakeEffect, Done, Error
    <2> QED BY <2>5 DEF Atomic!AtomicNext
  <1>8. CASE CommitFails(r)
    <2>1. /\ patch[r].pc = "commit" /\ entry' = entry
          /\ Close(r) /\ replied' = replied
        BY <1>8 DEF CommitFails
    <2>2. pledged = {r} /\ pledged' = {} /\ Atomic!End(r) BY <2>1, <1>a, <1>e, <1>f
    <2>3. Atomic!Forget(r) BY <2>1, <2>2 DEF Atomic!Forget
    <2> QED BY <2>3 DEF Atomic!AtomicNext
  <1>9. CASE RequestFails(r)
    <2>1. /\ patch[r].pc \notin {"idle", "commit"} /\ entry' = entry /\ Respond(r, Error)
        BY <1>9 DEF RequestFails
    <2>2. asked[r] # <<>> BY <2>1, <1>k DEF Expects
    <2>3. /\ Atomic!End(r) /\ Atomic!Reply(r, Error)
          /\ r \notin pledged /\ pledged' = pledged
        BY <2>1, <1>d
    <2>4. Atomic!Fail(r) BY <2>1, <2>2, <2>3 DEF Atomic!Fail, Error
    <2> QED BY <2>4 DEF Atomic!AtomicNext
  <1> QED BY <1>1, <1>2, <1>3, <1>4, <1>5, <1>6, <1>7, <1>8, <1>9 DEF CellarStep

(* Whatever requests interleave, the count moves as in the atomic cellar: only *)
(* by whole requests, to what each answered before its effect, or not at all   *)
(* when the commit after the answer fails; no bottle added is lost to another. *)
THEOREM CellarImplementsAtomic == CellarSpec => CellarIsAtomic
  <1>1. CellarInit => Atomic!AtomicInit
    <2> SUFFICES ASSUME CellarInit PROVE Atomic!AtomicInit OBVIOUS
    <2>1. {r \in Screens : patch[r].pc = "commit"} = {} BY DEF CellarInit
    <2> QED BY <2>1 DEF CellarInit, NoEntry, Atomic!AtomicInit, Atomic!Nothing,
               Atomic!Error, Error
  <1>2. CellarInv /\ [CellarNext]_cellarVars => [Atomic!AtomicNext]_(Atomic!atomicVars)
    <2> SUFFICES ASSUME CellarInv, [CellarNext]_cellarVars
                 PROVE  Atomic!AtomicNext \/ UNCHANGED Atomic!atomicVars
        OBVIOUS
    <2>1. CASE CellarNext BY <2>1, Simulates DEF CellarNext, CellarStep
    <2>2. CASE UNCHANGED cellarVars
        BY <2>2 DEF cellarVars, cellarHistory, Atomic!atomicVars
    <2> QED BY <2>1, <2>2
  <1> QED BY <1>1, <1>2, CellarInvariant, PTL DEF CellarSpec, CellarIsAtomic, Atomic!AtomicSpec
=============================================================================
