--------------------------- MODULE AccountsProofs ---------------------------
(***************************************************************************)
(* Proofs about sign-in, accounts and deletion, for all identities, users, *)
(* addresses, logins and numbers of concurrent requests.                   *)
(***************************************************************************)
EXTENDS Accounts, FiniteSetTheorems, TLAPS

(* A request of a kind is a record of that kind. *)
LEMMA Kinds ==
    ASSUME NEW q \in Request
    PROVE  /\ q.kind = "callback" => q \in Callback
           /\ q.kind = "disconnect" => q \in Disconnect
           /\ q.kind = "insert" => q \in Insert
           /\ q.kind = "delete" => q \in Deletion
           /\ q.kind \in {"approve", "reject", "resend"} => q \in Decision
           /\ q.kind = "none" => q = Nothing
  BY DEF Request, Nothing, Callback, Disconnect, Insert, Deletion, Decision

LEMMA StepType ==
    ASSUME TypeOK, NEW r \in Slots, NEW new \in Request, Step(r, new)
    PROVE  request' \in [Slots -> Request]
  BY DEF TypeOK, Step

LEMMA DoneType ==
    ASSUME TypeOK, NEW r \in Slots, Done(r)
    PROVE  request' \in [Slots -> Request]
  BY DEF TypeOK, Done, Step, Request

LEMMA CallbackFields ==
    ASSUME TypeOK, NEW r \in Slots, Busy(r, "callback")
    PROVE  /\ request[r].login \in Logins /\ request[r].identity \in Identities
           /\ request[r].pc \in {"account", "email", "waitlist", "create"} =>
                request[r].user = NoUser
           /\ request[r].pc \in {"known", "refresh", "link", "code"} => request[r].user \in Ids
<1>1. request[r] \in Callback
  BY Kinds DEF TypeOK, Busy
<1> QED
  BY <1>1 DEF Callback

LEMMA CallbackGoto ==
    ASSUME TypeOK, NEW r \in Slots, Busy(r, "callback")
    PROVE  /\ \A pc \in {"account", "email", "waitlist", "create"} :
                request[r].user = NoUser => [request[r] EXCEPT !.pc = pc] \in Request
           /\ \A pc \in {"known", "refresh", "link", "code"} :
                /\ request[r].user \in Ids => [request[r] EXCEPT !.pc = pc] \in Request
                /\ \A u \in Ids : [request[r] EXCEPT !.pc = pc, !.user = u] \in Request
<1>1. request[r] \in Callback
  BY Kinds DEF TypeOK, Busy
<1>2. \A pc \in {"account", "email", "waitlist", "create"} :
        request[r].user = NoUser => [request[r] EXCEPT !.pc = pc] \in Callback
  BY <1>1 DEF Callback
<1>3. \A pc \in {"known", "refresh", "link", "code"} :
        /\ request[r].user \in Ids => [request[r] EXCEPT !.pc = pc] \in Callback
        /\ \A u \in Ids : [request[r] EXCEPT !.pc = pc, !.user = u] \in Callback
  BY <1>1 DEF Callback
<1> QED
  BY <1>2, <1>3 DEF Request

LEMMA SlotFields ==
    ASSUME TypeOK, NEW r \in Slots
    PROVE  /\ request[r].kind \in {"approve", "reject", "resend"} =>
                request[r].email \in Emails /\ request[r].loaded \in Status \ {"none"}
           /\ Busy(r, "insert") => request[r].user \in Ids /\ request[r].item \in Items
           /\ Busy(r, "delete") => request[r].user \in Ids /\ request[r].purged \subseteq Items
           /\ Busy(r, "disconnect") =>
                request[r].user \in Ids /\ request[r].provider \in Providers
                  /\ request[r].count \in Nat
  BY Kinds DEF TypeOK, Busy, Decision, Insert, Deletion, Disconnect

(* What a step of a callback changes of its record, and that it changes no    *)
(* other request.                                                             *)
LEMMA CallbackStep ==
    ASSUME TypeOK, NEW r \in Slots, Busy(r, "callback")
    PROVE  /\ \A pc : Goto(r, pc) =>
                /\ request'[r].kind = "callback" /\ request'[r].pc = pc
                /\ request'[r].login = request[r].login
                /\ request'[r].identity = request[r].identity
                /\ request'[r].user = request[r].user
           /\ \A pc, u : Step(r, [request[r] EXCEPT !.pc = pc, !.user = u]) =>
                /\ request'[r].kind = "callback" /\ request'[r].pc = pc
                /\ request'[r].login = request[r].login
                /\ request'[r].identity = request[r].identity
                /\ request'[r].user = u
<1>1. request[r] \in Callback
  BY Kinds DEF TypeOK, Busy
<1>2. request \in [Slots -> Request]
  BY DEF TypeOK
<1>3. \A pc : Goto(r, pc) => request'[r] = [request[r] EXCEPT !.pc = pc]
  BY <1>2 DEF Goto, Step
<1>4. \A pc, u : Step(r, [request[r] EXCEPT !.pc = pc, !.user = u]) =>
         request'[r] = [request[r] EXCEPT !.pc = pc, !.user = u]
  BY <1>2 DEF Step
<1>5. \A pc : Goto(r, pc) =>
        /\ request'[r].kind = "callback" /\ request'[r].pc = pc
        /\ request'[r].login = request[r].login
        /\ request'[r].identity = request[r].identity
        /\ request'[r].user = request[r].user
  BY <1>1, <1>3 DEF Callback
<1>6. ASSUME NEW pc, NEW u, Step(r, [request[r] EXCEPT !.pc = pc, !.user = u])
      PROVE  /\ request'[r].kind = "callback" /\ request'[r].pc = pc
             /\ request'[r].login = request[r].login
             /\ request'[r].identity = request[r].identity
             /\ request'[r].user = u
  <2>1. request'[r] = [request[r] EXCEPT !.pc = pc, !.user = u]
    BY <1>4, <1>6
  <2> QED
    BY <1>1, <2>1 DEF Callback
<1> QED
  BY <1>5, <1>6

LEMMA OthersStay ==
    ASSUME NEW r, NEW q \in Slots \ {r}, TypeOK
    PROVE  /\ \A new : Step(r, new) => request'[q] = request[q]
           /\ \A pc : Goto(r, pc) => request'[q] = request[q]
           /\ Done(r) => request'[q] = request[q]
  BY DEF TypeOK, Step, Goto, Done

LEMMA DoneNothing ==
    ASSUME TypeOK, NEW r \in Slots, Done(r)
    PROVE  request'[r] = Nothing
  BY DEF TypeOK, Step, Done

LEMMA OtherGoto ==
    ASSUME TypeOK, NEW r \in Slots
    PROVE  /\ request[r].kind \in {"approve", "reject", "resend"} =>
                \A pc \in {"email", "commit"} : [request[r] EXCEPT !.pc = pc] \in Request
           /\ Busy(r, "disconnect") =>
                \A n \in Nat : [request[r] EXCEPT !.pc = "delete", !.count = n] \in Request
           /\ Busy(r, "delete") =>
                \A q \in SUBSET Items :
                    [request[r] EXCEPT !.pc = "user", !.purged = q] \in Request
<1>1. ASSUME request[r].kind \in {"approve", "reject", "resend"}, NEW pc \in {"email", "commit"}
      PROVE  [request[r] EXCEPT !.pc = pc] \in Decision
  BY <1>1, Kinds DEF TypeOK, Decision
<1>2. ASSUME Busy(r, "disconnect"), NEW n \in Nat
      PROVE  [request[r] EXCEPT !.pc = "delete", !.count = n] \in Disconnect
  <2>1. request[r] \in Disconnect
    BY <1>2, Kinds DEF TypeOK, Busy
  <2> QED
    BY <2>1 DEF Disconnect
<1>3. ASSUME Busy(r, "delete"), NEW q \in SUBSET Items
      PROVE  [request[r] EXCEPT !.pc = "user", !.purged = q] \in Deletion
  <2>1. request[r] \in Deletion
    BY <1>3, Kinds DEF TypeOK, Busy
  <2> QED
    BY <2>1 DEF Deletion
<1> QED
  BY <1>1, <1>2, <1>3 DEF Request

LEMMA InitTypeOK == Init => TypeOK
  BY AccountsAssumption, FS_EmptySet DEF Init, TypeOK, StoredOK, HistoryOK, Request, Ids, Status

(* Every action keeps the types of the tables and of the history. *)
LEMMA StoredStep ==
    TypeOK /\ (WaitlistStep \/ SignInStep \/ UserStep \/ \E r \in Slots : RequestFails(r))
    => StoredOK' /\ HistoryOK'
<1> DEFINE Typed == StoredOK' /\ HistoryOK'
<1> SUFFICES ASSUME TypeOK,
                    WaitlistStep \/ SignInStep \/ UserStep \/ \E r \in Slots : RequestFails(r)
             PROVE  Typed
  OBVIOUS
<1> USE AccountsAssumption
<1> USE DEF TypeOK, StoredOK, HistoryOK, database, redis, history
<1>1. ASSUME NEW e \in Emails, RequestAccess(e)
      PROVE  Typed
  BY <1>1 DEF RequestAccess, Status
<1>2. ASSUME NEW r \in Slots, NEW e \in Emails,
             NEW kind \in {"approve", "reject", "resend"}, DecisionStart(r, kind, e)
      PROVE  Typed
  BY <1>2 DEF DecisionStart
<1>3. ASSUME NEW r \in Slots, ApproveUpdate(r)
      PROVE  Typed
  BY <1>3 DEF ApproveUpdate
<1>4. ASSUME NEW r \in Slots, SendApprovalEmail(r)
      PROVE  Typed
  BY <1>4, SlotFields DEF SendApprovalEmail
<1>5. ASSUME NEW r \in Slots, ApproveCommit(r)
      PROVE  Typed
  BY <1>5, SlotFields DEF ApproveCommit, Decide, Busy, Status
<1>6. ASSUME NEW r \in Slots, ResendCommit(r)
      PROVE  Typed
  BY <1>6 DEF ResendCommit
<1>7. ASSUME NEW r \in Slots, RejectCommit(r)
      PROVE  Typed
  BY <1>7, SlotFields DEF RejectCommit, Decide, Busy, Status
<1>8. ASSUME NEW n \in Logins, Login(n)
      PROVE  Typed
  BY <1>8 DEF Login
<1>9. ASSUME Expire
      PROVE  Typed
  BY <1>9 DEF Expire
<1>10. ASSUME NEW r \in Slots, NEW n \in Logins, NEW i \in Identities, CallbackStart(r, n, i)
      PROVE  Typed
  BY <1>10 DEF CallbackStart, ConsumeState
<1>11. ASSUME NEW r \in Slots, FindAccount(r)
      PROVE  Typed
  BY <1>11 DEF FindAccount
<1>12. ASSUME NEW r \in Slots, FindUser(r)
      PROVE  Typed
  BY <1>12 DEF FindUser
<1>13. ASSUME NEW r \in Slots, FindEmail(r)
      PROVE  Typed
  BY <1>13 DEF FindEmail
<1>14. ASSUME NEW r \in Slots, CheckWaitlist(r)
      PROVE  Typed
  BY <1>14 DEF CheckWaitlist
<1>15. ASSUME NEW r \in Slots, Refresh(r)
      PROVE  Typed
  BY <1>15 DEF Refresh
<1>16. ASSUME NEW r \in Slots, LinkAccount(r)
      PROVE  Typed
  <2>1. accounts' \subseteq Account
    BY <1>16, CallbackFields DEF LinkAccount, At, Account
  <2>2. IsFiniteSet(accounts')
    BY <1>16, FS_AddElement DEF LinkAccount
  <2> QED
    BY <1>16, <2>1, <2>2 DEF LinkAccount
<1>17. ASSUME NEW r \in Slots, SignUp(r)
      PROVE  Typed
  <2>1. request[r].identity \in Identities
    BY <1>17, CallbackFields DEF SignUp
  <2>2. nextUser \in Ids /\ nextUser' \in 1..MaxUsers + 1
    BY <1>17 DEF SignUp, Ids
  <2>3. users' \subseteq User
    <3>1. [id |-> nextUser, email |-> EmailOf[request[r].identity], active |-> TRUE] \in User
      BY <2>1, <2>2 DEF User
    <3> QED
      BY <1>17, <3>1 DEF SignUp, NewId
  <2>4. accounts' \subseteq Account
    BY <1>17, <2>1, <2>2 DEF SignUp, NewId, Account
  <2> QED
    BY <1>17, <2>2, <2>3, <2>4, FS_AddElement DEF SignUp
<1>18. ASSUME NEW r \in Slots, StoreCode(r)
      PROVE  Typed
  BY <1>18, CallbackFields DEF StoreCode, At, Code
<1>19. ASSUME NEW c \in codes, Exchange(c)
      PROVE  Typed
  BY <1>19 DEF Exchange, Code
<1>20. ASSUME NEW r \in Slots, NEW u \in Ids, NEW p \in Providers, DisconnectStart(r, u, p)
      PROVE  Typed
  BY <1>20 DEF DisconnectStart, Begin
<1>21. ASSUME NEW r \in Slots, NEW u \in Ids, NEW item \in Items, InsertStart(r, u, item)
      PROVE  Typed
  BY <1>21 DEF InsertStart, Begin
<1>22. ASSUME NEW r \in Slots, NEW u \in Ids, DeletionStart(r, u)
      PROVE  Typed
  BY <1>22 DEF DeletionStart
<1>23. ASSUME NEW r \in Slots, DisconnectCount(r)
      PROVE  Typed
  BY <1>23 DEF DisconnectCount
<1>24. ASSUME NEW r \in Slots, DisconnectDelete(r)
      PROVE  Typed
  BY <1>24, FS_Subset DEF DisconnectDelete
<1>25. ASSUME NEW r \in Slots, InsertRow(r)
      PROVE  Typed
  BY <1>25, SlotFields DEF InsertRow
<1>26. ASSUME NEW r \in Slots, DeletionRows(r)
      PROVE  Typed
  BY <1>26 DEF DeletionRows
<1>27. ASSUME NEW r \in Slots, DeletionCommit(r)
      PROVE  Typed
  BY <1>27, SlotFields, FS_Subset DEF DeletionCommit, AccountsOf
<1>28. ASSUME NEW u \in users, NEW active \in BOOLEAN, SetActive(u, active)
      PROVE  Typed
  BY <1>28 DEF SetActive, User
<1>29. ASSUME NEW r \in Slots, RequestFails(r)
      PROVE  Typed
  BY <1>29, SlotFields DEF RequestFails, Busy
<1> QED
  BY <1>1, <1>2, <1>3, <1>4, <1>5, <1>6, <1>7, <1>8, <1>9, <1>10, <1>11, <1>12, <1>13,
     <1>14, <1>15, <1>16, <1>17, <1>18, <1>19, <1>20, <1>21, <1>22, <1>23, <1>24, <1>25,
     <1>26, <1>27, <1>28, <1>29 DEF WaitlistStep, SignInStep, UserStep

(* And the types of the requests. *)
LEMMA RequestStep ==
    TypeOK /\ (WaitlistStep \/ SignInStep \/ UserStep \/ \E r \in Slots : RequestFails(r))
    => request' \in [Slots -> Request]
<1> DEFINE Typed == request' \in [Slots -> Request]
<1> SUFFICES ASSUME TypeOK,
                    WaitlistStep \/ SignInStep \/ UserStep \/ \E r \in Slots : RequestFails(r)
             PROVE  Typed
  OBVIOUS
<1> USE DEF At, Goto
<1>1. ASSUME NEW e \in Emails, RequestAccess(e)
      PROVE  Typed
  BY <1>1 DEF RequestAccess, TypeOK
<1>2. ASSUME NEW r \in Slots, NEW e \in Emails,
             NEW kind \in {"approve", "reject", "resend"}, DecisionStart(r, kind, e)
      PROVE  Typed
  BY <1>2, StepType DEF DecisionStart, Request, Decision, TypeOK, StoredOK
<1>3. ASSUME NEW r \in Slots, ApproveUpdate(r)
      PROVE  Typed
  BY <1>3, StepType, OtherGoto DEF ApproveUpdate, Busy
<1>4. ASSUME NEW r \in Slots, SendApprovalEmail(r)
      PROVE  Typed
  BY <1>4, StepType, OtherGoto DEF SendApprovalEmail
<1>5. ASSUME NEW r \in Slots, ApproveCommit(r)
      PROVE  Typed
  BY <1>5, DoneType DEF ApproveCommit
<1>6. ASSUME NEW r \in Slots, ResendCommit(r)
      PROVE  Typed
  BY <1>6, DoneType DEF ResendCommit
<1>7. ASSUME NEW r \in Slots, RejectCommit(r)
      PROVE  Typed
  BY <1>7, DoneType DEF RejectCommit
<1>8. ASSUME NEW n \in Logins, Login(n)
      PROVE  Typed
  BY <1>8 DEF Login, TypeOK
<1>9. ASSUME Expire
      PROVE  Typed
  BY <1>9 DEF Expire, TypeOK
<1>10. ASSUME NEW r \in Slots, NEW n \in Logins, NEW i \in Identities, CallbackStart(r, n, i)
      PROVE  Typed
  BY <1>10, StepType DEF CallbackStart, Request, Callback
<1>11. ASSUME NEW r \in Slots, FindAccount(r)
      PROVE  Typed
  BY <1>11, StepType, DoneType, CallbackGoto, CallbackFields DEF FindAccount, TypeOK,
     StoredOK, Account, User, WithEmail, Linked
<1>12. ASSUME NEW r \in Slots, FindUser(r)
      PROVE  Typed
  BY <1>12, StepType, DoneType, CallbackGoto, CallbackFields DEF FindUser, TypeOK,
     StoredOK, Account, User, WithEmail, Linked
<1>13. ASSUME NEW r \in Slots, FindEmail(r)
      PROVE  Typed
  BY <1>13, StepType, DoneType, CallbackGoto, CallbackFields DEF FindEmail, TypeOK,
     StoredOK, Account, User, WithEmail, Linked
<1>14. ASSUME NEW r \in Slots, CheckWaitlist(r)
      PROVE  Typed
  BY <1>14, StepType, DoneType, CallbackGoto, CallbackFields DEF CheckWaitlist, TypeOK,
     StoredOK, Account, User, WithEmail, Linked
<1>15. ASSUME NEW r \in Slots, Refresh(r)
      PROVE  Typed
  BY <1>15, StepType, DoneType, CallbackGoto, CallbackFields DEF Refresh, TypeOK,
     StoredOK, Account, User, WithEmail, Linked
<1>16. ASSUME NEW r \in Slots, LinkAccount(r)
      PROVE  Typed
  BY <1>16, StepType, DoneType, CallbackGoto, CallbackFields DEF LinkAccount, TypeOK,
     StoredOK, Account, User, WithEmail, Linked
<1>17. ASSUME NEW r \in Slots, SignUp(r)
      PROVE  Typed
  BY <1>17, StepType, CallbackGoto DEF SignUp, NewId
<1>18. ASSUME NEW r \in Slots, StoreCode(r)
      PROVE  Typed
  BY <1>18, DoneType DEF StoreCode
<1>19. ASSUME NEW c \in codes, Exchange(c)
      PROVE  Typed
  BY <1>19 DEF Exchange, TypeOK
<1>20. ASSUME NEW r \in Slots, NEW u \in Ids, NEW p \in Providers, DisconnectStart(r, u, p)
      PROVE  Typed
  BY <1>20, StepType DEF DisconnectStart, Request, Disconnect, Begin
<1>21. ASSUME NEW r \in Slots, NEW u \in Ids, NEW item \in Items, InsertStart(r, u, item)
      PROVE  Typed
  BY <1>21, StepType DEF InsertStart, Request, Insert, Begin
<1>22. ASSUME NEW r \in Slots, NEW u \in Ids, DeletionStart(r, u)
      PROVE  Typed
  BY <1>22, StepType DEF DeletionStart, Request, Deletion
<1>23. ASSUME NEW r \in Slots, DisconnectCount(r)
      PROVE  Typed
  <2>1. Cardinality(AccountsOf(request[r].user)) \in Nat
    BY FS_Subset, FS_CardinalityType DEF TypeOK, StoredOK, AccountsOf
  <2> QED
    BY <1>23, <2>1, StepType, DoneType, OtherGoto DEF DisconnectCount
<1>24. ASSUME NEW r \in Slots, DisconnectDelete(r)
      PROVE  Typed
  BY <1>24, DoneType DEF DisconnectDelete
<1>25. ASSUME NEW r \in Slots, InsertRow(r)
      PROVE  Typed
  BY <1>25, DoneType DEF InsertRow
<1>26. ASSUME NEW r \in Slots, DeletionRows(r)
      PROVE  Typed
  BY <1>26, StepType, OtherGoto DEF DeletionRows, RowsOf
<1>27. ASSUME NEW r \in Slots, DeletionCommit(r)
      PROVE  Typed
  BY <1>27, DoneType DEF DeletionCommit
<1>28. ASSUME NEW u \in users, NEW active \in BOOLEAN, SetActive(u, active)
      PROVE  Typed
  BY <1>28 DEF SetActive, TypeOK
<1>29. ASSUME NEW r \in Slots, RequestFails(r)
      PROVE  Typed
  BY <1>29, DoneType DEF RequestFails
<1> QED
  BY <1>1, <1>2, <1>3, <1>4, <1>5, <1>6, <1>7, <1>8, <1>9, <1>10, <1>11, <1>12, <1>13,
     <1>14, <1>15, <1>16, <1>17, <1>18, <1>19, <1>20, <1>21, <1>22, <1>23, <1>24, <1>25,
     <1>26, <1>27, <1>28, <1>29 DEF WaitlistStep, SignInStep, UserStep

LEMMA NextTypeOK == TypeOK /\ [Next]_vars => TypeOK'
<1> SUFFICES ASSUME TypeOK, [Next]_vars PROVE TypeOK'
  OBVIOUS
<1>1. CASE Next
  <2>1. StoredOK' /\ HistoryOK' /\ request' \in [Slots -> Request]
    BY <1>1, StoredStep, RequestStep DEF Next
  <2>2. ActiveIds' \subseteq Ids
    BY <2>1 DEF ActiveIds, User, StoredOK
  <2>3. seen' \in [Slots -> SUBSET Ids]
    BY <1>1, <2>2 DEF Next, Witness, TypeOK
  <2> QED
    BY <2>1, <2>3 DEF TypeOK
<1>2. CASE UNCHANGED vars
  BY <1>2 DEF vars, database, redis, history, TypeOK, StoredOK, HistoryOK
<1> QED
  BY <1>1, <1>2

(* The variables of sign-in, accounts and deletion keep their types.         *)
THEOREM TypeCorrect == Spec => []TypeOK
  BY InitTypeOK, NextTypeOK, PTL DEF Spec

-----------------------------------------------------------------------------
(* Who owns an identity. *)

(* Ids and addresses name one user, ids are never used again, and a callback *)
(* that is going to link an identity has found the user with its address.    *)
UsersUnique ==
    /\ \A x, y \in users : x.id = y.id \/ x.email = y.email => x = y
    /\ \A x \in users : x.id < nextUser

LinkRight ==
    \A r \in Slots :
        Busy(r, "callback") /\ At(r, "link") =>
            /\ request[r].user < nextUser
            /\ \A x \in users : x.id = request[r].user => x.email = EmailOf[request[r].identity]

OwnInv == UsersUnique /\ LinkRight /\ AccountsOwned

LEMMA InitOwnInv == Init => OwnInv
  BY DEF Init, OwnInv, UsersUnique, LinkRight, AccountsOwned, Busy, Nothing

(* Steps that leave the tables alone and bring no request to "link".         *)
LEMMA OwnFrame ==
    ASSUME TypeOK, OwnInv, UNCHANGED <<users, nextUser, accounts>>,
           NEW r \in Slots, \A q \in Slots \ {r} : request'[q] = request[q],
           request'[r].kind = "callback" => request'[r].pc # "link"
    PROVE  OwnInv'
  BY DEF OwnInv, UsersUnique, LinkRight, AccountsOwned, Linked, Busy, At

LEMMA ActionOwnInv ==
    TypeOK /\ OwnInv /\ (WaitlistStep \/ SignInStep \/ UserStep \/ \E r \in Slots : RequestFails(r))
    => OwnInv'
<1> SUFFICES ASSUME TypeOK, OwnInv,
                    WaitlistStep \/ SignInStep \/ UserStep \/ \E r \in Slots : RequestFails(r)
             PROVE  OwnInv'
  OBVIOUS
<1>0. request \in [Slots -> Request]
  BY DEF TypeOK
<1>1. ASSUME NEW e \in Emails, RequestAccess(e)
      PROVE  OwnInv'
  BY <1>0, <1>1 DEF RequestAccess, OwnInv, UsersUnique, LinkRight, AccountsOwned,
     Linked, Step, Done, Goto,
           Busy, At, Nothing, database
<1>2. ASSUME NEW r \in Slots, NEW e \in Emails,
             NEW kind \in {"approve", "reject", "resend"}, DecisionStart(r, kind, e)
      PROVE  OwnInv'
  BY <1>0, <1>2 DEF DecisionStart, OwnInv, UsersUnique, LinkRight, AccountsOwned,
     Linked, Step, Done, Goto,
           Busy, At, Nothing, database
<1>3. ASSUME NEW r \in Slots, ApproveUpdate(r)
      PROVE  OwnInv'
  BY <1>0, <1>3 DEF ApproveUpdate, OwnInv, UsersUnique, LinkRight, AccountsOwned,
     Linked, Step, Done, Goto,
           Busy, At, Nothing, database
<1>4. ASSUME NEW r \in Slots, SendApprovalEmail(r)
      PROVE  OwnInv'
  BY <1>0, <1>4 DEF SendApprovalEmail, OwnInv, UsersUnique, LinkRight, AccountsOwned,
     Linked, Step, Done, Goto,
           Busy, At, Nothing, database
<1>5. ASSUME NEW r \in Slots, ApproveCommit(r)
      PROVE  OwnInv'
  BY <1>0, <1>5 DEF ApproveCommit, OwnInv, UsersUnique, LinkRight, AccountsOwned,
     Linked, Step, Done, Goto,
           Busy, At, Nothing, database
<1>6. ASSUME NEW r \in Slots, ResendCommit(r)
      PROVE  OwnInv'
  BY <1>0, <1>6 DEF ResendCommit, OwnInv, UsersUnique, LinkRight, AccountsOwned, Linked,
     Step, Done, Goto,
           Busy, At, Nothing, database
<1>7. ASSUME NEW r \in Slots, RejectCommit(r)
      PROVE  OwnInv'
  BY <1>0, <1>7 DEF RejectCommit, OwnInv, UsersUnique, LinkRight, AccountsOwned, Linked,
     Step, Done, Goto,
           Busy, At, Nothing, database
<1>8. ASSUME NEW n \in Logins, Login(n)
      PROVE  OwnInv'
  BY <1>0, <1>8 DEF Login, OwnInv, UsersUnique, LinkRight, AccountsOwned, Linked, Step,
     Done, Goto,
           Busy, At, Nothing, database
<1>9. ASSUME Expire
      PROVE  OwnInv'
  BY <1>0, <1>9 DEF Expire, OwnInv, UsersUnique, LinkRight, AccountsOwned, Linked, Step,
     Done, Goto,
           Busy, At, Nothing, database
<1>10. ASSUME NEW r \in Slots, NEW n \in Logins, NEW i \in Identities, CallbackStart(r, n, i)
      PROVE  OwnInv'
  BY <1>0, <1>10 DEF CallbackStart, OwnInv, UsersUnique, LinkRight, AccountsOwned,
     Linked, Step, Done, Goto,
           Busy, At, Nothing, database
<1>11. ASSUME NEW r \in Slots, FindAccount(r)
      PROVE  OwnInv'
  <2>1. Busy(r, "callback") /\ UNCHANGED <<users, nextUser, accounts>>
    BY <1>11 DEF FindAccount, database
  <2>0. request[r] \in Callback
    BY <2>1, <1>0, Kinds DEF Busy
  <2>2. \A q \in Slots \ {r} : request'[q] = request[q]
    BY <1>11, OthersStay DEF FindAccount
  <2>3. request'[r].pc # "link"
    <3>1. CASE Goto(r, "email")
      <4>1. request'[r].pc = "email"
        BY <2>1, <3>1, CallbackStep
      <4> QED
        BY <4>1
    <3>2. ASSUME NEW a, Step(r, [request[r] EXCEPT !.pc = "known", !.user = a.user])
          PROVE  request'[r].pc # "link"
      BY <1>0, <2>0, <3>2 DEF Step, Callback
    <3> QED
      BY <1>11, <3>1, <3>2 DEF FindAccount
  <2> QED
    BY <2>1, <2>2, <2>3, OwnFrame
<1>12. ASSUME NEW r \in Slots, FindUser(r)
      PROVE  OwnInv'
  <2>1. Busy(r, "callback") /\ UNCHANGED <<users, nextUser, accounts>>
    BY <1>12 DEF FindUser, database
  <2>2. \A q \in Slots \ {r} : request'[q] = request[q]
    BY <1>12, OthersStay DEF FindUser
  <2>3. request'[r].kind = "callback" => request'[r].pc # "link"
    <3>1. CASE Goto(r, "refresh")
      <4>1. request'[r].pc = "refresh"
        BY <2>1, <3>1, CallbackStep
      <4> QED
        BY <4>1
    <3>2. CASE Done(r)
      BY <3>2, DoneNothing DEF Nothing
    <3> QED
      BY <1>12, <3>1, <3>2 DEF FindUser
  <2> QED
    BY <2>1, <2>2, <2>3, OwnFrame
<1>13. ASSUME NEW r \in Slots, FindEmail(r)
      PROVE  OwnInv'
  <2>1. /\ Busy(r, "callback") /\ UNCHANGED <<users, nextUser, accounts>>
        /\ \/ Goto(r, "waitlist")
           \/ Done(r)
           \/ \E u \in WithEmail(EmailOf[request[r].identity]) :
                Step(r, [request[r] EXCEPT !.pc = "link", !.user = u.id])
    BY <1>13 DEF FindEmail, database
  <2>2. \A q \in Slots \ {r} : request'[q] = request[q]
    BY <2>1, OthersStay
  <2>3. CASE Goto(r, "waitlist")
    <3>1. request'[r].pc = "waitlist"
      BY <2>1, <2>3, CallbackStep
    <3> QED
      BY <2>1, <2>2, <3>1, OwnFrame
  <2>4. CASE Done(r)
    <3>1. request'[r].kind = "none"
      BY <2>4, DoneNothing DEF Nothing
    <3> QED
      BY <2>1, <2>2, <3>1, OwnFrame
  <2>5. ASSUME NEW u \in WithEmail(EmailOf[request[r].identity]),
               Step(r, [request[r] EXCEPT !.pc = "link", !.user = u.id])
        PROVE  OwnInv'
    <3>1. request'[r].user = u.id /\ request'[r].identity = request[r].identity
      <4>1. request'[r] = [request[r] EXCEPT !.pc = "link", !.user = u.id]
        BY <1>0, <2>5 DEF Step
      <4>2. request[r] \in Callback
        BY <2>1, <1>0, Kinds DEF Busy
      <4> QED
        BY <4>1, <4>2 DEF Callback
    <3>2. u \in users /\ u.email = EmailOf[request[r].identity] /\ u.id < nextUser
      BY DEF WithEmail, OwnInv, UsersUnique
    <3>3. \A x \in users : x.id = u.id => x = u
      BY <3>2 DEF OwnInv, UsersUnique
    <3>4. LinkRight'
      <4> SUFFICES ASSUME NEW q \in Slots, request'[q].kind = "callback", request'[q].pc = "link"
                   PROVE  /\ request'[q].user < nextUser'
                          /\ \A x \in users' : x.id = request'[q].user =>
                                x.email = EmailOf[request'[q].identity]
        BY DEF LinkRight, Busy, At
      <4>1. CASE q = r
        BY <2>1, <3>1, <3>2, <3>3, <4>1
      <4>2. CASE q # r
        BY <2>1, <2>2, <4>2 DEF OwnInv, LinkRight, Busy, At
      <4> QED
        BY <4>1, <4>2
    <3> QED
      BY <2>1, <3>4 DEF OwnInv, UsersUnique, AccountsOwned, Linked
  <2> QED
    BY <2>1, <2>3, <2>4, <2>5
<1>14. ASSUME NEW r \in Slots, CheckWaitlist(r)
      PROVE  OwnInv'
  <2>1. Busy(r, "callback") /\ UNCHANGED <<users, nextUser, accounts>>
    BY <1>14 DEF CheckWaitlist, database
  <2>2. \A q \in Slots \ {r} : request'[q] = request[q]
    BY <1>14, OthersStay DEF CheckWaitlist
  <2>3. request'[r].kind = "callback" => request'[r].pc # "link"
    <3>1. CASE Goto(r, "create")
      <4>1. request'[r].pc = "create"
        BY <2>1, <3>1, CallbackStep
      <4> QED
        BY <4>1
    <3>2. CASE Done(r)
      BY <3>2, DoneNothing DEF Nothing
    <3> QED
      BY <1>14, <3>1, <3>2 DEF CheckWaitlist
  <2> QED
    BY <2>1, <2>2, <2>3, OwnFrame
<1>15. ASSUME NEW r \in Slots, Refresh(r)
      PROVE  OwnInv'
  BY <1>0, <1>15 DEF Refresh, OwnInv, UsersUnique, LinkRight, AccountsOwned, Linked,
     Step, Done, Goto,
           Busy, At, Nothing, database
<1>16. ASSUME NEW r \in Slots, LinkAccount(r)
      PROVE  OwnInv'
  <2>1. /\ users' = users /\ nextUser' = nextUser
        /\ accounts' = accounts \union {[identity |-> request[r].identity, user |-> request[r].user]}
        /\ request[r].user \in UserIds /\ Linked(request[r].identity) = {}
        /\ Busy(r, "callback") /\ At(r, "link") /\ Goto(r, "code")
    BY <1>16 DEF LinkAccount, ForeignKey
  <2>2. LinkRight'
    <3>1. request'[r].pc = "code"
      BY <2>1, CallbackStep
    <3>2. \A q \in Slots \ {r} : request'[q] = request[q]
      BY <2>1, OthersStay
    <3> QED
      BY <2>1, <3>1, <3>2 DEF OwnInv, LinkRight, Busy, At
  <2>3. PICK x \in users : x.id = request[r].user /\ x.email = EmailOf[request[r].identity]
    BY <2>1 DEF UserIds, OwnInv, LinkRight
  <2>4. AccountsOwned'
    BY <2>1, <2>3 DEF OwnInv, AccountsOwned, Linked
  <2> QED
    BY <2>1, <2>2, <2>4 DEF OwnInv, UsersUnique
<1>17. ASSUME NEW r \in Slots, SignUp(r)
      PROVE  OwnInv'
  <2> DEFINE i == request[r].identity
             new == [id |-> nextUser, email |-> EmailOf[i], active |-> TRUE]
  <2>1. /\ users' = users \union {new} /\ nextUser' = nextUser + 1
        /\ accounts' = accounts \union {[identity |-> i, user |-> nextUser]}
        /\ WithEmail(EmailOf[i]) = {} /\ Linked(i) = {}
        /\ Busy(r, "callback")
        /\ Step(r, [request[r] EXCEPT !.pc = "code", !.user = nextUser])
    BY <1>17 DEF SignUp, NewId
  <2>2. nextUser \in Nat /\ users \subseteq User
    BY DEF TypeOK, StoredOK
  <2>3. UsersUnique'
    <3>1. \A x \in users : x.id \in Nat /\ x.id < nextUser /\ x.email # EmailOf[i]
      BY <2>1, <2>2 DEF OwnInv, UsersUnique, WithEmail, User, Ids
    <3>2. ASSUME NEW x \in users', NEW y \in users', x.id = y.id \/ x.email = y.email
          PROVE  x = y
      <4>1. x \in users \/ x = new
        BY <2>1
      <4>2. y \in users \/ y = new
        BY <2>1
      <4>3. new.id = nextUser /\ new.email = EmailOf[i]
        OBVIOUS
      <4>4. CASE x \in users /\ y \in users
        BY <3>2, <4>4 DEF OwnInv, UsersUnique
      <4> HIDE DEF new
      <4>5. CASE x = new /\ y \in users
        BY <2>2, <3>1, <3>2, <4>3, <4>5
      <4>6. CASE x \in users /\ y = new
        BY <2>2, <3>1, <3>2, <4>3, <4>6
      <4> QED
        BY <4>1, <4>2, <4>4, <4>5, <4>6
    <3>3. \A x \in users' : x.id < nextUser'
      BY <2>1, <2>2, <3>1
    <3> QED
      BY <3>2, <3>3 DEF UsersUnique
  <2>4. LinkRight'
    <3>1. request'[r].pc = "code"
      BY <2>1, CallbackStep
    <3>2. \A q \in Slots \ {r} : request'[q] = request[q]
      BY <2>1, OthersStay
    <3> SUFFICES ASSUME NEW q \in Slots, request'[q].kind = "callback", request'[q].pc = "link"
                 PROVE  /\ request'[q].user < nextUser'
                        /\ \A x \in users' : x.id = request'[q].user =>
                              x.email = EmailOf[request'[q].identity]
      BY DEF LinkRight, Busy, At
    <3>3. request'[q] = request[q]
      BY <3>1, <3>2
    <3>4. /\ request[q].user < nextUser
          /\ \A x \in users : x.id = request[q].user => x.email = EmailOf[request[q].identity]
      BY <3>3 DEF OwnInv, LinkRight, Busy, At
    <3>5. request[q].user \in Nat
      <4>1. request[q] \in Callback
        BY <3>3, Kinds DEF TypeOK
      <4> QED
        BY <4>1 DEF Callback, Ids, NoUser
    <3> QED
      BY <2>1, <2>2, <3>3, <3>4, <3>5
  <2>5. AccountsOwned'
    <3>1. \A a \in accounts' : (Linked(a.identity))' = {a}
      BY <2>1 DEF OwnInv, AccountsOwned, Linked
    <3>2. \A a \in accounts' : \E u \in users' : u.id = a.user /\ u.email = EmailOf[a.identity]
      <4>1. ASSUME NEW a \in accounts
            PROVE  \E u \in users' : u.id = a.user /\ u.email = EmailOf[a.identity]
        BY <2>1 DEF OwnInv, AccountsOwned
      <4>2. new \in users' /\ new.id = nextUser /\ new.email = EmailOf[i]
        BY <2>1
      <4>3. \A a \in accounts' : a \in accounts \/ a = [identity |-> i, user |-> nextUser]
        BY <2>1
      <4>4. ASSUME NEW a, a = [identity |-> i, user |-> nextUser]
            PROVE  new.id = a.user /\ new.email = EmailOf[a.identity]
        BY <4>4
      <4> HIDE DEF new
      <4> QED
        BY <4>1, <4>2, <4>3, <4>4
    <3> QED
      BY <3>1, <3>2 DEF AccountsOwned
  <2> QED
    BY <2>3, <2>4, <2>5 DEF OwnInv
<1>18. ASSUME NEW r \in Slots, StoreCode(r)
      PROVE  OwnInv'
  BY <1>0, <1>18 DEF StoreCode, OwnInv, UsersUnique, LinkRight, AccountsOwned, Linked,
     Step, Done, Goto,
           Busy, At, Nothing, database
<1>19. ASSUME NEW c \in codes, Exchange(c)
      PROVE  OwnInv'
  BY <1>0, <1>19 DEF Exchange, OwnInv, UsersUnique, LinkRight, AccountsOwned, Linked,
     Step, Done, Goto,
           Busy, At, Nothing, database
<1>20. ASSUME NEW r \in Slots, NEW u \in Ids, NEW p \in Providers, DisconnectStart(r, u, p)
      PROVE  OwnInv'
  BY <1>0, <1>20 DEF DisconnectStart, Begin, OwnInv, UsersUnique, LinkRight,
     AccountsOwned, Linked, Step, Done, Goto,
           Busy, At, Nothing, database
<1>21. ASSUME NEW r \in Slots, NEW u \in Ids, NEW item \in Items, InsertStart(r, u, item)
      PROVE  OwnInv'
  BY <1>0, <1>21 DEF InsertStart, Begin, OwnInv, UsersUnique, LinkRight, AccountsOwned,
     Linked, Step, Done, Goto,
           Busy, At, Nothing, database
<1>22. ASSUME NEW r \in Slots, NEW u \in Ids, DeletionStart(r, u)
      PROVE  OwnInv'
  BY <1>0, <1>22 DEF DeletionStart, OwnInv, UsersUnique, LinkRight, AccountsOwned,
     Linked, Step, Done, Goto,
           Busy, At, Nothing, database
<1>23. ASSUME NEW r \in Slots, DisconnectCount(r)
      PROVE  OwnInv'
  <2>1. /\ Busy(r, "disconnect") /\ UNCHANGED <<users, nextUser, accounts>>
        /\ \/ \E n : Step(r, [request[r] EXCEPT !.pc = "delete", !.count = n])
           \/ Done(r)
    BY <1>23 DEF DisconnectCount, database
  <2>2. \A q \in Slots \ {r} : request'[q] = request[q]
    BY <2>1, OthersStay
  <2>3. request[r] \in Disconnect
    BY <2>1, Kinds DEF TypeOK, Busy
  <2>4. request'[r].kind # "callback"
    <3>1. ASSUME NEW n, Step(r, [request[r] EXCEPT !.pc = "delete", !.count = n])
          PROVE  request'[r].kind # "callback"
      BY <1>0, <2>3, <3>1 DEF Step, Disconnect
    <3>2. CASE Done(r)
      BY <3>2, DoneNothing DEF Nothing
    <3> QED
      BY <2>1, <3>1, <3>2
  <2> QED
    BY <2>1, <2>2, <2>4, OwnFrame
<1>24. ASSUME NEW r \in Slots, DisconnectDelete(r)
      PROVE  OwnInv'
  BY <1>0, <1>24 DEF DisconnectDelete, OwnInv, UsersUnique, LinkRight, AccountsOwned,
     Linked, Step, Done, Goto,
           Busy, At, Nothing, database
<1>25. ASSUME NEW r \in Slots, InsertRow(r)
      PROVE  OwnInv'
  BY <1>0, <1>25 DEF InsertRow, OwnInv, UsersUnique, LinkRight, AccountsOwned, Linked,
     Step, Done, Goto,
           Busy, At, Nothing, database
<1>26. ASSUME NEW r \in Slots, DeletionRows(r)
      PROVE  OwnInv'
  BY <1>0, <1>26 DEF DeletionRows, OwnInv, UsersUnique, LinkRight, AccountsOwned,
     Linked, Step, Done, Goto,
           Busy, At, Nothing, database
<1>27. ASSUME NEW r \in Slots, DeletionCommit(r)
      PROVE  OwnInv'
  <2> DEFINE u == request[r].user
  <2>1. /\ users' = {x \in users : x.id # u} /\ nextUser' = nextUser
        /\ accounts' = accounts \ AccountsOf(u) /\ Done(r)
    BY <1>27 DEF DeletionCommit
  <2>2. LinkRight'
    <3>1. request'[r].kind = "none"
      BY <2>1, DoneNothing DEF Nothing
    <3>2. \A q \in Slots \ {r} : request'[q] = request[q]
      BY <2>1, OthersStay
    <3> QED
      BY <2>1, <3>1, <3>2 DEF OwnInv, LinkRight, Busy, At
  <2>3. UsersUnique'
    BY <2>1 DEF OwnInv, UsersUnique
  <2>4. AccountsOwned'
    BY <2>1 DEF OwnInv, AccountsOwned, AccountsOf, Linked
  <2> QED
    BY <2>2, <2>3, <2>4 DEF OwnInv
<1>28. ASSUME NEW u \in users, NEW active \in BOOLEAN, SetActive(u, active)
      PROVE  OwnInv'
  <2> DEFINE v == [u EXCEPT !.active = active]
  <2>1. /\ users' = (users \ {u}) \union {v}
        /\ UNCHANGED <<nextUser, accounts, request>>
    BY <1>28 DEF SetActive
  <2>2. v.id = u.id /\ v.email = u.email
    BY DEF TypeOK, StoredOK, User
  <2> HIDE DEF v
  <2>0. \A x \in users' : x = v \/ x \in users \ {u}
    BY <2>1
  <2>3. UsersUnique'
    <3>1. \A x \in users' : x.id < nextUser'
      BY <2>0, <2>1, <2>2 DEF OwnInv, UsersUnique
    <3>2. ASSUME NEW x \in users', NEW y \in users', x.id = y.id \/ x.email = y.email
          PROVE  x = y
      BY <2>0, <2>2, <3>2 DEF OwnInv, UsersUnique
    <3> QED
      BY <3>1, <3>2 DEF UsersUnique
  <2>4. LinkRight'
    BY <2>0, <2>1, <2>2 DEF OwnInv, LinkRight, Busy, At
  <2>5. AccountsOwned'
    <3>1. \A x \in users : \E y \in users' : y.id = x.id /\ y.email = x.email
      BY <2>1, <2>2
    <3> QED
      BY <2>1, <3>1 DEF OwnInv, AccountsOwned, Linked
  <2> QED
    BY <2>3, <2>4, <2>5 DEF OwnInv
<1>29. ASSUME NEW r \in Slots, RequestFails(r)
      PROVE  OwnInv'
  BY <1>0, <1>29 DEF RequestFails, OwnInv, UsersUnique, LinkRight, AccountsOwned,
     Linked, Step, Done, Goto,
           Busy, At, Nothing, database
<1> QED
  BY <1>1, <1>2, <1>3, <1>4, <1>5, <1>6, <1>7, <1>8, <1>9, <1>10, <1>11, <1>12, <1>13,
     <1>14, <1>15, <1>16, <1>17, <1>18, <1>19, <1>20, <1>21, <1>22, <1>23, <1>24, <1>25,
     <1>26, <1>27, <1>28, <1>29 DEF WaitlistStep, SignInStep, UserStep

LEMMA NextOwnInv == TypeOK /\ OwnInv /\ [Next]_vars => OwnInv'
<1>1. TypeOK /\ OwnInv /\ Next => OwnInv'
  BY ActionOwnInv DEF Next
<1>2. OwnInv /\ UNCHANGED vars => OwnInv'
  BY DEF vars, database, OwnInv, UsersUnique, LinkRight, AccountsOwned, Linked, Busy, At
<1> QED
  BY <1>1, <1>2

(* Linking by address, concurrent sign-ups and deletions never give an        *)
(* identity to somebody else, or leave an account without its user.           *)
THEOREM IdentitiesOwned == Spec => []AccountsOwned
<1>1. OwnInv => AccountsOwned
  BY DEF OwnInv
<1> QED
  BY InitOwnInv, NextOwnInv, TypeCorrect, <1>1, PTL DEF Spec

-----------------------------------------------------------------------------
(* What one action does to the requests under way. *)

Action == WaitlistStep \/ SignInStep \/ UserStep \/ \E r \in Slots : RequestFails(r)

(* A callback goes on for the same login; it is about to create a user only *)
(* after the waitlist approved, and it has found a user who is active now, or *)
(* goes on with the one it had found.                                        *)
CallbackMove(q) ==
    request'[q].kind = "callback" =>
      \/ request'[q] = request[q]
      \/ \E n \in Logins, i \in Identities : CallbackStart(q, n, i)
      \/ /\ Busy(q, "callback") /\ request'[q].login = request[q].login
         /\ request'[q].pc = "create" => Approved(EmailOf[request'[q].identity])
         /\ request'[q].pc \in {"refresh", "link", "code"} =>
              \/ request'[q].user \in ActiveIds'
              \/ /\ request[q].pc \in {"refresh", "link"}
                 /\ request'[q].user = request[q].user

(* A resend has read an approved address; an approval whose email is out     *)
(* ends in its commit or fails.                                              *)
DecisionMove(q) ==
    /\ request'[q].kind = "resend" =>
         \/ Busy(q, "resend") /\ request'[q].email = request[q].email
         \/ request'[q].email \in Emails /\ Approved(request'[q].email)
    /\ Busy(q, "approve") /\ At(q, "commit") =>
         request'[q] = request[q] \/ ApproveCommit(q) \/ RequestFails(q)

(* An insert begins for a user who exists; a disconnect goes on only after a *)
(* count above one.                                                          *)
UserMove(q) ==
    /\ request'[q].kind = "insert" =>
         \/ request'[q] = request[q]
         \/ request'[q].user \in UserIds /\ UNCHANGED <<users, overtaken>>
    /\ request'[q].kind = "disconnect" /\ request'[q].pc = "delete" =>
         request'[q] = request[q] \/ request'[q].count > 1

Moves == \A q \in Slots : CallbackMove(q) /\ DecisionMove(q) /\ UserMove(q)

(* A step of one request leaves the others alone.                            *)
LEMMA OneMoves ==
    ASSUME TypeOK, NEW r \in Slots, CallbackMove(r), DecisionMove(r), UserMove(r),
           \/ \E new : Step(r, new)
           \/ \E pc : Goto(r, pc)
           \/ Done(r)
    PROVE  Moves
<1>1. \A q \in Slots \ {r} : request'[q] = request[q]
  BY OthersStay
<1> QED
  BY <1>1 DEF Moves, CallbackMove, DecisionMove, UserMove, Busy

(* What a step writes into its slot.                                         *)
LEMMA StepReads ==
    ASSUME TypeOK, NEW r \in Slots
    PROVE  \A new : Step(r, new) => request'[r] = new
  BY DEF TypeOK, Step

LEMMA DoneMoves ==
    ASSUME TypeOK, NEW r \in Slots, Done(r),
           Busy(r, "approve") /\ At(r, "commit") => ApproveCommit(r) \/ RequestFails(r)
    PROVE  Moves
<1>1. request'[r].kind = "none"
  BY DoneNothing DEF Nothing
<1> QED
  BY <1>1, OneMoves DEF CallbackMove, DecisionMove, UserMove

LEMMA CallbackGets ==
    ASSUME TypeOK, NEW r \in Slots, Busy(r, "callback"), NEW pc, NEW u,
           Step(r, [request[r] EXCEPT !.pc = pc, !.user = u])
    PROVE  /\ request'[r].kind = "callback" /\ request'[r].pc = pc
           /\ request'[r].login = request[r].login
           /\ request'[r].identity = request[r].identity
           /\ request'[r].user = u
<1>1. request[r] \in Callback
  BY Kinds DEF TypeOK, Busy
<1>2. request'[r] = [request[r] EXCEPT !.pc = pc, !.user = u]
  BY StepReads
<1> QED
  BY <1>1, <1>2 DEF Callback

(* A callback that stays one.                                                *)
LEMMA CallbackGoesOn ==
    ASSUME TypeOK, NEW r \in Slots, Busy(r, "callback"), CallbackMove(r),
           request'[r].kind = "callback",
           \/ \E new : Step(r, new)
           \/ \E pc : Goto(r, pc)
    PROVE  Moves
  BY OneMoves DEF Busy, DecisionMove, UserMove

LEMMA DecisionStep ==
    ASSUME TypeOK, NEW r \in Slots, request[r].kind \in {"approve", "reject", "resend"},
           NEW pc, Goto(r, pc)
    PROVE  /\ request'[r].kind = request[r].kind /\ request'[r].email = request[r].email
           /\ request'[r].pc = pc
<1>1. request[r] \in Decision
  BY Kinds DEF TypeOK
<1>2. request'[r] = [request[r] EXCEPT !.pc = pc]
  BY DEF Goto, Step, TypeOK
<1> QED
  BY <1>1, <1>2 DEF Decision

(* Every action moves the requests so.                                       *)
LEMMA ActionMoves == TypeOK /\ Action => Moves
<1> SUFFICES ASSUME TypeOK, Action PROVE Moves
  OBVIOUS
<1>0. ASSUME UNCHANGED request PROVE Moves
  BY <1>0 DEF Moves, CallbackMove, DecisionMove, UserMove, Busy
<1>1. ASSUME NEW e \in Emails, RequestAccess(e)
      PROVE  Moves
  BY <1>0, <1>1 DEF RequestAccess
<1>2. ASSUME NEW r \in Slots, NEW e \in Emails,
             NEW kind \in {"approve", "reject", "resend"}, DecisionStart(r, kind, e)
      PROVE  Moves
  <2>1. /\ request'[r].kind = kind /\ request'[r].email = e
        /\ Busy(r, "none") /\ (kind = "resend" => Approved(e))
    BY <1>2, StepReads DEF DecisionStart, MayDecide, Approved
  <2>2. CallbackMove(r) /\ DecisionMove(r) /\ UserMove(r)
    BY <2>1 DEF CallbackMove, DecisionMove, UserMove, Busy
  <2> QED
    BY <1>2, <2>2, OneMoves DEF DecisionStart
<1>3. ASSUME NEW r \in Slots, ApproveUpdate(r)
      PROVE  Moves
  <2>1. /\ request[r].kind \in {"approve", "resend"} /\ At(r, "update") /\ Goto(r, "email")
    BY <1>3 DEF ApproveUpdate, Busy
  <2>2. /\ request'[r].kind = request[r].kind /\ request'[r].email = request[r].email
    BY <2>1, DecisionStep
  <2>3. CallbackMove(r) /\ DecisionMove(r) /\ UserMove(r)
    BY <2>1, <2>2 DEF CallbackMove, DecisionMove, UserMove, Busy, At
  <2> QED
    BY <2>1, <2>3, OneMoves
<1>4. ASSUME NEW r \in Slots, SendApprovalEmail(r)
      PROVE  Moves
  <2>1. /\ request[r].kind \in {"approve", "resend"} /\ At(r, "email") /\ Goto(r, "commit")
    BY <1>4 DEF SendApprovalEmail, Busy
  <2>2. /\ request'[r].kind = request[r].kind /\ request'[r].email = request[r].email
    BY <2>1, DecisionStep
  <2>3. CallbackMove(r) /\ DecisionMove(r) /\ UserMove(r)
    BY <2>1, <2>2 DEF CallbackMove, DecisionMove, UserMove, Busy, At
  <2> QED
    BY <2>1, <2>3, OneMoves
<1>5. ASSUME NEW r \in Slots, ApproveCommit(r)
      PROVE  Moves
  BY <1>5, DoneMoves DEF ApproveCommit
<1>6. ASSUME NEW r \in Slots, ResendCommit(r)
      PROVE  Moves
  BY <1>6, DoneMoves DEF ResendCommit, Busy
<1>7. ASSUME NEW r \in Slots, RejectCommit(r)
      PROVE  Moves
  BY <1>7, DoneMoves DEF RejectCommit, Busy
<1>8. ASSUME NEW n \in Logins, Login(n)
      PROVE  Moves
  BY <1>0, <1>8 DEF Login
<1>9. ASSUME Expire
      PROVE  Moves
  BY <1>0, <1>9 DEF Expire
<1>10. ASSUME NEW r \in Slots, NEW n \in Logins, NEW i \in Identities, CallbackStart(r, n, i)
      PROVE  Moves
  <2>1. request'[r].kind = "callback" /\ Busy(r, "none")
    BY <1>10, StepReads DEF CallbackStart
  <2>2. CallbackMove(r) /\ DecisionMove(r) /\ UserMove(r)
    BY <1>10, <2>1 DEF CallbackMove, DecisionMove, UserMove, Busy
  <2> QED
    BY <1>10, <2>2, OneMoves DEF CallbackStart
<1>11. ASSUME NEW r \in Slots, FindAccount(r)
      PROVE  Moves
  <2>1. Busy(r, "callback")
    BY <1>11 DEF FindAccount
  <2>2. CASE Goto(r, "email")
    <3>1. /\ request'[r].kind = "callback" /\ request'[r].pc = "email"
          /\ request'[r].login = request[r].login
      BY <2>1, <2>2, CallbackStep
    <3> QED
      BY <2>1, <2>2, <3>1, CallbackGoesOn DEF CallbackMove
  <2>3. ASSUME NEW u, Step(r, [request[r] EXCEPT !.pc = "known", !.user = u]) PROVE Moves
    <3>1. /\ request'[r].kind = "callback" /\ request'[r].pc = "known"
          /\ request'[r].login = request[r].login
      BY <2>1, <2>3, CallbackStep
    <3> QED
      BY <2>1, <2>3, <3>1, CallbackGoesOn DEF CallbackMove
  <2> QED
    BY <1>11, <2>2, <2>3 DEF FindAccount
<1>12. ASSUME NEW r \in Slots, FindUser(r)
      PROVE  Moves
  <2>1. Busy(r, "callback") /\ UNCHANGED users
    BY <1>12 DEF FindUser, database
  <2>2. CASE request[r].user \in ActiveIds /\ Goto(r, "refresh")
    <3>1. /\ request'[r].kind = "callback" /\ request'[r].pc = "refresh"
          /\ request'[r].login = request[r].login /\ request'[r].user = request[r].user
      BY <2>1, <2>2, CallbackStep
    <3>2. request'[r].user \in ActiveIds'
      BY <2>1, <2>2, <3>1 DEF ActiveIds
    <3> QED
      BY <2>1, <2>2, <3>1, <3>2, CallbackGoesOn DEF CallbackMove
  <2>3. CASE Done(r)
    BY <2>1, <2>3, DoneMoves DEF Busy
  <2> QED
    BY <1>12, <2>2, <2>3 DEF FindUser
<1>13. ASSUME NEW r \in Slots, FindEmail(r)
      PROVE  Moves
  <2>1. Busy(r, "callback") /\ UNCHANGED users
    BY <1>13 DEF FindEmail, database
  <2>2. CASE Goto(r, "waitlist")
    <3>1. /\ request'[r].kind = "callback" /\ request'[r].pc = "waitlist"
          /\ request'[r].login = request[r].login
      BY <2>1, <2>2, CallbackStep
    <3> QED
      BY <2>1, <2>2, <3>1, CallbackGoesOn DEF CallbackMove
  <2>3. ASSUME NEW u \in users, u.active,
               Step(r, [request[r] EXCEPT !.pc = "link", !.user = u.id])
        PROVE  Moves
    <3>1. PICK v : v = u.id /\ Step(r, [request[r] EXCEPT !.pc = "link", !.user = v])
      BY <2>3, Zenon
    <3>2. Step(r, [request[r] EXCEPT !.pc = "link", !.user = v])
      BY <3>1
    <3>3. /\ request'[r].kind = "callback" /\ request'[r].pc = "link"
          /\ request'[r].login = request[r].login /\ request'[r].user = v
      BY <2>1, <3>2, CallbackGets
    <3>4. request'[r].user \in ActiveIds'
      BY <2>1, <2>3, <3>1, <3>3 DEF ActiveIds
    <3> QED
      BY <2>1, <2>3, <3>3, <3>4, CallbackGoesOn DEF CallbackMove
  <2>4. CASE Done(r)
    BY <2>1, <2>4, DoneMoves DEF Busy
  <2> QED
    BY <1>13, <2>2, <2>3, <2>4 DEF FindEmail, WithEmail, MayEnter
<1>14. ASSUME NEW r \in Slots, CheckWaitlist(r)
      PROVE  Moves
  <2>1. Busy(r, "callback")
    BY <1>14 DEF CheckWaitlist
  <2>2. CASE Approved(EmailOf[request[r].identity]) /\ Goto(r, "create")
    <3>1. /\ request'[r].kind = "callback" /\ request'[r].pc = "create"
          /\ request'[r].login = request[r].login
          /\ request'[r].identity = request[r].identity
      BY <2>1, <2>2, CallbackStep
    <3> QED
      BY <2>1, <2>2, <3>1, CallbackGoesOn DEF CallbackMove
  <2>3. CASE Done(r)
    BY <2>1, <2>3, DoneMoves DEF Busy
  <2> QED
    BY <1>14, <2>2, <2>3 DEF CheckWaitlist
<1>15. ASSUME NEW r \in Slots, Refresh(r)
      PROVE  Moves
  <2>1. Busy(r, "callback") /\ At(r, "refresh") /\ Goto(r, "code")
    BY <1>15 DEF Refresh
  <2>2. /\ request'[r].kind = "callback" /\ request'[r].pc = "code"
        /\ request'[r].login = request[r].login /\ request'[r].user = request[r].user
    BY <2>1, CallbackStep
  <2> QED
    BY <2>1, <2>2, CallbackGoesOn DEF CallbackMove, At
<1>16. ASSUME NEW r \in Slots, LinkAccount(r)
      PROVE  Moves
  <2>1. Busy(r, "callback") /\ At(r, "link") /\ Goto(r, "code")
    BY <1>16 DEF LinkAccount
  <2>2. /\ request'[r].kind = "callback" /\ request'[r].pc = "code"
        /\ request'[r].login = request[r].login /\ request'[r].user = request[r].user
    BY <2>1, CallbackStep
  <2> QED
    BY <2>1, <2>2, CallbackGoesOn DEF CallbackMove, At
<1>17. ASSUME NEW r \in Slots, SignUp(r)
      PROVE  Moves
  <2> DEFINE new == [id |-> nextUser, email |-> EmailOf[request[r].identity], active |-> TRUE]
  <2>1. /\ Busy(r, "callback") /\ new \in users'
        /\ Step(r, [request[r] EXCEPT !.pc = "code", !.user = nextUser])
    BY <1>17 DEF SignUp, NewId
  <2>2. /\ request'[r].kind = "callback" /\ request'[r].pc = "code"
        /\ request'[r].login = request[r].login /\ request'[r].user = nextUser
    BY <2>1, CallbackGets
  <2>3. request'[r].user \in ActiveIds'
    <3>1. new.active /\ new.id = nextUser
      OBVIOUS
    <3> HIDE DEF new
    <3> QED
      BY <2>1, <2>2, <3>1 DEF ActiveIds
  <2> QED
    BY <2>1, <2>2, <2>3, CallbackGoesOn DEF CallbackMove
<1>18. ASSUME NEW r \in Slots, StoreCode(r)
      PROVE  Moves
  BY <1>18, DoneMoves DEF StoreCode, Busy
<1>19. ASSUME NEW c \in codes, Exchange(c)
      PROVE  Moves
  BY <1>0, <1>19 DEF Exchange
<1>20. ASSUME NEW r \in Slots, NEW u \in Ids, NEW p \in Providers, DisconnectStart(r, u, p)
      PROVE  Moves
  <2>1. request'[r].kind = "disconnect" /\ request'[r].pc = "count" /\ Busy(r, "none")
    BY <1>20, StepReads DEF DisconnectStart, Begin
  <2>2. CallbackMove(r) /\ DecisionMove(r) /\ UserMove(r)
    BY <2>1 DEF CallbackMove, DecisionMove, UserMove, Busy
  <2> QED
    BY <1>20, <2>2, OneMoves DEF DisconnectStart, Begin
<1>21. ASSUME NEW r \in Slots, NEW u \in Ids, NEW item \in Items, InsertStart(r, u, item)
      PROVE  Moves
  <2>1. request'[r].kind = "insert" /\ request'[r].user = u /\ Busy(r, "none")
    BY <1>21, StepReads DEF InsertStart, Begin
  <2>2. u \in UserIds /\ UNCHANGED <<users, overtaken>>
    BY <1>21 DEF InsertStart, Begin, ActiveIds, UserIds, database, history
  <2>3. CallbackMove(r) /\ DecisionMove(r) /\ UserMove(r)
    BY <2>1, <2>2 DEF CallbackMove, DecisionMove, UserMove, Busy
  <2> QED
    BY <1>21, <2>3, OneMoves DEF InsertStart, Begin
<1>22. ASSUME NEW r \in Slots, NEW u \in Ids, DeletionStart(r, u)
      PROVE  Moves
  <2>1. request'[r].kind = "delete" /\ Busy(r, "none")
    BY <1>22, StepReads DEF DeletionStart
  <2>2. CallbackMove(r) /\ DecisionMove(r) /\ UserMove(r)
    BY <2>1 DEF CallbackMove, DecisionMove, UserMove, Busy
  <2> QED
    BY <1>22, <2>2, OneMoves DEF DeletionStart
<1>23. ASSUME NEW r \in Slots, DisconnectCount(r)
      PROVE  Moves
  <2>1. Busy(r, "disconnect") /\ request[r] \in Disconnect
    BY <1>23, Kinds DEF DisconnectCount, Busy, TypeOK
  <2>2. ASSUME NEW n, n > 1, Step(r, [request[r] EXCEPT !.pc = "delete", !.count = n])
        PROVE  Moves
    <3>1. request'[r] = [request[r] EXCEPT !.pc = "delete", !.count = n]
      BY <2>2, StepReads
    <3>2. request'[r].kind = "disconnect" /\ request'[r].count = n
      BY <2>1, <3>1 DEF Disconnect
    <3>3. CallbackMove(r) /\ DecisionMove(r) /\ UserMove(r)
      BY <2>1, <2>2, <3>2 DEF CallbackMove, DecisionMove, UserMove, Busy
    <3> QED
      BY <2>2, <3>3, OneMoves
  <2>3. CASE Done(r)
    BY <2>1, <2>3, DoneMoves DEF Busy
  <2> QED
    BY <1>23, <2>2, <2>3 DEF DisconnectCount, MayDisconnect
<1>24. ASSUME NEW r \in Slots, DisconnectDelete(r)
      PROVE  Moves
  BY <1>24, DoneMoves DEF DisconnectDelete, Busy
<1>25. ASSUME NEW r \in Slots, InsertRow(r)
      PROVE  Moves
  BY <1>25, DoneMoves DEF InsertRow, Busy
<1>26. ASSUME NEW r \in Slots, DeletionRows(r)
      PROVE  Moves
  <2>1. Busy(r, "delete") /\ request[r] \in Deletion
    BY <1>26, Kinds DEF DeletionRows, Busy, TypeOK
  <2>2. request'[r] = [request[r] EXCEPT !.pc = "user", !.purged = RowsOf(request[r].user)]
    BY <1>26, StepReads DEF DeletionRows
  <2>3. request'[r].kind = "delete"
    BY <2>1, <2>2 DEF Deletion
  <2>4. CallbackMove(r) /\ DecisionMove(r) /\ UserMove(r)
    BY <2>1, <2>3 DEF CallbackMove, DecisionMove, UserMove, Busy
  <2> QED
    BY <1>26, <2>4, OneMoves DEF DeletionRows
<1>27. ASSUME NEW r \in Slots, DeletionCommit(r)
      PROVE  Moves
  BY <1>27, DoneMoves DEF DeletionCommit, Busy
<1>28. ASSUME NEW u \in users, NEW active \in BOOLEAN, SetActive(u, active)
      PROVE  Moves
  BY <1>0, <1>28 DEF SetActive
<1>29. ASSUME NEW r \in Slots, RequestFails(r)
      PROVE  Moves
  BY <1>29, DoneMoves DEF RequestFails
<1> QED
  BY <1>1, <1>2, <1>3, <1>4, <1>5, <1>6, <1>7, <1>8, <1>9, <1>10, <1>11, <1>12, <1>13, <1>14,
     <1>15, <1>16, <1>17, <1>18, <1>19, <1>20, <1>21, <1>22, <1>23, <1>24, <1>25, <1>26, <1>27, <1>28, <1>29
     DEF Action, WaitlistStep, SignInStep, UserStep

-----------------------------------------------------------------------------
(* Which actions write which tables.                                         *)
Tables ==
    /\ \/ users' = users
       \/ \E r \in Slots : SignUp(r) \/ DeletionCommit(r)
       \/ \E u \in users, active \in BOOLEAN : SetActive(u, active)
    /\ \/ UNCHANGED <<rows, overtaken>>
       \/ \E r \in Slots : InsertRow(r) \/ DeletionCommit(r)
    /\ \/ UNCHANGED <<waitlist, welcomed>>
       \/ \E e \in Emails : RequestAccess(e)
       \/ \E r \in Slots : ApproveCommit(r) \/ RejectCommit(r)
    /\ invited' = invited \/ \E r \in Slots : SendApprovalEmail(r)
    /\ unkept' = unkept \/ \E r \in Slots : RequestFails(r)
    /\ \/ UNCHANGED <<fresh, states, codes, minted>>
       \/ \E n \in Logins : Login(n)
       \/ Expire
       \/ \E r \in Slots, n \in Logins, i \in Identities : CallbackStart(r, n, i)
       \/ \E r \in Slots : StoreCode(r)
       \/ \E c \in codes : Exchange(c)
    /\ \/ accounts' = accounts
       \/ \E r \in Slots : LinkAccount(r) \/ SignUp(r) \/ DisconnectDelete(r) \/ DeletionCommit(r)

LEMMA ActionTables == Action => Tables
<1> SUFFICES ASSUME Action PROVE Tables
  OBVIOUS
<1> USE DEF Tables
<1>1. ASSUME NEW e \in Emails, RequestAccess(e)
      PROVE  Tables
  BY <1>1 DEF RequestAccess, database, redis, history
<1>2. ASSUME NEW r \in Slots, NEW e \in Emails,
             NEW kind \in {"approve", "reject", "resend"}, DecisionStart(r, kind, e)
      PROVE  Tables
  BY <1>2 DEF DecisionStart, database, redis, history
<1>3. ASSUME NEW r \in Slots, ApproveUpdate(r)
      PROVE  Tables
  BY <1>3 DEF ApproveUpdate, database, redis, history
<1>4. ASSUME NEW r \in Slots, SendApprovalEmail(r)
      PROVE  Tables
  BY <1>4 DEF SendApprovalEmail, database, redis, history
<1>5. ASSUME NEW r \in Slots, ApproveCommit(r)
      PROVE  Tables
  BY <1>5 DEF ApproveCommit, database, redis, history
<1>6. ASSUME NEW r \in Slots, ResendCommit(r)
      PROVE  Tables
  BY <1>6 DEF ResendCommit, database, redis, history
<1>7. ASSUME NEW r \in Slots, RejectCommit(r)
      PROVE  Tables
  BY <1>7 DEF RejectCommit, database, redis, history
<1>8. ASSUME NEW n \in Logins, Login(n)
      PROVE  Tables
  BY <1>8 DEF Login, database, redis, history
<1>9. ASSUME Expire
      PROVE  Tables
  BY <1>9 DEF Expire, database, redis, history
<1>10. ASSUME NEW r \in Slots, NEW n \in Logins, NEW i \in Identities, CallbackStart(r, n, i)
      PROVE  Tables
  BY <1>10 DEF CallbackStart, database, redis, history
<1>11. ASSUME NEW r \in Slots, FindAccount(r)
      PROVE  Tables
  BY <1>11 DEF FindAccount, database, redis, history
<1>12. ASSUME NEW r \in Slots, FindUser(r)
      PROVE  Tables
  BY <1>12 DEF FindUser, database, redis, history
<1>13. ASSUME NEW r \in Slots, FindEmail(r)
      PROVE  Tables
  BY <1>13 DEF FindEmail, database, redis, history
<1>14. ASSUME NEW r \in Slots, CheckWaitlist(r)
      PROVE  Tables
  BY <1>14 DEF CheckWaitlist, database, redis, history
<1>15. ASSUME NEW r \in Slots, Refresh(r)
      PROVE  Tables
  BY <1>15 DEF Refresh, database, redis, history
<1>16. ASSUME NEW r \in Slots, LinkAccount(r)
      PROVE  Tables
  BY <1>16 DEF LinkAccount, database, redis, history
<1>17. ASSUME NEW r \in Slots, SignUp(r)
      PROVE  Tables
  BY <1>17 DEF SignUp, database, redis, history
<1>18. ASSUME NEW r \in Slots, StoreCode(r)
      PROVE  Tables
  BY <1>18 DEF StoreCode, database, redis, history
<1>19. ASSUME NEW c \in codes, Exchange(c)
      PROVE  Tables
  BY <1>19 DEF Exchange, database, redis, history
<1>20. ASSUME NEW r \in Slots, NEW u \in Ids, NEW p \in Providers, DisconnectStart(r, u, p)
      PROVE  Tables
  BY <1>20 DEF DisconnectStart, Begin, database, redis, history
<1>21. ASSUME NEW r \in Slots, NEW u \in Ids, NEW item \in Items, InsertStart(r, u, item)
      PROVE  Tables
  BY <1>21 DEF InsertStart, Begin, database, redis, history
<1>22. ASSUME NEW r \in Slots, NEW u \in Ids, DeletionStart(r, u)
      PROVE  Tables
  BY <1>22 DEF DeletionStart, database, redis, history
<1>23. ASSUME NEW r \in Slots, DisconnectCount(r)
      PROVE  Tables
  BY <1>23 DEF DisconnectCount, database, redis, history
<1>24. ASSUME NEW r \in Slots, DisconnectDelete(r)
      PROVE  Tables
  BY <1>24 DEF DisconnectDelete, database, redis, history
<1>25. ASSUME NEW r \in Slots, InsertRow(r)
      PROVE  Tables
  BY <1>25 DEF InsertRow, database, redis, history
<1>26. ASSUME NEW r \in Slots, DeletionRows(r)
      PROVE  Tables
  BY <1>26 DEF DeletionRows, database, redis, history
<1>27. ASSUME NEW r \in Slots, DeletionCommit(r)
      PROVE  Tables
  BY <1>27 DEF DeletionCommit, database, redis, history
<1>28. ASSUME NEW u \in users, NEW active \in BOOLEAN, SetActive(u, active)
      PROVE  Tables
  BY <1>28 DEF SetActive, database, redis, history
<1>29. ASSUME NEW r \in Slots, RequestFails(r)
      PROVE  Tables
  BY <1>29 DEF RequestFails, database, redis, history
<1> QED
  BY <1>1, <1>2, <1>3, <1>4, <1>5, <1>6, <1>7, <1>8, <1>9, <1>10, <1>11, <1>12, <1>13, <1>14,
     <1>15, <1>16, <1>17, <1>18, <1>19, <1>20, <1>21, <1>22, <1>23, <1>24, <1>25, <1>26, <1>27, <1>28, <1>29
     DEF Action, WaitlistStep, SignInStep, UserStep

-----------------------------------------------------------------------------
(* One session for one login. *)

(* The login a callback carries.                                             *)
Carries(q, n) == Busy(q, "callback") /\ request[q].login = n

(* A token is in one place at a time: not generated yet, a state in Redis, a *)
(* callback under way, an exchange code, or a JWT.                           *)
TokenInv ==
    /\ \A n \in fresh \union states :
         /\ minted[n] = 0
         /\ \A c \in codes : c.login # n
         /\ \A q \in Slots : ~Carries(q, n)
    /\ fresh \intersect states = {}
    /\ \A q \in Slots, n \in Logins : Carries(q, n) =>
         /\ minted[n] = 0
         /\ \A c \in codes : c.login # n
         /\ \A p \in Slots \ {q} : ~Carries(p, n)
    /\ \A c \in codes : minted[c.login] = 0 /\ \A d \in codes : d.login = c.login => d = c
    /\ OneTokenPerLogin

(* Only the start of a callback gives a request a login.                     *)
LEMMA CarriesKept ==
    ASSUME Moves, ~\E r \in Slots, n \in Logins, i \in Identities : CallbackStart(r, n, i)
    PROVE  \A q \in Slots : \A m : Carries(q, m)' => Carries(q, m)
  BY DEF Moves, CallbackMove, Carries, Busy

LEMMA TokenStart ==
    ASSUME TypeOK, TokenInv, NEW r \in Slots, NEW n \in Logins, NEW i \in Identities,
           CallbackStart(r, n, i)
    PROVE  TokenInv'
<1>1. /\ n \in states /\ states' = states \ {n}
      /\ UNCHANGED <<fresh, codes, minted>>
      /\ Busy(r, "none")
  BY DEF CallbackStart, ConsumeState, history
<1>2. request'[r].kind = "callback" /\ request'[r].login = n
  BY StepReads DEF CallbackStart
<1>3. \A q \in Slots \ {r} : request'[q] = request[q]
  BY OthersStay DEF CallbackStart
<1>4. \A q \in Slots : \A m : Carries(q, m)' <=> IF q = r THEN m = n ELSE Carries(q, m)
  BY <1>2, <1>3 DEF Carries, Busy
<1>5. n \notin fresh /\ minted[n] = 0 /\ \A c \in codes : c.login # n
  BY <1>1 DEF TokenInv
<1>6. \A q \in Slots : ~Carries(q, n)
  BY <1>1 DEF TokenInv
<1> HIDE DEF Carries
<1>7. \A m \in fresh' \union states' :
        /\ minted'[m] = 0
        /\ \A c \in codes' : c.login # m
        /\ \A q \in Slots : ~Carries(q, m)'
  BY <1>1, <1>4, <1>5 DEF TokenInv
<1>8. \A q \in Slots, m \in Logins : Carries(q, m)' =>
        /\ minted'[m] = 0
        /\ \A c \in codes' : c.login # m
        /\ \A p \in Slots \ {q} : ~Carries(p, m)'
  BY <1>1, <1>4, <1>5, <1>6 DEF TokenInv
<1> QED
  BY <1>1, <1>7, <1>8 DEF TokenInv, OneTokenPerLogin

LEMMA TokenStore ==
    ASSUME TypeOK, TokenInv, NEW r \in Slots, StoreCode(r),
           \A q \in Slots : \A m : Carries(q, m)' => Carries(q, m)
    PROVE  TokenInv'
<1>0. PICK l : l = request[r].login
  OBVIOUS
<1> DEFINE new == [login |-> l, user |-> request[r].user]
<1>1. /\ codes' = codes \union {new}
      /\ UNCHANGED <<fresh, states, minted>>
      /\ Carries(r, l) /\ l \in Logins
  BY <1>0, CallbackFields DEF StoreCode, history, Carries
<1>2. new.login = l
  OBVIOUS
<1>3. \A q \in Slots : ~Carries(q, l)'
  <2>1. ~Carries(r, l)'
    BY DoneNothing DEF StoreCode, Carries, Busy, Nothing
  <2> QED
    BY <1>1, <2>1 DEF TokenInv
<1>4. minted[l] = 0 /\ l \notin fresh \union states /\ \A c \in codes : c.login # l
  BY <1>1 DEF TokenInv
<1> HIDE DEF new
<1>5. \A c \in codes' : c \in codes \/ c = new
  BY <1>1
<1>6. \A m \in fresh' \union states' :
        /\ minted'[m] = 0
        /\ \A c \in codes' : c.login # m
        /\ \A q \in Slots : ~Carries(q, m)'
  BY <1>1, <1>2, <1>4, <1>5 DEF TokenInv
<1>7. \A q \in Slots, m \in Logins : Carries(q, m)' =>
        /\ minted'[m] = 0
        /\ \A c \in codes' : c.login # m
        /\ \A p \in Slots \ {q} : ~Carries(p, m)'
  BY <1>1, <1>2, <1>3, <1>5 DEF TokenInv
<1>8. \A c \in codes' : minted'[c.login] = 0 /\ \A d \in codes' : d.login = c.login => d = c
  BY <1>1, <1>2, <1>4, <1>5 DEF TokenInv
<1> QED
  BY <1>1, <1>6, <1>7, <1>8 DEF TokenInv, OneTokenPerLogin

LEMMA TokenExchange ==
    ASSUME TypeOK, TokenInv, NEW c \in codes, Exchange(c),
           \A q \in Slots : \A m : Carries(q, m)' => Carries(q, m)
    PROVE  TokenInv'
<1>1. /\ codes' = codes \ {c} /\ UNCHANGED <<fresh, states>>
      /\ minted' = [minted EXCEPT ![c.login] = @ + 1]
  BY DEF Exchange, database
<1>2. c.login \in Logins /\ minted \in [Logins -> Nat] /\ codes \subseteq Code
      /\ fresh \subseteq Logins /\ states \subseteq Logins
  BY DEF TypeOK, StoredOK, HistoryOK, Code
<1>3. /\ minted[c.login] = 0 /\ c.login \notin fresh \union states
      /\ \A d \in codes : d.login = c.login => d = c
      /\ \A q \in Slots : ~Carries(q, c.login)
  BY <1>2 DEF TokenInv
<1>4. /\ \A n \in Logins \ {c.login} : minted'[n] = minted[n]
      /\ minted'[c.login] = 1
  BY <1>1, <1>2, <1>3
<1>5. \A d \in codes' : d \in codes /\ d.login # c.login /\ d.login \in Logins
  BY <1>1, <1>2, <1>3 DEF Code
<1>6. \A m \in fresh' \union states' :
        /\ minted'[m] = 0
        /\ \A d \in codes' : d.login # m
        /\ \A q \in Slots : ~Carries(q, m)'
  BY <1>1, <1>2, <1>3, <1>4, <1>5 DEF TokenInv
<1>7. \A q \in Slots, m \in Logins : Carries(q, m)' =>
        /\ minted'[m] = 0
        /\ \A d \in codes' : d.login # m
        /\ \A p \in Slots \ {q} : ~Carries(p, m)'
  BY <1>1, <1>3, <1>4, <1>5 DEF TokenInv
<1>8. \A d \in codes' : minted'[d.login] = 0 /\ \A e \in codes' : e.login = d.login => e = d
  BY <1>4, <1>5 DEF TokenInv
<1>9. OneTokenPerLogin'
  BY <1>2, <1>4 DEF TokenInv, OneTokenPerLogin
<1> QED
  BY <1>1, <1>6, <1>7, <1>8, <1>9 DEF TokenInv

LEMMA TokenStep == TypeOK /\ TokenInv /\ Action => TokenInv'
<1> SUFFICES ASSUME TypeOK, TokenInv, Action PROVE TokenInv'
  OBVIOUS
<1>1. Moves /\ Tables
  BY ActionMoves, ActionTables
<1>2. CASE \E r \in Slots, n \in Logins, i \in Identities : CallbackStart(r, n, i)
  BY <1>2, TokenStart
<1>3. CASE ~\E r \in Slots, n \in Logins, i \in Identities : CallbackStart(r, n, i)
  <2>1. \A q \in Slots : \A m : Carries(q, m)' => Carries(q, m)
    BY <1>1, <1>3, CarriesKept
  <2>2. CASE UNCHANGED <<fresh, states, codes, minted>>
    BY <2>1, <2>2 DEF TokenInv, OneTokenPerLogin
  <2>3. ASSUME NEW n \in Logins, Login(n) PROVE TokenInv'
    BY <2>1, <2>3 DEF Login, history, TokenInv, OneTokenPerLogin
  <2>4. CASE Expire
    BY <2>1, <2>4 DEF Expire, history, TokenInv, OneTokenPerLogin
  <2> QED
    BY <1>1, <1>3, <2>1, <2>2, <2>3, <2>4, TokenStore, TokenExchange DEF Tables
<1> QED
  BY <1>2, <1>3

LEMMA TokenInit == Init => TokenInv
  BY DEF Init, TokenInv, Carries, Busy, Nothing, OneTokenPerLogin

(* A sign-in begun once yields one session at most: a token is a state, a    *)
(* callback, a code or a session, never two of them.                         *)
THEOREM OneToken == Spec => []OneTokenPerLogin
<1>1. TypeOK /\ TokenInv /\ [Next]_vars => TokenInv'
  <2>1. TokenInv /\ UNCHANGED vars => TokenInv'
    BY DEF vars, redis, history, TokenInv, Carries, Busy, OneTokenPerLogin
  <2> QED
    BY <2>1, TokenStep DEF Next, Action
<1>2. TokenInv => OneTokenPerLogin
  BY DEF TokenInv
<1> QED
  BY <1>1, <1>2, TokenInit, TypeCorrect, PTL DEF Spec

-----------------------------------------------------------------------------
(* The waitlist gate and the emails. *)

(* An address is approved, or about to be a user's, only after an approval.  *)
ApprovedInv ==
    /\ ApprovedOnly
    /\ \A e \in Emails : waitlist[e] = "approved" => e \in welcomed
    /\ \A q \in Slots : Busy(q, "callback") /\ At(q, "create") =>
         EmailOf[request[q].identity] \in welcomed
    /\ \A q \in Slots : Busy(q, "resend") => request[q].email \in welcomed

LEMMA WelcomedGrows == Tables => welcomed \subseteq welcomed'
  BY DEF Tables, RequestAccess, ApproveCommit, RejectCommit, history

LEMMA ApprovedStep == TypeOK /\ ApprovedInv /\ Action => ApprovedInv'
<1> SUFFICES ASSUME TypeOK, ApprovedInv, Action PROVE ApprovedInv'
  OBVIOUS
<1>1. Moves /\ Tables /\ welcomed \subseteq welcomed'
  BY ActionMoves, ActionTables, WelcomedGrows
<1>2. request \in [Slots -> Request] /\ waitlist \in [Emails -> Status] /\ users \subseteq User
  BY DEF TypeOK, StoredOK
<1>3. ApprovedOnly'
  <2>1. CASE users' = users
    BY <1>1, <2>1 DEF ApprovedInv, ApprovedOnly
  <2>2. ASSUME NEW r \in Slots, SignUp(r) PROVE ApprovedOnly'
    <3>1. /\ users' = users \union
               {[id |-> nextUser, email |-> EmailOf[request[r].identity], active |-> TRUE]}
          /\ EmailOf[request[r].identity] \in welcomed
      BY <2>2 DEF SignUp, NewId, ApprovedInv
    <3> QED
      BY <1>1, <3>1 DEF ApprovedInv, ApprovedOnly
  <2>3. ASSUME NEW r \in Slots, DeletionCommit(r) PROVE ApprovedOnly'
    BY <1>1, <2>3 DEF DeletionCommit, ApprovedInv, ApprovedOnly
  <2>4. ASSUME NEW u \in users, NEW active \in BOOLEAN, SetActive(u, active) PROVE ApprovedOnly'
    <3>1. [u EXCEPT !.active = active].email = u.email
      BY <1>2 DEF User
    <3> QED
      BY <1>1, <2>4, <3>1 DEF SetActive, ApprovedInv, ApprovedOnly
  <2> QED
    BY <1>1, <2>1, <2>2, <2>3, <2>4 DEF Tables
<1>4. \A e \in Emails : waitlist'[e] = "approved" => e \in welcomed'
  <2>1. CASE UNCHANGED <<waitlist, welcomed>>
    BY <2>1 DEF ApprovedInv
  <2>2. ASSUME NEW e \in Emails, RequestAccess(e)
        PROVE  \A x \in Emails : waitlist'[x] = "approved" => x \in welcomed'
    BY <1>1, <1>2, <2>2 DEF RequestAccess, ApprovedInv
  <2>3. ASSUME NEW r \in Slots, ApproveCommit(r)
        PROVE  \A x \in Emails : waitlist'[x] = "approved" => x \in welcomed'
    BY <1>1, <1>2, <2>3 DEF ApproveCommit, Decide, ApprovedInv
  <2>4. ASSUME NEW r \in Slots, RejectCommit(r)
        PROVE  \A x \in Emails : waitlist'[x] = "approved" => x \in welcomed'
    BY <1>1, <1>2, <2>4 DEF RejectCommit, Decide, ApprovedInv
  <2> QED
    BY <1>1, <2>1, <2>2, <2>3, <2>4 DEF Tables
<1>5. ASSUME NEW q \in Slots, request'[q].kind = "callback", request'[q].pc = "create"
      PROVE  EmailOf[request'[q].identity] \in welcomed'
  <2>1. CASE request'[q] = request[q]
    BY <1>1, <1>5, <2>1 DEF ApprovedInv, Busy, At
  <2>2. ASSUME NEW n \in Logins, NEW i \in Identities, CallbackStart(q, n, i) PROVE FALSE
    BY <1>5, <2>2, StepReads DEF CallbackStart
  <2>3. CASE /\ Busy(q, "callback") /\ request'[q].login = request[q].login
             /\ Approved(EmailOf[request'[q].identity])
    <3>1. request' \in [Slots -> Request]
      BY RequestStep DEF Action
    <3>2. request'[q].identity \in Identities
      <4>1. request'[q] \in Callback
        BY <1>5, <3>1, Kinds
      <4> QED
        BY <4>1 DEF Callback
    <3>3. EmailOf[request'[q].identity] \in Emails
      BY <3>2, AccountsAssumption
    <3> QED
      BY <1>1, <2>3, <3>3 DEF Approved, ApprovedInv
  <2> QED
    BY <1>1, <1>5, <2>1, <2>2, <2>3 DEF Moves, CallbackMove
<1>6. ASSUME NEW q \in Slots, request'[q].kind = "resend"
      PROVE  request'[q].email \in welcomed'
  BY <1>1, <1>6 DEF Moves, DecisionMove, ApprovedInv, Approved, Busy
<1> QED
  BY <1>3, <1>4, <1>5, <1>6 DEF ApprovedInv, Busy, At

LEMMA ApprovedInit == Init => ApprovedInv
  BY DEF Init, ApprovedInv, ApprovedOnly, Busy, Nothing

LEMMA ApprovedInvariant == Spec => []ApprovedInv
<1>1. TypeOK /\ ApprovedInv /\ [Next]_vars => ApprovedInv'
  <2>1. ApprovedInv /\ UNCHANGED vars => ApprovedInv'
    BY DEF vars, database, history, ApprovedInv, ApprovedOnly, Busy, At
  <2> QED
    BY <2>1, ApprovedStep DEF Next, Action
<1> QED
  BY <1>1, ApprovedInit, TypeCorrect, PTL DEF Spec

(* Nobody has an account whose address an admin never approved, whatever is  *)
(* decided or deleted between the gate's reading and the sign-up's commit.   *)
THEOREM SignUpsApproved == Spec => []ApprovedOnly
<1>1. ApprovedInv => ApprovedOnly
  BY DEF ApprovedInv
<1> QED
  BY <1>1, ApprovedInvariant, PTL

LEMMA InvitationsStep == TypeOK /\ ApprovedInv /\ InvitationsExplained /\ Action => InvitationsExplained'
<1> SUFFICES ASSUME TypeOK, ApprovedInv, InvitationsExplained, Action,
                    NEW e \in invited'
             PROVE  \/ e \in welcomed' \union unkept'
                    \/ \E r \in Slots : /\ request'[r].kind = "approve"
                                        /\ request'[r].pc = "commit"
                                        /\ request'[r].email = e
  BY DEF InvitationsExplained, Busy, At
<1>1. Moves /\ Tables /\ welcomed \subseteq welcomed'
  BY ActionMoves, ActionTables, WelcomedGrows
<1>2. unkept \subseteq unkept'
  BY <1>1 DEF Tables, RequestFails
<1>3. CASE e \in invited
  <2>1. CASE e \in welcomed \union unkept
    BY <1>1, <1>2, <2>1
  <2>2. ASSUME NEW r \in Slots, Busy(r, "approve"), At(r, "commit"), request[r].email = e
        PROVE  \/ e \in welcomed' \union unkept'
               \/ \E q \in Slots : /\ request'[q].kind = "approve"
                                   /\ request'[q].pc = "commit"
                                   /\ request'[q].email = e
    <3>1. CASE request'[r] = request[r]
      BY <2>2, <3>1 DEF Busy, At
    <3>2. CASE ApproveCommit(r)
      BY <2>2, <3>2 DEF ApproveCommit
    <3>3. CASE RequestFails(r)
      BY <2>2, <3>3 DEF RequestFails
    <3> QED
      BY <1>1, <2>2, <3>1, <3>2, <3>3 DEF Moves, DecisionMove
  <2> QED
    BY <1>3, <2>1, <2>2 DEF InvitationsExplained
<1>4. CASE e \notin invited
  <2>1. PICK r \in Slots : SendApprovalEmail(r)
    BY <1>1, <1>4 DEF Tables
  <2>2. /\ request[r].kind \in {"approve", "resend"} /\ Goto(r, "commit")
        /\ e = request[r].email
    BY <1>4, <2>1 DEF SendApprovalEmail
  <2>3. /\ request'[r].kind = request[r].kind /\ request'[r].email = e
        /\ request'[r].pc = "commit"
    BY <2>2, DecisionStep
  <2> QED
    BY <1>1, <2>2, <2>3 DEF ApprovedInv, Busy
<1> QED
  BY <1>3, <1>4

(* An approval email goes only to an address approved at some time, or whose *)
(* approval was lost after the email was sent, or is about to be committed:  *)
(* a resend's, in particular, never goes to an address nobody approved.      *)
THEOREM Invitations == Spec => []InvitationsExplained
<1>1. Init => InvitationsExplained
  BY DEF Init, InvitationsExplained
<1>2. TypeOK /\ ApprovedInv /\ InvitationsExplained /\ [Next]_vars => InvitationsExplained'
  <2>1. InvitationsExplained /\ UNCHANGED vars => InvitationsExplained'
    BY DEF vars, history, InvitationsExplained, Busy, At
  <2> QED
    BY <2>1, InvitationsStep DEF Next, Action
<1> QED
  BY <1>1, <1>2, ApprovedInvariant, TypeCorrect, PTL DEF Spec

-----------------------------------------------------------------------------
(* The kill switch. *)

(* Whoever a callback is going to sign in was active when it found them.     *)
SeenInv ==
    \A q \in Slots : Busy(q, "callback") /\ request[q].pc \in {"refresh", "link", "code"} =>
        request[q].user \in seen[q]

LEMMA SeenStep == TypeOK /\ SeenInv /\ Next => SeenInv'
<1> SUFFICES ASSUME TypeOK, SeenInv, Next,
                    NEW q \in Slots, request'[q].kind = "callback",
                    request'[q].pc \in {"refresh", "link", "code"}
             PROVE  request'[q].user \in seen'[q]
  BY DEF SeenInv, Busy
<1>1. Moves
  BY ActionMoves DEF Next, Action
<1>2. seen'[q] = seen[q] \union ActiveIds'
  BY DEF Next, Witness
<1>3. CASE request'[q] = request[q]
  BY <1>2, <1>3 DEF SeenInv, Busy
<1>4. ASSUME NEW n \in Logins, NEW i \in Identities, CallbackStart(q, n, i) PROVE FALSE
  BY <1>4, StepReads DEF CallbackStart
<1>5. CASE /\ Busy(q, "callback")
           /\ \/ request'[q].user \in ActiveIds'
              \/ /\ request[q].pc \in {"refresh", "link"}
                 /\ request'[q].user = request[q].user
  BY <1>2, <1>5 DEF SeenInv
<1> QED
  BY <1>1, <1>3, <1>4, <1>5 DEF Moves, CallbackMove

(* A callback that ends in a code belongs to a user who was active at some   *)
(* moment since the callback began.                                          *)
THEOREM KillSwitchHolds == Spec => []KillSwitch
<1>1. Init => SeenInv
  BY DEF Init, SeenInv, Busy, Nothing
<1>2. TypeOK /\ SeenInv /\ [Next]_vars => SeenInv'
  <2>1. SeenInv /\ UNCHANGED vars => SeenInv'
    BY DEF vars, SeenInv, Busy
  <2> QED
    BY <2>1, SeenStep
<1>3. SeenInv => KillSwitch
  BY DEF SeenInv, KillSwitch, At
<1> QED
  BY <1>1, <1>2, <1>3, TypeCorrect, PTL DEF Spec

-----------------------------------------------------------------------------
(* Deletion, and the last linked account. *)

(* An insert under way belongs to a user, or to one deleted meanwhile.       *)
RowsInv ==
    /\ LeftoversExplained
    /\ \A q \in Slots : Busy(q, "insert") => request[q].user \in UserIds \union overtaken

(* A disconnect that goes on has counted more than one account.              *)
CountInv ==
    \A q \in Slots : Busy(q, "disconnect") /\ At(q, "delete") => request[q].count > 1

LEMMA RowsStep == TypeOK /\ RowsInv /\ Action => RowsInv'
<1> SUFFICES ASSUME TypeOK, RowsInv, Action PROVE RowsInv'
  OBVIOUS
<1>1. Moves /\ Tables
  BY ActionMoves, ActionTables
<1>2. request \in [Slots -> Request] /\ users \subseteq User /\ rows \subseteq Ids \X Items
  BY DEF TypeOK, StoredOK
<1>3. ASSUME NEW r \in Slots, DeletionCommit(r) PROVE RowsInv'
  <2> DEFINE u == request[r].user
  <2>1. /\ users' = {x \in users : x.id # u}
        /\ rows' = rows \ ({u} \X request[r].purged)
        /\ overtaken \subseteq overtaken'
        /\ (\E q \in Slots : Busy(q, "insert") /\ request[q].user = u) => u \in overtaken'
        /\ RowsOf(u) \ request[r].purged # {} => u \in overtaken'
        /\ Done(r)
    BY <1>3 DEF DeletionCommit
  <2>2. PICK gone : gone = u
    OBVIOUS
  <2>3. UserIds' = UserIds \ {gone}
    BY <2>1, <2>2 DEF UserIds
  <2>4. ASSUME NEW row \in rows', row[1] = gone PROVE gone \in overtaken'
    <3>1. row \in rows /\ row = <<row[1], row[2]>> /\ row[2] \in Items
      BY <1>2, <2>1, <2>4
    <3>2. row[2] \in RowsOf(u) \ request[r].purged
      BY <2>1, <2>2, <2>4, <3>1 DEF RowsOf
    <3> QED
      BY <2>1, <2>2, <3>2
  <2>5. LeftoversExplained'
    BY <2>1, <2>3, <2>4 DEF RowsInv, LeftoversExplained
  <2>6. ASSUME NEW q \in Slots, request'[q].kind = "insert"
        PROVE  request'[q].user \in UserIds' \union overtaken'
    <3>1. q # r
      BY <2>1, <2>6, DoneNothing DEF Nothing
    <3>2. request'[q] = request[q]
      BY <2>1, <3>1, OthersStay
    <3> QED
      BY <2>1, <2>2, <2>3, <2>6, <3>2 DEF RowsInv, Busy
  <2> QED
    BY <2>5, <2>6 DEF RowsInv, Busy
<1>4. CASE ~\E r \in Slots : DeletionCommit(r)
  <2>1. overtaken' = overtaken
    BY <1>1, <1>4 DEF Tables, InsertRow, history
  <2>2. UserIds \subseteq UserIds'
    <3>1. CASE users' = users
      BY <3>1 DEF UserIds
    <3>2. ASSUME NEW r \in Slots, SignUp(r) PROVE UserIds \subseteq UserIds'
      BY <3>2 DEF SignUp, UserIds
    <3>3. ASSUME NEW u \in users, NEW active \in BOOLEAN, SetActive(u, active)
          PROVE  UserIds \subseteq UserIds'
      <4> DEFINE v == [u EXCEPT !.active = active]
      <4>1. v.id = u.id
        BY <1>2 DEF User
      <4>2. users' = (users \ {u}) \union {v}
        BY <3>3 DEF SetActive
      <4> HIDE DEF v
      <4> QED
        BY <4>1, <4>2 DEF UserIds
    <3> QED
      BY <1>1, <1>4, <3>1, <3>2, <3>3 DEF Tables
  <2>3. LeftoversExplained'
    <3>1. CASE rows' = rows
      BY <2>1, <2>2, <3>1 DEF RowsInv, LeftoversExplained
    <3>2. ASSUME NEW r \in Slots, InsertRow(r) PROVE LeftoversExplained'
      <4>1. /\ rows' = rows \union {<<request[r].user, request[r].item>>}
            /\ request[r].user \in UserIds \union overtaken
        BY <3>2 DEF InsertRow, RowsInv
      <4> QED
        BY <2>1, <2>2, <4>1 DEF RowsInv, LeftoversExplained
    <3> QED
      BY <1>1, <1>4, <3>1, <3>2 DEF Tables
  <2>4. ASSUME NEW q \in Slots, request'[q].kind = "insert"
        PROVE  request'[q].user \in UserIds' \union overtaken'
    BY <1>1, <2>1, <2>2, <2>4 DEF Moves, UserMove, RowsInv, Busy
  <2> QED
    BY <2>3, <2>4 DEF RowsInv, Busy
<1> QED
  BY <1>3, <1>4

(* Deleting a user leaves rows behind only if another request of theirs was  *)
(* committed while the deletion was under way, or after it.                  *)
THEOREM LeftoversHold == Spec => []LeftoversExplained
<1>1. Init => RowsInv
  BY DEF Init, RowsInv, LeftoversExplained, Busy, Nothing
<1>2. TypeOK /\ RowsInv /\ [Next]_vars => RowsInv'
  <2>1. RowsInv /\ UNCHANGED vars => RowsInv'
    BY DEF vars, database, history, RowsInv, LeftoversExplained, UserIds, Busy
  <2> QED
    BY <2>1, RowsStep DEF Next, Action
<1>3. RowsInv => LeftoversExplained
  BY DEF RowsInv
<1> QED
  BY <1>1, <1>2, <1>3, TypeCorrect, PTL DEF Spec

LEMMA CountInvariant == Spec => []CountInv
<1>1. Init => CountInv
  BY DEF Init, CountInv, Busy, Nothing
<1>2. TypeOK /\ CountInv /\ [Next]_vars => CountInv'
  <2>1. CountInv /\ UNCHANGED vars => CountInv'
    BY DEF vars, CountInv, Busy, At
  <2>2. CountInv /\ Moves => CountInv'
    BY DEF Moves, UserMove, CountInv, Busy, At
  <2> QED
    BY <2>1, <2>2, ActionMoves DEF Next, Action
<1> QED
  BY <1>1, <1>2, TypeCorrect, PTL DEF Spec

(* A step that empties the linked accounts of a user who stays is a          *)
(* disconnect that acts on a stale count, or that removes two accounts.      *)
LEMMA LastAccountStep ==
    ASSUME CountInv, Tables, NEW u \in UserIds,
           AccountsOf(u) # {}, AccountsOf(u)' = {}, u \in UserIds'
    PROVE  \E r \in Slots :
              /\ Busy(r, "disconnect") /\ At(r, "delete") /\ request[r].user = u
              /\ \/ request[r].count # Cardinality(AccountsOf(u))
                 \/ Cardinality(Disconnected(r)) > 1
<1>1. PICK a \in accounts : a.user = u /\ a \notin accounts'
  BY DEF AccountsOf
<1>2. CASE \E r \in Slots : LinkAccount(r) \/ SignUp(r)
  BY <1>1, <1>2 DEF LinkAccount, SignUp
<1>3. ASSUME NEW r \in Slots, DeletionCommit(r) PROVE FALSE
  <2>1. accounts' = accounts \ AccountsOf(request[r].user)
    BY <1>3 DEF DeletionCommit
  <2>2. u = request[r].user
    BY <1>1, <2>1 DEF AccountsOf
  <2> QED
    BY <1>3, <2>2 DEF DeletionCommit, UserIds
<1>4. ASSUME NEW r \in Slots, DisconnectDelete(r)
      PROVE  /\ Busy(r, "disconnect") /\ At(r, "delete") /\ request[r].user = u
             /\ \/ request[r].count # Cardinality(AccountsOf(u))
                \/ Cardinality(Disconnected(r)) > 1
  <2>1. /\ accounts' = accounts \ Disconnected(r)
        /\ Busy(r, "disconnect") /\ At(r, "delete")
    BY <1>4 DEF DisconnectDelete
  <2>2. request[r].user = u
    BY <1>1, <2>1 DEF Disconnected, AccountsOf
  <2>3. AccountsOf(u) \subseteq Disconnected(r)
    BY <2>1 DEF AccountsOf
  <2>4. Disconnected(r) = AccountsOf(u)
    BY <2>2, <2>3 DEF Disconnected
  <2> QED
    BY <2>1, <2>2, <2>4 DEF CountInv
<1> QED
  BY <1>1, <1>2, <1>3, <1>4 DEF Tables

(* A user loses the last linked account in no other way.                     *)
THEOREM LastAccountHolds == Spec => LastAccountExplained
<1> DEFINE Explained ==
      \A u \in UserIds :
         AccountsOf(u) # {} /\ AccountsOf(u)' = {} /\ u \in UserIds' =>
            \E r \in Slots :
                /\ Busy(r, "disconnect") /\ At(r, "delete") /\ request[r].user = u
                /\ \/ request[r].count # Cardinality(AccountsOf(u))
                   \/ Cardinality(Disconnected(r)) > 1
<1>1. CountInv /\ [Next]_vars => [Explained]_vars
  <2>1. CountInv /\ Tables => Explained
    BY LastAccountStep
  <2> QED
    BY <2>1, ActionTables DEF Next, Action
<1> QED
  BY <1>1, CountInvariant, PTL DEF Spec, LastAccountExplained
=============================================================================
