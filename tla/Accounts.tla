------------------------------ MODULE Accounts ------------------------------
(***************************************************************************)
(* Who may use the web app: sign-in at an OAuth provider with its state    *)
(* and exchange codes, the waitlist gate, linked provider accounts,        *)
(* deactivation and permanent deletion, under concurrent requests.         *)
(* A request is a transaction that reads, at the moment of each query,     *)
(* what the others have committed, and whose writes all appear at its      *)
(* commit; the unique and foreign keys are checked there.                  *)
(***************************************************************************)
EXTENDS Naturals, FiniteSets

CONSTANTS
    Identities,   \* accounts people have at the providers (provider_user_id)
    Providers,
    ProviderOf,   \* the provider of each identity
    Emails,
    EmailOf,      \* the verified address the provider gives for an identity
    Logins,       \* the random tokens: each names a state and its exchange code
    Items,        \* what the rows keyed by "user:<id>" are about: skus, stores
    Slots,        \* requests the backend may have under way at a time
    MaxUsers      \* bound: users ever created

ASSUME AccountsAssumption ==
    /\ ProviderOf \in [Identities -> Providers]
    /\ EmailOf \in [Identities -> Emails]
    /\ MaxUsers \in Nat

Ids == 1..MaxUsers
NoUser == 0

VARIABLES
    \* the database
    users,        \* rows of the table
    nextUser,     \* the next id of its sequence
    accounts,     \* rows of oauth_accounts
    waitlist,     \* the status of each address, "none" without a row
    rows,         \* watches, preferences, tasting notes: no foreign key to users
    \* Redis
    states, codes,
    request,      \* requests under way
    tokens,       \* users whose browsers hold a JWT
    invited,      \* addresses an approval email was sent to
    \* history, read by no action
    fresh,        \* tokens not generated yet
    minted,       \* how many JWTs were handed out for a login
    welcomed,     \* addresses that were approved at some time
    unkept,       \* addresses whose approval was lost after its email was sent
    overtaken,    \* users deleted while another request of theirs was under way
    seen          \* per callback, the users active at some time since it began

database == <<users, nextUser, accounts, waitlist, rows>>
redis == <<states, codes>>
history == <<minted, welcomed, unkept, overtaken>>
vars == <<database, redis, request, tokens, invited, fresh, history, seen>>

User == [id: Ids, email: Emails, active: BOOLEAN]
Account == [identity: Identities, user: Ids]
Status == {"none", "pending", "approved", "rejected"}
Code == [login: Logins, user: Ids]

Nothing == [kind |-> "none"]
Callback ==
    [kind: {"callback"}, pc: {"account", "email", "waitlist", "create"},
     login: Logins, identity: Identities, user: {NoUser}]
    \union
    [kind: {"callback"}, pc: {"known", "refresh", "link", "code"},
     login: Logins, identity: Identities, user: Ids]
Disconnect == [kind: {"disconnect"}, pc: {"count", "delete"}, user: Ids,
               provider: Providers, count: Nat]
Insert == [kind: {"insert"}, user: Ids, item: Items]
Deletion == [kind: {"delete"}, pc: {"rows", "user"}, user: Ids, purged: SUBSET Items]
Decision == [kind: {"approve", "reject", "resend"}, pc: {"update", "email", "commit"},
             email: Emails, loaded: Status \ {"none"}]

Request == {Nothing} \union Callback \union Disconnect \union Insert \union Deletion
             \union Decision

StoredOK ==
    /\ users \subseteq User
    /\ nextUser \in 1..MaxUsers + 1
    /\ accounts \subseteq Account /\ IsFiniteSet(accounts)
    /\ waitlist \in [Emails -> Status]
    /\ rows \subseteq Ids \X Items
    /\ states \subseteq Logins
    /\ codes \subseteq Code
    /\ tokens \subseteq Ids
    /\ invited \subseteq Emails
    /\ fresh \subseteq Logins

HistoryOK ==
    /\ minted \in [Logins -> Nat]
    /\ {welcomed, unkept} \subseteq SUBSET Emails
    /\ overtaken \subseteq Ids

TypeOK ==
    /\ StoredOK /\ HistoryOK
    /\ request \in [Slots -> Request]
    /\ seen \in [Slots -> SUBSET Ids]

Init ==
    /\ users = {} /\ nextUser = 1 /\ accounts = {} /\ rows = {}
    /\ waitlist = [e \in Emails |-> "none"]
    /\ states = {} /\ codes = {}
    /\ request = [r \in Slots |-> Nothing] /\ tokens = {} /\ invited = {}
    /\ fresh = Logins
    /\ minted = [n \in Logins |-> 0] /\ welcomed = {} /\ unkept = {}
    /\ overtaken = {}
    /\ seen = [r \in Slots |-> {}]

-----------------------------------------------------------------------------
UserIds == {u.id : u \in users}
ActiveIds == {u.id : u \in {x \in users : x.active}}
WithEmail(e) == {u \in users : u.email = e}
AccountsOf(u) == {a \in accounts : a.user = u}
Linked(i) == {a \in accounts : a.identity = i}

Busy(r, kind) == request[r].kind = kind
At(r, pc) == request[r].pc = pc

Step(r, new) == request' = [request EXCEPT ![r] = new]
Goto(r, pc) == Step(r, [request[r] EXCEPT !.pc = pc])
Done(r) == Step(r, Nothing)

(* Any request may end early: an error at the provider, in the database or  *)
(* in Redis, a broken key at the commit, a restart. Nothing is written; the  *)
(* email of an approval may be out already.                                  *)
RequestFails(r) ==
    /\ ~Busy(r, "none")
    /\ unkept' = IF Busy(r, "approve") /\ At(r, "commit")
                 THEN unkept \union {request[r].email} ELSE unkept
    /\ Done(r)
    /\ UNCHANGED <<database, redis, tokens, invited, fresh, minted, welcomed, overtaken>>

(* Mutant: resend does not look at the status either. *)
DecideAnything(kind, status) == TRUE

MayDecide(kind, status) == kind = "resend" => status = "approved"

-----------------------------------------------------------------------------
(* The waitlist. *)

RequestAccess(e) ==
    /\ waitlist[e] = "none"
    /\ waitlist' = [waitlist EXCEPT ![e] = "pending"]
    /\ UNCHANGED <<users, nextUser, accounts, rows, redis, tokens, invited, fresh,
                   history, request>>

(* An admin's request: the row is read. Neither approve nor reject looks at   *)
(* the status it is going to replace; resend does. *)
DecisionStart(r, kind, e) ==
    /\ Busy(r, "none")
    /\ waitlist[e] # "none"
    /\ MayDecide(kind, waitlist[e])
    /\ Step(r, [kind |-> kind, pc |-> IF kind = "resend" THEN "email" ELSE "update",
                email |-> e, loaded |-> waitlist[e]])
    /\ UNCHANGED <<database, redis, tokens, invited, fresh, history>>

(* An approval keeps the row locked from its update to its commit. *)
Locked(e) ==
    \E q \in Slots : /\ request[q].kind = "approve" /\ request[q].email = e
                    /\ request[q].pc # "update"

ApproveUpdate(r) ==
    /\ Busy(r, "approve") /\ At(r, "update")
    /\ ~Locked(request[r].email)
    /\ Goto(r, "email")
    /\ UNCHANGED <<database, redis, tokens, invited, fresh, history>>

(* Sent before the commit; an error is swallowed by approve and ends resend,  *)
(* which is RequestFails. *)
SendApprovalEmail(r) ==
    /\ request[r].kind \in {"approve", "resend"} /\ At(r, "email")
    /\ \/ invited' = invited \union {request[r].email}
       \/ request[r].kind = "approve" /\ UNCHANGED invited
    /\ Goto(r, "commit")
    /\ UNCHANGED <<database, redis, tokens, fresh, history>>

(* The session writes a column only if it differs from what was read. *)
Decide(e, loaded, status) ==
    waitlist' = IF loaded = status THEN waitlist ELSE [waitlist EXCEPT ![e] = status]

ApproveCommit(r) ==
    /\ Busy(r, "approve") /\ At(r, "commit")
    /\ Decide(request[r].email, request[r].loaded, "approved")
    /\ welcomed' = welcomed \union {request[r].email}
    /\ Done(r)
    /\ UNCHANGED <<users, nextUser, accounts, rows, redis, tokens, invited, fresh,
                   minted, unkept, overtaken>>

ResendCommit(r) ==
    /\ Busy(r, "resend") /\ At(r, "commit")
    /\ Done(r)
    /\ UNCHANGED <<database, redis, tokens, invited, fresh, history>>

RejectCommit(r) ==
    LET e == request[r].email
    IN  /\ Busy(r, "reject")
        /\ ~Locked(e) \/ request[r].loaded = "rejected"
        /\ Decide(e, request[r].loaded, "rejected")
        /\ Done(r)
        /\ UNCHANGED <<users, nextUser, accounts, rows, redis, tokens, invited, fresh, history>>

-----------------------------------------------------------------------------
(* Signing in. *)

Login(n) ==
    /\ n \in fresh
    /\ fresh' = fresh \ {n}
    /\ states' = states \union {n}
    /\ UNCHANGED <<database, codes, tokens, invited, history, request>>

(* Redis forgets a key when its time is over. *)
Expire ==
    /\ \/ \E n \in states : states' = states \ {n} /\ codes' = codes
       \/ \E c \in codes : codes' = codes \ {c} /\ states' = states
    /\ UNCHANGED <<database, tokens, invited, fresh, history, request>>

(* Mutant: the state is looked up and left there. *)
ConsumeNothing(n) == states

ConsumeState(n) == states \ {n}

(* The provider sends the browser back; the state must be there and is used up. *)
CallbackStart(r, n, i) ==
    /\ Busy(r, "none")
    /\ n \in states
    /\ states' = ConsumeState(n)
    /\ Step(r, [kind |-> "callback", pc |-> "account", login |-> n, identity |-> i,
                user |-> NoUser])
    /\ UNCHANGED <<database, codes, tokens, invited, fresh, history>>

FindAccount(r) ==
    /\ Busy(r, "callback") /\ At(r, "account")
    /\ \/ /\ Linked(request[r].identity) = {}
          /\ Goto(r, "email")
       \/ \E a \in Linked(request[r].identity) :
             Step(r, [request[r] EXCEPT !.pc = "known", !.user = a.user])
    /\ UNCHANGED <<database, redis, tokens, invited, fresh, history>>

(* Mutant: the second sign-in path forgets the kill switch. *)
AnyoneMayEnter(u) == TRUE

MayEnter(u) == u.active

FindUser(r) ==
    /\ Busy(r, "callback") /\ At(r, "known")
    /\ IF request[r].user \in ActiveIds THEN Goto(r, "refresh") ELSE Done(r)
    /\ UNCHANGED <<database, redis, tokens, invited, fresh, history>>

FindEmail(r) ==
    LET found == WithEmail(EmailOf[request[r].identity])
    IN  /\ Busy(r, "callback") /\ At(r, "email")
        /\ \/ found = {} /\ Goto(r, "waitlist")
           \/ \E u \in found :
                IF MayEnter(u)
                THEN Step(r, [request[r] EXCEPT !.pc = "link", !.user = u.id])
                ELSE Done(r)
        /\ UNCHANGED <<database, redis, tokens, invited, fresh, history>>

(* Mutant: whoever is not rejected gets in. *)
NotRejected(e) == waitlist[e] # "rejected"

Approved(e) == waitlist[e] = "approved"

CheckWaitlist(r) ==
    /\ Busy(r, "callback") /\ At(r, "waitlist")
    /\ IF Approved(EmailOf[request[r].identity]) THEN Goto(r, "create") ELSE Done(r)
    /\ UNCHANGED <<database, redis, tokens, invited, fresh, history>>

(* Mutant: oauth_accounts.user_id is a plain column, like watches.user_id. *)
NoForeignKey(u) == TRUE

ForeignKey(u) == u \in UserIds

(* Mutant: the new row is not flushed, and has no id yet. *)
UnflushedId == NoUser

NewId == nextUser

(* The writes of create_oauth_session, committed before the code is stored.   *)
(* A user who is gone, an address or an identity that somebody else has       *)
(* committed meanwhile make the request fail.                                 *)
Refresh(r) ==
    /\ Busy(r, "callback") /\ At(r, "refresh")
    /\ request[r].user \in UserIds
    /\ Goto(r, "code")
    /\ UNCHANGED <<database, redis, tokens, invited, fresh, history>>

LinkAccount(r) ==
    LET i == request[r].identity
        u == request[r].user
    IN  /\ Busy(r, "callback") /\ At(r, "link")
        /\ ForeignKey(u)
        /\ Linked(i) = {}
        /\ accounts' = accounts \union {[identity |-> i, user |-> u]}
        /\ Goto(r, "code")
        /\ UNCHANGED <<users, nextUser, waitlist, rows, redis, tokens, invited, fresh, history>>

SignUp(r) ==
    LET i == request[r].identity
    IN  /\ Busy(r, "callback") /\ At(r, "create")
        /\ WithEmail(EmailOf[i]) = {} /\ Linked(i) = {}
        /\ nextUser \in Ids
        /\ users' = users \union {[id |-> NewId, email |-> EmailOf[i], active |-> TRUE]}
        /\ accounts' = accounts \union {[identity |-> i, user |-> NewId]}
        /\ nextUser' = nextUser + 1
        /\ Step(r, [request[r] EXCEPT !.pc = "code", !.user = NewId])
        /\ UNCHANGED <<waitlist, rows, redis, tokens, invited, fresh, history>>

StoreCode(r) ==
    /\ Busy(r, "callback") /\ At(r, "code")
    /\ codes' = codes \union {[login |-> request[r].login, user |-> request[r].user]}
    /\ Done(r)
    /\ UNCHANGED <<database, states, tokens, invited, fresh, history>>

Exchange(c) ==
    /\ c \in codes
    /\ codes' = codes \ {c}
    /\ tokens' = tokens \union {c.user}
    /\ minted' = [minted EXCEPT ![c.login] = @ + 1]
    /\ UNCHANGED <<database, states, invited, fresh, welcomed, unkept, overtaken, request>>

-----------------------------------------------------------------------------
(* Requests of a signed-in user. The guard of every route reads the user. *)

Begin(r, u, new) ==
    /\ Busy(r, "none")
    /\ u \in tokens \intersect ActiveIds
    /\ Step(r, new)
    /\ UNCHANGED <<database, redis, tokens, invited, fresh, history>>

DisconnectStart(r, u, p) ==
    Begin(r, u, [kind |-> "disconnect", pc |-> "count", user |-> u, provider |-> p, count |-> 0])

(* Mutant: off by one. *)
HasAny(n) == n >= 1

MayDisconnect(n) == n > 1

DisconnectCount(r) ==
    LET n == Cardinality(AccountsOf(request[r].user))
    IN  /\ Busy(r, "disconnect") /\ At(r, "count")
        /\ IF MayDisconnect(n)
           THEN Step(r, [request[r] EXCEPT !.pc = "delete", !.count = n])
           ELSE Done(r)
        /\ UNCHANGED <<database, redis, tokens, invited, fresh, history>>

(* All of the user's accounts at that provider. *)
Disconnected(r) ==
    {a \in AccountsOf(request[r].user) : ProviderOf[a.identity] = request[r].provider}

DisconnectDelete(r) ==
    /\ Busy(r, "disconnect") /\ At(r, "delete")
    /\ accounts' = accounts \ Disconnected(r)
    /\ Done(r)
    /\ UNCHANGED <<users, nextUser, waitlist, rows, redis, tokens, invited, fresh, history>>

InsertStart(r, u, item) ==
    Begin(r, u, [kind |-> "insert", user |-> u, item |-> item])

InsertRow(r) ==
    /\ Busy(r, "insert")
    /\ rows' = rows \union {<<request[r].user, request[r].item>>}
    /\ Done(r)
    /\ UNCHANGED <<users, nextUser, accounts, waitlist, redis, tokens, invited, fresh, history>>

(* By the user, or by an admin, who needs nothing of the user's. *)
DeletionStart(r, u) ==
    /\ Busy(r, "none")
    /\ u \in UserIds
    /\ Step(r, [kind |-> "delete", pc |-> "rows", user |-> u, purged |-> {}])
    /\ UNCHANGED <<database, redis, tokens, invited, fresh, history>>

(* Mutant: the tables without a foreign key are forgotten. *)
NoRows(u) == {}

RowsOf(u) == {item \in Items : <<u, item>> \in rows}

(* hard_delete's first statements see the rows committed by now. *)
DeletionRows(r) ==
    /\ Busy(r, "delete") /\ At(r, "rows")
    /\ Step(r, [request[r] EXCEPT !.pc = "user", !.purged = RowsOf(request[r].user)])
    /\ UNCHANGED <<database, redis, tokens, invited, fresh, history>>

(* Its last one deletes the user, and with it, by the key, the accounts. *)
DeletionCommit(r) ==
    LET u == request[r].user
    IN  /\ Busy(r, "delete") /\ At(r, "user")
        /\ users' = {x \in users : x.id # u}
        /\ accounts' = accounts \ AccountsOf(u)
        /\ rows' = rows \ ({u} \X request[r].purged)
        /\ overtaken' = IF \/ \E q \in Slots : Busy(q, "insert") /\ request[q].user = u
                           \/ RowsOf(u) \ request[r].purged # {}
                        THEN overtaken \union {u} ELSE overtaken
        /\ Done(r)
        /\ UNCHANGED <<nextUser, waitlist, redis, tokens, invited, fresh, minted, welcomed, unkept>>

(* By an admin. *)
SetActive(u, active) ==
    /\ users' = (users \ {u}) \union {[u EXCEPT !.active = active]}
    /\ UNCHANGED <<nextUser, accounts, waitlist, rows, redis, tokens, invited, fresh, history, request>>

-----------------------------------------------------------------------------
WaitlistStep ==
    \/ \E e \in Emails : RequestAccess(e)
    \/ \E r \in Slots, e \in Emails, kind \in {"approve", "reject", "resend"} :
         DecisionStart(r, kind, e)
    \/ \E r \in Slots : \/ ApproveUpdate(r) \/ SendApprovalEmail(r)
                        \/ ApproveCommit(r) \/ ResendCommit(r) \/ RejectCommit(r)

SignInStep ==
    \/ \E n \in Logins : Login(n)
    \/ Expire
    \/ \E r \in Slots, n \in Logins, i \in Identities : CallbackStart(r, n, i)
    \/ \E r \in Slots : \/ FindAccount(r) \/ FindUser(r) \/ FindEmail(r)
                        \/ CheckWaitlist(r) \/ Refresh(r) \/ LinkAccount(r)
                        \/ SignUp(r) \/ StoreCode(r)
    \/ \E c \in codes : Exchange(c)

UserStep ==
    \/ \E r \in Slots, u \in Ids :
         \/ \E p \in Providers : DisconnectStart(r, u, p)
         \/ \E item \in Items : InsertStart(r, u, item)
         \/ DeletionStart(r, u)
    \/ \E r \in Slots : \/ DisconnectCount(r) \/ DisconnectDelete(r) \/ InsertRow(r)
                        \/ DeletionRows(r) \/ DeletionCommit(r)
    \/ \E u \in users, active \in BOOLEAN : SetActive(u, active)

Witness ==
    seen' = [r \in Slots |-> IF request'[r].kind = "callback"
                             THEN seen[r] \union ActiveIds' ELSE {}]

Next ==
    /\ WaitlistStep \/ SignInStep \/ UserStep \/ \E r \in Slots : RequestFails(r)
    /\ Witness

Spec == Init /\ [][Next]_vars

-----------------------------------------------------------------------------
(* An identity signs in as one user, who exists and has the address the      *)
(* provider vouched for: linking by address, concurrent deletions and new    *)
(* users with the same address never give an identity to somebody else.      *)
AccountsOwned ==
    \A a \in accounts :
        /\ Linked(a.identity) = {a}
        /\ \E u \in users : u.id = a.user /\ u.email = EmailOf[a.identity]

(* A sign-in begun once yields one session at most, however often the        *)
(* browser repeats the callback or the exchange.                             *)
OneTokenPerLogin == \A n \in Logins : minted[n] <= 1

(* Nobody has an account, or a code for one, whose address was not approved  *)
(* by an admin at some time, whatever is rejected or deleted meanwhile.      *)
ApprovedOnly == \A u \in users : u.email \in welcomed

(* An approval email goes only to an address that was approved at some time, *)
(* or whose approval was lost between the email and the commit, or is about  *)
(* to be committed.                                                          *)
InvitationsExplained ==
    \A e \in invited : \/ e \in welcomed \union unkept
                      \/ \E r \in Slots : /\ Busy(r, "approve") /\ At(r, "commit")
                                         /\ request[r].email = e

(* The kill switch: a callback that ends in a code belongs to a user who was *)
(* active at some moment since it began.                                     *)
KillSwitch ==
    \A r \in Slots : Busy(r, "callback") /\ At(r, "code") => request[r].user \in seen[r]

(* Deleting a user leaves rows behind only if another request of theirs was  *)
(* committed while the deletion was under way, or after it.                  *)
LeftoversExplained ==
    \A row \in rows : row[1] \notin UserIds => row[1] \in overtaken

(* A user loses the last linked account when a disconnect acts on a stale    *)
(* count, or when the user has two accounts at that provider, and in no      *)
(* other way: api/users.py says "Cannot disconnect the last linked account". *)
LastAccountExplained ==
    [][\A u \in UserIds :
         AccountsOf(u) # {} /\ AccountsOf(u)' = {} /\ u \in UserIds' =>
            \E r \in Slots :
                /\ Busy(r, "disconnect") /\ At(r, "delete") /\ request[r].user = u
                /\ \/ request[r].count # Cardinality(AccountsOf(u))
                   \/ Cardinality(Disconnected(r)) > 1]_vars
=============================================================================
