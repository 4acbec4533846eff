------------------------------ MODULE BotGate ------------------------------
(***************************************************************************)
(* The two gates each update of one person passes before the bot handles   *)
(* it. The first asks the backend whether the Telegram account is linked   *)
(* to an active user, remembers a yes for a while, and lets everybody      *)
(* through when the backend does not answer. The second lets few updates   *)
(* a second through. The bot handles its updates one after the other.      *)
(***************************************************************************)
EXTENDS Naturals, Sequences, FiniteSets

CONSTANTS
    Ttl,          \* _AUTH_TTL_SECONDS
    Patience,     \* the client's timeout
    MaxCalls,     \* RATE_LIMIT_CALLS
    Window,       \* RATE_LIMIT_WINDOW
    MaxTime,      \* bound: the clock
    MaxUpdates    \* bound: updates

ASSUME BotGateAssumption ==
    {Ttl, Patience, MaxCalls, Window, MaxTime, MaxUpdates} \subseteq Nat \ {0}

VARIABLES
    now,
    active,       \* whether the account is linked to an active user
    authorized,   \* user_data: the last answer
    checkedAt,    \* and when it came
    calls,        \* the limiter's deque
    gate,         \* the update between the gates
    updates,
    \* history, read by no action
    lastActive,   \* when the account was last active
    handled       \* when updates were handled, and whether the backend had failed them

gateVars == <<now, active, authorized, checkedAt, calls, gate, updates, lastActive, handled>>

Times == 0..MaxTime
Gates == {<<"none">>} \union {<<"asking", t>> : t \in Times}
         \union {<<"answered", t, a>> : t \in Times, a \in BOOLEAN}

BotGateTypeOK ==
    /\ now \in Times /\ active \in BOOLEAN
    /\ authorized \in BOOLEAN /\ checkedAt \in Times
    /\ calls \in Seq(Times) /\ Len(calls) <= MaxCalls
    /\ gate \in Gates /\ updates \in 0..MaxUpdates
    /\ lastActive \in Times
    /\ \A i \in DOMAIN handled : handled[i] \in [at: Times, known: BOOLEAN, since: Times]

BotGateInit ==
    /\ now = 0 /\ active = TRUE /\ authorized = FALSE /\ checkedAt = 0
    /\ calls = <<>> /\ gate = <<"none">> /\ updates = 0
    /\ lastActive = 0 /\ handled = <<>>

-----------------------------------------------------------------------------
(* Time passes while the backend is asked, no longer than the client waits;   *)
(* the gates themselves take none.                                            *)
Pass ==
    /\ now < MaxTime
    /\ gate[1] # "none" => now - gate[2] < Patience
    /\ now' = now + 1
    /\ lastActive' = IF active THEN now' ELSE lastActive
    /\ UNCHANGED <<active, authorized, checkedAt, calls, gate, updates, handled>>

(* Linked, unlinked, deactivated, reactivated. *)
AccountChanges ==
    /\ active' = ~active
    /\ lastActive' = now
    /\ UNCHANGED <<now, authorized, checkedAt, calls, gate, updates, handled>>

(* is_limited: what left the window is dropped from the head of the deque,   *)
(* what is refused is not counted.                                           *)
Expired(q) ==
    CHOOSE n \in 0..Len(q) :
        /\ \A i \in 1..n : q[i] + Window <= now
        /\ n < Len(q) => q[n + 1] + Window > now
InWindow(q) == SubSeq(q, Expired(q) + 1, Len(q))

(* Mutant: refused updates count too. *)
CountAll(q) == IF Len(q) < MaxCalls THEN Append(q, now) ELSE Append(Tail(q), now)
Count(q) == IF Len(q) < MaxCalls THEN Append(q, now) ELSE q

RateLimit(known) ==
    /\ calls' = Count(InWindow(calls))
    /\ handled' = IF Len(InWindow(calls)) < MaxCalls
                  THEN Append(handled, [at |-> now, known |-> known, since |-> lastActive])
                  ELSE handled

(* Mutant: a yes is remembered for ever. *)
Remembered == authorized
Cached == authorized /\ now - checkedAt < Ttl

UpdateKnown ==
    /\ gate[1] = "none" /\ Cached
    /\ updates < MaxUpdates /\ updates' = updates + 1
    /\ RateLimit(TRUE)
    /\ UNCHANGED <<now, active, authorized, checkedAt, gate, lastActive>>

UpdateAsks ==
    /\ gate[1] = "none" /\ ~Cached
    /\ updates < MaxUpdates /\ updates' = updates + 1
    /\ gate' = <<"asking", now>>
    /\ UNCHANGED <<now, active, authorized, checkedAt, calls, lastActive, handled>>

(* GET /auth/telegram/check *)
BackendReads ==
    /\ gate[1] = "asking"
    /\ gate' = <<"answered", gate[2], active>>
    /\ UNCHANGED <<now, active, authorized, checkedAt, calls, updates, lastActive, handled>>

AnswerArrives ==
    /\ gate[1] = "answered"
    /\ authorized' = gate[3] /\ checkedAt' = now
    /\ gate' = <<"none">>
    /\ IF gate[3] THEN RateLimit(TRUE) ELSE UNCHANGED <<calls, handled>>
    /\ UNCHANGED <<now, active, updates, lastActive>>

(* Unreachable, too late, a 5xx. What was remembered stays. *)
BackendSilent ==
    /\ gate[1] # "none"
    /\ gate' = <<"none">>
    /\ RateLimit(FALSE)
    /\ UNCHANGED <<now, active, authorized, checkedAt, updates, lastActive>>

(* Nothing is kept on disk. *)
BotRestarts ==
    /\ authorized' = FALSE /\ checkedAt' = 0 /\ calls' = <<>> /\ gate' = <<"none">>
    /\ handled' = <<>>
    /\ UNCHANGED <<now, active, updates, lastActive>>

BotGateNext ==
    \/ Pass \/ AccountChanges
    \/ UpdateKnown \/ UpdateAsks \/ BackendReads \/ AnswerArrives \/ BackendSilent
    \/ BotRestarts

BotGateSpec == BotGateInit /\ [][BotGateNext]_gateVars

-----------------------------------------------------------------------------
(* The bot obeys somebody whose account is no longer active for the time a    *)
(* yes is remembered and the time it took to come, no longer: or while the    *)
(* backend does not answer.                                                   *)
StaleYesBounded ==
    \A i \in DOMAIN handled :
        handled[i].known => handled[i].at - handled[i].since < Ttl + Patience

(* The limiter remembers the updates that were handled within the window and  *)
(* no other, never more than the limit: an update is dropped only because as   *)
(* many before it were handled, and those dropped do not prolong it.           *)
HandledLately == {i \in DOMAIN handled : handled[i].at + Window > now}
LimitExact ==
    /\ Cardinality(HandledLately) <= MaxCalls
    /\ Len(InWindow(calls)) = Cardinality(HandledLately)
=============================================================================
