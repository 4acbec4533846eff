--------------------------- MODULE Conversations ---------------------------
(***************************************************************************)
(* The chat: sessions, their messages, and the log of recommendations. To   *)
(* send a message is one transaction that stores what the user wrote, asks *)
(* Claude and OpenAI (seconds), and stores the answer; meanwhile the same  *)
(* person may send another from a second tab, delete the session or the    *)
(* whole account. Statements see what is committed when they run; a message *)
(* holds a key-share lock on its session until its transaction ends.       *)
(***************************************************************************)
EXTENDS Naturals, FiniteSets

CONSTANTS
    People,
    Sessions,        \* the ids sessions may get
    Cellarman,       \* wines find_similar can return
    Slots,           \* requests that may be under way at a time
    ContextTurns,    \* turns of history kept for Claude
    MaxSends         \* bound: messages sent

ASSUME ConversationsAssumption ==
    ContextTurns \in Nat /\ MaxSends \in Nat

Intents == {"recommendation", "wine_chat", "off_topic"}

VARIABLES
    registered,      \* rows of users
    owner,           \* rows of chat_sessions: whose each is
    renamed,         \* those whose title is no longer the first message
    messages,        \* rows of chat_messages
    logs,            \* rows of recommendation_logs: their user_id
    send,            \* the requests under way
    sends,           \* messages sent so far
    clock            \* orders the timestamps

conversationVars == <<registered, owner, renamed, messages, logs, send, sends, clock>>

Message == [session: Sessions, role: {"user", "assistant"}, send: 1..MaxSends,
            at: Nat, wines: SUBSET Cellarman,
            since: Nat]   \* history: when the send had read the session

Nobody == [pc |-> "idle"]
Send ==
    {Nobody}
    \union [pc: {"message"}, id: 1..MaxSends, session: Sessions]
    \union [pc: {"history"}, id: 1..MaxSends, session: Sessions, written: Message]
    \union [pc: {"intent"}, id: 1..MaxSends, session: Sessions, written: Message,
            exclude: SUBSET Cellarman, since: Nat]
    \union [pc: {"answer"}, id: 1..MaxSends, session: Sessions, written: Message,
            wines: SUBSET Cellarman, logged: BOOLEAN, since: Nat]
    \union [pc: {"recommend"}, user: People]

(* Who a row keyed by a string belongs to: "user:<id>", "web:<id>". *)
Key == {"user", "web"} \X People

ConversationsTypeOK ==
    /\ registered \subseteq People
    /\ DOMAIN owner \subseteq Sessions /\ \A s \in DOMAIN owner : owner[s] \in registered
    /\ renamed \subseteq DOMAIN owner
    /\ messages \subseteq Message /\ {m.session : m \in messages} \subseteq DOMAIN owner
    /\ logs \subseteq Key
    /\ send \in [Slots -> Send]
    /\ sends \in 0..MaxSends /\ clock \in Nat

ConversationsInit ==
    /\ registered = People /\ owner = <<>> /\ renamed = {}
    /\ messages = {} /\ logs = {}
    /\ send = [r \in Slots |-> Nobody] /\ sends = 0 /\ clock = 0

-----------------------------------------------------------------------------
Live == DOMAIN owner
Pc(r) == send[r].pc
Tick == clock' = clock + 1
SetSend(r, new) == send' = [send EXCEPT ![r] = new]

(* A transaction that has written a message holds the row of its session. *)
Holding == {send[r].session : r \in {x \in Slots : Pc(x) \in {"history", "intent", "answer"}}}

Without(f, S) == [x \in DOMAIN f \ S |-> f[x]]

(* An id deleted may come back here, as the sequence of the table never lets it. *)
CreateSession(u, s) ==
    /\ u \in registered
    /\ s \notin Live /\ \A m \in messages : m.session # s
    /\ owner' = [x \in Live \union {s} |-> IF x = s THEN u ELSE owner[x]]
    /\ UNCHANGED <<registered, renamed, messages, logs, send, sends, clock>>

(* The title is written (and with it, by onupdate, updated_at, which only *)
(* orders the list of sessions).                                          *)
RenameSession(s) ==
    /\ s \in Live
    /\ renamed' = renamed \union {s}
    /\ UNCHANGED <<registered, owner, messages, logs, send, sends, clock>>

Erase(S) ==
    /\ owner' = Without(owner, S) /\ renamed' = renamed \ S
    /\ messages' = {m \in messages : m.session \notin S}

DeleteSession(s) ==
    /\ s \in Live /\ s \notin Holding
    /\ Erase({s})
    /\ UNCHANGED <<registered, logs, send, sends, clock>>

(* The user's logs, then the user: the sessions and messages go with the row. *)
Erased(u) == {<<"user", u>>}

DeleteAccount(u) ==
    /\ u \in registered
    /\ {s \in Live : owner[s] = u} \intersect Holding = {}
    /\ registered' = registered \ {u}
    /\ logs' = logs \ Erased(u)
    /\ Erase({s \in Live : owner[s] = u})
    /\ UNCHANGED <<send, sends, clock>>

-----------------------------------------------------------------------------
(* POST /chat/sessions/{id}/messages *)

SendBegins(r, s) ==
    /\ Pc(r) = "idle" /\ s \in Live
    /\ sends < MaxSends /\ sends' = sends + 1
    /\ SetSend(r, [pc |-> "message", id |-> sends', session |-> s])
    /\ UNCHANGED <<registered, owner, renamed, messages, logs, clock>>

(* What a flush lets the other transactions see. *)
(* Mutant: the user's message is committed before Claude is asked. *)
SeenAtOnce(m) == {m}
SeenAtFlush(m) == {}

UserMessage(r) ==
    [session |-> send[r].session, role |-> "user", send |-> send[r].id, at |-> clock,
     wines |-> {}, since |-> clock]

(* The session may be gone since it was looked up: the key refuses the row. *)
SendMessage(r) ==
    /\ Pc(r) = "message" /\ send[r].session \in Live
    /\ Tick
    /\ messages' = messages \union SeenAtFlush(UserMessage(r))
    /\ SetSend(r, [pc |-> "history", id |-> send[r].id, session |-> send[r].session,
                   written |-> UserMessage(r)])
    /\ UNCHANGED <<registered, owner, renamed, logs, sends>>

History(r) == {m \in messages : m.session = send[r].session} \union {send[r].written}

(* Every wine of the session, however long ago; Claude is given the last turns. *)
(* Mutant: the wines of the last turns. *)
Recent(H) == {m \in H : Cardinality({x \in H : x.at > m.at}) < 2 * ContextTurns}
ExcludeRecent(H) == UNION {m.wines : m \in Recent(H)}
ExcludeSkus(H) == UNION {m.wines : m \in H}

SendHistory(r) ==
    /\ Pc(r) = "history"
    /\ Tick
    /\ SetSend(r, [pc |-> "intent", id |-> send[r].id, session |-> send[r].session,
                   written |-> send[r].written, exclude |-> ExcludeSkus(History(r)),
                   since |-> clock])
    /\ UNCHANGED <<registered, owner, renamed, messages, logs, sends>>

(* The search among the wines not excluded, which may find none. *)
FindSimilar(exclude) == {wines \in SUBSET (Cellarman \ exclude) : Cardinality(wines) <= 1}

(* What Claude makes of the message, an unreachable Claude making it a request *)
(* for wines. The row of the log is flushed, or it fails and so will the       *)
(* commit.                                                                     *)
SendIntent(r) ==
    /\ Pc(r) = "intent"
    /\ \E intent \in Intents :
       \E wines \in IF intent = "recommendation" THEN FindSimilar(send[r].exclude) ELSE {{}} :
          SetSend(r, [pc |-> "answer", id |-> send[r].id, session |-> send[r].session,
                      written |-> send[r].written, wines |-> wines,
                      logged |-> intent = "recommendation", since |-> send[r].since])
    /\ UNCHANGED <<registered, owner, renamed, messages, logs, sends, clock>>

Answer(r) ==
    [session |-> send[r].session, role |-> "assistant", send |-> send[r].id, at |-> clock,
     wines |-> send[r].wines, since |-> send[r].since]

LogKey(s) == <<"web", owner[s]>>

SendCommit(r) ==
    /\ Pc(r) = "answer"
    /\ Tick
    /\ messages' = messages \union {send[r].written, Answer(r)}
    /\ logs' = IF send[r].logged THEN logs \union {LogKey(send[r].session)} ELSE logs
    /\ SetSend(r, Nobody)
    /\ UNCHANGED <<registered, owner, renamed, sends>>

(* POST /recommendations: the same pipeline without a session, whose row of the *)
(* log names the caller in another way. *)
RecommendBegins(r, u) ==
    /\ Pc(r) = "idle" /\ u \in registered
    /\ SetSend(r, [pc |-> "recommend", user |-> u])
    /\ UNCHANGED <<registered, owner, renamed, messages, logs, sends, clock>>

RecommendCommit(r) ==
    /\ Pc(r) = "recommend"
    /\ logs' = logs \union {<<"user", send[r].user>>}
    /\ SetSend(r, Nobody)
    /\ UNCHANGED <<registered, owner, renamed, messages, sends, clock>>

(* The embedding, the database, the session deleted under it, a restart: *)
(* nothing of the turn remains. *)
SendFails(r) ==
    /\ Pc(r) # "idle"
    /\ SetSend(r, Nobody)
    /\ UNCHANGED <<registered, owner, renamed, messages, logs, sends, clock>>

ConversationsNext ==
    \/ \E u \in People : DeleteAccount(u) \/ \E s \in Sessions : CreateSession(u, s)
    \/ \E s \in Sessions : RenameSession(s) \/ DeleteSession(s)
    \/ \E r \in Slots : \/ \E s \in Sessions : SendBegins(r, s)
                        \/ SendMessage(r) \/ SendHistory(r) \/ SendIntent(r)
                        \/ SendCommit(r) \/ SendFails(r)
                        \/ \E u \in People : RecommendBegins(r, u)
                        \/ RecommendCommit(r)

ConversationsSpec == ConversationsInit /\ [][ConversationsNext]_conversationVars

-----------------------------------------------------------------------------
(* A turn is kept whole or not at all: the message and its answer, whatever   *)
(* fails between them and whatever is deleted meanwhile.                      *)
TurnsWhole ==
    \A m \in messages : \E n \in messages :
        n.send = m.send /\ n.session = m.session /\ n.role # m.role

(* A wine comes twice in a session only from two sends that overlapped, each  *)
(* of which read the history before the other's answer was in it: no length   *)
(* of the conversation, failure or deletion in between makes it come back     *)
(* (docs/specs/chat.md: "a wine is never recommended twice in a session").    *)
RepeatsExplained ==
    \A m, n \in messages :
        (m.session = n.session /\ m.send < n.send /\ m.wines \intersect n.wines # {}) =>
            m.since <= n.at /\ n.since <= m.at

(* api/users.py: "Permanently delete the authenticated user and all associated *)
(* data": no record of what a deleted user asked the assistant is left.       *)
ChatLogsErased == \A key \in logs : key[1] = "web" => key[2] \in registered
=============================================================================
