--------------------------- MODULE AlertDelivery ---------------------------
(***************************************************************************)
(* What the outbox promises, without tables, queries, batches or requests: *)
(* who is alerted of what, how often, and when an event may be closed.     *)
(* Pairs are <<event, user>>.                                              *)
(***************************************************************************)
CONSTANTS
    Events, Users,
    Reachable      \* those of the users there is a way to alert

VARIABLES
    announced,     \* events there have been
    concerned,     \* the pairs of the open ones that would be alerted now
    owed,          \* pairs concerned since the announcement
    hand,          \* the events being dealt with
    held,          \* pairs found concerned and not alerted yet
    alerted,       \* pairs
    excused,       \* events taken in hand without all those concerned
    doubtful,      \* events let go when nobody knew if they were closed
    closed         \* events that concern nobody any more

audience == <<announced, concerned, owed>>
dealing == <<hand, held, excused>>
deliveryVars == <<audience, dealing, alerted, doubtful, closed>>

DeliveryInit ==
    /\ announced = {} /\ concerned = {} /\ owed = {}
    /\ hand = {} /\ held = {} /\ excused = {}
    /\ alerted = {} /\ doubtful = {} /\ closed = {}

(* An event is new, and all those it concerns are owed an alert. *)
Announce ==
    /\ \E i \in Events \ announced :
         /\ announced' = announced \union {i}
         /\ concerned' \ concerned \subseteq {i} \X Users
    /\ concerned \subseteq concerned'
    /\ owed' = owed \union (concerned' \ concerned)
    /\ UNCHANGED <<dealing, alerted, doubtful, closed>>

(* Users come and go, and events expire. Nothing is owed any more to some  *)
(* who are gone; those who come are concerned, but owed nothing.           *)
Change ==
    /\ \A p \in concerned' \ concerned : p[1] \in announced \ closed
    /\ owed' \subseteq owed /\ (owed \ owed') \intersect concerned' = {}
    /\ UNCHANGED <<announced, dealing, alerted, doubtful, closed>>

(* Those concerned at this moment are found: some of them. *)
Look ==
    /\ hand = {} /\ held' \subseteq held \union concerned
    /\ UNCHANGED <<audience, hand, excused, alerted, doubtful, closed>>

(* Some events are taken in hand, each with all the reachable users it owes *)
(* an alert, or else excused.                                               *)
Take ==
    /\ hand = {}
    /\ \A i \in hand' : \E p \in held \union concerned : p[1] = i
    /\ held' \subseteq held \union concerned
    /\ excused \subseteq excused' /\ excused' \ excused \subseteq hand'
    /\ \A p \in held' : p[1] \in hand'
    /\ \A p \in owed : p[1] \in hand' \ excused' /\ p[2] \in Reachable => p \in held'
    /\ UNCHANGED <<audience, alerted, doubtful, closed>>

(* One message to one user, of events not told before, or doubtful ones. *)
Alert ==
    /\ held' \subseteq held /\ held' # held
    /\ \E u \in Reachable : \A p \in held \ held' :
         /\ p[2] = u /\ p[1] \in hand
         /\ p \notin alerted \/ p[1] \in doubtful
    /\ alerted' = alerted \union (held \ held')
    /\ UNCHANGED <<audience, hand, excused, doubtful, closed>>

(* The attempt ends, and leaves what it had in hand in doubt, or not. *)
LetGo ==
    /\ hand' = {} /\ held' = {}
    /\ doubtful' \in {doubtful, doubtful \union hand}
    /\ UNCHANGED <<audience, excused, alerted, closed>>

(* Events in hand or in doubt are closed, when all those they owe an alert *)
(* have it; some users may lose interest at the same time.                 *)
Close ==
    /\ closed \subseteq closed' /\ closed' \ closed \subseteq hand \union doubtful
    /\ \A p \in owed :
         p[1] \in closed' \ closed /\ p[2] \in Reachable
         => p \in alerted \/ p[1] \in excused
    /\ concerned' \subseteq {p \in concerned : p[1] \notin closed'}
    /\ owed' \subseteq owed /\ (owed \ owed') \intersect concerned' = {}
    /\ UNCHANGED <<announced, dealing, alerted, doubtful>>

DeliveryNext == Announce \/ Change \/ Look \/ Take \/ Alert \/ LetGo \/ Close

DeliverySpec == DeliveryInit /\ [][DeliveryNext]_deliveryVars
=============================================================================
