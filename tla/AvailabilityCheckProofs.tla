---------------------- MODULE AvailabilityCheckProofs ----------------------
(***************************************************************************)
(* Proofs about the daily availability command, for any catalogue, stores, *)
(* users and answers of Adobe: it is a user of the outbox like another, so *)
(* what is proved of the outbox holds beside it; it leaves the table as    *)
(* Adobe answered; and what it records is only what others wrote meanwhile.*)
(***************************************************************************)
EXTENDS AvailabilityCheck, StockAlertsProofs

(* A table is a function from a set of products.                             *)
LEMMA TableMade ==
    ASSUME NEW values, NEW skus \in SUBSET Skus, NEW f \in [skus -> values]
    PROVE  f \in Tables(values)
  BY DEF Tables

LEMMA TableUsed ==
    ASSUME NEW values, NEW f \in Tables(values)
    PROVE  DOMAIN f \subseteq Skus /\ f \in [DOMAIN f -> values]
  BY DEF Tables

(* The answer is made of rows the table may hold, and so is a cleared row.   *)
LEMMA FoundIsAvailability ==
    /\ Found \subseteq Availability
    /\ Nothing \in Availability
    /\ [online |-> "out", stores |-> {}] \in Availability
  BY DEF Found, Availability, Nothing

CheckType == [pc: CheckPhase, data: Tables(Found), known: SUBSET Skus,
              prev: Tables(Availability), todo: SUBSET Transition]

(* Between two runs nothing is held.                                         *)
LEMMA IdleType ==
    /\ NoTable \in Tables(Found) /\ NoTable \in Tables(Availability)
    /\ Idle \in CheckType
<1>1. NoTable \in [{} -> Found] /\ NoTable \in [{} -> Availability]
  BY DEF NoTable
<1>2. NoTable \in Tables(Found) /\ NoTable \in Tables(Availability)
  BY <1>1, TableMade
<1> QED
  BY <1>2 DEF Idle, CheckType, CheckPhase

(* What the diff yields are transitions.                                     *)
LEMMA TransitionsType ==
    ASSUME NEW prev \in Tables(Availability), NEW data \in Tables(Found),
           NEW preferred \in SUBSET (Skus \X Stores)
    PROVE  Transitions(prev, data, preferred) \subseteq Transition
<1>1. DOMAIN prev \subseteq Skus /\ DOMAIN data \subseteq Skus
  BY TableUsed
<1>2. \A s \in Skus, a \in BOOLEAN : [sku |-> s, store |-> Online, available |-> a] \in Transition
  BY DEF Transition
<1>3. \A s \in Skus, m \in Stores, a \in BOOLEAN :
         [sku |-> s, store |-> m, available |-> a] \in Transition
  BY DEF Transition
<1>4. OnlineTransitions(prev, data) \subseteq Transition
  BY <1>1, <1>2 DEF OnlineTransitions
<1>5. StoreTransitions(prev, data, preferred) \subseteq Transition
  <2> SUFFICES ASSUME NEW t \in StoreTransitions(prev, data, preferred)
               PROVE  t \in Transition
    OBVIOUS
  <2>1. PICK p \in preferred :
           t = [sku |-> p[1], store |-> p[2], available |-> p[2] \in data[p[1]].stores]
    BY DEF StoreTransitions
  <2>2. p[1] \in Skus /\ p[2] \in Stores
    OBVIOUS
  <2>3. (p[2] \in data[p[1]].stores) \in BOOLEAN
    OBVIOUS
  <2> QED
    BY <1>3, <2>1, <2>2, <2>3, Zenon
<1> QED
  BY <1>4, <1>5 DEF Transitions

-----------------------------------------------------------------------------
(* The command and the scrape call the outbox's functions and no others.     *)
LEMMA AvailabilityStep ==
    ASSUME AvailabilityTypeOK, [AvailabilityNext]_checkVars
    PROVE  [Next]_vars
<1>1. CASE UNCHANGED checkVars
  BY <1>1 DEF checkVars
<1>2. CASE OthersStep
  BY <1>2 DEF OthersStep, Next
<1>3. CASE ScrapeStep
  <2>1. PICK s \in Skus : \/ \E value \in {"unknown", "in", "out"} : ScrapePage(s, value)
                          \/ Delist(s) \/ Relist(s)
    BY <1>3 DEF ScrapeStep
  <2>2. {s} \in SUBSET Skus
    OBVIOUS
  <2>3. CASE \E value \in {"unknown", "in", "out"} : ScrapePage(s, value)
    BY <2>3 DEF ScrapePage
  <2>4. CASE Delist(s) \/ Relist(s)
    BY <2>2, <2>4 DEF Delist, Relist, Next, ScraperStep
  <2> QED
    BY <2>1, <2>3, <2>4
<1>4. CASE CheckStep
  <2>1. CASE \/ \E data \in Tables(Found) : CheckStart(data)
             \/ ReadKnown \/ UpdateAvailability \/ ResetStale \/ ReadPrevious
             \/ ReadPreferred \/ CheckDies
    BY <2>1 DEF CheckStart, ReadKnown, UpdateAvailability, ResetStale, ReadPrevious,
                ReadPreferred, CheckDies
  <2>2. ASSUME NEW t \in check.todo, Emit(t) \/ EmitFails(t) PROVE [Next]_vars
    <3>1. t.sku \in Skus /\ t.store \in Stores \union {Online} /\ t.available \in Directions
      BY AvailabilityAssumption DEF AvailabilityTypeOK, Transition
    <3> QED
      BY <2>2, <3>1 DEF Emit, EmitFails, Next, ScraperStep
  <2>3. CASE CheckPurge
    BY <2>3 DEF CheckPurge, Next, ScraperStep
  <2> QED
    BY <1>4, <2>1, <2>2, <2>3 DEF CheckStep
<1> QED
  BY <1>1, <1>2, <1>3, <1>4 DEF AvailabilityNext

-----------------------------------------------------------------------------
(* Type correctness. The columns are written for the skus read as known,     *)
(* which are still in the table: no row is ever removed.                     *)

AvailabilityTypeInv == AvailabilityTypeOK /\ check.known \subseteq catalog

LEMMA CheckStepType ==
    ASSUME AvailabilityTypeInv, CheckStep
    PROVE  /\ check' \in CheckType /\ avail' \in [Skus -> Availability]
           /\ catalog' = catalog
           /\ check'.known \subseteq catalog
           /\ \A s \in Skus \ catalog : avail'[s] = Nothing
           /\ before' \in Tables(Availability) /\ touched' \subseteq Skus
<1> USE DEF CheckType
<1>1. /\ check \in CheckType /\ avail \in [Skus -> Availability] /\ catalog \subseteq Skus
      /\ check.known \subseteq catalog
      /\ \A s \in Skus \ catalog : avail[s] = Nothing
      /\ before \in Tables(Availability) /\ touched \subseteq Skus
      /\ delisted \subseteq Skus /\ watches \subseteq Users \X Skus
  BY DEF AvailabilityTypeInv, AvailabilityTypeOK, TypeOK
<1>2. ASSUME NEW data \in Tables(Found), CheckStart(data)
      PROVE  /\ check' \in CheckType /\ check'.known = {}
             /\ UNCHANGED <<catalog, avail, before, touched>>
  BY <1>2, IdleType DEF CheckStart, CheckPhase, Idle
<1>3. CASE ReadKnown
  BY <1>1, <1>3 DEF ReadKnown, CheckPhase
<1>4. CASE UpdateAvailability
  <2>1. check.data \in [DOMAIN check.data -> Found]
    BY <1>1, TableUsed
  <2>2. avail' \in [Skus -> Availability]
    BY <1>1, <1>4, <2>1, FoundIsAvailability DEF UpdateAvailability, Written
  <2>3. before' \in Tables(Availability)
    BY <1>1, <1>4, TableMade DEF UpdateAvailability
  <2>4. \A s \in Skus \ catalog : avail'[s] = Nothing
    BY <1>1, <1>4 DEF UpdateAvailability, Written
  <2> QED
    BY <1>1, <1>4, <2>2, <2>3, <2>4 DEF UpdateAvailability, CheckPhase
<1>5. CASE ResetStale
  <2>1. avail' \in [Skus -> Availability]
    BY <1>1, <1>5, FoundIsAvailability DEF ResetStale
  <2>2. \A s \in Skus \ catalog : avail'[s] = Nothing
    BY <1>1, <1>5 DEF ResetStale, Stale
  <2> QED
    BY <1>1, <1>5, <2>1, <2>2 DEF ResetStale, CheckPhase
<1>6. CASE ReadPrevious
  <2> DEFINE watched == {s \in catalog \ delisted : \E u \in Users : <<u, s>> \in watches}
             prev == [s \in watched |-> avail[s]]
  <2>1. watched \in SUBSET Skus /\ prev \in [watched -> Availability]
    BY <1>1
  <2>2. prev \in Tables(Availability)
    BY <2>1, TableMade
  <2> QED
    BY <1>1, <1>6, <2>2 DEF ReadPrevious, CheckPhase
<1>7. CASE ReadPreferred
  <2>1. PreferredStores \in SUBSET (Skus \X Stores)
    BY DEF PreferredStores
  <2>2. Transitions(check.prev, check.data, PreferredStores) \subseteq Transition
    BY <1>1, <2>1, TransitionsType
  <2> QED
    BY <1>1, <1>7, <2>2 DEF ReadPreferred, CheckPhase
<1>8. ASSUME NEW t \in check.todo, Emit(t) \/ EmitFails(t)
      PROVE  /\ check' \in CheckType /\ check'.known = check.known
             /\ UNCHANGED <<catalog, avail, before, touched>>
  BY <1>1, <1>8 DEF Emit, EmitFails
<1>9. CASE CheckPurge \/ CheckDies
  BY <1>1, <1>9, IdleType DEF CheckPurge, CheckDies, Finish, Idle
<1> QED
  BY <1>1, <1>2, <1>3, <1>4, <1>5, <1>6, <1>7, <1>8, <1>9 DEF CheckStep

LEMMA ScrapeStepType ==
    ASSUME AvailabilityTypeInv, ScrapeStep
    PROVE  /\ check' = check /\ avail' \in [Skus -> Availability]
           /\ catalog \subseteq catalog' /\ catalog' \subseteq Skus
           /\ \A s \in Skus \ catalog' : avail'[s] = Nothing
           /\ before' = before /\ touched' \subseteq Skus
<1>1. /\ avail \in [Skus -> Availability] /\ catalog \subseteq Skus
      /\ \A s \in Skus \ catalog : avail[s] = Nothing
      /\ touched \subseteq Skus
  BY DEF AvailabilityTypeInv, AvailabilityTypeOK
<1>2. PICK s \in Skus : \/ \E value \in {"unknown", "in", "out"} : ScrapePage(s, value)
                        \/ Delist(s) \/ Relist(s)
  BY DEF ScrapeStep
<1>3. ASSUME NEW value \in {"unknown", "in", "out"}, ScrapePage(s, value)
      PROVE  /\ avail' \in [Skus -> Availability]
             /\ \A x \in Skus \ {s} : avail'[x] = avail[x]
  BY <1>1, <1>3 DEF ScrapePage, Availability
<1>4. CASE \E value \in {"unknown", "in", "out"} : ScrapePage(s, value)
  BY <1>1, <1>3, <1>4 DEF ScrapePage, Touch
<1>5. CASE Delist(s) \/ Relist(s)
  BY <1>1, <1>5 DEF Delist, Relist, Touch
<1> QED
  BY <1>2, <1>4, <1>5

LEMMA AvailabilityTypeStep ==
    AvailabilityTypeInv /\ [AvailabilityNext]_checkVars => AvailabilityTypeInv'
<1> SUFFICES ASSUME AvailabilityTypeInv, [AvailabilityNext]_checkVars
             PROVE  AvailabilityTypeInv'
  OBVIOUS
<1>1. TypeOK'
  BY AvailabilityStep, NextTypeOK DEF AvailabilityTypeInv, AvailabilityTypeOK
<1>2. CASE CheckStep
  BY <1>1, <1>2, CheckStepType DEF AvailabilityTypeInv, AvailabilityTypeOK, CheckType
<1>3. CASE ScrapeStep
  BY <1>1, <1>3, ScrapeStepType DEF AvailabilityTypeInv, AvailabilityTypeOK
<1>4. CASE OthersStep \/ UNCHANGED checkVars
  BY <1>1, <1>4 DEF OthersStep, checkVars, AvailabilityTypeInv, AvailabilityTypeOK
<1> QED
  BY <1>2, <1>3, <1>4 DEF AvailabilityNext

LEMMA AvailabilityTypeInit == AvailabilityInit => AvailabilityTypeInv
<1> SUFFICES ASSUME AvailabilityInit PROVE AvailabilityTypeInv
  OBVIOUS
<1>1. avail \in [Skus -> Availability] /\ \A s \in Skus \ catalog : avail[s] = Nothing
  BY FoundIsAvailability DEF AvailabilityInit
<1>2. TypeOK /\ catalog = {} /\ check = Idle /\ before = NoTable /\ touched = {}
  BY InitTypeOK DEF AvailabilityInit
<1>3. check.known = {}
  BY <1>2 DEF Idle
<1> QED
  BY <1>1, <1>2, <1>3, IdleType DEF AvailabilityTypeInv, AvailabilityTypeOK, CheckType

LEMMA AvailabilityTypes == AvailabilitySpec => []AvailabilityTypeInv
  BY AvailabilityTypeInit, AvailabilityTypeStep, PTL DEF AvailabilitySpec

(* The variables of the daily command and of the database keep their types,  *)
(* and a product without a row has nothing in its columns.                   *)
THEOREM AvailabilityTypeCorrect == AvailabilitySpec => []AvailabilityTypeOK
<1>1. AvailabilityTypeInv => AvailabilityTypeOK
  BY DEF AvailabilityTypeInv
<1> QED
  BY <1>1, AvailabilityTypes, PTL

(* The daily command, beside a scrape command, implements the outbox: what   *)
(* either does to the shared tables is one of the calls StockAlerts lets a   *)
(* scraper make.                                                             *)
THEOREM AvailabilityImplementsOutbox == AvailabilitySpec => Spec
<1>1. AvailabilityInit => Init
  BY DEF AvailabilityInit
<1>2. AvailabilityTypeOK /\ [AvailabilityNext]_checkVars => [Next]_vars
  BY AvailabilityStep
<1> QED
  BY <1>1, <1>2, AvailabilityTypeCorrect, PTL DEF AvailabilitySpec, Spec

-----------------------------------------------------------------------------
(* The inductive invariant behind TableMatchesAnswer and AlarmsExplained.    *)

(* A row the run has not read as known was inserted, so written, since.      *)
KnownAll ==
    check.pc \notin {"idle", "known"} => catalog \ touched \subseteq check.known

(* The run's update stands in every row nobody else wrote, whether or not    *)
(* the answer was empty.                                                     *)
AnswerStands ==
    check.pc \in {"reset", "previous", "preferred", "emit", "purge"} =>
        \A s \in catalog \ touched :
            s \in DOMAIN check.data => avail[s] = check.data[s]

(* An empty answer writes nothing, and clears nothing.                       *)
EmptyKeeps ==
    check.pc \in {"reset", "previous", "preferred", "emit", "purge"} /\ DOMAIN check.data = {} =>
        \A s \in catalog \ touched : avail[s] = before[s]

(* The previous state agrees with the answer, where it does not come from    *)
(* another writer or from before an empty answer.                            *)
PrevAgrees ==
    check.pc = "preferred" /\ DOMAIN check.data # {} =>
        \A s \in DOMAIN check.prev \ touched :
            /\ s \in DOMAIN check.data => check.prev[s] = check.data[s]
            /\ s \notin DOMAIN check.data => check.prev[s].online # "in"

TodoLast == check.pc # "emit" => check.todo = {}

CheckInv ==
    /\ KnownAll /\ AnswerStands /\ EmptyKeeps /\ TableMatchesAnswer
    /\ PrevAgrees /\ TodoLast /\ AlarmsExplained

LEMMA CheckInvInit == AvailabilityInit => CheckInv
  BY DEF AvailabilityInit, Idle, CheckInv, KnownAll, AnswerStands, EmptyKeeps,
         TableMatchesAnswer, PrevAgrees, TodoLast, AlarmsExplained

(* A transition is recorded only of a product whose previous state differs.  *)
LEMMA TransitionsSources ==
    ASSUME NEW prev, NEW data, NEW preferred, NEW t \in Transitions(prev, data, preferred)
    PROVE  /\ t.sku \in DOMAIN prev
           /\ \/ t.sku \in DOMAIN data /\ prev[t.sku] # data[t.sku]
              \/ t.sku \notin DOMAIN data /\ prev[t.sku].online = "in"
<1>1. CASE t \in OnlineTransitions(prev, data)
  <2>1. CASE \E s \in {x \in DOMAIN prev \intersect DOMAIN data :
                         prev[x].online \notin {"unknown", data[x].online}} :
               t = [sku |-> s, store |-> Online, available |-> data[s].online = "in"]
    <3>1. PICK s \in {x \in DOMAIN prev \intersect DOMAIN data :
                         prev[x].online \notin {"unknown", data[x].online}} :
               t = [sku |-> s, store |-> Online, available |-> data[s].online = "in"]
      BY <2>1
    <3>2. t.sku = s
      BY <3>1, Zenon
    <3> QED
      BY <3>1, <3>2
  <2>2. CASE \E s \in {x \in DOMAIN prev \ DOMAIN data : prev[x].online = "in"} :
               t = [sku |-> s, store |-> Online, available |-> FALSE]
    <3>1. PICK s \in {x \in DOMAIN prev \ DOMAIN data : prev[x].online = "in"} :
               t = [sku |-> s, store |-> Online, available |-> FALSE]
      BY <2>2
    <3>2. t.sku = s
      BY <3>1, Zenon
    <3> QED
      BY <3>1, <3>2
  <2> QED
    BY <1>1, <2>1, <2>2 DEF OnlineTransitions
<1>2. CASE t \in StoreTransitions(prev, data, preferred)
  <2>1. PICK p \in {q \in preferred : /\ q[1] \in DOMAIN prev \intersect DOMAIN data
                                      /\ (q[2] \in prev[q[1]].stores)
                                           # (q[2] \in data[q[1]].stores)} :
          t = [sku |-> p[1], store |-> p[2], available |-> p[2] \in data[p[1]].stores]
    BY <1>2 DEF StoreTransitions
  <2>2. t.sku = p[1]
    BY <2>1, Zenon
  <2>3. prev[p[1]] # data[p[1]]
    <3>1. (p[2] \in prev[p[1]].stores) # (p[2] \in data[p[1]].stores)
      BY <2>1
    <3> QED
      BY <3>1, Zenon
  <2> QED
    BY <2>1, <2>2, <2>3
<1> QED
  BY <1>1, <1>2 DEF Transitions

LEMMA CheckInvCheck ==
    ASSUME AvailabilityTypeInv, CheckInv, CheckStep
    PROVE  CheckInv'
<1>1. /\ check \in CheckType /\ avail \in [Skus -> Availability] /\ catalog \subseteq Skus
  BY DEF AvailabilityTypeInv, AvailabilityTypeOK, CheckType
<1>2. /\ KnownAll /\ AnswerStands /\ EmptyKeeps /\ TableMatchesAnswer
      /\ PrevAgrees /\ TodoLast /\ AlarmsExplained
  BY DEF CheckInv
<1> USE DEF CheckType
<1>3. ASSUME NEW data \in Tables(Found), CheckStart(data) PROVE CheckInv'
  BY <1>3 DEF CheckStart, Idle, CheckInv, KnownAll, AnswerStands, EmptyKeeps,
              TableMatchesAnswer, PrevAgrees, TodoLast, AlarmsExplained
<1>4. CASE ReadKnown
  BY <1>1, <1>2, <1>4 DEF ReadKnown, CheckInv, KnownAll, AnswerStands, EmptyKeeps,
              TableMatchesAnswer, PrevAgrees, TodoLast, AlarmsExplained
<1>5. CASE UpdateAvailability
  <2>1. AnswerStands'
    BY <1>1, <1>2, <1>5 DEF UpdateAvailability, Written, KnownAll, AnswerStands
  <2>2. EmptyKeeps'
    <3>1. ASSUME DOMAIN check.data = {}, NEW s \in Skus PROVE avail'[s] = before'[s]
      BY <1>1, <1>5, <3>1 DEF UpdateAvailability, Written
    <3>2. check'.data = check.data /\ catalog' = catalog
      BY <1>1, <1>5 DEF UpdateAvailability
    <3> QED
      BY <1>1, <3>1, <3>2 DEF EmptyKeeps
  <2> QED
    BY <1>1, <1>2, <1>5, <2>1, <2>2 DEF UpdateAvailability, CheckInv, KnownAll,
              TableMatchesAnswer, PrevAgrees, TodoLast, AlarmsExplained
<1>6. CASE ResetStale
  <2>1. /\ UNCHANGED <<catalog, touched, delisted, before>>
        /\ check'.data = check.data /\ check'.known = check.known
        /\ check'.todo = check.todo /\ check'.pc = "previous" /\ check.pc = "reset"
    BY <1>1, <1>6 DEF ResetStale, vars, db
  <2>2. AnswerStands'
    BY <1>1, <1>2, <1>6, <2>1 DEF ResetStale, Stale, AnswerStands
  <2>3. ASSUME DOMAIN check.data # {}, NEW s \in catalog \ touched,
               s \notin DOMAIN check.data \union delisted
        PROVE  avail'[s].online # "in" /\ avail'[s].stores = {}
    <3>1. s \in Stale /\ s \in Skus
      BY <1>1, <2>3 DEF Stale
    <3>2. CASE avail[s].online = "in" \/ avail[s].stores # {}
      <4>1. avail'[s] = [online |-> "out", stores |-> {}]
        BY <1>6, <2>3, <3>1, <3>2 DEF ResetStale
      <4> QED
        BY <4>1
    <3>3. CASE ~(avail[s].online = "in" \/ avail[s].stores # {})
      <4>1. avail'[s] = avail[s]
        BY <1>6, <3>1, <3>3 DEF ResetStale
      <4> QED
        BY <3>3, <4>1
    <3> QED
      BY <3>2, <3>3
  <2>4. EmptyKeeps'
    <3>1. ASSUME DOMAIN check.data = {}, NEW s \in Skus PROVE avail'[s] = avail[s]
      BY <1>6, <3>1 DEF ResetStale
    <3> QED
      BY <1>1, <1>2, <2>1, <3>1 DEF EmptyKeeps
  <2>5. TableMatchesAnswer'
    BY <2>1, <2>2, <2>3, <2>4 DEF TableMatchesAnswer, AnswerStands, EmptyKeeps
  <2> QED
    BY <1>2, <2>1, <2>2, <2>4, <2>5 DEF CheckInv, KnownAll, PrevAgrees, TodoLast,
              AlarmsExplained
<1>7. CASE ReadPrevious
  <2> DEFINE watched == {s \in catalog \ delisted : \E u \in Users : <<u, s>> \in watches}
  <2>1. /\ UNCHANGED <<catalog, touched, delisted, avail, before>>
        /\ check'.data = check.data /\ check'.known = check.known
        /\ check'.prev = [s \in watched |-> avail[s]]
        /\ check'.todo = check.todo /\ check.pc = "previous"
        /\ check'.pc \in {"purge", "preferred"}
    BY <1>1, <1>7 DEF ReadPrevious, vars, db
  <2>2. PrevAgrees'
    <3> SUFFICES ASSUME DOMAIN check.data # {}, NEW s \in watched \ touched
                 PROVE  /\ s \in DOMAIN check.data => avail[s] = check.data[s]
                        /\ s \notin DOMAIN check.data => avail[s].online # "in"
      BY <2>1 DEF PrevAgrees
    <3> QED
      BY <1>2, <2>1 DEF TableMatchesAnswer
  <2> HIDE DEF watched
  <2>3. TableMatchesAnswer' /\ KnownAll' /\ AnswerStands' /\ EmptyKeeps'
    BY <1>2, <2>1 DEF TableMatchesAnswer, KnownAll, AnswerStands, EmptyKeeps
  <2>4. TodoLast' /\ AlarmsExplained'
    BY <1>2, <2>1 DEF TodoLast, AlarmsExplained
  <2> QED
    BY <2>2, <2>3, <2>4 DEF CheckInv
<1>8. CASE ReadPreferred
  <2>1. /\ UNCHANGED <<catalog, touched, delisted, avail, before>>
        /\ check'.data = check.data /\ check'.known = check.known
        /\ check'.todo = Transitions(check.prev, check.data, PreferredStores)
        /\ check.pc = "preferred" /\ check'.pc = "emit"
    BY <1>1, <1>8 DEF ReadPreferred, vars, db
  <2>2. AlarmsExplained'
    <3> SUFFICES ASSUME NEW t \in Transitions(check.prev, check.data, PreferredStores),
                        t.sku \notin touched, DOMAIN check.data # {}
                 PROVE  FALSE
      BY <2>1 DEF AlarmsExplained
    <3> QED
      BY <1>2, <2>1, TransitionsSources DEF PrevAgrees
  <2> QED
    BY <1>2, <2>1, <2>2 DEF CheckInv, TableMatchesAnswer, KnownAll, AnswerStands, EmptyKeeps,
              PrevAgrees, TodoLast
<1>9. ASSUME NEW t \in check.todo, Emit(t) \/ EmitFails(t) PROVE CheckInv'
  <2>1. /\ UNCHANGED <<catalog, touched, delisted, avail, before>>
        /\ check'.data = check.data /\ check'.known = check.known
        /\ check'.todo \subseteq check.todo
        /\ check.pc = "emit" /\ check'.pc = "emit"
    BY <1>1, <1>9 DEF Emit, EmitFails, EmitStockEvent, vars, db
  <2> QED
    BY <1>2, <2>1 DEF CheckInv, TableMatchesAnswer, KnownAll, AnswerStands, EmptyKeeps,
              PrevAgrees, TodoLast, AlarmsExplained
<1>10. CASE CheckPurge \/ CheckDies
  BY <1>10 DEF CheckPurge, CheckDies, Finish, Idle, CheckInv, KnownAll, AnswerStands, EmptyKeeps,
              TableMatchesAnswer, PrevAgrees, TodoLast, AlarmsExplained
<1> QED
  BY <1>3, <1>4, <1>5, <1>6, <1>7, <1>8, <1>9, <1>10 DEF CheckStep

(* What another writer does to a row, while a run is under way, is excused.  *)
LEMMA CheckInvScrape ==
    ASSUME AvailabilityTypeInv, CheckInv, ScrapeStep
    PROVE  CheckInv'
<1>1. avail \in [Skus -> Availability] /\ catalog \subseteq Skus
  BY DEF AvailabilityTypeInv, AvailabilityTypeOK
<1>2. /\ KnownAll /\ AnswerStands /\ EmptyKeeps /\ TableMatchesAnswer
      /\ PrevAgrees /\ TodoLast /\ AlarmsExplained
  BY DEF CheckInv
<1>3. PICK s \in Skus : \/ \E value \in {"unknown", "in", "out"} : ScrapePage(s, value)
                        \/ Delist(s) \/ Relist(s)
  BY DEF ScrapeStep
<1> DEFINE Excused ==
             /\ check' = check /\ before' = before
             /\ check.pc # "idle" => touched \subseteq touched'
             /\ check.pc # "idle" => \A x \in catalog' \ touched' :
                  /\ x \in catalog \ touched /\ avail'[x] = avail[x]
                  /\ x \notin delisted' => x \notin delisted
<1>4. Excused
  <2>1. ASSUME NEW value \in {"unknown", "in", "out"}, ScrapePage(s, value)
        PROVE  Excused
    BY <1>1, <2>1 DEF ScrapePage, Touch, vars, db
  <2>2. CASE Delist(s)
    BY <2>2 DEF Delist, MarkDelisted
  <2>3. CASE Relist(s)
    BY <2>3 DEF Relist, ClearDelisted, Touch
  <2> QED
    BY <1>3, <2>1, <2>2, <2>3
<1>5. CASE check.pc = "idle"
  BY <1>2, <1>4, <1>5 DEF CheckInv, KnownAll, AnswerStands, EmptyKeeps, TableMatchesAnswer,
              PrevAgrees, TodoLast, AlarmsExplained
<1>6. CASE check.pc # "idle"
  <2>1. KnownAll' /\ AnswerStands' /\ EmptyKeeps'
    BY <1>2, <1>4, <1>6 DEF KnownAll, AnswerStands, EmptyKeeps
  <2>2. TableMatchesAnswer'
    BY <1>2, <1>4, <1>6 DEF TableMatchesAnswer
  <2>3. PrevAgrees' /\ TodoLast' /\ AlarmsExplained'
    BY <1>2, <1>4, <1>6 DEF PrevAgrees, TodoLast, AlarmsExplained
  <2> QED
    BY <2>1, <2>2, <2>3 DEF CheckInv
<1> QED
  BY <1>5, <1>6

LEMMA CheckInvStep ==
    AvailabilityTypeInv /\ CheckInv /\ [AvailabilityNext]_checkVars => CheckInv'
<1> SUFFICES ASSUME AvailabilityTypeInv, CheckInv, [AvailabilityNext]_checkVars
             PROVE  CheckInv'
  OBVIOUS
<1>1. CASE OthersStep \/ UNCHANGED checkVars
  <2>1. UNCHANGED <<catalog, avail, check, before, touched, delisted>>
    BY <1>1 DEF OthersStep, checkVars, vars, db, UserStep, CreateWatch, DeleteWatch,
                AddUserStore, RemoveUserStore, Age
  <2> QED
    BY <2>1 DEF CheckInv, KnownAll, AnswerStands, EmptyKeeps, TableMatchesAnswer,
                PrevAgrees, TodoLast, AlarmsExplained
<1> QED
  BY <1>1, CheckInvCheck, CheckInvScrape DEF AvailabilityNext

LEMMA CheckInvariant == AvailabilitySpec => []CheckInv
  BY CheckInvInit, CheckInvStep, AvailabilityTypes, PTL DEF AvailabilitySpec

(* Once the run has written, the table says what Adobe answered, or, if that *)
(* was nothing, what it said before, of every row another command did not    *)
(* write meanwhile.                                                          *)
THEOREM TableMatches == AvailabilitySpec => []TableMatchesAnswer
<1>1. CheckInv => TableMatchesAnswer
  BY DEF CheckInv
<1> QED
  BY <1>1, CheckInvariant, PTL

(* The command records a transition only of a product another command wrote  *)
(* while it ran, or after an empty answer.                                   *)
THEOREM AlarmsHold == AvailabilitySpec => []AlarmsExplained
<1>1. CheckInv => AlarmsExplained
  BY DEF CheckInv
<1> QED
  BY <1>1, CheckInvariant, PTL
=============================================================================
