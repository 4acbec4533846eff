--------------------------- MODULE EnrichmentRun ---------------------------
(***************************************************************************)
(* What a run of "enrich" promises, whatever pages it reads and however    *)
(* Adobe's catalogue moves meanwhile: it writes once or not at all, only   *)
(* rows the table had when the run began, and only attributes Adobe gave   *)
(* for that very wine at some time during the run. It does not promise to  *)
(* reach every wine. WineEnrichment implements it.                         *)
(***************************************************************************)
EXTENDS Naturals

CONSTANTS Skus, Wines     \* a set of attributes is not "none"

NoAttributes == "none"
AttributeSets == Wines \union {NoAttributes}

VARIABLES
    adobe,     \* what Adobe answers for each wine
    column,    \* the rows of the table and their attributes
    known,     \* the rows the run found, when one is under way
    held       \* what Adobe has answered for each wine since the run began

runVars == <<adobe, column, known, held>>

NotRunning == "idle"
Rows == UNION {[D -> AttributeSets] : D \in SUBSET Skus}

RunInit ==
    /\ adobe \in [Skus -> AttributeSets] /\ column = <<>>
    /\ known = <<NotRunning>> /\ held = [s \in Skus |-> {}]

AdobeChanges ==
    /\ adobe' \in [Skus -> AttributeSets]
    /\ held' = IF known = <<NotRunning>> THEN held
               ELSE [s \in Skus |-> held[s] \union {adobe'[s]}]
    /\ UNCHANGED <<column, known>>

NewRow ==
    /\ \E s \in Skus \ DOMAIN column :
          column' = [x \in DOMAIN column \union {s} |->
                        IF x = s THEN NoAttributes ELSE column[x]]
    /\ UNCHANGED <<adobe, known, held>>

RunBegins ==
    /\ known = <<NotRunning>>
    /\ known' = <<"running", DOMAIN column>>
    /\ held' = [s \in Skus |-> {adobe[s]}]
    /\ UNCHANGED <<adobe, column>>

RunEnds ==
    /\ known # <<NotRunning>>
    /\ known' = <<NotRunning>> /\ held' = [s \in Skus |-> {}]
    /\ DOMAIN column' = DOMAIN column
    /\ \A s \in DOMAIN column :
          column'[s] # column[s] => s \in known[2] /\ column'[s] \in held[s] \intersect Wines
    /\ UNCHANGED adobe

RunNext == AdobeChanges \/ NewRow \/ RunBegins \/ RunEnds

RunSpec == RunInit /\ [][RunNext]_runVars
=============================================================================
