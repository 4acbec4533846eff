---------------------------- MODULE MCComponents ----------------------------
(* The components that share no state with each other: two commands of the    *)
(* scraper, five parts of the backend, two of the bot. Each behaviour is one   *)
(* of one of them, "part", while the others stay as they are, so that the      *)
(* nine state spaces are explored in one run without being multiplied.         *)
EXTENDS WineEnrichment, StoreDirectory, Conversations, Rerank, Cellar, Browse,
        TastingNotes, BotGate, BotScreens

VARIABLE part

allVars == <<part, enrichVars, storeVars, conversationVars, rerankVars, cellarVars,
             browseVars, tastingVars, gateVars, screenVars>>

\* Wines "a", "b", "c" of one country and "d" of none in a subcategory, "e" in
\* another; a price on the bound of two ranges and one in none.
MCRankOf == [a |-> 1, e |-> 2, b |-> 3, c |-> 4, d |-> 5]
MCCountryOf == [s \in Skus |-> IF s = "d" THEN NoCountry ELSE "France"]
MCSubcategoryOf == [s \in Skus |-> IF s = "e" THEN "blanc" ELSE "rouge"]
MCAttributes == [s \in Skus |-> IF s = "b" THEN NoAttributes ELSE "w"]
MCPrice == [s \in Skus |-> IF s = "c" THEN 9 ELSE 1]
MCRanges == << <<0, 1>>, <<1, 2>> >>
MCSubcategories == <<"rouge", "blanc">>

\* Neither the requests under way nor the editors are told apart.
RequestSymmetry == Permutations(Slots) \union Permutations(Editors)

MCWeight == [a \in Attributes |-> IF a = "producer" THEN 6 ELSE 4]

-----------------------------------------------------------------------------
Parts == {"enrich", "stores", "chat", "rerank", "cellar", "browse", "tasting", "gate", "screens"}

(* What the parts that stay as they are start with, where they have a choice. *)
Resting ==
    /\ part # "stores" => directory = SetToSeq(Stores) /\ facts = CHOOSE f \in [Stores -> Facts] : TRUE
    /\ part # "rerank" => candidates = <<>>
    /\ part # "browse" => rank = [p \in Products |-> 0] /\ kept = {}
    /\ part # "screens" => saved = {}

Init ==
    /\ part \in Parts /\ Resting
    /\ EnrichmentInit /\ StoreDirectoryInit /\ ConversationsInit /\ RerankInit /\ CellarInit
    /\ BrowseInit /\ TastingInit /\ BotGateInit /\ BotScreensInit

(* The variables of all the parts but one. *)
Others(p) ==
    /\ p # "enrich" => UNCHANGED enrichVars
    /\ p # "stores" => UNCHANGED storeVars
    /\ p # "chat" => UNCHANGED conversationVars
    /\ p # "rerank" => UNCHANGED rerankVars
    /\ p # "cellar" => UNCHANGED cellarVars
    /\ p # "browse" => UNCHANGED browseVars
    /\ p # "tasting" => UNCHANGED tastingVars
    /\ p # "gate" => UNCHANGED gateVars
    /\ p # "screens" => UNCHANGED screenVars

Next ==
    /\ UNCHANGED part /\ Others(part)
    /\ \/ part = "enrich" /\ EnrichmentNext
       \/ part = "stores" /\ StoreDirectoryNext
       \/ part = "chat" /\ ConversationsNext
       \/ part = "rerank" /\ RerankNext
       \/ part = "cellar" /\ CellarNext
       \/ part = "browse" /\ BrowseNext
       \/ part = "tasting" /\ TastingNext
       \/ part = "gate" /\ BotGateNext
       \/ part = "screens" /\ BotScreensNext

Spec == Init /\ [][Next]_allVars

(* Every variable of the nine modules keeps its type; a bottle count, among    *)
(* others, its bounds, and a collected wine the attributes that make it one.   *)
ComponentsTypeOK ==
    /\ EnrichmentTypeOK /\ StoreDirectoryTypeOK /\ ConversationsTypeOK /\ RerankTypeOK
    /\ CellarTypeOK /\ BrowseTypeOK /\ TastingTypeOK /\ BotGateTypeOK /\ BotScreensTypeOK
=============================================================================
