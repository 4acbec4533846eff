---------------------------- MODULE AtomicCellar ----------------------------
(***************************************************************************)
(* What the cellar promises to the person whose bottles it counts, on      *)
(* however many screens. A request takes effect at once or not at all. It  *)
(* is answered first, with the count it is to leave: one such request at a *)
(* time is pledged, and no other moves the count until it has taken effect *)
(* or is forgotten, because its commit failed. A request that finds        *)
(* nothing to do answers what was so at a moment since it asked; one that  *)
(* fails before its answer does nothing. So a bottle added is never lost   *)
(* to another that was added, and a wine that was removed is brought back  *)
(* only by adding it.                                                      *)
(***************************************************************************)
EXTENDS Naturals

CONSTANTS Screens, Most   \* requests under way at a time; the most bottles

Counts == 0..Most
Nothing == <<>>
Add == <<"add">>
Set(n) == <<"set", n>>
Done(n) == <<"done", n>>
Missing == <<"no such entry">>
Error == <<"error">>

VARIABLES
    bottles,      \* of the wine, 0 when the cellar has no entry for it
    asked,        \* what each request under way asked for
    counted,      \* the counts there have been since it asked
    replied,      \* the last answer to it
    pledged       \* the request answered that is still to take effect, if any

atomicVars == <<bottles, asked, counted, replied, pledged>>

AtomicInit ==
    /\ bottles = 0 /\ pledged = {}
    /\ asked = [r \in Screens |-> Nothing] /\ counted = [r \in Screens |-> {}]
    /\ replied = [r \in Screens |-> Error]

Ask(r) ==
    /\ asked[r] = Nothing
    /\ \E what \in {Add} \union {Set(n) : n \in Counts} : asked' = [asked EXCEPT ![r] = what]
    /\ counted' = [counted EXCEPT ![r] = {bottles}]
    /\ UNCHANGED <<bottles, replied, pledged>>

Result(what, n) == IF what = Add THEN (IF n < Most THEN n + 1 ELSE n) ELSE what[2]

Reply(r, a) == replied' = [replied EXCEPT ![r] = a]

End(r) ==
    /\ asked' = [asked EXCEPT ![r] = Nothing]
    /\ counted' = [x \in Screens |-> IF asked'[x] = Nothing THEN {} ELSE counted[x] \union {bottles'}]

(* The answer may be lost on its way; the request is pledged all the same. *)
Pledge(r) ==
    /\ pledged = {} /\ pledged' = {r}
    /\ asked[r] # Nothing
    /\ asked[r] # Add => bottles # 0
    /\ \E a \in {Done(Result(asked[r], bottles)), Error} : Reply(r, a)
    /\ UNCHANGED <<bottles, asked, counted>>

(* The count is still the one the answer was made from. *)
TakeEffect(r) ==
    /\ pledged = {r} /\ pledged' = {}
    /\ bottles' = Result(asked[r], bottles)
    /\ replied[r] \in {Done(bottles'), Error}
    /\ End(r) /\ UNCHANGED replied

Forget(r) ==
    /\ pledged = {r} /\ pledged' = {}
    /\ UNCHANGED <<bottles, replied>> /\ End(r)

(* The count was the one asked for; there was no bottle to count or remove. *)
NothingToDo(r) ==
    /\ r \notin pledged /\ UNCHANGED <<bottles, pledged>>
    /\ \E n \in counted[r] : asked[r] = Set(n) /\ Reply(r, Done(n))
    /\ End(r)

NoEntry(r) ==
    /\ r \notin pledged /\ UNCHANGED <<bottles, pledged>>
    /\ asked[r] \in {Set(n) : n \in Counts} /\ 0 \in counted[r]
    /\ Reply(r, Missing) /\ End(r)

Fail(r) ==
    /\ r \notin pledged /\ UNCHANGED <<bottles, pledged>>
    /\ asked[r] # Nothing
    /\ Reply(r, Error) /\ End(r)

AtomicNext == \E r \in Screens : Ask(r) \/ Pledge(r) \/ TakeEffect(r) \/ Forget(r)
                              \/ NothingToDo(r) \/ NoEntry(r) \/ Fail(r)

AtomicSpec == AtomicInit /\ [][AtomicNext]_atomicVars
=============================================================================
