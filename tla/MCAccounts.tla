----------------------------- MODULE MCAccounts -----------------------------
EXTENDS Accounts, TLC

CONSTANTS github, google, hub, hub2, goo, mail

(* One person's two GitHub accounts and Google account. *)
Provided == [i \in Identities |-> IF i = goo THEN google ELSE github]
OneMail == [i \in Identities |-> mail]

RequestSymmetry == Permutations(Slots) \union Permutations(Logins)
=============================================================================
