----------------------------- MODULE MCIdentity -----------------------------
(***************************************************************************)
(* What a user's identity rests on: the session stores of a process, and   *)
(* the row of the account with the pages that hold its vault.  A behaviour *)
(* exercises one of them while the other stands still.                     *)
(***************************************************************************)
EXTENDS Sessions, Accounts, TLC

VARIABLE part

IdentityInit == part \in {"sessions", "accounts"} /\ Init /\ AccountsInit
IdentityNext ==
  /\ UNCHANGED part
  /\ \/ part = "sessions" /\ Next /\ UNCHANGED accountVars
     \/ part = "accounts" /\ AccountsNext /\ UNCHANGED vars
IdentitySpec == IdentityInit /\ [][IdentityNext]_<<part, vars, accountVars>>

\* Session ids are interchangeable, and so are tabs and keys.
Interchangeable == UNION {Permutations(s) : s \in {Ids, Tabs, Items}}
=============================================================================
