------------------------------- MODULE Accounts -------------------------------
(***************************************************************************)
(* One user name: its row in the users table (database/users.py) with the  *)
(* lockout counter and the sealed vault, the account routes                *)
(* (api/routes/auth.py, users.py), and the browser tabs that open the      *)
(* vault, change it and send it back whole (frontend user-vault.ts).  The  *)
(* server never opens a vault: proof and sealing key both come from the    *)
(* password and the salt of the row, so both are named here by the number  *)
(* of the salt.  A handler runs to its end between two requests, and a     *)
(* request or its answer may be lost.  A session ends at any time (Sessions *)
(* says when it may).  Each tab has a cookie of its own.                   *)
(***************************************************************************)
EXTENDS Naturals

CONSTANTS Tabs,
          Items,      \* rows of the providers page, one key entered in each
          Threshold,  \* DEFAULT_LOCKOUT_THRESHOLD
          MaxRows,    \* enrolments (a bound)
          MaxSalts,   \* salts drawn (a bound)
          MaxFails    \* failures counted (a bound)

ASSUME AccountAssumption ==
  /\ Threshold \in Nat \ {0} /\ MaxFails \in Nat
  /\ MaxRows \in Nat /\ MaxSalts \in Nat
  /\ Items \cap {"tab", "login", "change"} = {}

VARIABLES
  row,        \* the row, id 0 if there is none
  rows,       \* ids given out (AUTOINCREMENT)
  salts,      \* salts drawn so far
  tab,        \* liveKek, liveMap and liveSession of each tab, and the user its
              \* session is bound to, 0 for none (once the page is closed, only
              \* calls under way carry the session)
  login, change,  \* the login and the password change a tab has under way
  upload,     \* the save under way in each row of a tab's page
  guesses,    \* history: wrong proofs examined since the last success or unlock;
              \* a lock that expires gives one back
  enteredFor, \* history: the row a key was entered for
  kept,       \* history: keys whose upload the user saw succeed
  current,    \* history: copies and requests made from the vault as it is now
  overwrote   \* history: a write was based on an older vault (from then on
              \* current is left empty)

rowVars  == <<row, rows, salts>>
tabVars  == <<tab, login, upload, change>>
histVars == <<guesses, enteredFor, kept, current, overwrote>>
accountVars     == <<rowVars, tabVars, histVars>>

NoRow == [id |-> 0, hash |-> 0, kek |-> 0, items |-> {}, fails |-> 0, locked |-> FALSE]
Shut  == [id |-> 0, kek |-> 0, items |-> {}, bound |-> 0]
Idle  == [stage |-> "idle", id |-> 0, old |-> 0, kek |-> 0, items |-> {}]

AccountsInit ==
  /\ row = NoRow /\ rows = 0 /\ salts = 0
  /\ tab = [b \in Tabs |-> Shut]
  /\ login = [b \in Tabs |-> Idle]
  /\ upload = [b \in Tabs |-> [i \in Items |-> Idle]]
  /\ change = [b \in Tabs |-> Idle]
  /\ guesses = 0 /\ enteredFor = [i \in {} |-> 0] /\ kept = {}
  /\ current = {} /\ overwrote = FALSE

-----------------------------------------------------------------------------
(* The row.                                                                *)

\* Enrolment with a token: refused while the name has a row.
Enrol ==
  /\ row = NoRow /\ rows < MaxRows /\ salts < MaxSalts
  /\ row' = [NoRow EXCEPT !.id = rows + 1, !.hash = salts + 1, !.kek = salts + 1]
  /\ rows' = rows + 1 /\ salts' = salts + 1
  /\ guesses' = 0 /\ kept' = {} /\ current' = {} /\ overwrote' = FALSE
  /\ UNCHANGED <<tabVars, enteredFor>>

DeleteRow ==
  /\ row # NoRow
  /\ row' = NoRow
  /\ guesses' = 0 /\ kept' = {} /\ current' = {} /\ overwrote' = FALSE
  /\ UNCHANGED <<rows, salts, tabVars, enteredFor>>

Unlock ==
  /\ row # NoRow
  /\ row' = [row EXCEPT !.fails = 0, !.locked = FALSE]
  /\ guesses' = 0
  /\ UNCHANGED <<rows, salts, tabVars, enteredFor, kept, current, overwrote>>

\* The time in locked_until is reached: the count stays.
LockExpires ==
  /\ row.locked
  /\ row' = [row EXCEPT !.locked = FALSE]
  /\ guesses' = Threshold - 1
  /\ UNCHANGED <<rows, salts, tabVars, enteredFor, kept, current, overwrote>>

Examined == row # NoRow /\ ~row.locked

\* _record_failure and _record_success.
Failed(r) == [r EXCEPT !.fails = @ + 1, !.locked = (r.fails + 1 >= Threshold)]
Passed(r) == [r EXCEPT !.fails = 0, !.locked = FALSE]

RecordFailure ==
  /\ Examined /\ row.fails < MaxFails
  /\ row' = Failed(row)
  /\ guesses' = guesses + 1

\* Somebody's login with a wrong password.
WrongProof ==
  /\ RecordFailure
  /\ UNCHANGED <<rows, salts, tabVars, enteredFor, kept, current, overwrote>>

-----------------------------------------------------------------------------
(* Login: ask for the salt, derive proof and key, send the proof, open the *)
(* vault that comes back.                                                  *)

LoginParams(b) ==
  /\ tab[b] = Shut /\ login[b] = Idle /\ row # NoRow
  /\ login' = [login EXCEPT ![b] = [Idle EXCEPT !.stage = "proof", !.old = row.hash]]
  /\ UNCHANGED <<rowVars, tab, upload, change, histVars>>

\* A call made or under way when the session is gone is refused, whatever it says;
\* once the page is closed nobody waits for the answer.
Refusable == [Idle EXCEPT !.stage = "sent"]

Cut(b, c) == IF c.stage # "sent" THEN c ELSE IF tab[b] = Shut THEN Idle ELSE Refusable

CutOff(b) ==
  /\ upload' = [upload EXCEPT ![b] = [i \in Items |-> Cut(b, upload[b][i])]]
  /\ change' = [change EXCEPT ![b] = Cut(b, @)]

\* The prior session is closed, a fresh one bound to the user; the answer carries
\* the vault.
LoginAccepted(b) ==
  /\ login[b].stage = "proof" /\ Examined /\ login[b].old = row.hash
  /\ row' = Passed(row)
  /\ guesses' = 0
  /\ CutOff(b)
  /\ login' = [login EXCEPT ![b] = [stage |-> "ok", id |-> row.id, old |-> @.old,
                                    kek |-> row.kek, items |-> row.items]]
  /\ current' = IF overwrote THEN {} ELSE current \cup {<<b, "login">>}
  /\ UNCHANGED <<rows, salts, tab, enteredFor, kept, overwrote>>

\* The salt changed since it was asked for.
LoginRefused(b) ==
  /\ login[b].stage = "proof" /\ login[b].old # row.hash
  /\ RecordFailure
  /\ login' = [login EXCEPT ![b] = Idle]
  /\ UNCHANGED <<rows, salts, tab, upload, change, enteredFor, kept, current, overwrote>>

\* No row, a lock, a lost request or a lost answer, a password given up.
LoginFails(b) ==
  /\ login[b] # Idle
  /\ login' = [login EXCEPT ![b] = Idle]
  /\ current' = current \ {<<b, "login">>}
  /\ UNCHANGED <<rowVars, tab, upload, change, guesses, enteredFor, kept, overwrote>>

\* decryptVault rejects what was sealed under another key.
OpenVault(b) ==
  /\ login[b].stage = "ok"
  /\ tab' = [tab EXCEPT ![b] = IF login[b].kek = login[b].old
                               THEN [id |-> login[b].id, kek |-> login[b].kek,
                                     items |-> login[b].items, bound |-> login[b].id]
                               ELSE Shut]
  /\ login' = [login EXCEPT ![b] = Idle]
  /\ current' = IF <<b, "login">> \in current /\ login[b].kek = login[b].old
                THEN (current \ {<<b, "login">>}) \cup {<<b, "tab">>}
                ELSE current \ {<<b, "login">>}
  /\ UNCHANGED <<rowVars, upload, change, guesses, enteredFor, kept, overwrote>>

-----------------------------------------------------------------------------
(* What a tab sends is made from its own copy, and replaces the vault.     *)

MadeFrom(b, kind) == IF <<b, "tab">> \in current THEN current \cup {<<b, kind>>} ELSE current

\* A write: only what it was made from, and what it made, is the vault now.
Wrote(b, kind) ==
  /\ overwrote' = (overwrote \/ <<b, kind>> \notin current)
  /\ current' = IF overwrote' THEN {} ELSE {<<b, kind>>}

\* The answer to a write reached the tab: if nothing was written since, the tab
\* has the vault as it is.
Learnt(b, kind) ==
  current' = IF <<b, kind>> \in current
             THEN (current \ {<<b, kind>>}) \cup {<<b, "tab">>}
             ELSE current \ {<<b, "tab">>}

\* Mutant: the session remembers the name.
ActiveByName(c) == c.id # 0 /\ row # NoRow

\* _resolve_active_user.
Active(c) == c.id # 0 /\ c.id = row.id

Answer(b, c) == IF tab[b] = Shut THEN Idle ELSE [c EXCEPT !.stage = "ok"]

\* Mutant: the key is sent by itself.
WithoutTheRest(b, i) == {i}

WithKey(b, i) == tab[b].items \cup {i}

Call(b, kek, items, old) ==
  IF tab[b].bound = 0 THEN Refusable
  ELSE [stage |-> "sent", id |-> tab[b].bound, old |-> old, kek |-> kek, items |-> items]

\* mutateVault, called by a row of the page that is not saving yet.
SendVault(b, i) ==
  /\ tab[b] # Shut /\ upload[b][i] = Idle /\ i \notin DOMAIN enteredFor
  /\ upload' = [upload EXCEPT ![b][i] = Call(b, tab[b].kek, WithKey(b, i), 0)]
  /\ enteredFor' = [j \in DOMAIN enteredFor \cup {i} |-> IF j = i THEN tab[b].id ELSE enteredFor[j]]
  /\ current' = MadeFrom(b, i)
  /\ UNCHANGED <<rowVars, tab, login, change, guesses, kept, overwrote>>

\* POST /api/auth/vault.
HandleVault(b, i) ==
  /\ upload[b][i].stage = "sent" /\ Active(upload[b][i])
  /\ row' = [row EXCEPT !.kek = upload[b][i].kek, !.items = upload[b][i].items]
  /\ Wrote(b, i)
  /\ upload' = [upload EXCEPT ![b][i] = Answer(b, @)]
  /\ UNCHANGED <<rows, salts, tab, login, change, guesses, enteredFor, kept>>

VaultSaved(b, i) ==
  /\ upload[b][i].stage = "ok"
  /\ tab' = [tab EXCEPT ![b].items = upload[b][i].items]
  /\ kept' = IF upload[b][i].id = row.id THEN kept \cup {i} ELSE kept
  /\ upload' = [upload EXCEPT ![b][i] = Idle]
  /\ Learnt(b, i)
  /\ UNCHANGED <<rowVars, login, change, guesses, enteredFor, overwrote>>

\* Refused for want of a session, or lost on the way there or back.
VaultNotSaved(b, i) ==
  /\ upload[b][i] # Idle
  /\ upload' = [upload EXCEPT ![b][i] = Idle]
  /\ current' = current \ {<<b, i>>}
  /\ UNCHANGED <<rowVars, tab, login, change, guesses, enteredFor, kept, overwrote>>

-----------------------------------------------------------------------------
(* changePassword: ask for the old salt, draw a new one, seal the copy     *)
(* under the new key, send the old proof, the new proof and the vault.     *)

\* The salt asked for first may be older than the copy, and is then refused as if
\* it had been replaced while the call was under way.
SendChange(b) ==
  /\ tab[b] # Shut /\ change[b] = Idle /\ row # NoRow /\ salts < MaxSalts
  /\ salts' = salts + 1
  /\ change' = [change EXCEPT ![b] = Call(b, salts + 1, tab[b].items, row.hash)]
  /\ current' = MadeFrom(b, "change")
  /\ UNCHANGED <<row, rows, tab, login, upload, guesses, enteredFor, kept, overwrote>>

\* Mutant: salt and proof are replaced, the vault is not.
ReplacedHash(r, c) == [r EXCEPT !.hash = c.kek]

Replaced(r, c) == [r EXCEPT !.hash = c.kek, !.kek = c.kek, !.items = c.items]

\* POST /api/auth/password: verify_login, then update_password in one statement.
HandleChange(b) ==
  /\ change[b].stage = "sent" /\ Active(change[b]) /\ Examined
  /\ change[b].old = row.hash
  /\ row' = Replaced(Passed(row), change[b])
  /\ guesses' = 0
  /\ Wrote(b, "change")
  /\ change' = [change EXCEPT ![b] = Answer(b, @)]
  /\ UNCHANGED <<rows, salts, tab, login, upload, enteredFor, kept>>

\* The old proof counts as a guess.
ChangeRefused(b) ==
  /\ change[b].stage = "sent" /\ Active(change[b]) /\ change[b].old # row.hash
  /\ RecordFailure
  /\ change' = [change EXCEPT ![b] = Idle]
  /\ current' = current \ {<<b, "change">>}
  /\ UNCHANGED <<rows, salts, tab, login, upload, enteredFor, kept, overwrote>>

\* Only the key is replaced: the copy may have changed meanwhile.
Changed(b) ==
  /\ change[b].stage = "ok"
  /\ tab' = [tab EXCEPT ![b].kek = change[b].kek]
  /\ change' = [change EXCEPT ![b] = Idle]
  /\ Learnt(b, "change")
  /\ UNCHANGED <<rowVars, login, upload, guesses, enteredFor, kept, overwrote>>

ChangeFails(b) ==
  /\ change[b] # Idle
  /\ change' = [change EXCEPT ![b] = Idle]
  /\ current' = current \ {<<b, "change">>}
  /\ UNCHANGED <<rowVars, tab, login, upload, guesses, enteredFor, kept, overwrote>>

-----------------------------------------------------------------------------
\* The page is closed, or loaded anew after a sign-out: what was sent is on its way.
Orphan(c) == IF c.stage = "sent" THEN c ELSE Idle

ClosePage(b) ==
  /\ tab[b] # Shut
  /\ tab' = [tab EXCEPT ![b] = Shut]
  /\ upload' = [upload EXCEPT ![b] = [i \in Items |-> Orphan(upload[b][i])]]
  /\ change' = [change EXCEPT ![b] = Orphan(@)]
  /\ current' = current \ {<<b, "tab">>}
  /\ UNCHANGED <<rowVars, login, guesses, enteredFor, kept, overwrote>>

\* DELETE /api/auth/session, a lifetime that ran out, or a restart.
SessionEnds(b) ==
  /\ tab' = [tab EXCEPT ![b].bound = 0]
  /\ CutOff(b)
  /\ UNCHANGED <<rowVars, login, histVars>>

Save(b, i) == SendVault(b, i) \/ HandleVault(b, i) \/ VaultSaved(b, i) \/ VaultNotSaved(b, i)

Tab(b) ==
  \/ LoginParams(b) \/ LoginAccepted(b) \/ LoginRefused(b) \/ LoginFails(b) \/ OpenVault(b)
  \/ \E i \in Items : Save(b, i)
  \/ SendChange(b) \/ HandleChange(b) \/ ChangeRefused(b) \/ Changed(b) \/ ChangeFails(b)
  \/ ClosePage(b) \/ SessionEnds(b)

AccountsNext ==
  \/ Enrol \/ DeleteRow \/ Unlock \/ LockExpires \/ WrongProof
  \/ \E b \in Tabs : Tab(b)

AccountsSpec == AccountsInit /\ [][AccountsNext]_accountVars

-----------------------------------------------------------------------------
\* Password and vault agree: what the accepted proof comes from also opens the
\* vault, as long as no write was made from an older copy.
SealMatches == row # NoRow /\ ~overwrote => row.kek = row.hash

\* A key the user saw saved is in the vault, as long as no write was made from an
\* older copy.
NothingLost == ~overwrote => kept \subseteq row.items

\* A name that was deleted and enrolled again starts empty and stays apart: a
\* session, a tab or a request from before cannot write to the new row.
OnlyOwnKeys == \A i \in row.items : enteredFor[i] = row.id

\* A tab that opened the vault, or saw its own write succeed, with nothing written
\* since, holds the vault and its key, as long as no write was made from an older
\* copy: nothing it had under way in between leaves it with half of the two.
TabHoldsVault ==
  ~overwrote => \A b \in Tabs :
    <<b, "tab">> \in current => tab[b] = [id |-> row.id, kek |-> row.kek, items |-> row.items, bound |-> tab[b].bound]

\* Row, page and password fit together wherever no write was lost.
VaultOpens == SealMatches /\ TabHoldsVault
=============================================================================
