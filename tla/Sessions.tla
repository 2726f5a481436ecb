------------------------------- MODULE Sessions -------------------------------
(***************************************************************************)
(* Sessions on the server: the store of credentials and user bindings      *)
(* (core/credentials.py), the store of EDGAR identities                    *)
(* (core/edgar_identity.py), both in memory under the session id of the    *)
(* cookie, both with a sliding lifetime and without a thread: an operation *)
(* drops the entry it looks at if that is too old, and once per lifetime   *)
(* whatever else is.  The routes that mint, rotate and close sessions      *)
(* (api/routes/session.py, auth.py) clear both.  A request may carry any   *)
(* id that was ever minted: it may have been under way when its cookie was *)
(* replaced.  An operation happens at one instant.                         *)
(***************************************************************************)
EXTENDS Naturals, Functions

CONSTANTS Ids,     \* session ids that can be minted
          Users,   \* ids of user rows
          TTL,     \* ttl_seconds, the same for both stores
          MaxTime  \* how long the clock runs (a bound)

ASSUME SessionAssumption == TTL \in Nat \ {0} /\ MaxTime \in Nat /\ "none" \notin Users \cup Ids

VARIABLES
  now,                  \* time.monotonic
  creds, credsSwept,    \* the credential store: _sessions, _last_sweep
  edgar, edgarSwept,    \* the identity store: _entries, _last_sweep
  credsAt, edgarAt,     \* history: when each store was last operated on
  minted, closed,       \* ids handed out; ids rotated away or logged out
  late,                 \* history: closed ids that a late request used again
  deleted               \* users whose row is gone

credsVars == <<creds, credsSwept, credsAt>>
edgarVars == <<edgar, edgarSwept, edgarAt>>
idVars    == <<minted, closed, late, deleted>>
vars      == <<now, credsVars, edgarVars, idVars>>

None     == "none"
Entry    == [keys : BOOLEAN, user : Users \cup {None}, touched : 0..MaxTime]
Identity == [touched : 0..MaxTime]

Init ==
  /\ now = 0
  /\ creds = [s \in {} |-> None] /\ credsSwept = 0 /\ credsAt = 0
  /\ edgar = [s \in {} |-> None] /\ edgarSwept = 0 /\ edgarAt = 0
  /\ minted = {} /\ closed = {} /\ late = {} /\ deleted = {}

-----------------------------------------------------------------------------
(* What both stores do.                                                    *)

Current(e) == {s \in DOMAIN e : now <= e[s].touched + TTL}

Without(e, s) == Restrict(e, DOMAIN e \ {s})

With(e, s, v) == [x \in DOMAIN e \cup {s} |-> IF x = s THEN v ELSE e[x]]

SweepDue(last) == now >= last + TTL

\* Mutant: the pass drops what is about to expire.
SweepEarly(e, last) ==
  IF SweepDue(last) THEN Restrict(e, {s \in DOMAIN e : now < e[s].touched + TTL}) ELSE e

Sweep(e, last) == IF SweepDue(last) THEN Restrict(e, Current(e)) ELSE e

EvictIfExpired(e, s) == IF s \in DOMAIN e \ Current(e) THEN Without(e, s) ELSE e

\* What an operation on session s finds.
Found(s)     == EvictIfExpired(Sweep(creds, credsSwept), s)
FoundId(s)   == EvictIfExpired(Sweep(edgar, edgarSwept), s)

NextSweep(last) == IF SweepDue(last) THEN now ELSE last

LeaveCreds(e) ==
  /\ creds' = e
  /\ credsSwept' = NextSweep(credsSwept)
  /\ credsAt' = now

LeaveEdgar(e) ==
  /\ edgar' = e
  /\ edgarSwept' = NextSweep(edgarSwept)
  /\ edgarAt' = now

Touched(e, s) == [e EXCEPT ![s].touched = now]

UserOf(e, s)  == IF s \in DOMAIN e THEN e[s].user ELSE None
HasKey(e, s)  == s \in DOMAIN e /\ e[s].keys

UsedLate(s) == late' = IF s \in closed THEN late \cup {s} ELSE late

-----------------------------------------------------------------------------
(* The credential store.  No route of this version stores a key under a    *)
(* session: StoreKey and DropKey are the store's interface.                *)

StoreKey(s) ==
  /\ LeaveCreds(With(Found(s), s, [keys |-> TRUE, user |-> UserOf(Found(s), s), touched |-> now]))
  /\ UsedLate(s)
  /\ UNCHANGED <<now, edgarVars, minted, closed, deleted>>

ReadKey(s) ==
  /\ LeaveCreds(IF HasKey(Found(s), s) THEN Touched(Found(s), s) ELSE Found(s))
  /\ UNCHANGED <<now, edgarVars, idVars>>

ListKeys(s) ==
  /\ LeaveCreds(Found(s))
  /\ UNCHANGED <<now, edgarVars, idVars>>

\* A bound entry outlives its last key.
DropKey(s) ==
  /\ LeaveCreds(IF s \notin DOMAIN Found(s) THEN Found(s)
                ELSE IF UserOf(Found(s), s) = None THEN Without(Found(s), s)
                ELSE [Found(s) EXCEPT ![s].keys = FALSE])
  /\ UNCHANGED <<now, edgarVars, idVars>>

Bound(e, s, u) == With(e, s, [keys |-> HasKey(e, s), user |-> u, touched |-> now])

Unbound(e, s) == IF HasKey(e, s) THEN [e EXCEPT ![s].user = None] ELSE Without(e, s)

\* _resolve_active_user: a read of the binding, undone if the row is gone.
ResolveUser(s) ==
  /\ LET u == UserOf(Found(s), s) IN
       LeaveCreds(IF u = None THEN Found(s)
                  ELSE IF u \in deleted THEN Unbound(Touched(Found(s), s), s)
                  ELSE Touched(Found(s), s))
  /\ UNCHANGED <<now, edgarVars, idVars>>

-----------------------------------------------------------------------------
(* The identity store.                                                     *)

\* set overwrites without looking; the resolver of a request reads.
RegisterIdentity(s) ==
  /\ LeaveEdgar(With(Sweep(edgar, edgarSwept), s, [touched |-> now]))
  /\ UsedLate(s)
  /\ UNCHANGED <<now, credsVars, minted, closed, deleted>>

ReadIdentity(s) ==
  /\ LeaveEdgar(IF s \in DOMAIN FoundId(s) THEN Touched(FoundId(s), s) ELSE FoundId(s))
  /\ UNCHANGED <<now, credsVars, idVars>>

ClearIdentity(s) ==
  /\ LeaveEdgar(Without(Sweep(edgar, edgarSwept), s))
  /\ UNCHANGED <<now, credsVars, idVars>>

-----------------------------------------------------------------------------
(* The session routes.                                                     *)

Cleared(s)   == Without(Sweep(creds, credsSwept), s)
ClearedId(s) == Without(Sweep(edgar, edgarSwept), s)

CloseBoth(s) == LeaveCreds(Cleared(s)) /\ LeaveEdgar(ClearedId(s))

Fresh(s) == s \in Ids \ minted /\ minted' = minted \cup {s}

\* POST /api/session with and without a cookie.
MintSession(prior, new) ==
  /\ Fresh(new)
  /\ IF prior = None THEN UNCHANGED <<credsVars, edgarVars>> ELSE CloseBoth(prior)
  /\ closed' = closed \cup ({prior} \ {None})
  /\ late' = late \ {prior}
  /\ UNCHANGED <<now, deleted>>

\* Mutant: a login keeps the id the request came with.
LoginInPlace(prior, new, u) ==
  /\ Fresh(new)
  /\ LET s == IF prior = None THEN new ELSE prior
     IN LeaveCreds(Bound(Found(s), s, u))
  /\ UNCHANGED <<now, edgarVars, closed, late, deleted>>

\* POST /api/auth/login after the proof was accepted: rotate, then bind the
\* fresh id.
Login(prior, new, u) ==
  /\ Fresh(new)
  /\ LET e == IF prior = None THEN Sweep(creds, credsSwept) ELSE Cleared(prior)
     IN LeaveCreds(Bound(EvictIfExpired(e, new), new, u))
  /\ IF prior = None THEN UNCHANGED edgarVars ELSE LeaveEdgar(ClearedId(prior))
  /\ closed' = closed \cup ({prior} \ {None})
  /\ late' = late \ {prior}
  /\ UNCHANGED <<now, deleted>>

\* POST /api/session/logout and DELETE /api/auth/session, which reads and drops
\* the binding first.
Logout(s) ==
  /\ CloseBoth(s)
  /\ closed' = closed \cup {s}
  /\ late' = late \ {s}
  /\ UNCHANGED <<now, minted, deleted>>

-----------------------------------------------------------------------------
DeleteUser(u) ==
  /\ deleted' = deleted \cup {u}
  /\ UNCHANGED <<now, credsVars, edgarVars, minted, closed, late>>

Tick ==
  /\ now < MaxTime
  /\ now' = now + 1
  /\ UNCHANGED <<credsVars, edgarVars, idVars>>

\* The process restarts: cookies stay with the browsers, the stores are new.
Restart ==
  /\ creds' = [s \in {} |-> None] /\ credsSwept' = now /\ credsAt' = now
  /\ edgar' = [s \in {} |-> None] /\ edgarSwept' = now /\ edgarAt' = now
  /\ late' = {}
  /\ UNCHANGED <<now, minted, closed, deleted>>

Request(s) ==
  \/ StoreKey(s) \/ ReadKey(s) \/ ListKeys(s) \/ DropKey(s) \/ ResolveUser(s)
  \/ RegisterIdentity(s) \/ ReadIdentity(s) \/ ClearIdentity(s) \/ Logout(s)

Next ==
  \/ Tick \/ Restart
  \/ \E u \in Users : DeleteUser(u)
  \/ \E s \in minted : Request(s)
  \/ \E prior \in minted \cup {None}, new \in Ids :
       \/ MintSession(prior, new)
       \/ \E u \in Users \ deleted : Login(prior, new, u)

Spec == Init /\ [][Next]_vars

-----------------------------------------------------------------------------
TypeOK ==
  /\ now \in 0..MaxTime
  /\ minted \subseteq Ids /\ closed \subseteq minted /\ late \subseteq closed
  /\ deleted \subseteq Users
  /\ DOMAIN creds \subseteq minted /\ \A s \in DOMAIN creds : creds[s] \in Entry
  /\ DOMAIN edgar \subseteq minted /\ \A s \in DOMAIN edgar : edgar[s] \in Identity
  /\ {credsSwept, edgarSwept, credsAt, edgarAt} \subseteq 0..MaxTime

\* "An abandoned session is therefore evicted within 2 * ttl_seconds of its last
\* use (expiry at ttl, swept on the next op up to one further ttl later)": an
\* operation leaves nothing that old behind, whichever session it was for.
SweptInTime ==
  /\ \A s \in DOMAIN creds : credsAt < creds[s].touched + 2 * TTL
  /\ \A s \in DOMAIN edgar : edgarAt < edgar[s].touched + 2 * TTL

\* "A rotated, logged-out or abandoned session_id can never keep authorising
\* user-tier writes": once closed, an id stays without a user whatever requests
\* still arrive under it.
ClosedNeverBound == \A s \in closed : UserOf(creds, s) = None

\* Both stores are cleared in lockstep: nothing is left under a closed id, other
\* than what a request that arrived later put there.
ClosedTogether == \A s \in closed \ late : s \notin DOMAIN creds \cup DOMAIN edgar

\* An entry within its lifetime goes by a request for its own session, never by
\* the requests of others or by the clock.
CredsUsed ==
  \A s \in Current(creds) \ DOMAIN creds' :
    \/ Restart \/ s \in closed'
    \/ DropKey(s) /\ creds[s].user = None
    \/ ResolveUser(s) /\ creds[s].user \in deleted /\ ~creds[s].keys

\* The same of an identity.
EdgarUsed ==
  \A s \in Current(edgar) \ DOMAIN edgar' : Restart \/ s \in closed' \/ ClearIdentity(s)

\* An entry that was idle for longer than its lifetime is not revived by the next
\* request, even before any sweep: what that request leaves is new, and has no
\* user.
CredsIdle ==
  \A s \in DOMAIN creds \ Current(creds) :
    s \in DOMAIN creds' /\ creds'[s] # creds[s] => StoreKey(s) /\ creds'[s].user = None

\* The same of an identity, which has no user.
EdgarIdle ==
  \A s \in DOMAIN edgar \ Current(edgar) :
    s \in DOMAIN edgar' /\ edgar'[s] # edgar[s] => RegisterIdentity(s)

\* What the stores hold of a session at any moment: nothing two lifetimes old,
\* and nothing of a closed one.
SessionsSound == SweptInTime /\ ClosedNeverBound /\ ClosedTogether

\* The lifetime of an entry, from both sides.
LifetimeKept == [][CredsUsed /\ EdgarUsed /\ CredsIdle /\ EdgarIdle]_vars
=============================================================================
