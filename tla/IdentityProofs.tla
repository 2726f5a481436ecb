---------------------------- MODULE IdentityProofs ----------------------------
(***************************************************************************)
(* Proofs about what a user's identity rests on: the two session stores,   *)
(* for any ids, users, lifetime and clock bound, and the row of the        *)
(* account with the pages that hold its vault, for any number of tabs,     *)
(* keys, enrolments and salts.                                             *)
(***************************************************************************)
EXTENDS Sessions, Accounts, TLAPS

-----------------------------------------------------------------------------
(* The session stores.                                                     *)

(***************************************************************************)
(* An operation takes entries out and at most changes the one it is for:   *)
(* Part says that a store holds nothing but entries of another.            *)
(***************************************************************************)
Part(f, e) == DOMAIN f \subseteq DOMAIN e /\ \A s \in DOMAIN f : f[s] = e[s]

\* Taking one entry out.
LEMMA WithoutPart ==
  ASSUME NEW e, NEW s
  PROVE  Part(Without(e, s), e) /\ s \notin DOMAIN Without(e, s)
  BY DEF Part, Without, Restrict

\* The pass over the whole store.
LEMMA SweepPart ==
  ASSUME NEW e, NEW last
  PROVE  Part(Sweep(e, last), e)
  BY DEF Part, Sweep, Current, Restrict

\* Dropping the entry that is looked at.
LEMMA EvictPart ==
  ASSUME NEW e, NEW s
  PROVE  Part(EvictIfExpired(e, s), e)
  BY DEF Part, EvictIfExpired, Without, Restrict

\* A part of a part is a part.
LEMMA PartTransitive ==
  ASSUME NEW e, NEW f, NEW g, Part(g, f), Part(f, e)
  PROVE  Part(g, e)
  BY DEF Part

(***************************************************************************)
(* The invariant.  A sweep leaves no entry whose lifetime ended before it, *)
(* and the next operation sweeps again once a lifetime has passed.         *)
(***************************************************************************)
Clocks ==
  /\ now \in 0..MaxTime
  /\ credsSwept \in 0..now /\ credsAt \in 0..now /\ credsAt < credsSwept + TTL
  /\ edgarSwept \in 0..now /\ edgarAt \in 0..now /\ edgarAt < edgarSwept + TTL

IdSets ==
  /\ minted \subseteq Ids /\ closed \subseteq minted /\ late \subseteq closed
  /\ deleted \subseteq Users

\* What holds of an entry v under session s, swept last at w.
CredOK(s, v, w) ==
  /\ s \in minted /\ v \in Entry /\ w <= v.touched + TTL
  /\ s \in closed => s \in late /\ v.user = None

IdentityOK(s, v, w) ==
  /\ s \in minted /\ v \in Identity /\ w <= v.touched + TTL
  /\ s \in closed => s \in late

CredsOK == \A s \in DOMAIN creds : CredOK(s, creds[s], credsSwept)
EdgarOK == \A s \in DOMAIN edgar : IdentityOK(s, edgar[s], edgarSwept)

SessionInv == Clocks /\ IdSets /\ CredsOK /\ EdgarOK

\* The four invariants of the runs follow.
LEMMA InvImplies == SessionInv => TypeOK /\ SweptInTime /\ ClosedNeverBound /\ ClosedTogether
<1> SUFFICES ASSUME SessionInv PROVE TypeOK /\ SweptInTime /\ ClosedNeverBound /\ ClosedTogether
  OBVIOUS
<1>1. TypeOK
  <2>1. {credsSwept, edgarSwept, credsAt, edgarAt} \subseteq 0..MaxTime
    BY SessionAssumption DEF SessionInv, Clocks
  <2>2. DOMAIN creds \subseteq minted /\ \A s \in DOMAIN creds : creds[s] \in Entry
    BY DEF SessionInv, CredsOK, CredOK
  <2>3. DOMAIN edgar \subseteq minted /\ \A s \in DOMAIN edgar : edgar[s] \in Identity
    BY DEF SessionInv, EdgarOK, IdentityOK
  <2> QED BY <2>1, <2>2, <2>3 DEF SessionInv, Clocks, IdSets, TypeOK
<1>2. SweptInTime
  <2>1. ASSUME NEW s \in DOMAIN creds PROVE credsAt < creds[s].touched + 2 * TTL
    <3>1. creds[s].touched \in Nat /\ credsSwept <= creds[s].touched + TTL
      BY SessionAssumption DEF SessionInv, CredsOK, CredOK, Entry
    <3> QED BY <3>1, SessionAssumption DEF SessionInv, Clocks
  <2>2. ASSUME NEW s \in DOMAIN edgar PROVE edgarAt < edgar[s].touched + 2 * TTL
    <3>1. edgar[s].touched \in Nat /\ edgarSwept <= edgar[s].touched + TTL
      BY SessionAssumption DEF SessionInv, EdgarOK, IdentityOK, Identity
    <3> QED BY <3>1, SessionAssumption DEF SessionInv, Clocks
  <2> QED BY <2>1, <2>2 DEF SweptInTime
<1>3. ClosedNeverBound
  BY DEF SessionInv, CredsOK, CredOK, ClosedNeverBound, UserOf
<1>4. ClosedTogether
  BY DEF SessionInv, CredsOK, EdgarOK, CredOK, IdentityOK, ClosedTogether
<1> QED BY <1>1, <1>2, <1>3, <1>4

\* Initially nothing is held.
LEMMA InitInv == Init => SessionInv
  BY SessionAssumption
  DEF Init, SessionInv, Clocks, IdSets, CredsOK, EdgarOK

(***************************************************************************)
(* What an operation finds after the pass that is due, for either store.   *)
(***************************************************************************)
LEMMA SweepTimes ==
  ASSUME SessionInv
  PROVE  /\ NextSweep(credsSwept) \in 0..now /\ now < NextSweep(credsSwept) + TTL
         /\ NextSweep(edgarSwept) \in 0..now /\ now < NextSweep(edgarSwept) + TTL
  BY SessionAssumption DEF SessionInv, Clocks, NextSweep, SweepDue

\* What the sweep leaves in the credential store is in order for the next one.
LEMMA SweptCreds ==
  ASSUME SessionInv, NEW f, Part(f, Sweep(creds, credsSwept))
  PROVE  \A s \in DOMAIN f : CredOK(s, f[s], NextSweep(credsSwept))
<1> TAKE s \in DOMAIN f
<1>1. s \in DOMAIN Sweep(creds, credsSwept) /\ f[s] = Sweep(creds, credsSwept)[s]
  BY DEF Part
<1>2. Part(Sweep(creds, credsSwept), creds)
  BY SweepPart
<1>3. s \in DOMAIN creds /\ f[s] = creds[s]
  BY <1>1, <1>2 DEF Part
<1>4. CredOK(s, creds[s], credsSwept)
  BY <1>3 DEF SessionInv, CredsOK
<1>5. NextSweep(credsSwept) <= creds[s].touched + TTL
  <2>1. CASE SweepDue(credsSwept)
    <3>1. s \in Current(creds)
      BY <1>1, <2>1 DEF Sweep, Restrict
    <3> QED BY <3>1, <2>1 DEF Current, NextSweep
  <2>2. CASE ~SweepDue(credsSwept)
    BY <2>2, <1>4 DEF NextSweep, CredOK
  <2> QED BY <2>1, <2>2
<1> QED BY <1>3, <1>4, <1>5 DEF CredOK

\* The same for the identity store.
LEMMA SweptEdgar ==
  ASSUME SessionInv, NEW f, Part(f, Sweep(edgar, edgarSwept))
  PROVE  \A s \in DOMAIN f : IdentityOK(s, f[s], NextSweep(edgarSwept))
<1> TAKE s \in DOMAIN f
<1>1. s \in DOMAIN Sweep(edgar, edgarSwept) /\ f[s] = Sweep(edgar, edgarSwept)[s]
  BY DEF Part
<1>2. Part(Sweep(edgar, edgarSwept), edgar)
  BY SweepPart
<1>3. s \in DOMAIN edgar /\ f[s] = edgar[s]
  BY <1>1, <1>2 DEF Part
<1>4. IdentityOK(s, edgar[s], edgarSwept)
  BY <1>3 DEF SessionInv, EdgarOK
<1>5. NextSweep(edgarSwept) <= edgar[s].touched + TTL
  <2>1. CASE SweepDue(edgarSwept)
    <3>1. s \in Current(edgar)
      BY <1>1, <2>1 DEF Sweep, Restrict
    <3> QED BY <3>1, <2>1 DEF Current, NextSweep
  <2>2. CASE ~SweepDue(edgarSwept)
    BY <2>2, <1>4 DEF NextSweep, IdentityOK
  <2> QED BY <2>1, <2>2
<1> QED BY <1>3, <1>4, <1>5 DEF IdentityOK

\* What an operation finds, and what a clearing leaves, is part of the swept store.
LEMMA FoundParts ==
  ASSUME NEW s
  PROVE  /\ Part(Found(s), Sweep(creds, credsSwept))
         /\ Part(FoundId(s), Sweep(edgar, edgarSwept))
         /\ Part(Cleared(s), Sweep(creds, credsSwept)) /\ s \notin DOMAIN Cleared(s)
         /\ Part(ClearedId(s), Sweep(edgar, edgarSwept)) /\ s \notin DOMAIN ClearedId(s)
  BY EvictPart, WithoutPart DEF Found, FoundId, Cleared, ClearedId

(***************************************************************************)
(* The entries an operation may leave.                                     *)
(***************************************************************************)
LeavesCreds(f) == \A s \in DOMAIN f : CredOK(s, f[s], NextSweep(credsSwept))
LeavesEdgar(f) == \A s \in DOMAIN f : IdentityOK(s, f[s], NextSweep(edgarSwept))

\* Taking more out leaves a store in order.
LEMMA PartLeaves ==
  ASSUME NEW f, NEW g, LeavesCreds(f), Part(g, f)
  PROVE  LeavesCreds(g)
  BY DEF LeavesCreds, Part

\* Touching an entry leaves a store in order.
LEMMA TouchedLeaves ==
  ASSUME SessionInv, NEW f, NEW s \in DOMAIN f, LeavesCreds(f)
  PROVE  LeavesCreds(Touched(f, s)) /\ DOMAIN Touched(f, s) = DOMAIN f
<1>1. DOMAIN Touched(f, s) = DOMAIN f
  BY DEF Touched
<1>2. ASSUME NEW t \in DOMAIN f PROVE CredOK(t, Touched(f, s)[t], NextSweep(credsSwept))
  <2>1. CredOK(t, f[t], NextSweep(credsSwept))
    BY DEF LeavesCreds
  <2>2. CASE t # s
    BY <2>1, <2>2 DEF Touched
  <2>3. CASE t = s
    <3>1. Touched(f, s)[t] = [f[s] EXCEPT !.touched = now]
      BY <2>3 DEF Touched
    <3>2. f[s] \in Entry /\ now \in 0..MaxTime
      BY <2>1, <2>3 DEF CredOK, SessionInv, Clocks
    <3>3. [f[s] EXCEPT !.touched = now] \in Entry
      BY <3>2 DEF Entry
    <3>4. /\ [f[s] EXCEPT !.touched = now].touched = now
          /\ [f[s] EXCEPT !.touched = now].user = f[s].user
      BY <3>2 DEF Entry
    <3>5. NextSweep(credsSwept) <= now + TTL
      BY SweepTimes, SessionAssumption DEF SessionInv, Clocks
    <3> QED BY <2>1, <2>3, <3>1, <3>3, <3>4, <3>5 DEF CredOK
  <2> QED BY <2>2, <2>3
<1> QED BY <1>1, <1>2 DEF LeavesCreds

\* So does dropping its keys or its user.
LEMMA FieldLeaves ==
  ASSUME NEW f, NEW s \in DOMAIN f, LeavesCreds(f)
  PROVE  /\ LeavesCreds([f EXCEPT ![s].keys = FALSE])
         /\ LeavesCreds([f EXCEPT ![s].user = None])
<1>1. f[s] \in Entry /\ CredOK(s, f[s], NextSweep(credsSwept))
  BY DEF LeavesCreds, CredOK
<1>2. CredOK(s, [f[s] EXCEPT !.keys = FALSE], NextSweep(credsSwept))
  <2>1. /\ [f[s] EXCEPT !.keys = FALSE] \in Entry
        /\ [f[s] EXCEPT !.keys = FALSE].touched = f[s].touched
        /\ [f[s] EXCEPT !.keys = FALSE].user = f[s].user
    BY <1>1 DEF Entry
  <2> QED BY <1>1, <2>1 DEF CredOK
<1>3. CredOK(s, [f[s] EXCEPT !.user = None], NextSweep(credsSwept))
  <2>1. /\ [f[s] EXCEPT !.user = None] \in Entry
        /\ [f[s] EXCEPT !.user = None].touched = f[s].touched
        /\ [f[s] EXCEPT !.user = None].user = None
    BY <1>1 DEF Entry
  <2> QED BY <1>1, <2>1 DEF CredOK
<1> QED BY <1>2, <1>3 DEF LeavesCreds

\* Every operation begins with a store in order.
LEMMA FoundLeaves ==
  ASSUME SessionInv, NEW s
  PROVE  /\ LeavesCreds(Found(s)) /\ LeavesCreds(Cleared(s)) /\ LeavesCreds(Sweep(creds, credsSwept))
         /\ LeavesEdgar(FoundId(s)) /\ LeavesEdgar(ClearedId(s)) /\ LeavesEdgar(Sweep(edgar, edgarSwept))
<1>1. Part(Sweep(creds, credsSwept), Sweep(creds, credsSwept))
  BY DEF Part
<1>2. Part(Sweep(edgar, edgarSwept), Sweep(edgar, edgarSwept))
  BY DEF Part
<1> QED BY <1>1, <1>2, FoundParts, SweptCreds, SweptEdgar DEF LeavesCreds, LeavesEdgar

\* The clocks after any operation on one store, on both, or on none.
LEMMA ClocksStep ==
  ASSUME SessionInv, now' = now,
         \/ credsSwept' = NextSweep(credsSwept) /\ credsAt' = now
         \/ UNCHANGED <<credsSwept, credsAt>>,
         \/ edgarSwept' = NextSweep(edgarSwept) /\ edgarAt' = now
         \/ UNCHANGED <<edgarSwept, edgarAt>>
  PROVE  Clocks'
  BY SweepTimes, SessionAssumption DEF SessionInv, Clocks

\* An operation on the credential store alone that leaves the ids alone.
LEMMA CredsOnly ==
  ASSUME SessionInv, NEW f, LeaveCreds(f), LeavesCreds(f), UNCHANGED <<now, edgarVars, idVars>>
  PROVE  SessionInv'
<1>1. Clocks'
  BY ClocksStep DEF LeaveCreds, edgarVars
<1>2. IdSets' /\ EdgarOK'
  BY DEF SessionInv, IdSets, EdgarOK, IdentityOK, idVars, edgarVars
<1>3. CredsOK'
  BY DEF LeaveCreds, LeavesCreds, CredsOK, CredOK, idVars
<1> QED BY <1>1, <1>2, <1>3 DEF SessionInv

\* An operation on the identity store alone.
LEMMA EdgarOnly ==
  ASSUME SessionInv, NEW f, LeaveEdgar(f), LeavesEdgar(f), UNCHANGED <<now, credsVars, idVars>>
  PROVE  SessionInv'
<1>1. Clocks'
  BY ClocksStep DEF LeaveEdgar, credsVars
<1>2. IdSets' /\ CredsOK'
  BY DEF SessionInv, IdSets, CredsOK, CredOK, idVars, credsVars
<1>3. EdgarOK'
  BY DEF LeaveEdgar, LeavesEdgar, EdgarOK, IdentityOK, idVars
<1> QED BY <1>1, <1>2, <1>3 DEF SessionInv

\* The operations that read the credential store, or drop a key from it.
LEMMA ReadsKeep ==
  ASSUME SessionInv, NEW s \in minted, ReadKey(s) \/ ListKeys(s) \/ DropKey(s) \/ ResolveUser(s)
  PROVE  SessionInv'
<1> DEFINE f == Found(s)
<1>f. LeavesCreds(f)
  BY FoundLeaves
<1>1. CASE ReadKey(s)
  <2>1. LeavesCreds(IF HasKey(f, s) THEN Touched(f, s) ELSE f)
    BY <1>f, TouchedLeaves DEF HasKey
  <2> QED BY <1>1, <2>1, CredsOnly DEF ReadKey
<1>2. CASE ListKeys(s)
  BY <1>2, <1>f, CredsOnly DEF ListKeys
<1>3. CASE DropKey(s)
  <2> DEFINE g == IF s \notin DOMAIN f THEN f
                  ELSE IF UserOf(f, s) = None THEN Without(f, s)
                  ELSE [f EXCEPT ![s].keys = FALSE]
  <2>1. LeavesCreds(Without(f, s))
    BY <1>f, WithoutPart, PartLeaves
  <2>2. LeavesCreds(g)
    BY <1>f, <2>1, FieldLeaves
  <2>3. LeaveCreds(g) /\ UNCHANGED <<now, edgarVars, idVars>>
    BY <1>3 DEF DropKey
  <2> HIDE DEF g
  <2> QED BY <2>2, <2>3, CredsOnly
<1>4. CASE ResolveUser(s)
  <2> DEFINE u == UserOf(f, s)
             t == Touched(f, s)
             g == IF u = None THEN f ELSE IF u \in deleted THEN Unbound(t, s) ELSE t
  <2>1. LeaveCreds(g) /\ UNCHANGED <<now, edgarVars, idVars>>
    BY <1>4 DEF ResolveUser
  <2>2. ASSUME u # None PROVE s \in DOMAIN f
    BY <2>2 DEF UserOf
  <2>3. ASSUME u # None PROVE LeavesCreds(t) /\ s \in DOMAIN t
    BY <2>2, <2>3, <1>f, TouchedLeaves
  <2>4. ASSUME u # None PROVE LeavesCreds(Unbound(t, s))
    <3>1. LeavesCreds(Without(t, s))
      BY <2>3, <2>4, WithoutPart, PartLeaves
    <3>2. LeavesCreds([t EXCEPT ![s].user = None])
      BY <2>3, <2>4, FieldLeaves
    <3> QED BY <3>1, <3>2 DEF Unbound
  <2>5. LeavesCreds(g)
    BY <1>f, <2>3, <2>4
  <2> HIDE DEF g
  <2> QED BY <2>1, <2>5, CredsOnly
<1> QED BY <1>1, <1>2, <1>3, <1>4

\* The operations that read the identity store or clear an identity.
LEMMA IdentityReadsKeep ==
  ASSUME SessionInv, NEW s \in minted, ReadIdentity(s) \/ ClearIdentity(s)
  PROVE  SessionInv'
<1>1. CASE ReadIdentity(s)
  <2> DEFINE f == FoundId(s)
             g == IF s \in DOMAIN f THEN Touched(f, s) ELSE f
  <2>1. LeavesEdgar(f)
    BY FoundLeaves
  <2>2. ASSUME s \in DOMAIN f, NEW t \in DOMAIN f
        PROVE  IdentityOK(t, Touched(f, s)[t], NextSweep(edgarSwept))
    <3>1. IdentityOK(t, f[t], NextSweep(edgarSwept))
      BY <2>1 DEF LeavesEdgar
    <3>2. CASE t # s
      BY <3>1, <3>2 DEF Touched
    <3>3. CASE t = s
      <4>1. Touched(f, s)[t] = [f[s] EXCEPT !.touched = now]
        BY <3>3, <2>2 DEF Touched
      <4>2. f[s] \in Identity /\ now \in 0..MaxTime
        BY <3>1, <3>3 DEF IdentityOK, SessionInv, Clocks
      <4>3. /\ [f[s] EXCEPT !.touched = now] \in Identity
            /\ [f[s] EXCEPT !.touched = now].touched = now
        BY <4>2 DEF Identity
      <4>4. NextSweep(edgarSwept) <= now + TTL
        BY SweepTimes, SessionAssumption DEF SessionInv, Clocks
      <4> QED BY <3>1, <3>3, <4>1, <4>3, <4>4 DEF IdentityOK
    <3> QED BY <3>2, <3>3
  <2>3. DOMAIN Touched(f, s) = DOMAIN f
    BY DEF Touched
  <2>4. LeavesEdgar(g)
    BY <2>1, <2>2, <2>3 DEF LeavesEdgar
  <2>5. LeaveEdgar(g) /\ UNCHANGED <<now, credsVars, idVars>>
    BY <1>1 DEF ReadIdentity
  <2> HIDE DEF g
  <2> QED BY <2>4, <2>5, EdgarOnly
<1>2. CASE ClearIdentity(s)
  <2>1. LeaveEdgar(ClearedId(s)) /\ UNCHANGED <<now, credsVars, idVars>>
    BY <1>2 DEF ClearIdentity, ClearedId
  <2> QED BY <2>1, FoundLeaves, EdgarOnly
<1> QED BY <1>1, <1>2

\* A key is stored under a minted session.
LEMMA StoreKeyKeeps ==
  ASSUME SessionInv, NEW s \in minted, StoreKey(s)
  PROVE  SessionInv'
<1> DEFINE f == Found(s)
           v == [keys |-> TRUE, user |-> UserOf(f, s), touched |-> now]
<1>1. LeavesCreds(f)
  BY FoundLeaves
<1>2. UserOf(f, s) \in Users \cup {None} /\ (s \in closed => UserOf(f, s) = None)
  BY <1>1 DEF UserOf, LeavesCreds, CredOK, Entry
<1>3. v \in Entry /\ v.user = UserOf(f, s) /\ NextSweep(credsSwept) <= v.touched + TTL
  BY <1>2, SweepTimes, SessionAssumption DEF Entry, SessionInv, Clocks
<1>4. /\ creds' = With(f, s, v) /\ credsSwept' = NextSweep(credsSwept)
      /\ UNCHANGED <<now, edgarVars, minted, closed, deleted>>
      /\ late' = IF s \in closed THEN late \cup {s} ELSE late
  BY DEF StoreKey, LeaveCreds, UsedLate
<1>5. Clocks'
  BY ClocksStep DEF StoreKey, LeaveCreds, edgarVars
<1>6. IdSets' /\ EdgarOK'
  BY <1>4 DEF SessionInv, IdSets, EdgarOK, IdentityOK, edgarVars
<1>7. ASSUME NEW t \in DOMAIN creds'
      PROVE  /\ t \in minted' /\ creds'[t] \in Entry /\ credsSwept' <= creds'[t].touched + TTL
             /\ t \in closed' => t \in late' /\ creds'[t].user = None
  <2>1. CASE t = s
    <3>1. creds'[t] = v
      BY <1>4, <2>1 DEF With
    <3> HIDE DEF v
    <3> QED BY <2>1, <3>1, <1>2, <1>3, <1>4 DEF CredOK
  <2>2. CASE t # s
    <3>1. t \in DOMAIN f /\ creds'[t] = f[t]
      BY <1>4, <2>2 DEF With
    <3>2. CredOK(t, f[t], NextSweep(credsSwept))
      BY <1>1, <3>1 DEF LeavesCreds
    <3> HIDE DEF f
    <3> QED BY <3>1, <3>2, <1>4 DEF CredOK
  <2> QED BY <2>1, <2>2
<1>8. CredsOK'
  BY <1>7 DEF CredsOK, CredOK
<1> QED BY <1>5, <1>6, <1>8 DEF SessionInv

\* An identity is registered under a minted session.
LEMMA RegisterKeeps ==
  ASSUME SessionInv, NEW s \in minted, RegisterIdentity(s)
  PROVE  SessionInv'
<1> DEFINE f == Sweep(edgar, edgarSwept)
           v == [touched |-> now]
<1>1. LeavesEdgar(f)
  BY FoundLeaves
<1>2. v \in Identity /\ NextSweep(edgarSwept) <= v.touched + TTL
  BY SweepTimes, SessionAssumption DEF Identity, SessionInv, Clocks
<1>3. /\ edgar' = With(f, s, v) /\ edgarSwept' = NextSweep(edgarSwept)
      /\ UNCHANGED <<now, credsVars, minted, closed, deleted>>
      /\ late' = IF s \in closed THEN late \cup {s} ELSE late
  BY DEF RegisterIdentity, LeaveEdgar, UsedLate
<1>4. Clocks'
  BY ClocksStep DEF RegisterIdentity, LeaveEdgar, credsVars
<1>5. IdSets' /\ CredsOK'
  BY <1>3 DEF SessionInv, IdSets, CredsOK, CredOK, credsVars
<1>6. ASSUME NEW t \in DOMAIN edgar'
      PROVE  /\ t \in minted' /\ edgar'[t] \in Identity /\ edgarSwept' <= edgar'[t].touched + TTL
             /\ t \in closed' => t \in late'
  <2>1. CASE t = s
    <3>1. edgar'[t] = v
      BY <1>3, <2>1 DEF With
    <3> HIDE DEF v
    <3> QED BY <2>1, <3>1, <1>2, <1>3
  <2>2. CASE t # s
    <3>1. t \in DOMAIN f /\ edgar'[t] = f[t]
      BY <1>3, <2>2 DEF With
    <3>2. IdentityOK(t, f[t], NextSweep(edgarSwept))
      BY <1>1, <3>1 DEF LeavesEdgar
    <3> HIDE DEF f
    <3> QED BY <3>1, <3>2, <1>3 DEF IdentityOK
  <2> QED BY <2>1, <2>2
<1>7. EdgarOK'
  BY <1>6 DEF EdgarOK, IdentityOK
<1> QED BY <1>4, <1>5, <1>7 DEF SessionInv

(***************************************************************************)
(* The routes: an id is closed while another may be minted.                *)
(***************************************************************************)
Rotates(prior) ==
  /\ minted \subseteq minted' /\ minted' \subseteq Ids
  /\ closed' = closed \cup ({prior} \ {None}) /\ late' = late \ {prior}
  /\ UNCHANGED <<now, deleted>>

\* A new id is minted and the one before it closed.
LEMMA RotatesIds ==
  ASSUME SessionInv, NEW prior \in minted \cup {None}, Rotates(prior)
  PROVE  IdSets'
  BY SessionAssumption DEF SessionInv, IdSets, Rotates

\* What was left under another session stays right.
LEMMA OthersStay ==
  ASSUME SessionInv, NEW prior \in minted \cup {None}, Rotates(prior), NEW t, t # prior, t \in minted
  PROVE  t \in minted' /\ (t \in closed' => t \in closed) /\ (t \in late => t \in late')
  BY DEF Rotates

\* The identity store loses the entry of a closed id.
LEMMA EdgarRotates ==
  ASSUME SessionInv, NEW prior \in minted \cup {None}, Rotates(prior),
         IF prior = None THEN UNCHANGED edgarVars ELSE LeaveEdgar(ClearedId(prior))
  PROVE  EdgarOK'
<1>1. CASE prior = None
  <2>1. ASSUME NEW t \in DOMAIN edgar PROVE t # prior
    BY <1>1, SessionAssumption DEF SessionInv, IdSets, EdgarOK, IdentityOK, None
  <2> QED BY <1>1, <2>1, OthersStay DEF SessionInv, EdgarOK, IdentityOK, edgarVars
<1>2. CASE prior # None
  <2>1. LeavesEdgar(ClearedId(prior)) /\ prior \notin DOMAIN ClearedId(prior)
    BY FoundLeaves, FoundParts
  <2>2. edgar' = ClearedId(prior) /\ edgarSwept' = NextSweep(edgarSwept)
    BY <1>2 DEF LeaveEdgar
  <2>3. ASSUME NEW t \in DOMAIN edgar' PROVE t # prior /\ IdentityOK(t, edgar'[t], edgarSwept')
    BY <2>1, <2>2 DEF LeavesEdgar
  <2>4. ASSUME NEW t \in DOMAIN edgar'
        PROVE  /\ t \in minted' /\ edgar'[t] \in Identity /\ edgarSwept' <= edgar'[t].touched + TTL
               /\ t \in closed' => t \in late'
    BY <2>3, OthersStay DEF IdentityOK
  <2> QED BY <2>4 DEF EdgarOK, IdentityOK
<1> QED BY <1>1, <1>2

\* Both stores lose the entry of a closed id.
LEMMA ClosingKeeps ==
  ASSUME SessionInv, NEW prior \in minted, Rotates(prior), CloseBoth(prior)
  PROVE  SessionInv'
<1>1. prior # None
  BY SessionAssumption DEF SessionInv, IdSets, None
<1>2. /\ creds' = Cleared(prior) /\ credsSwept' = NextSweep(credsSwept) /\ credsAt' = now
      /\ LeaveEdgar(ClearedId(prior))
  BY DEF CloseBoth, LeaveCreds
<1>3. Clocks'
  BY <1>2, ClocksStep DEF LeaveEdgar, Rotates
<1>4. LeavesCreds(Cleared(prior)) /\ prior \notin DOMAIN Cleared(prior)
  BY FoundLeaves, FoundParts
<1>5. ASSUME NEW t \in DOMAIN creds' PROVE t # prior /\ CredOK(t, creds'[t], credsSwept')
  BY <1>2, <1>4 DEF LeavesCreds
<1>6. ASSUME NEW t \in DOMAIN creds'
      PROVE  /\ t \in minted' /\ creds'[t] \in Entry /\ credsSwept' <= creds'[t].touched + TTL
             /\ t \in closed' => t \in late' /\ creds'[t].user = None
  BY <1>5, OthersStay DEF CredOK
<1>7. CredsOK'
  BY <1>6 DEF CredsOK, CredOK
<1> QED BY <1>1, <1>2, <1>3, <1>7, RotatesIds, EdgarRotates DEF SessionInv

\* A session minted by a first request, or in place of another.
LEMMA MintKeeps ==
  ASSUME SessionInv, NEW prior \in minted \cup {None}, NEW new \in Ids, MintSession(prior, new)
  PROVE  SessionInv'
<1>1. Rotates(prior)
  BY DEF MintSession, Fresh, Rotates, SessionInv, IdSets
<1>2. CASE prior = None
  <2>1. UNCHANGED <<now, credsVars, edgarVars>>
    BY <1>2 DEF MintSession
  <2>2. Clocks'
    BY <2>1, ClocksStep DEF credsVars, edgarVars
  <2>3. EdgarOK'
    BY <1>1, <1>2, <2>1, EdgarRotates
  <2>4. ASSUME NEW t \in DOMAIN creds PROVE t # prior /\ CredOK(t, creds[t], credsSwept)
    BY <1>2, SessionAssumption DEF SessionInv, IdSets, CredsOK, CredOK, None
  <2>5. ASSUME NEW t \in DOMAIN creds
        PROVE  /\ t \in minted' /\ creds[t] \in Entry /\ credsSwept <= creds[t].touched + TTL
               /\ t \in closed' => t \in late' /\ creds[t].user = None
    BY <2>4, <1>1, OthersStay DEF CredOK
  <2>6. CredsOK'
    BY <2>1, <2>5 DEF CredsOK, CredOK, credsVars
  <2> QED BY <1>1, <2>2, <2>3, <2>6, RotatesIds DEF SessionInv
<1>3. CASE prior # None
  BY <1>1, <1>3, ClosingKeeps DEF MintSession
<1> QED BY <1>2, <1>3

\* A login closes the id it came with and binds the user to a new one.
LEMMA LoginKeeps ==
  ASSUME SessionInv, NEW prior \in minted \cup {None}, NEW new \in Ids, NEW u \in Users,
         Login(prior, new, u)
  PROVE  SessionInv'
<1> DEFINE e == IF prior = None THEN Sweep(creds, credsSwept) ELSE Cleared(prior)
           f == EvictIfExpired(e, new)
           v == [keys |-> HasKey(f, new), user |-> u, touched |-> now]
<1>1. Rotates(prior)
  BY DEF Login, Fresh, Rotates, SessionInv, IdSets
<1>2. /\ creds' = With(f, new, v) /\ credsSwept' = NextSweep(credsSwept) /\ credsAt' = now
      /\ IF prior = None THEN UNCHANGED edgarVars ELSE LeaveEdgar(ClearedId(prior))
      /\ new \notin minted /\ new \in minted' /\ now' = now
  BY DEF Login, LeaveCreds, Bound, Fresh
<1>3. Clocks'
  BY <1>2, ClocksStep DEF LeaveEdgar, edgarVars
<1>4. LeavesCreds(e) /\ prior \notin DOMAIN e
  <2>1. CASE prior = None
    <3>1. LeavesCreds(e)
      BY <2>1, FoundLeaves
    <3>2. ASSUME NEW t \in DOMAIN e PROVE t # prior
      BY <2>1, <3>1, SessionAssumption DEF SessionInv, IdSets, LeavesCreds, CredOK, None
    <3> QED BY <3>1, <3>2
  <2>2. CASE prior # None
    BY <2>2, FoundLeaves, FoundParts
  <2> QED BY <2>1, <2>2
<1>5. LeavesCreds(f) /\ prior \notin DOMAIN f
  BY <1>4, EvictPart, PartLeaves DEF Part
<1>6. v \in Entry /\ v.touched = now /\ NextSweep(credsSwept) <= now + TTL
  <2>1. HasKey(f, new) \in BOOLEAN
    BY <1>5 DEF HasKey, LeavesCreds, CredOK, Entry
  <2>2. now \in 0..MaxTime
    BY DEF SessionInv, Clocks
  <2>3. v \in Entry
    BY <2>1, <2>2 DEF Entry
  <2> QED BY <2>2, <2>3, SweepTimes, SessionAssumption DEF SessionInv, Clocks
<1>7. new \notin closed'
  BY <1>1, <1>2, SessionAssumption DEF Rotates, SessionInv, IdSets, None
<1>8. ASSUME NEW t \in DOMAIN creds'
      PROVE  /\ t \in minted' /\ creds'[t] \in Entry /\ credsSwept' <= creds'[t].touched + TTL
             /\ t \in closed' => t \in late' /\ creds'[t].user = None
  <2>1. CASE t = new
    <3>1. creds'[t] = v
      BY <1>2, <2>1 DEF With
    <3> HIDE DEF v
    <3> QED BY <2>1, <3>1, <1>2, <1>6, <1>7
  <2>2. CASE t # new
    <3>1. t \in DOMAIN f /\ creds'[t] = f[t]
      BY <1>2, <2>2 DEF With
    <3> HIDE DEF f
    <3>2. CredOK(t, creds'[t], credsSwept') /\ t # prior
      BY <1>2, <1>5, <3>1 DEF LeavesCreds
    <3> QED BY <1>1, <3>2, OthersStay DEF CredOK
  <2> QED BY <2>1, <2>2
<1>9. CredsOK'
  BY <1>8 DEF CredsOK, CredOK
<1>10. EdgarOK'
  BY <1>1, <1>2, EdgarRotates
<1> QED BY <1>1, <1>3, <1>9, <1>10, RotatesIds DEF SessionInv

\* A logout closes its session.
LEMMA LogoutKeeps ==
  ASSUME SessionInv, NEW s \in minted, Logout(s)
  PROVE  SessionInv'
<1>1. s # None
  BY SessionAssumption DEF SessionInv, IdSets, None
<1>2. Rotates(s)
  BY <1>1 DEF Logout, Rotates, SessionInv, IdSets
<1> QED BY <1>2, ClosingKeeps DEF Logout

\* Time, a restart and a deleted user.
LEMMA EnvironmentKeeps ==
  ASSUME SessionInv, Tick \/ Restart \/ (\E u \in Users : DeleteUser(u))
  PROVE  SessionInv'
<1>1. CASE Tick
  <2>1. Clocks'
    BY <1>1, SessionAssumption DEF Tick, SessionInv, Clocks, credsVars, edgarVars
  <2>2. IdSets' /\ CredsOK' /\ EdgarOK'
    BY <1>1 DEF Tick, SessionInv, IdSets, CredsOK, EdgarOK, CredOK, IdentityOK, idVars, credsVars, edgarVars
  <2> QED BY <2>1, <2>2 DEF SessionInv
<1>2. CASE Restart
  <2>1. Clocks'
    BY <1>2, SessionAssumption DEF Restart, SessionInv, Clocks
  <2>2. IdSets' /\ CredsOK' /\ EdgarOK'
    BY <1>2 DEF Restart, SessionInv, IdSets, CredsOK, EdgarOK
  <2> QED BY <2>1, <2>2 DEF SessionInv
<1>3. CASE \E u \in Users : DeleteUser(u)
  <2>1. Clocks'
    BY <1>3 DEF DeleteUser, SessionInv, Clocks, credsVars, edgarVars
  <2>2. IdSets' /\ CredsOK' /\ EdgarOK'
    BY <1>3 DEF DeleteUser, SessionInv, IdSets, CredsOK, EdgarOK, CredOK, IdentityOK, credsVars, edgarVars
  <2> QED BY <2>1, <2>2 DEF SessionInv
<1> QED BY <1>1, <1>2, <1>3

(***************************************************************************)
(* The theorems.                                                           *)
(***************************************************************************)

\* SessionInv holds in every reachable state.
THEOREM Invariance == Spec => []SessionInv
<1>1. Init => SessionInv
  BY InitInv
<1>2. SessionInv /\ [Next]_vars => SessionInv'
  <2> SUFFICES ASSUME SessionInv, [Next]_vars PROVE SessionInv'
    OBVIOUS
  <2>1. CASE Tick \/ Restart \/ (\E u \in Users : DeleteUser(u))
    BY <2>1, EnvironmentKeeps
  <2>2. ASSUME NEW s \in minted, Request(s) PROVE SessionInv'
    BY <2>2, ReadsKeep, IdentityReadsKeep, StoreKeyKeeps, RegisterKeeps, LogoutKeeps DEF Request
  <2>3. ASSUME NEW prior \in minted \cup {None}, NEW new \in Ids, MintSession(prior, new)
        PROVE  SessionInv'
    BY <2>3, MintKeeps
  <2>4. ASSUME NEW prior \in minted \cup {None}, NEW new \in Ids,
               NEW u \in Users \ deleted, Login(prior, new, u)
        PROVE  SessionInv'
    BY <2>4, LoginKeeps
  <2>5. CASE UNCHANGED vars
    BY <2>5 DEF SessionInv, Clocks, IdSets, CredsOK, EdgarOK, CredOK, IdentityOK,
                vars, credsVars, edgarVars, idVars
  <2> QED BY <2>1, <2>2, <2>3, <2>4, <2>5 DEF Next
<1> QED BY <1>1, <1>2, PTL DEF Spec

\* An operation leaves no entry two lifetimes old in its store, whoever's it is.
THEOREM Residency == Spec => []SweptInTime
  BY Invariance, InvImplies, PTL

\* A closed session id never has a user again, whatever arrives under it.
THEOREM ClosedForGood == Spec => []ClosedNeverBound
  BY Invariance, InvImplies, PTL

\* Rotation and logout leave nothing in either store under the old id.
THEOREM ClearedInLockstep == Spec => []ClosedTogether
  BY Invariance, InvImplies, PTL

\* Type correctness.
THEOREM TypeCorrect == Spec => []TypeOK
  BY Invariance, InvImplies, PTL

\* Both stores, at every moment: what is old and what is closed is gone.
THEOREM StoresSound == Spec => []SessionsSound
  BY Residency, ClosedForGood, ClearedInLockstep, PTL DEF SessionsSound

(***************************************************************************)
(* The lifetime of an entry, step by step.  Beside the session s an        *)
(* operation is for, it leaves what is within its lifetime, and whatever   *)
(* it leaves is as it was.                                                 *)
(***************************************************************************)
Beside(e, f, s) ==
  \A t \in DOMAIN e \ {s} :
    (t \in Current(e) => t \in DOMAIN f) /\ (t \in DOMAIN f => f[t] = e[t])

\* A pass takes out only what is too old.
LEMMA SweepLeaves ==
  ASSUME NEW e, NEW last, NEW t \in DOMAIN e
  PROVE  /\ t \in Current(e) => t \in DOMAIN Sweep(e, last)
         /\ t \in DOMAIN Sweep(e, last) => Sweep(e, last)[t] = e[t]
         /\ DOMAIN Sweep(e, last) \subseteq DOMAIN e
  BY DEF Sweep, Restrict, Current

\* What an operation on s finds of s is within its lifetime.
LEMMA EvictLeaves ==
  ASSUME NEW e, NEW last, NEW s, NEW f, f = EvictIfExpired(Sweep(e, last), s)
  PROVE  /\ Beside(e, f, s) /\ DOMAIN f \subseteq DOMAIN e
         /\ s \in DOMAIN f <=> s \in Current(e)
         /\ s \in DOMAIN f => f[s] = e[s]
<1> DEFINE g == Sweep(e, last)
<1>1. /\ DOMAIN g \subseteq DOMAIN e /\ \A t \in DOMAIN g : g[t] = e[t]
      /\ \A t \in Current(e) : t \in DOMAIN g
  <2>1. Part(g, e)
    BY SweepPart
  <2> QED BY <2>1, SweepLeaves DEF Part, Current
<1> HIDE DEF g
<1>2. f = EvictIfExpired(g, s)
  BY DEF g
<1>3. CASE s \in DOMAIN g \ Current(g)
  <2>1. /\ DOMAIN f = DOMAIN g \ {s} /\ \A t \in DOMAIN f : f[t] = g[t]
    BY <1>2, <1>3 DEF EvictIfExpired, Without, Restrict
  <2>2. s \notin Current(e)
    BY <1>1, <1>3 DEF Current
  <2> QED BY <1>1, <2>1, <2>2 DEF Beside
<1>4. CASE s \notin DOMAIN g \ Current(g)
  <2>1. f = g
    BY <1>2, <1>4 DEF EvictIfExpired
  <2>2. s \in DOMAIN g => s \in Current(e)
    BY <1>1, <1>4 DEF Current
  <2> QED BY <1>1, <2>1, <2>2 DEF Beside
<1> QED BY <1>3, <1>4

\* A clear takes out its session and what is too old.
LEMMA ClearLeaves ==
  ASSUME NEW e, NEW last, NEW s, NEW f, f = Without(Sweep(e, last), s)
  PROVE  Beside(e, f, s) /\ s \notin DOMAIN f
<1>1. DOMAIN f = DOMAIN Sweep(e, last) \ {s} /\ \A t \in DOMAIN f : f[t] = Sweep(e, last)[t]
  BY DEF Without, Restrict
<1> QED BY <1>1, SweepLeaves DEF Beside

\* A write to the entry of s stays beside the others.
LEMMA WithBeside ==
  ASSUME NEW e, NEW f, NEW s, NEW v, Beside(e, f, s)
  PROVE  Beside(e, With(f, s, v), s) /\ s \in DOMAIN With(f, s, v)
  BY DEF Beside, With

\* The four parts from a step beside s.
LEMMA CredsBeside ==
  ASSUME NEW s, Beside(creds, creds', s),
         s \in Current(creds) \ DOMAIN creds' =>
           \/ s \in closed'
           \/ DropKey(s) /\ creds[s].user = None
           \/ ResolveUser(s) /\ creds[s].user \in deleted /\ ~creds[s].keys,
         s \in DOMAIN creds \ Current(creds) /\ s \in DOMAIN creds' /\ creds'[s] # creds[s] =>
           StoreKey(s) /\ creds'[s].user = None
  PROVE  CredsUsed /\ CredsIdle
  BY DEF Beside, CredsUsed, CredsIdle, Current

\* The identity store's half of the lifetime property.
LEMMA EdgarBeside ==
  ASSUME NEW s, Beside(edgar, edgar', s),
         s \in Current(edgar) \ DOMAIN edgar' => s \in closed' \/ ClearIdentity(s),
         s \in DOMAIN edgar \ Current(edgar) /\ s \in DOMAIN edgar' /\ edgar'[s] # edgar[s] =>
           RegisterIdentity(s)
  PROVE  EdgarUsed /\ EdgarIdle
  BY DEF Beside, EdgarUsed, EdgarIdle, Current

\* A step that leaves a store alone.
LEMMA CredsStand ==
  ASSUME UNCHANGED creds PROVE CredsUsed /\ CredsIdle
  BY DEF CredsUsed, CredsIdle, Current

\* The same of the identities.
LEMMA EdgarStand ==
  ASSUME UNCHANGED edgar PROVE EdgarUsed /\ EdgarIdle
  BY DEF EdgarUsed, EdgarIdle, Current

\* An operation on the credential store.
LEMMA CredsLifetime ==
  ASSUME NEW s, StoreKey(s) \/ ReadKey(s) \/ ListKeys(s) \/ DropKey(s) \/ ResolveUser(s)
  PROVE  CredsUsed /\ CredsIdle
<1> DEFINE f == Found(s)
<1>1. /\ Beside(creds, f, s) /\ DOMAIN f \subseteq DOMAIN creds
      /\ s \in DOMAIN f <=> s \in Current(creds)
      /\ s \in DOMAIN f => f[s] = creds[s]
  BY EvictLeaves DEF Found
<1>2. s \in Current(creds) => s \in DOMAIN creds
  BY DEF Current
<1>3. DOMAIN Touched(f, s) = DOMAIN f /\ \A t \in DOMAIN f \ {s} : Touched(f, s)[t] = f[t]
  BY DEF Touched
<1>4. CASE StoreKey(s)
  <2>1. creds' = With(f, s, [keys |-> TRUE, user |-> UserOf(f, s), touched |-> now])
    BY <1>4 DEF StoreKey, LeaveCreds
  <2>2. Beside(creds, creds', s) /\ s \in DOMAIN creds'
    BY <1>1, <2>1, WithBeside
  <2>3. creds'[s].user = UserOf(f, s)
    BY <2>1 DEF With
  <2>4. s \notin Current(creds) => creds'[s].user = None
    BY <1>1, <2>3 DEF UserOf
  <2> QED BY <1>4, <2>2, <2>4, CredsBeside
<1>5. CASE ReadKey(s) \/ ListKeys(s)
  <2>1. creds' = f \/ creds' = Touched(f, s)
    BY <1>5 DEF ReadKey, ListKeys, LeaveCreds
  <2>2. Beside(creds, creds', s) /\ DOMAIN creds' = DOMAIN f
    <3> HIDE DEF f
    <3> QED BY <1>1, <1>3, <2>1 DEF Beside
  <2> QED BY <1>1, <1>2, <2>2, CredsBeside
<1>6. CASE DropKey(s)
  <2>1. creds' = IF s \notin DOMAIN f THEN f
                 ELSE IF UserOf(f, s) = None THEN Without(f, s)
                 ELSE [f EXCEPT ![s].keys = FALSE]
    BY <1>6 DEF DropKey, LeaveCreds
  <2> HIDE DEF f
  <2>2. /\ DOMAIN creds' \subseteq DOMAIN f
        /\ \A t \in DOMAIN f \ {s} : t \in DOMAIN creds' /\ creds'[t] = f[t]
        /\ s \in DOMAIN f /\ s \notin DOMAIN creds' => UserOf(f, s) = None
    BY <2>1 DEF Without, Restrict
  <2>3. Beside(creds, creds', s)
    BY <1>1, <2>2 DEF Beside
  <2>4. s \in Current(creds) \ DOMAIN creds' => creds[s].user = None
    BY <1>1, <2>2 DEF UserOf
  <2> QED BY <1>1, <1>2, <1>6, <2>2, <2>3, <2>4, CredsBeside
<1>7. CASE ResolveUser(s)
  <2> DEFINE u == UserOf(f, s)
             h == Touched(f, s)
  <2>1. creds' = IF u = None THEN f ELSE IF u \in deleted THEN Unbound(h, s) ELSE h
    BY <1>7 DEF ResolveUser, LeaveCreds
  <2>2. HasKey(h, s) <=> s \in DOMAIN f /\ f[s].keys
    BY DEF HasKey, Touched
  <2>3. s \in DOMAIN f => u = f[s].user
    BY DEF UserOf
  <2> HIDE DEF f, u, h
  <2>4. DOMAIN h = DOMAIN f /\ \A t \in DOMAIN f \ {s} : h[t] = f[t]
    BY <1>3 DEF h
  <2>5. /\ DOMAIN creds' \subseteq DOMAIN f
        /\ \A t \in DOMAIN f \ {s} : t \in DOMAIN creds' /\ creds'[t] = f[t]
        /\ s \in DOMAIN f /\ s \notin DOMAIN creds' => u \in deleted /\ ~HasKey(h, s)
    BY <2>1, <2>4 DEF Unbound, Without, Restrict
  <2>6. Beside(creds, creds', s)
    BY <1>1, <2>5 DEF Beside
  <2>7. s \in Current(creds) \ DOMAIN creds' => creds[s].user \in deleted /\ ~creds[s].keys
    BY <1>1, <2>2, <2>3, <2>5
  <2> QED BY <1>1, <1>2, <1>7, <2>5, <2>6, <2>7, CredsBeside
<1> QED BY <1>4, <1>5, <1>6, <1>7

\* An operation on the identity store.
LEMMA EdgarLifetime ==
  ASSUME NEW s, RegisterIdentity(s) \/ ReadIdentity(s) \/ ClearIdentity(s)
  PROVE  EdgarUsed /\ EdgarIdle
<1>1. CASE RegisterIdentity(s)
  <2>1. edgar' = With(Sweep(edgar, edgarSwept), s, [touched |-> now])
    BY <1>1 DEF RegisterIdentity, LeaveEdgar
  <2>2. Beside(edgar, Sweep(edgar, edgarSwept), s)
    BY SweepLeaves DEF Beside
  <2>3. Beside(edgar, edgar', s) /\ s \in DOMAIN edgar'
    BY <2>1, <2>2, WithBeside
  <2> QED BY <1>1, <2>3, EdgarBeside
<1>2. CASE ReadIdentity(s)
  <2> DEFINE f == FoundId(s)
  <2>1. /\ Beside(edgar, f, s) /\ DOMAIN f \subseteq DOMAIN edgar
        /\ s \in DOMAIN f <=> s \in Current(edgar)
    BY EvictLeaves DEF FoundId
  <2>2. DOMAIN Touched(f, s) = DOMAIN f /\ \A t \in DOMAIN f \ {s} : Touched(f, s)[t] = f[t]
    BY DEF Touched
  <2>3. edgar' = f \/ edgar' = Touched(f, s)
    BY <1>2 DEF ReadIdentity, LeaveEdgar
  <2> HIDE DEF f
  <2>4. Beside(edgar, edgar', s) /\ DOMAIN edgar' = DOMAIN f
    BY <2>1, <2>2, <2>3 DEF Beside
  <2> QED BY <2>1, <2>4, EdgarBeside
<1>3. CASE ClearIdentity(s)
  <2>1. edgar' = Without(Sweep(edgar, edgarSwept), s)
    BY <1>3 DEF ClearIdentity, LeaveEdgar
  <2>2. Beside(edgar, edgar', s) /\ s \notin DOMAIN edgar'
    BY <2>1, ClearLeaves
  <2> QED BY <1>3, <2>2, EdgarBeside
<1> QED BY <1>1, <1>2, <1>3

\* A session that is closed takes its own two entries with it.
LEMMA ClosingLifetime ==
  ASSUME NEW s, s \in closed', CloseBoth(s)
  PROVE  CredsUsed /\ CredsIdle /\ EdgarUsed /\ EdgarIdle
<1>1. Beside(creds, creds', s) /\ s \notin DOMAIN creds'
  BY ClearLeaves DEF CloseBoth, LeaveCreds, Cleared
<1>2. Beside(edgar, edgar', s) /\ s \notin DOMAIN edgar'
  BY ClearLeaves DEF CloseBoth, LeaveEdgar, ClearedId
<1> QED BY <1>1, <1>2, CredsBeside, EdgarBeside

\* A login takes the prior session's entries with it; the fresh id had none.
LEMMA LoginLifetime ==
  ASSUME SessionInv, NEW prior \in minted \cup {None}, NEW new \in Ids, NEW u, Login(prior, new, u)
  PROVE  CredsUsed /\ CredsIdle /\ EdgarUsed /\ EdgarIdle
<1> DEFINE e == IF prior = None THEN Sweep(creds, credsSwept) ELSE Cleared(prior)
           f == EvictIfExpired(e, new)
<1>1. /\ new \notin minted /\ creds' = With(f, new, [keys |-> HasKey(f, new), user |-> u,
                                                      touched |-> now])
      /\ IF prior = None THEN UNCHANGED edgar ELSE edgar' = ClearedId(prior)
      /\ prior # None => prior \in closed'
  BY DEF Login, Fresh, LeaveCreds, LeaveEdgar, Bound, edgarVars
<1>2. new \notin DOMAIN creds /\ (prior = None => prior \notin DOMAIN creds)
  BY <1>1, SessionAssumption DEF SessionInv, IdSets, CredsOK, CredOK, None
<1>3. Beside(creds, e, prior) /\ DOMAIN e \subseteq DOMAIN creds
  <2>1. CASE prior = None
    <3>1. e = Sweep(creds, credsSwept)
      BY <2>1
    <3> HIDE DEF e
    <3> QED BY <3>1, SweepLeaves, SweepPart DEF Beside, Part
  <2>2. CASE prior # None
    <3>1. Part(Cleared(prior), creds)
      BY FoundParts, SweepPart, PartTransitive
    <3> QED BY <2>2, <3>1, ClearLeaves DEF Cleared, Part
  <2> QED BY <2>1, <2>2
<1> HIDE DEF e
<1>4. f = e
  BY <1>2, <1>3 DEF EvictIfExpired
<1> HIDE DEF f
<1>5. /\ \A t \in DOMAIN e : t \in DOMAIN creds' /\ creds'[t] = e[t]
      /\ \A t \in DOMAIN creds' \ {new} : t \in DOMAIN e
  BY <1>1, <1>2, <1>3, <1>4 DEF With
<1>6. Beside(creds, creds', prior) /\ (prior \in DOMAIN creds => prior # None)
  BY <1>2, <1>3, <1>5 DEF Beside
<1>7. prior \in DOMAIN creds => prior \notin DOMAIN creds'
  <2>1. CASE prior = None
    BY <1>2, <2>1
  <2>2. CASE prior # None
    <3>1. prior \notin DOMAIN e
      BY <2>2, FoundParts DEF e
    <3> QED BY <1>2, <1>5, <3>1
  <2> QED BY <2>1, <2>2
<1>8. CredsUsed /\ CredsIdle
  BY <1>1, <1>6, <1>7, CredsBeside DEF Current
<1>9. EdgarUsed /\ EdgarIdle
  <2>1. CASE prior = None
    BY <1>1, <2>1, EdgarStand
  <2>2. CASE prior # None
    <3>1. Beside(edgar, edgar', prior) /\ prior \notin DOMAIN edgar'
      BY <1>1, <2>2, ClearLeaves DEF ClearedId
    <3> QED BY <1>1, <2>2, <3>1, EdgarBeside
  <2> QED BY <2>1, <2>2
<1> QED BY <1>8, <1>9

\* Every step keeps the lifetimes.
LEMMA LifetimeStep ==
  ASSUME SessionInv, [Next]_vars
  PROVE  CredsUsed /\ EdgarUsed /\ CredsIdle /\ EdgarIdle
<1>1. CASE Tick \/ (\E u \in Users : DeleteUser(u)) \/ UNCHANGED vars
  BY <1>1, CredsStand, EdgarStand DEF Tick, DeleteUser, vars, credsVars, edgarVars
<1>2. CASE Restart
  <2>1. DOMAIN creds' = {} /\ DOMAIN edgar' = {}
    BY <1>2 DEF Restart
  <2> QED BY <1>2, <2>1 DEF CredsUsed, CredsIdle, EdgarUsed, EdgarIdle
<1>3. ASSUME NEW s \in minted, Request(s) PROVE CredsUsed /\ EdgarUsed /\ CredsIdle /\ EdgarIdle
  <2>1. CASE StoreKey(s) \/ ReadKey(s) \/ ListKeys(s) \/ DropKey(s) \/ ResolveUser(s)
    <3>1. UNCHANGED edgar
      BY <2>1 DEF StoreKey, ReadKey, ListKeys, DropKey, ResolveUser, edgarVars
    <3> QED BY <2>1, <3>1, CredsLifetime, EdgarStand
  <2>2. CASE RegisterIdentity(s) \/ ReadIdentity(s) \/ ClearIdentity(s)
    <3>1. UNCHANGED creds
      BY <2>2 DEF RegisterIdentity, ReadIdentity, ClearIdentity, credsVars
    <3> QED BY <2>2, <3>1, EdgarLifetime, CredsStand
  <2>3. CASE Logout(s)
    <3>1. CloseBoth(s) /\ s \in closed'
      BY <2>3 DEF Logout
    <3> QED BY <3>1, ClosingLifetime
  <2> QED BY <1>3, <2>1, <2>2, <2>3 DEF Request
<1>4. ASSUME NEW prior \in minted \cup {None}, NEW new \in Ids, MintSession(prior, new)
      PROVE  CredsUsed /\ EdgarUsed /\ CredsIdle /\ EdgarIdle
  <2>1. CASE prior = None
    BY <1>4, <2>1, CredsStand, EdgarStand DEF MintSession, credsVars, edgarVars
  <2>2. CASE prior # None
    <3>1. CloseBoth(prior) /\ prior \in closed'
      BY <1>4, <2>2 DEF MintSession
    <3> QED BY <3>1, ClosingLifetime
  <2> QED BY <2>1, <2>2
<1>5. ASSUME NEW prior \in minted \cup {None}, NEW new \in Ids, NEW u \in Users \ deleted,
             Login(prior, new, u)
      PROVE  CredsUsed /\ EdgarUsed /\ CredsIdle /\ EdgarIdle
  BY <1>5, LoginLifetime
<1> QED BY <1>1, <1>2, <1>3, <1>4, <1>5 DEF Next

\* An entry within its lifetime goes only by a request for its own session, and one
\* past it is never revived.
THEOREM LifetimesKept == Spec => LifetimeKept
<1>1. SessionInv /\ [Next]_vars => [CredsUsed /\ EdgarUsed /\ CredsIdle /\ EdgarIdle]_vars
  BY LifetimeStep
<1> QED BY <1>1, Invariance, PTL DEF Spec, LifetimeKept

-----------------------------------------------------------------------------
(* The account: row, page and password fit together, no key the user saw   *)
(* saved is lost, and a name enrolled again has nothing of the row before. *)

Known == 0..rows
RowType  == [id : Known, hash : Nat, kek : Nat, items : SUBSET Items, fails : Nat,
             locked : BOOLEAN]
TabType  == [id : Known, kek : Nat, items : SUBSET Items, bound : Known]
CallType == [stage : {"idle", "proof", "sent", "ok"}, id : Known, old : Nat, kek : Nat,
             items : SUBSET Items]

AccountTypes ==
  /\ rows \in Nat /\ salts \in Nat
  /\ row \in RowType /\ (row = NoRow \/ row.id # 0)
  /\ tab \in [Tabs -> TabType]
  /\ login \in [Tabs -> CallType] /\ change \in [Tabs -> CallType]
  /\ upload \in [Tabs -> [Items -> CallType]]
  /\ overwrote \in BOOLEAN

\* Every copy of a vault holds only keys that were entered for its row.
Own(S, n) == \A i \in S : i \in DOMAIN enteredFor /\ enteredFor[i] = n
OwnTab(b) ==
  /\ Own(tab[b].items, tab[b].id) /\ Own(login[b].items, login[b].id)
  /\ Own(change[b].items, change[b].id)
  /\ \A i \in Items : Own(upload[b][i].items, upload[b][i].id)

\* A page is open under one row, its calls are made for that row or cut off, and
\* a page that logs in has none left.
Open(b) == tab[b].id # 0
CallOf(c, b) ==
  /\ c = Idle \/ c.stage \in {"sent", "ok"}
  /\ c.stage = "ok" => c.id = tab[b].id /\ Open(b)
  /\ c.stage = "sent" /\ Open(b) => c.id \in {0, tab[b].id}
Page(b) ==
  /\ Open(b) \/ tab[b] = Shut
  /\ tab[b].bound \in {0, tab[b].id}
  /\ login[b] # Idle => ~Open(b)
  /\ login[b].stage = "ok" => login[b].id # 0 /\ change[b] = Idle
  /\ CallOf(change[b], b)
  /\ \A i \in Items :
       /\ login[b].stage = "ok" => upload[b][i] = Idle
       /\ CallOf(upload[b][i], b)
       /\ upload[b][i].id # 0 => i \in upload[b][i].items

\* What current says of a page, a login, a change and a save.
NoAnswer(b) == change[b].stage # "ok" /\ \A i \in Items : upload[b][i].stage # "ok"
TabCurrent(b) ==
  /\ Open(b) /\ tab[b].id = row.id /\ tab[b].kek = row.kek /\ tab[b].items = row.items
  /\ NoAnswer(b)
LoginCurrent(b) ==
  /\ login[b].stage = "ok" /\ login[b].id = row.id
  /\ login[b].kek = row.kek /\ login[b].items = row.items
ChangeCurrent(b) ==
  /\ \A i \in Items : upload[b][i].stage # "ok"
  /\ change[b].stage = "sent" /\ change[b].id # 0 =>
       /\ change[b].id = row.id /\ change[b].items = row.items
       /\ Open(b) => tab[b].items = row.items
  /\ change[b].stage = "ok" =>
       /\ change[b].id = row.id /\ change[b].kek = row.kek
       /\ change[b].items = row.items /\ tab[b].items = row.items
  /\ change[b] = Idle =>
       /\ Open(b) => <<b, "tab">> \in current
       /\ login[b].stage = "ok" => <<b, "login">> \in current
SaveCurrent(b, i) ==
  /\ i \in DOMAIN enteredFor
  /\ change[b].stage # "ok"
  /\ \A j \in Items \ {i} : upload[b][j].stage # "ok"
  /\ upload[b][i].stage = "sent" /\ upload[b][i].id # 0 =>
       /\ upload[b][i].id = row.id /\ upload[b][i].kek = row.kek
       /\ upload[b][i].items = row.items \cup {i}
       /\ Open(b) => tab[b].kek = row.kek
  /\ upload[b][i].stage = "ok" =>
       /\ upload[b][i].id = row.id /\ upload[b][i].kek = row.kek
       /\ upload[b][i].items = row.items /\ tab[b].kek = row.kek
CurrentTab(b) ==
  /\ <<b, "tab">> \in current => TabCurrent(b)
  /\ <<b, "login">> \in current => LoginCurrent(b)
  /\ <<b, "change">> \in current => ChangeCurrent(b)
  /\ \A i \in Items : <<b, i>> \in current => SaveCurrent(b, i)

\* A save that was answered is in the vault, though the page does not know yet.
Answered(b) ==
  ~overwrote => \A i \in Items :
    upload[b][i].stage = "ok" /\ upload[b][i].id = row.id => i \in row.items

TabOk(b) == OwnTab(b) /\ Page(b) /\ CurrentTab(b) /\ Answered(b)
RowOk == Own(row.items, row.id) /\ (overwrote => current = {}) /\ NothingLost /\ SealMatches

AccountInv == AccountTypes /\ RowOk /\ \A b \in Tabs : TabOk(b)

\* The invariant holds when nobody is enrolled and no page is open.
LEMMA AccountsStart == AccountsInit => AccountInv
<1> SUFFICES ASSUME AccountsInit PROVE AccountInv
  OBVIOUS
<1> USE DEF AccountsInit, NoRow, Shut, Idle
<1>1. AccountTypes
  <2>1. Idle \in CallType /\ Shut \in TabType /\ NoRow \in RowType
    BY DEF CallType, TabType, RowType, Known
  <2> QED BY <2>1 DEF AccountTypes
<1>2. \A b \in Tabs : OwnTab(b)
  BY DEF OwnTab, Own
<1>3. \A b \in Tabs : Page(b)
  BY DEF Page, Open, CallOf
<1>4. \A b \in Tabs : CurrentTab(b) /\ Answered(b)
  BY DEF CurrentTab, Answered
<1>5. RowOk
  BY DEF RowOk, NothingLost, SealMatches, Own
<1> QED BY <1>1, <1>2, <1>3, <1>4, <1>5 DEF AccountInv, TabOk

-----------------------------------------------------------------------------
(* What a step leaves alone.                                               *)

Kinds == Items \cup {"tab", "login", "change"}

\* A tab that a step does not touch stays sound: the row has the same vault and
\* the tab is as current as it was, or nothing of the tab is current any more.
LEMMA OtherTab ==
  ASSUME NEW c \in Tabs, TabOk(c),
         tab'[c] = tab[c], login'[c] = login[c], change'[c] = change[c],
         upload'[c] = upload[c],
         \A j \in DOMAIN enteredFor : j \in DOMAIN enteredFor' /\ enteredFor'[j] = enteredFor[j],
         ~overwrote' =>
           /\ ~overwrote
           /\ row'.id # row.id => \A i \in Items : upload[c][i].id # row'.id
           /\ row'.id = row.id => row.items \subseteq row'.items,
         \/ \A k \in Kinds : <<c, k>> \notin current'
         \/ /\ row'.id = row.id /\ row'.kek = row.kek /\ row'.items = row.items
            /\ \A k \in Kinds : <<c, k>> \in current' <=> <<c, k>> \in current
  PROVE  TabOk(c)'
<1> USE DEF TabOk
<1>1. OwnTab(c)'
  BY DEF OwnTab, Own
<1>2. Page(c)'
  BY DEF Page, Open, CallOf
<1>3. CurrentTab(c)'
  <2>1. CASE \A k \in Kinds : <<c, k>> \notin current'
    BY <2>1 DEF CurrentTab, Kinds
  <2>2. CASE /\ row'.id = row.id /\ row'.kek = row.kek /\ row'.items = row.items
             /\ \A k \in Kinds : <<c, k>> \in current' <=> <<c, k>> \in current
    <3>1. <<c, "tab">> \in current' => TabCurrent(c)'
      BY <2>2 DEF CurrentTab, Kinds, TabCurrent, Open, NoAnswer
    <3>2. <<c, "login">> \in current' => LoginCurrent(c)'
      BY <2>2 DEF CurrentTab, Kinds, LoginCurrent
    <3>3. <<c, "change">> \in current' => ChangeCurrent(c)'
      BY <2>2 DEF CurrentTab, Kinds, ChangeCurrent, Open
    <3>4. ASSUME NEW i \in Items, <<c, i>> \in current' PROVE SaveCurrent(c, i)'
      BY <2>2, <3>4 DEF CurrentTab, Kinds, SaveCurrent, Open
    <3> QED BY <3>1, <3>2, <3>3, <3>4 DEF CurrentTab
  <2> QED BY <2>1, <2>2
<1>4. Answered(c)'
  BY DEF Answered
<1> QED BY <1>1, <1>2, <1>3, <1>4

\* The count of failures and the lock are nothing the properties look at.
LEMMA CountKeeps ==
  ASSUME AccountInv,
         row # NoRow, row' \in RowType,
         row'.id = row.id, row'.hash = row.hash, row'.kek = row.kek, row'.items = row.items,
         UNCHANGED <<rows, salts, tabVars, enteredFor, kept, current, overwrote>>
  PROVE  AccountInv'
<1>1. AccountTypes'
  <2>1. row'.id # 0
    BY DEF AccountInv, AccountTypes
  <2> QED BY <2>1 DEF AccountInv, AccountTypes, tabVars, Known, RowType, TabType, CallType
<1>2. RowOk'
  BY DEF AccountInv, RowOk, Own, NothingLost, SealMatches
<1>3. ASSUME NEW c \in Tabs PROVE TabOk(c)'
  BY OtherTab DEF AccountInv, tabVars
<1> QED BY <1>1, <1>2, <1>3 DEF AccountInv

\* A row that goes or comes has a new number, and nothing was made from it.
LEMMA RowKeeps ==
  ASSUME AccountInv, Enrol \/ DeleteRow
  PROVE  AccountInv'
<1>1. \/ /\ row' = [id |-> rows + 1, hash |-> salts + 1, kek |-> salts + 1, items |-> {},
                    fails |-> 0, locked |-> FALSE]
         /\ rows' = rows + 1 /\ salts' = salts + 1
      \/ /\ row' = NoRow
         /\ UNCHANGED <<rows, salts>>
  BY DEF Enrol, DeleteRow, NoRow
<1>2. /\ UNCHANGED <<tab, login, upload, change, enteredFor>>
      /\ kept' = {} /\ current' = {} /\ overwrote' = FALSE
  BY DEF Enrol, DeleteRow, tabVars
<1>3. rows \in Nat /\ salts \in Nat /\ rows' \in Nat /\ salts' \in Nat /\ rows <= rows'
  BY <1>1 DEF AccountInv, AccountTypes
<1>4. row'.id \in {0, rows + 1} /\ row'.items = {} /\ row'.kek = row'.hash
  BY <1>1 DEF NoRow
<1>5. Known \subseteq Known' /\ TabType \subseteq TabType' /\ CallType \subseteq CallType'
  <2>1. Known \subseteq Known'
    BY <1>3 DEF Known
  <2> QED BY <2>1 DEF CallType, TabType
<1>6. AccountTypes'
  <2>1. row' \in RowType' /\ (row' = NoRow \/ row'.id # 0)
    <3>1. 0 \in Known' /\ (rows' = rows + 1 => rows + 1 \in Known' /\ rows + 1 # 0)
      BY <1>3 DEF Known
    <3>2. CASE row' = NoRow
      BY <3>1, <3>2 DEF NoRow, RowType
    <3>3. CASE /\ row' = [id |-> rows + 1, hash |-> salts + 1, kek |-> salts + 1, items |-> {},
                          fails |-> 0, locked |-> FALSE]
               /\ rows' = rows + 1
      <4>1. salts + 1 \in Nat
        BY <1>3
      <4> QED BY <3>1, <3>3, <4>1 DEF RowType
    <3> QED BY <1>1, <3>2, <3>3
  <2>2. /\ tab' \in [Tabs -> TabType'] /\ login' \in [Tabs -> CallType']
        /\ change' \in [Tabs -> CallType'] /\ upload' \in [Tabs -> [Items -> CallType']]
    BY <1>2, <1>5 DEF AccountInv, AccountTypes
  <2> QED BY <1>2, <1>3, <2>1, <2>2 DEF AccountTypes
<1>7. RowOk'
  BY <1>2, <1>4 DEF RowOk, Own, NothingLost, SealMatches
<1>8. ASSUME NEW c \in Tabs PROVE TabOk(c)'
  <2>1. OwnTab(c)'
    BY <1>2 DEF AccountInv, TabOk, OwnTab, Own
  <2>2. Page(c)'
    BY <1>2 DEF AccountInv, TabOk, Page, Open, CallOf
  <2>3. CurrentTab(c)'
    BY <1>2 DEF CurrentTab
  <2>4. Answered(c)'
    <3> SUFFICES ASSUME NEW i \in Items, upload[c][i].stage = "ok"
                 PROVE  upload[c][i].id # row'.id
      BY <1>2 DEF Answered
    <3>1. upload[c][i].id # 0
      BY DEF AccountInv, TabOk, Page, CallOf, Open
    <3>2. upload[c][i].id \in 0..rows
      BY DEF AccountInv, AccountTypes, CallType, Known
    <3> QED BY <3>1, <3>2, <1>3, <1>4
  <2> QED BY <2>1, <2>2, <2>3, <2>4 DEF TabOk
<1> QED BY <1>6, <1>7, <1>8 DEF AccountInv

\* What a step of one tab has to keep by itself: the others follow.
LEMMA TabKeeps ==
  ASSUME AccountInv, NEW b \in Tabs,
         rows' = rows, salts' \in Nat, overwrote' \in BOOLEAN,
         row' \in RowType, row'.id = row.id, row' = NoRow \/ row'.id # 0,
         tab' \in [Tabs -> TabType], login' \in [Tabs -> CallType],
         change' \in [Tabs -> CallType], upload' \in [Tabs -> [Items -> CallType]],
         \A c \in Tabs \ {b} :
           /\ tab'[c] = tab[c] /\ login'[c] = login[c] /\ change'[c] = change[c]
           /\ upload'[c] = upload[c]
           /\ \/ \A k \in Kinds : <<c, k>> \notin current'
              \/ /\ row'.kek = row.kek /\ row'.items = row.items
                 /\ \A k \in Kinds : <<c, k>> \in current' <=> <<c, k>> \in current,
         \A j \in DOMAIN enteredFor : j \in DOMAIN enteredFor' /\ enteredFor'[j] = enteredFor[j],
         ~overwrote' => ~overwrote /\ row.items \subseteq row'.items,
         RowOk', TabOk(b)'
  PROVE  AccountInv'
<1>1. AccountTypes'
  BY DEF AccountInv, AccountTypes, Known, RowType, TabType, CallType
<1>2. ASSUME NEW c \in Tabs \ {b} PROVE TabOk(c)'
  BY OtherTab DEF AccountInv
<1> QED BY <1>1, <1>2 DEF AccountInv

-----------------------------------------------------------------------------
(* Steps of one tab.                                                       *)

\* The values a step puts in place.
LEMMA Values ==
  ASSUME rows \in Nat
  PROVE  /\ Idle \in CallType /\ Shut \in TabType /\ Refusable \in CallType
         /\ Idle.stage = "idle" /\ Idle.id = 0 /\ Idle.items = {}
         /\ Refusable.stage = "sent" /\ Refusable.id = 0 /\ Refusable.items = {}
         /\ Shut.id = 0 /\ Shut.items = {} /\ Shut.bound = 0
<1>1. 0 \in Known
  BY DEF Known
<1> QED BY <1>1 DEF Idle, Shut, Refusable, CallType, TabType

\* What the invariant says of one tab.
LEMMA OneTab ==
  ASSUME AccountInv, NEW b \in Tabs
  PROVE  /\ rows \in Nat /\ salts \in Nat /\ overwrote \in BOOLEAN
         /\ row \in RowType /\ (row = NoRow \/ row.id # 0)
         /\ tab \in [Tabs -> TabType] /\ login \in [Tabs -> CallType]
         /\ change \in [Tabs -> CallType] /\ upload \in [Tabs -> [Items -> CallType]]
         /\ RowOk /\ OwnTab(b) /\ Page(b) /\ CurrentTab(b) /\ Answered(b)
BY DEF AccountInv, AccountTypes, TabOk

\* Asking for the salt starts a login and nothing else.
LEMMA LoginParamsKeeps ==
  ASSUME AccountInv, NEW b \in Tabs, LoginParams(b)
  PROVE  AccountInv'
<1> DEFINE l == [Idle EXCEPT !.stage = "proof", !.old = row.hash]
<1>1. /\ tab[b] = Shut /\ login[b] = Idle /\ login' = [login EXCEPT ![b] = l]
      /\ UNCHANGED <<row, rows, salts, tab, upload, change, enteredFor, kept, current, overwrote>>
  BY DEF LoginParams, rowVars, histVars
<1>2. l \in CallType /\ l.stage = "proof" /\ l.items = {}
  BY Values, OneTab DEF Idle, CallType, RowType
<1> HIDE DEF l
<1>3. /\ login' \in [Tabs -> CallType] /\ login'[b] = l
      /\ \A c \in Tabs \ {b} : login'[c] = login[c]
  BY <1>1, <1>2, OneTab
<1>4. OwnTab(b)'
  BY <1>1, <1>2, <1>3, OneTab DEF OwnTab, Own
<1>5. Page(b)'
  BY <1>1, <1>2, <1>3, OneTab, Values DEF Page, Open, CallOf
<1>6. CurrentTab(b)'
  <2>1. <<b, "login">> \notin current
    BY <1>1, OneTab, Values DEF CurrentTab, LoginCurrent
  <2>2. TabCurrent(b) => TabCurrent(b)'
    BY <1>1 DEF TabCurrent, NoAnswer, Open
  <2>3. ChangeCurrent(b) => ChangeCurrent(b)'
    BY <1>1, <1>2, <1>3 DEF ChangeCurrent, Open
  <2>4. \A i \in Items : SaveCurrent(b, i) => SaveCurrent(b, i)'
    BY <1>1 DEF SaveCurrent, Open
  <2> QED BY <1>1, <2>1, <2>2, <2>3, <2>4, OneTab DEF CurrentTab
<1>7. Answered(b)' /\ RowOk'
  BY <1>1, OneTab DEF Answered, RowOk, Own, NothingLost, SealMatches
<1> QED BY <1>1, <1>3, <1>4, <1>5, <1>6, <1>7, OneTab, TabKeeps DEF TabOk

\* A login given up takes only its own answer with it.
LEMMA LoginFailsKeeps ==
  ASSUME AccountInv, NEW b \in Tabs, LoginFails(b)
  PROVE  AccountInv'
<1>1. /\ login[b] # Idle /\ login' = [login EXCEPT ![b] = Idle]
      /\ current' = current \ {<<b, "login">>}
      /\ UNCHANGED <<row, rows, salts, tab, upload, change, enteredFor, kept, overwrote>>
  BY DEF LoginFails, rowVars
<1>2. /\ login' \in [Tabs -> CallType] /\ login'[b] = Idle
      /\ \A c \in Tabs \ {b} : login'[c] = login[c]
  BY <1>1, OneTab, Values
<1>3. /\ \A c \in Tabs \ {b}, k \in Kinds : <<c, k>> \in current' <=> <<c, k>> \in current
      /\ <<b, "login">> \notin current'
      /\ \A k \in Kinds \ {"login"} : <<b, k>> \in current' <=> <<b, k>> \in current
  BY <1>1
<1>4. OwnTab(b)'
  BY <1>1, <1>2, OneTab, Values DEF OwnTab, Own
<1>5. Page(b)'
  BY <1>1, <1>2, OneTab, Values DEF Page, Open, CallOf
<1>6. CurrentTab(b)'
  <2>1. TabCurrent(b) => TabCurrent(b)'
    BY <1>1 DEF TabCurrent, NoAnswer, Open
  <2>2. ChangeCurrent(b) => ChangeCurrent(b)'
    BY <1>1, <1>2, <1>3, Values, OneTab DEF ChangeCurrent, Open, Kinds
  <2>3. \A i \in Items : SaveCurrent(b, i) => SaveCurrent(b, i)'
    BY <1>1 DEF SaveCurrent, Open
  <2> QED BY <1>3, <2>1, <2>2, <2>3, OneTab, AccountAssumption DEF CurrentTab, Kinds
<1>7. Answered(b)' /\ RowOk'
  BY <1>1, OneTab DEF Answered, RowOk, Own, NothingLost, SealMatches
<1> QED BY <1>1, <1>2, <1>3, <1>4, <1>5, <1>6, <1>7, OneTab, TabKeeps DEF TabOk

\* A page that opens is as current as the answer it opens with.
LEMMA OpenVaultKeeps ==
  ASSUME AccountInv, NEW b \in Tabs, OpenVault(b)
  PROVE  AccountInv'
<1> DEFINE opened == [id |-> login[b].id, kek |-> login[b].kek, items |-> login[b].items,
                      bound |-> login[b].id]
           t == IF login[b].kek = login[b].old THEN opened ELSE Shut
<1>1. /\ login[b].stage = "ok" /\ tab' = [tab EXCEPT ![b] = t]
      /\ login' = [login EXCEPT ![b] = Idle]
      /\ current' = IF <<b, "login">> \in current /\ login[b].kek = login[b].old
                    THEN (current \ {<<b, "login">>}) \cup {<<b, "tab">>}
                    ELSE current \ {<<b, "login">>}
      /\ UNCHANGED <<row, rows, salts, upload, change, enteredFor, kept, overwrote>>
  BY DEF OpenVault, rowVars
<1>2. /\ opened \in TabType /\ t \in TabType /\ login[b].id # 0 /\ ~Open(b) /\ login[b] # Idle
      /\ change[b] = Idle /\ \A i \in Items : upload[b][i] = Idle
  BY <1>1, OneTab, Values DEF CallType, TabType, Page
<1>3. /\ opened.id = login[b].id /\ opened.kek = login[b].kek /\ opened.items = login[b].items
      /\ opened.bound = login[b].id
  OBVIOUS
<1> HIDE DEF opened
<1>4. /\ login' \in [Tabs -> CallType] /\ login'[b] = Idle
      /\ \A c \in Tabs \ {b} : login'[c] = login[c] /\ tab'[c] = tab[c]
      /\ tab' \in [Tabs -> TabType] /\ tab'[b] = t
  BY <1>1, <1>2, OneTab, Values
<1>5. /\ \A c \in Tabs \ {b}, k \in Kinds : <<c, k>> \in current' <=> <<c, k>> \in current
      /\ <<b, "login">> \notin current'
      /\ \A k \in Kinds \ {"login", "tab"} : <<b, k>> \in current' <=> <<b, k>> \in current
      /\ <<b, "tab">> \in current' =>
           <<b, "tab">> \in current \/ (<<b, "login">> \in current /\ login[b].kek = login[b].old)
      /\ <<b, "login">> \in current /\ login[b].kek = login[b].old => <<b, "tab">> \in current'
  <2>1. CASE <<b, "login">> \in current /\ login[b].kek = login[b].old
    <3>1. current' = (current \ {<<b, "login">>}) \cup {<<b, "tab">>}
      BY <1>1, <2>1
    <3>2. \A c, k : <<c, k>> \in current' <=>
            (<<c, k>> \in current /\ ~(c = b /\ k = "login")) \/ (c = b /\ k = "tab")
      BY <3>1
    <3> QED BY <3>2, <2>1
  <2>2. CASE ~(<<b, "login">> \in current /\ login[b].kek = login[b].old)
    <3>1. current' = current \ {<<b, "login">>}
      BY <1>1, <2>2
    <3>2. \A c, k : <<c, k>> \in current' <=> <<c, k>> \in current /\ ~(c = b /\ k = "login")
      BY <3>1
    <3> QED BY <3>2, <2>2
  <2> QED BY <2>1, <2>2
<1>6. OwnTab(b)'
  BY <1>1, <1>3, <1>4, OneTab, Values DEF OwnTab, Own
<1>7. Page(b)'
  BY <1>1, <1>2, <1>3, <1>4, OneTab, Values DEF Page, Open, CallOf
<1>8. CurrentTab(b)'
  <2>1. <<b, "tab">> \notin current
    BY <1>2, OneTab DEF CurrentTab, TabCurrent
  <2>2. <<b, "tab">> \in current' => TabCurrent(b)'
    BY <1>1, <1>2, <1>3, <1>4, <1>5, <2>1, OneTab, Values
       DEF CurrentTab, LoginCurrent, TabCurrent, NoAnswer, Open
  <2>3. <<b, "change">> \in current => ChangeCurrent(b)'
    BY <1>1, <1>2, <1>3, <1>4, <1>5, OneTab, Values DEF CurrentTab, ChangeCurrent, Open
  <2>4. \A i \in Items : <<b, i>> \in current => SaveCurrent(b, i)'
    BY <1>1, <1>2, OneTab, Values DEF CurrentTab, SaveCurrent
  <2> QED BY <1>5, <2>2, <2>3, <2>4, AccountAssumption DEF CurrentTab, Kinds
<1>9. Answered(b)' /\ RowOk'
  <2>1. overwrote => current' = {}
    BY <1>1, OneTab DEF RowOk
  <2> QED BY <1>1, <2>1, OneTab DEF Answered, RowOk, Own, NothingLost, SealMatches
<1> QED BY <1>1, <1>4, <1>5, <1>6, <1>7, <1>8, <1>9, OneTab, TabKeeps DEF TabOk

\* What a counted failure or a success leaves of the row.
LEMMA Counted ==
  ASSUME row \in RowType, Threshold \in Nat \ {0}
  PROVE  /\ Failed(row) \in RowType /\ Failed(row).id = row.id /\ Failed(row).hash = row.hash
         /\ Failed(row).kek = row.kek /\ Failed(row).items = row.items
         /\ Passed(row) \in RowType /\ Passed(row).id = row.id /\ Passed(row).hash = row.hash
         /\ Passed(row).kek = row.kek /\ Passed(row).items = row.items
<1>1. /\ row = [id |-> row.id, hash |-> row.hash, kek |-> row.kek, items |-> row.items,
                fails |-> row.fails, locked |-> row.locked]
      /\ row.id \in Known /\ row.hash \in Nat /\ row.kek \in Nat /\ row.items \in SUBSET Items
      /\ row.fails + 1 \in Nat /\ (row.fails + 1 >= Threshold) \in BOOLEAN
  BY DEF RowType
<1>2. /\ Failed(row) = [id |-> row.id, hash |-> row.hash, kek |-> row.kek, items |-> row.items,
                        fails |-> row.fails + 1, locked |-> (row.fails + 1 >= Threshold)]
      /\ Passed(row) = [id |-> row.id, hash |-> row.hash, kek |-> row.kek, items |-> row.items,
                        fails |-> 0, locked |-> FALSE]
  <2>1. Failed(row) = [row EXCEPT !.fails = row.fails + 1, !.locked = (row.fails + 1 >= Threshold)]
    BY DEF Failed
  <2>2. Passed(row) = [row EXCEPT !.fails = 0, !.locked = FALSE]
    BY DEF Passed
  <2> QED BY <1>1, <2>1, <2>2
<1> QED BY <1>1, <1>2 DEF RowType

\* A login refused is a failure counted.
LEMMA LoginRefusedKeeps ==
  ASSUME AccountInv, NEW b \in Tabs, LoginRefused(b)
  PROVE  AccountInv'
<1>1. /\ login[b].stage = "proof" /\ row # NoRow /\ row' = Failed(row)
      /\ login' = [login EXCEPT ![b] = Idle]
      /\ UNCHANGED <<rows, salts, tab, upload, change, enteredFor, kept, current, overwrote>>
  BY DEF LoginRefused, RecordFailure, Examined
<1>2. /\ row' \in RowType /\ row'.id = row.id /\ row'.hash = row.hash /\ row'.kek = row.kek
      /\ row'.items = row.items /\ row.id # 0
  BY <1>1, OneTab, Counted, AccountAssumption
<1>3. /\ login' \in [Tabs -> CallType] /\ login'[b] = Idle
      /\ \A c \in Tabs \ {b} : login'[c] = login[c]
  BY <1>1, OneTab, Values
<1>4. OwnTab(b)'
  BY <1>1, <1>3, OneTab, Values DEF OwnTab, Own
<1>5. Page(b)'
  BY <1>1, <1>3, OneTab, Values DEF Page, Open, CallOf
<1>6. CurrentTab(b)'
  <2>1. <<b, "login">> \notin current
    BY <1>1, OneTab DEF CurrentTab, LoginCurrent
  <2>2. TabCurrent(b) => TabCurrent(b)'
    BY <1>1, <1>2 DEF TabCurrent, NoAnswer, Open
  <2>3. ChangeCurrent(b) => ChangeCurrent(b)'
    BY <1>1, <1>2, <1>3, Values, OneTab DEF ChangeCurrent, Open
  <2>4. \A i \in Items : SaveCurrent(b, i) => SaveCurrent(b, i)'
    BY <1>1, <1>2 DEF SaveCurrent, Open
  <2> QED BY <1>1, <2>1, <2>2, <2>3, <2>4, OneTab DEF CurrentTab
<1>7. Answered(b)' /\ RowOk'
  BY <1>1, <1>2, OneTab DEF Answered, RowOk, Own, NothingLost, SealMatches
<1> QED BY <1>1, <1>2, <1>3, <1>4, <1>5, <1>6, <1>7, OneTab, TabKeeps DEF TabOk

\* An accepted login cuts off what the tab had sent, and its answer is the vault as it is.
LEMMA LoginAcceptedKeeps ==
  ASSUME AccountInv, NEW b \in Tabs, LoginAccepted(b)
  PROVE  AccountInv'
<1> DEFINE l == [stage |-> "ok", id |-> row.id, old |-> login[b].old, kek |-> row.kek,
                 items |-> row.items]
           u == [i \in Items |-> Cut(b, upload[b][i])]
           d == Cut(b, change[b])
<1>1. /\ login[b].stage = "proof" /\ row # NoRow /\ row' = Passed(row)
      /\ upload' = [upload EXCEPT ![b] = u] /\ change' = [change EXCEPT ![b] = d]
      /\ login' = [login EXCEPT ![b] = l]
      /\ current' = IF overwrote THEN {} ELSE current \cup {<<b, "login">>}
      /\ UNCHANGED <<rows, salts, tab, enteredFor, kept, overwrote>>
  BY OneTab DEF LoginAccepted, Examined, CutOff
<1>2. /\ row' \in RowType /\ row'.id = row.id /\ row'.hash = row.hash /\ row'.kek = row.kek
      /\ row'.items = row.items /\ row.id # 0
  BY <1>1, OneTab, Counted, AccountAssumption
<1>3. ~Open(b) /\ tab[b] = Shut
  BY <1>1, OneTab, Values DEF Page
\* Nothing is answered to a page that is not open, and nothing is left of what was sent.
<1>4. d \in CallType /\ u \in [Items -> CallType] /\ d = Idle /\ \A i \in Items : u[i] = Idle
  <2>1. ASSUME NEW c, CallOf(c, b) PROVE Cut(b, c) = Idle
    BY <1>3, <2>1, Values, OneTab DEF Cut, CallOf
  <2>2. CallOf(change[b], b) /\ \A i \in Items : CallOf(upload[b][i], b)
    BY OneTab DEF Page
  <2>3. d = Idle /\ \A i \in Items : Cut(b, upload[b][i]) = Idle
    BY <2>1, <2>2
  <2> QED BY <2>3, OneTab, Values
<1>5. l \in CallType /\ l.stage = "ok" /\ l.id = row.id /\ l.kek = row.kek /\ l.items = row.items
  BY OneTab DEF CallType, RowType
<1> HIDE DEF l, u, d
<1>6. /\ login' \in [Tabs -> CallType] /\ login'[b] = l
      /\ upload' \in [Tabs -> [Items -> CallType]] /\ \A i \in Items : upload'[b][i] = Idle
      /\ change' \in [Tabs -> CallType] /\ change'[b] = Idle
      /\ \A c \in Tabs \ {b} :
           login'[c] = login[c] /\ upload'[c] = upload[c] /\ change'[c] = change[c]
  BY <1>1, <1>4, <1>5, OneTab
<1>7. \A c, k : <<c, k>> \in current' <=>
        ~overwrote /\ (<<c, k>> \in current \/ (c = b /\ k = "login"))
  <2>1. CASE overwrote
    BY <1>1, <2>1
  <2>2. CASE ~overwrote
    BY <1>1, <2>2
  <2> QED BY <2>1, <2>2
<1>8. OwnTab(b)'
  BY <1>1, <1>5, <1>6, OneTab, Values DEF OwnTab, RowOk, Own
<1>9. Page(b)'
  BY <1>1, <1>2, <1>3, <1>5, <1>6, Values, OneTab DEF Page, Open, CallOf
<1>10. CurrentTab(b)'
  <2>1. <<b, "tab">> \in current' => TabCurrent(b)'
    BY <1>3, <1>7, OneTab DEF CurrentTab, TabCurrent
  <2>2. LoginCurrent(b)'
    BY <1>2, <1>5, <1>6 DEF LoginCurrent
  <2>3. <<b, "change">> \in current' => ChangeCurrent(b)'
    BY <1>1, <1>3, <1>6, <1>7, Values, OneTab DEF ChangeCurrent, Open
  <2>4. \A i \in Items : <<b, i>> \in current' => SaveCurrent(b, i)'
    <3> SUFFICES ASSUME NEW i \in Items, <<b, i>> \in current' PROVE SaveCurrent(b, i)'
      OBVIOUS
    <3>1. i \in DOMAIN enteredFor
      BY <1>7, OneTab, AccountAssumption DEF CurrentTab, SaveCurrent
    <3> QED BY <1>1, <1>6, <3>1, Values, OneTab DEF SaveCurrent
  <2> QED BY <2>1, <2>2, <2>3, <2>4 DEF CurrentTab
<1>11. Answered(b)' /\ RowOk'
  <2>1. Answered(b)'
    BY <1>6, Values, OneTab DEF Answered
  <2>2. overwrote => current' = {}
    BY <1>1
  <2> QED BY <1>1, <1>2, <2>1, <2>2, OneTab DEF RowOk, Own, NothingLost, SealMatches
<1>12. \A c \in Tabs \ {b} :
         \/ \A k \in Kinds : <<c, k>> \notin current'
         \/ \A k \in Kinds : <<c, k>> \in current' <=> <<c, k>> \in current
  BY <1>7
<1> QED BY <1>1, <1>2, <1>6, <1>8, <1>9, <1>10, <1>11, <1>12, OneTab, TabKeeps DEF TabOk

-----------------------------------------------------------------------------
(* A save.                                                                 *)

\* What replacing one save of a tab leaves of the others.
LEMMA UploadSet ==
  ASSUME AccountInv, NEW b \in Tabs, NEW i \in Items, NEW u \in CallType,
         upload' = [upload EXCEPT ![b][i] = u]
  PROVE  /\ upload' \in [Tabs -> [Items -> CallType]] /\ upload'[b][i] = u
         /\ \A j \in Items \ {i} : upload'[b][j] = upload[b][j]
         /\ \A c \in Tabs \ {b} : upload'[c] = upload[c]
BY OneTab

\* The current copies of a tab grow by what is made from a current page.
LEMMA MadeFromPage ==
  ASSUME NEW b \in Tabs, NEW kind \in Kinds, current' = MadeFrom(b, kind)
  PROVE  /\ \A c, k : <<c, k>> \in current' <=>
              \/ <<c, k>> \in current
              \/ c = b /\ k = kind /\ <<b, "tab">> \in current
         /\ current = {} => current' = {}
<1>1. CASE <<b, "tab">> \in current
  BY <1>1 DEF MadeFrom
<1>2. CASE <<b, "tab">> \notin current
  BY <1>2 DEF MadeFrom
<1> QED BY <1>1, <1>2

\* A save made from a current page is the vault with one key more.
LEMMA SendVaultKeeps ==
  ASSUME AccountInv, NEW b \in Tabs, NEW i \in Items, SendVault(b, i)
  PROVE  AccountInv'
<1> DEFINE u == Call(b, tab[b].kek, WithKey(b, i), 0)
<1>1. /\ tab[b] # Shut /\ upload[b][i] = Idle /\ i \notin DOMAIN enteredFor
      /\ upload' = [upload EXCEPT ![b][i] = u]
      /\ enteredFor' = [j \in DOMAIN enteredFor \cup {i} |->
                          IF j = i THEN tab[b].id ELSE enteredFor[j]]
      /\ current' = MadeFrom(b, i)
      /\ UNCHANGED <<row, rows, salts, tab, login, change, kept, overwrote>>
  BY DEF SendVault, rowVars
<1>2. /\ Open(b) /\ login[b] = Idle /\ u \in CallType /\ u.stage = "sent"
      /\ \/ u.id = 0 /\ u.items = {}
         \/ u.id = tab[b].id /\ u.kek = tab[b].kek /\ u.items = tab[b].items \cup {i}
  <2>1. /\ Open(b) /\ login[b] = Idle /\ tab[b].bound \in {0, tab[b].id}
        /\ tab[b].kek \in Nat /\ tab[b].id \in Known /\ WithKey(b, i) \in SUBSET Items
    BY <1>1, OneTab DEF Page, TabType, WithKey
  <2>2. WithKey(b, i) = tab[b].items \cup {i}
    BY DEF WithKey
  <2>3. CASE tab[b].bound = 0
    BY <2>1, <2>3, OneTab, Values DEF Call
  <2>4. CASE tab[b].bound # 0
    <3>1. u = [stage |-> "sent", id |-> tab[b].id, old |-> 0, kek |-> tab[b].kek,
               items |-> WithKey(b, i)]
      BY <2>1, <2>4 DEF Call
    <3> HIDE DEF u
    <3> QED BY <2>1, <2>2, <3>1 DEF CallType
  <2> QED BY <2>3, <2>4
<1> HIDE DEF u
<1>3. /\ upload' \in [Tabs -> [Items -> CallType]] /\ upload'[b][i] = u
      /\ \A j \in Items \ {i} : upload'[b][j] = upload[b][j]
      /\ \A c \in Tabs \ {b} : upload'[c] = upload[c]
  BY <1>1, <1>2, UploadSet
<1>4. /\ \A j \in DOMAIN enteredFor : j \in DOMAIN enteredFor' /\ enteredFor'[j] = enteredFor[j]
      /\ i \in DOMAIN enteredFor' /\ enteredFor'[i] = tab[b].id
  BY <1>1
<1>5. /\ \A c, k : <<c, k>> \in current' <=>
           \/ <<c, k>> \in current
           \/ c = b /\ k = i /\ <<b, "tab">> \in current
      /\ current = {} => current' = {}
  BY <1>1, MadeFromPage DEF Kinds
<1>6. /\ <<b, "tab">> \in current' <=> <<b, "tab">> \in current
      /\ <<b, "login">> \in current' <=> <<b, "login">> \in current
      /\ <<b, "change">> \in current' <=> <<b, "change">> \in current
      /\ \A j \in Items \ {i} : <<b, j>> \in current' <=> <<b, j>> \in current
  BY <1>5, AccountAssumption
<1>7. OwnTab(b)'
  BY <1>1, <1>2, <1>3, <1>4, OneTab DEF OwnTab, Own
<1>8. Page(b)'
  BY <1>1, <1>2, <1>3, OneTab, Values DEF Page, Open, CallOf
<1>9. CurrentTab(b)'
  <2>1. <<b, "tab">> \in current' => TabCurrent(b)'
    BY <1>1, <1>2, <1>3, <1>6, OneTab DEF CurrentTab, TabCurrent, NoAnswer, Open
  <2>2. <<b, "login">> \notin current'
    BY <1>2, <1>6, OneTab, Values DEF CurrentTab, LoginCurrent
  <2>3. <<b, "change">> \in current' => ChangeCurrent(b)'
    BY <1>1, <1>2, <1>3, <1>6, OneTab DEF CurrentTab, ChangeCurrent, Open
  <2>4. ASSUME NEW j \in Items, <<b, j>> \in current' PROVE SaveCurrent(b, j)'
    <3>1. CASE j = i
      <4>1. TabCurrent(b)
        BY <1>1, <1>5, <2>4, <3>1, OneTab DEF CurrentTab, SaveCurrent
      <4> QED BY <1>1, <1>2, <1>3, <1>4, <3>1, <4>1 DEF SaveCurrent, TabCurrent, NoAnswer, Open
    <3>2. CASE j # i
      BY <1>1, <1>2, <1>3, <1>4, <1>6, <2>4, <3>2, OneTab DEF CurrentTab, SaveCurrent, Open
    <3> QED BY <3>1, <3>2
  <2> QED BY <2>1, <2>2, <2>3, <2>4 DEF CurrentTab
<1>10. Answered(b)'
  BY <1>1, <1>2, <1>3, OneTab DEF Answered
<1>11. RowOk'
  BY <1>1, <1>4, <1>5, OneTab DEF RowOk, Own, NothingLost, SealMatches
<1> QED BY <1>1, <1>3, <1>4, <1>5, <1>7, <1>8, <1>9, <1>10, <1>11, OneTab, TabKeeps DEF TabOk

\* A write leaves only its own call current, if it was made from the vault as it was.
LEMMA WroteBy ==
  ASSUME NEW b \in Tabs, NEW kind \in Kinds, overwrote \in BOOLEAN, Wrote(b, kind)
  PROVE  /\ overwrote' \in BOOLEAN /\ (overwrote' => current' = {})
         /\ ~overwrote' => ~overwrote /\ <<b, kind>> \in current
         /\ \A c, k : <<c, k>> \in current' => c = b /\ k = kind
         /\ \A c, k : <<c, k>> \in current' => ~overwrote'
<1>1. overwrote' = (overwrote \/ <<b, kind>> \notin current)
  BY DEF Wrote
<1>2. CASE overwrote'
  BY <1>1, <1>2 DEF Wrote
<1>3. CASE ~overwrote'
  <2>1. current' = {<<b, kind>>}
    BY <1>3 DEF Wrote
  <2> QED BY <1>1, <1>3, <2>1
<1> QED BY <1>2, <1>3

\* The row after a save is what was sent: the vault with one key more, or an overwrite.
LEMMA HandleVaultKeeps ==
  ASSUME AccountInv, NEW b \in Tabs, NEW i \in Items, HandleVault(b, i)
  PROVE  AccountInv'
<1> DEFINE u == upload[b][i]
           a == Answer(b, u)
<1>1. /\ u.stage = "sent" /\ u.id # 0 /\ u.id = row.id
      /\ row' = [row EXCEPT !.kek = u.kek, !.items = u.items]
      /\ upload' = [upload EXCEPT ![b][i] = a]
      /\ Wrote(b, i)
      /\ UNCHANGED <<rows, salts, tab, login, change, enteredFor, kept>>
  BY OneTab DEF HandleVault, Active
<1>2. /\ u \in CallType /\ login[b].stage # "ok" /\ i \in u.items
      /\ Open(b) => u.id = tab[b].id
  BY <1>1, OneTab, Values DEF Page, CallOf
<1>3. /\ a \in CallType
      /\ \/ a = Idle /\ ~Open(b)
         \/ /\ Open(b) /\ a.stage = "ok" /\ a.id = u.id /\ a.kek = u.kek /\ a.items = u.items
  <2> HIDE DEF u
  <2>1. CASE tab[b] = Shut
    BY <2>1, OneTab, Values DEF Answer, Open
  <2>2. CASE tab[b] # Shut
    BY <1>2, <2>2, OneTab DEF Answer, Page, CallType
  <2> QED BY <2>1, <2>2
<1>4. /\ row' \in RowType /\ row'.id = row.id /\ row'.hash = row.hash
      /\ row'.kek = u.kek /\ row'.items = u.items /\ row.id # 0 /\ row # NoRow
  <2>1. u.kek \in Nat /\ u.items \in SUBSET Items /\ row.id # 0
    BY <1>1, <1>2 DEF CallType
  <2>2. /\ row.id \in Known /\ row.hash \in Nat /\ row.fails \in Nat /\ row.locked \in BOOLEAN
        /\ row = [id |-> row.id, hash |-> row.hash, kek |-> row.kek, items |-> row.items,
                  fails |-> row.fails, locked |-> row.locked]
    BY OneTab DEF RowType
  <2> HIDE DEF u
  <2>3. row' = [id |-> row.id, hash |-> row.hash, kek |-> u.kek, items |-> u.items,
                fails |-> row.fails, locked |-> row.locked]
    BY <1>1, <2>2
  <2> QED BY <2>1, <2>2, <2>3 DEF RowType, NoRow
<1>5. /\ upload' \in [Tabs -> [Items -> CallType]] /\ upload'[b][i] = a
      /\ \A j \in Items \ {i} : upload'[b][j] = upload[b][j]
      /\ \A c \in Tabs \ {b} : upload'[c] = upload[c]
  BY <1>1, <1>3, UploadSet
<1>6. /\ overwrote' \in BOOLEAN /\ (overwrote' => current' = {})
      /\ ~overwrote' => ~overwrote /\ <<b, i>> \in current
      /\ \A c, k : <<c, k>> \in current' => c = b /\ k = i
      /\ \A c, k : <<c, k>> \in current' => ~overwrote'
  BY <1>1, WroteBy, OneTab DEF Kinds
\* What is written was made from the vault as it was.
<1>7. ~overwrote' =>
        /\ i \in DOMAIN enteredFor /\ change[b].stage # "ok"
        /\ \A j \in Items \ {i} : upload[b][j].stage # "ok"
        /\ u.kek = row.kek /\ u.items = row.items \cup {i}
        /\ Open(b) => tab[b].kek = row.kek
  BY <1>1, <1>6, OneTab DEF CurrentTab, SaveCurrent
<1> HIDE DEF u, a
<1>8. OwnTab(b)'
  <2>1. Own(u.items, u.id) /\ \A j \in Items : Own(upload[b][j].items, upload[b][j].id)
    BY OneTab DEF OwnTab, u
  <2> QED BY <1>1, <1>3, <1>5, <2>1, OneTab, Values DEF OwnTab, Own
<1>9. Page(b)'
  BY <1>1, <1>2, <1>3, <1>5, OneTab, Values DEF Page, Open, CallOf
<1>10. CurrentTab(b)'
  <2>1. \A k \in Kinds \ {i} : <<b, k>> \notin current'
    BY <1>6
  <2>2. <<b, i>> \in current' => SaveCurrent(b, i)'
    BY <1>1, <1>3, <1>4, <1>5, <1>6, <1>7, OneTab, Values DEF SaveCurrent, Open
  <2>3. /\ <<b, "tab">> \notin current' /\ <<b, "login">> \notin current'
        /\ <<b, "change">> \notin current' /\ \A j \in Items \ {i} : <<b, j>> \notin current'
    BY <2>1, AccountAssumption DEF Kinds
  <2> QED BY <2>2, <2>3 DEF CurrentTab
<1>11. Answered(b)'
  BY <1>1, <1>2, <1>3, <1>4, <1>5, <1>7, OneTab, Values DEF Answered
<1>12. RowOk'
  <2>1. Own(row.items, row.id)'
    BY <1>1, <1>4, OneTab DEF OwnTab, Own, u
  <2> QED BY <1>1, <1>4, <1>6, <1>7, <2>1, OneTab DEF RowOk, NothingLost, SealMatches
<1>13. ~overwrote' => ~overwrote /\ row.items \subseteq row'.items
  BY <1>4, <1>6, <1>7
<1>14. \A c \in Tabs \ {b} : \A k \in Kinds : <<c, k>> \notin current'
  BY <1>6
<1> QED BY <1>1, <1>4, <1>5, <1>6, <1>8, <1>9, <1>10, <1>11, <1>12, <1>13, <1>14, OneTab, TabKeeps
        DEF TabOk

\* What is learnt from an answer.
LEMMA LearntBy ==
  ASSUME NEW b \in Tabs, NEW kind \in Kinds, kind # "tab", Learnt(b, kind)
  PROVE  /\ \A c, k : c # b => (<<c, k>> \in current' <=> <<c, k>> \in current)
         /\ <<b, "tab">> \in current' => <<b, kind>> \in current
         /\ \A k : k # "tab" /\ <<b, k>> \in current' => <<b, k>> \in current
         /\ <<b, kind>> \notin current'
         /\ current = {} => current' = {}
<1>1. CASE <<b, kind>> \in current
  <2>1. current' = (current \ {<<b, kind>>}) \cup {<<b, "tab">>}
    BY <1>1 DEF Learnt
  <2> QED BY <1>1, <2>1
<1>2. CASE <<b, kind>> \notin current
  <2>1. current' = current \ {<<b, "tab">>}
    BY <1>2 DEF Learnt
  <2> QED BY <1>2, <2>1
<1> QED BY <1>1, <1>2

\* A page that hears that its save succeeded is current, if nothing was written since.
LEMMA VaultSavedKeeps ==
  ASSUME AccountInv, NEW b \in Tabs, NEW i \in Items, VaultSaved(b, i)
  PROVE  AccountInv'
<1> DEFINE u == upload[b][i]
           t == [tab[b] EXCEPT !.items = u.items]
<1>1. /\ u.stage = "ok" /\ tab' = [tab EXCEPT ![b] = t]
      /\ kept' = IF u.id = row.id THEN kept \cup {i} ELSE kept
      /\ upload' = [upload EXCEPT ![b][i] = Idle]
      /\ Learnt(b, i)
      /\ UNCHANGED <<row, rows, salts, login, change, enteredFor, overwrote>>
  BY OneTab DEF VaultSaved, rowVars
<1>2. /\ u \in CallType /\ u.id = tab[b].id /\ Open(b) /\ login[b] = Idle /\ u.id # 0
  BY <1>1, OneTab, Values DEF Page, CallOf, Open
<1>3. /\ t \in TabType /\ t.id = tab[b].id /\ t.kek = tab[b].kek /\ t.bound = tab[b].bound
      /\ t.items = u.items
  <2>1. tab[b] \in TabType /\ u.items \in SUBSET Items
    BY <1>2, OneTab DEF CallType
  <2> HIDE DEF u
  <2> QED BY <2>1 DEF TabType
<1>4. /\ upload' \in [Tabs -> [Items -> CallType]] /\ upload'[b][i] = Idle
      /\ \A j \in Items \ {i} : upload'[b][j] = upload[b][j]
      /\ \A c \in Tabs \ {b} : upload'[c] = upload[c]
  BY <1>1, UploadSet, OneTab, Values
<1>5. /\ \A c, k : c # b => (<<c, k>> \in current' <=> <<c, k>> \in current)
      /\ <<b, "tab">> \in current' => <<b, i>> \in current
      /\ \A k : k # "tab" /\ <<b, k>> \in current' => <<b, k>> \in current
      /\ <<b, i>> \notin current'
      /\ current = {} => current' = {}
  BY <1>1, LearntBy, AccountAssumption DEF Kinds
\* No other call was current when the answer came.
<1>6. /\ <<b, "change">> \notin current /\ <<b, "login">> \notin current
      /\ \A j \in Items \ {i} : <<b, j>> \notin current
  <2>1. ~ChangeCurrent(b)
    BY <1>1 DEF ChangeCurrent
  <2>2. ~LoginCurrent(b)
    BY <1>2, OneTab, Values DEF LoginCurrent
  <2>3. \A j \in Items \ {i} : ~SaveCurrent(b, j)
    BY <1>1 DEF SaveCurrent
  <2> QED BY <2>1, <2>2, <2>3, OneTab DEF CurrentTab
<1>7. <<b, i>> \in current =>
        /\ change[b].stage # "ok" /\ \A j \in Items \ {i} : upload[b][j].stage # "ok"
        /\ u.id = row.id /\ u.kek = row.kek /\ u.items = row.items /\ tab[b].kek = row.kek
  BY <1>1, OneTab DEF CurrentTab, SaveCurrent
<1>8. ~overwrote /\ u.id = row.id => i \in row.items
  BY <1>1, OneTab DEF Answered
<1>9. Own(u.items, u.id)
  BY OneTab DEF OwnTab
<1> HIDE DEF u, t
<1>10. /\ tab' \in [Tabs -> TabType] /\ tab'[b] = t
       /\ \A c \in Tabs \ {b} : tab'[c] = tab[c]
  BY <1>1, <1>3, OneTab
<1>11. OwnTab(b)'
  BY <1>1, <1>2, <1>3, <1>4, <1>9, <1>10, OneTab, Values DEF OwnTab, Own
<1>12. Page(b)'
  BY <1>1, <1>2, <1>3, <1>4, <1>10, OneTab, Values DEF Page, Open, CallOf
<1>13. CurrentTab(b)'
  <2>1. <<b, "tab">> \in current' => TabCurrent(b)'
    BY <1>1, <1>2, <1>3, <1>4, <1>5, <1>7, <1>10, OneTab, Values DEF TabCurrent, NoAnswer, Open
  <2>2. /\ <<b, "login">> \notin current' /\ <<b, "change">> \notin current'
        /\ \A j \in Items : <<b, j>> \notin current'
    BY <1>5, <1>6, AccountAssumption
  <2> QED BY <2>1, <2>2 DEF CurrentTab
<1>14. Answered(b)'
  BY <1>1, <1>4, OneTab, Values DEF Answered
<1>15. RowOk'
  BY <1>1, <1>5, <1>8, OneTab DEF RowOk, Own, NothingLost, SealMatches
<1>16. \A c \in Tabs \ {b} : \A k \in Kinds : <<c, k>> \in current' <=> <<c, k>> \in current
  BY <1>5
<1> QED BY <1>1, <1>4, <1>10, <1>11, <1>12, <1>13, <1>14, <1>15, <1>16, OneTab, TabKeeps DEF TabOk

\* A save given up takes only itself with it.
LEMMA VaultNotSavedKeeps ==
  ASSUME AccountInv, NEW b \in Tabs, NEW i \in Items, VaultNotSaved(b, i)
  PROVE  AccountInv'
<1>1. /\ upload[b][i] # Idle /\ upload' = [upload EXCEPT ![b][i] = Idle]
      /\ current' = current \ {<<b, i>>}
      /\ UNCHANGED <<row, rows, salts, tab, login, change, enteredFor, kept, overwrote>>
  BY DEF VaultNotSaved, rowVars
<1>2. /\ upload' \in [Tabs -> [Items -> CallType]] /\ upload'[b][i] = Idle
      /\ \A j \in Items \ {i} : upload'[b][j] = upload[b][j]
      /\ \A c \in Tabs \ {b} : upload'[c] = upload[c]
  BY <1>1, UploadSet, OneTab, Values
<1>3. \A c, k : <<c, k>> \in current' <=> <<c, k>> \in current /\ ~(c = b /\ k = i)
  BY <1>1
<1>4. /\ <<b, "tab">> \in current' <=> <<b, "tab">> \in current
      /\ <<b, "login">> \in current' <=> <<b, "login">> \in current
      /\ <<b, "change">> \in current' <=> <<b, "change">> \in current
      /\ <<b, i>> \notin current'
      /\ \A j \in Items \ {i} : <<b, j>> \in current' <=> <<b, j>> \in current
  BY <1>3, AccountAssumption
<1>5. OwnTab(b)'
  BY <1>1, <1>2, OneTab, Values DEF OwnTab, Own
<1>6. Page(b)'
  BY <1>1, <1>2, OneTab, Values DEF Page, Open, CallOf
<1>7. CurrentTab(b)'
  <2>1. TabCurrent(b) => TabCurrent(b)'
    BY <1>1, <1>2, OneTab, Values DEF TabCurrent, NoAnswer, Open
  <2>2. LoginCurrent(b) => LoginCurrent(b)'
    BY <1>1 DEF LoginCurrent
  <2>3. ChangeCurrent(b) => ChangeCurrent(b)'
    BY <1>1, <1>2, <1>4, OneTab, Values DEF ChangeCurrent, Open
  <2>4. \A j \in Items \ {i} : SaveCurrent(b, j) => SaveCurrent(b, j)'
    BY <1>1, <1>2, OneTab, Values DEF SaveCurrent, Open
  <2> QED BY <1>4, <2>1, <2>2, <2>3, <2>4, OneTab DEF CurrentTab
<1>8. Answered(b)'
  BY <1>1, <1>2, OneTab, Values DEF Answered
<1>9. RowOk'
  BY <1>1, OneTab DEF RowOk, Own, NothingLost, SealMatches
<1>10. \A c \in Tabs \ {b} : \A k \in Kinds : <<c, k>> \in current' <=> <<c, k>> \in current
  BY <1>3
<1> QED BY <1>1, <1>2, <1>5, <1>6, <1>7, <1>8, <1>9, <1>10, OneTab, TabKeeps DEF TabOk

-----------------------------------------------------------------------------
(* A change of the password.                                               *)

\* A change made from a current page carries the vault as it is.
LEMMA SendChangeKeeps ==
  ASSUME AccountInv, NEW b \in Tabs, SendChange(b)
  PROVE  AccountInv'
<1> DEFINE d == Call(b, salts + 1, tab[b].items, row.hash)
<1>1. /\ tab[b] # Shut /\ change[b] = Idle /\ salts' = salts + 1
      /\ change' = [change EXCEPT ![b] = d]
      /\ current' = MadeFrom(b, "change")
      /\ UNCHANGED <<row, rows, tab, login, upload, enteredFor, kept, overwrote>>
  BY DEF SendChange
<1>2. /\ Open(b) /\ login[b] = Idle /\ d \in CallType /\ d.stage = "sent"
      /\ \/ d.id = 0 /\ d.items = {}
         \/ d.id = tab[b].id /\ d.items = tab[b].items
  <2>1. /\ Open(b) /\ login[b] = Idle /\ tab[b].bound \in {0, tab[b].id}
        /\ salts + 1 \in Nat /\ row.hash \in Nat
        /\ tab[b].id \in Known /\ tab[b].items \in SUBSET Items
    BY <1>1, OneTab DEF Page, TabType, RowType
  <2>2. CASE tab[b].bound = 0
    BY <2>1, <2>2, OneTab, Values DEF Call
  <2>3. CASE tab[b].bound # 0
    <3>1. d = [stage |-> "sent", id |-> tab[b].id, old |-> row.hash, kek |-> salts + 1,
               items |-> tab[b].items]
      BY <2>1, <2>3 DEF Call
    <3> HIDE DEF d
    <3> QED BY <2>1, <3>1 DEF CallType
  <2> QED BY <2>2, <2>3
<1> HIDE DEF d
<1>3. /\ change' \in [Tabs -> CallType] /\ change'[b] = d
      /\ \A c \in Tabs \ {b} : change'[c] = change[c]
      /\ salts' \in Nat
  BY <1>1, <1>2, OneTab
<1>4. /\ \A c, k : <<c, k>> \in current' <=>
           \/ <<c, k>> \in current
           \/ c = b /\ k = "change" /\ <<b, "tab">> \in current
      /\ current = {} => current' = {}
  BY <1>1, MadeFromPage DEF Kinds
<1>5. /\ <<b, "tab">> \in current' <=> <<b, "tab">> \in current
      /\ <<b, "login">> \in current' <=> <<b, "login">> \in current
      /\ \A i \in Items : <<b, i>> \in current' <=> <<b, i>> \in current
  BY <1>4, AccountAssumption
<1>6. OwnTab(b)'
  BY <1>1, <1>2, <1>3, OneTab DEF OwnTab, Own
<1>7. Page(b)'
  BY <1>1, <1>2, <1>3, OneTab, Values DEF Page, Open, CallOf
<1>8. CurrentTab(b)'
  <2>1. TabCurrent(b) => TabCurrent(b)'
    BY <1>1, <1>2, <1>3 DEF TabCurrent, NoAnswer, Open
  <2>2. LoginCurrent(b) => LoginCurrent(b)'
    BY <1>1 DEF LoginCurrent
  <2>3. <<b, "change">> \in current' => ChangeCurrent(b)'
    <3>1. <<b, "change">> \in current' => TabCurrent(b)
      BY <1>1, <1>2, <1>4, OneTab DEF CurrentTab, ChangeCurrent
    <3> QED BY <1>1, <1>2, <1>3, <3>1, OneTab, Values DEF ChangeCurrent, TabCurrent, NoAnswer, Open
  <2>4. \A i \in Items : SaveCurrent(b, i) => SaveCurrent(b, i)'
    BY <1>1, <1>2, <1>3 DEF SaveCurrent, Open
  <2> QED BY <1>5, <2>1, <2>2, <2>3, <2>4, OneTab DEF CurrentTab
<1>9. Answered(b)' /\ RowOk'
  BY <1>1, <1>4, OneTab DEF Answered, RowOk, Own, NothingLost, SealMatches
<1>10. \A c \in Tabs \ {b} : \A k \in Kinds : <<c, k>> \in current' <=> <<c, k>> \in current
  BY <1>4
<1> QED BY <1>1, <1>3, <1>6, <1>7, <1>8, <1>9, <1>10, OneTab, TabKeeps DEF TabOk

\* The row after a change has proof and vault from one salt.
LEMMA HandleChangeKeeps ==
  ASSUME AccountInv, NEW b \in Tabs, HandleChange(b)
  PROVE  AccountInv'
<1> DEFINE d == change[b]
           a == Answer(b, d)
<1>1. /\ d.stage = "sent" /\ d.id # 0 /\ d.id = row.id
      /\ row' = Replaced(Passed(row), d)
      /\ change' = [change EXCEPT ![b] = a]
      /\ Wrote(b, "change")
      /\ UNCHANGED <<rows, salts, tab, login, upload, enteredFor, kept>>
  BY OneTab DEF HandleChange, Active
<1>2. /\ d \in CallType /\ login[b].stage # "ok"
      /\ Open(b) => d.id = tab[b].id
  BY <1>1, OneTab, Values DEF Page, CallOf
<1>3. /\ a \in CallType
      /\ \/ a = Idle /\ ~Open(b)
         \/ /\ Open(b) /\ a.stage = "ok" /\ a.id = d.id /\ a.kek = d.kek /\ a.items = d.items
  <2> HIDE DEF d
  <2>1. CASE tab[b] = Shut
    BY <2>1, OneTab, Values DEF Answer, Open
  <2>2. CASE tab[b] # Shut
    BY <1>2, <2>2, OneTab DEF Answer, Page, CallType
  <2> QED BY <2>1, <2>2
<1>4. /\ row' \in RowType /\ row'.id = row.id /\ row'.hash = d.kek
      /\ row'.kek = d.kek /\ row'.items = d.items /\ row.id # 0 /\ row # NoRow
  <2>1. d.kek \in Nat /\ d.items \in SUBSET Items /\ row.id # 0
    BY <1>1, <1>2 DEF CallType
  <2>2. row.id \in Known
    BY OneTab DEF RowType
  <2> HIDE DEF d
  <2>3. PICK p : p = Passed(row)
    OBVIOUS
  <2>4. p \in RowType /\ p.id = row.id
    BY <2>3, OneTab, Counted, AccountAssumption
  <2>5. /\ p = [id |-> p.id, hash |-> p.hash, kek |-> p.kek, items |-> p.items,
                fails |-> p.fails, locked |-> p.locked]
        /\ p.fails \in Nat /\ p.locked \in BOOLEAN
    BY <2>4 DEF RowType
  <2>6. row' = [p EXCEPT !.hash = d.kek, !.kek = d.kek, !.items = d.items]
    BY <1>1, <2>3 DEF Replaced
  <2>7. row' = [id |-> row.id, hash |-> d.kek, kek |-> d.kek, items |-> d.items,
                fails |-> p.fails, locked |-> p.locked]
    BY <2>4, <2>5, <2>6
  <2> QED BY <2>1, <2>2, <2>5, <2>7 DEF RowType, NoRow
<1>5. /\ change' \in [Tabs -> CallType] /\ change'[b] = a
      /\ \A c \in Tabs \ {b} : change'[c] = change[c]
  BY <1>1, <1>3, OneTab
<1>6. /\ overwrote' \in BOOLEAN /\ (overwrote' => current' = {})
      /\ ~overwrote' => ~overwrote /\ <<b, "change">> \in current
      /\ \A c, k : <<c, k>> \in current' => c = b /\ k = "change"
      /\ \A c, k : <<c, k>> \in current' => ~overwrote'
  BY <1>1, WroteBy, OneTab DEF Kinds
\* What is written was made from the vault as it was.
<1>7. ~overwrote' =>
        /\ \A j \in Items : upload[b][j].stage # "ok"
        /\ d.items = row.items
        /\ Open(b) => tab[b].items = row.items
  BY <1>1, <1>6, OneTab DEF CurrentTab, ChangeCurrent
<1>8. Own(d.items, d.id)
  BY OneTab DEF OwnTab
<1> HIDE DEF d, a
<1>9. OwnTab(b)'
  BY <1>1, <1>3, <1>5, <1>8, OneTab, Values DEF OwnTab, Own
<1>10. Page(b)'
  BY <1>1, <1>2, <1>3, <1>5, OneTab, Values DEF Page, Open, CallOf
<1>11. CurrentTab(b)'
  <2>1. <<b, "change">> \in current' => ChangeCurrent(b)'
    BY <1>1, <1>2, <1>3, <1>4, <1>5, <1>6, <1>7, OneTab, Values DEF ChangeCurrent, Open
  <2>2. /\ <<b, "tab">> \notin current' /\ <<b, "login">> \notin current'
        /\ \A j \in Items : <<b, j>> \notin current'
    BY <1>6, AccountAssumption
  <2> QED BY <2>1, <2>2 DEF CurrentTab
<1>12. Answered(b)'
  BY <1>1, <1>7 DEF Answered
<1>13. RowOk'
  BY <1>1, <1>4, <1>6, <1>7, <1>8, OneTab DEF RowOk, NothingLost, SealMatches, Own
<1>14. ~overwrote' => ~overwrote /\ row.items \subseteq row'.items
  BY <1>4, <1>6, <1>7
<1>15. \A c \in Tabs \ {b} : \A k \in Kinds : <<c, k>> \notin current'
  BY <1>6
<1> QED BY <1>1, <1>4, <1>5, <1>6, <1>9, <1>10, <1>11, <1>12, <1>13, <1>14, <1>15, OneTab, TabKeeps
        DEF TabOk

\* A change refused is a failure counted.
LEMMA ChangeRefusedKeeps ==
  ASSUME AccountInv, NEW b \in Tabs, ChangeRefused(b)
  PROVE  AccountInv'
<1>1. /\ change[b].stage = "sent" /\ row # NoRow /\ row' = Failed(row)
      /\ change' = [change EXCEPT ![b] = Idle]
      /\ current' = current \ {<<b, "change">>}
      /\ UNCHANGED <<rows, salts, tab, login, upload, enteredFor, kept, overwrote>>
  BY DEF ChangeRefused, RecordFailure, Examined
<1>2. /\ row' \in RowType /\ row'.id = row.id /\ row'.hash = row.hash /\ row'.kek = row.kek
      /\ row'.items = row.items /\ row.id # 0
  BY <1>1, OneTab, Counted, AccountAssumption
<1>3. /\ change' \in [Tabs -> CallType] /\ change'[b] = Idle
      /\ \A c \in Tabs \ {b} : change'[c] = change[c]
  BY <1>1, OneTab, Values
<1>4. \A c, k : <<c, k>> \in current' <=> <<c, k>> \in current /\ ~(c = b /\ k = "change")
  BY <1>1
<1>5. /\ <<b, "tab">> \in current' <=> <<b, "tab">> \in current
      /\ <<b, "login">> \in current' <=> <<b, "login">> \in current
      /\ <<b, "change">> \notin current'
      /\ \A i \in Items : <<b, i>> \in current' <=> <<b, i>> \in current
  BY <1>4, AccountAssumption
<1>6. OwnTab(b)'
  BY <1>1, <1>3, OneTab, Values DEF OwnTab, Own
<1>7. Page(b)'
  BY <1>1, <1>3, OneTab, Values DEF Page, Open, CallOf
<1>8. CurrentTab(b)'
  <2>1. TabCurrent(b) => TabCurrent(b)'
    BY <1>1, <1>2, <1>3, OneTab, Values DEF TabCurrent, NoAnswer, Open
  <2>2. LoginCurrent(b) => LoginCurrent(b)'
    BY <1>1, <1>2 DEF LoginCurrent
  <2>3. \A i \in Items : SaveCurrent(b, i) => SaveCurrent(b, i)'
    BY <1>1, <1>2, <1>3, OneTab, Values DEF SaveCurrent, Open
  <2> QED BY <1>5, <2>1, <2>2, <2>3, OneTab DEF CurrentTab
<1>9. Answered(b)' /\ RowOk'
  BY <1>1, <1>2, OneTab DEF Answered, RowOk, Own, NothingLost, SealMatches
<1>10. \A c \in Tabs \ {b} : \A k \in Kinds : <<c, k>> \in current' <=> <<c, k>> \in current
  BY <1>4
<1> QED BY <1>1, <1>2, <1>3, <1>6, <1>7, <1>8, <1>9, <1>10, OneTab, TabKeeps DEF TabOk

\* A change given up takes only itself with it.
LEMMA ChangeFailsKeeps ==
  ASSUME AccountInv, NEW b \in Tabs, ChangeFails(b)
  PROVE  AccountInv'
<1>1. /\ change[b] # Idle /\ change' = [change EXCEPT ![b] = Idle]
      /\ current' = current \ {<<b, "change">>}
      /\ UNCHANGED <<row, rows, salts, tab, login, upload, enteredFor, kept, overwrote>>
  BY DEF ChangeFails, rowVars
<1>2. /\ change' \in [Tabs -> CallType] /\ change'[b] = Idle
      /\ \A c \in Tabs \ {b} : change'[c] = change[c]
  BY <1>1, OneTab, Values
<1>3. \A c, k : <<c, k>> \in current' <=> <<c, k>> \in current /\ ~(c = b /\ k = "change")
  BY <1>1
<1>4. /\ <<b, "tab">> \in current' <=> <<b, "tab">> \in current
      /\ <<b, "login">> \in current' <=> <<b, "login">> \in current
      /\ <<b, "change">> \notin current'
      /\ \A i \in Items : <<b, i>> \in current' <=> <<b, i>> \in current
  BY <1>3, AccountAssumption
<1>5. OwnTab(b)'
  BY <1>1, <1>2, OneTab, Values DEF OwnTab, Own
<1>6. Page(b)'
  BY <1>1, <1>2, OneTab, Values DEF Page, Open, CallOf
<1>7. CurrentTab(b)'
  <2>1. TabCurrent(b) => TabCurrent(b)'
    BY <1>1, <1>2, OneTab, Values DEF TabCurrent, NoAnswer, Open
  <2>2. LoginCurrent(b) => LoginCurrent(b)'
    BY <1>1 DEF LoginCurrent
  <2>3. \A i \in Items : SaveCurrent(b, i) => SaveCurrent(b, i)'
    BY <1>1, <1>2, OneTab, Values DEF SaveCurrent, Open
  <2> QED BY <1>4, <2>1, <2>2, <2>3, OneTab DEF CurrentTab
<1>8. Answered(b)' /\ RowOk'
  BY <1>1, OneTab DEF Answered, RowOk, Own, NothingLost, SealMatches
<1>9. \A c \in Tabs \ {b} : \A k \in Kinds : <<c, k>> \in current' <=> <<c, k>> \in current
  BY <1>3
<1> QED BY <1>1, <1>2, <1>5, <1>6, <1>7, <1>8, <1>9, OneTab, TabKeeps DEF TabOk

\* A page that hears that its change succeeded has the new key, and the vault it had.
LEMMA ChangedKeeps ==
  ASSUME AccountInv, NEW b \in Tabs, Changed(b)
  PROVE  AccountInv'
<1> DEFINE d == change[b]
           t == [tab[b] EXCEPT !.kek = d.kek]
<1>1. /\ d.stage = "ok" /\ tab' = [tab EXCEPT ![b] = t]
      /\ change' = [change EXCEPT ![b] = Idle]
      /\ Learnt(b, "change")
      /\ UNCHANGED <<row, rows, salts, login, upload, enteredFor, kept, overwrote>>
  BY OneTab DEF Changed, rowVars
<1>2. /\ d \in CallType /\ d.id = tab[b].id /\ Open(b) /\ login[b] = Idle
  BY <1>1, OneTab, Values DEF Page, CallOf, Open
<1>3. /\ t \in TabType /\ t.id = tab[b].id /\ t.kek = d.kek /\ t.bound = tab[b].bound
      /\ t.items = tab[b].items
  <2>1. tab[b] \in TabType /\ d.kek \in Nat
    BY <1>2, OneTab DEF CallType
  <2> HIDE DEF d
  <2> QED BY <2>1 DEF TabType
<1>4. /\ \A c, k : c # b => (<<c, k>> \in current' <=> <<c, k>> \in current)
      /\ <<b, "tab">> \in current' => <<b, "change">> \in current
      /\ \A k : k # "tab" /\ <<b, k>> \in current' => <<b, k>> \in current
      /\ <<b, "change">> \notin current'
      /\ current = {} => current' = {}
  BY <1>1, LearntBy DEF Kinds
\* No other call was current when the answer came.
<1>5. <<b, "login">> \notin current /\ \A i \in Items : <<b, i>> \notin current
  <2>1. ~LoginCurrent(b)
    BY <1>2, OneTab, Values DEF LoginCurrent
  <2>2. \A i \in Items : ~SaveCurrent(b, i)
    BY <1>1 DEF SaveCurrent
  <2> QED BY <2>1, <2>2, OneTab DEF CurrentTab
<1>6. <<b, "change">> \in current =>
        /\ \A i \in Items : upload[b][i].stage # "ok"
        /\ d.id = row.id /\ d.kek = row.kek /\ tab[b].items = row.items
  BY <1>1, OneTab DEF CurrentTab, ChangeCurrent
<1> HIDE DEF d, t
<1>7. /\ tab' \in [Tabs -> TabType] /\ tab'[b] = t
      /\ change' \in [Tabs -> CallType] /\ change'[b] = Idle
      /\ \A c \in Tabs \ {b} : tab'[c] = tab[c] /\ change'[c] = change[c]
  BY <1>1, <1>3, OneTab, Values
<1>8. OwnTab(b)'
  BY <1>1, <1>3, <1>7, OneTab, Values DEF OwnTab, Own
<1>9. Page(b)'
  BY <1>1, <1>2, <1>3, <1>7, OneTab, Values DEF Page, Open, CallOf
<1>10. CurrentTab(b)'
  <2>1. <<b, "tab">> \in current' => TabCurrent(b)'
    BY <1>1, <1>2, <1>3, <1>4, <1>6, <1>7, OneTab, Values DEF TabCurrent, NoAnswer, Open
  <2>2. <<b, "login">> \notin current' /\ \A i \in Items : <<b, i>> \notin current'
    BY <1>4, <1>5, AccountAssumption
  <2> QED BY <1>4, <2>1, <2>2 DEF CurrentTab
<1>11. Answered(b)' /\ RowOk'
  BY <1>1, <1>4, OneTab DEF Answered, RowOk, Own, NothingLost, SealMatches
<1>12. \A c \in Tabs \ {b} : \A k \in Kinds : <<c, k>> \in current' <=> <<c, k>> \in current
  BY <1>4
<1> QED BY <1>1, <1>7, <1>8, <1>9, <1>10, <1>11, <1>12, OneTab, TabKeeps DEF TabOk

-----------------------------------------------------------------------------
(* A page that goes, a session that goes.                                  *)

\* A page that is closed leaves only what it had sent.
LEMMA ClosePageKeeps ==
  ASSUME AccountInv, NEW b \in Tabs, ClosePage(b)
  PROVE  AccountInv'
<1> DEFINE u == [i \in Items |-> Orphan(upload[b][i])]
           d == Orphan(change[b])
<1>1. /\ tab[b] # Shut /\ tab' = [tab EXCEPT ![b] = Shut]
      /\ upload' = [upload EXCEPT ![b] = u] /\ change' = [change EXCEPT ![b] = d]
      /\ current' = current \ {<<b, "tab">>}
      /\ UNCHANGED <<row, rows, salts, login, enteredFor, kept, overwrote>>
  BY OneTab DEF ClosePage, rowVars
<1>2. Open(b) /\ login[b] = Idle
  BY <1>1, OneTab DEF Page
<1>3. /\ d \in CallType /\ u \in [Items -> CallType]
      /\ (d = change[b] /\ d.stage = "sent") \/ d = Idle
      /\ \A i \in Items : (u[i] = upload[b][i] /\ u[i].stage = "sent") \/ u[i] = Idle
  BY OneTab, Values DEF Orphan
<1> HIDE DEF u, d
<1>4. /\ upload' \in [Tabs -> [Items -> CallType]] /\ upload'[b] = u
      /\ change' \in [Tabs -> CallType] /\ change'[b] = d
      /\ tab' \in [Tabs -> TabType] /\ tab'[b] = Shut
      /\ \A c \in Tabs \ {b} :
           tab'[c] = tab[c] /\ upload'[c] = upload[c] /\ change'[c] = change[c]
  BY <1>1, <1>3, OneTab, Values
<1>5. \A c, k : <<c, k>> \in current' <=> <<c, k>> \in current /\ ~(c = b /\ k = "tab")
  BY <1>1
<1>6. /\ <<b, "tab">> \notin current'
      /\ <<b, "login">> \in current' <=> <<b, "login">> \in current
      /\ <<b, "change">> \in current' <=> <<b, "change">> \in current
      /\ \A i \in Items : <<b, i>> \in current' <=> <<b, i>> \in current
  BY <1>5, AccountAssumption
<1>7. OwnTab(b)'
  BY <1>1, <1>3, <1>4, OneTab, Values DEF OwnTab, Own
<1>8. Page(b)'
  BY <1>1, <1>2, <1>3, <1>4, OneTab, Values DEF Page, Open, CallOf
<1>9. CurrentTab(b)'
  <2>1. LoginCurrent(b) => LoginCurrent(b)'
    BY <1>1 DEF LoginCurrent
  <2>2. ChangeCurrent(b) => ChangeCurrent(b)'
    BY <1>1, <1>2, <1>3, <1>4, OneTab, Values DEF ChangeCurrent, Open
  <2>3. \A i \in Items : SaveCurrent(b, i) => SaveCurrent(b, i)'
    BY <1>1, <1>2, <1>3, <1>4, OneTab, Values DEF SaveCurrent, Open
  <2> QED BY <1>6, <2>1, <2>2, <2>3, OneTab DEF CurrentTab
<1>10. Answered(b)'
  BY <1>1, <1>3, <1>4, OneTab, Values DEF Answered
<1>11. RowOk'
  BY <1>1, OneTab DEF RowOk, Own, NothingLost, SealMatches
<1>12. \A c \in Tabs \ {b} : \A k \in Kinds : <<c, k>> \in current' <=> <<c, k>> \in current
  BY <1>5
<1> QED BY <1>1, <1>4, <1>7, <1>8, <1>9, <1>10, <1>11, <1>12, OneTab, TabKeeps DEF TabOk

\* A session that ends leaves the copies of the page, and cuts off its calls.
LEMMA SessionEndsKeeps ==
  ASSUME AccountInv, NEW b \in Tabs, SessionEnds(b)
  PROVE  AccountInv'
<1> DEFINE t == [tab[b] EXCEPT !.bound = 0]
           u == [i \in Items |-> Cut(b, upload[b][i])]
           d == Cut(b, change[b])
<1>1. /\ tab' = [tab EXCEPT ![b] = t]
      /\ upload' = [upload EXCEPT ![b] = u] /\ change' = [change EXCEPT ![b] = d]
      /\ UNCHANGED <<row, rows, salts, login, current, enteredFor, kept, overwrote>>
  BY OneTab DEF SessionEnds, CutOff, rowVars, histVars
<1>2. /\ t \in TabType /\ t.id = tab[b].id /\ t.kek = tab[b].kek /\ t.items = tab[b].items
      /\ t.bound = 0 /\ (tab[b] = Shut => t = Shut)
  <2>1. tab[b] \in TabType /\ 0 \in Known
    BY OneTab DEF Known
  <2> QED BY <2>1 DEF TabType, Shut
<1>3. /\ d \in CallType /\ u \in [Items -> CallType]
      /\ \/ d = change[b] /\ d.stage # "sent"
         \/ d = Refusable /\ tab[b] # Shut /\ change[b].stage = "sent"
         \/ d = Idle /\ tab[b] = Shut /\ change[b].stage = "sent"
      /\ \A i \in Items :
           \/ u[i] = upload[b][i] /\ u[i].stage # "sent"
           \/ u[i] = Refusable \/ u[i] = Idle
  BY OneTab, Values DEF Cut
<1>4. login[b].stage = "ok" => change[b].stage # "sent" /\ \A i \in Items : u[i] = Idle
  BY OneTab, Values DEF Page, Cut
<1> HIDE DEF t, u, d
<1>5. /\ upload' \in [Tabs -> [Items -> CallType]] /\ upload'[b] = u
      /\ change' \in [Tabs -> CallType] /\ change'[b] = d
      /\ tab' \in [Tabs -> TabType] /\ tab'[b] = t
      /\ \A c \in Tabs \ {b} :
           tab'[c] = tab[c] /\ upload'[c] = upload[c] /\ change'[c] = change[c]
  BY <1>1, <1>2, <1>3, OneTab, Values
<1>6. OwnTab(b)'
  <2>1. OwnTab(b) /\ enteredFor' = enteredFor /\ login' = login
    BY <1>1, OneTab
  <2>2. /\ d.items = {} \/ d = change[b]
        /\ \A i \in Items : u[i].items = {} \/ u[i] = upload[b][i]
    BY <1>3, OneTab, Values
  <2> QED BY <1>2, <1>5, <2>1, <2>2 DEF OwnTab, Own
<1>7. Page(b)'
  BY <1>1, <1>2, <1>3, <1>4, <1>5, OneTab, Values DEF Page, Open, CallOf
<1>8. CurrentTab(b)'
  <2>1. TabCurrent(b) => TabCurrent(b)'
    BY <1>1, <1>2, <1>3, <1>5, OneTab, Values DEF TabCurrent, NoAnswer, Open
  <2>2. LoginCurrent(b) => LoginCurrent(b)'
    BY <1>1 DEF LoginCurrent
  <2>3. ChangeCurrent(b) => ChangeCurrent(b)'
    BY <1>1, <1>2, <1>3, <1>4, <1>5, OneTab, Values, ZenonT(40) DEF ChangeCurrent, Open
  <2>4. ASSUME NEW i \in Items, SaveCurrent(b, i) PROVE SaveCurrent(b, i)'
    <3>1. /\ change'[b].stage # "ok" /\ \A j \in Items \ {i} : upload'[b][j].stage # "ok"
          /\ upload'[b][i].stage = "sent" => upload'[b][i].id = 0
      BY <1>3, <1>5, <2>4, OneTab, Values DEF SaveCurrent
    <3>2. upload'[b][i].stage = "ok" => upload'[b][i] = upload[b][i]
      BY <1>3, <1>5, OneTab, Values
    <3> QED BY <1>1, <1>2, <1>5, <2>4, <3>1, <3>2 DEF SaveCurrent
  <2> QED BY <1>1, <2>1, <2>2, <2>3, <2>4, OneTab DEF CurrentTab
<1>9. Answered(b)'
  BY <1>1, <1>3, <1>5, OneTab, Values DEF Answered
<1>10. RowOk'
  BY <1>1, OneTab DEF RowOk, Own, NothingLost, SealMatches
<1> QED BY <1>1, <1>5, <1>6, <1>7, <1>8, <1>9, <1>10, OneTab, TabKeeps DEF TabOk

-----------------------------------------------------------------------------
(* The invariant of the specification, and what it says.                   *)

\* Every step keeps the invariant.
LEMMA AccountsStep == AccountInv /\ [AccountsNext]_accountVars => AccountInv'
<1> SUFFICES ASSUME AccountInv, [AccountsNext]_accountVars PROVE AccountInv'
  OBVIOUS
<1>1. CASE Enrol \/ DeleteRow
  BY <1>1, RowKeeps
<1>2. CASE Unlock
  <2>1. row' = Passed(row)
    BY <1>2 DEF Unlock, Passed
  <2>2. row \in RowType
    BY DEF AccountInv, AccountTypes
  <2>3. /\ row # NoRow
        /\ UNCHANGED <<rows, salts, tabVars, enteredFor, kept, current, overwrote>>
    BY <1>2 DEF Unlock
  <2> QED BY <2>1, <2>2, <2>3, Counted, CountKeeps, AccountAssumption
<1>3. CASE LockExpires
  <2>1. /\ row.locked /\ row' = [row EXCEPT !.locked = FALSE]
        /\ UNCHANGED <<rows, salts, tabVars, enteredFor, kept, current, overwrote>>
    BY <1>3 DEF LockExpires
  <2>2. row \in RowType /\ row # NoRow
    BY <2>1 DEF AccountInv, AccountTypes, NoRow
  <2>3. /\ row' \in RowType /\ row'.id = row.id /\ row'.hash = row.hash /\ row'.kek = row.kek
        /\ row'.items = row.items
    BY <2>1, <2>2 DEF RowType
  <2> QED BY <2>1, <2>2, <2>3, CountKeeps
<1>4. CASE WrongProof
  <2>1. /\ row # NoRow /\ row' = Failed(row)
        /\ UNCHANGED <<rows, salts, tabVars, enteredFor, kept, current, overwrote>>
    BY <1>4 DEF WrongProof, RecordFailure, Examined
  <2>2. row \in RowType
    BY DEF AccountInv, AccountTypes
  <2> QED BY <2>1, <2>2, Counted, CountKeeps, AccountAssumption
<1>5. ASSUME NEW b \in Tabs, Tab(b) PROVE AccountInv'
  <2>1. ASSUME NEW i \in Items, Save(b, i) PROVE AccountInv'
    BY <2>1, SendVaultKeeps, HandleVaultKeeps, VaultSavedKeeps, VaultNotSavedKeeps DEF Save
  <2> QED BY <1>5, <2>1, LoginParamsKeeps, LoginAcceptedKeeps, LoginRefusedKeeps,
             LoginFailsKeeps, OpenVaultKeeps, SendChangeKeeps, HandleChangeKeeps,
             ChangeRefusedKeeps, ChangedKeeps, ChangeFailsKeeps, ClosePageKeeps,
             SessionEndsKeeps DEF Tab
<1>6. CASE UNCHANGED accountVars
  <2>1. UNCHANGED <<row, rows, salts, tab, login, upload, change, enteredFor, kept, current,
                    overwrote>>
    BY <1>6 DEF accountVars, rowVars, tabVars, histVars
  <2>2. AccountTypes'
    BY <2>1 DEF AccountInv, AccountTypes, Known, RowType, TabType, CallType
  <2>3. RowOk'
    BY <2>1 DEF AccountInv, RowOk, Own, NothingLost, SealMatches
  <2>4. ASSUME NEW c \in Tabs PROVE TabOk(c)'
    BY <2>1, OtherTab DEF AccountInv
  <2> QED BY <2>2, <2>3, <2>4 DEF AccountInv
<1> QED BY <1>1, <1>2, <1>3, <1>4, <1>5, <1>6 DEF AccountsNext

\* What the invariant says of a page that is current.
LEMMA CurrentPage == AccountInv => VaultOpens /\ NothingLost /\ OnlyOwnKeys
<1> SUFFICES ASSUME AccountInv PROVE VaultOpens /\ NothingLost /\ OnlyOwnKeys
  OBVIOUS
<1>1. NothingLost /\ SealMatches
  BY DEF AccountInv, RowOk
<1>2. OnlyOwnKeys
  BY DEF AccountInv, RowOk, Own, OnlyOwnKeys
<1>3. TabHoldsVault
  <2> SUFFICES ASSUME NEW b \in Tabs, <<b, "tab">> \in current
               PROVE  tab[b] = [id |-> row.id, kek |-> row.kek, items |-> row.items,
                                bound |-> tab[b].bound]
    BY DEF TabHoldsVault
  <2>1. tab[b].id = row.id /\ tab[b].kek = row.kek /\ tab[b].items = row.items
    BY OneTab DEF CurrentTab, TabCurrent
  <2>2. tab[b] \in TabType
    BY OneTab
  <2> QED BY <2>1, <2>2 DEF TabType
<1> QED BY <1>1, <1>2, <1>3 DEF VaultOpens

\* The row, the pages, what they have under way and what of it is current fit
\* together in every state.
THEOREM AccountsInvariant == AccountsSpec => []AccountInv
BY AccountsStart, AccountsStep, PTL DEF AccountsSpec

\* As long as no write was made from an older copy, the accepted password opens the
\* vault, and a page that has seen its last answer holds the vault and its key.
THEOREM AccountsVaultOpens == AccountsSpec => []VaultOpens
BY AccountsInvariant, CurrentPage, PTL

\* As long as no write was made from an older copy, a key the user saw saved stays.
THEOREM AccountsNothingLost == AccountsSpec => []NothingLost
BY AccountsInvariant, CurrentPage, PTL

\* Whatever is written from which copy: a name enrolled again gets no key that was
\* entered for the row before it.
THEOREM AccountsOnlyOwnKeys == AccountsSpec => []OnlyOwnKeys
BY AccountsInvariant, CurrentPage, PTL
=============================================================================
