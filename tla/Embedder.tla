------------------------------ MODULE Embedder ------------------------------
(***************************************************************************)
(* The on-device embedder one API process shares (providers/local.py): a   *)
(* model loaded on first use, encodes that run on a reference outside the  *)
(* load lock, and an idle unload tried after every task and on every       *)
(* sweep of the task manager.                                              *)
(***************************************************************************)
EXTENDS Naturals, FiniteSets

CONSTANTS Encoders,    \* threads that embed: searches, the ingest worker
          IdleTimeout, \* idle_timeout_minutes, 0 for never
          MaxTime,     \* bound: clock readings
          MaxLoads     \* bound: models loaded

ASSUME EmbedderAssumption ==
  /\ IdleTimeout \in Nat /\ MaxTime \in Nat /\ MaxLoads \in Nat
  /\ IsFiniteSet(Encoders) /\ "free" \notin Encoders /\ "boot" \notin Encoders

VARIABLES
  clock,     \* the monotonic clock
  warm,      \* EMBEDDING_WARM_ON_BOOT
  boot,      \* "starting", "up", or "refused"
  loadLock,  \* who is loading under the load lock, or "free"
  model,     \* the resident model, by the number of its load; 0 for none
  loads,     \* how many were loaded
  lastUsed,  \* _last_used
  inFlight,  \* _in_flight
  encoder,   \* encoder[e]: step, and the model its reference is to
  worked     \* history: when an encode last ran

embedderVars == <<clock, warm, boot, loadLock, model, loads, lastUsed, inFlight, encoder, worked>>

Resting == [at |-> "rest", on |-> 0]

-----------------------------------------------------------------------------
\* _ensure_model_locked on the lock taken: nothing to do when a model is there.
BeginLoad(u) ==
  /\ loadLock = "free" /\ model = 0 /\ loads < MaxLoads
  /\ loadLock' = u

\* The loader returns, quantised where it can be, or raises.
Loads ==
  /\ model' = loads + 1 /\ loads' = loads + 1
  /\ lastUsed' = clock

\* warm_up before the server binds: the boot fails with the load.
WarmUp ==
  /\ boot = "starting"
  /\ \/ ~warm /\ boot' = "up" /\ UNCHANGED <<loadLock, model, loads, lastUsed>>
     \/ warm /\ BeginLoad("boot") /\ UNCHANGED <<boot, model, loads, lastUsed>>
     \/ loadLock = "boot" /\ loadLock' = "free" /\ boot' = "up" /\ Loads
     \/ loadLock = "boot" /\ loadLock' = "free" /\ boot' = "refused" /\ UNCHANGED <<model, loads, lastUsed>>
  /\ UNCHANGED <<clock, warm, inFlight, encoder, worked>>

\* embed_texts of some texts.
EmbedTexts(e) ==
  /\ boot = "up" /\ encoder[e].at = "rest"
  /\ encoder' = [encoder EXCEPT ![e].at = "enter"]
  /\ UNCHANGED <<clock, warm, boot, loadLock, model, loads, lastUsed, inFlight, worked>>

\* _encode, the first locked section: load if need be.
EnterLoad(e) ==
  /\ encoder[e].at = "enter" /\ BeginLoad(e)
  /\ UNCHANGED <<clock, warm, boot, model, loads, lastUsed, inFlight, encoder, worked>>

LoadFails(e) ==
  /\ loadLock = e /\ loadLock' = "free"
  /\ encoder' = [encoder EXCEPT ![e] = Resting]
  /\ UNCHANGED <<clock, warm, boot, model, loads, lastUsed, inFlight, worked>>

\* Mutant: the reference is taken, the count is not raised.
EnterUncounted(e) ==
  /\ \/ loadLock = "free" /\ model # 0 /\ encoder[e].at = "enter"
        /\ lastUsed' = clock /\ UNCHANGED <<loadLock, model, loads>>
     \/ loadLock = e /\ loadLock' = "free" /\ Loads
  /\ encoder' = [encoder EXCEPT ![e] = [at |-> "encode", on |-> model']]
  /\ UNCHANGED <<clock, warm, boot, inFlight, worked>>

\* Take the reference and raise the count, in the same section.
Enter(e) ==
  /\ \/ loadLock = "free" /\ model # 0 /\ encoder[e].at = "enter"
        /\ lastUsed' = clock /\ UNCHANGED <<loadLock, model, loads>>
     \/ loadLock = e /\ loadLock' = "free" /\ Loads
  /\ inFlight' = inFlight + 1
  /\ encoder' = [encoder EXCEPT ![e] = [at |-> "encode", on |-> model']]
  /\ UNCHANGED <<clock, warm, boot, worked>>

\* model.encode outside the lock: vectors, or an exception.
Encode(e) ==
  /\ encoder[e].at = "encode"
  /\ \E end \in {"vectors", "raised"} : encoder' = [encoder EXCEPT ![e].at = end]
  /\ worked' = clock
  /\ UNCHANGED <<clock, warm, boot, loadLock, model, loads, lastUsed, inFlight>>

\* Mutant: the count is not dropped after an exception.
LeavePinned(e) ==
  /\ encoder[e].at \in {"vectors", "raised"} /\ loadLock = "free"
  /\ inFlight' = IF encoder[e].at = "vectors" THEN inFlight - 1 ELSE inFlight
  /\ lastUsed' = clock
  /\ encoder' = [encoder EXCEPT ![e] = Resting]
  /\ UNCHANGED <<clock, warm, boot, loadLock, model, loads, worked>>

\* The finally clause.
LeaveEncode(e) ==
  /\ encoder[e].at \in {"vectors", "raised"} /\ loadLock = "free"
  /\ inFlight' = inFlight - 1
  /\ lastUsed' = clock
  /\ encoder' = [encoder EXCEPT ![e] = Resting]
  /\ UNCHANGED <<clock, warm, boot, loadLock, model, loads, worked>>

\* maybe_unload, from _maybe_unload_embedder: check and unload in one section.
MaybeUnload ==
  /\ boot = "up" /\ IdleTimeout # 0
  /\ loadLock = "free" /\ model # 0 /\ inFlight = 0
  /\ clock - lastUsed >= IdleTimeout
  /\ model' = 0 /\ lastUsed' = 0
  /\ UNCHANGED <<clock, warm, boot, loadLock, loads, inFlight, encoder, worked>>

Tick ==
  /\ clock < MaxTime /\ clock' = clock + 1
  /\ UNCHANGED <<warm, boot, loadLock, model, loads, lastUsed, inFlight, encoder, worked>>

EmbedderInit ==
  /\ clock = 0 /\ warm \in BOOLEAN /\ boot = "starting"
  /\ loadLock = "free" /\ model = 0 /\ loads = 0 /\ lastUsed = 0 /\ inFlight = 0 /\ worked = 0
  /\ encoder = [e \in Encoders |-> Resting]

EncoderStep(e) == EnterLoad(e) \/ LoadFails(e) \/ Enter(e) \/ Encode(e) \/ LeaveEncode(e)

EmbedderNext == WarmUp \/ (\E e \in Encoders : EmbedTexts(e) \/ EncoderStep(e)) \/ MaybeUnload \/ Tick

EmbedderSpec == EmbedderInit /\ [][EmbedderNext]_embedderVars

-----------------------------------------------------------------------------
(* At most one model is in memory: whatever an encode holds a reference to *)
(* is the resident one, which no unload takes from under it and no first   *)
(* call beside another loads again (providers/local.py:303, 368).          *)
OneModel ==
  /\ \A e \in Encoders : encoder[e].at \in {"encode", "vectors", "raised"} => encoder[e].on = model
  /\ loadLock # "free" => model = 0

(* A model no one uses any more is released, though encodes failed on it,  *)
(* as long as sweeps keep coming (providers/local.py:324).                 *)
IdleIsReleased ==
  LET unused == boot = "up" /\ \A e \in Encoders : encoder[e].at = "rest"
  IN (unused /\ clock = MaxTime /\ lastUsed + IdleTimeout <= clock) ~> (model = 0 \/ ~unused)
=============================================================================
