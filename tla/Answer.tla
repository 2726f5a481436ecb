------------------------------- MODULE Answer -------------------------------
(***************************************************************************)
(* One provider under questions asked at the same time: the three routes   *)
(* of api/routes/rag.py, the orchestrator they drive, the retry loop every *)
(* provider call runs in (core/resilience.py), the circuit breaker and the *)
(* health registry that watch the outcomes (core/provider_health.py), and, *)
(* for a streamed answer, the worker thread that produces it, the SSE body *)
(* that sends it, and a client that may leave at any moment.  Texts,       *)
(* prompts and chunks are abstracted; module Retrieval has those.          *)
(***************************************************************************)
EXTENDS Integers, Sequences, FiniteSets

CONSTANTS Plans,        \* POST /api/rag/plan requests
          Asks,         \* POST /api/rag/query requests
          Streams,      \* POST /api/rag/stream requests
          MaxRetries,   \* RetryPolicy.max_retries
          InitialDelay, \* RetryPolicy.initial_delay; backoff_base is 2
          MaxDelay,     \* RetryPolicy.max_delay
          Deadline,     \* RetryPolicy.deadline_seconds, here > 0
          RetryAfters,  \* what a provider may ask in Retry-After, 0 for none
          Timeout,      \* the SDK's own time-out of one attempt
          Threshold,    \* circuit_breaker_threshold
          Reset,        \* circuit_breaker_reset
          Before,       \* failures on record when the requests arrive
          MaxDeltas,    \* bound: text chunks of one streamed answer
          MaxClock      \* bound: the clock stops here

Requests == Plans \cup Asks \cup Streams

ASSUME AnswerAssumption ==
  /\ IsFiniteSet(Requests)
  /\ Plans \cap Asks = {} /\ Plans \cap Streams = {} /\ Asks \cap Streams = {}
  /\ MaxRetries \in Nat /\ MaxDelay \in Nat /\ Timeout \in Nat
  /\ Deadline \in Nat \ {0} /\ Threshold \in Nat \ {0} /\ Reset \in Nat
  /\ RetryAfters \subseteq Nat /\ Before \in 0 .. Threshold - 1
  /\ InitialDelay \in 0 .. MaxDelay

VARIABLES clock,    \* time.monotonic
          pc,       \* where the thread that works for the request is
          llm,      \* the request's SDK client: none, open, closed
          call,     \* the retry loop: attempt, when the call started, and when
                    \* the attempt began or, asleep, when it wakes
          made,     \* text chunks the provider has produced for it
          wasted,   \* events produced after the client was known to have left
          hand,     \* the event the producer thread holds
          queue,    \* asyncio.Queue between the thread and the SSE body
          stop,     \* the threading.Event the body sets when it ends
          body,     \* the SSE body: none, unread, await, cite, send, failing, over
          frames,   \* what the client has been sent
          audit,    \* status of the rag_stream_completed line
          recorded, \* the outcome the orchestrator reported for the request
          health    \* the provider's record and breaker in the registry

thread == <<pc, llm, call, made, wasted, hand, recorded>>
stream == <<queue, stop, body, frames, audit>>
vars == <<clock, thread, stream, health>>

NoCall == [attempt |-> 0, started |-> 0, at |-> 0]
Called == [NoCall EXCEPT !.attempt = 1]

Init ==
  /\ clock = 0
  /\ pc = [r \in Requests |-> "new"]
  /\ llm = [r \in Requests |-> "none"]
  /\ call = [r \in Requests |-> NoCall]
  /\ made = [r \in Requests |-> 0]
  /\ wasted = [r \in Requests |-> 0]
  /\ hand = [r \in Requests |-> "nothing"]
  /\ queue = [r \in Requests |-> <<>>]
  /\ stop = [r \in Requests |-> FALSE]
  /\ body = [r \in Requests |-> "none"]
  /\ frames = [r \in Requests |-> <<>>]
  /\ audit = [r \in Requests |-> "none"]
  /\ recorded = [r \in Requests |-> "none"]
  /\ health = [state |-> "closed", failures |-> Before, openedAt |-> 0,
               consecutive |-> Before, failed |-> Before, succeeded |-> 0]

Goto(r, p) == pc' = [pc EXCEPT ![r] = p]
Send(r, f) == frames' = [frames EXCEPT ![r] = Append(@, f)]
Close(r)   == llm' = [llm EXCEPT ![r] = "closed"]

-----------------------------------------------------------------------------
(* The breaker and the registry.  record_* run under the registry's lock.  *)

\* CircuitBreaker._maybe_transition_to_half_open_locked, which only a read runs.
HalfOpen(h) ==
  IF h.state = "open" /\ clock - h.openedAt >= Reset
  THEN [h EXCEPT !.state = "half_open"] ELSE h

OnSuccess(h) == [h EXCEPT !.state = "closed", !.failures = 0, !.openedAt = 0]

\* Mutant: a failed probe closes the breaker.
FailureKeepsOpen(h) ==
  IF h.state = "half_open" THEN [h EXCEPT !.state = "closed", !.openedAt = clock]
  ELSE IF h.failures + 1 >= Threshold /\ h.state = "closed"
       THEN [h EXCEPT !.failures = @ + 1, !.state = "open", !.openedAt = clock]
       ELSE [h EXCEPT !.failures = @ + 1]

\* A failure while open is counted and leaves opened_at as it is.
OnFailure(h) ==
  IF h.state = "half_open" THEN [h EXCEPT !.state = "open", !.openedAt = clock]
  ELSE IF h.failures + 1 >= Threshold /\ h.state = "closed"
       THEN [h EXCEPT !.failures = @ + 1, !.state = "open", !.openedAt = clock]
       ELSE [h EXCEPT !.failures = @ + 1]

RecordSuccess(h) ==
  [OnSuccess(h) EXCEPT !.consecutive = 0, !.succeeded = @ + 1]

RecordFailure(h) ==
  [OnFailure(h) EXCEPT !.consecutive = @ + 1, !.failed = @ + 1]

\* The orchestrator's two seams; query understanding reports to neither.
Report(r, outcome) ==
  IF r \in Plans THEN UNCHANGED <<health, recorded>>
  ELSE /\ recorded' = [recorded EXCEPT ![r] = outcome]
       /\ health' = IF outcome = "success" THEN RecordSuccess(health)
                                           ELSE RecordFailure(health)

\* GET /api/providers/health: the snapshot reads every breaker's state.
Snapshot ==
  /\ HalfOpen(health) # health
  /\ health' = HalfOpen(health)
  /\ UNCHANGED <<clock, thread, stream>>

-----------------------------------------------------------------------------
(* The routes, up to the point where the provider or the thread takes over. *)

\* A wrong provider, model, plan or a missing key: refused before a client exists.
Reject(r) ==
  /\ pc[r] = "new"
  /\ Goto(r, "done") /\ Send(r, "http_error")
  /\ UNCHANGED <<clock, llm, call, made, wasted, hand, recorded, queue, stop,
                 body, audit, health>>

BuildLLM(r) ==
  /\ pc[r] = "new"
  /\ llm' = [llm EXCEPT ![r] = "open"]
  /\ Goto(r, IF r \in Plans THEN "asking" ELSE "built")
  /\ UNCHANGED <<clock, call, made, wasted, hand, recorded, stream, health>>

\* History and routing hints are looked at with the client already open.
BadRequest(r) ==
  /\ pc[r] = "built"
  /\ Goto(r, "done") /\ Send(r, "http_error") /\ Close(r)
  /\ UNCHANGED <<clock, call, made, wasted, hand, recorded, queue, stop, body,
                 audit, health>>

\* A streamed request returns its response now; nothing runs until it is read.
Accept(r) ==
  /\ pc[r] = "built"
  /\ IF r \in Streams
     THEN Goto(r, "returned") /\ body' = [body EXCEPT ![r] = "unread"]
     ELSE Goto(r, "retrieving") /\ UNCHANGED body
  /\ UNCHANGED <<clock, llm, call, made, wasted, hand, recorded, queue, stop,
                 frames, audit, health>>

\* The body's first step starts the producer thread.
OpenBody(r) ==
  /\ body[r] = "unread"
  /\ body' = [body EXCEPT ![r] = "await"]
  /\ Goto(r, "retrieving")
  /\ UNCHANGED <<clock, llm, call, made, wasted, hand, recorded, queue, stop,
                 frames, audit, health>>

-----------------------------------------------------------------------------
(* RAGOrchestrator.generate and generate_stream, and resilient_call.        *)

\* An exception leaves the orchestrator: the route answers with its envelope
\* and closes the client, the producer thread has it in hand.
Raise(r) ==
  IF r \in Streams
  THEN /\ Goto(r, "raised") /\ hand' = [hand EXCEPT ![r] = "error"]
       /\ UNCHANGED <<llm, frames>>
  ELSE /\ Goto(r, "done") /\ Send(r, "http_error") /\ Close(r)
       /\ UNCHANGED hand

\* The embedder or the store fails: no outcome of this provider.
RetrievalFails(r) ==
  /\ pc[r] = "retrieving"
  /\ Raise(r)
  /\ UNCHANGED <<clock, call, made, wasted, recorded, queue, stop, body, audit,
                 health>>

\* Nothing was retrieved: the refusal is built without a provider call.
Refuse(r) ==
  /\ pc[r] = "retrieving"
  /\ IF r \in Streams
     THEN /\ Goto(r, "holding") /\ hand' = [hand EXCEPT ![r] = "refusal"]
          /\ made' = [made EXCEPT ![r] = 1]
          /\ UNCHANGED <<llm, frames>>
     ELSE /\ Goto(r, "done") /\ Send(r, "answer") /\ Close(r)
          /\ UNCHANGED <<hand, made>>
  /\ UNCHANGED <<clock, call, wasted, recorded, queue, stop, body, audit, health>>

\* The prompt is built and the first attempt starts.
StartCall(r) ==
  /\ pc[r] \in {"asking", "retrieving"}
  /\ pc[r] = "asking" <=> r \in Plans
  /\ Goto(r, "calling")
  /\ call' = [call EXCEPT ![r] = [attempt |-> 1, started |-> clock, at |-> clock]]
  /\ UNCHANGED <<clock, llm, made, wasted, hand, recorded, stream, health>>

\* Success of a plain call answers the request; of a stream opens the iteration.
CallSucceeds(r) ==
  /\ pc[r] = "calling"
  /\ IF r \in Streams
     THEN Goto(r, "streaming") /\ UNCHANGED <<llm, frames, recorded, health>>
     ELSE /\ Goto(r, "done") /\ Send(r, "answer") /\ Close(r)
          /\ Report(r, "success")
  /\ call' = [call EXCEPT ![r] = Called]
  /\ UNCHANGED <<clock, made, wasted, hand, queue, stop, body, audit>>

GiveUp(r) ==
  /\ Raise(r) /\ Report(r, "failure")
  /\ call' = [call EXCEPT ![r] = Called]

\* delay_for_attempt: what full jitter draws from before retry n.
Draws(n) ==
  LET backoff == InitialDelay * 2 ^ (n - 1)
  IN 0 .. (IF backoff < MaxDelay THEN backoff ELSE MaxDelay)

\* Mutant: the deadline is not looked at.
DelaysNoBudget(r, retryAfter) ==
  LET floored == {IF d < retryAfter THEN retryAfter ELSE d :
                    d \in Draws(call[r].attempt)}
  IN IF retryAfter > MaxDelay THEN {} ELSE floored

\* _next_retry_delay: the delays the loop may draw, none when it must not retry.
Delays(r, retryAfter) ==
  LET floored == {IF d < retryAfter THEN retryAfter ELSE d :
                    d \in Draws(call[r].attempt)}
  IN IF retryAfter > MaxDelay THEN {}
     ELSE {d \in floored : clock - call[r].started + d < Deadline}

\* A key or content-filter error is final; so is the last attempt's.
CallFailsForGood(r) ==
  /\ pc[r] = "calling"
  /\ GiveUp(r)
  /\ UNCHANGED <<clock, made, wasted, queue, stop, body, audit>>

\* Any other error sleeps and tries again, unless the budget forbids it.
CallFails(r) ==
  /\ pc[r] = "calling"
  /\ \E retryAfter \in RetryAfters :
       IF call[r].attempt > MaxRetries \/ Delays(r, retryAfter) = {}
       THEN GiveUp(r)
       ELSE /\ \E d \in Delays(r, retryAfter) :
                 call' = [call EXCEPT ![r].at = clock + d]
            /\ Goto(r, "sleeping")
            /\ UNCHANGED <<llm, frames, hand, recorded, health>>
  /\ UNCHANGED <<clock, made, wasted, queue, stop, body, audit>>

Wake(r) ==
  /\ pc[r] = "sleeping" /\ clock >= call[r].at
  /\ Goto(r, "calling")
  /\ call' = [call EXCEPT ![r].attempt = @ + 1, ![r].at = clock]
  /\ UNCHANGED <<clock, llm, made, wasted, hand, recorded, stream, health>>

-----------------------------------------------------------------------------
(* The producer thread of a streamed answer.                               *)

Hold(r, event) ==
  /\ hand' = [hand EXCEPT ![r] = event]
  /\ Goto(r, "holding")
  /\ wasted' = [wasted EXCEPT ![r] = IF stop[r] THEN @ + 1 ELSE @]

\* The SDK hands over one chunk.
NextDelta(r) ==
  /\ pc[r] = "streaming" /\ made[r] < MaxDeltas
  /\ made' = [made EXCEPT ![r] = @ + 1]
  /\ Hold(r, "delta")
  /\ UNCHANGED <<clock, llm, call, recorded, stream, health>>

\* The SDK's stream is exhausted: success is reported, the result is built.
StreamExhausted(r) ==
  /\ pc[r] = "streaming"
  /\ Report(r, "success")
  /\ Hold(r, "final")
  /\ UNCHANGED <<clock, llm, call, made, stream>>

\* A failure between two chunks is reported and not retried.
StreamBreaks(r) ==
  /\ pc[r] = "streaming"
  /\ GiveUp(r)
  /\ UNCHANGED <<clock, made, wasted, queue, stop, body, audit>>

Put(r, item) == queue' = [queue EXCEPT ![r] = Append(@, item)]

\* Mutant: the thread does not look at stop.
PassAlways(r) ==
  /\ pc[r] = "holding"
  /\ CASE hand[r] = "refusal" -> /\ Put(r, "delta") /\ UNCHANGED pc
                                 /\ hand' = [hand EXCEPT ![r] = "final"]
       [] hand[r] = "delta" -> /\ Put(r, "delta") /\ Goto(r, "streaming")
                               /\ hand' = [hand EXCEPT ![r] = "nothing"]
       [] hand[r] = "final" -> /\ Put(r, "final") /\ Goto(r, "closing")
                               /\ hand' = [hand EXCEPT ![r] = "nothing"]
  /\ UNCHANGED <<clock, llm, call, made, wasted, recorded, stop, body, frames,
                 audit, health>>

\* stop is looked at between events; a set flag abandons the generator.
PassOn(r) ==
  /\ pc[r] = "holding"
  /\ IF stop[r] THEN Goto(r, "closing") /\ UNCHANGED <<queue, hand>>
     ELSE CASE hand[r] = "refusal" -> /\ Put(r, "delta") /\ UNCHANGED pc
                                      /\ hand' = [hand EXCEPT ![r] = "final"]
            [] hand[r] = "delta" -> /\ Put(r, "delta") /\ Goto(r, "streaming")
                                    /\ hand' = [hand EXCEPT ![r] = "nothing"]
            [] hand[r] = "final" -> /\ Put(r, "final") /\ Goto(r, "closing")
                                    /\ hand' = [hand EXCEPT ![r] = "nothing"]
  /\ UNCHANGED <<clock, llm, call, made, wasted, recorded, stop, body, frames,
                 audit, health>>

PassError(r) ==
  /\ pc[r] = "raised"
  /\ Goto(r, "closing")
  /\ IF stop[r] THEN UNCHANGED queue ELSE Put(r, "error")
  /\ hand' = [hand EXCEPT ![r] = "nothing"]
  /\ UNCHANGED <<clock, llm, call, made, wasted, recorded, stop, body, frames,
                 audit, health>>

\* The generator and the client are closed, then the sentinel is pushed.
Teardown(r) ==
  /\ pc[r] = "closing"
  /\ Close(r) /\ Goto(r, "closed")
  /\ UNCHANGED <<clock, call, made, wasted, hand, recorded, stream, health>>

\* Mutant: no sentinel is pushed.
SentinelSkipped(r) ==
  /\ pc[r] = "closed"
  /\ Goto(r, "done") /\ UNCHANGED queue
  /\ UNCHANGED <<clock, llm, call, made, wasted, hand, recorded, stop, body,
                 frames, audit, health>>

PutSentinel(r) ==
  /\ pc[r] = "closed"
  /\ Goto(r, "done")
  /\ IF stop[r] THEN UNCHANGED queue ELSE Put(r, "sentinel")
  /\ UNCHANGED <<clock, llm, call, made, wasted, hand, recorded, stop, body,
                 frames, audit, health>>

-----------------------------------------------------------------------------
(* The SSE body, and a client that may leave.                              *)

Yield(r, frame, next) ==
  /\ Send(r, frame)
  /\ body' = [body EXCEPT ![r] = next]

EndBody(r, status) ==
  /\ body' = [body EXCEPT ![r] = "over"]
  /\ stop' = [stop EXCEPT ![r] = TRUE]
  /\ audit' = [audit EXCEPT ![r] = status]

\* One item from the queue; citations go out one by one before the final frame.
Take(r) ==
  /\ body[r] = "await" /\ queue[r] # <<>>
  /\ queue' = [queue EXCEPT ![r] = Tail(@)]
  /\ CASE Head(queue[r]) = "delta" -> Yield(r, "delta", "send") /\ UNCHANGED <<stop, audit>>
       [] Head(queue[r]) = "final" -> /\ \/ Yield(r, "citation", "cite")
                                         \/ Yield(r, "final", "send")
                                      /\ UNCHANGED <<stop, audit>>
       [] Head(queue[r]) = "error" -> Yield(r, "error", "failing") /\ UNCHANGED <<stop, audit>>
       [] Head(queue[r]) = "sentinel" -> EndBody(r, "ok") /\ UNCHANGED frames
  /\ UNCHANGED <<clock, thread, health>>

\* Mutant: after an error frame the body reads on.
ErrorThenSentinel(r) ==
  /\ CASE body[r] = "cite" -> Yield(r, "final", "send")
       [] body[r] \in {"send", "failing"} -> /\ body' = [body EXCEPT ![r] = "await"]
                                             /\ UNCHANGED frames
       [] OTHER -> FALSE
  /\ UNCHANGED <<clock, thread, queue, stop, audit, health>>

\* The frame just yielded has been sent and the body runs on.
Resume(r) ==
  /\ CASE body[r] = "send" -> /\ body' = [body EXCEPT ![r] = "await"]
                              /\ UNCHANGED <<stop, frames, audit>>
       [] body[r] = "cite" -> Yield(r, "final", "send") /\ UNCHANGED <<stop, audit>>
       [] body[r] = "failing" -> EndBody(r, "error") /\ UNCHANGED frames
       [] OTHER -> FALSE
  /\ UNCHANGED <<clock, thread, queue, health>>

Heartbeat(r) ==
  /\ body[r] = "await" /\ queue[r] = <<>>
  /\ body' = [body EXCEPT ![r] = "send"]
  /\ UNCHANGED <<clock, thread, queue, stop, frames, audit, health>>

\* The client is gone: a cancelled await, or a body closed at its yield.  A body
\* that was never started has no finally to run.
Leave(r) ==
  /\ \/ body[r] \in {"await", "send", "cite"} /\ EndBody(r, "client_disconnected")
     \/ body[r] = "failing" /\ EndBody(r, "error")
     \/ body[r] = "unread" /\ body' = [body EXCEPT ![r] = "over"] /\ UNCHANGED <<stop, audit>>
  /\ UNCHANGED <<clock, thread, queue, frames, health>>

-----------------------------------------------------------------------------
\* Time passes when nobody is due: no sleeper to wake, no attempt at its limit.
Tick ==
  /\ clock < MaxClock \/ \E r \in Requests : pc[r] = "sleeping"
  /\ \A r \in Requests : /\ pc[r] = "sleeping" => clock < call[r].at
                         /\ pc[r] = "calling" => clock - call[r].at < Timeout
  /\ clock' = clock + 1
  /\ UNCHANGED <<thread, stream, health>>

Prepare(r) == Reject(r) \/ BuildLLM(r) \/ BadRequest(r) \/ Accept(r)
Generate(r) == \/ RetrievalFails(r) \/ Refuse(r) \/ StartCall(r)
               \/ CallSucceeds(r) \/ CallFailsForGood(r) \/ CallFails(r) \/ Wake(r)
Produce(r) == \/ NextDelta(r) \/ StreamExhausted(r) \/ StreamBreaks(r)
              \/ PassOn(r) \/ PassError(r) \/ Teardown(r) \/ PutSentinel(r)
Consume(r) == OpenBody(r) \/ Take(r) \/ Resume(r) \/ Heartbeat(r)

NeverRead(r) == pc[r] = "returned" /\ body[r] = "over"

AllDone ==
  /\ \A r \in Requests : pc[r] = "done" \/ NeverRead(r)
  /\ \A r \in Streams : body[r] \in {"none", "over"}
  /\ UNCHANGED vars

Next ==
  \/ Tick \/ Snapshot \/ AllDone
  \/ \E r \in Requests : Prepare(r) \/ Generate(r)
  \/ \E r \in Streams : Produce(r) \/ Consume(r) \/ Leave(r)

\* Threads run, the SDK's time-outs end every attempt and every read, the event
\* loop runs the body and time goes on; a client need not stay, nor leave.
Fairness ==
  /\ WF_vars(Tick)
  /\ \A r \in Requests \ Streams : WF_vars(Prepare(r) \/ Generate(r))
  /\ \A r \in Streams : /\ WF_vars(Prepare(r) \/ Generate(r) \/ Produce(r))
                        /\ WF_vars(OpenBody(r) \/ Take(r) \/ Resume(r))

Spec == Init /\ [][Next]_vars /\ Fairness

-----------------------------------------------------------------------------
TypeOK ==
  /\ clock \in Nat
  /\ pc \in [Requests -> {"new", "built", "asking", "returned", "retrieving",
                          "calling", "sleeping", "streaming", "holding",
                          "raised", "closing", "closed", "done"}]
  /\ llm \in [Requests -> {"none", "open", "closed"}]
  /\ made \in [Requests -> Nat] /\ wasted \in [Requests -> Nat]
  /\ hand \in [Requests -> {"nothing", "refusal", "delta", "final", "error"}]
  /\ \A r \in Requests :
       /\ queue[r] \in Seq({"delta", "final", "error", "sentinel"})
       /\ frames[r] \in Seq({"http_error", "answer", "delta", "citation", "final", "error"})
  /\ body \in [Requests -> {"none", "unread", "await", "cite", "send", "failing", "over"}]
  /\ audit \in [Requests -> {"none", "ok", "error", "client_disconnected"}]
  /\ recorded \in [Requests -> {"none", "success", "failure"}]
  /\ health.state \in {"closed", "open", "half_open"}

\* Once the body has ended the provider produces at most one more event for it:
\* an abandoned stream stops billing within one event (routes/rag.py, F13).
StopsWithinOneEvent == \A r \in Streams : wasted[r] <= 1

Ends == {"final", "error"}
Count(s, f) == Cardinality({i \in DOMAIN s : s[i] = f})

\* What a stream sends is text, then citations and the final frame, or an error
\* frame; nothing follows an end; the final frame comes after all the text there
\* is; and the audit line says ok only of a stream whose final frame was sent.
FramesTellTheTruth ==
  \A r \in Streams : LET f == frames[r] IN
    /\ \A i \in DOMAIN f : f[i] \in Ends => i = Len(f)
    /\ \A i \in DOMAIN f : f[i] = "citation" => \A j \in i + 1 .. Len(f) : f[j] = "final"
    /\ "final" \in {f[i] : i \in DOMAIN f} => Count(f, "delta") = made[r]
    /\ audit[r] = "ok" => f # <<>> /\ f[Len(f)] = "final"
    /\ audit[r] = "error" => f # <<>> /\ f[Len(f)] = "error"

\* The breaker and the registry's own run of failures, kept side by side under
\* two locks, agree: it is closed exactly while the run is below the threshold.
BreakerMatchesRun == health.state = "closed" <=> health.consecutive < Threshold

\* The registry's totals are the outcomes of the calls that ended: one for each
\* answered or failed question, none for a refusal, a retried attempt, a stream
\* that was abandoned, or a query plan.
OutcomesCounted ==
  /\ health.succeeded = Cardinality({r \in Requests : recorded[r] = "success"})
  /\ health.failed = Before + Cardinality({r \in Requests : recorded[r] = "failure"})
  /\ \A r \in Requests : frames[r] # <<>> /\ frames[r][Len(frames[r])] = "final"
        => recorded[r] = IF call[r] = NoCall THEN "none" ELSE "success"

\* The health registry tells what happened to the calls.
HealthSound == BreakerMatchesRun /\ OutcomesCounted

\* The retry budget bounds the wait: an attempt never begins at or past the
\* deadline, so a call is over within the deadline and one SDK time-out.
CallBounded ==
  \A r \in Requests : pc[r] \in {"calling", "sleeping"}
    => clock - call[r].started < Deadline + Timeout

\* Every request is answered, every body that is read ends, and every SDK client
\* is closed, except the one of a response whose body was never read.
EverythingEnds ==
  \A r \in Requests :
    /\ llm[r] = "open" ~> (llm[r] = "closed" \/ NeverRead(r))
    /\ body[r] = "await" ~> body[r] = "over"
=============================================================================
