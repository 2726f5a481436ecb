----------------------------- MODULE AnswerProofs ----------------------------
(***************************************************************************)
(* Proofs about the questions put to one provider, for any number of       *)
(* requests of each kind, any retry policy, any text and any breaker.      *)
(***************************************************************************)
EXTENDS Answer, FiniteSetTheorems, TLAPS

Items  == {"delta", "final", "error", "sentinel"}
Shown  == {"http_error", "answer", "delta", "citation", "final", "error"}

Places == {"new", "built", "asking", "returned", "retrieving", "calling", "sleeping",
           "streaming", "holding", "raised", "closing", "closed", "done"}
Calls  == [attempt : Nat, started : Nat, at : Nat]
Health == [state : {"closed", "open", "half_open"}, failures : Nat, openedAt : Nat,
           consecutive : Nat, failed : Nat, succeeded : Nat]

AnswerTypes ==
  /\ clock \in Nat
  /\ pc \in [Requests -> Places]
  /\ llm \in [Requests -> {"none", "open", "closed"}]
  /\ call \in [Requests -> Calls]
  /\ made \in [Requests -> Nat] /\ wasted \in [Requests -> Nat]
  /\ hand \in [Requests -> {"nothing", "refusal", "delta", "final", "error"}]
  /\ queue \in [Requests -> Seq(Items)]
  /\ stop \in [Requests -> BOOLEAN]
  /\ body \in [Requests -> {"none", "unread", "await", "cite", "send", "failing", "over"}]
  /\ frames \in [Requests -> Seq(Shown)]
  /\ audit \in [Requests -> {"none", "ok", "error", "client_disconnected"}]
  /\ recorded \in [Requests -> {"none", "success", "failure"}]
  /\ health \in Health

\* What a request may do to the state.
Step(r) == \/ Prepare(r) \/ Generate(r)
           \/ r \in Streams /\ (Produce(r) \/ Consume(r) \/ Leave(r))

\* A request finds its own part of the state as it left it.
Same(q) ==
  /\ pc'[q] = pc[q] /\ call'[q] = call[q] /\ made'[q] = made[q]
  /\ wasted'[q] = wasted[q] /\ hand'[q] = hand[q] /\ recorded'[q] = recorded[q]
  /\ queue'[q] = queue[q] /\ stop'[q] = stop[q] /\ body'[q] = body[q]
  /\ frames'[q] = frames[q] /\ audit'[q] = audit[q]

-----------------------------------------------------------------------------
(* The inductive invariant, a conjunct for each part of the state.         *)

\* Where a thread may be: before its call, at it, and after it.
Unasked == {"new", "built", "asking", "returned", "retrieving"}
Trying  == {"calling", "sleeping"}
Ended   == {"closing", "closed", "done"}

\* The final frame is told of a call that was reported a success, or of a refusal.
TrueFinal(r) == recorded[r] = IF call[r] = NoCall THEN "none" ELSE "success"

\* An outcome is reported once, when the call is over.
ThreadInv(r) ==
  /\ pc[r] = "asking" => r \in Plans
  /\ pc[r] \in Unasked => call[r] = NoCall /\ recorded[r] = "none" /\ made[r] = 0
  /\ pc[r] \in Trying => made[r] = 0
  /\ pc[r] \in Trying \cup {"streaming"} => call[r].attempt # 0 /\ recorded[r] = "none"
  /\ pc[r] = "holding" =>
       \/ hand[r] = "refusal" /\ call[r] = NoCall /\ recorded[r] = "none"
       \/ hand[r] = "delta" /\ call[r].attempt # 0 /\ recorded[r] = "none"
       \/ hand[r] = "final" /\ TrueFinal(r)

\* A thread that has produced an event for nobody ends at the next look at stop.
StopInv(r) ==
  /\ wasted[r] <= 1
  /\ pc[r] \notin Ended \cup {"holding"} => wasted[r] = 0
  /\ pc[r] = "holding" /\ wasted[r] = 1 => stop[r]

\* A sleeper is woken on time, and an attempt begun within the deadline.
TimeInv(r) ==
  /\ pc[r] = "sleeping" => /\ call[r].at - call[r].started < Deadline
                           /\ clock <= call[r].at
  /\ pc[r] = "calling" => /\ call[r].at - call[r].started < Deadline
                          /\ clock - call[r].at <= Timeout

\* While the breaker is closed its count is the registry's run of failures.
BreakerInv ==
  /\ health.state = "closed" => /\ health.failures = health.consecutive
                                /\ health.consecutive < Threshold
  /\ health.state # "closed" => health.consecutive >= Threshold

\* The totals count the outcomes.
Told(o) == {r \in Requests : recorded[r] = o}
Tally ==
  /\ health.succeeded = Cardinality(Told("success"))
  /\ health.failed = Before + Cardinality(Told("failure"))

\* s is n text chunks and then the items of end.
Tells(s, n, end) ==
  /\ n \in Nat /\ Len(s) = n + Len(end)
  /\ \A i \in 1..n : s[i] = "delta"
  /\ \A i \in 1..Len(end) : s[n + i] = end[i]

\* The client has been sent n chunks and then end; a final frame comes after all
\* the text, and nothing that it depends on can change any more.
Finals == {<<"final">>, <<"citation", "final">>}
Shows(r, end) ==
  \E n \in Nat : /\ Tells(frames[r], n, end)
                 /\ end \in Finals => n = made[r] /\ TrueFinal(r) /\ pc[r] \in Ended

\* A streamed answer, from the request to the end of its body.
InHand(r) == IF pc[r] = "holding" /\ hand[r] \in {"refusal", "delta"} THEN 1 ELSE 0

Unstarted(r) ==
  /\ body[r] \in {"none", "unread"} /\ queue[r] = <<>>
  /\ frames[r] \in {<<>>, <<"http_error">>}
  /\ pc[r] \in {"new", "built", "returned", "done"}
  /\ pc[r] = "done" <=> frames[r] # <<>>
  /\ pc[r] = "returned" <=> body[r] = "unread"

Flowing(r) ==
  /\ body[r] \in {"await", "send"}
  /\ pc[r] \in {"retrieving", "calling", "sleeping", "streaming", "holding", "raised"}
  /\ Tells(frames[r], Len(frames[r]), <<>>) /\ Tells(queue[r], Len(queue[r]), <<>>)
  /\ pc[r] # "raised" => Len(frames[r]) + Len(queue[r]) + InHand(r) = made[r]

Ending(r) ==
  /\ body[r] \in {"await", "send"}
  /\ Tells(frames[r], Len(frames[r]), <<>>)
  /\ \E m \in Nat, e \in Ends :
        /\ \/ pc[r] \in {"closing", "closed"} /\ Tells(queue[r], m, <<e>>)
           \/ pc[r] = "done" /\ Tells(queue[r], m, <<e, "sentinel">>)
        /\ e = "final" => Len(frames[r]) + m = made[r] /\ TrueFinal(r)

Drained(r) == \/ pc[r] \in {"closing", "closed"} /\ queue[r] = <<>>
              \/ pc[r] = "done" /\ queue[r] = <<"sentinel">>

Showing(r) ==
  /\ Drained(r)
  /\ \/ body[r] = "cite" /\ Tells(frames[r], made[r], <<"citation">>) /\ TrueFinal(r)
     \/ body[r] \in {"await", "send"} /\ \E end \in Finals : Shows(r, end)

Failing(r) == body[r] = "failing" /\ pc[r] \in Ended /\ Shows(r, <<"error">>)

Over(r) ==
  /\ body[r] = "over" /\ pc[r] \notin {"new", "built"}
  /\ \/ /\ audit[r] \in {"none", "client_disconnected"}
        /\ \E end \in Finals \cup {<<>>, <<"citation">>} : Shows(r, end)
     \/ audit[r] = "ok" /\ \E end \in Finals : Shows(r, end)
     \/ audit[r] = "error" /\ Shows(r, <<"error">>)

StreamInv(r) ==
  /\ stop[r] => body[r] = "over"
  /\ body[r] # "over" => audit[r] = "none"
  /\ Unstarted(r) \/ Flowing(r) \/ Ending(r) \/ Showing(r) \/ Failing(r) \/ Over(r)

-----------------------------------------------------------------------------
(* Sequences that end in something other than text.                        *)

\* Appending to a sequence, entry by entry.
LEMMA Appended ==
  ASSUME NEW S, NEW s \in Seq(S), NEW e \in S
  PROVE  /\ Append(s, e) \in Seq(S) /\ Len(Append(s, e)) = Len(s) + 1
         /\ Append(s, e)[Len(s) + 1] = e
         /\ \A i \in 1..Len(s) : Append(s, e)[i] = s[i]
  OBVIOUS

\* Taking the head off a sequence, entry by entry.
LEMMA Tailed ==
  ASSUME NEW S, NEW s \in Seq(S), s # <<>>
  PROVE  /\ Tail(s) \in Seq(S) /\ Len(Tail(s)) = Len(s) - 1 /\ Len(s) \in Nat \ {0}
         /\ Head(s) = s[1] /\ Head(s) \in S /\ 1 \in 1..Len(s)
         /\ \A i \in 1..Len(Tail(s)) : Tail(s)[i] = s[i + 1] /\ i + 1 \in 1..Len(s)
  OBVIOUS

\* Text goes on a sequence of text.
LEMMA TextAppended ==
  ASSUME NEW S, NEW s \in Seq(S), "delta" \in S, Tells(s, Len(s), <<>>)
  PROVE  LET a == Append(s, "delta") IN Tells(a, Len(a), <<>>) /\ Len(a) = Len(s) + 1
  BY Appended DEF Tells

\* An end goes on a sequence of text, and a second item after it.
LEMMA EndAppended ==
  ASSUME NEW S, NEW s \in Seq(S), NEW e \in S, NEW n \in Nat
  PROVE  /\ Tells(s, n, <<>>) => Tells(Append(s, e), n, <<e>>)
         /\ \A d \in S : Tells(s, n, <<d>>) => Tells(Append(s, e), n, <<d, e>>)
<1>1. /\ Append(s, e) \in Seq(S) /\ Len(Append(s, e)) = Len(s) + 1
      /\ Append(s, e)[Len(s) + 1] = e
      /\ \A i \in 1..Len(s) : Append(s, e)[i] = s[i]
  BY Appended
<1> DEFINE a == Append(s, e)
<1> HIDE DEF a
<1>2. ASSUME Tells(s, n, <<>>) PROVE Tells(a, n, <<e>>)
  BY <1>1, <1>2 DEF Tells, a
<1>3. ASSUME NEW d \in S, Tells(s, n, <<d>>) PROVE Tells(a, n, <<d, e>>)
  <2>1. Len(s) = n + 1 /\ s[n + 1] = d /\ \A i \in 1..n : s[i] = "delta"
    BY <1>3 DEF Tells
  <2>2. Len(a) = n + 2 /\ a[n + 2] = e /\ a[n + 1] = d /\ \A i \in 1..n : a[i] = "delta"
    BY <1>1, <2>1 DEF a
  <2> QED BY <2>2 DEF Tells
<1> QED BY <1>2, <1>3 DEF a

\* The text is read first, and then the end.
LEMMA TellsTail ==
  ASSUME NEW S, NEW s \in Seq(S), s # <<>>, NEW n \in Nat
  PROVE  /\ Tells(s, n, <<>>) => Head(s) = "delta" /\ n = Len(s) /\ n - 1 \in Nat /\ Tells(Tail(s), n - 1, <<>>)
         /\ \A e : Tells(s, n, <<e>>) =>
              \/ n > 0 /\ n - 1 \in Nat /\ Head(s) = "delta" /\ Tells(Tail(s), n - 1, <<e>>)
              \/ n = 0 /\ Head(s) = e /\ Tail(s) = <<>>
         /\ \A e, f : Tells(s, n, <<e, f>>) =>
              \/ n > 0 /\ n - 1 \in Nat /\ Head(s) = "delta" /\ Tells(Tail(s), n - 1, <<e, f>>)
              \/ n = 0 /\ Head(s) = e /\ Tail(s) = <<f>>
<1>1. /\ Tail(s) \in Seq(S) /\ Len(Tail(s)) = Len(s) - 1 /\ Len(s) \in Nat \ {0}
      /\ Head(s) = s[1]
      /\ \A i \in 1..Len(Tail(s)) : Tail(s)[i] = s[i + 1] /\ i + 1 \in 1..Len(s)
  BY Tailed
<1> DEFINE a == Tail(s)
<1> HIDE DEF a
<1>2. ASSUME Tells(s, n, <<>>)
      PROVE  Head(s) = "delta" /\ n = Len(s) /\ n - 1 \in Nat /\ Tells(a, n - 1, <<>>)
  BY <1>1, <1>2 DEF Tells, a
<1>3. ASSUME NEW e, Tells(s, n, <<e>>)
      PROVE  \/ n > 0 /\ n - 1 \in Nat /\ Head(s) = "delta" /\ Tells(a, n - 1, <<e>>)
             \/ n = 0 /\ Head(s) = e /\ a = <<>>
  <2>1. Len(s) = n + 1 /\ s[n + 1] = e /\ \A i \in 1..n : s[i] = "delta"
    BY <1>3 DEF Tells
  <2>2. CASE n = 0
    BY <1>1, <2>1, <2>2 DEF a
  <2>3. CASE n > 0
    <3>1. Len(a) = n /\ a[n] = e /\ (\A i \in 1..n-1 : a[i] = "delta") /\ Head(s) = "delta"
      BY <1>1, <2>1, <2>3 DEF a
    <3> QED BY <2>3, <3>1 DEF Tells
  <2> QED BY <2>2, <2>3
<1>4. ASSUME NEW e, NEW f, Tells(s, n, <<e, f>>)
      PROVE  \/ n > 0 /\ n - 1 \in Nat /\ Head(s) = "delta" /\ Tells(a, n - 1, <<e, f>>)
             \/ n = 0 /\ Head(s) = e /\ a = <<f>>
  <2>1. Len(s) = n + 2 /\ s[n + 1] = e /\ s[n + 2] = f /\ \A i \in 1..n : s[i] = "delta"
    BY <1>4 DEF Tells
  <2>2. CASE n = 0
    <3>1. Len(a) = 1 /\ Head(s) = e /\ a \in Seq(S)
      BY <1>1, <2>1, <2>2 DEF a
    <3>2. a[1] = s[2]
      <4>1. 1 \in 1..Len(a)
        BY <3>1
      <4> QED BY <1>1, <4>1 DEF a
    <3>3. s[2] = f
      BY <2>1, <2>2
    <3> QED BY <2>2, <3>1, <3>2, <3>3
  <2>3. CASE n > 0
    <3>1. /\ Len(a) = n + 1 /\ a[n] = e /\ a[n + 1] = f
          /\ (\A i \in 1..n-1 : a[i] = "delta") /\ Head(s) = "delta"
      BY <1>1, <2>1, <2>3 DEF a
    <3> QED BY <2>3, <3>1 DEF Tells
  <2> QED BY <2>2, <2>3
<1> QED BY <1>2, <1>3, <1>4 DEF a

-----------------------------------------------------------------------------
(* Types, and what a step leaves alone.                                    *)

\* The first state has the types.
LEMMA AnswerTypesBegin == Init => AnswerTypes
<1> SUFFICES ASSUME Init PROVE AnswerTypes
  OBVIOUS
<1>1. <<>> \in Seq(Items) /\ <<>> \in Seq(Shown)
  OBVIOUS
<1>2. Before \in Nat
  BY AnswerAssumption
<1>3. health \in Health /\ NoCall \in Calls
  BY <1>2 DEF Init, Health, NoCall, Calls
<1> QED BY <1>1, <1>3 DEF Init, AnswerTypes, Places

\* The registry's records keep their fields.
LEMMA HealthTypes ==
  ASSUME AnswerTypes
  PROVE  RecordSuccess(health) \in Health /\ RecordFailure(health) \in Health /\ HalfOpen(health) \in Health
<1>1. health \in Health /\ clock \in Nat
  BY DEF AnswerTypes
<1>2. \A h \in Health, n \in Nat, m \in Nat :
        /\ [h EXCEPT !.state = "open", !.openedAt = m] \in Health
        /\ [h EXCEPT !.failures = n] \in Health
        /\ [h EXCEPT !.failures = n, !.state = "open", !.openedAt = m] \in Health
        /\ [h EXCEPT !.consecutive = n, !.failed = m] \in Health
        /\ [h EXCEPT !.consecutive = n, !.succeeded = m] \in Health
  BY DEF Health
<1>8. \A h \in Health : /\ h.failures + 1 \in Nat /\ h.consecutive + 1 \in Nat
                        /\ h.failed + 1 \in Nat /\ h.succeeded + 1 \in Nat
  BY DEF Health
<1>3. OnSuccess(health) \in Health
  BY <1>1 DEF OnSuccess, Health
<1>4. OnFailure(health) \in Health
  BY <1>1, <1>2, <1>8 DEF OnFailure
<1>5. RecordSuccess(health) \in Health
  BY <1>2, <1>3, <1>8 DEF RecordSuccess
<1>6. RecordFailure(health) \in Health
  BY <1>2, <1>4, <1>8 DEF RecordFailure
<1>7. HalfOpen(health) \in Health
  BY <1>1 DEF HalfOpen, Health
<1> QED BY <1>5, <1>6, <1>7

\* One frame is sent, one item put on the queue.
LEMMA Sent ==
  ASSUME AnswerTypes, NEW r \in Requests, NEW x \in Shown, Send(r, x)
  PROVE  frames' \in [Requests -> Seq(Shown)] /\ \A q \in Requests \ {r} : frames'[q] = frames[q]
<1>1. Append(frames[r], x) \in Seq(Shown)
  BY DEF AnswerTypes
<1> QED BY <1>1 DEF AnswerTypes, Send

\* A frame put into its queue is one of the frames.
LEMMA Queued ==
  ASSUME AnswerTypes, NEW r \in Requests, NEW x \in Items, Put(r, x)
  PROVE  queue' \in [Requests -> Seq(Items)] /\ \A q \in Requests \ {r} : queue'[q] = queue[q]
<1>1. Append(queue[r], x) \in Seq(Items)
  BY DEF AnswerTypes
<1> QED BY <1>1 DEF AnswerTypes, Put

\* What the code sends and queues by name, and the two calls it names.
LEMMA Named ==
  /\ "http_error" \in Shown /\ "answer" \in Shown /\ "delta" \in Shown
  /\ "citation" \in Shown /\ "final" \in Shown /\ "error" \in Shown
  /\ "delta" \in Items /\ "final" \in Items /\ "error" \in Items /\ "sentinel" \in Items
  /\ Called \in Calls /\ NoCall \in Calls
  BY DEF Shown, Items, Called, NoCall, Calls

\* Where an outcome is reported, or not.
LEMMA ReportTypes ==
  ASSUME AnswerTypes, NEW r \in Requests, NEW o \in {"success", "failure"}, Report(r, o)
  PROVE  /\ recorded' \in [Requests -> {"none", "success", "failure"}] /\ health' \in Health
         /\ \A q \in Requests \ {r} : recorded'[q] = recorded[q]
<1>1. CASE r \in Plans
  BY <1>1 DEF AnswerTypes, Report
<1>2. CASE r \notin Plans
  <2>1. health' \in Health
    BY <1>2, HealthTypes DEF Report
  <2>2. recorded' = [recorded EXCEPT ![r] = o]
    BY <1>2 DEF Report
  <2> QED BY <2>1, <2>2 DEF AnswerTypes
<1> QED BY <1>1, <1>2

\* Before a provider is asked.
LEMMA PrepareTypes ==
  ASSUME AnswerTypes, NEW r \in Requests, Prepare(r)
  PROVE  AnswerTypes' /\ (\A q \in Requests \ {r} : Same(q)) /\ UNCHANGED <<clock, health>>
<1> USE DEF AnswerTypes, Same, Goto, Close, stream, thread, Places
<1>1. CASE Reject(r)
  BY <1>1, Named, Sent DEF Reject
<1>2. CASE BuildLLM(r)
  BY <1>2 DEF BuildLLM
<1>3. CASE BadRequest(r)
  BY <1>3, Named, Sent DEF BadRequest
<1>4. CASE Accept(r)
  BY <1>4, ZenonT(40) DEF Accept
<1> QED BY <1>1, <1>2, <1>3, <1>4 DEF Prepare

\* An exception, reported or not, on its way to the client.
LEMMA RaiseTypes ==
  ASSUME AnswerTypes, NEW r \in Requests, Raise(r)
  PROVE  /\ pc' \in [Requests -> Places] /\ llm' \in [Requests -> {"none", "open", "closed"}]
         /\ hand' \in [Requests -> {"nothing", "refusal", "delta", "final", "error"}]
         /\ frames' \in [Requests -> Seq(Shown)]
         /\ \A q \in Requests \ {r} : pc'[q] = pc[q] /\ hand'[q] = hand[q] /\ frames'[q] = frames[q]
<1> USE DEF AnswerTypes, Goto, Places
<1>1. CASE r \in Streams
  BY <1>1, ZenonT(40) DEF Raise
<1>2. CASE r \notin Streams
  <2>1. Send(r, "http_error") /\ Close(r) /\ Goto(r, "done") /\ hand' = hand
    BY <1>2 DEF Raise
  <2>2. frames' \in [Requests -> Seq(Shown)] /\ \A q \in Requests \ {r} : frames'[q] = frames[q]
    BY <2>1, Named, Sent
  <2> QED BY <2>1, <2>2 DEF Close
<1> QED BY <1>1, <1>2

\* A call given up reports a failure, or nothing, and raises.
LEMMA GiveUpTypes ==
  ASSUME AnswerTypes, NEW r \in Requests, GiveUp(r),
         UNCHANGED <<clock, made, wasted, queue, stop, body, audit>>
  PROVE  AnswerTypes' /\ (\A q \in Requests \ {r} : Same(q)) /\ clock' = clock
<1>1. /\ recorded' \in [Requests -> {"none", "success", "failure"}] /\ health' \in Health
      /\ \A q \in Requests \ {r} : recorded'[q] = recorded[q]
  BY ReportTypes DEF GiveUp
<1>2. call' \in [Requests -> Calls] /\ \A q \in Requests \ {r} : call'[q] = call[q]
  BY Named DEF GiveUp, AnswerTypes
<1>3. Raise(r)
  BY DEF GiveUp
<1> QED BY <1>1, <1>2, <1>3, RaiseTypes DEF AnswerTypes, Same

\* The delays of a retry are natural numbers.
LEMMA DelaysNatural ==
  ASSUME NEW r \in Requests, NEW a \in RetryAfters, NEW d \in Delays(r, a)
  PROVE  d \in Nat /\ clock - call[r].started + d < Deadline
<1>1. \A b \in Draws(call[r].attempt) : b \in Nat
  BY DEF Draws
<1> QED BY <1>1, AnswerAssumption DEF Delays

\* While the provider is asked.
LEMMA GenerateTypes ==
  ASSUME AnswerTypes, NEW r \in Requests, Generate(r)
  PROVE  AnswerTypes' /\ (\A q \in Requests \ {r} : Same(q)) /\ clock' = clock
<1> USE DEF Goto
<1>1. CASE RetrievalFails(r)
  BY <1>1, RaiseTypes DEF AnswerTypes, Same, RetrievalFails
<1>2. CASE Refuse(r)
  <2>1. CASE r \in Streams
    <3>1. /\ Goto(r, "holding") /\ hand' = [hand EXCEPT ![r] = "refusal"]
          /\ made' = [made EXCEPT ![r] = 1]
          /\ UNCHANGED <<llm, frames, clock, call, wasted, recorded, queue, stop, body, audit, health>>
      BY <1>2, <2>1 DEF Refuse
    <3> QED BY <3>1 DEF AnswerTypes, Same, Places
  <2>2. CASE r \notin Streams
    <3>1. /\ Goto(r, "done") /\ Send(r, "answer") /\ Close(r)
          /\ UNCHANGED <<hand, made, clock, call, wasted, recorded, queue, stop, body, audit, health>>
      BY <1>2, <2>2 DEF Refuse
    <3>2. frames' \in [Requests -> Seq(Shown)] /\ \A q \in Requests \ {r} : frames'[q] = frames[q]
      BY <3>1, Named, Sent
    <3> QED BY <3>1, <3>2 DEF AnswerTypes, Same, Close, Places
  <2> QED BY <2>1, <2>2
<1>3. CASE StartCall(r)
  <2>1. [attempt |-> 1, started |-> clock, at |-> clock] \in Calls
    BY DEF Calls, AnswerTypes
  <2> QED BY <1>3, <2>1 DEF StartCall, AnswerTypes, Same, stream, Places
<1>4. CASE CallSucceeds(r)
  <2>1. CASE r \in Streams
    BY <1>4, <2>1, Named DEF CallSucceeds, AnswerTypes, Same, Places
  <2>2. CASE r \notin Streams
    <3>1. /\ Goto(r, "done") /\ Send(r, "answer") /\ Close(r) /\ Report(r, "success")
          /\ call' = [call EXCEPT ![r] = Called]
          /\ UNCHANGED <<clock, made, wasted, hand, queue, stop, body, audit>>
      BY <1>4, <2>2 DEF CallSucceeds
    <3>2. /\ recorded' \in [Requests -> {"none", "success", "failure"}] /\ health' \in Health
          /\ \A q \in Requests \ {r} : recorded'[q] = recorded[q]
      BY <3>1, ReportTypes
    <3>3. frames' \in [Requests -> Seq(Shown)] /\ \A q \in Requests \ {r} : frames'[q] = frames[q]
      BY <3>1, Named, Sent
    <3> QED BY <3>1, <3>2, <3>3, Named, ZenonT(40) DEF AnswerTypes, Same, Places, Close
  <2> QED BY <2>1, <2>2
<1>5. CASE CallFailsForGood(r)
  BY <1>5, GiveUpTypes DEF CallFailsForGood
<1>6. CASE CallFails(r)
  <2>1. CASE GiveUp(r)
    BY <1>6, <2>1, GiveUpTypes DEF CallFails
  <2>2. ASSUME NEW a \in RetryAfters, NEW d \in Delays(r, a),
               call' = [call EXCEPT ![r].at = clock + d], Goto(r, "sleeping"),
               UNCHANGED <<llm, frames, hand, recorded, health>>
        PROVE  AnswerTypes' /\ (\A q \in Requests \ {r} : Same(q)) /\ clock' = clock
    <3>1. clock + d \in Nat
      BY DelaysNatural DEF AnswerTypes
    <3>2. [call[r] EXCEPT !.at = clock + d] \in Calls
      BY <3>1, ZenonT(40) DEF AnswerTypes, Calls
    <3>3. call' \in [Requests -> Calls] /\ \A q \in Requests \ {r} : call'[q] = call[q]
      BY <2>2, <3>2 DEF AnswerTypes
    <3> QED BY <1>6, <2>2, <3>3 DEF CallFails, AnswerTypes, Same, Places
  <2> QED BY <1>6, <2>1, <2>2 DEF CallFails
<1>7. CASE Wake(r)
  <2>1. call' = [call EXCEPT ![r] = [call[r] EXCEPT !.attempt = call[r].attempt + 1, !.at = clock]]
    BY <1>7 DEF Wake, AnswerTypes
  <2>2. \A c \in Calls, n \in Nat, m \in Nat : [c EXCEPT !.attempt = n, !.at = m] \in Calls
    BY DEF Calls
  <2>3. call[r] \in Calls /\ call[r].attempt + 1 \in Nat /\ clock \in Nat
    BY DEF AnswerTypes, Calls
  <2>4. call' \in [Requests -> Calls] /\ \A q \in Requests \ {r} : call'[q] = call[q]
    BY <2>1, <2>2, <2>3 DEF AnswerTypes
  <2> QED BY <1>7, <2>4 DEF Wake, AnswerTypes, Same, Places, stream
<1> QED BY <1>1, <1>2, <1>3, <1>4, <1>5, <1>6, <1>7 DEF Generate

\* What the thread passes on, by what it holds.
LEMMA PassesOn ==
  ASSUME AnswerTypes, NEW r \in Requests, ThreadInv(r), PassOn(r)
  PROVE  \/ stop[r] /\ Goto(r, "closing") /\ UNCHANGED <<queue, hand>>
         \/ /\ ~stop[r] /\ hand[r] = "refusal"
            /\ Put(r, "delta") /\ UNCHANGED pc /\ hand' = [hand EXCEPT ![r] = "final"]
         \/ /\ ~stop[r] /\ hand[r] = "delta"
            /\ Put(r, "delta") /\ Goto(r, "streaming") /\ hand' = [hand EXCEPT ![r] = "nothing"]
         \/ /\ ~stop[r] /\ hand[r] = "final"
            /\ Put(r, "final") /\ Goto(r, "closing") /\ hand' = [hand EXCEPT ![r] = "nothing"]
<1>1. pc[r] = "holding" /\ hand[r] \in {"refusal", "delta", "final"} /\ stop[r] \in BOOLEAN
  BY DEF AnswerTypes, PassOn, ThreadInv
<1>2. CASE stop[r]
  BY <1>2 DEF PassOn
<1>3. CASE ~stop[r]
  BY <1>1, <1>3 DEF PassOn
<1> QED BY <1>2, <1>3

\* The producer thread.
LEMMA ProduceTypes ==
  ASSUME AnswerTypes, NEW r \in Streams, ThreadInv(r), Produce(r)
  PROVE  AnswerTypes' /\ (\A q \in Requests \ {r} : Same(q)) /\ clock' = clock
<1> USE DEF Goto, Hold, stream, thread
<1>1. r \in Requests
  BY DEF Requests
<1>2. CASE NextDelta(r)
  BY <1>1, <1>2 DEF NextDelta, AnswerTypes, Same, Places
<1>3. CASE StreamExhausted(r)
  BY <1>1, <1>3, ReportTypes DEF StreamExhausted, AnswerTypes, Same, Places
<1>4. CASE StreamBreaks(r)
  BY <1>1, <1>4, GiveUpTypes DEF StreamBreaks
<1>5. CASE PassOn(r)
  <2>1. \/ Goto(r, "closing") /\ UNCHANGED <<queue, hand>>
        \/ Put(r, "delta") /\ UNCHANGED pc /\ hand' = [hand EXCEPT ![r] = "final"]
        \/ Put(r, "delta") /\ Goto(r, "streaming") /\ hand' = [hand EXCEPT ![r] = "nothing"]
        \/ Put(r, "final") /\ Goto(r, "closing") /\ hand' = [hand EXCEPT ![r] = "nothing"]
    BY <1>1, <1>5, PassesOn
  <2>2. queue' \in [Requests -> Seq(Items)] /\ \A q \in Requests \ {r} : queue'[q] = queue[q]
    BY <1>1, <2>1, Named, Queued DEF AnswerTypes
  <2>3. /\ hand' \in [Requests -> {"nothing", "refusal", "delta", "final", "error"}]
        /\ pc' \in [Requests -> Places]
        /\ \A q \in Requests \ {r} : hand'[q] = hand[q] /\ pc'[q] = pc[q]
    BY <1>1, <2>1, ZenonT(40) DEF AnswerTypes, Places
  <2>4. UNCHANGED <<clock, llm, call, made, wasted, recorded, stop, body, frames, audit, health>>
    BY <1>5 DEF PassOn
  <2> QED BY <2>2, <2>3, <2>4 DEF AnswerTypes, Same
<1>6. CASE PassError(r)
  BY <1>1, <1>6, Named, Queued DEF PassError, AnswerTypes, Same, Places
<1>7. CASE Teardown(r)
  BY <1>1, <1>7 DEF Teardown, AnswerTypes, Same, Places, Close
<1>8. CASE PutSentinel(r)
  BY <1>1, <1>8, Named, Queued DEF PutSentinel, AnswerTypes, Same, Places
<1> QED BY <1>2, <1>3, <1>4, <1>5, <1>6, <1>7, <1>8 DEF Produce

\* What the body sends, by what it takes.
LEMMA Takes ==
  ASSUME AnswerTypes, NEW r \in Requests, Take(r)
  PROVE  \/ /\ Head(queue[r]) = "delta" /\ Send(r, "delta")
            /\ body' = [body EXCEPT ![r] = "send"] /\ UNCHANGED <<stop, audit>>
         \/ /\ Head(queue[r]) = "final" /\ Send(r, "citation")
            /\ body' = [body EXCEPT ![r] = "cite"] /\ UNCHANGED <<stop, audit>>
         \/ /\ Head(queue[r]) = "final" /\ Send(r, "final")
            /\ body' = [body EXCEPT ![r] = "send"] /\ UNCHANGED <<stop, audit>>
         \/ /\ Head(queue[r]) = "error" /\ Send(r, "error")
            /\ body' = [body EXCEPT ![r] = "failing"] /\ UNCHANGED <<stop, audit>>
         \/ Head(queue[r]) = "sentinel" /\ EndBody(r, "ok") /\ UNCHANGED frames
<1>1. Head(queue[r]) \in Items
  BY Tailed DEF AnswerTypes, Take
<1> QED BY <1>1 DEF Items, Take, Yield

\* The SSE body and the client.
LEMMA ConsumeTypes ==
  ASSUME AnswerTypes, NEW r \in Streams, Consume(r) \/ Leave(r)
  PROVE  /\ AnswerTypes' /\ (\A q \in Requests \ {r} : Same(q)) /\ UNCHANGED <<clock, health>>
<1> USE DEF AnswerTypes, Same, Goto, Yield, EndBody, stream, thread
<1>1. r \in Requests
  BY DEF Requests
<1>2. CASE OpenBody(r)
  BY <1>1, <1>2 DEF OpenBody, Places
<1>3. CASE Take(r)
  <2>1. Tail(queue[r]) \in Seq(Items)
    BY <1>1, <1>3, Tailed DEF Take
  <2>2. \/ Send(r, "delta") /\ body' = [body EXCEPT ![r] = "send"] /\ UNCHANGED <<stop, audit>>
        \/ Send(r, "citation") /\ body' = [body EXCEPT ![r] = "cite"] /\ UNCHANGED <<stop, audit>>
        \/ Send(r, "final") /\ body' = [body EXCEPT ![r] = "send"] /\ UNCHANGED <<stop, audit>>
        \/ Send(r, "error") /\ body' = [body EXCEPT ![r] = "failing"] /\ UNCHANGED <<stop, audit>>
        \/ EndBody(r, "ok") /\ UNCHANGED frames
    BY <1>1, <1>3, Takes
  <2>3. frames' \in [Requests -> Seq(Shown)] /\ \A q \in Requests \ {r} : frames'[q] = frames[q]
    BY <1>1, <2>2, Named, Sent
  <2>4. UNCHANGED <<clock, thread, health>> /\ queue' = [queue EXCEPT ![r] = Tail(queue[r])]
    BY <1>3 DEF Take
  <2>5. /\ body' \in [Requests -> {"none", "unread", "await", "cite", "send", "failing", "over"}]
        /\ stop' \in [Requests -> BOOLEAN]
        /\ audit' \in [Requests -> {"none", "ok", "error", "client_disconnected"}]
        /\ \A q \in Requests \ {r} : body'[q] = body[q] /\ stop'[q] = stop[q] /\ audit'[q] = audit[q]
    BY <1>1, <2>2, ZenonT(40)
  <2> QED BY <1>1, <2>1, <2>3, <2>4, <2>5, ZenonT(40)
<1>4. CASE Resume(r)
  <2>1. frames' \in [Requests -> Seq(Shown)] /\ \A q \in Requests \ {r} : frames'[q] = frames[q]
    BY <1>1, <1>4, Named, Sent DEF Resume
  <2>2. /\ body' \in [Requests -> {"none", "unread", "await", "cite", "send", "failing", "over"}]
        /\ stop' \in [Requests -> BOOLEAN]
        /\ audit' \in [Requests -> {"none", "ok", "error", "client_disconnected"}]
        /\ \A q \in Requests \ {r} : body'[q] = body[q] /\ stop'[q] = stop[q] /\ audit'[q] = audit[q]
    BY <1>1, <1>4, ZenonT(40) DEF Resume
  <2> QED BY <1>1, <1>4, <2>1, <2>2 DEF Resume
<1>5. CASE Heartbeat(r)
  BY <1>1, <1>5 DEF Heartbeat
<1>6. CASE Leave(r)
  BY <1>1, <1>6, ZenonT(40) DEF Leave
<1> QED BY <1>2, <1>3, <1>4, <1>5, <1>6 DEF Consume

\* Any step of a request.
LEMMA StepTypes ==
  ASSUME AnswerTypes, NEW r \in Requests, ThreadInv(r), Step(r)
  PROVE  AnswerTypes' /\ (\A q \in Requests \ {r} : Same(q)) /\ clock' = clock
  BY PrepareTypes, GenerateTypes, ProduceTypes, ConsumeTypes DEF Step

-----------------------------------------------------------------------------
(* What a request reports.                                                 *)

\* Only a call that is over is reported, and not that of a query plan.
LEMMA ReportsOnce ==
  ASSUME AnswerTypes, NEW r \in Requests, NEW o \in {"success", "failure"}, Report(r, o)
  PROVE  recorded'[r] = IF r \in Plans THEN recorded[r] ELSE o
  BY DEF AnswerTypes, Report

\* A stream's thread puts its error on the queue first; another has ended.
LEMMA RaiseThread ==
  ASSUME AnswerTypes, NEW r \in Requests, Raise(r)
  PROVE  pc'[r] = IF r \in Streams THEN "raised" ELSE "done"
  BY DEF AnswerTypes, Raise, Goto

\* A step of a thread leaves its call, its outcome and its hand in order.
LEMMA ThreadKeeps ==
  ASSUME AnswerTypes, NEW r \in Requests, ThreadInv(r), Step(r),
         body[r] = "unread" => pc[r] = "returned"
  PROVE  ThreadInv(r)'
<1>1. AnswerTypes'
  BY StepTypes
<1> USE DEF ThreadInv, TrueFinal, Unasked, Trying, Goto
<1>2. CASE Prepare(r)
  <2>1. pc[r] \in {"new", "built"}
    BY <1>2 DEF Prepare, Reject, BuildLLM, BadRequest, Accept
  <2>2. call'[r] = call[r] /\ recorded'[r] = recorded[r] /\ made'[r] = made[r]
    BY <1>2 DEF Prepare, Reject, BuildLLM, BadRequest, Accept
  <2>3. \/ pc'[r] \in {"done", "built", "returned", "retrieving"}
        \/ pc'[r] = "asking" /\ r \in Plans
    BY <1>2 DEF Prepare, Reject, BuildLLM, BadRequest, Accept, AnswerTypes
  <2> QED BY <2>1, <2>2, <2>3
<1>3. CASE RetrievalFails(r) \/ CallFailsForGood(r) \/ GiveUp(r) \/ (r \in Streams /\ StreamBreaks(r))
  <2>1. Raise(r)
    BY <1>3 DEF RetrievalFails, CallFailsForGood, GiveUp, StreamBreaks
  <2> QED BY <2>1, RaiseThread
<1>4. CASE Refuse(r)
  <2>1. CASE r \in Streams
    BY <1>4, <2>1 DEF Refuse, AnswerTypes
  <2>2. CASE r \notin Streams
    BY <1>4, <2>2 DEF Refuse, AnswerTypes
  <2> QED BY <2>1, <2>2
<1>5. CASE StartCall(r)
  BY <1>5 DEF StartCall, AnswerTypes, stream
<1>6. CASE CallSucceeds(r)
  <2>1. Called.attempt # 0
    BY DEF Called, NoCall
  <2>2. CASE r \in Streams
    BY <1>6, <2>1, <2>2 DEF CallSucceeds, AnswerTypes
  <2>3. CASE r \notin Streams
    BY <1>6, <2>3 DEF CallSucceeds, AnswerTypes
  <2> QED BY <2>2, <2>3
<1>7. CASE CallFails(r) /\ ~GiveUp(r)
  <2>1. PICK a \in RetryAfters : \E d \in Delays(r, a) : call' = [call EXCEPT ![r].at = clock + d]
    BY <1>7 DEF CallFails
  <2>2. call'[r].attempt = call[r].attempt
    BY <2>1 DEF AnswerTypes, Calls
  <2>3. pc[r] = "calling" /\ pc'[r] = "sleeping" /\ recorded'[r] = recorded[r] /\ made'[r] = made[r]
    BY <1>7 DEF CallFails, AnswerTypes
  <2> QED BY <2>2, <2>3
<1>8. CASE Wake(r)
  <2>1. call'[r].attempt = call[r].attempt + 1 /\ call[r].attempt \in Nat
    BY <1>8 DEF Wake, AnswerTypes, Calls
  <2>2. pc[r] = "sleeping" /\ pc'[r] = "calling" /\ recorded'[r] = recorded[r] /\ made'[r] = made[r]
    BY <1>8 DEF Wake, AnswerTypes
  <2> QED BY <2>1, <2>2
<1>9. CASE NextDelta(r)
  BY <1>9 DEF NextDelta, Hold, AnswerTypes, stream
<1>10. CASE r \in Streams /\ StreamExhausted(r)
  <2>1. recorded'[r] = "success"
    BY <1>10, ReportsOnce, AnswerAssumption DEF StreamExhausted
  <2>2. pc'[r] = "holding" /\ hand'[r] = "final" /\ call'[r] = call[r]
    BY <1>10 DEF StreamExhausted, Hold, AnswerTypes
  <2>3. call[r] # NoCall
    BY <1>10 DEF StreamExhausted, NoCall
  <2> QED BY <2>1, <2>2, <2>3
<1>11. CASE PassOn(r)
  <2>1. call' = call /\ recorded' = recorded /\ made' = made /\ pc[r] = "holding"
    BY <1>11 DEF PassOn
  <2>2. \/ pc'[r] = "closing"
        \/ hand[r] = "refusal" /\ pc'[r] = "holding" /\ hand'[r] = "final"
        \/ hand[r] = "delta" /\ pc'[r] = "streaming"
    BY <1>11, <2>1, PassesOn, ZenonT(40) DEF AnswerTypes
  <2> QED BY <2>1, <2>2
<1>12. CASE PassError(r) \/ Teardown(r) \/ PutSentinel(r)
  BY <1>12 DEF PassError, Teardown, PutSentinel, AnswerTypes
<1>13. CASE OpenBody(r)
  <2>1. pc'[r] = "retrieving" /\ call'[r] = call[r] /\ recorded'[r] = recorded[r] /\ made'[r] = made[r]
    BY <1>13 DEF OpenBody, AnswerTypes
  <2>2. pc[r] = "returned"
    BY <1>13 DEF OpenBody
  <2> QED BY <2>1, <2>2
<1>14. CASE Take(r) \/ Resume(r) \/ Heartbeat(r) \/ Leave(r)
  BY <1>14 DEF Take, Resume, Heartbeat, Leave, thread
<1> QED BY <1>2, <1>3, <1>4, <1>5, <1>6, <1>7, <1>8, <1>9, <1>10, <1>11, <1>12, <1>13, <1>14
        DEF Step, Generate, Produce, Consume

-----------------------------------------------------------------------------
(* The abandoned stream, and the retry loop's clock.                       *)

\* Nothing is produced for nobody twice.
LEMMA StopKeeps ==
  ASSUME AnswerTypes, NEW r \in Requests, ThreadInv(r), StopInv(r), Step(r),
         body[r] = "unread" => pc[r] = "returned"
  PROVE  StopInv(r)'
<1> USE DEF StopInv, Ended, Goto
<1>1. CASE Prepare(r)
  BY <1>1 DEF Prepare, Reject, BuildLLM, BadRequest, Accept, AnswerTypes
<1>2. CASE Generate(r) \/ StreamBreaks(r)
  <2>1. wasted' = wasted /\ pc[r] \notin Ended \cup {"holding"}
    BY <1>2 DEF Generate, RetrievalFails, Refuse, StartCall, CallSucceeds, CallFailsForGood,
                CallFails, Wake, StreamBreaks
  <2> QED BY <2>1
<1>3. CASE NextDelta(r) \/ StreamExhausted(r)
  <2>1. pc[r] = "streaming" /\ wasted[r] = 0
    BY <1>3 DEF NextDelta, StreamExhausted
  <2>2. pc'[r] = "holding" /\ wasted'[r] = (IF stop[r] THEN 1 ELSE 0) /\ stop'[r] = stop[r]
    BY <1>3, <2>1 DEF NextDelta, StreamExhausted, Hold, AnswerTypes, stream
  <2> QED BY <2>2 DEF AnswerTypes
<1>4. CASE PassOn(r)
  <2>1. wasted' = wasted /\ stop' = stop /\ pc[r] = "holding"
    BY <1>4 DEF PassOn
  <2>2. \/ pc'[r] = "closing"
        \/ ~stop[r] /\ pc'[r] \in {"holding", "streaming"}
    BY <1>4, <2>1, PassesOn DEF AnswerTypes
  <2>3. wasted[r] \in 0..1
    BY DEF AnswerTypes
  <2> QED BY <2>1, <2>2, <2>3
<1>5. CASE PassError(r) \/ Teardown(r) \/ PutSentinel(r)
  BY <1>5 DEF PassError, Teardown, PutSentinel, AnswerTypes, stream
<1>6. CASE OpenBody(r)
  BY <1>6 DEF OpenBody, AnswerTypes
<1>7. CASE Take(r) \/ Resume(r) \/ Heartbeat(r) \/ Leave(r)
  <2>1. wasted' = wasted /\ pc' = pc
    BY <1>7 DEF Take, Resume, Heartbeat, Leave, thread
  <2>2. stop[r] => stop'[r]
    <3>1. CASE Take(r)
      BY <3>1, Takes, ZenonT(40) DEF AnswerTypes, EndBody
    <3>2. CASE Resume(r)
      BY <3>2 DEF Resume, AnswerTypes, EndBody
    <3>3. CASE Heartbeat(r) \/ Leave(r)
      BY <3>3 DEF Heartbeat, Leave, AnswerTypes, EndBody
    <3> QED BY <1>7, <3>1, <3>2, <3>3
  <2> QED BY <2>1, <2>2
<1> QED BY <1>1, <1>2, <1>3, <1>4, <1>5, <1>6, <1>7 DEF Step, Produce, Consume

\* No attempt begins past the deadline, and none is begun twice.
LEMMA TimeKeeps ==
  ASSUME AnswerTypes, NEW r \in Requests, ThreadInv(r), TimeInv(r), Step(r)
  PROVE  TimeInv(r)'
<1>1. AnswerTypes' /\ clock' = clock
  BY StepTypes
<1> USE DEF TimeInv, Goto
<1>2. CASE StartCall(r)
  <2>1. call'[r] = [attempt |-> 1, started |-> clock, at |-> clock] /\ pc'[r] = "calling"
    BY <1>2 DEF StartCall, AnswerTypes
  <2>2. clock \in Nat /\ Deadline \in Nat \ {0} /\ Timeout \in Nat
    BY AnswerAssumption DEF AnswerTypes
  <2> QED BY <1>1, <2>1, <2>2
<1>3. CASE CallFails(r) /\ ~GiveUp(r)
  <2>1. PICK a \in RetryAfters : \E d \in Delays(r, a) :
          call' = [call EXCEPT ![r].at = clock + d] /\ Goto(r, "sleeping")
    BY <1>3 DEF CallFails
  <2>2. PICK d \in Delays(r, a) : call' = [call EXCEPT ![r].at = clock + d] /\ Goto(r, "sleeping")
    BY <2>1
  <2>3. d \in Nat /\ clock - call[r].started + d < Deadline
    BY DelaysNatural
  <2>4. call'[r].at = clock + d /\ call'[r].started = call[r].started /\ pc'[r] = "sleeping"
    BY <2>2 DEF AnswerTypes, Calls
  <2>5. clock \in Nat /\ call[r].started \in Nat
    BY DEF AnswerTypes, Calls
  <2> QED BY <1>1, <2>3, <2>4, <2>5, AnswerAssumption
<1>4. CASE Wake(r)
  <2>1. call'[r].at = clock /\ call'[r].started = call[r].started /\ pc'[r] = "calling"
    BY <1>4 DEF Wake, AnswerTypes, Calls
  <2>2. clock \in Nat /\ call[r].started \in Nat /\ call[r].at \in Nat
    BY DEF AnswerTypes, Calls
  <2>3. clock = call[r].at /\ call[r].at - call[r].started < Deadline
    BY <1>4, <2>2 DEF Wake
  <2> QED BY <1>1, <2>1, <2>2, <2>3, AnswerAssumption
<1>5. CASE RetrievalFails(r) \/ CallFailsForGood(r) \/ GiveUp(r) \/ (r \in Streams /\ StreamBreaks(r))
  <2>1. Raise(r)
    BY <1>5 DEF RetrievalFails, CallFailsForGood, GiveUp, StreamBreaks
  <2> QED BY <2>1, RaiseThread
<1>6. CASE Prepare(r) \/ Refuse(r) \/ CallSucceeds(r)
  <2>1. pc'[r] \notin {"calling", "sleeping"}
    BY <1>6 DEF Prepare, Reject, BuildLLM, BadRequest, Accept, Refuse, CallSucceeds, AnswerTypes
  <2> QED BY <2>1
<1>7. CASE NextDelta(r) \/ StreamExhausted(r) \/ PassError(r) \/ Teardown(r) \/ PutSentinel(r) \/ OpenBody(r)
  <2>1. pc'[r] \notin {"calling", "sleeping"}
    BY <1>7 DEF NextDelta, StreamExhausted, PassError, Teardown, PutSentinel, OpenBody, Hold, AnswerTypes
  <2> QED BY <2>1
<1>8. CASE PassOn(r)
  <2>1. pc'[r] \notin {"calling", "sleeping"}
    BY <1>8, PassesOn DEF PassOn, AnswerTypes
  <2> QED BY <2>1
<1>9. CASE Take(r) \/ Resume(r) \/ Heartbeat(r) \/ Leave(r)
  BY <1>1, <1>9 DEF Take, Resume, Heartbeat, Leave, thread
<1> QED BY <1>2, <1>3, <1>4, <1>5, <1>6, <1>7, <1>8, <1>9 DEF Step, Generate, Produce, Consume

\* Time passes only as far as the next sleeper and the end of an attempt.
LEMMA TickKeeps ==
  ASSUME AnswerTypes, Tick, NEW r \in Requests, TimeInv(r)
  PROVE  TimeInv(r)'
<1>1. call[r].at \in Nat /\ call[r].started \in Nat /\ clock \in Nat /\ clock' = clock + 1
  BY DEF AnswerTypes, Calls, Tick
<1>2. pc' = pc /\ call' = call
  BY DEF Tick, thread
<1>3. /\ pc[r] = "sleeping" => clock < call[r].at
      /\ pc[r] = "calling" => clock - call[r].at < Timeout
  BY DEF Tick
<1> QED BY <1>1, <1>2, <1>3, AnswerAssumption DEF TimeInv

-----------------------------------------------------------------------------
(* The breaker and the registry.                                           *)

\* An outcome moves breaker and run together.
LEMMA BreakerMoves ==
  ASSUME AnswerTypes, BreakerInv, health' \in {RecordSuccess(health), RecordFailure(health), HalfOpen(health)}
  PROVE  BreakerInv'
<1>1. health \in Health /\ clock \in Nat /\ Threshold \in Nat \ {0}
  BY AnswerAssumption DEF AnswerTypes
<1>2. CASE health' = RecordSuccess(health)
  BY <1>1, <1>2 DEF RecordSuccess, OnSuccess, Health, BreakerInv
<1>3. CASE health' = RecordFailure(health)
  <2>1. /\ health'.consecutive = health.consecutive + 1
        /\ health'.state = OnFailure(health).state /\ health'.failures = OnFailure(health).failures
    BY <1>1, <1>3 DEF RecordFailure, OnFailure, Health
  <2>2. CASE health.state = "half_open"
    BY <1>1, <2>1, <2>2 DEF OnFailure, Health, BreakerInv
  <2>3. CASE health.state = "closed"
    BY <1>1, <2>1, <2>3 DEF OnFailure, Health, BreakerInv
  <2>4. CASE health.state = "open"
    BY <1>1, <2>1, <2>4 DEF OnFailure, Health, BreakerInv
  <2> QED BY <1>1, <2>2, <2>3, <2>4 DEF Health
<1>4. CASE health' = HalfOpen(health)
  BY <1>1, <1>4 DEF HalfOpen, Health, BreakerInv
<1> QED BY <1>2, <1>3, <1>4

\* A step reports nothing, or the first outcome of its request.
LEMMA StepReports ==
  ASSUME AnswerTypes, NEW r \in Requests, ThreadInv(r), Step(r)
  PROVE  \/ UNCHANGED <<recorded, health>>
         \/ recorded[r] = "none" /\ \E o \in {"success", "failure"} : Report(r, o)
<1>1. CASE Prepare(r) \/ Consume(r) \/ Leave(r)
  BY <1>1 DEF Prepare, Reject, BuildLLM, BadRequest, Accept, Consume, OpenBody, Take, Resume,
              Heartbeat, Leave, thread
<1>2. CASE Generate(r) \/ (r \in Streams /\ StreamBreaks(r))
  <2>1. CASE RetrievalFails(r) \/ Refuse(r) \/ StartCall(r) \/ Wake(r)
    BY <2>1 DEF RetrievalFails, Refuse, StartCall, Wake
  <2>2. CASE CallSucceeds(r)
    BY <2>2 DEF CallSucceeds, ThreadInv, Trying
  <2>3. CASE CallFailsForGood(r) \/ CallFails(r) \/ StreamBreaks(r)
    BY <2>3 DEF CallFailsForGood, CallFails, StreamBreaks, GiveUp, ThreadInv, Trying
  <2> QED BY <1>2, <2>1, <2>2, <2>3 DEF Generate
<1>3. CASE NextDelta(r) \/ PassOn(r) \/ PassError(r) \/ Teardown(r) \/ PutSentinel(r)
  BY <1>3 DEF NextDelta, PassOn, PassError, Teardown, PutSentinel
<1>4. CASE StreamExhausted(r)
  BY <1>4 DEF StreamExhausted, ThreadInv, Trying
<1> QED BY <1>1, <1>2, <1>3, <1>4 DEF Step, Produce

\* The registry counts an outcome when it is told of one.
LEMMA TallyMoves ==
  ASSUME AnswerTypes, Tally, NEW r \in Requests, NEW o \in {"success", "failure"},
         recorded[r] = "none", Report(r, o)
  PROVE  Tally' /\ health' \in {health, RecordSuccess(health), RecordFailure(health)}
<1>1. CASE r \in Plans
  BY <1>1 DEF Report, Tally, Told
<1>2. CASE r \notin Plans
  <2>1. recorded' = [recorded EXCEPT ![r] = o]
        /\ health' = IF o = "success" THEN RecordSuccess(health) ELSE RecordFailure(health)
    BY <1>2 DEF Report
  <2>2. r \notin Told(o) /\ Told(o)' = Told(o) \cup {r}
    BY <2>1 DEF AnswerTypes, Told
  <2>3. \A x \in {"success", "failure"} : x # o => Told(x)' = Told(x)
    BY <2>1 DEF AnswerTypes, Told
  <2>4. IsFiniteSet(Told("success")) /\ IsFiniteSet(Told("failure"))
    BY AnswerAssumption, FS_Subset DEF Told
  <2>5. Cardinality(Told("success")) \in Nat /\ Cardinality(Told("failure")) \in Nat
    BY <2>4, FS_CardinalityType
  <2>6. IsFiniteSet(Told(o))
    BY <2>4
  <2>7. Cardinality(Told(o)') = Cardinality(Told(o)) + 1
    BY <2>2, <2>6, FS_AddElement
  <2>8. CASE o = "success"
    <3>1. health'.succeeded = health.succeeded + 1 /\ health'.failed = health.failed
      BY <2>1, <2>8 DEF RecordSuccess, OnSuccess, AnswerTypes, Health
    <3>2. Told("failure")' = Told("failure")
      BY <2>3, <2>8
    <3> QED BY <2>1, <2>5, <2>7, <2>8, <3>1, <3>2 DEF Tally
  <2>9. CASE o = "failure"
    <3>1. health'.failed = health.failed + 1 /\ health'.succeeded = health.succeeded
      BY <2>1, <2>9 DEF RecordFailure, OnFailure, AnswerTypes, Health
    <3>2. Told("success")' = Told("success")
      BY <2>3, <2>9
    <3> QED BY <2>1, <2>5, <2>7, <2>9, <3>1, <3>2, AnswerAssumption DEF Tally
  <2> QED BY <2>8, <2>9
<1> QED BY <1>1, <1>2

\* A snapshot may find the breaker half open, and changes no total.
LEMMA SnapshotKeeps ==
  ASSUME AnswerTypes, BreakerInv, Tally, Snapshot
  PROVE  BreakerInv' /\ Tally' /\ health' \in Health
<1>1. health' = HalfOpen(health) /\ recorded' = recorded
  BY DEF Snapshot, thread
<1>2. health'.succeeded = health.succeeded /\ health'.failed = health.failed
  BY <1>1 DEF HalfOpen, AnswerTypes, Health
<1> QED BY <1>1, <1>2, BreakerMoves, HealthTypes DEF Tally, Told

-----------------------------------------------------------------------------
(* The streamed answer.                                                    *)

\* What has been sent stays true while the thread goes on.
LEMMA ShowsStays ==
  ASSUME NEW r, NEW end, Shows(r, end), frames'[r] = frames[r],
         end \in Finals /\ pc[r] \in Ended =>
           /\ made'[r] = made[r] /\ recorded'[r] = recorded[r] /\ call'[r] = call[r]
           /\ pc'[r] \in Ended
  PROVE  Shows(r, end)'
  BY DEF Shows, TrueFinal

\* A thread that has raised or passed its last event on only tears down.
LEMMA TeardownOnly ==
  ASSUME AnswerTypes, NEW r \in Streams, Generate(r) \/ Produce(r), pc[r] \in Ended
  PROVE  /\ made' = made /\ recorded' = recorded /\ call' = call
         /\ \/ pc[r] = "closing" /\ pc'[r] = "closed" /\ queue' = queue
            \/ pc[r] = "closed" /\ pc'[r] = "done" /\ (~stop[r] => Put(r, "sentinel"))
<1> USE DEF Ended, Goto
<1>1. ~Generate(r)
  BY DEF Generate, RetrievalFails, Refuse, StartCall, CallSucceeds, CallFailsForGood, CallFails, Wake
<1>2. Teardown(r) \/ PutSentinel(r)
  BY <1>1 DEF Produce, NextDelta, StreamExhausted, StreamBreaks, PassOn, PassError
<1> QED BY <1>2 DEF Teardown, PutSentinel, AnswerTypes, Requests, stream

\* The thread never touches what the client sees.
LEMMA ThreadAside ==
  ASSUME NEW r \in Streams, Generate(r) \/ Produce(r)
  PROVE  UNCHANGED <<stop, body, frames, audit>>
<1>1. CASE Generate(r)
  BY <1>1 DEF Generate, RetrievalFails, Refuse, StartCall, CallSucceeds, CallFailsForGood,
              CallFails, Wake, GiveUp, Raise, stream
<1>2. CASE Produce(r)
  BY <1>2 DEF Produce, NextDelta, StreamExhausted, StreamBreaks, PassOn, PassError, Teardown,
              PutSentinel, GiveUp, Raise, stream
<1> QED BY <1>1, <1>2

\* While text flows, the provider's chunks are those sent, queued and in hand.
LEMMA FlowKeeps ==
  ASSUME AnswerTypes, NEW r \in Streams, ThreadInv(r), Flowing(r), ~stop[r],
         Generate(r) \/ Produce(r)
  PROVE  Flowing(r)' \/ Ending(r)'
<1> DEFINE n == Len(frames[r])
           m == Len(queue[r])
<1>1. r \in Requests /\ UNCHANGED <<stop, body, frames, audit>>
  BY ThreadAside DEF Requests
<1>2. queue[r] \in Seq(Items) /\ made[r] \in Nat /\ n \in Nat /\ m \in Nat
  BY <1>1 DEF AnswerTypes
<1>3. /\ Tells(frames[r], n, <<>>) /\ Tells(queue[r], m, <<>>) /\ body[r] \in {"await", "send"}
      /\ Len(frames[r]) = n /\ (queue' = queue => Len(queue'[r]) = m)
  BY DEF Flowing
<1>4. pc[r] # "raised" => n + m + InHand(r) = made[r]
  BY DEF Flowing
<1>5. /\ InHand(r) = (IF pc[r] = "holding" /\ hand[r] \in {"refusal", "delta"} THEN 1 ELSE 0)
      /\ InHand(r)' = (IF pc'[r] = "holding" /\ hand'[r] \in {"refusal", "delta"} THEN 1 ELSE 0)
  BY DEF InHand
<1> HIDE DEF n, m
<1>6. ASSUME NEW k \in Nat, Tells(queue'[r], k, <<>>), k = Len(queue'[r]), n + k + InHand(r)' = made'[r],
             pc'[r] \in {"retrieving", "calling", "sleeping", "streaming", "holding", "raised"}
      PROVE  Flowing(r)'
  BY <1>1, <1>3, <1>6 DEF Flowing
<1> USE DEF Goto
<1>7. CASE RetrievalFails(r) \/ CallFailsForGood(r) \/ (CallFails(r) /\ GiveUp(r)) \/ StreamBreaks(r)
  <2>1. Raise(r) /\ queue' = queue
    BY <1>7 DEF RetrievalFails, CallFailsForGood, GiveUp, StreamBreaks, CallFails
  <2>2. pc'[r] = "raised"
    BY <1>1, <2>1, RaiseThread
  <2> QED BY <1>1, <1>3, <2>1, <2>2 DEF Flowing
<1>8. CASE Refuse(r)
  <2>1. /\ pc[r] = "retrieving" /\ pc'[r] = "holding" /\ hand'[r] = "refusal" /\ made'[r] = 1
        /\ queue' = queue
    BY <1>1, <1>8 DEF Refuse, AnswerTypes
  <2>2. made[r] = 0
    BY <2>1 DEF ThreadInv, Unasked
  <2>3. InHand(r) = 0 /\ InHand(r)' = 1
    BY <1>5, <2>1
  <2>4. n + m + InHand(r)' = made'[r]
    BY <1>2, <1>4, <2>1, <2>2, <2>3
  <2> QED BY <1>2, <1>3, <1>6, <2>1, <2>4
<1>9. CASE StartCall(r) \/ CallSucceeds(r) \/ (CallFails(r) /\ ~GiveUp(r)) \/ Wake(r)
  <2>1. /\ pc[r] \in {"asking", "retrieving", "calling", "sleeping"}
        /\ pc'[r] \in {"calling", "streaming", "sleeping"} /\ queue' = queue /\ made' = made
    BY <1>1, <1>9 DEF StartCall, CallSucceeds, CallFails, Wake, AnswerTypes, stream
  <2>2. n + m + InHand(r)' = made'[r]
    BY <1>2, <1>4, <1>5, <2>1
  <2> QED BY <1>2, <1>3, <1>6, <2>1, <2>2
<1>10. CASE NextDelta(r)
  <2>1. /\ pc[r] = "streaming" /\ pc'[r] = "holding" /\ hand'[r] = "delta" /\ made'[r] = made[r] + 1
        /\ queue' = queue
    BY <1>1, <1>10 DEF NextDelta, Hold, AnswerTypes, stream
  <2>2. n + m + InHand(r)' = made'[r]
    BY <1>2, <1>4, <1>5, <2>1
  <2> QED BY <1>2, <1>3, <1>6, <2>1, <2>2
<1>11. CASE StreamExhausted(r)
  <2>1. /\ pc[r] = "streaming" /\ pc'[r] = "holding" /\ hand'[r] = "final" /\ made' = made
        /\ queue' = queue
    BY <1>1, <1>11 DEF StreamExhausted, Hold, AnswerTypes, stream
  <2>2. n + m + InHand(r)' = made'[r]
    BY <1>2, <1>4, <1>5, <2>1
  <2> QED BY <1>2, <1>3, <1>6, <2>1, <2>2
<1>12. CASE PassOn(r)
  <2>1. pc[r] = "holding" /\ made' = made /\ recorded' = recorded /\ call' = call
    BY <1>12 DEF PassOn
  <2>2. CASE /\ hand[r] \in {"refusal", "delta"} /\ Put(r, "delta")
             /\ \/ pc'[r] = "holding" /\ hand'[r] = "final"
                \/ pc'[r] = "streaming"
    <3>1. queue'[r] = Append(queue[r], "delta")
      BY <1>1, <2>2 DEF Put, AnswerTypes
    <3>2. Tells(queue'[r], Len(queue'[r]), <<>>) /\ Len(queue'[r]) = m + 1
      BY <1>2, <1>3, <3>1, TextAppended, Named DEF m
    <3>3. n + (m + 1) + InHand(r)' = made'[r] /\ m + 1 \in Nat
      BY <1>2, <1>4, <1>5, <2>1, <2>2
    <3> QED BY <1>6, <2>2, <3>2, <3>3
  <2>3. CASE hand[r] = "final" /\ Put(r, "final") /\ pc'[r] = "closing"
    <3>1. queue'[r] = Append(queue[r], "final")
      BY <1>1, <2>3 DEF Put, AnswerTypes
    <3>2. Tells(queue'[r], m, <<"final">>)
      BY <1>2, <1>3, <3>1, EndAppended, Named
    <3>3. n + m = made'[r] /\ TrueFinal(r)'
      <4>1. n + m = made[r]
        BY <1>2, <1>4, <1>5, <2>1, <2>3
      <4> QED BY <2>1, <2>3, <4>1 DEF ThreadInv, TrueFinal
    <3> QED BY <1>1, <1>2, <1>3, <2>3, <3>2, <3>3 DEF Ending, Ends
  <2> QED BY <1>1, <1>12, <2>1, <2>2, <2>3, PassesOn DEF AnswerTypes
<1>13. CASE PassError(r)
  <2>1. pc'[r] = "closing" /\ Put(r, "error")
    BY <1>1, <1>13 DEF PassError, AnswerTypes
  <2>2. queue'[r] = Append(queue[r], "error")
    BY <1>1, <2>1 DEF Put, AnswerTypes
  <2>3. Tells(queue'[r], m, <<"error">>)
    BY <1>2, <1>3, <2>2, EndAppended, Named
  <2> QED BY <1>1, <1>2, <1>3, <2>1, <2>3 DEF Ending, Ends
<1>14. CASE Teardown(r) \/ PutSentinel(r)
  BY <1>14 DEF Flowing, Teardown, PutSentinel
<1> QED BY <1>7, <1>8, <1>9, <1>10, <1>11, <1>12, <1>13, <1>14 DEF Generate, Produce

\* Behind an end there is the sentinel only.
LEMMA EndKeeps ==
  ASSUME AnswerTypes, NEW r \in Streams, ~stop[r], Generate(r) \/ Produce(r)
  PROVE  (Ending(r) => Ending(r)') /\ (Showing(r) => Showing(r)')
<1>1. r \in Requests /\ UNCHANGED <<stop, body, frames, audit>>
  BY ThreadAside DEF Requests
<1>2. queue[r] \in Seq(Items) /\ (Put(r, "sentinel") => queue'[r] = Append(queue[r], "sentinel"))
  BY <1>1 DEF AnswerTypes, Put
<1>3. (Ending(r) \/ Showing(r)) => pc[r] \in Ended
  BY DEF Ending, Showing, Drained, Ended
<1>4. ASSUME Ending(r) PROVE Ending(r)'
  <2>1. PICK m \in Nat, e \in Ends :
          /\ \/ pc[r] \in {"closing", "closed"} /\ Tells(queue[r], m, <<e>>)
             \/ pc[r] = "done" /\ Tells(queue[r], m, <<e, "sentinel">>)
          /\ e = "final" => Len(frames[r]) + m = made[r] /\ TrueFinal(r)
    BY <1>4 DEF Ending
  <2>2. e \in Items
    BY DEF Ends, Items
  <2>3. /\ \/ pc'[r] \in {"closing", "closed"} /\ Tells(queue'[r], m, <<e>>)
           \/ pc'[r] = "done" /\ Tells(queue'[r], m, <<e, "sentinel">>)
        /\ made' = made /\ recorded' = recorded /\ call' = call
    BY <1>2, <1>3, <1>4, <2>1, <2>2, TeardownOnly, EndAppended, Named
  <2>4. e = "final" => Len(frames'[r]) + m = made'[r] /\ TrueFinal(r)'
    BY <1>1, <2>1, <2>3 DEF TrueFinal
  <2> QED BY <1>1, <1>4, <2>3, <2>4 DEF Ending
<1>5. ASSUME Showing(r) PROVE Showing(r)'
  <2>1. made' = made /\ recorded' = recorded /\ call' = call /\ pc'[r] \in Ended
    BY <1>3, <1>5, TeardownOnly DEF Ended
  <2>2. Append(<<>>, "sentinel") = <<"sentinel">>
    OBVIOUS
  <2>3. Drained(r)'
    BY <1>2, <1>3, <1>5, <2>2, TeardownOnly DEF Showing, Drained
  <2>4. \A end : Shows(r, end) => Shows(r, end)'
    BY <1>1, <2>1, ShowsStays
  <2> QED BY <1>1, <1>5, <2>1, <2>3, <2>4 DEF Showing, TrueFinal
<1> QED BY <1>4, <1>5

\* Nobody reads on, whatever the thread goes on to do.
LEMMA DeafKeeps ==
  ASSUME AnswerTypes, NEW r \in Streams, ThreadInv(r), Generate(r) \/ Produce(r)
  PROVE  (Failing(r) => Failing(r)') /\ (Over(r) => Over(r)')
<1>1. r \in Requests /\ UNCHANGED <<stop, body, frames, audit>>
  BY ThreadAside DEF Requests
<1>2. pc[r] \in Ended => /\ made' = made /\ recorded' = recorded /\ call' = call /\ pc'[r] \in Ended
  BY TeardownOnly DEF Ended
<1>3. \A end : Shows(r, end) => Shows(r, end)'
  BY <1>1, <1>2, ShowsStays
<1>4. pc'[r] \notin {"new", "built"} \/ pc[r] \in {"new", "built"}
  <2>1. CASE Generate(r)
    BY <1>1, <2>1 DEF Generate, RetrievalFails, Refuse, StartCall, CallSucceeds, CallFailsForGood,
              CallFails, Wake, GiveUp, Raise, Goto, AnswerTypes
  <2>2. CASE Produce(r)
    <3>1. CASE PassOn(r)
      BY <1>1, <3>1, PassesOn DEF AnswerTypes, Goto
    <3>2. CASE ~PassOn(r)
      BY <1>1, <2>2, <3>2 DEF Produce, NextDelta, StreamExhausted, StreamBreaks, PassError, Teardown,
                PutSentinel, GiveUp, Raise, Goto, Hold, AnswerTypes
    <3> QED BY <3>1, <3>2
  <2> QED BY <2>1, <2>2
<1> QED BY <1>1, <1>2, <1>3, <1>4 DEF Failing, Over

\* A stream that has not begun is refused with an envelope, or given a body.
LEMMA UnstartedKeeps ==
  ASSUME AnswerTypes, NEW r \in Streams, ThreadInv(r), Unstarted(r), ~stop[r], audit[r] = "none", Step(r)
  PROVE  StreamInv(r)'
<1> USE DEF Goto, Send
<1>1. r \in Requests
  BY DEF Requests
<1>2. CASE Reject(r) \/ BadRequest(r)
  <2>1. frames[r] = <<>> /\ frames'[r] = Append(frames[r], "http_error")
    BY <1>1, <1>2 DEF Reject, BadRequest, Unstarted, AnswerTypes
  <2>2. frames'[r] = <<"http_error">> /\ frames'[r] # <<>>
    BY <2>1
  <2>3. /\ pc[r] \in {"new", "built"} /\ pc'[r] = "done"
        /\ UNCHANGED <<body, queue, stop, audit>>
    BY <1>1, <1>2 DEF Reject, BadRequest, AnswerTypes
  <2> QED BY <2>2, <2>3 DEF Unstarted, StreamInv
<1>3. CASE BuildLLM(r)
  <2>1. pc'[r] = "built" /\ pc[r] = "new" /\ UNCHANGED <<body, queue, stop, audit, frames>>
    BY <1>1, <1>3, AnswerAssumption DEF BuildLLM, AnswerTypes, stream
  <2> QED BY <2>1 DEF Unstarted, StreamInv
<1>4. CASE Accept(r)
  <2>1. /\ pc[r] = "built" /\ pc'[r] = "returned" /\ body'[r] = "unread"
        /\ UNCHANGED <<queue, stop, audit, frames>>
    BY <1>1, <1>4 DEF Accept, AnswerTypes
  <2> QED BY <2>1 DEF Unstarted, StreamInv
<1>5. CASE OpenBody(r)
  <2>1. /\ pc'[r] = "retrieving" /\ body'[r] = "await" /\ pc[r] = "returned"
        /\ UNCHANGED <<queue, stop, audit, frames, made>>
    BY <1>1, <1>5 DEF OpenBody, AnswerTypes, Unstarted
  <2>2. frames[r] = <<>> /\ queue[r] = <<>> /\ made[r] = 0
    BY <2>1 DEF Unstarted, ThreadInv, Unasked
  <2>3. InHand(r)' = 0
    BY <2>1 DEF InHand
  <2>4. Flowing(r)'
    BY <2>1, <2>2, <2>3 DEF Flowing, Tells
  <2> QED BY <2>1, <2>4 DEF StreamInv
<1>6. CASE Generate(r) \/ Produce(r)
  BY <1>6 DEF Unstarted, Generate, RetrievalFails, Refuse, StartCall, CallSucceeds, CallFailsForGood,
              CallFails, Wake, Produce, NextDelta, StreamExhausted, StreamBreaks, PassOn, PassError,
              Teardown, PutSentinel
<1>7. CASE Leave(r)
  <2>1. /\ body[r] = "unread" /\ body'[r] = "over" /\ pc[r] = "returned"
        /\ UNCHANGED <<pc, queue, stop, audit, frames>>
    BY <1>1, <1>7 DEF Leave, Unstarted, AnswerTypes, thread
  <2>2. frames[r] = <<>>
    BY <2>1 DEF Unstarted
  <2>3. Shows(r, <<>>)'
    BY <2>1, <2>2 DEF Shows, Tells, Finals
  <2> QED BY <2>1, <2>3 DEF Over, StreamInv
<1>8. CASE Take(r) \/ Resume(r) \/ Heartbeat(r)
  BY <1>8 DEF Take, Resume, Heartbeat, Unstarted
<1> QED BY <1>2, <1>3, <1>4, <1>5, <1>6, <1>7, <1>8 DEF Step, Prepare, Consume

\* The body takes the text first, then the end, then the sentinel.
LEMMA TakeKeeps ==
  ASSUME AnswerTypes, NEW r \in Streams, Flowing(r) \/ Ending(r) \/ Showing(r), ~stop[r],
         audit[r] = "none", Take(r)
  PROVE  StreamInv(r)'
<1> DEFINE n == Len(frames[r])
<1>1. r \in Requests
  BY DEF Requests
<1>2. /\ queue[r] \in Seq(Items) /\ queue[r] # <<>> /\ frames[r] \in Seq(Shown) /\ n \in Nat
      /\ made[r] \in Nat /\ body[r] = "await" /\ queue'[r] = Tail(queue[r])
  BY <1>1 DEF AnswerTypes, Take
<1>3. UNCHANGED <<pc, made, hand, recorded, call>>
  BY DEF Take, thread
<1> USE DEF Send
<1>4. ASSUME Send(r, "delta"), body'[r] = "send", UNCHANGED <<stop, audit>>, Tells(frames[r], n, <<>>)
      PROVE  Tells(frames'[r], Len(frames'[r]), <<>>) /\ Len(frames'[r]) = n + 1
  <2>1. frames'[r] = Append(frames[r], "delta")
    BY <1>1, <1>4 DEF AnswerTypes
  <2> QED BY <1>2, <1>4, <2>1, TextAppended, Named
<1>5. CASE Flowing(r)
  <2> DEFINE m == Len(queue[r])
  <2>1. Tells(frames[r], n, <<>>) /\ Tells(queue[r], m, <<>>) /\ m \in Nat
    BY <1>2, <1>5 DEF Flowing
  <2>2. /\ Head(queue[r]) = "delta" /\ m - 1 \in Nat /\ Tells(queue'[r], m - 1, <<>>)
    BY <1>2, <2>1, TellsTail
  <2>3. Len(queue'[r]) = m - 1
    BY <1>2, Tailed
  <2>4. Send(r, "delta") /\ body'[r] = "send" /\ UNCHANGED <<stop, audit>>
    BY <1>1, <1>2, <2>2, Takes DEF AnswerTypes
  <2>5. Tells(frames'[r], Len(frames'[r]), <<>>) /\ Len(frames'[r]) = n + 1
    BY <1>4, <2>1, <2>4
  <2>6. pc[r] # "raised" => n + m + InHand(r) = made[r]
    BY <1>5 DEF Flowing
  <2>7. InHand(r)' = InHand(r) /\ InHand(r) \in Nat
    BY <1>3 DEF InHand
  <2> HIDE DEF m, n
  <2>10. pc[r] # "raised" => (n + 1) + (m - 1) + InHand(r) = made[r]
    BY <1>2, <2>1, <2>6, <2>7
  <2>8. pc'[r] # "raised" => Len(frames'[r]) + Len(queue'[r]) + InHand(r)' = made'[r]
    <3>1. Len(frames'[r]) = n + 1 /\ Len(queue'[r]) = m - 1 /\ InHand(r)' = InHand(r)
      BY <2>3, <2>5, <2>7
    <3>2. pc'[r] = pc[r] /\ made'[r] = made[r]
      BY <1>3
    <3> QED BY <2>10, <3>1, <3>2, Zenon
  <2>9. Flowing(r)'
    BY <1>3, <1>5, <2>2, <2>3, <2>4, <2>5, <2>8 DEF Flowing
  <2> QED BY <2>4, <2>9 DEF StreamInv
<1>6. CASE Ending(r)
  <2>1. PICK m \in Nat, e \in Ends :
          /\ \/ pc[r] \in {"closing", "closed"} /\ Tells(queue[r], m, <<e>>)
             \/ pc[r] = "done" /\ Tells(queue[r], m, <<e, "sentinel">>)
          /\ e = "final" => n + m = made[r] /\ TrueFinal(r)
    BY <1>6 DEF Ending
  <2>2. Tells(frames[r], n, <<>>)
    BY <1>6 DEF Ending
  <2>3. \/ /\ m > 0 /\ m - 1 \in Nat /\ Head(queue[r]) = "delta"
           /\ \/ pc[r] \in {"closing", "closed"} /\ Tells(queue'[r], m - 1, <<e>>)
              \/ pc[r] = "done" /\ Tells(queue'[r], m - 1, <<e, "sentinel">>)
        \/ m = 0 /\ Head(queue[r]) = e /\ Drained(r)'
    BY <1>2, <1>3, <2>1, TellsTail, SMTT(40) DEF Drained
  <2>4. CASE m > 0 /\ Head(queue[r]) = "delta"
    <3>1. Send(r, "delta") /\ body'[r] = "send" /\ UNCHANGED <<stop, audit>>
      BY <1>1, <2>4, Takes DEF AnswerTypes
    <3>2. Tells(frames'[r], Len(frames'[r]), <<>>) /\ Len(frames'[r]) = n + 1
      BY <1>4, <2>2, <3>1
    <3>3. e = "final" => Len(frames'[r]) + (m - 1) = made'[r] /\ TrueFinal(r)'
      <4> HIDE DEF n
      <4> QED BY <1>2, <1>3, <2>1, <3>2 DEF TrueFinal
    <3>4. /\ m - 1 \in Nat
          /\ \/ pc'[r] \in {"closing", "closed"} /\ Tells(queue'[r], m - 1, <<e>>)
             \/ pc'[r] = "done" /\ Tells(queue'[r], m - 1, <<e, "sentinel">>)
      <4>1. pc' = pc /\ m # 0
        BY <1>3, <2>4
      <4> QED BY <2>3, <4>1
    <3>6. Ending(r)'
      <4> DEFINE k == m - 1
      <4>1. /\ k \in Nat
            /\ \/ pc'[r] \in {"closing", "closed"} /\ Tells(queue'[r], k, <<e>>)
               \/ pc'[r] = "done" /\ Tells(queue'[r], k, <<e, "sentinel">>)
            /\ e = "final" => Len(frames'[r]) + k = made'[r] /\ TrueFinal(r)'
        BY <3>3, <3>4
      <4> HIDE DEF k
      <4> QED BY <3>1, <3>2, <4>1 DEF Ending
    <3> QED BY <3>1, <3>6 DEF StreamInv
  <2>5. CASE m = 0 /\ Head(queue[r]) = e /\ Drained(r)'
    <3>1. \/ /\ e = "final" /\ frames'[r] = Append(frames[r], "citation")
             /\ body'[r] = "cite" /\ UNCHANGED <<stop, audit>>
          \/ /\ e = "final" /\ frames'[r] = Append(frames[r], "final")
             /\ body'[r] = "send" /\ UNCHANGED <<stop, audit>>
          \/ /\ e = "error" /\ frames'[r] = Append(frames[r], "error")
             /\ body'[r] = "failing" /\ UNCHANGED <<stop, audit>>
      BY <1>1, <2>5, Takes DEF AnswerTypes, Ends
    <3>2. pc'[r] \in Ended
      BY <2>5 DEF Drained, Ended
    <3>3. e = "final" => n = made'[r] /\ TrueFinal(r)'
      <4> HIDE DEF n
      <4> QED BY <1>2, <1>3, <2>1, <2>5 DEF TrueFinal
    <3>4. CASE e = "final" /\ frames'[r] = Append(frames[r], "citation")
      <4>1. Tells(frames'[r], made'[r], <<"citation">>)
        BY <1>2, <2>2, <3>3, <3>4, EndAppended, Named
      <4>2. body'[r] = "cite" /\ UNCHANGED <<stop, audit>>
        BY <3>1, <3>4, <1>2
      <4> QED BY <2>5, <3>3, <3>4, <4>1, <4>2 DEF Showing, StreamInv
    <3>5. CASE e = "final" /\ frames'[r] = Append(frames[r], "final")
      <4>1. Tells(frames'[r], made'[r], <<"final">>)
        BY <1>2, <2>2, <3>3, <3>5, EndAppended, Named
      <4>2. Shows(r, <<"final">>)'
        BY <1>2, <1>3, <3>2, <3>3, <3>5, <4>1 DEF Shows
      <4> QED BY <2>5, <3>1, <3>5, <4>2 DEF Showing, StreamInv, Finals
    <3>6. CASE e = "error"
      <4>1. Tells(frames'[r], n, <<"error">>)
        BY <1>2, <2>2, <3>1, <3>6, EndAppended, Named
      <4>2. Shows(r, <<"error">>)'
        BY <1>2, <4>1 DEF Shows, Finals
      <4> QED BY <3>1, <3>2, <3>6, <4>2 DEF Failing, StreamInv
    <3> QED BY <3>1, <3>4, <3>5, <3>6
  <2> QED BY <2>3, <2>4, <2>5
<1>7. CASE Showing(r)
  <2>1. Head(queue[r]) = "sentinel" /\ pc[r] = "done"
    <3>1. queue[r] = <<"sentinel">> /\ pc[r] = "done"
      BY <1>2, <1>7 DEF Showing, Drained
    <3> QED BY <3>1
  <2>2. EndBody(r, "ok") /\ UNCHANGED frames
    BY <1>1, <2>1, Takes
  <2>3. body'[r] = "over" /\ audit'[r] = "ok" /\ stop'[r]
    BY <1>1, <2>2 DEF EndBody, AnswerTypes
  <2>4. PICK end \in Finals : Shows(r, end)
    BY <1>2, <1>7 DEF Showing
  <2>5. Shows(r, end)'
    BY <1>3, <2>2, <2>4, ShowsStays
  <2> QED BY <1>3, <2>1, <2>3, <2>5 DEF Over, StreamInv
<1> QED BY <1>5, <1>6, <1>7

\* The body runs on after a frame: to the next item, the final frame or its end.
LEMMA ResumeKeeps ==
  ASSUME AnswerTypes, NEW r \in Streams, Resume(r), ~stop[r], audit[r] = "none",
         Flowing(r) \/ Ending(r) \/ Showing(r) \/ Failing(r)
  PROVE  StreamInv(r)'
<1>1. r \in Requests
  BY DEF Requests
<1>2. /\ frames[r] \in Seq(Shown) /\ made[r] \in Nat
      /\ UNCHANGED <<pc, made, hand, recorded, call, queue>>
  BY <1>1 DEF AnswerTypes, Resume, thread
<1>3. CASE body[r] = "send"
  <2>1. body'[r] = "await" /\ UNCHANGED <<stop, audit, frames>>
    BY <1>1, <1>3 DEF Resume, AnswerTypes
  <2>2. Flowing(r) => Flowing(r)'
    BY <1>2, <2>1 DEF Flowing, InHand
  <2>3. Ending(r) => Ending(r)'
    BY <1>2, <2>1 DEF Ending, TrueFinal
  <2>4. Showing(r) => Showing(r)'
    <3>1. \A end : Shows(r, end) => Shows(r, end)'
      BY <1>2, <2>1, ShowsStays
    <3> QED BY <1>2, <1>3, <2>1, <3>1 DEF Showing, Drained
  <2> QED BY <1>3, <2>1, <2>2, <2>3, <2>4 DEF StreamInv, Failing
<1>4. CASE body[r] = "cite"
  <2>1. /\ body'[r] = "send" /\ frames'[r] = Append(frames[r], "final") /\ UNCHANGED <<stop, audit>>
    BY <1>1, <1>4 DEF Resume, Yield, Send, AnswerTypes
  <2>2. Drained(r) /\ Tells(frames[r], made[r], <<"citation">>) /\ TrueFinal(r)
    BY <1>4 DEF Flowing, Ending, Showing, Failing
  <2>3. Tells(frames'[r], made[r], <<"citation", "final">>)
    BY <1>2, <2>1, <2>2, EndAppended, Named
  <2>4. Shows(r, <<"citation", "final">>)'
    BY <1>2, <2>2, <2>3 DEF Shows, TrueFinal, Drained, Ended
  <2> QED BY <1>2, <2>1, <2>2, <2>4 DEF Showing, Drained, Finals, StreamInv
<1>5. CASE body[r] = "failing"
  <2>1. body'[r] = "over" /\ audit'[r] = "error" /\ frames' = frames
    BY <1>1, <1>5 DEF Resume, EndBody, AnswerTypes
  <2>2. Shows(r, <<"error">>) /\ pc[r] \in Ended
    BY <1>5 DEF Flowing, Ending, Showing, Failing
  <2>3. Shows(r, <<"error">>)'
    BY <1>2, <2>1, <2>2, ShowsStays
  <2> QED BY <1>2, <2>1, <2>2, <2>3 DEF Over, Ended, StreamInv
<1> QED BY <1>3, <1>4, <1>5 DEF Resume

\* A heartbeat changes nothing that the client is told.
LEMMA HeartbeatKeeps ==
  ASSUME AnswerTypes, NEW r \in Streams, Heartbeat(r), ~stop[r], audit[r] = "none",
         Flowing(r) \/ Ending(r) \/ Showing(r)
  PROVE  StreamInv(r)'
<1>1. body[r] = "await" /\ body'[r] = "send"
  BY DEF Heartbeat, AnswerTypes, Requests
<1>2. UNCHANGED <<pc, made, hand, recorded, call, queue, stop, audit, frames>>
  BY DEF Heartbeat, thread
<1>3. Flowing(r) => Flowing(r)'
  BY <1>1, <1>2 DEF Flowing, InHand
<1>4. Ending(r) => Ending(r)'
  BY <1>1, <1>2 DEF Ending, TrueFinal
<1>5. Showing(r) => Showing(r)'
  <2>1. \A end : Shows(r, end) => Shows(r, end)'
    BY <1>2, ShowsStays
  <2> QED BY <1>1, <1>2, <2>1 DEF Showing, Drained
<1> QED BY <1>1, <1>2, <1>3, <1>4, <1>5 DEF StreamInv

\* Whatever the client has been told when it leaves is a true beginning.
LEMMA LeaveKeeps ==
  ASSUME AnswerTypes, NEW r \in Streams, Leave(r), ~stop[r], audit[r] = "none",
         Flowing(r) \/ Ending(r) \/ Showing(r) \/ Failing(r)
  PROVE  StreamInv(r)'
<1>1. r \in Requests
  BY DEF Requests
<1>2. /\ frames[r] \in Seq(Shown) /\ made[r] \in Nat
      /\ UNCHANGED <<pc, made, hand, recorded, call, queue, frames>>
  BY <1>1 DEF AnswerTypes, Leave, thread
<1>3. \A end : Shows(r, end) => Shows(r, end)'
  BY <1>2, ShowsStays
<1>4. CASE Failing(r)
  <2>1. body'[r] = "over" /\ audit'[r] = "error"
    BY <1>1, <1>4 DEF Leave, Failing, EndBody, AnswerTypes
  <2> QED BY <1>2, <1>3, <1>4, <2>1 DEF Failing, Over, Ended, StreamInv
<1>5. CASE ~Failing(r)
  <2>1. body[r] \in {"await", "send", "cite"} /\ pc[r] \notin {"new", "built"}
    BY <1>5 DEF Flowing, Ending, Showing, Drained
  <2>2. body'[r] = "over" /\ audit'[r] = "client_disconnected"
    BY <1>1, <2>1 DEF Leave, EndBody, AnswerTypes
  <2>3. \E end \in Finals \cup {<<>>, <<"citation">>} : Shows(r, end)
    <3>1. CASE Flowing(r) \/ Ending(r)
      <4>1. Tells(frames[r], Len(frames[r]), <<>>)
        BY <3>1 DEF Flowing, Ending
      <4>3. Len(frames[r]) \in Nat
        BY <1>2
      <4>2. <<>> \notin Finals
        BY DEF Finals
      <4> QED BY <4>1, <4>2, <4>3 DEF Shows
    <3>2. CASE Showing(r) /\ body[r] = "cite"
      <4>1. Tells(frames[r], made[r], <<"citation">>)
        BY <3>2 DEF Showing
      <4>2. <<"citation">> \notin Finals
        BY DEF Finals
      <4> QED BY <1>2, <4>1, <4>2 DEF Shows
    <3>3. CASE Showing(r) /\ body[r] # "cite"
      BY <3>3 DEF Showing
    <3> QED BY <1>5, <3>1, <3>2, <3>3
  <2> QED BY <1>2, <1>3, <2>1, <2>2, <2>3 DEF Over, StreamInv
<1> QED BY <1>4, <1>5

\* A streamed answer is told truly from the request to the end of its body.
LEMMA StreamKeeps ==
  ASSUME AnswerTypes, NEW r \in Streams, ThreadInv(r), StreamInv(r), Step(r)
  PROVE  StreamInv(r)'
<1>1. CASE Unstarted(r)
  BY <1>1, UnstartedKeeps DEF StreamInv, Unstarted
<1>2. CASE ~Unstarted(r) /\ Prepare(r)
  BY <1>2 DEF StreamInv, Flowing, Ending, Showing, Drained, Failing, Over, Ended, Prepare, Reject,
              BuildLLM, BadRequest, Accept
<1>3. CASE ~Unstarted(r) /\ (Generate(r) \/ Produce(r))
  <2>1. UNCHANGED <<stop, body, frames, audit>>
    BY <1>3, ThreadAside
  <2>2. body[r] # "over" => ~stop[r]
    BY DEF StreamInv
  <2>3. CASE Over(r) \/ Failing(r)
    BY <1>3, <2>1, <2>3, DeafKeeps DEF StreamInv
  <2>4. CASE Flowing(r)
    BY <1>3, <2>1, <2>2, <2>4, FlowKeeps DEF StreamInv, Flowing
  <2>5. CASE Ending(r) \/ Showing(r)
    BY <1>3, <2>1, <2>2, <2>5, EndKeeps DEF StreamInv, Ending, Showing
  <2> QED BY <1>3, <2>3, <2>4, <2>5 DEF StreamInv
<1>4. CASE ~Unstarted(r) /\ (Consume(r) \/ Leave(r))
  <2>1. body[r] \notin {"over", "none", "unread"}
    <3>1. body[r] \notin {"over", "none"}
      BY <1>4 DEF Consume, OpenBody, Take, Resume, Heartbeat, Leave
    <3> QED BY <1>4, <3>1 DEF StreamInv, Flowing, Ending, Showing, Failing, Over
  <2>2. ~stop[r] /\ audit[r] = "none" /\ ~Over(r)
    BY <2>1 DEF StreamInv, Over
  <2>3. CASE Take(r)
    BY <1>4, <2>2, <2>3, TakeKeeps DEF StreamInv, Failing, Take
  <2>4. CASE Resume(r)
    BY <1>4, <2>2, <2>4, ResumeKeeps DEF StreamInv
  <2>5. CASE Heartbeat(r)
    BY <1>4, <2>2, <2>5, HeartbeatKeeps DEF StreamInv, Failing, Heartbeat
  <2>6. CASE Leave(r)
    BY <1>4, <2>2, <2>6, LeaveKeeps DEF StreamInv
  <2> QED BY <1>4, <2>1, <2>3, <2>4, <2>5, <2>6 DEF Consume, OpenBody
<1> QED BY <1>1, <1>2, <1>3, <1>4 DEF Step

-----------------------------------------------------------------------------
(* The invariant.                                                          *)

\* A request that is not streamed has no body, and gets one envelope or answer.
PlainInv(r) ==
  /\ body[r] = "none"
  /\ \A i \in DOMAIN frames[r] : frames[r][i] \in {"http_error", "answer"}

AnswerInv ==
  /\ AnswerTypes
  /\ BreakerInv /\ Tally
  /\ \A r \in Requests : ThreadInv(r) /\ StopInv(r) /\ TimeInv(r)
  /\ \A r \in Streams : StreamInv(r)
  /\ \A r \in Requests \ Streams : PlainInv(r)

\* Only an envelope or an answer goes to a request that is not streamed.
LEMMA PlainKeeps ==
  ASSUME AnswerTypes, NEW r \in Requests \ Streams, PlainInv(r), Step(r)
  PROVE  PlainInv(r)'
<1>1. Prepare(r) \/ Generate(r)
  BY DEF Step
<1>2. body' = body /\ (frames' = frames \/ \E x \in {"http_error", "answer"} : Send(r, x))
  <2>1. CASE Prepare(r)
    BY <2>1 DEF Prepare, Reject, BuildLLM, BadRequest, Accept, stream
  <2>2. CASE Generate(r)
    BY <2>2 DEF Generate, RetrievalFails, Refuse, StartCall, CallSucceeds, CallFailsForGood,
                CallFails, Wake, GiveUp, Raise, stream
  <2> QED BY <1>1, <2>1, <2>2
<1>3. ASSUME NEW x \in {"http_error", "answer"}, Send(r, x)
      PROVE  \A i \in DOMAIN frames'[r] : frames'[r][i] \in {"http_error", "answer"}
  <2>1. frames'[r] = Append(frames[r], x) /\ frames[r] \in Seq(Shown)
    BY <1>3 DEF Send, AnswerTypes
  <2> DEFINE f == frames[r]
  <2>2. f \in Seq(Shown) /\ \A i \in DOMAIN f : f[i] \in {"http_error", "answer"}
    BY <2>1 DEF PlainInv
  <2> HIDE DEF f
  <2>3. \A i \in DOMAIN Append(f, x) : Append(f, x)[i] \in {"http_error", "answer"}
    BY <2>2
  <2> QED BY <2>1, <2>3 DEF f
<1> QED BY <1>2, <1>3 DEF PlainInv

\* The first state has the invariant.
LEMMA AnswerBegins == Init => AnswerInv
<1> SUFFICES ASSUME Init PROVE AnswerInv
  OBVIOUS
<1>1. AnswerTypes
  BY AnswerTypesBegin
<1>2. Told("success") = {} /\ Told("failure") = {}
  BY DEF Init, Told
<1>3. Before \in 0 .. Threshold - 1 /\ Threshold \in Nat
  BY AnswerAssumption
<1>4. Tally
  <2>1. Cardinality(Told("success")) = 0 /\ Cardinality(Told("failure")) = 0
    BY <1>2, FS_EmptySet, Zenon
  <2>2. health.succeeded = 0 /\ health.failed = Before
    BY DEF Init
  <2> QED BY <1>3, <2>1, <2>2 DEF Tally
<1>5. BreakerInv
  BY <1>3 DEF BreakerInv, Init
<1>6. ASSUME NEW r \in Requests PROVE ThreadInv(r) /\ StopInv(r) /\ TimeInv(r)
  BY DEF Init, ThreadInv, StopInv, TimeInv, Unasked, Trying, Ended
<1>7. ASSUME NEW r \in Streams PROVE StreamInv(r)
  BY DEF Init, StreamInv, Unstarted, Requests
<1>8. ASSUME NEW r \in Requests \ Streams PROVE PlainInv(r)
  BY DEF Init, PlainInv
<1> QED BY <1>1, <1>4, <1>5, <1>6, <1>7, <1>8 DEF AnswerInv

\* A request that took no step is told and held as before.
LEMMA FrameKeeps ==
  ASSUME NEW q, Same(q)
  PROVE  /\ ThreadInv(q) => ThreadInv(q)'
         /\ StopInv(q) => StopInv(q)'
         /\ StreamInv(q) => StreamInv(q)'
         /\ PlainInv(q) => PlainInv(q)'
<1> USE DEF Same
<1>1. (ThreadInv(q) => ThreadInv(q)') /\ (StopInv(q) => StopInv(q)')
  BY DEF ThreadInv, TrueFinal, StopInv
<1>2. PlainInv(q) => PlainInv(q)'
  BY DEF PlainInv
<1>3. TrueFinal(q) <=> TrueFinal(q)'
  BY DEF TrueFinal
<1>4. \A end : Shows(q, end) <=> Shows(q, end)'
  BY <1>3 DEF Shows
<1>5. (Unstarted(q) => Unstarted(q)') /\ (Flowing(q) => Flowing(q)') /\ (Ending(q) => Ending(q)')
  BY <1>3 DEF Unstarted, Flowing, InHand, Ending
<1>6. (Showing(q) => Showing(q)') /\ (Failing(q) => Failing(q)') /\ (Over(q) => Over(q)')
  BY <1>3, <1>4 DEF Showing, Drained, Failing, Over
<1>7. StreamInv(q) => StreamInv(q)'
  BY <1>5, <1>6 DEF StreamInv
<1> QED BY <1>1, <1>2, <1>7

\* The same while the clock stands.
LEMMA SameKeeps ==
  ASSUME NEW q, Same(q), clock' = clock
  PROVE  /\ ThreadInv(q) => ThreadInv(q)'
         /\ StopInv(q) => StopInv(q)'
         /\ TimeInv(q) => TimeInv(q)'
         /\ StreamInv(q) => StreamInv(q)'
         /\ PlainInv(q) => PlainInv(q)'
<1>1. TimeInv(q) => TimeInv(q)'
  BY DEF TimeInv, Same
<1> QED BY <1>1, FrameKeeps

\* Every step of the program keeps the invariant.
LEMMA AnswerKeeps == AnswerInv /\ [Next]_vars => AnswerInv'
<1> SUFFICES ASSUME AnswerInv, [Next]_vars PROVE AnswerInv'
  OBVIOUS
<1>1. /\ AnswerTypes /\ BreakerInv /\ Tally
      /\ \A r \in Requests : ThreadInv(r) /\ StopInv(r) /\ TimeInv(r)
      /\ \A r \in Streams : StreamInv(r)
      /\ \A r \in Requests \ Streams : PlainInv(r)
  BY DEF AnswerInv
<1>2. ASSUME NEW r \in Requests, Step(r) PROVE AnswerInv'
  <2>1. AnswerTypes' /\ (\A q \in Requests \ {r} : Same(q)) /\ clock' = clock
    BY <1>1, <1>2, StepTypes
  <2>2. body[r] = "unread" => pc[r] = "returned"
    <3>1. CASE r \in Streams
      BY <1>1, <3>1 DEF StreamInv, Unstarted, Flowing, Ending, Showing, Failing, Over
    <3>2. CASE r \notin Streams
      BY <1>1, <3>2 DEF PlainInv
    <3> QED BY <3>1, <3>2
  <2>3. BreakerInv' /\ Tally'
    <3>1. CASE UNCHANGED <<recorded, health>>
      BY <1>1, <3>1 DEF BreakerInv, Tally, Told
    <3>2. CASE recorded[r] = "none" /\ \E o \in {"success", "failure"} : Report(r, o)
      <4>1. Tally' /\ health' \in {health, RecordSuccess(health), RecordFailure(health)}
        BY <1>1, <3>2, TallyMoves
      <4>2. BreakerInv'
        <5>1. CASE health' = health
          BY <1>1, <5>1 DEF BreakerInv
        <5>2. CASE health' # health
          BY <1>1, <4>1, <5>2, BreakerMoves
        <5> QED BY <5>1, <5>2
      <4> QED BY <4>1, <4>2
    <3> QED BY <1>1, <1>2, <3>1, <3>2, StepReports
  <2>4. \A q \in Requests : ThreadInv(q)' /\ StopInv(q)' /\ TimeInv(q)'
    <3>1. ThreadInv(r)' /\ StopInv(r)' /\ TimeInv(r)'
      BY <1>1, <1>2, <2>2, ThreadKeeps, StopKeeps, TimeKeeps
    <3>2. \A q \in Requests \ {r} : ThreadInv(q)' /\ StopInv(q)' /\ TimeInv(q)'
      BY <1>1, <2>1, SameKeeps
    <3> QED BY <3>1, <3>2
  <2>5. \A q \in Streams : StreamInv(q)'
    <3>1. r \in Streams => StreamInv(r)'
      BY <1>1, <1>2, StreamKeeps
    <3>2. \A q \in Streams : q # r => StreamInv(q)'
      BY <1>1, <2>1, SameKeeps DEF Requests
    <3> QED BY <3>1, <3>2
  <2>6. \A q \in Requests \ Streams : PlainInv(q)'
    <3>1. r \notin Streams => PlainInv(r)'
      BY <1>1, <1>2, PlainKeeps
    <3>2. \A q \in Requests \ Streams : q # r => PlainInv(q)'
      BY <1>1, <2>1, SameKeeps
    <3> QED BY <3>1, <3>2
  <2> QED BY <2>1, <2>3, <2>4, <2>5, <2>6 DEF AnswerInv
<1>3. CASE Tick
  <2>1. \A q : Same(q)
    BY <1>3 DEF Tick, thread, stream, Same
  <2>2. \A q \in Requests : TimeInv(q)'
    BY <1>1, <1>3, TickKeeps
  <2>3. AnswerTypes' /\ BreakerInv' /\ Tally'
    BY <1>1, <1>3 DEF Tick, thread, stream, AnswerTypes, BreakerInv, Tally, Told
  <2>4. \A q \in Requests : ThreadInv(q)' /\ StopInv(q)'
    BY <1>1, <2>1, FrameKeeps
  <2>5. (\A q \in Streams : StreamInv(q)') /\ (\A q \in Requests \ Streams : PlainInv(q)')
    BY <1>1, <2>1, FrameKeeps
  <2> QED BY <2>2, <2>3, <2>4, <2>5 DEF AnswerInv
<1>4. CASE Snapshot
  <2>1. (\A q : Same(q)) /\ clock' = clock
    BY <1>4 DEF Snapshot, thread, stream, Same
  <2>2. BreakerInv' /\ Tally' /\ health' \in Health
    BY <1>1, <1>4, SnapshotKeeps
  <2>3. AnswerTypes'
    BY <1>1, <1>4, <2>2 DEF Snapshot, thread, stream, AnswerTypes
  <2> QED BY <1>1, <2>1, <2>2, <2>3, SameKeeps DEF AnswerInv
<1>5. CASE UNCHANGED vars
  <2>1. (\A q : Same(q)) /\ clock' = clock
    BY <1>5 DEF vars, thread, stream, Same
  <2>2. AnswerTypes' /\ BreakerInv' /\ Tally'
    BY <1>1, <1>5 DEF vars, thread, stream, AnswerTypes, BreakerInv, Tally, Told
  <2> QED BY <1>1, <2>1, <2>2, SameKeeps DEF AnswerInv
<1>6. CASE Next
  <2>1. \/ Tick \/ Snapshot \/ UNCHANGED vars
        \/ \E r \in Requests : Step(r)
    BY <1>6 DEF Next, AllDone, Step, Requests
  <2> QED BY <1>2, <1>3, <1>4, <1>5, <2>1
<1> QED BY <1>5, <1>6

\* Every state of the program satisfies the invariant.
THEOREM AnswerInvariant == Spec => []AnswerInv
<1>1. Init => AnswerInv
  BY AnswerBegins
<1>2. AnswerInv /\ [Next]_vars => AnswerInv'
  BY AnswerKeeps
<1> QED BY <1>1, <1>2, PTL DEF Spec

-----------------------------------------------------------------------------
(* What the runs check, for every value of the constants.                  *)

\* StopsWithinOneEvent: once a body has ended, its provider produces at most one
\* more event for it (the producer thread of routes/rag.py).
THEOREM StoppedWithinOneEvent == Spec => []StopsWithinOneEvent
<1>1. AnswerInv => StopsWithinOneEvent
  BY DEF AnswerInv, StopInv, StopsWithinOneEvent, Requests
<1> QED BY <1>1, AnswerInvariant, PTL

\* CallBounded: no attempt begins at or past the deadline, and none outlasts the
\* SDK's time-out (resilient_call of core/resilience.py).
THEOREM CallsBounded == Spec => []CallBounded
<1>1. AnswerInv => CallBounded
  <2> SUFFICES ASSUME AnswerInv, NEW r \in Requests, pc[r] \in {"calling", "sleeping"}
               PROVE  clock - call[r].started < Deadline + Timeout
    BY DEF CallBounded
  <2>1. call[r].at \in Nat /\ call[r].started \in Nat /\ clock \in Nat
    BY DEF AnswerInv, AnswerTypes, Calls
  <2>2. TimeInv(r)
    BY DEF AnswerInv
  <2> QED BY <2>1, <2>2, AnswerAssumption DEF TimeInv
<1> QED BY <1>1, AnswerInvariant, PTL

\* What a sequence of text and an end has in it, and where.
LEMMA TellsWhere ==
  ASSUME NEW s \in Seq(Shown), NEW n \in Nat, NEW end, Tells(s, n, end),
         end \in Finals \cup {<<>>, <<"citation">>, <<"error">>}
  PROVE  /\ \A i \in DOMAIN s : s[i] \in Ends => i = Len(s)
         /\ \A i \in DOMAIN s : s[i] = "citation" => \A j \in i + 1 .. Len(s) : s[j] = "final"
         /\ "final" \in {s[i] : i \in DOMAIN s} => end \in Finals
         /\ {i \in DOMAIN s : s[i] = "delta"} = 1..n
         /\ end \in Finals => s # <<>> /\ s[Len(s)] = "final"
         /\ end = <<"error">> => s # <<>> /\ s[Len(s)] = "error"
<1>1. DOMAIN s = 1..Len(s) /\ Len(s) \in Nat
  OBVIOUS
<1>2. CASE end = <<>>
  <2>1. Len(s) = n /\ \A i \in 1..n : s[i] = "delta"
    BY <1>2 DEF Tells
  <2> QED BY <1>1, <1>2, <2>1 DEF Ends, Finals
<1>3. CASE end \in {<<"citation">>, <<"error">>, <<"final">>}
  <2>1. PICK e \in {"citation", "error", "final"} : end = <<e>>
    BY <1>3
  <2>2. Len(s) = n + 1 /\ s[n + 1] = e /\ \A i \in 1..n : s[i] = "delta"
    BY <2>1 DEF Tells
  <2>3. (end \in Finals <=> e = "final") /\ (end = <<"error">> <=> e = "error")
    BY <2>1 DEF Finals
  <2> QED BY <1>1, <2>2, <2>3 DEF Ends
<1>4. CASE end = <<"citation", "final">>
  <2>1. /\ Len(s) = n + 2 /\ s[n + 1] = "citation" /\ s[n + 2] = "final"
        /\ \A i \in 1..n : s[i] = "delta"
    BY <1>4 DEF Tells
  <2>2. end \in Finals /\ end # <<"error">>
    BY <1>4 DEF Finals
  <2> QED BY <1>1, <2>1, <2>2 DEF Ends
<1> QED BY <1>2, <1>3, <1>4 DEF Finals

\* What a stream has been sent is text and an end that agrees with its audit line;
\* or nothing but an envelope.
LEMMA ToldSoFar ==
  ASSUME AnswerInv, NEW r \in Streams
  PROVE  \/ frames[r] = <<"http_error">> /\ audit[r] = "none"
         \/ \E end \in Finals \cup {<<>>, <<"citation">>, <<"error">>} :
              /\ Shows(r, end)
              /\ audit[r] = "ok" => end \in Finals
              /\ audit[r] = "error" => end = <<"error">>
<1>1. StreamInv(r) /\ r \in Requests
  BY DEF AnswerInv, Requests
<1>2. frames[r] \in Seq(Shown) /\ made[r] \in Nat
  BY <1>1 DEF AnswerInv, AnswerTypes
<1>3. <<>> \notin Finals /\ <<"citation">> \notin Finals /\ <<"error">> \notin Finals
  BY DEF Finals
<1>4. CASE Unstarted(r)
  <2>1. audit[r] = "none"
    BY <1>1, <1>4 DEF StreamInv, Unstarted
  <2>2. frames[r] = <<>> => Shows(r, <<>>)
    BY <1>3 DEF Shows, Tells
  <2> QED BY <1>4, <2>1, <2>2 DEF Unstarted
<1>5. CASE Flowing(r) \/ Ending(r)
  <2>1. audit[r] = "none"
    BY <1>1, <1>5 DEF StreamInv, Flowing, Ending
  <2>2. Tells(frames[r], Len(frames[r]), <<>>)
    BY <1>5 DEF Flowing, Ending
  <2>3. Len(frames[r]) \in Nat
    BY <1>2
  <2> QED BY <1>3, <2>1, <2>2, <2>3 DEF Shows
<1>6. CASE Showing(r)
  <2>1. audit[r] = "none"
    BY <1>1, <1>6 DEF StreamInv, Showing
  <2>2. Tells(frames[r], made[r], <<"citation">>) => Shows(r, <<"citation">>)
    BY <1>2, <1>3 DEF Shows
  <2> QED BY <1>6, <2>1, <2>2 DEF Showing
<1>7. CASE Failing(r)
  BY <1>1, <1>7 DEF StreamInv, Failing
<1>8. CASE Over(r)
  BY <1>8 DEF Over
<1> QED BY <1>1, <1>4, <1>5, <1>6, <1>7, <1>8 DEF StreamInv

\* FramesTellTheTruth: a stream is text, citations and one final frame after all
\* the text, or an error frame, and its audit line agrees (_event_stream of
\* routes/rag.py).
THEOREM FramesToldTruly == Spec => []FramesTellTheTruth
<1>1. AnswerInv => FramesTellTheTruth
  <2> SUFFICES ASSUME AnswerInv, NEW r \in Streams
               PROVE  /\ \A i \in DOMAIN frames[r] : frames[r][i] \in Ends => i = Len(frames[r])
                      /\ \A i \in DOMAIN frames[r] : frames[r][i] = "citation" =>
                           \A j \in i + 1 .. Len(frames[r]) : frames[r][j] = "final"
                      /\ "final" \in {frames[r][i] : i \in DOMAIN frames[r]} =>
                           Count(frames[r], "delta") = made[r]
                      /\ audit[r] = "ok" => frames[r] # <<>> /\ frames[r][Len(frames[r])] = "final"
                      /\ audit[r] = "error" => frames[r] # <<>> /\ frames[r][Len(frames[r])] = "error"
    BY DEF FramesTellTheTruth
  <2> DEFINE s == frames[r]
  <2>1. s \in Seq(Shown) /\ made[r] \in Nat
    BY DEF AnswerInv, AnswerTypes, Requests
  <2>2. CASE s = <<"http_error">> /\ audit[r] = "none"
    <3>1. DOMAIN s = {1} /\ s[1] = "http_error"
      BY <2>2
    <3> QED BY <2>2, <3>1 DEF Ends
  <2>3. ASSUME NEW end \in Finals \cup {<<>>, <<"citation">>, <<"error">>}, Shows(r, end),
               audit[r] = "ok" => end \in Finals, audit[r] = "error" => end = <<"error">>
        PROVE  /\ \A i \in DOMAIN s : s[i] \in Ends => i = Len(s)
               /\ \A i \in DOMAIN s : s[i] = "citation" => \A j \in i + 1 .. Len(s) : s[j] = "final"
               /\ "final" \in {s[i] : i \in DOMAIN s} => Count(s, "delta") = made[r]
               /\ audit[r] = "ok" => s # <<>> /\ s[Len(s)] = "final"
               /\ audit[r] = "error" => s # <<>> /\ s[Len(s)] = "error"
    <3>1. PICK n \in Nat : Tells(s, n, end) /\ (end \in Finals => n = made[r])
      BY <2>3 DEF Shows
    <3> HIDE DEF s
    <3>2. Cardinality(1..n) = n
      BY <3>1, FS_Interval
    <3>3. Count(s, "delta") = n
      BY <2>1, <3>1, <3>2, TellsWhere DEF Count
    <3> QED BY <2>1, <2>3, <3>1, <3>3, TellsWhere
  <2> QED BY <2>2, <2>3, ToldSoFar
<1> QED BY <1>1, AnswerInvariant, PTL

\* HealthSound: the breaker is closed exactly while the run of failures is below
\* the threshold, and the registry's totals are the outcomes of the calls that
\* ended (core/provider_health.py, reported by rag/orchestrator.py).
THEOREM HealthTold == Spec => []HealthSound
<1>1. AnswerInv => HealthSound
  <2> SUFFICES ASSUME AnswerInv PROVE BreakerMatchesRun /\ OutcomesCounted
    BY DEF HealthSound
  <2>1. BreakerMatchesRun
    BY AnswerAssumption DEF AnswerInv, AnswerTypes, Health, BreakerInv, BreakerMatchesRun
  <2>2. ASSUME NEW r \in Requests, frames[r] # <<>>, frames[r][Len(frames[r])] = "final"
        PROVE  TrueFinal(r)
    <3>1. frames[r] \in Seq(Shown)
      BY DEF AnswerInv, AnswerTypes
    <3>2. Len(frames[r]) \in DOMAIN frames[r]
      BY <2>2, <3>1
    <3>3. r \in Streams
      BY <2>2, <3>2 DEF AnswerInv, PlainInv
    <3>4. CASE frames[r] = <<"http_error">>
      BY <2>2, <3>4
    <3>5. ASSUME NEW end \in Finals \cup {<<>>, <<"citation">>, <<"error">>}, Shows(r, end)
          PROVE  TrueFinal(r)
      <4>1. PICK n \in Nat : Tells(frames[r], n, end) /\ (end \in Finals => TrueFinal(r))
        BY <3>5 DEF Shows
      <4>2. end \in Finals
        BY <2>2, <3>1, <3>2, <4>1, TellsWhere
      <4> QED BY <4>1, <4>2
    <3> QED BY <3>3, <3>4, <3>5, ToldSoFar
  <2> QED BY <2>1, <2>2 DEF AnswerInv, Tally, Told, OutcomesCounted, TrueFinal
<1> QED BY <1>1, AnswerInvariant, PTL
=============================================================================
