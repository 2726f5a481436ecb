-------------------------- MODULE TaskStreamProofs ---------------------------
(***************************************************************************)
(* Proofs about the progress stream of a task, for any number of viewers,  *)
(* frames and places in the queue.                                         *)
(***************************************************************************)
EXTENDS TaskStream, TLAPS

\* Appending to a sequence, entry by entry.
LEMMA Appended ==
  ASSUME NEW S, NEW s \in Seq(S), NEW e \in S
  PROVE  /\ Append(s, e) \in Seq(S) /\ Len(Append(s, e)) = Len(s) + 1
         /\ Append(s, e)[Len(s) + 1] = e
         /\ \A i \in 1..Len(s) : Append(s, e)[i] = s[i]
  OBVIOUS

\* Taking the head off a sequence, entry by entry.
LEMMA Tailed ==
  ASSUME NEW S, NEW s \in Seq(S), s # <<>>
  PROVE  /\ Tail(s) \in Seq(S) /\ Len(Tail(s)) = Len(s) - 1 /\ Len(s) \in Nat \ {0}
         /\ Head(s) = s[1] /\ Head(s) \in S /\ 1 \in 1..Len(s)
         /\ \A i \in 1..Len(Tail(s)) : Tail(s)[i] = s[i + 1] /\ i + 1 \in 1..Len(s)
  OBVIOUS

\* The task begins with nothing pushed.
LEMMA InvHolds == StreamInit => StreamInv
<1> SUFFICES ASSUME StreamInit PROVE StreamInv
  OBVIOUS
<1> USE StreamAssumption DEF StreamInit
<1>1. \A q \in Queues : content[q] = <<>>
  OBVIOUS
<1>2. BufferTypes
  <2>1. <<>> \in Seq(Frames) /\ <<>> \in Seq(Callbacks)
    OBVIOUS
  <2>2. content \in [Queues -> Seq(Frames)] /\ scheduled \in Seq(Callbacks)
    BY <2>1
  <2>3. mine \in [Viewers -> {"none"} \cup Queues] /\ pushed \in 0..MaxFrames
    OBVIOUS
  <2> QED BY <2>2, <2>3 DEF BufferTypes
<1>3. EndIsLast
  BY <1>1 DEF EndIsLast
<1>4. QueueBounded
  BY <1>1 DEF QueueBounded
<1> QED BY <1>2, <1>3, <1>4 DEF StreamInv, TerminalKept

\* The worker: only Schedule touches what is buffered, and it appends.
LEMMA WorkerKeeps == StreamInv /\ Worker => StreamInv'
<1> SUFFICES ASSUME StreamInv, Worker PROVE StreamInv'
  OBVIOUS
<1> USE StreamAssumption DEF StreamInv, BufferTypes, EndIsLast, QueueBounded, TerminalKept, viewerVars
<1>1. CASE Work
  <2>1. pushed' \in 1..MaxFrames /\ wpc' = "see"
    BY <1>1 DEF Work
  <2> QED BY <1>1, <2>1 DEF Work
<1>2. CASE MarkTerminal
  BY <1>2 DEF MarkTerminal
<1>3. CASE SaveRow
  <2>1. wpc' = "see" /\ ended
    BY <1>3 DEF SaveRow
  <2> QED BY <1>3, <2>1 DEF SaveRow
<1>4. CASE SeeQueue
  BY <1>4 DEF SeeQueue
<1>5. CASE MakeQueue
  BY <1>5 DEF MakeQueue, Queues
<1>6. CASE Schedule
  <2>1. /\ scheduled' = Append(scheduled, Callback)
        /\ wpc = "schedule" /\ wpc' = IF ended THEN "done" ELSE "work"
        /\ UNCHANGED <<pushed, ended, queue, content, mine, lost>>
    BY <1>6 DEF Schedule
  <2>2. /\ Callback \in Callbacks
        /\ Callback.frame = End => ended
    BY <2>1 DEF Callback, Callbacks, Queues, Frames, End
  <2>3. /\ Append(scheduled, Callback) \in Seq(Callbacks)
        /\ Len(Append(scheduled, Callback)) = Len(scheduled) + 1
        /\ Append(scheduled, Callback)[Len(scheduled) + 1] = Callback
        /\ \A i \in 1..Len(scheduled) : Append(scheduled, Callback)[i] = scheduled[i]
    BY <2>2, Appended
  <2>4. BufferTypes'
    BY <2>1, <2>3
  <2>5. EndIsLast'
    BY <2>1, <2>2, <2>3
  <2> QED BY <2>1, <2>4, <2>5
<1> QED BY <1>1, <1>2, <1>3, <1>4, <1>5, <1>6 DEF Worker

\* The loop drops the oldest frame, and never the terminal one: once that is
\* in a queue, no callback is left to push it out.
LEMMA PutKeeps == StreamInv /\ Put => StreamInv'
<1> SUFFICES ASSUME StreamInv, Put PROVE StreamInv'
  OBVIOUS
<1> DEFINE q == Head(scheduled).to
           f == Head(scheduled).frame
<1> USE StreamAssumption DEF StreamInv, BufferTypes, EndIsLast, QueueBounded, TerminalKept
<1>1. /\ scheduled # <<>> /\ PutDroppingOldest(q, f) /\ scheduled' = Tail(scheduled)
      /\ UNCHANGED <<pushed, ended, wpc, queue, mine>>
  BY DEF Put, workerVars, viewerVars
<1>2. /\ Tail(scheduled) \in Seq(Callbacks) /\ Len(Tail(scheduled)) = Len(scheduled) - 1
      /\ Len(scheduled) \in Nat \ {0}
      /\ Head(scheduled) = scheduled[1] /\ Head(scheduled) \in Callbacks
      /\ \A i \in 1..Len(Tail(scheduled)) : Tail(scheduled)[i] = scheduled[i + 1]
  BY <1>1, Tailed
<1>3. q \in Queues /\ f \in Frames
  BY <1>2 DEF Callbacks
<1>4. f = End => Len(Tail(scheduled)) = 0 /\ wpc = "done"
  <2>1. 1 \in 1..Len(scheduled)
    BY <1>1, Tailed, Zenon
  <2>2. f = scheduled[1].frame
    BY <1>2, Zenon
  <2>3. scheduled[1].frame = End => 1 = Len(scheduled) /\ wpc = "done"
    BY <2>1
  <2>4. Len(scheduled) = 1 => Len(Tail(scheduled)) = 0
    BY <1>2
  <2> QED BY <2>2, <2>3, <2>4
<1>5. \A p \in Queues : \A i \in 1..Len(content[p]) : content[p][i] # End
  BY <1>2
<1>6. content[q] \in Seq(Frames)
  BY <1>3
<1>7. \A i \in 1..Len(scheduled') :
        scheduled'[i].frame = End => i = Len(scheduled') /\ wpc = "done"
  <2>1. SUFFICES ASSUME NEW i \in 1..Len(Tail(scheduled)), Tail(scheduled)[i].frame = End
                 PROVE  i = Len(Tail(scheduled)) /\ wpc = "done"
    BY <1>1, Zenon
  <2>2. Tail(scheduled)[i] = scheduled[i + 1] /\ i + 1 \in 1..Len(scheduled)
    BY <1>1, Tailed, Zenon
  <2>3. i + 1 = Len(scheduled) /\ wpc = "done"
    BY <2>1, <2>2, Zenon
  <2>4. Len(scheduled) \in Nat \ {0} /\ Len(Tail(scheduled)) = Len(scheduled) - 1
    BY <1>2, Zenon
  <2> HIDE DEF StreamInv
  <2> QED BY <2>3, <2>4
<1> HIDE DEF q, f
<1>8. CASE Len(content[q]) = Capacity
  <2> DEFINE rest == Tail(content[q])
  <2>1. /\ content' = [content EXCEPT ![q] = Append(rest, f)]
        /\ lost' = lost \cup {Head(content[q])}
    BY <1>1, <1>8 DEF PutDroppingOldest
  <2>2. content[q] # <<>>
    BY <1>6, <1>8
  <2>3. /\ rest \in Seq(Frames) /\ Len(rest) = Capacity - 1
        /\ Head(content[q]) = content[q][1] /\ Len(content[q]) \in Nat \ {0}
        /\ \A i \in 1..Len(rest) : rest[i] = content[q][i + 1]
    BY <1>6, <1>8, <2>2, Tailed
  <2> HIDE DEF rest
  <2>4. /\ Append(rest, f) \in Seq(Frames) /\ Len(Append(rest, f)) = Capacity
        /\ Append(rest, f)[Capacity] = f
        /\ \A i \in 1..Len(rest) : Append(rest, f)[i] = rest[i]
    BY <1>3, <2>3, Appended
  <2>5. Head(content[q]) # End
    BY <1>3, <1>5, <2>3
  <2>6. BufferTypes'
    BY <1>1, <1>2, <1>3, <2>1, <2>4
  <2>7. \A i \in 1..Capacity : Append(rest, f)[i] = End => f = End
    <3>1. \A i \in 1..Len(rest) : rest[i] # End
      BY <1>3, <1>5, <1>8, <2>3, SMTT(40)
    <3> QED BY <2>3, <2>4, <3>1
  <2>8. \A p \in Queues : \A i \in 1..Len(content'[p]) : content'[p][i] = End => f = End
    BY <1>3, <1>5, <2>1, <2>4, <2>7
  <2>9. EndIsLast'
    BY <1>1, <1>4, <1>7, <2>8
  <2>10. QueueBounded'
    BY <1>3, <2>1, <2>4
  <2> QED BY <2>1, <2>5, <2>6, <2>9, <2>10
<1>9. CASE Len(content[q]) # Capacity
  <2> DEFINE more == Append(content[q], f)
  <2>1. content' = [content EXCEPT ![q] = more] /\ lost' = lost
    BY <1>1, <1>9 DEF PutDroppingOldest
  <2>2. /\ more \in Seq(Frames) /\ Len(more) = Len(content[q]) + 1
        /\ more[Len(content[q]) + 1] = f
        /\ \A i \in 1..Len(content[q]) : more[i] = content[q][i]
    BY <1>3, <1>6, Appended
  <2> HIDE DEF more
  <2>3. Len(content[q]) \in Nat /\ Len(more) <= Capacity
    BY <1>3, <1>6, <1>9, <2>2
  <2>4. BufferTypes'
    BY <1>1, <1>2, <1>3, <2>1, <2>2
  <2>5. \A i \in 1..Len(more) : more[i] = End => f = End
    <3>1. \A i \in 1..Len(content[q]) : content[q][i] # End
      BY <1>3, <1>5, Zenon
    <3>2. \A i \in 1..Len(more) : i \in 1..Len(content[q]) \/ i = Len(content[q]) + 1
      <4> HIDE DEF StreamInv, BufferTypes, EndIsLast, QueueBounded, TerminalKept
      <4> QED BY <2>2, <2>3
    <3> QED BY <2>2, <3>1, <3>2, Zenon
  <2>6. \A p \in Queues : \A i \in 1..Len(content'[p]) : content'[p][i] = End => f = End
    BY <1>3, <1>5, <2>1, <2>5
  <2>7. EndIsLast'
    BY <1>1, <1>4, <1>7, <2>6
  <2>8. QueueBounded'
    BY <1>3, <2>1, <2>3
  <2> QED BY <2>1, <2>4, <2>7, <2>8
<1> QED BY <1>8, <1>9

\* A handler only takes frames out.
LEMMA HandlerKeeps ==
  ASSUME NEW v \in Viewers, StreamInv, Connect(v) \/ Leave(v) \/ Handler(v)
  PROVE  StreamInv'
<1> USE StreamAssumption DEF StreamInv, BufferTypes, EndIsLast, QueueBounded, TerminalKept, workerVars
<1>1. CASE Drain(v)
  <2>1. CASE queue = "none"
    BY <1>1, <2>1 DEF Drain
  <2>2. CASE queue # "none"
    <3>1. /\ content' = [content EXCEPT ![queue] = <<>>]
          /\ lost' = lost \cup (In(content[queue]) \ {End})
          /\ UNCHANGED <<pushed, ended, wpc, queue, scheduled, mine>>
      BY <1>1, <2>2 DEF Drain
    <3>2. queue \in Queues /\ <<>> \in Seq(Frames)
      BY <2>2
    <3>3. \A q \in Queues : content'[q] = <<>> \/ content'[q] = content[q]
      BY <3>1, <3>2
    <3>4. BufferTypes' /\ EndIsLast'
      BY <3>1, <3>2, <3>3
    <3>5. QueueBounded'
      BY <3>3
    <3> QED BY <3>1, <3>4, <3>5
  <2> QED BY <2>1, <2>2
<1>2. CASE Get(v)
  <2>1. mine[v] \in {"none"} \cup Queues
    OBVIOUS
  <2>2. /\ content[mine[v]] # <<>>
        /\ content' = [content EXCEPT ![mine[v]] = Tail(content[mine[v]])]
        /\ UNCHANGED <<pushed, ended, wpc, queue, scheduled, mine, lost>>
    BY <1>2 DEF Get
  <2>3. CASE mine[v] = "none"
    <3>1. DOMAIN content = Queues /\ mine[v] \notin Queues
      BY <2>3 DEF Queues
    <3>2. content = [q \in Queues |-> content[q]]
      OBVIOUS
    <3>3. content' = [q \in Queues |-> content[q]]
      BY <2>2, <3>1
    <3> QED BY <2>2, <3>2, <3>3
  <2>4. CASE mine[v] \in Queues
    <3>1. /\ Tail(content[mine[v]]) \in Seq(Frames)
          /\ Len(Tail(content[mine[v]])) = Len(content[mine[v]]) - 1
          /\ Len(content[mine[v]]) \in Nat \ {0}
          /\ \A i \in 1..Len(Tail(content[mine[v]])) :
               Tail(content[mine[v]])[i] = content[mine[v]][i + 1]
      BY <2>2, <2>4, Tailed
    <3>2. BufferTypes'
      BY <2>2, <2>4, <3>1
    <3>3. EndIsLast'
      <4> DEFINE rest == Tail(content[mine[v]])
      <4>1. \A i \in 1..Len(rest) : i + 1 \in 1..Len(content[mine[v]])
        BY <3>1
      <4>2. \A i \in 1..Len(rest) : rest[i] = End => Len(scheduled) = 0 /\ wpc = "done"
        BY <2>4, <3>1, <4>1
      <4> HIDE DEF rest
      <4>3. content' = [content EXCEPT ![mine[v]] = rest]
        BY <2>2 DEF rest
      <4> QED BY <2>2, <2>4, <4>2, <4>3
    <3>4. QueueBounded'
      BY <2>2, <2>4, <3>1
    <3> QED BY <2>2, <3>2, <3>3, <3>4
  <2> QED BY <2>1, <2>3, <2>4
<1>3. CASE LookForQueue(v) \/ CreateQueue(v)
  BY <1>3 DEF LookForQueue, CreateQueue, Queues
<1>4. CASE Listen(v)
  BY <1>4 DEF Listen
<1>5. CASE \/ Connect(v) \/ Leave(v) \/ Stream(v) \/ Wait(v) \/ IdleEnd(v) \/ Heartbeat(v)
           \/ Sent(v) \/ SendFails(v)
  BY <1>5 DEF Connect, Leave, Stream, Wait, IdleEnd, Heartbeat, Sent, SendFails
<1> QED BY <1>1, <1>2, <1>3, <1>4, <1>5 DEF Handler

\* A step of anyone keeps the invariant.
LEMMA InvKept == StreamInv /\ [StreamNext]_streamVars => StreamInv'
<1> SUFFICES ASSUME StreamInv, [StreamNext]_streamVars PROVE StreamInv'
  OBVIOUS
<1>1. CASE UNCHANGED streamVars
  BY <1>1 DEF streamVars, workerVars, viewerVars, StreamInv, BufferTypes, EndIsLast, QueueBounded,
     TerminalKept
<1>2. CASE StreamNext
  BY <1>2, WorkerKeeps, PutKeeps, HandlerKeeps DEF StreamNext
<1> QED BY <1>1, <1>2

\* _put_dropping_oldest: a task nobody watches holds no more frames than the
\* bound of its queue, whoever made that queue.
THEOREM StreamQueueBounded == StreamSpec => []QueueBounded
<1>1. StreamSpec => []StreamInv
  BY InvHolds, InvKept, PTL DEF StreamSpec
<1>2. StreamInv => QueueBounded
  BY DEF StreamInv
<1> QED BY <1>1, <1>2, PTL

\* _MESSAGE_QUEUE_MAXSIZE: the terminal frame is the newest of its queue and is
\* never the one dropped for another.
THEOREM StreamTerminalKept == StreamSpec => []TerminalKept
<1>1. StreamSpec => []StreamInv
  BY InvHolds, InvKept, PTL DEF StreamSpec
<1>2. StreamInv => TerminalKept
  BY DEF StreamInv
<1> QED BY <1>1, <1>2, PTL

\* Both promises of _put_dropping_oldest.
THEOREM StreamBufferSound == StreamSpec => []BufferSound
  BY StreamQueueBounded, StreamTerminalKept, PTL DEF BufferSound

-----------------------------------------------------------------------------
(* The frames of a client: sequences first, then one lemma per actor.      *)

\* What a queue holds after a frame went in at its end, and whether it rises.
LEMMA InAppended ==
  ASSUME NEW S, NEW s \in Seq(S), NEW f \in S
  PROVE  /\ In(Append(s, f)) = In(s) \cup {f}
         /\ Rising(s) /\ Ahead(In(s), {f}) => Rising(Append(s, f))
<1> DEFINE t == Append(s, f)
<1>1. /\ t \in Seq(S) /\ Len(t) = Len(s) + 1 /\ Len(s) \in Nat
      /\ t[Len(s) + 1] = f /\ \A i \in 1..Len(s) : t[i] = s[i]
  BY Appended
<1> HIDE DEF t
<1>2. \A i \in 1..Len(t) : i \in 1..Len(s) \/ i = Len(s) + 1
  BY <1>1
<1>3. Len(s) + 1 \in 1..Len(t) /\ \A i \in 1..Len(s) : i \in 1..Len(t)
  BY <1>1
<1>4. In(t) = In(s) \cup {f}
  BY <1>1, <1>2, <1>3 DEF In
<1>5. ASSUME Rising(s), Ahead(In(s), {f}), NEW i \in 1..Len(t), NEW j \in 1..Len(t), i < j
      PROVE  t[i] < t[j]
  <2>1. i \in 1..Len(s)
    BY <1>1, <1>5
  <2>2. CASE j \in 1..Len(s)
    BY <1>1, <1>5, <2>1, <2>2 DEF Rising
  <2>3. CASE j = Len(s) + 1
    BY <1>1, <1>5, <2>1, <2>3 DEF Ahead, In
  <2> QED BY <1>2, <2>2, <2>3
<1>6. Rising(s) /\ Ahead(In(s), {f}) => Rising(t)
  BY <1>5 DEF Rising
<1> QED BY <1>4, <1>6 DEF t

\* What it holds after its first frame was taken.
LEMMA InTailed ==
  ASSUME NEW S, NEW s \in Seq(S), s # <<>>
  PROVE  /\ In(s) = {Head(s)} \cup In(Tail(s)) /\ Head(s) \in S /\ Tail(s) \in Seq(S)
         /\ Rising(s) => Rising(Tail(s)) /\ Ahead({Head(s)}, In(Tail(s)))
<1> DEFINE t == Tail(s)
<1>1. /\ t \in Seq(S) /\ Len(t) = Len(s) - 1 /\ Len(s) \in Nat \ {0}
      /\ Head(s) = s[1] /\ Head(s) \in S /\ 1 \in 1..Len(s)
      /\ \A i \in 1..Len(t) : t[i] = s[i + 1] /\ i + 1 \in 1..Len(s)
  BY Tailed
<1> HIDE DEF t
<1>2. \A i \in 1..Len(s) : i = 1 \/ (i - 1 \in 1..Len(t) /\ t[i - 1] = s[i])
  BY <1>1
<1>3. In(s) = {Head(s)} \cup In(t)
  <2>1. \A f \in In(s) : f = Head(s) \/ f \in In(t)
    BY <1>1, <1>2 DEF In
  <2>2. Head(s) \in In(s) /\ \A f \in In(t) : f \in In(s)
    BY <1>1 DEF In
  <2> QED BY <2>1, <2>2
<1>4. Rising(s) => Rising(t)
  BY <1>1 DEF Rising
<1>5. Rising(s) => Ahead({Head(s)}, In(t))
  BY <1>1 DEF Rising, Ahead, In
<1> QED BY <1>1, <1>3, <1>4, <1>5 DEF t

\* The callbacks in line after one more was handed to the loop.
LEMMA CallAppended ==
  ASSUME NEW s \in Seq(Callbacks), NEW c \in Callbacks
  PROVE  /\ FramesOf(Append(s, c)) = FramesOf(s) \cup {c.frame}
         /\ \A q : AllTo(s, q) /\ c.to = q => AllTo(Append(s, c), q)
         /\ /\ TurnOnce(s) /\ Ahead(FramesOf(s), {c.frame})
            /\ c.to = "viewer" \/ AllTo(s, "worker")
            => TurnOnce(Append(s, c))
<1> DEFINE t == Append(s, c)
<1>1. /\ t \in Seq(Callbacks) /\ Len(t) = Len(s) + 1 /\ Len(s) \in Nat
      /\ t[Len(s) + 1] = c /\ \A i \in 1..Len(s) : t[i] = s[i]
  BY Appended
<1> HIDE DEF t
<1>2. \A i \in 1..Len(t) : i \in 1..Len(s) \/ i = Len(s) + 1
  BY <1>1
<1>3. Len(s) + 1 \in 1..Len(t) /\ \A i \in 1..Len(s) : i \in 1..Len(t)
  BY <1>1
<1>4. FramesOf(t) = FramesOf(s) \cup {c.frame}
  <2>1. \A f \in FramesOf(t) : f \in FramesOf(s) \cup {c.frame}
    BY <1>1, <1>2 DEF FramesOf
  <2>2. c.frame \in FramesOf(t) /\ \A f \in FramesOf(s) : f \in FramesOf(t)
    BY <1>1, <1>3 DEF FramesOf
  <2> QED BY <2>1, <2>2
<1>5. \A q : AllTo(s, q) /\ c.to = q => AllTo(t, q)
  BY <1>1, <1>2 DEF AllTo
<1>6. ASSUME TurnOnce(s), Ahead(FramesOf(s), {c.frame}), c.to = "viewer" \/ AllTo(s, "worker"),
             NEW i \in 1..Len(t), NEW j \in 1..Len(t), i < j
      PROVE  t[i].frame < t[j].frame /\ (t[i].to = "viewer" => t[j].to = "viewer")
  <2>1. i \in 1..Len(s)
    BY <1>1, <1>6
  <2>2. CASE j \in 1..Len(s)
    BY <1>1, <1>6, <2>1, <2>2 DEF TurnOnce
  <2>3. CASE j = Len(s) + 1
    BY <1>1, <1>6, <2>1, <2>3 DEF Ahead, FramesOf, AllTo
  <2> QED BY <1>2, <2>2, <2>3
<1>7. /\ TurnOnce(s) /\ Ahead(FramesOf(s), {c.frame})
      /\ c.to = "viewer" \/ AllTo(s, "worker")
      => TurnOnce(t)
  BY <1>6 DEF TurnOnce
<1> QED BY <1>4, <1>5, <1>7 DEF t

\* The callbacks in line after the loop ran the first.
LEMMA CallTailed ==
  ASSUME NEW s \in Seq(Callbacks), s # <<>>
  PROVE  /\ FramesOf(s) = {Head(s).frame} \cup FramesOf(Tail(s)) /\ Head(s) \in Callbacks
         /\ \A q : AllTo(s, q) => AllTo(Tail(s), q) /\ Head(s).to = q
         /\ TurnOnce(s) => /\ TurnOnce(Tail(s)) /\ Ahead({Head(s).frame}, FramesOf(Tail(s)))
                           /\ Head(s).to = "viewer" => AllTo(Tail(s), "viewer")
<1> DEFINE t == Tail(s)
<1>1. /\ t \in Seq(Callbacks) /\ Len(t) = Len(s) - 1 /\ Len(s) \in Nat \ {0}
      /\ Head(s) = s[1] /\ Head(s) \in Callbacks /\ 1 \in 1..Len(s)
      /\ \A i \in 1..Len(t) : t[i] = s[i + 1] /\ i + 1 \in 1..Len(s)
  BY Tailed
<1> HIDE DEF t
<1>2. \A i \in 1..Len(s) : i = 1 \/ (i - 1 \in 1..Len(t) /\ t[i - 1] = s[i])
  BY <1>1
<1>3. FramesOf(s) = {Head(s).frame} \cup FramesOf(t)
  <2>1. \A f \in FramesOf(s) : f = Head(s).frame \/ f \in FramesOf(t)
    BY <1>1, <1>2 DEF FramesOf
  <2>2. Head(s).frame \in FramesOf(s) /\ \A f \in FramesOf(t) : f \in FramesOf(s)
    BY <1>1 DEF FramesOf
  <2> QED BY <2>1, <2>2
<1>4. \A q : AllTo(s, q) => AllTo(t, q) /\ Head(s).to = q
  BY <1>1 DEF AllTo
<1>5. TurnOnce(s) => TurnOnce(t)
  BY <1>1, SMTT(40) DEF TurnOnce
<1>6. TurnOnce(s) => Ahead({Head(s).frame}, FramesOf(t)) /\ (Head(s).to = "viewer" => AllTo(t, "viewer"))
  BY <1>1 DEF TurnOnce, Ahead, FramesOf, AllTo
<1> QED BY <1>1, <1>3, <1>4, <1>5, <1>6 DEF t

\* What is in a queue is typed, and only the empty queue holds nothing.
LEMMA InTyped ==
  ASSUME NEW S, NEW s \in Seq(S)
  PROVE  In(s) \subseteq S /\ (In(s) = {} <=> s = <<>>)
<1>1. Len(s) \in Nat /\ (Len(s) = 0 <=> s = <<>>) /\ \A i \in 1..Len(s) : s[i] \in S
  OBVIOUS
<1>2. In(s) \subseteq S
  BY <1>1 DEF In
<1>3. ASSUME s # <<>> PROVE s[1] \in In(s)
  <2>1. 1 \in 1..Len(s)
    BY <1>1, <1>3
  <2> QED BY <2>1 DEF In
<1>4. s = <<>> => In(s) = {}
  BY <1>1 DEF In
<1> QED BY <1>2, <1>3, <1>4

\* The empty queue and the empty line of callbacks.
LEMMA InEmpty ==
  /\ In(<<>>) = {} /\ FramesOf(<<>>) = {} /\ Rising(<<>>) /\ TurnOnce(<<>>)
  /\ \A q : AllTo(<<>>, q)
<1>1. 1..Len(<<>>) = {}
  OBVIOUS
<1> QED BY <1>1 DEF In, FramesOf, Rising, TurnOnce, AllTo

\* A task begins with every frame still to come.
LEMMA FramesBegin == StreamInit => FrameInv
<1> SUFFICES ASSUME StreamInit PROVE FrameInv
  OBVIOUS
<1> USE StreamAssumption, InEmpty DEF StreamInit
<1>1. /\ \A q \in Queues : content[q] = <<>>
      /\ "worker" \in Queues /\ "viewer" \in Queues
  BY DEF Queues
<1>2. Queued = {} /\ Due = {} /\ Handed = {}
  BY <1>1 DEF Queued, Due, Handed
<1>3. \A v \in Viewers : Seen(v) = {}
  BY DEF Seen
<1>4. ViewerTypes
  <2>1. <<>> \in Seq(Frames) /\ 0 \in 0..End /\ 0 \in Nat
    BY DEF End
  <2> QED BY <2>1 DEF ViewerTypes
<1>5. InOrder
  BY <1>1, <1>2 DEF InOrder, Ahead
<1>6. ViewersQueue
  BY <1>1, <1>3 DEF ViewersQueue
<1>7. \A v \in Viewers : ClientInOrder(v) /\ ClientAhead(v)
  BY <1>2, <1>3 DEF ClientInOrder, ClientAhead, Ahead
<1> QED BY <1>2, <1>4, <1>5, <1>6, <1>7 DEF FrameInv, NoneNowhere

\* The steps of the worker that hand nothing over.
LEMMA QuietFrames ==
  ASSUME FrameInv, UNCHANGED <<content, scheduled, viewerVars, lost>>, Handed' = Handed,
         queue' = queue \/ (wpc = "make" /\ queue' \in Queues),
         wpc' = "make" => queue' # "viewer"
  PROVE  FrameInv'
<1> USE DEF FrameInv, viewerVars
<1>1. Due' = Due /\ Queued' = Queued /\ \A v \in Viewers : Seen(v)' = Seen(v)
  BY DEF Due, Queued, Seen
<1>2. ViewerTypes'
  BY DEF ViewerTypes
<1>3. InOrder'
  BY <1>1 DEF InOrder
<1>4. ViewersQueue'
  BY <1>1 DEF ViewersQueue
<1>5. \A v \in Viewers : ClientInOrder(v)' /\ ClientAhead(v)'
  BY <1>1 DEF ClientInOrder, ClientAhead
<1>6. NoneNowhere'
  BY <1>1 DEF NoneNowhere
<1> QED BY <1>2, <1>3, <1>4, <1>5, <1>6

\* The worker hands a frame over after all it handed over before.
LEMMA WorkerFrames == ASSUME StreamInv, FrameInv, Worker PROVE FrameInv'
<1> USE StreamAssumption
<1>t. /\ pushed \in 0..MaxFrames /\ ended \in BOOLEAN /\ queue \in {"none"} \cup Queues
      /\ wpc \in {"work", "persist", "see", "make", "schedule", "done"}
      /\ wpc = "work" => ~ended
      /\ wpc = "persist" => ended
      /\ wpc \in {"see", "make", "schedule"} => ended \/ pushed > 0
      /\ scheduled \in Seq(Callbacks) /\ content \in [Queues -> Seq(Frames)]
  BY DEF StreamInv, BufferTypes, EndIsLast
<1>1. CASE Work
  <2>1. Handed' = Handed
    BY <1>t, <1>1 DEF Work, Handed
  <2> QED BY <1>1, <2>1, QuietFrames DEF Work
<1>2. CASE MarkTerminal
  <2>1. Handed' = Handed
    BY <1>t, <1>2 DEF MarkTerminal, Handed
  <2> QED BY <1>2, <2>1, QuietFrames DEF MarkTerminal
<1>3. CASE SaveRow
  <2>1. Handed' = Handed
    BY <1>t, <1>3 DEF SaveRow, Handed
  <2> QED BY <1>3, <2>1, QuietFrames DEF SaveRow
<1>4. CASE SeeQueue
  <2>1. Handed' = Handed
    BY <1>t, <1>4 DEF SeeQueue, Handed
  <2> QED BY <1>4, <2>1, QuietFrames DEF SeeQueue
<1>5. CASE MakeQueue
  <2>1. Handed' = Handed
    BY <1>t, <1>5 DEF MakeQueue, Handed
  <2> QED BY <1>5, <2>1, QuietFrames DEF MakeQueue, Queues
<1>6. CASE Schedule
  <2> DEFINE f == Callback.frame
  <2>1. /\ scheduled' = Append(scheduled, Callback) /\ wpc = "schedule" /\ wpc' # "make"
        /\ wpc' = IF ended THEN "done" ELSE "work"
        /\ UNCHANGED <<pushed, ended, queue, content, loop, vpc, mine, held, snap, got, gone, lost>>
    BY <1>6 DEF Schedule, viewerVars
  <2>2. /\ queue \in Queues /\ Callback \in Callbacks /\ Callback.to = queue
        /\ f = IF ended THEN End ELSE pushed
    BY <1>t, <2>1 DEF StreamInv, BufferTypes, Callback, Callbacks, Queues, Frames, End
  <2>3. /\ \A h \in Handed : h < f
        /\ Handed \subseteq Handed' /\ f \in Handed' \cup {End}
        /\ \A h \in Handed' : h \in Handed \/ h = f
    BY <1>t, <2>1, <2>2 DEF Handed, End
  <2>4. End \notin Due /\ End \notin Queued
    BY <2>1 DEF StreamInv, EndIsLast, Due, FramesOf, Queued, In, Queues
  <2>5. /\ InOrder /\ ViewersQueue /\ ViewerTypes /\ NoneNowhere
        /\ \A v \in Viewers : ClientInOrder(v) /\ ClientAhead(v)
    BY DEF FrameInv
  <2>6. Queued \cup Due \subseteq Handed
    BY <2>4, <2>5 DEF InOrder
  <2>7. /\ Due' = Due \cup {f} /\ Queued' = Queued /\ \A v \in Viewers : Seen(v)' = Seen(v)
        /\ Due' = FramesOf(scheduled')
    BY <1>t, <2>1, <2>2, CallAppended DEF Due, Queued, Seen
  <2>8. Ahead(FramesOf(scheduled), {Callback.frame})
    BY <2>3, <2>6 DEF Ahead, Due
  <2> HIDE DEF f
  <2>9. TurnOnce(scheduled')
    <3>1. Callback.to = "viewer" \/ AllTo(scheduled, "worker")
      BY <2>2, <2>5 DEF ViewersQueue
    <3> QED BY <1>t, <2>1, <2>2, <2>5, <2>8, <3>1, CallAppended DEF InOrder
  <2>10. \A q : AllTo(scheduled, q) /\ queue = q => AllTo(scheduled', q)
    BY <1>t, <2>1, <2>2, CallAppended
  <2>11. InOrder'
    <3>1. Ahead(Queued', Due')
      BY <2>3, <2>5, <2>6, <2>7 DEF InOrder, Ahead
    <3>2. (Queued \cup Due)' \subseteq Handed' \cup {End}
      BY <2>3, <2>6, <2>7
    <3>3. content["viewer"] = <<>> \/ AllTo(scheduled', "viewer")
      BY <2>5, <2>10 DEF InOrder, ViewersQueue
    <3> QED BY <2>1, <2>5, <2>9, <3>1, <3>2, <3>3 DEF InOrder
  <2>12. ViewersQueue'
    BY <2>1, <2>2, <2>5, <2>7, <2>10 DEF ViewersQueue, Queues
  <2>13. ASSUME NEW v \in Viewers PROVE ClientInOrder(v)' /\ ClientAhead(v)'
    <3>1. Seen(v) \subseteq Handed /\ Ahead(Seen(v), Due) /\ ClientInOrder(v) /\ ClientAhead(v)
      BY <2>5 DEF ClientAhead
    <3>2. Seen(v)' \subseteq Handed' /\ Ahead(Seen(v)', Due')
      BY <2>3, <2>7, <3>1 DEF Ahead
    <3> QED BY <2>1, <2>7, <3>1, <3>2 DEF ClientInOrder, ClientAhead
  <2>14. NoneNowhere'
    BY <2>1, <2>3, <2>5, <2>7 DEF NoneNowhere
  <2>15. ViewerTypes'
    BY <2>1, <2>5 DEF ViewerTypes
  <2> QED BY <2>11, <2>12, <2>13, <2>14, <2>15 DEF FrameInv
<1> QED BY <1>1, <1>2, <1>3, <1>4, <1>5, <1>6 DEF Worker

\* The loop moves the first callback's frame to the end of its queue, behind
\* the others there; what it drops to make room is on record.
LEMMA PutFrames == ASSUME StreamInv, FrameInv, Put PROVE FrameInv'
<1> DEFINE q == Head(scheduled).to
           f == Head(scheduled).frame
<1> USE StreamAssumption
<1>t. /\ scheduled \in Seq(Callbacks) /\ content \in [Queues -> Seq(Frames)]
      /\ "worker" \in Queues /\ "viewer" \in Queues
  BY DEF StreamInv, BufferTypes, Queues
<1>i. /\ InOrder /\ ViewersQueue /\ ViewerTypes /\ NoneNowhere
      /\ \A v \in Viewers : ClientInOrder(v) /\ ClientAhead(v)
  BY DEF FrameInv
<1>1. /\ scheduled # <<>> /\ PutDroppingOldest(q, f) /\ scheduled' = Tail(scheduled)
      /\ UNCHANGED <<pushed, ended, wpc, queue, loop, vpc, mine, held, snap, got, gone>>
  BY DEF Put, workerVars, viewerVars
<1>2. /\ q \in Queues /\ f \in Frames
      /\ Due = {f} \cup Due' /\ Ahead({f}, Due') /\ TurnOnce(scheduled')
      /\ q = "viewer" => AllTo(scheduled', "viewer")
      /\ \A p : AllTo(scheduled, p) => AllTo(scheduled', p) /\ q = p
  BY <1>t, <1>i, <1>1, CallTailed DEF Callbacks, Due, InOrder
<1> HIDE DEF q, f
<1>3. PICK rest \in Seq(Frames) :
        /\ content' = [content EXCEPT ![q] = Append(rest, f)]
        /\ Rising(rest) /\ In(rest) \subseteq In(content[q])
        /\ In(content[q]) \subseteq In(rest) \cup lost'
        /\ lost \subseteq lost' /\ lost' \subseteq Frames
  <2>1. CASE Len(content[q]) = Capacity
    <3>1. content[q] \in Seq(Frames) /\ content[q] # <<>>
      BY <1>t, <1>2, <2>1
    <3>2. /\ In(content[q]) = {Head(content[q])} \cup In(Tail(content[q]))
          /\ Head(content[q]) \in Frames /\ Tail(content[q]) \in Seq(Frames)
          /\ Rising(Tail(content[q]))
      BY <1>2, <1>i, <3>1, InTailed DEF InOrder
    <3>3. /\ content' = [content EXCEPT ![q] = Append(Tail(content[q]), f)]
          /\ lost' = lost \cup {Head(content[q])}
      BY <1>1, <2>1 DEF PutDroppingOldest
    <3>4. lost \subseteq Frames
      BY <1>i DEF ViewerTypes
    <3> QED BY <3>2, <3>3, <3>4
  <2>2. CASE Len(content[q]) # Capacity
    <3>1. content' = [content EXCEPT ![q] = Append(content[q], f)] /\ lost' = lost
      BY <1>1, <2>2 DEF PutDroppingOldest
    <3>2. lost \subseteq Frames /\ content[q] \in Seq(Frames) /\ Rising(content[q])
      BY <1>t, <1>2, <1>i DEF ViewerTypes, InOrder
    <3> QED BY <3>1, <3>2
  <2> QED BY <2>1, <2>2
<1>4. Ahead(In(rest), {f})
  <2>1. In(rest) \subseteq Queued /\ f \in Due
    BY <1>2, <1>3 DEF Queued, Queues
  <2> QED BY <1>i, <2>1 DEF InOrder, Ahead
<1>5. In(Append(rest, f)) = In(rest) \cup {f} /\ Rising(Append(rest, f))
  BY <1>2, <1>3, <1>4, InAppended
<1>6. /\ \A p \in Queues : content'[p] = IF p = q THEN Append(rest, f) ELSE content[p]
      /\ \A p \in Queues : In(content'[p]) = IF p = q THEN In(rest) \cup {f} ELSE In(content[p])
  BY <1>t, <1>3, <1>5
<1>7. /\ \A p \in Queues : In(content'[p]) \subseteq In(content[p]) \cup {f}
      /\ Queued' = In(content'["worker"]) \cup In(content'["viewer"])
      /\ Queued' \subseteq Queued \cup {f} /\ f \in Queued' /\ Queued \subseteq Queued' \cup lost'
  BY <1>t, <1>2, <1>3, <1>6 DEF Queued, Queues
<1>8. Handed' = Handed /\ \A v \in Viewers : Seen(v)' = Seen(v)
  BY <1>1 DEF Handed, Seen
<1>9. q = "worker" => content["viewer"] = <<>> /\ content'["viewer"] = <<>>
  BY <1>t, <1>2, <1>i, <1>6 DEF InOrder
<1>10. InOrder'
  <2>1. \A p \in Queues : Rising(content'[p])
    BY <1>i, <1>5, <1>6 DEF InOrder
  <2>2. Ahead(Queued', Due')
    BY <1>2, <1>i, <1>7 DEF InOrder, Ahead
  <2>3. (Queued \cup Due)' \subseteq Handed' \cup {End}
    BY <1>2, <1>i, <1>7, <1>8 DEF InOrder
  <2>4. Ahead(In(content'["worker"]), In(content'["viewer"]))
    <3>1. CASE q = "worker"
      BY <1>9, <3>1, InEmpty DEF Ahead
    <3>2. CASE q = "viewer"
      <4>1. In(content'["worker"]) = In(content["worker"])
        BY <1>t, <1>6, <3>2
      <4>2. In(content["worker"]) \subseteq Queued /\ f \in Due
        BY <1>2 DEF Queued
      <4> QED BY <1>t, <1>i, <1>7, <4>1, <4>2 DEF InOrder, Ahead
    <3> QED BY <1>2, <3>1, <3>2 DEF Queues
  <2>5. content'["viewer"] = <<>> \/ AllTo(scheduled', "viewer")
    BY <1>2, <1>9 DEF Queues
  <2> QED BY <1>2, <2>1, <2>2, <2>3, <2>4, <2>5 DEF InOrder
<1>11. ViewersQueue'
  BY <1>1, <1>2, <1>9, <1>i, <1>8 DEF ViewersQueue
<1>12. ASSUME NEW v \in Viewers PROVE ClientInOrder(v)' /\ ClientAhead(v)'
  <2>1. ClientInOrder(v) /\ ClientAhead(v)
    BY <1>i
  <2>2. ClientInOrder(v)'
    BY <1>1, <2>1 DEF ClientInOrder
  <2>3. Ahead(Seen(v), Due') /\ Seen(v) \subseteq Handed'
    BY <1>2, <1>8, <2>1 DEF ClientAhead, Ahead
  <2>4. \/ Seen(v) = {}
        \/ mine[v] = "worker" /\ Ahead(Seen(v), Queued')
        \/ mine[v] = "viewer" /\ Ahead(Seen(v), In(content'["viewer"]))
    BY <1>t, <1>2, <1>7, <2>1 DEF ClientAhead, Ahead
  <2> QED BY <1>1, <1>8, <2>2, <2>3, <2>4 DEF ClientAhead
<1>13. NoneNowhere'
  BY <1>1, <1>2, <1>3, <1>i, <1>7, <1>8 DEF NoneNowhere
<1>14. ViewerTypes'
  BY <1>1, <1>3, <1>i DEF ViewerTypes
<1> QED BY <1>10, <1>11, <1>12, <1>13, <1>14 DEF FrameInv

\* A step of a handler that leaves the queues alone: what the client has is
\* still in order, nothing of it is new to the client, nothing is forgotten.
LEMMA ClientFrames ==
  ASSUME StreamInv, FrameInv, NEW v \in Viewers,
         UNCHANGED <<workerVars, scheduled, content, lost>>,
         queue' = queue \/ queue' = "viewer",
         ViewerTypes', ClientInOrder(v)',
         Seen(v)' = {} \/ (mine'[v] = mine[v] /\ Seen(v)' \subseteq Seen(v)),
         In(got[v]) \cup {held[v]} \subseteq In(got'[v]) \cup {held'[v], 0},
         \A u \in Viewers \ {v} : /\ vpc'[u] = vpc[u] /\ mine'[u] = mine[u]
                                  /\ held'[u] = held[u] /\ got'[u] = got[u]
  PROVE  FrameInv'
<1> USE DEF FrameInv, workerVars
<1>1. Due' = Due /\ Queued' = Queued /\ Handed' = Handed
  BY DEF Due, Queued, Handed
<1>2. \A u \in Viewers \ {v} : Seen(u)' = Seen(u)
  BY DEF Seen
<1>3. InOrder'
  BY <1>1 DEF InOrder
<1>4. ViewersQueue'
  BY <1>2 DEF ViewersQueue
<1>5. ASSUME NEW u \in Viewers PROVE ClientInOrder(u)'
  <2>1. CASE u = v
    BY <2>1
  <2>2. CASE u # v
    BY <2>2 DEF ClientInOrder
  <2> QED BY <2>1, <2>2
<1>6. ASSUME NEW u \in Viewers PROVE ClientAhead(u)'
  <2>1. CASE u = v
    BY <1>1, <2>1 DEF ClientAhead, Ahead
  <2>2. CASE u # v
    BY <1>1, <1>2, <2>2 DEF ClientAhead
  <2> QED BY <2>1, <2>2
<1>7. NoneNowhere'
  <2>1. 0 \notin Handed
    BY DEF Handed, StreamInv, BufferTypes
  <2>2. SUFFICES ASSUME NEW f \in Handed
                 PROVE  \/ f \in lost \cup Due \cup Queued
                        \/ \E u \in Viewers : f \in In(got'[u]) \cup {held'[u]}
    BY <1>1 DEF NoneNowhere
  <2>3. CASE f \in lost \cup Due \cup Queued
    BY <2>3
  <2>4. ASSUME NEW u \in Viewers, f \in In(got[u]) \cup {held[u]}
        PROVE  f \in In(got'[u]) \cup {held'[u]}
    BY <2>1, <2>4
  <2> QED BY <2>2, <2>3, <2>4 DEF NoneNowhere
<1> QED BY <1>3, <1>4, <1>5, <1>6, <1>7

\* The steps of a handler that leave the queues alone.
LEMMA StillFrames ==
  ASSUME StreamInv, FrameInv, NEW v \in Viewers,
         \/ Connect(v) \/ Leave(v) \/ Stream(v) \/ LookForQueue(v) \/ CreateQueue(v)
         \/ Listen(v) \/ Wait(v) \/ IdleEnd(v) \/ Heartbeat(v) \/ Sent(v) \/ SendFails(v)
  PROVE  FrameInv'
<1> USE StreamAssumption
<1>t. /\ mine \in [Viewers -> {"none"} \cup Queues] /\ pushed \in Nat
      /\ queue \in {"none"} \cup Queues /\ "viewer" \in Queues
  BY DEF StreamInv, BufferTypes, Queues
<1>i. ViewerTypes /\ ClientInOrder(v)
  BY DEF FrameInv
<1>e. End \in Frames /\ 0 \in 0..End /\ End \in 0..End /\ Frames \subseteq 0..End /\ 0 \notin Frames
  BY DEF Frames, End
<1>g. got[v] \in Seq(Frames) /\ In(got[v]) \subseteq Frames /\ (In(got[v]) = {} <=> got[v] = <<>>)
  BY <1>i, InTyped DEF ViewerTypes
<1>1. CASE Connect(v) \/ Leave(v) \/ Stream(v) \/ LookForQueue(v) \/ CreateQueue(v)
           \/ Wait(v) \/ Heartbeat(v) \/ SendFails(v)
  <2>1. /\ UNCHANGED <<workerVars, scheduled, content, lost, held, got, mine>>
        /\ queue' = queue \/ queue' = "viewer"
        /\ \A u \in Viewers \ {v} : vpc'[u] = vpc[u]
    BY <1>1, <1>i DEF ViewerTypes, Connect, Leave, Stream, LookForQueue, CreateQueue, Wait, Heartbeat,
       SendFails, Step
  <2>2. ViewerTypes'
    BY <1>1, <1>t, <1>i DEF ViewerTypes, Connect, Leave, Stream, LookForQueue, CreateQueue, Wait,
       Heartbeat, SendFails, Step, workerVars
  <2>3. ClientInOrder(v)'
    BY <1>1, <1>i DEF ViewerTypes, ClientInOrder, Connect, Leave, Stream, LookForQueue, CreateQueue, Wait,
       Heartbeat, SendFails, Step
  <2>4. Seen(v)' = Seen(v)
    BY <2>1 DEF Seen
  <2> QED BY <2>1, <2>2, <2>3, <2>4, ClientFrames
<1>2. CASE Listen(v)
  <2>1. /\ UNCHANGED <<workerVars, scheduled, content, lost, held, got, queue>>
        /\ mine' = [mine EXCEPT ![v] = queue] /\ vpc' = [vpc EXCEPT ![v] = "get"] /\ snap' = snap
        /\ vpc[v] = "listen"
    BY <1>2 DEF Listen, Step
  <2>2. ViewerTypes'
    BY <2>1, <1>t, <1>i DEF ViewerTypes
  <2>3. got[v] = <<>> /\ held[v] = 0
    BY <1>i, <2>1 DEF ClientInOrder
  <2>4. vpc'[v] = "get" /\ got'[v] = <<>> /\ held'[v] = 0
    BY <1>i, <2>1, <2>3 DEF ViewerTypes
  <2>5. ClientInOrder(v)'
    BY <2>4, InEmpty DEF ClientInOrder
  <2>6. Seen(v)' = {}
    BY <2>4, InEmpty DEF Seen
  <2> QED BY <1>t, <1>i, <2>1, <2>2, <2>5, <2>6, ClientFrames DEF ViewerTypes
<1>3. CASE IdleEnd(v)
  <2>1. /\ UNCHANGED <<workerVars, scheduled, content, lost, mine, got, queue, snap>>
        /\ held' = [held EXCEPT ![v] = End] /\ vpc' = [vpc EXCEPT ![v] = "send"]
        /\ vpc[v] = "waiting"
    BY <1>3 DEF IdleEnd, Step
  <2>2. ViewerTypes'
    BY <2>1, <1>e, <1>i DEF ViewerTypes
  <2>3. vpc'[v] = "send" /\ held'[v] = End /\ got'[v] = got[v]
    BY <1>i, <2>1 DEF ViewerTypes
  <2>4. End \notin In(got[v]) /\ held[v] \in In(got[v]) \cup {0} /\ Rising(got[v])
    BY <1>i, <2>1 DEF ClientInOrder
  <2>5. Ahead(In(got[v]), {End})
    BY <1>g, <2>4 DEF Ahead, Frames, End
  <2>6. ClientInOrder(v)'
    BY <1>e, <2>3, <2>4, <2>5 DEF ClientInOrder
  <2>7. Seen(v)' \subseteq Seen(v)
    BY <2>3 DEF Seen
  <2> QED BY <1>i, <2>1, <2>2, <2>3, <2>4, <2>6, <2>7, ClientFrames DEF ViewerTypes
<1>4. CASE Sent(v)
  <2> DEFINE to == IF held[v] = End THEN "closed" ELSE "get"
  <2>1. /\ UNCHANGED <<workerVars, scheduled, content, lost, mine, held, queue, snap>>
        /\ got' = [got EXCEPT ![v] = Append(got[v], held[v])] /\ vpc' = [vpc EXCEPT ![v] = to]
        /\ vpc[v] = "send"
    BY <1>4 DEF Sent, Step
  <2>2. held[v] \in Frames /\ Ahead(In(got[v]), {held[v]}) /\ Rising(got[v])
    BY <1>i, <2>1 DEF ClientInOrder, ViewerTypes, Frames, End
  <2>3. /\ Append(got[v], held[v]) \in Seq(Frames)
        /\ In(Append(got[v], held[v])) = In(got[v]) \cup {held[v]}
        /\ Rising(Append(got[v], held[v]))
    BY <1>g, <2>2, InAppended, Appended
  <2>4. vpc'[v] = to /\ got'[v] = Append(got[v], held[v]) /\ held'[v] = held[v]
    BY <1>i, <2>1 DEF ViewerTypes
  <2>5. End \notin In(got[v])
    BY <1>g, <2>2 DEF Ahead, Frames, End
  <2>6. held[v] = End \/ mine[v] \in Queues
    <3>1. Seen(v) = {} \/ mine[v] \in {"worker", "viewer"}
      BY DEF FrameInv, ClientAhead
    <3> QED BY <1>e, <2>2, <3>1 DEF Seen, Queues
  <2>7. ViewerTypes'
    BY <1>i, <2>1, <2>3, <2>6 DEF ViewerTypes
  <2>8. ClientInOrder(v)'
    BY <2>3, <2>4, <2>5 DEF ClientInOrder
  <2>9. Seen(v)' = Seen(v)
    BY <2>3, <2>4 DEF Seen
  <2> QED BY <1>i, <2>1, <2>3, <2>4, <2>7, <2>8, <2>9, ClientFrames DEF ViewerTypes
<1> QED BY <1>1, <1>2, <1>3, <1>4

\* A late viewer empties the queue of a finished task and takes only its end.
LEMMA DrainFrames == ASSUME StreamInv, FrameInv, NEW v \in Viewers, Drain(v) PROVE FrameInv'
<1> USE StreamAssumption
<1>t. /\ content \in [Queues -> Seq(Frames)] /\ queue \in {"none"} \cup Queues
      /\ "worker" \in Queues /\ "viewer" \in Queues /\ End \in Frames /\ 0 \notin Frames
      /\ pushed \in 0..MaxFrames
  BY DEF StreamInv, BufferTypes, Queues, Frames, End
<1>i. /\ InOrder /\ ViewersQueue /\ ViewerTypes /\ NoneNowhere
      /\ \A u \in Viewers : ClientInOrder(u) /\ ClientAhead(u)
  BY DEF FrameInv
<1>1. /\ UNCHANGED <<pushed, ended, wpc, queue, scheduled, mine, snap, got>> /\ vpc[v] = "snapshot"
      /\ held' = [held EXCEPT ![v] = End] /\ vpc' = [vpc EXCEPT ![v] = "send"]
  BY DEF Drain, Step, workerVars
<1>2. /\ \A q \in Queues : content'[q] = content[q] \/ content'[q] = <<>>
      /\ lost \subseteq lost' /\ lost' \subseteq Frames
      /\ \A q \in Queues : In(content[q]) \subseteq In(content'[q]) \cup lost' \cup {End}
  <2>1. CASE queue = "none"
    BY <1>i, <2>1 DEF Drain, ViewerTypes
  <2>2. CASE queue # "none"
    <3>1. /\ content' = [content EXCEPT ![queue] = <<>>] /\ queue \in Queues
          /\ lost' = lost \cup (In(content[queue]) \ {End})
      BY <1>t, <2>2 DEF Drain
    <3>2. In(content[queue]) \subseteq Frames
      BY <1>t, <3>1, InTyped
    <3> QED BY <1>t, <1>i, <3>1, <3>2 DEF ViewerTypes
  <2> QED BY <2>1, <2>2
<1>3. /\ \A q \in Queues : In(content'[q]) \subseteq In(content[q])
      /\ Queued' = In(content'["worker"]) \cup In(content'["viewer"])
      /\ Queued' \subseteq Queued /\ Queued \subseteq Queued' \cup lost' \cup {End}
  BY <1>t, <1>2, InEmpty DEF Queued
<1>4. got[v] = <<>> /\ held[v] = 0 /\ got'[v] = <<>> /\ held'[v] = End /\ vpc'[v] = "send"
  BY <1>i, <1>1 DEF ClientInOrder, ViewerTypes
<1>5. /\ Due' = Due /\ Handed' = Handed /\ Seen(v)' = {}
      /\ \A u \in Viewers \ {v} : Seen(u)' = Seen(u) /\ held'[u] = held[u] /\ vpc'[u] = vpc[u]
  BY <1>i, <1>1, <1>4, InEmpty DEF Due, Handed, Seen, ViewerTypes
<1>6. InOrder'
  <2>1. \A q \in Queues : Rising(content'[q])
    BY <1>i, <1>2, InEmpty DEF InOrder
  <2>2. Ahead(Queued', Due') /\ Ahead(In(content'["worker"]), In(content'["viewer"]))
    BY <1>t, <1>i, <1>3, <1>5 DEF InOrder, Ahead
  <2>3. content'["viewer"] = <<>> \/ AllTo(scheduled', "viewer")
    BY <1>t, <1>i, <1>1, <1>2 DEF InOrder
  <2> QED BY <1>i, <1>1, <1>3, <1>5, <2>1, <2>2, <2>3 DEF InOrder
<1>7. ViewersQueue'
  BY <1>t, <1>i, <1>1, <1>2, <1>5 DEF ViewersQueue
<1>8. ASSUME NEW u \in Viewers PROVE ClientInOrder(u)' /\ ClientAhead(u)'
  <2>1. CASE u = v
    BY <1>4, <1>5, <2>1, <1>t, InEmpty DEF ClientInOrder, ClientAhead, Ahead
  <2>2. CASE u # v
    <3>1. ClientInOrder(u)'
      BY <1>i, <1>1, <1>5, <2>2 DEF ClientInOrder
    <3>2. ClientAhead(u)
      BY <1>i
    <3>3. ClientAhead(u)'
      BY <1>t, <1>1, <1>3, <1>5, <2>2, <3>2 DEF ClientAhead, Ahead
    <3> QED BY <3>1, <3>3
  <2> QED BY <2>1, <2>2
<1>9. NoneNowhere'
  <2>1. \A f \in Handed : f # End /\ f # 0
    BY <1>t DEF Handed, End
  <2>2. SUFFICES ASSUME NEW f \in Handed
                 PROVE  \/ f \in lost' \cup Due \cup Queued'
                        \/ \E u \in Viewers : f \in In(got'[u]) \cup {held'[u]}
    BY <1>5 DEF NoneNowhere
  <2>3. CASE f \in lost \cup Due \cup Queued
    BY <1>2, <1>3, <2>1, <2>3
  <2>4. ASSUME NEW u \in Viewers, f \in In(got[u]) \cup {held[u]}
        PROVE  f \in In(got'[u]) \cup {held'[u]}
    BY <1>1, <1>4, <1>5, <2>1, <2>4, InEmpty
  <2> QED BY <1>i, <2>3, <2>4 DEF NoneNowhere
<1>10. ViewerTypes'
  <2>1. End \in 0..End
    BY DEF End
  <2> QED BY <1>i, <1>1, <1>2, <2>1 DEF ViewerTypes
<1> QED BY <1>6, <1>7, <1>8, <1>9, <1>10 DEF FrameInv

\* A handler takes the oldest frame of its queue, which follows all it has sent.
LEMMA GetFrames == ASSUME StreamInv, FrameInv, NEW v \in Viewers, Get(v) PROVE FrameInv'
<1> DEFINE q == mine[v]
           h == Head(content[q])
           rest == Tail(content[q])
<1> USE StreamAssumption
<1>i. /\ InOrder /\ ViewersQueue /\ ViewerTypes /\ NoneNowhere
      /\ \A u \in Viewers : ClientInOrder(u) /\ ClientAhead(u)
  BY DEF FrameInv
<1>t. /\ content \in [Queues -> Seq(Frames)]
      /\ "worker" \in Queues /\ "viewer" \in Queues /\ 0 \notin Frames /\ Frames \subseteq 0..End
      /\ pushed \in 0..MaxFrames
  BY DEF StreamInv, BufferTypes, Queues, Frames, End
<1>1. /\ vpc[v] \in {"get", "waiting"} /\ content[q] # <<>>
      /\ held' = [held EXCEPT ![v] = h] /\ content' = [content EXCEPT ![q] = rest]
      /\ vpc' = [vpc EXCEPT ![v] = "send"]
      /\ UNCHANGED <<pushed, ended, wpc, queue, scheduled, mine, snap, got, lost>>
  BY DEF Get, Step, workerVars
<1>2. q \in Queues
  BY <1>i, <1>1 DEF ViewerTypes
<1>3. /\ In(content[q]) = {h} \cup In(rest) /\ h \in Frames /\ rest \in Seq(Frames)
      /\ Rising(rest) /\ Ahead({h}, In(rest))
  <2>1. content[q] \in Seq(Frames) /\ Rising(content[q])
    BY <1>i, <1>t, <1>2 DEF InOrder
  <2> QED BY <1>1, <2>1, InTailed
<1> HIDE DEF h, rest, q
<1>4. /\ \A p \in Queues : content'[p] = IF p = q THEN rest ELSE content[p]
      /\ \A p \in Queues : In(content'[p]) = IF p = q THEN In(rest) ELSE In(content[p])
  BY <1>t, <1>1
<1>5. /\ \A p \in Queues : In(content'[p]) \subseteq In(content[p])
      /\ Queued' = In(content'["worker"]) \cup In(content'["viewer"])
      /\ Queued' \subseteq Queued /\ Queued \subseteq Queued' \cup {h} /\ h \in Queued
  BY <1>t, <1>2, <1>3, <1>4 DEF Queued, Queues
<1>6. /\ vpc'[v] = "send" /\ held'[v] = h /\ got'[v] = got[v] /\ got[v] \in Seq(Frames)
      /\ End \notin In(got[v]) /\ held[v] \in In(got[v]) \cup {0} /\ Rising(got[v])
  BY <1>i, <1>1 DEF ClientInOrder, ViewerTypes
<1>7. /\ Due' = Due /\ Handed' = Handed /\ Seen(v)' \subseteq Seen(v) \cup ({h} \ {End})
      /\ \A u \in Viewers \ {v} : Seen(u)' = Seen(u) /\ held'[u] = held[u] /\ vpc'[u] = vpc[u]
  BY <1>i, <1>1, <1>6 DEF Due, Handed, Seen, ViewerTypes
<1>8. In(got[v]) \subseteq Seen(v)
  BY <1>t, <1>6, InTyped DEF Seen
<1>9. /\ Ahead(Seen(v), In(content[q]))
      /\ q = "worker" => Ahead(Seen(v), Queued)
  BY <1>i, <1>t, <1>2 DEF ClientAhead, q, Queues, Ahead, Queued
<1>10. InOrder'
  <2>1. \A p \in Queues : Rising(content'[p])
    BY <1>i, <1>3, <1>4 DEF InOrder
  <2>2. Ahead(Queued', Due') /\ Ahead(In(content'["worker"]), In(content'["viewer"]))
    BY <1>t, <1>i, <1>5, <1>7 DEF InOrder, Ahead
  <2>3. content'["viewer"] = <<>> \/ AllTo(scheduled', "viewer")
    <3>1. content["viewer"] = <<>> => q # "viewer"
      BY <1>1
    <3> QED BY <1>t, <1>i, <1>1, <1>4, <3>1 DEF InOrder
  <2> QED BY <1>i, <1>1, <1>5, <1>7, <2>1, <2>2, <2>3 DEF InOrder
<1>11. ViewersQueue'
  <2>1. content["viewer"] = <<>> => q # "viewer" /\ mine[v] # "viewer"
    BY <1>1 DEF q
  <2>2. content["viewer"] = <<>> => content'["viewer"] = <<>>
    BY <1>t, <1>4, <2>1
  <2> QED BY <1>i, <1>1, <1>7, <2>1, <2>2 DEF ViewersQueue
<1>12. ASSUME NEW u \in Viewers, u # v PROVE ClientInOrder(u)' /\ ClientAhead(u)'
  <2>1. ClientInOrder(u)'
    BY <1>i, <1>1, <1>7, <1>12 DEF ClientInOrder
  <2>2. ClientAhead(u) /\ Seen(u)' = Seen(u)
    BY <1>i, <1>7, <1>12
  <2>3. ClientAhead(u)'
    BY <1>t, <1>1, <1>5, <1>7, <2>2 DEF ClientAhead, Ahead
  <2> QED BY <2>1, <2>3
<1>13. ClientInOrder(v)'
  <2>1. Ahead(In(got[v]), {h})
    BY <1>3, <1>8, <1>9 DEF Ahead
  <2> QED BY <1>t, <1>3, <1>6, <2>1 DEF ClientInOrder
<1>14. ClientAhead(v)'
  <2>1. Seen(v) \subseteq Handed /\ Ahead(Seen(v), Due)
    BY <1>i DEF ClientAhead
  <2>2. h \in Handed \cup {End} /\ Ahead({h}, Due)
    BY <1>i, <1>5 DEF InOrder, Ahead
  <2>3. Seen(v)' \subseteq Handed' /\ Ahead(Seen(v)', Due')
    BY <1>7, <2>1, <2>2 DEF Ahead
  <2>4. CASE q = "worker"
    <3>1. Ahead({h}, Queued')
      <4>1. Queued' = In(rest) \cup In(content["viewer"])
        BY <1>t, <1>4, <1>5, <2>4
      <4>2. h \in In(content["worker"])
        BY <1>3, <2>4
      <4> QED BY <1>i, <1>3, <4>1, <4>2 DEF InOrder, Ahead
    <3>2. Ahead(Seen(v)', Queued')
      BY <1>5, <1>7, <1>9, <2>4, <3>1 DEF Ahead
    <3> QED BY <1>1, <2>3, <2>4, <3>2 DEF ClientAhead, q
  <2>5. CASE q = "viewer"
    <3>1. In(content'["viewer"]) = In(rest) /\ In(rest) \subseteq In(content[q])
      BY <1>t, <1>3, <1>4, <2>5
    <3>2. Ahead(Seen(v)', In(content'["viewer"]))
      BY <1>3, <1>7, <1>9, <3>1 DEF Ahead
    <3> QED BY <1>1, <2>3, <2>5, <3>2 DEF ClientAhead, q
  <2> QED BY <1>2, <2>4, <2>5 DEF Queues
<1>15. NoneNowhere'
  <2>1. 0 \notin Handed
    BY <1>t DEF Handed
  <2>2. SUFFICES ASSUME NEW f \in Handed
                 PROVE  \/ f \in lost \cup Due \cup Queued'
                        \/ \E u \in Viewers : f \in In(got'[u]) \cup {held'[u]}
    BY <1>1, <1>7 DEF NoneNowhere
  <2>3. CASE f \in lost \cup Due \cup Queued
    BY <1>5, <1>6, <2>3
  <2>4. ASSUME NEW u \in Viewers, f \in In(got[u]) \cup {held[u]}
        PROVE  f \in In(got'[u]) \cup {held'[u]}
    BY <1>1, <1>6, <1>7, <2>1, <2>4
  <2> QED BY <1>i, <2>3, <2>4 DEF NoneNowhere
<1>16. ViewerTypes'
  <2>1. \A u \in Viewers : held'[u] = IF u = v THEN h ELSE held[u]
    BY <1>i, <1>1 DEF ViewerTypes
  <2> QED BY <1>i, <1>t, <1>1, <1>3, <2>1 DEF ViewerTypes
<1> QED BY <1>10, <1>11, <1>12, <1>13, <1>14, <1>15, <1>16 DEF FrameInv

\* A step of anyone keeps the frames in order and none nowhere.
LEMMA FramesKept == StreamInv /\ FrameInv /\ [StreamNext]_streamVars => FrameInv'
<1> SUFFICES ASSUME StreamInv, FrameInv, [StreamNext]_streamVars PROVE FrameInv'
  OBVIOUS
<1>1. CASE UNCHANGED streamVars
  <2>1. Handed' = Handed /\ UNCHANGED <<content, scheduled, viewerVars, lost, queue, wpc>>
    BY <1>1 DEF streamVars, workerVars, Handed
  <2>2. wpc = "make" /\ queue = "viewer" => FrameInv'
    BY <1>1 DEF streamVars, workerVars, viewerVars, FrameInv, ViewerTypes, InOrder, ViewersQueue, NoneNowhere,
       ClientInOrder, ClientAhead, Seen, Handed, Due, Queued
  <2> QED BY <2>1, <2>2, QuietFrames
<1>2. CASE StreamNext
  BY <1>2, WorkerFrames, PutFrames, StillFrames, DrainFrames, GetFrames DEF StreamNext, Handler
<1> QED BY <1>1, <1>2

\* websocket.py: whoever made the queue, and however many clients empty it, a
\* client sees its frames in the order they were pushed, none twice, nothing
\* after the end, and misses none without one of the named reasons.
THEOREM StreamFramesSound == StreamSpec => []FramesSound
<1>1. StreamSpec => [](StreamInv /\ FrameInv)
  BY InvHolds, InvKept, FramesBegin, FramesKept, PTL DEF StreamSpec
<1>2. FrameInv => FramesInOrder
  BY DEF FrameInv, ClientInOrder, Rising, FramesInOrder
<1>3. StreamInv /\ FrameInv => NothingSkipped
  <2> SUFFICES ASSUME StreamInv, FrameInv, NEW v \in Viewers, NEW k \in In(got[v]) \ {End},
                      NEW f \in (snap[v] + 1)..(k - 1)
               PROVE  \/ f \in In(got[v]) \cup lost
                      \/ \E w \in Viewers \ {v} : f \in In(got[w]) \cup {held[w]}
                      \/ f \in In(content["worker"]) /\ queue = "viewer"
    BY DEF NothingSkipped
  <2>1. /\ ViewerTypes /\ InOrder /\ ViewersQueue /\ NoneNowhere /\ ClientInOrder(v) /\ ClientAhead(v)
        /\ pushed \in 0..MaxFrames
    BY DEF FrameInv, StreamInv, BufferTypes
  <2>2. In(got[v]) \subseteq Frames /\ snap[v] \in Nat
    BY <2>1, InTyped DEF ViewerTypes
  <2>3. k \in Seen(v) /\ k \in Handed /\ k \in Nat
    <3>1. k # 0
      BY <2>2 DEF Frames
    <3> QED BY <2>1, <2>2, <3>1 DEF Seen, ClientAhead, Frames
  <2>4. f \in Handed /\ f \in Nat /\ f < k /\ f # 0
    BY <2>1, <2>2, <2>3 DEF Handed
  <2>5. f \notin Due
    BY <2>1, <2>3, <2>4 DEF ClientAhead, Ahead
  <2>6. f \in Queued => f \in In(content["worker"]) /\ queue = "viewer"
    <3>1. CASE mine[v] = "worker"
      BY <2>1, <2>3, <2>4, <3>1 DEF ClientAhead, Ahead
    <3>2. CASE mine[v] = "viewer"
      BY <2>1, <2>3, <2>4, <3>2 DEF ClientAhead, Ahead, Queued, ViewersQueue
    <3> QED BY <2>1, <2>3, <3>1, <3>2 DEF ClientAhead
  <2>7. f = held[v] => f \in In(got[v])
    <3>1. held[v] \in In(got[v]) \cup {0} \/ Ahead(In(got[v]), {held[v]})
      BY <2>1, InEmpty DEF ClientInOrder, ViewerTypes
    <3> QED BY <2>3, <2>4, <3>1 DEF Ahead
  <2> QED BY <2>1, <2>4, <2>5, <2>6, <2>7 DEF NoneNowhere
<1> QED BY <1>1, <1>2, <1>3, PTL DEF FramesSound
=============================================================================
