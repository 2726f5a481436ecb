----------------------------- MODULE TaskStream ------------------------------
(***************************************************************************)
(* The progress stream of one ingest task: the worker thread pushes frames *)
(* (TaskManager._push) into a bounded queue that the event loop fills, and *)
(* WebSocket handlers on the loop (api/websocket.py) empty it.  The queue  *)
(* is made by whichever side needs it first, without a lock.  A handler    *)
(* gives up the loop only where it awaits.  Frames are numbered in the     *)
(* order they are pushed; the terminal frame is End, whatever its kind.    *)
(***************************************************************************)
EXTENDS Naturals, Sequences

CONSTANTS Viewers,   \* connections, a reconnect being another one
          MaxFrames, \* frames before the terminal one (a bound)
          Capacity   \* _MESSAGE_QUEUE_MAXSIZE

ASSUME StreamAssumption == MaxFrames \in Nat /\ Capacity \in Nat \ {0}

VARIABLES
  pushed,     \* info.progress: frames described so far
  ended,      \* info.state is terminal
  wpc,        \* where the worker stands
  queue,      \* info._message_queue: none, or who made it
  content,    \* what each queue object holds
  scheduled,  \* callbacks handed to the loop, in order
  loop,       \* the handler that is running, or "free"
  vpc, mine,  \* where each handler stands, and the queue it reads
  held,       \* the frame it took last
  snap,       \* the progress its snapshot frame told
  got,        \* the frames its client received
  gone,       \* clients that left
  lost        \* history: frames dropped from a queue unread

workerVars == <<pushed, ended, wpc>>
viewerVars == <<loop, vpc, mine, held, snap, got, gone>>
streamVars == <<workerVars, queue, content, scheduled, viewerVars, lost>>

End       == MaxFrames + 1
Frames    == 1..End
Queues    == {"worker", "viewer"}
Callbacks == [to : Queues, frame : Frames]
Free      == "free"
In(s)     == {s[i] : i \in 1..Len(s)}

StreamInit ==
  /\ pushed = 0 /\ ended = FALSE /\ wpc = "work"
  /\ queue = "none" /\ content = [q \in Queues |-> <<>>] /\ scheduled = <<>>
  /\ loop = Free
  /\ vpc = [v \in Viewers |-> "away"]
  /\ mine = [v \in Viewers |-> "none"]
  /\ held = [v \in Viewers |-> 0]
  /\ snap = [v \in Viewers |-> 0]
  /\ got = [v \in Viewers |-> <<>>]
  /\ gone = {} /\ lost = {}

-----------------------------------------------------------------------------
(* The worker: the progress fields change before the frame is pushed, the  *)
(* terminal state before the row is saved and the terminal frame pushed.   *)

Work ==
  /\ wpc = "work" /\ pushed < MaxFrames
  /\ pushed' = pushed + 1
  /\ wpc' = "see"
  /\ UNCHANGED <<ended, queue, content, scheduled, viewerVars, lost>>

MarkTerminal ==
  /\ wpc = "work"
  /\ ended' = TRUE
  /\ wpc' = "persist"
  /\ UNCHANGED <<pushed, queue, content, scheduled, viewerVars, lost>>

\* The row of task_history: best effort, a failing save is logged.
SaveRow ==
  /\ wpc = "persist"
  /\ wpc' = "see"
  /\ UNCHANGED <<pushed, ended, queue, content, scheduled, viewerVars, lost>>

\* _push in three steps: look for a queue, make one, hand the frame over to
\* the queue the task has by then.
SeeQueue ==
  /\ wpc = "see"
  /\ wpc' = IF queue = "none" THEN "make" ELSE "schedule"
  /\ UNCHANGED <<pushed, ended, queue, content, scheduled, viewerVars, lost>>

MakeQueue ==
  /\ wpc = "make"
  /\ queue' = "worker"
  /\ wpc' = "schedule"
  /\ UNCHANGED <<pushed, ended, content, scheduled, viewerVars, lost>>

Callback == [to |-> queue, frame |-> IF ended THEN End ELSE pushed]

Schedule ==
  /\ wpc = "schedule"
  /\ scheduled' = Append(scheduled, Callback)
  /\ wpc' = IF ended THEN "done" ELSE "work"
  /\ UNCHANGED <<pushed, ended, queue, content, viewerVars, lost>>

-----------------------------------------------------------------------------
(* The loop: _put_dropping_oldest.                                         *)

\* Mutant: the frame at hand is dropped.
PutDroppingNewest(q, f) ==
  IF Len(content[q]) = Capacity
  THEN lost' = lost \cup {f} /\ UNCHANGED content
  ELSE content' = [content EXCEPT ![q] = Append(@, f)] /\ UNCHANGED lost

PutDroppingOldest(q, f) ==
  IF Len(content[q]) = Capacity
  THEN /\ content' = [content EXCEPT ![q] = Append(Tail(@), f)]
       /\ lost' = lost \cup {Head(content[q])}
  ELSE /\ content' = [content EXCEPT ![q] = Append(@, f)]
       /\ UNCHANGED lost

Put ==
  /\ loop = Free /\ scheduled # <<>>
  /\ PutDroppingOldest(Head(scheduled).to, Head(scheduled).frame)
  /\ scheduled' = Tail(scheduled)
  /\ UNCHANGED <<workerVars, queue, viewerVars>>

-----------------------------------------------------------------------------
(* A handler.  Its client may be gone by the time it sends: the send       *)
(* raises, and what was taken from the queue is lost to the others.        *)

Step(v, to) == vpc' = [vpc EXCEPT ![v] = to]

\* ingest_progress up to the first await: the snapshot is built.
Connect(v) ==
  /\ loop = Free /\ vpc[v] = "away"
  /\ snap' = [snap EXCEPT ![v] = pushed]
  /\ Step(v, "snapshot")
  /\ UNCHANGED <<workerVars, queue, content, scheduled, loop, mine, held, got, gone, lost>>

\* A client leaves at any time.
Leave(v) ==
  /\ vpc[v] \notin {"away", "closed"} /\ v \notin gone
  /\ gone' = gone \cup {v}
  /\ UNCHANGED <<workerVars, queue, content, scheduled, loop, vpc, mine, held, snap, got, lost>>

\* The snapshot is sent to a task still at work: _stream_loop begins.
Stream(v) ==
  /\ loop = Free /\ vpc[v] = "snapshot" /\ v \notin gone /\ ~ended
  /\ loop' = v
  /\ Step(v, "look")
  /\ UNCHANGED <<workerVars, queue, content, scheduled, mine, held, snap, got, gone, lost>>

\* ... or to a finished one: _drain_terminal_message empties the queue up to
\* its terminal frame, and one is built from the state if there was none.
Drain(v) ==
  /\ loop = Free /\ vpc[v] = "snapshot" /\ v \notin gone /\ ended
  /\ held' = [held EXCEPT ![v] = End]
  /\ Step(v, "send")
  /\ IF queue = "none" THEN UNCHANGED <<content, lost>>
     ELSE /\ content' = [content EXCEPT ![queue] = <<>>]
          /\ lost' = lost \cup (In(content[queue]) \ {End})
  /\ UNCHANGED <<workerVars, queue, scheduled, loop, mine, snap, got, gone>>

LookForQueue(v) ==
  /\ vpc[v] = "look"
  /\ Step(v, IF queue = "none" THEN "create" ELSE "listen")
  /\ UNCHANGED <<workerVars, queue, content, scheduled, loop, mine, held, snap, got, gone, lost>>

CreateQueue(v) ==
  /\ vpc[v] = "create"
  /\ queue' = "viewer"
  /\ Step(v, "listen")
  /\ UNCHANGED <<workerVars, content, scheduled, loop, mine, held, snap, got, gone, lost>>

Listen(v) ==
  /\ vpc[v] = "listen"
  /\ mine' = [mine EXCEPT ![v] = queue]
  /\ loop' = Free
  /\ Step(v, "get")
  /\ UNCHANGED <<workerVars, queue, content, scheduled, held, snap, got, gone, lost>>

Get(v) ==
  /\ loop = Free /\ vpc[v] \in {"get", "waiting"}
  /\ content[mine[v]] # <<>>
  /\ held' = [held EXCEPT ![v] = Head(content[mine[v]])]
  /\ content' = [content EXCEPT ![mine[v]] = Tail(@)]
  /\ Step(v, "send")
  /\ UNCHANGED <<workerVars, queue, scheduled, loop, mine, snap, got, gone, lost>>

Wait(v) ==
  /\ loop = Free /\ vpc[v] = "get" /\ content[mine[v]] = <<>>
  /\ Step(v, "waiting")
  /\ UNCHANGED <<workerVars, queue, content, scheduled, loop, mine, held, snap, got, gone, lost>>

\* Mutant: an idle stream never looks at the state.
IdleForever(v) == FALSE

\* Fifteen idle seconds; a frame that arrives just then stays in the queue.
IdleEnd(v) ==
  /\ loop = Free /\ vpc[v] = "waiting" /\ ended
  /\ held' = [held EXCEPT ![v] = End]
  /\ Step(v, "send")
  /\ UNCHANGED <<workerVars, queue, content, scheduled, loop, mine, snap, got, gone, lost>>

Heartbeat(v) ==
  /\ loop = Free /\ vpc[v] = "waiting" /\ ~ended
  /\ Step(v, IF v \in gone THEN "closed" ELSE "get")
  /\ UNCHANGED <<workerVars, queue, content, scheduled, loop, mine, held, snap, got, gone, lost>>

\* Mutant: the loop goes on after the terminal frame.
SentOn(v) ==
  /\ loop = Free /\ vpc[v] = "send" /\ v \notin gone
  /\ got' = [got EXCEPT ![v] = Append(@, held[v])]
  /\ Step(v, IF mine[v] = "none" THEN "closed" ELSE "get")
  /\ UNCHANGED <<workerVars, queue, content, scheduled, loop, mine, held, snap, gone, lost>>

Sent(v) ==
  /\ loop = Free /\ vpc[v] = "send" /\ v \notin gone
  /\ got' = [got EXCEPT ![v] = Append(@, held[v])]
  /\ Step(v, IF held[v] = End THEN "closed" ELSE "get")
  /\ UNCHANGED <<workerVars, queue, content, scheduled, loop, mine, held, snap, gone, lost>>

SendFails(v) ==
  /\ loop = Free /\ vpc[v] \in {"snapshot", "send"} /\ v \in gone
  /\ Step(v, "closed")
  /\ UNCHANGED <<workerVars, queue, content, scheduled, loop, mine, held, snap, got, gone, lost>>

-----------------------------------------------------------------------------
Worker == Work \/ MarkTerminal \/ SaveRow \/ SeeQueue \/ MakeQueue \/ Schedule

Handler(v) ==
  \/ Stream(v) \/ Drain(v) \/ LookForQueue(v) \/ CreateQueue(v) \/ Listen(v)
  \/ Get(v) \/ Wait(v) \/ IdleEnd(v) \/ Heartbeat(v) \/ Sent(v) \/ SendFails(v)

StreamNext == Worker \/ Put \/ \E v \in Viewers : Connect(v) \/ Leave(v) \/ Handler(v)

\* The worker ends (TaskManager), the loop runs its callbacks and resumes its
\* handlers, and a send to a client returns or raises.
StreamSpec == /\ StreamInit /\ [][StreamNext]_streamVars
              /\ WF_streamVars(Worker) /\ WF_streamVars(Put)
              /\ \A v \in Viewers : WF_streamVars(Handler(v))

-----------------------------------------------------------------------------

\* A task nobody watches holds at most Capacity frames, each one pushed once.
QueueBounded == \A q \in Queues : Len(content[q]) <= Capacity

\* _MESSAGE_QUEUE_MAXSIZE: "the terminal frame is always the last one pushed,
\* so it is always the newest and never dropped".
TerminalKept == End \notin lost

\* A client sees the frames in the order they were pushed, none twice, and
\* nothing after a terminal frame, queued or built from the state.
FramesInOrder ==
  \A v \in Viewers : \A i, j \in 1..Len(got[v]) : i < j => got[v][i] < got[v][j]

\* A frame a client did not see, of those before one it did see, is covered by
\* its snapshot, fell to the bound, went to another viewer, or was pushed to the
\* queue object that the race of the two makers left behind.
NothingSkipped ==
  \A v \in Viewers : \A k \in In(got[v]) \ {End} : \A f \in (snap[v] + 1)..(k - 1) :
    \/ f \in In(got[v]) \cup lost
    \/ \E w \in Viewers \ {v} : f \in In(got[w]) \cup {held[w]}
    \/ f \in In(content["worker"]) /\ queue = "viewer"

\* The frames of a client: in order, and none missing without a reason.
FramesSound == FramesInOrder /\ NothingSkipped

\* The bounded buffer: never too long, and never at the cost of the end.
BufferSound == QueueBounded /\ TerminalKept

\* However the queue was raced for or emptied by others, a client that stays
\* is told the end of the task.
ClientIsTold ==
  \A v \in Viewers : vpc[v] = "snapshot" ~> End \in In(got[v]) \/ v \in gone

-----------------------------------------------------------------------------
(* The inductive invariant behind TerminalKept: the worker pushes nothing  *)
(* after the terminal frame, and what was pushed before it is ahead of it. *)

BufferTypes ==
  /\ pushed \in 0..MaxFrames /\ ended \in BOOLEAN
  /\ wpc \in {"work", "persist", "see", "make", "schedule", "done"}
  /\ queue \in {"none"} \cup Queues
  /\ wpc = "schedule" => queue # "none"
  /\ wpc \in {"see", "make", "schedule"} => ended \/ pushed > 0
  /\ content \in [Queues -> Seq(Frames)]
  /\ scheduled \in Seq(Callbacks)
  /\ mine \in [Viewers -> {"none"} \cup Queues]

EndIsLast ==
  /\ wpc = "work" => ~ended
  /\ wpc = "persist" => ended
  /\ \A i \in 1..Len(scheduled) :
       scheduled[i].frame = End => i = Len(scheduled) /\ wpc = "done"
  /\ \A q \in Queues : \A i \in 1..Len(content[q]) :
       content[q][i] = End => Len(scheduled) = 0 /\ wpc = "done"

StreamInv == BufferTypes /\ EndIsLast /\ QueueBounded /\ TerminalKept

-----------------------------------------------------------------------------
(* The inductive invariant behind FramesSound: frames pass the callbacks,  *)
(* the queues and the clients in order, and none that the worker handed    *)
(* over is nowhere.                                                        *)

Rising(s)   == \A i, j \in 1..Len(s) : i < j => s[i] < s[j]
Ahead(S, T) == \A f \in S, g \in T : f < g

\* Of the callbacks in line: their frames, their only queue, and that they turn
\* to the queue of a handler once and for all.
FramesOf(s) == {s[i].frame : i \in 1..Len(s)}
AllTo(s, q) == \A i \in 1..Len(s) : s[i].to = q
TurnOnce(s) == \A i, j \in 1..Len(s) : i < j =>
                 /\ s[i].frame < s[j].frame
                 /\ s[i].to = "viewer" => s[j].to = "viewer"

Due     == FramesOf(scheduled)
Queued  == In(content["worker"]) \cup In(content["viewer"])
Handed  == 1..(IF ~ended /\ wpc # "work" THEN pushed - 1 ELSE pushed)
Seen(v) == (In(got[v]) \cup {held[v]}) \ {0, End}

ViewerTypes ==
  /\ vpc \in [Viewers -> {"away", "snapshot", "look", "create", "listen",
                          "get", "waiting", "send", "closed"}]
  /\ held \in [Viewers -> 0..End] /\ snap \in [Viewers -> Nat]
  /\ got \in [Viewers -> Seq(Frames)]
  /\ lost \subseteq Frames
  /\ \A v \in Viewers : /\ vpc[v] = "listen" => queue \in Queues
                        /\ vpc[v] \in {"get", "waiting"} => mine[v] \in Queues

\* The two queues and the callbacks hold successive stretches of the frames.
InOrder ==
  /\ TurnOnce(scheduled)
  /\ \A q \in Queues : Rising(content[q])
  /\ Ahead(Queued, Due) /\ Queued \cup Due \subseteq Handed \cup {End}
  /\ Ahead(In(content["worker"]), In(content["viewer"]))
  /\ content["viewer"] = <<>> \/ AllTo(scheduled, "viewer")

\* Nothing reaches the queue of a handler before it is the queue of the task.
ViewersQueue ==
  \/ queue = "viewer" /\ wpc # "make"
  \/ /\ content["viewer"] = <<>> /\ AllTo(scheduled, "worker")
     /\ \A v \in Viewers : mine[v] = "viewer" => Seen(v) = {}

\* What a client has is in order, the frame about to be sent the last ...
ClientInOrder(v) ==
  /\ Rising(got[v])
  /\ vpc[v] \in {"away", "snapshot", "look", "create", "listen"} => got[v] = <<>> /\ held[v] = 0
  /\ vpc[v] \in {"get", "waiting"} => End \notin In(got[v]) /\ held[v] \in In(got[v]) \cup {0}
  /\ vpc[v] \in {"send", "closed"} => held[v] \in In(got[v]) \cup {0} \/ Ahead(In(got[v]), {held[v]})
  /\ vpc[v] = "send" => held[v] # 0 /\ Ahead(In(got[v]), {held[v]})

\* ... and ahead of all it may yet be sent.
ClientAhead(v) ==
  /\ Seen(v) \subseteq Handed /\ Ahead(Seen(v), Due)
  /\ \/ Seen(v) = {}
     \/ mine[v] = "worker" /\ Ahead(Seen(v), Queued)
     \/ mine[v] = "viewer" /\ Ahead(Seen(v), In(content["viewer"]))

NoneNowhere ==
  \A f \in Handed : \/ f \in lost \cup Due \cup Queued
                    \/ \E v \in Viewers : f \in In(got[v]) \cup {held[v]}

FrameInv ==
  /\ ViewerTypes /\ InOrder /\ ViewersQueue /\ NoneNowhere
  /\ \A v \in Viewers : ClientInOrder(v) /\ ClientAhead(v)
=============================================================================
