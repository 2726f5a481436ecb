------------------------------ MODULE Requests ------------------------------
(***************************************************************************)
(* What stands before a handler of the API: the policy table               *)
(* (api/policies.py), the sliding windows by address, by session and, in   *)
(* the login route, by user name, and the cap on a body as it streams in   *)
(* (api/middleware.py, api/routes/auth.py).  The windows are asked on the  *)
(* event loop, so a request's gates are one step; time is counted in half  *)
(* seconds, Retry-After in seconds.                                        *)
(***************************************************************************)
EXTENDS Integers, FiniteSets, Sequences, SequencesExt, FiniteSetsExt

CONSTANTS Calls,        \* what clients may send: [path, method, ip, session, user, declared, body]
          Limits,       \* requests per window of a category; 0 disables it
          SessionLimit, \* validations per session and window
          UserLimit,    \* logins per user name and window
          Window,       \* the window, in seconds
          Cleanup,      \* _CLEANUP_INTERVAL, in half seconds
          Ceiling,      \* the middleware's max_bytes, in KiB
          MaxTicks      \* bound: half seconds

ASSUME RequestsAssumption ==
  /\ Window \in Nat \ {0} /\ Cleanup \in Nat /\ Ceiling \in Nat /\ MaxTicks \in Nat
  /\ SessionLimit \in Nat /\ UserLimit \in Nat
  /\ \A c \in DOMAIN Limits : Limits[c] \in Nat
  /\ {"by session", "by user"} \cap DOMAIN Limits = {}
  /\ Calls # {} /\ \A c \in Calls : c.body \in Seq(Nat) /\ c.declared \in Int

VARIABLES
  now,      \* half seconds
  stamps,   \* stamps[w]: the deques of a window, by key
  cleaned,  \* cleaned[w]: its last cleanup
  call,     \* the request in hand
  stage,    \* where it is
  seen,     \* bytes of its body counted, in KiB
  fed,      \* of them, what the application was given
  chunk,    \* next chunk of its body
  over,     \* the count went over the cap
  sent,     \* the statuses sent: http.response.start
  passed,   \* history: when each key of each window passed, the last window's
  refused   \* history: when a refused key was told to try again, -1 for none

windowVars == <<now, stamps, cleaned, passed, refused>>
bodyVars == <<seen, fed, chunk, over, sent>>
requestVars == <<windowVars, bodyVars, call, stage>>

-----------------------------------------------------------------------------
(* The policy table: first hit wins.                                       *)

P(prefix, method, category, cap) ==
  [prefix |-> prefix, method |-> method, category |-> category, cap |-> cap]

SessionAndUserPolicies ==
  << P(<<"health">>, "any", "none", 1),
     P(<<"session", "edgar">>, "any", "session", 4),
     P(<<"session">>, "any", "session", 1),
     P(<<"auth", "login-params">>, "GET", "login", 1),
     P(<<"auth", "login">>, "POST", "login", 1),
     P(<<"auth", "password">>, "POST", "session", 4),
     P(<<"auth", "session">>, "DELETE", "session", 1),
     P(<<"admin", "users">>, "any", "delete", 4),
     P(<<"admin", "demo-reset">>, "POST", "delete", 1) >>

CorpusPolicies ==
  << P(<<"providers", "validate">>, "POST", "validate", 16),
     P(<<"providers", "catalogue">>, "POST", "delete", 1),
     P(<<"providers">>, "GET", "general", 1),
     P(<<"search">>, "POST", "search", 32),
     P(<<"rag", "plan">>, "POST", "rag", 16),
     P(<<"rag", "query">>, "POST", "rag", 64),
     P(<<"rag", "stream">>, "POST", "rag", 64),
     P(<<"ingest">>, "POST", "ingest", 64),
     P(<<"filings", "delete-by-ids">>, "POST", "delete", 64),
     P(<<"filings", "bulk-delete">>, "POST", "delete", 16),
     P(<<"filings">>, "DELETE", "delete", 1),
     P(<<"filings">>, "GET", "general", 1),
     P(<<"status">>, "any", "general", 1),
     P(<<"resources">>, "any", "general", 1),
     P(<<"metrics">>, "any", "general", 1) >>

RoutePolicies == SessionAndUserPolicies \o CorpusPolicies
DefaultPolicy == P(<<>>, "any", "general", 1024)

Hits(path, method) ==
  {i \in 1..Len(RoutePolicies) :
     /\ IsPrefix(RoutePolicies[i].prefix, path)
     /\ RoutePolicies[i].method \in {"any", method}}

ResolvePolicy(path, method) ==
  IF Hits(path, method) = {} THEN DefaultPolicy ELSE RoutePolicies[Min(Hits(path, method))]

Policy == ResolvePolicy(call.path, call.method)

-----------------------------------------------------------------------------
(* _SlidingWindow: one per category, one for sessions, one for user names. *)

Ticks == 2 * Window

\* What is left of a deque at t: stale stamps are popped from its left end.
Oldest(s, t) ==
  CHOOSE i \in 1..Len(s) + 1 : /\ \A j \in 1..i - 1 : s[j] <= t - Ticks
                               /\ i <= Len(s) => s[i] > t - Ticks
Live(s, t) == SubSeq(s, Oldest(s, t), Len(s))

\* Mutant: a key whose oldest stamp is stale goes.
PruneByOldest(w, t) ==
  [k \in DOMAIN stamps[w] |->
    IF stamps[w][k] = <<>> \/ Head(stamps[w][k]) <= t - Ticks THEN <<>> ELSE stamps[w][k]]

\* _prune: a key whose newest stamp is stale goes.
Prune(w, t) ==
  [k \in DOMAIN stamps[w] |->
    IF stamps[w][k] = <<>> \/ Last(stamps[w][k]) <= t - Ticks THEN <<>> ELSE stamps[w][k]]

Deque(w, k) ==
  Live(IF now - cleaned[w] > Cleanup THEN Prune(w, now)[k] ELSE stamps[w][k], now)

LimitOf(w) == CASE w = "by session" -> SessionLimit [] w = "by user" -> UserLimit
                [] OTHER -> Limits[w]

Allowed(w, k) == Len(Deque(w, k)) < LimitOf(w)

\* int(window - age of the oldest) + 1, at least 1.
RetryAfter(w, k) == Max({(Ticks - (now - Head(Deque(w, k)))) \div 2 + 1, 1})

\* is_allowed of the windows a request goes through, in order: it takes a
\* stamp in each it passes and stops at the first that refuses it.
Ask(gates) ==
  LET stop == {i \in 1..Len(gates) : ~Allowed(gates[i][1], gates[i][2])}
      upTo == IF stop = {} THEN Len(gates) ELSE Min(stop)
      asked(w) == {i \in 1..upTo : gates[i][1] = w}
      key(w) == gates[Min(asked(w))][2]
      passes(w) == asked(w) # {} /\ Min(asked(w)) \notin stop
      cleans(w) == asked(w) # {} /\ now - cleaned[w] > Cleanup
      kept(w) == IF cleans(w) THEN Prune(w, now) ELSE stamps[w]
  IN /\ stamps' = [w \in DOMAIN stamps |->
           IF asked(w) = {} THEN stamps[w]
           ELSE [kept(w) EXCEPT ![key(w)] = IF passes(w) THEN Append(Deque(w, key(w)), now)
                                            ELSE Deque(w, key(w))]]
     /\ cleaned' = [w \in DOMAIN cleaned |-> IF cleans(w) THEN now ELSE cleaned[w]]
     /\ passed' = [w \in DOMAIN passed |->
           IF passes(w) THEN [passed[w] EXCEPT ![key(w)] = Append(@, now)] ELSE passed[w]]
     /\ refused' = [w \in DOMAIN refused |->
           IF asked(w) = {} THEN refused[w]
           ELSE [refused[w] EXCEPT ![key(w)] =
                   IF passes(w) THEN -1 ELSE now + 2 * RetryAfter(w, key(w))]]
     /\ now' = now

Refuses(gates) == \E i \in 1..Len(gates) : ~Allowed(gates[i][1], gates[i][2])

\* The windows of a request: its category's by address, and for a validation
\* with a session cookie that session's.
Gates ==
  LET c == Policy.category
  IN IF c \notin DOMAIN Limits \/ Limits[c] = 0 THEN <<>>
     ELSE << <<c, call.ip>> >> \o
          (IF c = "validate" /\ SessionLimit > 0 /\ call.session # "none"
           THEN << <<"by session", call.session>> >> ELSE <<>>)

UserGate == IF call.path = <<"auth", "login">> /\ call.method = "POST" /\ UserLimit > 0
            THEN << <<"by user", call.user>> >> ELSE <<>>

-----------------------------------------------------------------------------
(* A request.                                                              *)

Send(status) == sent' = Append(sent, status)

Arrive ==
  /\ stage = "idle"
  /\ call' \in Calls /\ stage' = "gate"
  /\ UNCHANGED <<windowVars, bodyVars>>

\* RateLimitMiddleware.
RateLimit ==
  /\ stage = "gate"
  /\ Ask(Gates)
  /\ IF Refuses(Gates) THEN Send(429) /\ stage' = "end"
     ELSE stage' = "size" /\ UNCHANGED sent
  /\ UNCHANGED <<call, seen, fed, chunk, over>>

Cap == Min({Policy.cap, Ceiling})

\* ContentSizeLimitMiddleware: the declared length.
ContentLength ==
  /\ stage = "size"
  /\ \/ call.declared = -2 /\ Send(400) /\ stage' = "end"
     \/ call.declared > Cap /\ Send(413) /\ stage' = "end"
     \/ call.declared \in -1 .. Cap /\ stage' = "application" /\ UNCHANGED sent
  /\ UNCHANGED <<windowVars, call, seen, fed, chunk, over>>

\* receive_with_limit: a chunk that goes over ends the body for the application.
Receive ==
  /\ stage = "application" /\ chunk <= Len(call.body) /\ ~over
  /\ seen' = seen + call.body[chunk] /\ chunk' = chunk + 1
  /\ over' = (seen' > Cap)
  /\ fed' = IF over' THEN fed ELSE seen'
  /\ UNCHANGED <<windowVars, call, stage, sent>>

Drained == over \/ chunk > Len(call.body)

\* send_with_guard: the application's answer, swallowed once over the cap.  The
\* login route asks its own window before it answers.
Respond ==
  /\ stage = "application" /\ (UserGate # <<>> => Drained)
  /\ IF over /\ UserGate # <<>> THEN UNCHANGED windowVars ELSE Ask(UserGate)
  /\ IF over THEN UNCHANGED sent ELSE Send(IF Refuses(UserGate) THEN 429 ELSE 200)
  /\ stage' = "responded"
  /\ UNCHANGED <<call, seen, fed, chunk, over>>

\* A handler that goes on reading after it began to answer.
ReadOn ==
  /\ stage = "responded" /\ chunk <= Len(call.body) /\ ~over
  /\ seen' = seen + call.body[chunk] /\ chunk' = chunk + 1
  /\ over' = (seen' > Cap)
  /\ fed' = IF over' THEN fed ELSE seen'
  /\ UNCHANGED <<windowVars, call, stage, sent>>

\* Mutant: the 413 is sent whether or not an answer has begun.
ReturnUnguarded ==
  /\ stage = "responded"
  /\ IF over THEN Send(413) ELSE UNCHANGED sent
  /\ stage' = "end"
  /\ UNCHANGED <<windowVars, call, seen, fed, chunk, over>>

\* The application returns: 413 when over the cap and no answer has begun.
Return ==
  /\ stage = "responded"
  /\ IF over /\ sent = <<>> THEN Send(413) ELSE UNCHANGED sent
  /\ stage' = "end"
  /\ UNCHANGED <<windowVars, call, seen, fed, chunk, over>>

\* The request is gone with its locals.
Nobody == CHOOSE c \in Calls : TRUE
Fresh == seen' = 0 /\ fed' = 0 /\ chunk' = 1 /\ over' = FALSE /\ sent' = <<>>
AnswerSent ==
  /\ stage = "end" /\ stage' = "idle"
  /\ call' = Nobody /\ Fresh
  /\ UNCHANGED windowVars

Windows == DOMAIN Limits \cup {"by session", "by user"}
Keys == UNION {{c.ip, c.session, c.user} : c \in Calls}

\* Time passes between requests: the gates and a handler's read of its
\* window are instants of the loop.
HalfSecond ==
  /\ stage = "idle" /\ now < MaxTicks /\ now' = now + 1
  /\ passed' = [w \in Windows |-> [k \in Keys |-> Live(passed[w][k], now')]]
  /\ UNCHANGED <<stamps, cleaned, refused, bodyVars, call, stage>>

RequestsInit ==
  /\ now = 0 /\ stage = "idle" /\ call = Nobody
  /\ stamps = [w \in Windows |-> [k \in Keys |-> <<>>]]
  /\ passed = [w \in Windows |-> [k \in Keys |-> <<>>]]
  /\ refused = [w \in Windows |-> [k \in Keys |-> -1]]
  /\ cleaned = [w \in Windows |-> 0]
  /\ seen = 0 /\ fed = 0 /\ chunk = 1 /\ over = FALSE /\ sent = <<>>

RequestsNext ==
  \/ Arrive \/ RateLimit \/ ContentLength \/ Receive \/ Respond \/ ReadOn \/ Return \/ AnswerSent \/ HalfSecond

RequestsSpec == RequestsInit /\ [][RequestsNext]_requestVars

-----------------------------------------------------------------------------
(* In no span of a window do more requests of one key pass than its limit, *)
(* whatever the cleanup deletes meanwhile (api/middleware.py:466).         *)
AtMostLimit ==
  \A w \in Windows, k \in Keys :
    Cardinality({i \in DOMAIN passed[w][k] : passed[w][k][i] > now - Ticks}) <= LimitOf(w)

(* A client that waits as long as Retry-After told it, while no other      *)
(* request of its key passes, is let through (api/middleware.py:479).      *)
RetryAfterSuffices ==
  \A w \in Windows, k \in Keys :
    refused[w][k] # -1 /\ now >= refused[w][k] => Allowed(w, k)

(* A request is answered once: no second start follows one on the wire,    *)
(* none is left without, and the application is never given more of the    *)
(* body than the cap, declared or streamed (api/middleware.py:262).        *)
OneAnswer ==
  /\ Len(sent) <= 1 /\ (stage = "end" => Len(sent) = 1)
  /\ stage \in {"application", "responded"} => fed <= Cap

(* The sliding window is exact from both sides.                            *)
WindowExact == AtMostLimit /\ RetryAfterSuffices
=============================================================================
