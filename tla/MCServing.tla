----------------------------- MODULE MCServing ------------------------------
(***************************************************************************)
(* Three things a worker process serves and that share no state in the     *)
(* models: the gates before a handler, the model catalogue and the         *)
(* progress stream of a task.  A behaviour exercises one of them while the *)
(* others stand still; the gates either through time or over every path    *)
(* and body.                                                               *)
(***************************************************************************)
EXTENDS Catalogue, Requests, TaskStream, TLC

VARIABLE part

\* Two curated models, and upstream documents with an alias before and after
\* the served key, other spellings, a new model, rows out of bounds.
CRow(f, w, c) == [flag |-> f, window |-> w, cost |-> c]
CE(id, s, r) == [id |-> id, slug |-> s, row |-> r]
MCBaseline == (<<"m", 2>> :> CRow(TRUE, "known", "low"))
              @@ (<<"n", 2>> :> CRow(FALSE, "unknown", "low"))
MCDocuments ==
  { <<CE("google", <<"m", 2>>, CRow(FALSE, "unknown", "none")),
      CE("gemini", <<"m", 2>>, CRow(FALSE, "new", "high")),
      CE("vertex_ai", <<"m", 2>>, CRow(TRUE, "new", "low"))>>,
    <<CE("gemini", <<"m", 0>>, CRow(FALSE, "unknown", "negative")),
      CE("google", <<"m", 1>>, CRow(FALSE, "new", "high")),
      CE("google", <<"q", 0>>, CRow(TRUE, "unknown", "none"))>>,
    <<CE("other", <<"m", 2>>, CRow(FALSE, "infinite", "huge")),
      CE("gemini", <<"n", 0>>, CRow(TRUE, "known", "huge"))>>,
    <<CE("gemini", <<"n", 2>>, CRow(TRUE, "infinite", "low"))>> }

\* Validations and logins through the windows; every entry of the table, and
\* a path below it, with a body of declared and of streamed sizes about a cap.
MCCall(path, method, ip, session, user, declared, body) ==
  [path |-> path, method |-> method, ip |-> ip, session |-> session, user |-> user,
   declared |-> declared, body |-> body]
WindowCalls ==
  {MCCall(<<"providers", "validate">>, "POST", "i1", s, "none", -1, <<>>) :
     s \in {"none", "s1"}}
MCCalls ==
  WindowCalls
  \cup {MCCall(<<"auth", "login">>, "POST", "i1", "none", "u1", -1, b) :
          b \in {<<1>>, <<1, 1>>}}
  \cup {MCCall(<<"session", "edgar">>, "POST", "i1", "none", "none", d, b) :
          d \in {-2, -1, 4, 5}, b \in {<<>>, <<4>>, <<3, 1>>, <<4, 1>>}}
  \cup {MCCall(RoutePolicies[i].prefix \o below, m, "i1", "none", "none", -1, <<>>) :
          i \in 1..Len(RoutePolicies), below \in {<<>>, <<"x">>},
          m \in {"GET", "POST", "DELETE"}}
MCLimits == [c \in {"validate", "login"} |-> IF c = "login" THEN 0 ELSE 2]

ServingInit ==
  /\ part \in {"windows", "bodies", "catalogue", "stream"}
  /\ CatalogueInit /\ RequestsInit /\ StreamInit
ServingNext ==
  /\ UNCHANGED part
  /\ \/ part = "windows" /\ RequestsNext /\ (stage' = "gate" => call' \in WindowCalls)
        /\ UNCHANGED <<catalogueVars, streamVars>>
     \/ part = "bodies" /\ RequestsNext /\ now' = 0 /\ UNCHANGED <<catalogueVars, streamVars>>
     \/ part = "catalogue" /\ CatalogueNext /\ UNCHANGED <<requestVars, streamVars>>
     \/ part = "stream" /\ StreamNext /\ UNCHANGED <<requestVars, catalogueVars>>

\* The fairness of StreamSpec.
ServingVars == <<part, catalogueVars, requestVars, streamVars>>
OfStream == part = "stream" /\ UNCHANGED <<part, requestVars, catalogueVars>>
ServingSpec ==
  /\ ServingInit /\ [][ServingNext]_ServingVars
  /\ WF_ServingVars(OfStream /\ Worker) /\ WF_ServingVars(OfStream /\ Put)
  /\ \A v \in Viewers : WF_ServingVars(OfStream /\ Handler(v))
=============================================================================
