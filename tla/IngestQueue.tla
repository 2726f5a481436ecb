----------------------------- MODULE IngestQueue -----------------------------
(***************************************************************************)
(* What the ingest task manager promises its clients, without threads or   *)
(* filings: a task is refused or becomes PENDING, at most MaxActive tasks  *)
(* are unfinished, one runs at a time, a terminal state is final, and the  *)
(* gate closes only on an idle queue and lets nothing in.                  *)
(***************************************************************************)
EXTENDS Naturals, FiniteSets

CONSTANTS Tasks, MaxActive

VARIABLES status, closed

Unfinished == {t \in Tasks : status[t] \in {"PENDING", "RUNNING"}}

Init == status = [t \in Tasks |-> "absent"] /\ closed = FALSE

Become(t, s) == status' = [status EXCEPT ![t] = s] /\ UNCHANGED closed

Submit(t) ==
  /\ status[t] = "absent" /\ ~closed
  /\ Cardinality(Unfinished) < MaxActive
  /\ Become(t, "PENDING")

Begin(t) ==
  /\ status[t] = "PENDING"
  /\ \A u \in Tasks : status[u] # "RUNNING"
  /\ Become(t, "RUNNING")

End(t) ==
  /\ status[t] = "RUNNING"
  /\ \E s \in {"COMPLETED", "FAILED", "CANCELLED"} : Become(t, s)

Withdraw(t) == status[t] = "PENDING" /\ Become(t, "CANCELLED")

Close == Unfinished = {} /\ ~closed /\ closed' = TRUE /\ UNCHANGED status
Open  == closed /\ closed' = FALSE /\ UNCHANGED status

Next == (\E t \in Tasks : Submit(t) \/ Begin(t) \/ End(t) \/ Withdraw(t)) \/ Close \/ Open

Spec == Init /\ [][Next]_<<status, closed>>
=============================================================================
