----------------------------- MODULE AtomicIndex -----------------------------
(***************************************************************************)
(* What session-index.jsonl promises its writers: every call takes effect  *)
(* at one instant between its start and its return, on the file as it is   *)
(* at that instant, or not at all.  A call that returns without an error   *)
(* took effect; one that is refused (ErrLockBusy, an I/O error) did not;   *)
(* one whose process dies did either.                                      *)
(***************************************************************************)
EXTENDS SessionRows

CONSTANTS
  Writer,      \* the processes that rewrite the file
  Op,          \* the calls they make
  Results(_, _), \* the contents call o may leave where it found rows
  InitIndex    \* the contents the file may start with

VARIABLES index, op, status

vars == <<index, op, status>>

Init ==
  /\ index \in InitIndex
  /\ op = [w \in Writer |-> None]
  /\ status = [w \in Writer |-> "idle"]

Invoke(w, o) ==
  /\ status[w] = "idle"
  /\ status' = [status EXCEPT ![w] = "pending"]
  /\ op' = [op EXCEPT ![w] = o]
  /\ UNCHANGED index

Commit(w) ==
  /\ status[w] = "pending"
  /\ index' \in Results(op[w], index)
  /\ status' = [status EXCEPT ![w] = "done"]
  /\ UNCHANGED op

Refuse(w) ==
  /\ status[w] = "pending"
  /\ status' = [status EXCEPT ![w] = "refused"]
  /\ UNCHANGED <<index, op>>

\* The call returns, or its process dies.
Leave(w) ==
  /\ status[w] # "idle"
  /\ status' = [status EXCEPT ![w] = "idle"]
  /\ op' = [op EXCEPT ![w] = None]
  /\ UNCHANGED index

Next ==
  \E w \in Writer :
    \/ \E o \in Op : Invoke(w, o)
    \/ Commit(w)
    \/ Refuse(w)
    \/ Leave(w)

Spec == Init /\ [][Next]_vars
=============================================================================
