---------------------------- MODULE SessionIndex ----------------------------
(***************************************************************************)
(* session-index.jsonl and the processes that rewrite it: the hooks, the   *)
(* update command, sync-db and the backfill worker.  Each call runs        *)
(* withLockedIndex: flock <index>.lock, read the whole file, compute the   *)
(* new lines, write them line by line to a temporary file, rename it over  *)
(* the index, unlock.  A process may die anywhere, any I/O may fail.       *)
(*                                                                         *)
(* A file that does not exist and the empty file are the same value <<>>:  *)
(* withLockedIndex hands both to the update as no lines.                   *)
(***************************************************************************)
EXTENDS SessionRows

CONSTANTS
  Writer,      \* process identities; a process makes one call at a time
  Op,          \* the calls made, a subset of OpType
  InitIndex,   \* the contents the file may start with
  MaxCalls,    \* bound: calls made in a behaviour
  MaxCrashes   \* bound: processes that die in a behaviour

\* SessionStart appends rows nothing has been found out about yet.
FreshRow ==
  {r \in Row : /\ r.id # None /\ r.urls = {} /\ r.last = None
               /\ ~r.pinned /\ ~r.checked /\ ~r.merged}

OpType ==
  [kind : {"append"}, row : FreshRow] \cup
  [kind : {"update"}, id : SessionId, add : Seq(Url)] \cup
  [kind : {"by_branch"}, repo : Repo, branch : Branch, url : Url] \cup
  [kind : {"mark"}, ids : SUBSET SessionId] \cup
  [kind : {"end"}, id : SessionId, at : Stamp] \cup
  [kind : {"user"}, user : User] \cup
  [kind : {"batch"}, batch : Batch]

ASSUME IndexAssumption ==
  /\ Op \subseteq OpType
  /\ InitIndex \subseteq Seq(Row)
  /\ \A rows \in InitIndex : \A i \in DOMAIN rows : PinnedRow(rows[i])
  /\ None \notin Writer /\ None \notin Op
  /\ MaxCalls \in Nat /\ MaxCrashes \in Nat

VARIABLES
  index,    \* the lines of the file at the index path
  lock,     \* the holder of the flock, or None
  pc,       \* how far each process is in withLockedIndex
  op,       \* the call each process is making, or None
  copy,     \* the lines it read
  next,     \* the lines it is writing
  written,  \* how many of them its temporary file holds
  outcome,  \* what the call will return: "done", "refused" (an error), or "none"
  calls, crashes  \* how much of the bounds is used

vars == <<index, lock, pc, op, copy, next, written, outcome, calls, crashes>>

-----------------------------------------------------------------------------
\* The contents call o can leave in a file that holds rows.
Results(o, rows) ==
  CASE o.kind = "append"    -> {Append(rows, o.row)}
    [] o.kind = "update"    -> {ApplyUpdate(rows, rows, [x \in {o.id} |-> o.add])}
    [] o.kind = "by_branch" -> {UpdateByBranch(rows, o.repo, o.branch, o.url)}
    [] o.kind = "mark"      -> {ApplyMarkChecked(rows, rows, o.ids)}
    [] o.kind = "end"       -> {ApplyUpdateEnd(rows, rows, [x \in {o.id} |-> o.at])}
    [] o.kind = "user"      -> {FillUser(rows, o.user)}
    [] o.kind = "batch"     -> ApplyBatchToRaw(rows, o.batch)

\* Only the worker's ApplyBatch gives way to a held lock; the others wait.
NonBlocking(o) == o.kind = "batch"

Init ==
  /\ index \in InitIndex
  /\ lock = None
  /\ pc = [w \in Writer |-> "idle"]
  /\ op = [w \in Writer |-> None]
  /\ copy = [w \in Writer |-> <<>>]
  /\ next = [w \in Writer |-> <<>>]
  /\ written = [w \in Writer |-> 0]
  /\ outcome = [w \in Writer |-> "none"]
  /\ calls = 0
  /\ crashes = 0

Goto(w, from, to) == pc[w] = from /\ pc' = [pc EXCEPT ![w] = to]

Begin(w) ==
  /\ calls < MaxCalls
  /\ Goto(w, "idle", "want")
  /\ \E o \in Op : op' = [op EXCEPT ![w] = o]
  /\ calls' = calls + 1
  /\ UNCHANGED <<index, lock, copy, next, written, outcome, crashes>>

\* Mutant: the file is rewritten without the flock.
AcquireUnlocked(w) ==
  /\ Goto(w, "want", "locked")
  /\ lock' = w
  /\ UNCHANGED <<index, op, copy, next, written, outcome, calls, crashes>>

Acquire(w) ==
  /\ lock = None
  /\ Goto(w, "want", "locked")
  /\ lock' = w
  /\ UNCHANGED <<index, op, copy, next, written, outcome, calls, crashes>>

\* Mutant: the call that gives way unlocks the file all the same.
BusyUnlocks(w) ==
  /\ Goto(w, "want", "return")
  /\ NonBlocking(op[w])
  /\ lock # None
  /\ outcome' = [outcome EXCEPT ![w] = "refused"]
  /\ lock' = None
  /\ UNCHANGED <<index, op, copy, next, written, calls, crashes>>

Busy(w) ==
  /\ Goto(w, "want", "return")
  /\ NonBlocking(op[w])
  /\ lock # None
  /\ outcome' = [outcome EXCEPT ![w] = "refused"]
  /\ UNCHANGED <<index, lock, op, copy, next, written, calls, crashes>>

Read(w) ==
  /\ Goto(w, "locked", "read")
  /\ copy' = [copy EXCEPT ![w] = index]
  /\ UNCHANGED <<index, lock, op, next, written, outcome, calls, crashes>>

\* The update changes no line: withLockedIndex returns without writing.
Unchanged(w) ==
  /\ Goto(w, "read", "unlock")
  /\ copy[w] \in Results(op[w], copy[w])
  /\ outcome' = [outcome EXCEPT ![w] = "done"]
  /\ UNCHANGED <<index, lock, op, copy, next, written, calls, crashes>>

Change(w) ==
  /\ Goto(w, "read", "write")
  /\ \E rows \in Results(op[w], copy[w]) :
       rows # copy[w] /\ next' = [next EXCEPT ![w] = rows]
  /\ written' = [written EXCEPT ![w] = 0]
  /\ UNCHANGED <<index, lock, op, copy, outcome, calls, crashes>>

\* Mutant: one line too many.
WriteLineTooMany(w) ==
  /\ pc[w] = "write"
  /\ written[w] <= Len(next[w])
  /\ written' = [written EXCEPT ![w] = @ + 1]
  /\ UNCHANGED <<index, lock, pc, op, copy, next, outcome, calls, crashes>>

WriteLine(w) ==
  /\ pc[w] = "write"
  /\ written[w] < Len(next[w])
  /\ written' = [written EXCEPT ![w] = @ + 1]
  /\ UNCHANGED <<index, lock, pc, op, copy, next, outcome, calls, crashes>>

\* Mutant: the temporary file replaces the index before it is complete.
RenameEarly(w) ==
  /\ Goto(w, "write", "unlock")
  /\ index' = SubSeq(next[w], 1, written[w])
  /\ outcome' = [outcome EXCEPT ![w] = "done"]
  /\ UNCHANGED <<lock, op, copy, next, written, calls, crashes>>

\* After the last line is flushed and synced, the temporary file becomes the index.
Rename(w) ==
  /\ Goto(w, "write", "unlock")
  /\ written[w] = Len(next[w])
  /\ index' = SubSeq(next[w], 1, written[w])
  /\ outcome' = [outcome EXCEPT ![w] = "done"]
  /\ UNCHANGED <<lock, op, copy, next, written, calls, crashes>>

\* Mutant: an error returns without the unlock.
FailLocked(w) ==
  /\ pc[w] \in {"want", "locked", "write"}
  /\ pc' = [pc EXCEPT ![w] = "return"]
  /\ outcome' = [outcome EXCEPT ![w] = "refused"]
  /\ UNCHANGED <<index, lock, op, copy, next, written, calls, crashes>>

\* An I/O error: the lock file cannot be opened, or reading or writing fails,
\* in which case the temporary file is removed and the lock released.
Fail(w) ==
  /\ pc[w] \in {"want", "locked", "write"}
  /\ pc' = [pc EXCEPT ![w] = IF @ = "want" THEN "return" ELSE "unlock"]
  /\ outcome' = [outcome EXCEPT ![w] = "refused"]
  /\ UNCHANGED <<index, lock, op, copy, next, written, calls, crashes>>

Unlock(w) ==
  /\ Goto(w, "unlock", "return")
  /\ lock' = None
  /\ UNCHANGED <<index, op, copy, next, written, outcome, calls, crashes>>

\* The process forgets everything it held.
Forget(w) ==
  /\ pc' = [pc EXCEPT ![w] = "idle"]
  /\ op' = [op EXCEPT ![w] = None]
  /\ copy' = [copy EXCEPT ![w] = <<>>]
  /\ next' = [next EXCEPT ![w] = <<>>]
  /\ written' = [written EXCEPT ![w] = 0]
  /\ outcome' = [outcome EXCEPT ![w] = "none"]

Return(w) ==
  /\ pc[w] = "return"
  /\ Forget(w)
  /\ UNCHANGED <<index, lock, calls, crashes>>

\* The kernel drops the flock of a process that dies.
Crash(w) ==
  /\ crashes < MaxCrashes
  /\ pc[w] # "idle"
  /\ Forget(w)
  /\ lock' = IF lock = w THEN None ELSE lock
  /\ crashes' = crashes + 1
  /\ UNCHANGED <<index, calls>>

\* The steps of a call that is under way.
Step(w) ==
  \/ Busy(w) \/ Read(w) \/ Unchanged(w) \/ Change(w) \/ WriteLine(w)
  \/ Rename(w) \/ Unlock(w) \/ Return(w)

Next == \E w \in Writer : Begin(w) \/ Acquire(w) \/ Step(w) \/ Fail(w) \/ Crash(w)

Spec == Init /\ [][Next]_vars

\* Processes keep running, and a waiter that finds the lock free again and
\* again gets it: flock wakes its waiters.
FairSpec ==
  /\ Spec
  /\ \A w \in Writer : WF_vars(Step(w)) /\ SF_vars(Acquire(w))

-----------------------------------------------------------------------------
InCritical == {"locked", "read", "write", "unlock"}

\* Every variable keeps its type; a temporary file never holds more than the
\* lines WriteAll was given.
TypeOK ==
  /\ index \in Seq(Row)
  /\ lock \in OrNone(Writer)
  /\ pc \in [Writer -> {"idle", "want", "return"} \cup InCritical]
  /\ op \in [Writer -> OrNone(Op)]
  /\ copy \in [Writer -> Seq(Row)]
  /\ next \in [Writer -> Seq(Row)]
  /\ written \in [Writer -> Nat]
  /\ \A w \in Writer : written[w] <= Len(next[w])
  /\ outcome \in [Writer -> {"none", "done", "refused"}]
  /\ calls \in 0..MaxCalls
  /\ crashes \in 0..MaxCrashes

\* The flock is held by exactly the process between Lock and Unlock, whatever
\* crashed or failed before.
LockHeld == \A w \in Writer : pc[w] \in InCritical <=> lock = w

\* What a lock holder read is still what the file holds when it replaces the
\* file: no rewrite is computed from a stale copy (design.md's lost update).
CopyIsCurrent ==
  \A w \in Writer : pc[w] \in {"read", "write"} => copy[w] = index

\* The lines on their way to the file are a result of the call for that copy.
NextIsResult ==
  \A w \in Writer : pc[w] = "write" => next[w] \in Results(op[w], copy[w])

\* A call has its operation from start to return, and an outcome once decided.
CallState ==
  \A w \in Writer :
    /\ pc[w] = "idle" <=> op[w] = None
    /\ outcome[w] # "none" <=> pc[w] \in {"unlock", "return"}

LockInv == LockHeld /\ CopyIsCurrent /\ NextIsResult /\ CallState

\* The status of a call as its caller could see it.
Status ==
  [w \in Writer |->
     IF pc[w] = "idle" THEN "idle"
     ELSE IF outcome[w] = "none" THEN "pending" ELSE outcome[w]]

Abstract == INSTANCE AtomicIndex WITH status <- Status

\* The locked read-modify-rename is a linearizable object: it implements
\* AtomicIndex, in which every call is one atomic step.
Linearizable == Abstract!Spec

-----------------------------------------------------------------------------
\* Every pinned session is attributed to exactly one URL, whatever batch pinned
\* it and appended to it in the same run.
PinnedIsSingle == \A i \in DOMAIN index : PinnedRow(index[i])

\* No step loses or reorders a line, or takes back what a line established: a
\* SessionStart append survives every rewrite that was under way when it
\* happened, and so does every mark, pin, end and URL.
RowsAdvance ==
  [][/\ Len(index) <= Len(index')
     /\ \A i \in DOMAIN index : Advances(index[i], index'[i])]_vars

\* Once pinned, the URL of a session changes only by another pin of that
\* session: nothing PostToolUse, update or backfill appends reaches it.
PinnedUrlStable ==
  [][\A i \in DOMAIN index :
       index[i].pinned /\ index'[i].last # index[i].last =>
         \E w \in Writer : /\ pc[w] = "write" /\ NonBlocking(op[w])
                           /\ EntryOf(op[w].batch.pins, index[i].id) # None]_vars

\* Every call that waits for the lock or holds it returns.
EveryCallReturns == \A w \in Writer : pc[w] = "want" ~> pc[w] = "idle"
=============================================================================
