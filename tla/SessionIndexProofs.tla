-------------------------- MODULE SessionIndexProofs --------------------------
(***************************************************************************)
(* The lock protocol of session-index.jsonl is correct for any number of   *)
(* processes, any calls and any contents: types, mutual exclusion, no      *)
(* stale rewrite, pins, monotonicity, and linearizability.                 *)
(*                                                                         *)
(* The argument: the flock makes copy[w] the current file for its holder   *)
(* (CopyIsCurrent), so what the holder renames into place is a result of   *)
(* its call for the file as it is at the rename (NextIsResult); every      *)
(* result evolves the file line by line (ResultsGrow).                     *)
(***************************************************************************)
EXTENDS SessionIndex, SessionRowsProofs

\* out is rows with every line evolved and lines without a stray pin appended.
Grows(rows, out) ==
  /\ out \in Seq(Row)
  /\ Len(rows) <= Len(out)
  /\ \A i \in DOMAIN rows : Evolves(rows[i], out[i])
  /\ \A i \in DOMAIN out \ DOMAIN rows : PinnedRow(out[i])

IInv == TypeOK /\ LockInv /\ PinnedIsSingle

\* A line-by-line update is one the file may undergo.
LEMMA AllEvolveGrows ==
  ASSUME NEW rows \in Seq(Row), NEW out, AllEvolve(rows, out)
  PROVE  Grows(rows, out)
BY DEF AllEvolve, Grows

\* So is the append of SessionStart: the old lines stay where they were.
LEMMA AppendGrows ==
  ASSUME NEW rows \in Seq(Row), NEW r \in FreshRow
  PROVE  Grows(rows, Append(rows, r))
<1>1. r \in Row /\ ~r.pinned
  BY DEF FreshRow
<1>2. PinnedRow(r)
  BY <1>1 DEF PinnedRow
<1>3. \A i \in DOMAIN rows : Evolves(rows[i], rows[i])
  BY EvolvesReflexive
<1> DEFINE out == Append(rows, r)
<1>4. out \in Seq(Row) /\ Len(out) = Len(rows) + 1 /\ out[Len(rows) + 1] = r
  BY <1>1
<1>5. \A i \in DOMAIN rows : out[i] = rows[i]
  OBVIOUS
<1>6. DOMAIN out = 1..(Len(rows) + 1) /\ DOMAIN rows = 1..Len(rows)
  OBVIOUS
<1> HIDE DEF out
<1>7. Grows(rows, out)
  BY <1>2, <1>3, <1>4, <1>5, <1>6 DEF Grows
<1> QED
  BY <1>7 DEF out

\* Whatever call is made on whatever file, no line is lost or set back.
LEMMA ResultsGrow ==
  ASSUME NEW o \in Op, NEW rows \in Seq(Row), NEW out \in Results(o, rows)
  PROVE  Grows(rows, out)
<1>1. o \in OpType
  BY IndexAssumption
<1>2. CASE o \in [kind : {"append"}, row : FreshRow]
  BY <1>2, AppendGrows DEF Results
<1>3. CASE o \in [kind : {"update"}, id : SessionId, add : Seq(Url)]
  <2> DEFINE add == [x \in {o.id} |-> o.add]
  <2>1. \A x \in DOMAIN add : add[x] \in Seq(Url)
    BY <1>3
  <2>2. out = ApplyUpdate(rows, rows, add)
    BY <1>3 DEF Results
  <2> QED
    BY <2>1, <2>2, ApplyUpdateEvolves, AllEvolveGrows
<1>4. CASE o \in [kind : {"by_branch"}, repo : Repo, branch : Branch, url : Url]
  <2>1. o.url \in Url /\ out = UpdateByBranch(rows, o.repo, o.branch, o.url)
    BY <1>4 DEF Results
  <2> QED
    BY <2>1, UpdateByBranchEvolves, AllEvolveGrows
<1>5. CASE o \in [kind : {"mark"}, ids : SUBSET SessionId]
  <2>1. out = ApplyMarkChecked(rows, rows, o.ids)
    BY <1>5 DEF Results
  <2> QED
    BY <2>1, ApplyMarkCheckedEvolves, AllEvolveGrows
<1>6. CASE o \in [kind : {"end"}, id : SessionId, at : Stamp]
  <2> DEFINE ends == [x \in {o.id} |-> o.at]
  <2>1. \A x \in DOMAIN ends : ends[x] \in OrNone(Stamp)
    BY <1>6 DEF OrNone
  <2>2. out = ApplyUpdateEnd(rows, rows, ends)
    BY <1>6 DEF Results
  <2> QED
    BY <2>1, <2>2, ApplyUpdateEndEvolves, AllEvolveGrows
<1>7. CASE o \in [kind : {"user"}, user : User]
  <2>1. o.user \in User /\ out = FillUser(rows, o.user)
    BY <1>7 DEF Results
  <2> QED
    BY <2>1, FillUserEvolves, AllEvolveGrows
<1>8. CASE o \in [kind : {"batch"}, batch : Batch]
  <2>1. o.batch \in Batch /\ out \in ApplyBatchToRaw(rows, o.batch)
    BY <1>8 DEF Results
  <2> QED
    BY <2>1, ApplyBatchEvolves, AllEvolveGrows
<1> QED
  BY <1>1, <1>2, <1>3, <1>4, <1>5, <1>6, <1>7, <1>8 DEF OpType

-----------------------------------------------------------------------------
(* Types *)

\* A result of a call is a file.
LEMMA ResultsTyped ==
  ASSUME NEW o \in Op, NEW rows \in Seq(Row), NEW out \in Results(o, rows)
  PROVE  out \in Seq(Row)
BY ResultsGrow DEF Grows

\* The lock protocol starts in its invariant.
LEMMA InitTyped == Init => TypeOK /\ LockInv
<1> SUFFICES ASSUME Init PROVE TypeOK /\ LockInv
  OBVIOUS
<1>1. index \in Seq(Row)
  BY IndexAssumption DEF Init
<1>2. <<>> \in Seq(Row) /\ Len(<<>>) = 0
  OBVIOUS
<1>3. TypeOK
  BY <1>1, <1>2, IndexAssumption DEF Init, TypeOK, OrNone
<1>4. LockInv
  BY IndexAssumption DEF Init, LockInv, LockHeld, CopyIsCurrent, NextIsResult,
     CallState, InCritical
<1> QED
  BY <1>3, <1>4

\* A temporary file holds a prefix of what it will hold; a rename makes the
\* whole of it the index.
LEMMA RenamePublishes ==
  ASSUME TypeOK, NEW w \in Writer, Rename(w)
  PROVE  index' = next[w]
<1>1. next[w] \in Seq(Row)
  BY DEF TypeOK
<1>2. SubSeq(next[w], 1, Len(next[w])) = next[w]
  BY <1>1
<1> QED
  BY <1>2 DEF Rename

\* Every step keeps the types.
LEMMA StepTyped ==
  ASSUME TypeOK, CallState, [Next]_vars
  PROVE  TypeOK'
<1>1. CASE UNCHANGED vars
  BY <1>1 DEF vars, TypeOK
<1>2. CASE Next
  <2>0. PICK w \in Writer : Begin(w) \/ Acquire(w) \/ Step(w) \/ Fail(w) \/ Crash(w)
    BY <1>2 DEF Next
  <2> <<>> \in Seq(Row) /\ Len(<<>>) = 0
    OBVIOUS
  <2>1. CASE Begin(w)
    BY <2>1, IndexAssumption DEF Begin, TypeOK, Goto, OrNone, InCritical
  <2>2. CASE Acquire(w)
    BY <2>2 DEF Acquire, TypeOK, Goto, OrNone, InCritical
  <2>3. CASE Busy(w)
    BY <2>3 DEF Busy, TypeOK, Goto, OrNone, InCritical
  <2>4. CASE Read(w)
    BY <2>4 DEF Read, TypeOK, Goto, OrNone, InCritical
  <2>5. CASE Unchanged(w)
    BY <2>5 DEF Unchanged, TypeOK, Goto, OrNone, InCritical
  <2>6. CASE Change(w)
    <3>1. op[w] \in Op /\ copy[w] \in Seq(Row)
      BY <2>6 DEF Change, Goto, CallState, TypeOK, OrNone
    <3>2. PICK rows \in Results(op[w], copy[w]) : next' = [next EXCEPT ![w] = rows]
      BY <2>6 DEF Change
    <3>3. rows \in Seq(Row)
      BY <3>1, <3>2, ResultsTyped
    <3>4. next' \in [Writer -> Seq(Row)] /\ written' \in [Writer -> Nat]
      BY <2>6, <3>2, <3>3 DEF Change, TypeOK
    <3>5. \A v \in Writer : written'[v] <= Len(next'[v])
      BY <2>6, <3>2, <3>3 DEF Change, TypeOK
    <3> QED
      BY <2>6, <3>4, <3>5 DEF Change, TypeOK, Goto, InCritical
  <2>7. CASE WriteLine(w)
    <3>1. \A v \in Writer : Len(next[v]) \in Nat
      BY DEF TypeOK
    <3> QED
      BY <2>7, <3>1 DEF WriteLine, TypeOK
  <2>8. CASE Rename(w)
    <3>1. index' \in Seq(Row)
      BY <2>8, RenamePublishes DEF TypeOK
    <3> QED
      BY <2>8, <3>1 DEF Rename, TypeOK, Goto, InCritical
  <2>9. CASE Unlock(w)
    BY <2>9 DEF Unlock, TypeOK, Goto, OrNone, InCritical
  <2>10. CASE Fail(w)
    BY <2>10 DEF Fail, TypeOK, Goto, OrNone, InCritical
  <2>11. CASE Return(w)
    BY <2>11 DEF Return, Forget, TypeOK, OrNone
  <2>12. CASE Crash(w)
    BY <2>12, IndexAssumption DEF Crash, Forget, TypeOK, OrNone
  <2> QED
    BY <2>0, <2>1, <2>2, <2>3, <2>4, <2>5, <2>6, <2>7, <2>8, <2>9, <2>10, <2>11,
       <2>12 DEF Step
<1> QED
  BY <1>1, <1>2

-----------------------------------------------------------------------------
(* The lock *)

\* Every step keeps the lock with the process between Lock and Unlock, and its copy current.
LEMMA StepLocked ==
  ASSUME TypeOK, LockInv, [Next]_vars
  PROVE  LockInv'
<1>1. CASE UNCHANGED vars
  BY <1>1 DEF vars, LockInv, LockHeld, CopyIsCurrent, NextIsResult, CallState
<1>2. CASE Next
  <2>0. PICK w \in Writer : Begin(w) \/ Acquire(w) \/ Step(w) \/ Fail(w) \/ Crash(w)
    BY <1>2 DEF Next
  <2> None \notin Writer /\ None \notin Op
    BY IndexAssumption
  <2>1. CASE Begin(w)
    BY <2>1 DEF Begin, TypeOK, Goto, InCritical, LockInv, LockHeld,
       CopyIsCurrent, NextIsResult, CallState
  <2>2. CASE Acquire(w)
    BY <2>2 DEF Acquire, TypeOK, Goto, InCritical, LockInv, LockHeld,
       CopyIsCurrent, NextIsResult, CallState
  <2>3. CASE Busy(w)
    BY <2>3 DEF Busy, TypeOK, Goto, InCritical, LockInv, LockHeld,
       CopyIsCurrent, NextIsResult, CallState
  <2>4. CASE Read(w)
    BY <2>4 DEF Read, TypeOK, Goto, InCritical, LockInv, LockHeld,
       CopyIsCurrent, NextIsResult, CallState
  <2>5. CASE Unchanged(w)
    BY <2>5 DEF Unchanged, TypeOK, Goto, InCritical, LockInv, LockHeld,
       CopyIsCurrent, NextIsResult, CallState
  <2>6. CASE Change(w)
    BY <2>6 DEF Change, TypeOK, Goto, InCritical, LockInv, LockHeld,
       CopyIsCurrent, NextIsResult, CallState
  <2>7. CASE WriteLine(w)
    BY <2>7 DEF WriteLine, TypeOK, Goto, InCritical, LockInv, LockHeld,
       CopyIsCurrent, NextIsResult, CallState
  <2>8. CASE Rename(w)
    BY <2>8 DEF Rename, TypeOK, Goto, InCritical, LockInv, LockHeld,
       CopyIsCurrent, NextIsResult, CallState
  <2>9. CASE Unlock(w)
    BY <2>9 DEF Unlock, TypeOK, Goto, InCritical, LockInv, LockHeld,
       CopyIsCurrent, NextIsResult, CallState
  <2>10. CASE Fail(w)
    BY <2>10 DEF Fail, TypeOK, Goto, InCritical, LockInv, LockHeld,
       CopyIsCurrent, NextIsResult, CallState
  <2>11. CASE Return(w)
    BY <2>11 DEF Return, TypeOK, Forget, InCritical, LockInv, LockHeld,
       CopyIsCurrent, NextIsResult, CallState
  <2>12. CASE Crash(w)
    BY <2>12 DEF Crash, TypeOK, Forget, InCritical, LockInv, LockHeld,
       CopyIsCurrent, NextIsResult, CallState
  <2> QED
    BY <2>0, <2>1, <2>2, <2>3, <2>4, <2>5, <2>6, <2>7, <2>8, <2>9, <2>10, <2>11,
       <2>12 DEF Step
<1> QED
  BY <1>1, <1>2

-----------------------------------------------------------------------------
(* The file *)

\* Only a rename changes the file, and it grows the file it replaces.
LEMMA StepGrows ==
  ASSUME TypeOK, LockInv, [Next]_vars
  PROVE  index' = index \/ Grows(index, index')
<1>1. CASE UNCHANGED vars
  BY <1>1 DEF vars
<1>2. CASE Next
  <2>1. PICK w \in Writer : Begin(w) \/ Acquire(w) \/ Step(w) \/ Fail(w) \/ Crash(w)
    BY <1>2 DEF Next
  <2>2. CASE Rename(w)
    <3>1. pc[w] = "write" /\ op[w] \in Op
      BY <2>2 DEF Rename, Goto, LockInv, CallState, TypeOK, OrNone
    <3>2. next[w] \in Results(op[w], index)
      BY <3>1 DEF LockInv, NextIsResult, CopyIsCurrent
    <3>3. index' \in Results(op[w], index)
      BY <2>2, <3>2, RenamePublishes
    <3> QED
      BY <3>1, <3>3, ResultsGrow DEF TypeOK
  <2>3. CASE ~Rename(w)
    BY <2>1, <2>3 DEF Step, Begin, Acquire, Busy, Read, Unchanged, Change,
       WriteLine, Unlock, Return, Fail, Crash
  <2> QED
    BY <2>2, <2>3
<1> QED
  BY <1>1, <1>2

\* Every step keeps a pinned session at one URL.
LEMMA StepPinned ==
  ASSUME TypeOK, LockInv, PinnedIsSingle, [Next]_vars
  PROVE  PinnedIsSingle'
<1>1. CASE index' = index
  BY <1>1 DEF PinnedIsSingle
<1>2. CASE Grows(index, index')
  <2>1. ASSUME NEW i \in DOMAIN index' PROVE PinnedRow(index'[i])
    <3>1. CASE i \in DOMAIN index
      BY <1>2, <3>1 DEF Grows, Evolves, PinnedIsSingle
    <3>2. CASE i \notin DOMAIN index
      BY <1>2, <3>2 DEF Grows
    <3> QED
      BY <3>1, <3>2
  <2> QED
    BY <2>1 DEF PinnedIsSingle
<1> QED
  BY <1>1, <1>2, StepGrows

\* Every step takes every line forward.
LEMMA StepAdvances ==
  ASSUME TypeOK, LockInv, [Next]_vars
  PROVE  /\ Len(index) <= Len(index')
         /\ \A i \in DOMAIN index : Advances(index[i], index'[i])
<1>1. CASE index' = index
  <2>1. index \in Seq(Row)
    BY DEF TypeOK
  <2>2. \A i \in DOMAIN index : Advances(index[i], index[i])
    BY <2>1, EvolvesReflexive DEF Evolves
  <2> QED
    BY <1>1, <2>1, <2>2
<1>2. CASE Grows(index, index')
  BY <1>2 DEF Grows, Evolves
<1> QED
  BY <1>1, <1>2, StepGrows

-----------------------------------------------------------------------------
(* The URL of a pinned session *)

\* Of all the calls only a batch that pins the session again can give a pinned
\* session another URL.
LEMMA ResultsKeepPinned ==
  ASSUME NEW o \in Op, NEW rows \in Seq(Row), NEW out \in Results(o, rows),
         NEW i \in DOMAIN rows, rows[i].pinned, out[i].last # rows[i].last
  PROVE  o.kind = "batch" /\ EntryOf(o.batch.pins, rows[i].id) # None
<1>1. o \in OpType /\ rows[i] \in Row
  BY IndexAssumption
<1>2. CASE o \in [kind : {"append"}, row : FreshRow]
  <2>1. out = Append(rows, o.row)
    BY <1>2 DEF Results
  <2> QED
    BY <2>1
<1>3. CASE o \in [kind : {"update"}, id : SessionId, add : Seq(Url)]
  <2>1. out = ApplyUpdate(rows, rows, [x \in {o.id} |-> o.add])
    BY <1>3 DEF Results
  <2> QED
    BY <2>1 DEF ApplyUpdate
<1>4. CASE o \in [kind : {"by_branch"}, repo : Repo, branch : Branch, url : Url]
  <2>1. out = UpdateByBranch(rows, o.repo, o.branch, o.url)
    BY <1>4 DEF Results
  <2> QED
    BY <2>1 DEF UpdateByBranch
<1>5. CASE o \in [kind : {"mark"}, ids : SUBSET SessionId]
  <2>1. out = ApplyMarkChecked(rows, rows, o.ids)
    BY <1>5 DEF Results
  <2> QED
    BY <1>1, <2>1 DEF ApplyMarkChecked, Row
<1>6. CASE o \in [kind : {"end"}, id : SessionId, at : Stamp]
  <2> DEFINE ends == [x \in {o.id} |-> o.at]
  <2>1. out = ApplyUpdateEnd(rows, rows, ends)
    BY <1>6 DEF Results
  <2> HIDE DEF ends
  <2>2. \/ out[i] = rows[i]
        \/ out[i] = [rows[i] EXCEPT !.ended = EntryOf(ends, rows[i].id)]
    BY <2>1 DEF ApplyUpdateEnd
  <2> QED
    BY <1>1, <2>2 DEF Row
<1>7. CASE o \in [kind : {"user"}, user : User]
  <2>1. out = FillUser(rows, o.user)
    BY <1>7 DEF Results
  <2> QED
    BY <1>1, <2>1 DEF FillUser, Row
<1>8. CASE o \in [kind : {"batch"}, batch : Batch]
  <2>1. out \in ApplyBatchToRaw(rows, o.batch) /\ o.batch \in Batch /\ o.kind = "batch"
    BY <1>8 DEF Results
  <2> QED
    BY <2>1, ApplyBatchMakes DEF BatchMakes
<1> QED
  BY <1>1, <1>2, <1>3, <1>4, <1>5, <1>6, <1>7, <1>8 DEF OpType

\* The file changes by what its writer computed from the file as it is.
LEMMA StepKeepsPinned ==
  ASSUME TypeOK, LockInv, [Next]_vars, NEW i \in DOMAIN index,
         index[i].pinned, index'[i].last # index[i].last
  PROVE  \E w \in Writer : /\ pc[w] = "write" /\ NonBlocking(op[w])
                           /\ EntryOf(op[w].batch.pins, index[i].id) # None
<1>1. PICK w \in Writer : Rename(w)
  BY DEF vars, Next, Step, Begin, Acquire, Busy, Read, Unchanged, Change, WriteLine,
     Unlock, Return, Fail, Crash
<1>2. pc[w] = "write" /\ op[w] \in Op
  BY <1>1 DEF Rename, Goto, LockInv, CallState, TypeOK, OrNone
<1>3. index' \in Results(op[w], index)
  BY <1>1, <1>2, RenamePublishes DEF LockInv, NextIsResult, CopyIsCurrent
<1>4. index \in Seq(Row)
  BY DEF TypeOK
<1> QED
  BY <1>2, <1>3, <1>4, ResultsKeepPinned DEF NonBlocking

-----------------------------------------------------------------------------
(* Theorems *)

\* The invariant is inductive: any I/O error, crash or busy lock included.
THEOREM Invariant == Spec => []IInv
<1>1. Init => IInv
  <2>1. Init => PinnedIsSingle
    BY IndexAssumption DEF Init, PinnedIsSingle
  <2> QED
    BY <2>1, InitTyped DEF IInv
<1>2. IInv /\ [Next]_vars => IInv'
  BY StepTyped, StepLocked, StepPinned DEF IInv, LockInv
<1> QED
  BY <1>1, <1>2, PTL DEF Spec

\* Every variable of the lock protocol keeps its type.
THEOREM TypeCorrect == Spec => []TypeOK
BY Invariant, PTL DEF IInv

\* withLockedIndex excludes: the flock has one holder, what the holder read
\* stays what the file holds, and what it writes is its call's result for it.
THEOREM LockCorrect == Spec => []LockInv
BY Invariant, PTL DEF IInv

\* A pinned session has one URL, whatever is appended concurrently.
THEOREM PinCorrect == Spec => []PinnedIsSingle
BY Invariant, PTL DEF IInv

\* No call, crash or error loses a line of the file or takes back a mark, a
\* pin, an end, a title, a user or a URL.
THEOREM AdvanceCorrect == Spec => RowsAdvance
<1> DEFINE A == /\ Len(index) <= Len(index')
                /\ \A i \in DOMAIN index : Advances(index[i], index'[i])
<1>1. IInv /\ [Next]_vars => [A]_vars
  BY StepAdvances DEF IInv
<1> HIDE DEF A
<1>2. Spec => [][A]_vars
  BY <1>1, Invariant, PTL DEF Spec
<1> QED
  BY <1>2 DEF A, RowsAdvance

\* Nothing that PostToolUse, update or backfill appends reaches the URL of a
\* pinned session: only another pin of that session changes it.
THEOREM PinnedUrlCorrect == Spec => PinnedUrlStable
<1> DEFINE A == \A i \in DOMAIN index :
                  index[i].pinned /\ index'[i].last # index[i].last =>
                    \E w \in Writer : /\ pc[w] = "write" /\ NonBlocking(op[w])
                                      /\ EntryOf(op[w].batch.pins, index[i].id) # None
<1>1. IInv /\ [Next]_vars => [A]_vars
  BY StepKeepsPinned DEF IInv
<1> HIDE DEF A
<1>2. Spec => [][A]_vars
  BY <1>1, Invariant, PTL DEF Spec
<1> QED
  BY <1>2 DEF PinnedUrlStable, A

-----------------------------------------------------------------------------
(* Refinement *)

\* An empty protocol is an index nobody has called yet.
LEMMA InitAbstract == Init => Abstract!Init
BY DEF Init, Abstract!Init, Status

\* Begin invokes; the rename, or finding nothing to change, commits; a busy
\* lock or an error refuses; return and death leave; every other step stutters.
LEMMA StepAbstract ==
  ASSUME TypeOK, LockInv, [Next]_vars
  PROVE  [Abstract!Next]_(Abstract!vars)
<1> USE DEF Abstract!vars
<1>1. CASE UNCHANGED vars
  BY <1>1 DEF vars, Status
<1>2. CASE Next
  <2>0. PICK w \in Writer : Begin(w) \/ Acquire(w) \/ Step(w) \/ Fail(w) \/ Crash(w)
    BY <1>2 DEF Next
  <2> DEFINE to(s) == Status' = [Status EXCEPT ![w] = s]
  <2>1. CASE Begin(w)
    <3>1. PICK o \in Op : op' = [op EXCEPT ![w] = o]
      BY <2>1 DEF Begin
    <3>2. Status[w] = "idle" /\ to("pending")
      BY <2>1 DEF Begin, Goto, Status, TypeOK, LockInv, CallState
    <3>3. Abstract!Invoke(w, o)
      BY <2>1, <3>1, <3>2 DEF Begin, Abstract!Invoke
    <3> QED
      BY <3>3 DEF Abstract!Next
  <2>2. CASE Acquire(w) \/ Read(w) \/ Change(w) \/ WriteLine(w) \/ Unlock(w)
    <3>1. Status' = Status
      BY <2>2 DEF Acquire, Read, Change, WriteLine, Unlock, Goto, Status, TypeOK
    <3> QED
      BY <2>2, <3>1 DEF Acquire, Read, Change, WriteLine, Unlock
  <2>3. CASE Busy(w) \/ Fail(w)
    <3>1. Status[w] = "pending" /\ to("refused")
      BY <2>3 DEF Busy, Fail, Goto, Status, TypeOK, LockInv, CallState
    <3>2. Abstract!Refuse(w)
      BY <2>3, <3>1 DEF Busy, Fail, Abstract!Refuse
    <3> QED
      BY <3>2 DEF Abstract!Next
  <2>4. CASE Unchanged(w) \/ Rename(w)
    <3>1. Status[w] = "pending" /\ to("done")
      BY <2>4 DEF Unchanged, Rename, Goto, Status, TypeOK, LockInv, CallState
    <3>2. index' \in Results(op[w], index)
      <4>1. CASE Unchanged(w)
        BY <4>1 DEF Unchanged, Goto, LockInv, CopyIsCurrent
      <4>2. CASE Rename(w)
        BY <4>2, RenamePublishes DEF Rename, Goto, LockInv, NextIsResult, CopyIsCurrent
      <4> QED
        BY <2>4, <4>1, <4>2
    <3>3. op' = op
      BY <2>4 DEF Unchanged, Rename
    <3>4. Abstract!Commit(w)
      BY <3>1, <3>2, <3>3 DEF Abstract!Commit
    <3> QED
      BY <3>4 DEF Abstract!Next
  <2>5. CASE Return(w) \/ Crash(w)
    <3>1. Status[w] # "idle" /\ to("idle") /\ op' = [op EXCEPT ![w] = None]
      <4>1. pc[w] # "idle" /\ outcome[w] \in {"none", "done", "refused"}
        BY <2>5 DEF Return, Crash, TypeOK
      <4>2. /\ pc' = [pc EXCEPT ![w] = "idle"]
            /\ outcome' = [outcome EXCEPT ![w] = "none"]
            /\ op' = [op EXCEPT ![w] = None]
        BY <2>5 DEF Return, Crash, Forget
      <4>3. Status[w] # "idle"
        BY <4>1 DEF Status
      <4>4. to("idle")
        BY <4>2 DEF Status, TypeOK
      <4> QED
        BY <4>2, <4>3, <4>4
    <3>2. Abstract!Leave(w)
      BY <2>5, <3>1 DEF Return, Crash, Abstract!Leave
    <3> QED
      BY <3>2 DEF Abstract!Next
  <2> QED
    BY <2>0, <2>1, <2>2, <2>3, <2>4, <2>5 DEF Step
<1> QED
  BY <1>1, <1>2

\* The locked read, rewrite and rename of the file is one atomic step of every
\* call that succeeds, and no step of a call that does not.
THEOREM LinearizableCorrect == Spec => Linearizable
<1>1. Init => Abstract!Init
  BY InitAbstract
<1>2. IInv /\ [Next]_vars => [Abstract!Next]_(Abstract!vars)
  BY StepAbstract DEF IInv
<1> QED
  BY <1>1, <1>2, Invariant, PTL DEF Spec, Linearizable, Abstract!Spec
=============================================================================
