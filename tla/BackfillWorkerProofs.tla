------------------------ MODULE BackfillWorkerProofs ------------------------
(***************************************************************************)
(* What backfill runs do, for any number of processes, agents, sessions,   *)
(* pull requests, hooks, faults and launches: that the single-flight lock  *)
(* holds, types, and the safety properties of BackfillWorker that are      *)
(* about the index and about the lookups of a run.                         *)
(***************************************************************************)
EXTENDS BackfillWorker, SessionRowsProofs

-----------------------------------------------------------------------------
(* The single-flight lock *)


RunFields == {"args", "snap", "st", "groups", "urls", "batch", "gh"}

\* Just enough type for the proof: who is where, and that runs are records.
RunTyped ==
  /\ pc \in [Proc -> Phases]
  /\ DOMAIN run = Proc
  /\ \A p \in Proc : DOMAIN run[p] = RunFields

GateInv == RunTyped /\ SingleFlight

-----------------------------------------------------------------------------
(* The three ways in which a step of p is harmless to the gate *)

\* p goes on working, under the command line it was started with.
GoesOn(p) ==
  /\ pc[p] \in Working /\ pc'[p] \in Working
  /\ gate' = gate
  /\ DOMAIN run'[p] = RunFields
  /\ run'[p].args = run[p].args

\* p leaves, and has yet to unlock.
IsLeaving(p) ==
  /\ pc[p] # "idle"
  /\ pc'[p] = "exit"
  /\ gate' = gate
  /\ run'[p] = IdleRun

\* p is gone, and so is its lock.
IsGone(p) ==
  /\ pc'[p] = "idle"
  /\ gate' = IF gate = p THEN None ELSE gate
  /\ DOMAIN run'[p] = RunFields

\* The step is p's: it changes neither phase nor run of another process.
OnlyOf(p) ==
  /\ pc' \in [Proc -> Phases]
  /\ DOMAIN run' = Proc
  /\ \A q \in Proc \ {p} : pc'[q] = pc[q] /\ run'[q] = run[q]

\* An idle run is a record like any other.
LEMMA IdleRunFields == DOMAIN IdleRun = RunFields
BY DEF IdleRun, RunFields

\* A process that works, leaves or dies takes no lock from another.
LEMMA HarmlessKeepsGate ==
  ASSUME GateInv, NEW p \in Proc, OnlyOf(p),
         GoesOn(p) \/ IsLeaving(p) \/ IsGone(p)
  PROVE  GateInv'
<1>0. None \notin Proc
  BY WorkerAssumption
<1>1. RunTyped'
  BY IdleRunFields DEF GateInv, RunTyped, OnlyOf, GoesOn, IsLeaving, IsGone
<1>2. ASSUME NEW q \in Proc, q # p
      PROVE  /\ pc'[q] \in Working /\ run'[q].args.detached => gate' = q
             /\ gate' = q => pc'[q] \in Working \cup {"exit"}
  <2>1. gate = q => gate' = q
    BY <1>2 DEF GoesOn, IsLeaving, IsGone
  <2>2. gate' = q => gate = q
    BY <1>0, <1>2 DEF GoesOn, IsLeaving, IsGone
  <2> QED
    BY <1>2, <2>1, <2>2 DEF OnlyOf, GateInv, SingleFlight, Args
<1>3. /\ pc'[p] \in Working /\ run'[p].args.detached => gate' = p
      /\ gate' = p => pc'[p] \in Working \cup {"exit"}
  <2>1. CASE GoesOn(p)
    BY <2>1 DEF GoesOn, GateInv, SingleFlight, Args
  <2>2. CASE IsLeaving(p)
    BY <2>2 DEF IsLeaving, Working
  <2>3. CASE IsGone(p)
    BY <1>0, <2>3 DEF IsGone, Working
  <2> QED
    BY <2>1, <2>2, <2>3
<1> QED
  BY <1>1, <1>2, <1>3 DEF GateInv, SingleFlight, Args

-----------------------------------------------------------------------------
(* The steps of a process, sorted *)

\* A worker or a manual run starts behind the gate or past it.
LEMMA StartKeepsGate ==
  ASSUME GateInv, NEW p \in Proc, Start(p)
  PROVE  GateInv'
<1>1. PICK o \in Launches : /\ run' = [run EXCEPT ![p].args = o]
                            /\ pc' = [pc EXCEPT ![p] = IF o.detached THEN "gate" ELSE "read"]
  BY DEF Start
<1>2. pc[p] = "idle" /\ gate' = gate
  BY DEF Start
<1>3. RunTyped'
  BY <1>1 DEF GateInv, RunTyped, Phases, RunFields
<1>4. run'[p].args = o
  BY <1>1 DEF GateInv, RunTyped, RunFields
<1>5. o.detached \in BOOLEAN
  BY WorkerAssumption DEF Launch
<1>6. gate # p
  BY <1>2 DEF GateInv, SingleFlight, Working
<1>7. pc'[p] \in Working /\ run'[p].args.detached => gate' = p
  BY <1>1, <1>4, <1>5 DEF GateInv, RunTyped, Working
<1>8. \A q \in Proc \ {p} : pc'[q] = pc[q] /\ run'[q] = run[q]
  BY <1>1 DEF GateInv, RunTyped
<1> QED
  BY <1>2, <1>3, <1>6, <1>7, <1>8 DEF GateInv, SingleFlight, Args

\* Only a free gate is taken.
LEMMA TakeGateKeepsGate ==
  ASSUME GateInv, NEW p \in Proc, TakeGate(p)
  PROVE  GateInv'
<1>1. pc' = [pc EXCEPT ![p] = "read"] /\ gate = None /\ gate' = p /\ run' = run
  BY DEF TakeGate, Is
<1>2. RunTyped'
  BY <1>1 DEF GateInv, RunTyped, Phases
<1>3. None \notin Proc
  BY WorkerAssumption
<1> QED
  BY <1>1, <1>2, <1>3 DEF GateInv, RunTyped, SingleFlight, Working, Args

\* A step from one phase of the work to another, with the run as it was.
LEMMA PlainStepGoesOn ==
  ASSUME GateInv, NEW p \in Proc, NEW from \in Working, NEW to \in Working,
         Is(p, from, to), UNCHANGED <<gate, run>>
  PROVE  OnlyOf(p) /\ GoesOn(p)
<1>1. Working \subseteq Phases
  BY DEF Working, Phases
<1> QED
  BY <1>1 DEF Is, OnlyOf, GoesOn, GateInv, RunTyped

\* A step that rewrites the run of p, but not its command line.
LEMMA RunStepGoesOn ==
  ASSUME GateInv, NEW p \in Proc, NEW r, DOMAIN r = RunFields, r.args = run[p].args,
         pc[p] \in Working, NEW to \in Working,
         pc' = [pc EXCEPT ![p] = to], run' = [run EXCEPT ![p] = r], gate' = gate
  PROVE  OnlyOf(p) /\ GoesOn(p)
<1>1. Working \subseteq Phases
  BY DEF Working, Phases
<1> QED
  BY <1>1 DEF OnlyOf, GoesOn, GateInv, RunTyped

\* The steps of a run that keep it working.
LEMMA WorkGoesOn ==
  ASSUME GateInv, NEW p \in Proc,
         \/ ReadIndex(p) \/ ReadState(p) \/ NoPin(p) \/ PinUnknown(p) \/ PinFound(p)
         \/ Collect(p) \/ CollectGarbage(p)
         \/ \E g \in run[p].groups :
              GroupGone(p, g) \/ GroupUnknown(p, g) \/ GroupFound(p, g)
         \/ FillEnds(p) \/ NoEnds(p) \/ StartMeta(p)
         \/ \E u \in run[p].urls : UrlUnknown(p, u) \/ UrlFound(p, u)
         \/ NothingFound(p) \/ Apply(p)
  PROVE  OnlyOf(p) /\ GoesOn(p)
<1> USE DEF RunFields
<1>0. /\ pc \in [Proc -> Phases] /\ DOMAIN run = Proc /\ DOMAIN run[p] = RunFields
      /\ {"read", "load", "pin", "collect", "groups", "meta", "urls", "save"} = Working
  BY DEF GateInv, RunTyped, Working
<1>1. CASE ReadIndex(p)
  BY <1>0, <1>1, RunStepGoesOn DEF ReadIndex, Is
<1>2. CASE ReadState(p)
  BY <1>0, <1>2, RunStepGoesOn DEF ReadState, Is
<1>3. CASE NoPin(p)
  BY <1>0, <1>3, PlainStepGoesOn DEF NoPin
<1>4. CASE PinUnknown(p)
  BY <1>0, <1>4, RunStepGoesOn DEF PinUnknown, Is
<1>5. CASE PinFound(p)
  <2>1. PICK b : run' = [run EXCEPT ![p].gh = 1, ![p].batch = b]
    BY <1>5 DEF PinFound
  <2> QED
    BY <1>0, <1>5, <2>1, RunStepGoesOn DEF PinFound, Is
<1>6. CASE Collect(p)
  BY <1>0, <1>6, RunStepGoesOn DEF Collect, Is
<1>7. CASE CollectGarbage(p)
  BY <1>0, <1>7, RunStepGoesOn DEF CollectGarbage, Is
<1>8. ASSUME NEW g \in run[p].groups,
             GroupGone(p, g) \/ GroupUnknown(p, g) \/ GroupFound(p, g)
      PROVE  OnlyOf(p) /\ GoesOn(p)
  <2>1. CASE GroupGone(p, g)
    BY <1>0, <2>1, RunStepGoesOn DEF GroupGone
  <2>2. CASE GroupUnknown(p, g)
    BY <1>0, <2>2, RunStepGoesOn DEF GroupUnknown
  <2>3. CASE GroupFound(p, g)
    <3>1. PICK b : run' = [run EXCEPT ![p].groups = @ \ {g}, ![p].gh = @ + 1,
                                      ![p].batch = b]
      BY <2>3 DEF GroupFound
    <3>2. pc[p] = "groups" /\ UNCHANGED <<gate, pc>>
      BY <2>3 DEF GroupFound
    <3> QED
      BY <1>0, <3>1, <3>2, RunStepGoesOn
  <2> QED
    BY <1>8, <2>1, <2>2, <2>3
<1>9. CASE FillEnds(p)
  BY <1>0, <1>9, RunStepGoesOn DEF FillEnds, Is
<1>10. CASE NoEnds(p)
  BY <1>0, <1>10, PlainStepGoesOn DEF NoEnds
<1>11. CASE StartMeta(p)
  BY <1>0, <1>11, RunStepGoesOn DEF StartMeta, Is
<1>12. ASSUME NEW u \in run[p].urls, UrlUnknown(p, u) \/ UrlFound(p, u)
       PROVE  OnlyOf(p) /\ GoesOn(p)
  <2>1. CASE UrlUnknown(p, u)
    BY <1>0, <2>1, RunStepGoesOn DEF UrlUnknown
  <2>2. CASE UrlFound(p, u)
    BY <1>0, <2>2, RunStepGoesOn DEF UrlFound
  <2> QED
    BY <1>12, <2>1, <2>2
<1>13. CASE NothingFound(p)
  BY <1>0, <1>13, PlainStepGoesOn DEF NothingFound
<1>14. CASE Apply(p)
  BY <1>0, <1>14, PlainStepGoesOn DEF Apply
<1> QED
  BY <1>1, <1>2, <1>3, <1>4, <1>5, <1>6, <1>7, <1>8, <1>9, <1>10, <1>11,
     <1>12, <1>13, <1>14

\* The steps with which a run returns leave the gate to step Exit.
LEMMA LeaveIsLeaving ==
  ASSUME GateInv, NEW p \in Proc, Leave(p), pc[p] # "idle", gate' = gate
  PROVE  OnlyOf(p) /\ IsLeaving(p)
<1>1. "exit" \in Phases
  BY DEF Phases
<1> QED
  BY <1>1 DEF Leave, OnlyOf, IsLeaving, GateInv, RunTyped

\* A process that ends, of itself or killed, takes its lock with it.
LEMMA EndIsGone ==
  ASSUME GateInv, NEW p \in Proc, Exit(p) \/ Crash(p)
  PROVE  OnlyOf(p) /\ IsGone(p)
<1>1. "idle" \in Phases
  BY DEF Phases
<1>2. CASE Exit(p)
  BY <1>1, <1>2 DEF Exit, Is, OnlyOf, IsGone, GateInv, RunTyped
<1>3. CASE Crash(p)
  BY <1>1, <1>3, IdleRunFields DEF Crash, OnlyOf, IsGone, GateInv, RunTyped
<1> QED
  BY <1>2, <1>3

\* No step of a run breaks the single-flight lock.
LEMMA RunStepKeepsGate ==
  ASSUME GateInv, NEW p \in Proc, RunStep(p)
  PROVE  GateInv'
<1>1. CASE TakeGate(p)
  BY <1>1, TakeGateKeepsGate
<1>2. CASE SkipGate(p) \/ Skip(p) \/ Busy(p) \/ Save(p)
  <2>1. Leave(p) /\ pc[p] # "idle" /\ gate' = gate
    BY <1>2 DEF SkipGate, Skip, Busy, Save
  <2> QED
    BY <2>1, LeaveIsLeaving, HarmlessKeepsGate
<1>3. CASE Exit(p)
  BY <1>3, EndIsGone, HarmlessKeepsGate
<1>4. CASE ~ (\/ TakeGate(p) \/ SkipGate(p) \/ Skip(p) \/ Busy(p) \/ Save(p) \/ Exit(p))
  <2>1. OnlyOf(p) /\ GoesOn(p)
    BY <1>4, WorkGoesOn DEF RunStep
  <2> QED
    BY <2>1, HarmlessKeepsGate
<1> QED
  BY <1>1, <1>2, <1>3, <1>4

\* Hooks, pull requests, checkouts and the clock are not the gate's matter.
LEMMA WorldKeepsGate ==
  ASSUME GateInv,
         \/ \E a \in Agent : SessionStart(a) \/ SessionEnd(a) \/ Update(a)
         \/ OpenPull \/ Merge \/ RemoveCwd \/ Tick
         \/ UNCHANGED vars
  PROVE  GateInv'
<1>1. UNCHANGED <<gate, pc, run>>
  <2>1. ASSUME NEW a \in Agent, SessionStart(a) \/ SessionEnd(a) \/ Update(a)
        PROVE  UNCHANGED <<gate, pc, run>>
    BY <2>1 DEF SessionStart, SessionEnd, Update, Hook
  <2>2. CASE OpenPull \/ Merge \/ RemoveCwd \/ Tick
    BY <2>2 DEF OpenPull, Merge, RemoveCwd, Tick
  <2>3. CASE UNCHANGED vars
    BY <2>3 DEF vars
  <2> QED
    BY <2>1, <2>2, <2>3
<1> QED
  BY <1>1 DEF GateInv, RunTyped, SingleFlight, Args

\* The gate's invariant is inductive.
LEMMA NextKeepsGate ==
  ASSUME GateInv, [Next]_vars
  PROVE  GateInv'
<1>1. ASSUME NEW p \in Proc, Start(p) \/ RunStep(p) \/ Fail(p) \/ Crash(p)
      PROVE  GateInv'
  <2>1. CASE Start(p)
    BY <2>1, StartKeepsGate
  <2>2. CASE RunStep(p)
    BY <2>2, RunStepKeepsGate
  <2>3. CASE Fail(p)
    <3>1. Leave(p) /\ pc[p] # "idle" /\ gate' = gate
      BY <2>3 DEF Fail
    <3> QED
      BY <3>1, LeaveIsLeaving, HarmlessKeepsGate
  <2>4. CASE Crash(p)
    BY <2>4, EndIsGone, HarmlessKeepsGate
  <2> QED
    BY <1>1, <2>1, <2>2, <2>3, <2>4
<1> QED
  BY <1>1, WorldKeepsGate DEF Next

\* No process starts inside the gate.
LEMMA InitMakesGate == Init => GateInv
<1> SUFFICES ASSUME Init PROVE GateInv
  OBVIOUS
<1>1. None \notin Proc
  BY WorkerAssumption
<1>2. pc = [p \in Proc |-> "idle"] /\ run = [p \in Proc |-> IdleRun] /\ gate = None
  BY DEF Init
<1> QED
  BY <1>1, <1>2, IdleRunFields DEF GateInv, RunTyped, SingleFlight, Working, Phases

\* At most one detached worker is past ~/.agent-telemetry/backfill.lock, for any
\* number of Stops, agents, failures and kills, and no lock outlives its worker.
THEOREM SingleFlightCorrect == Spec => []SingleFlight
<1>1. GateInv => SingleFlight
  BY DEF GateInv
<1> QED
  BY <1>1, InitMakesGate, NextKeepsGate, PTL DEF Spec


-----------------------------------------------------------------------------
(* Minima, maxima and groups *)

\* Of two naturals Min is one, and no greater than the other.
LEMMA MinOfTwo ==
  ASSUME NEW m \in Nat, NEW n \in Nat
  PROVE  Min({m, n}) \in Nat /\ Min({m, n}) <= m /\ Min({m, n}) <= n
BY MinIsLeast

\* The instants are those of the clock, and a line's time is one of them or 0.
LEMMA TimeTyped ==
  /\ MaxNow \in Nat /\ Stamp = 1..MaxNow
  /\ \A r \in Row : SessionTime(r) \in 0..MaxNow
<1>1. MaxNow \in Nat /\ Stamp = 1..MaxNow
  BY WorkerAssumption
<1> QED
  BY <1>1 DEF SessionTime, Row, OrNone

\* What a line looks up is for lines of its branch.
Lookup ==
  [repo : OrNone(Repo), branch : OrNone(Branch), ids : SUBSET SessionId,
   cwd : OrNone(Cwd), newest : Nat]

\* g is a lookup for the lines on of snap, which all are candidates.
LooksUp(g, snap, on, recheck) ==
  /\ g.ids = {snap[i].id : i \in on} \ {None}
  /\ \A i \in on : /\ snap[i].repo = g.repo /\ snap[i].branch = g.branch
                   /\ Candidate(snap[i], recheck)
  /\ \E i \in on : g.cwd = snap[i].cwd

\* A group is a lookup for its lines.
LEMMA GroupOfLooksUp ==
  ASSUME NEW snap \in Seq(Row), NEW offset \in Nat, NEW on \in SUBSET DOMAIN snap,
         on # {}, NEW recheck,
         \A i, j \in on : snap[i].repo = snap[j].repo /\ snap[i].branch = snap[j].branch,
         \A i \in on : Candidate(snap[i], recheck)
  PROVE  /\ GroupOf(snap, offset, on) \in Lookup
         /\ LooksUp(GroupOf(snap, offset, on), snap, on, recheck)
<1> DEFINE before == {i \in on : i <= offset}
           last == Max(IF before # {} THEN before ELSE on)
           times == {SessionTime(snap[i]) : i \in on}
           g == GroupOf(snap, offset, on)
<1>1. last \in on
  <2>1. on \in SUBSET (0..Len(snap)) /\ Len(snap) \in Nat
    OBVIOUS
  <2>2. before # {} => Max(before) \in before
    <3>1. before \in SUBSET (0..Len(snap))
      BY <2>1
    <3> HIDE DEF before
    <3> QED
      BY <2>1, <3>1, MaxInInterval
  <2>3. Max(on) \in on
    BY <2>1, MaxInInterval
  <2> QED
    BY <2>2, <2>3
<1>2. Max(times) \in Nat
  <2>1. times \in SUBSET (0..MaxNow) /\ times # {}
    BY TimeTyped
  <2> HIDE DEF times
  <2>2. MaxNow \in Nat
    BY TimeTyped
  <2>3. Max(times) \in times
    BY <2>1, <2>2, MaxInInterval
  <2>4. Max(times) \in 0..MaxNow
    BY <2>1, <2>3
  <2> QED
    BY <2>2, <2>4
<1>3. \A i \in on : snap[i] \in Row
  OBVIOUS
<1>4. g = [repo |-> snap[last].repo, branch |-> snap[last].branch,
           ids |-> {snap[i].id : i \in on} \ {None}, cwd |-> snap[last].cwd,
           newest |-> Max(times)]
  BY DEF GroupOf
<1>5. {snap[i].id : i \in on} \ {None} \subseteq SessionId
  BY <1>3 DEF Row, OrNone
<1> HIDE DEF last, times, g
<1>6. snap[last] \in Row
  BY <1>1, <1>3
<1>7. g \in Lookup
  BY <1>2, <1>4, <1>5, <1>6 DEF Lookup, Row
<1>8. LooksUp(g, snap, on, recheck)
  BY <1>1, <1>4 DEF LooksUp
<1> QED
  BY <1>7, <1>8 DEF g

\* The groups of a snapshot are finitely many lookups, each for some of its
\* lines, and every candidate among the lines to look at has one.
LEMMA GroupsLookUp ==
  ASSUME NEW snap \in Seq(Row), NEW offset \in Nat, NEW recheck
  PROVE  /\ IsFiniteSet(Groups(snap, offset, recheck))
         /\ \A g \in Groups(snap, offset, recheck) :
              /\ g \in Lookup
              /\ \E on \in SUBSET DOMAIN snap : LooksUp(g, snap, on, recheck)
         /\ \A i \in Target(snap, offset) : Candidate(snap[i], recheck) =>
              \E g \in Groups(snap, offset, recheck) :
                /\ g.repo = snap[i].repo /\ g.branch = snap[i].branch
                /\ snap[i].id # None => snap[i].id \in g.ids
<1> DEFINE entries == {i \in Target(snap, offset) : Candidate(snap[i], recheck)}
           On(i) == {j \in entries : /\ snap[j].repo = snap[i].repo
                                     /\ snap[j].branch = snap[i].branch}
           f == [i \in entries |-> GroupOf(snap, offset, On(i))]
           T == Groups(snap, offset, recheck)
<1>1. T = {f[i] : i \in entries}
  BY DEF Groups
<1>2. entries \subseteq DOMAIN snap
  BY DEF Target
<1>3. IsFiniteSet(entries)
  <2>1. IsFiniteSet(1..Len(snap))
    BY FS_Interval
  <2>2. entries \in SUBSET (1..Len(snap))
    BY <1>2
  <2> HIDE DEF entries
  <2> QED
    BY <2>1, <2>2, FS_Subset
<1>4. IsFiniteSet(T)
  <2>1. f \in Surjection(entries, T)
    <3> HIDE DEF entries, T
    <3> QED
      BY <1>1 DEF Surjection
  <2> HIDE DEF entries, T, f
  <2> QED
    BY <1>3, <2>1, FS_Surjection
<1>5. ASSUME NEW i \in entries
      PROVE  /\ f[i] \in Lookup /\ On(i) \in SUBSET DOMAIN snap
             /\ LooksUp(f[i], snap, On(i), recheck) /\ i \in On(i)
  <2>1. /\ i \in On(i) /\ On(i) \in SUBSET DOMAIN snap
        /\ \A j, k \in On(i) : snap[j].repo = snap[k].repo /\ snap[j].branch = snap[k].branch
        /\ \A j \in On(i) : Candidate(snap[j], recheck)
    BY <1>2
  <2>2. f[i] = GroupOf(snap, offset, On(i))
    OBVIOUS
  <2> HIDE DEF On, f
  <2> QED
    BY <2>1, <2>2, GroupOfLooksUp
<1> HIDE DEF f, On
<1>6. \A g \in T : g \in Lookup /\ \E on \in SUBSET DOMAIN snap : LooksUp(g, snap, on, recheck)
  BY <1>1, <1>5
<1>7. ASSUME NEW i \in Target(snap, offset), Candidate(snap[i], recheck)
      PROVE  \E g \in T : /\ g.repo = snap[i].repo /\ g.branch = snap[i].branch
                          /\ snap[i].id # None => snap[i].id \in g.ids
  <2>1. i \in entries
    BY <1>7
  <2>2. f[i] \in T
    BY <1>1, <2>1
  <2> HIDE DEF entries
  <2> QED
    BY <1>5, <2>1, <2>2 DEF LooksUp
<1> QED
  BY <1>4, <1>6, <1>7

-----------------------------------------------------------------------------
(* Types *)

Pull == [url : Url, repo : Repo, branch : Branch]

\* The order of the checked URLs is left untyped: no property depends on it.
\* Nor does Row say that a line with pull requests has a last one.
StateOK(st) ==
  /\ DOMAIN st = {"offset", "lastMeta", "lastRun", "checks"}
  /\ st.offset \in Nat /\ st.lastMeta \in 0..MaxNow /\ st.lastRun \in 0..MaxNow

RunOK(r) ==
  /\ DOMAIN r = RunFields
  /\ r.args \in OrNone(Launches)
  /\ r.snap \in Seq(Row) /\ StateOK(r.st)
  /\ r.groups \subseteq Lookup /\ r.urls \subseteq OrNone(Url)
  /\ r.batch \in Batch /\ r.gh \in Nat

\* What a run at phase at has not done yet, or is done with.
ShapeOK(at, r) ==
  /\ at \in {"idle", "exit"} <=> r.args = None
  /\ at \in {"idle", "exit", "gate", "read", "load", "pin"} =>
       r.batch = EmptyBatch /\ r.gh = 0
  /\ at # "groups" => r.groups = {}
  /\ at # "urls" => r.urls = {}

RunsTyped ==
  /\ pc \in [Proc -> Phases]
  /\ DOMAIN run = Proc
  /\ \A p \in Proc : RunOK(run[p]) /\ ShapeOK(pc[p], run[p])

FileTyped ==
  /\ index \in [Agent -> Seq(Row)]
  /\ DOMAIN state = Agent
  /\ \A a \in Agent : StateOK(state[a])

WorldTyped ==
  /\ gate \in OrNone(Proc)
  /\ now \in 1..MaxNow
  /\ pulls \in Seq(Pull)
  /\ merged \subseteq {pulls[k].url : k \in DOMAIN pulls}
  /\ cwds \subseteq Cwd

WorkerTyped == RunsTyped /\ FileTyped /\ WorldTyped

\* The types the run checks are part of them.
LEMMA TypedIsTypeOK ==
  ASSUME WorkerTyped
  PROVE  TypeOK
BY DEF WorkerTyped, RunsTyped, FileTyped, WorldTyped, RunOK, ShapeOK, StateOK,
       TypeOK, Args

\* A run that has not begun, and the batch it begins with.
LEMMA IdleRunOK ==
  /\ RunOK(IdleRun) /\ EmptyBatch \in Batch
  /\ \A at \in {"idle", "exit"} : ShapeOK(at, IdleRun)
<1>1. EmptyBatch \in Batch
  BY DEF EmptyBatch, Batch, OrNone
<1>2. StateOK(ZeroState)
  BY TimeTyped DEF StateOK, ZeroState
<1> QED
  BY <1>1, <1>2 DEF RunOK, ShapeOK, IdleRun, RunFields, OrNone

\* A launch names an agent, and a session to pin or none.
LEMMA LaunchTyped ==
  \A o \in Launches : /\ o # None /\ o.agent \in Agent /\ o.detached \in BOOLEAN
                     /\ o.recheck \in BOOLEAN /\ o.gc \in BOOLEAN
                     /\ o.pin \in OrNone(SessionId) /\ (o.pin # None => o.detached)
BY WorkerAssumption DEF Launch

\* A process between its start and its end runs for an agent.
LEMMA RunsForAgent ==
  ASSUME RunsTyped, NEW p \in Proc, pc[p] \notin {"idle", "exit"}
  PROVE  Args(p) \in Launches /\ Agt(p) \in Agent
<1>1. Args(p) \in Launches
  BY DEF RunsTyped, RunOK, ShapeOK, Args, OrNone
<1> QED
  BY <1>1, LaunchTyped DEF Args, Agt

\* A step of p that leaves it with a run of the right type and shape.
LEMMA RunBecomesTyped ==
  ASSUME RunsTyped, NEW p \in Proc, OnlyOf(p), RunOK(run'[p]), ShapeOK(pc'[p], run'[p])
  PROVE  RunsTyped'
BY DEF RunsTyped, OnlyOf

\* Anything gh finds is a pull request there is, of the branch asked about.
LEMMA PullOfIsPull ==
  ASSUME WorldTyped, NEW repo, NEW branch, PullOf(repo, branch) # None
  PROVE  /\ PullOf(repo, branch) \in Url
         /\ \E k \in DOMAIN pulls : /\ pulls[k].url = PullOf(repo, branch)
                                   /\ pulls[k].repo = NormalizeRepo[repo]
                                   /\ pulls[k].branch = branch
<1> DEFINE K == {k \in 1..Len(pulls) : /\ pulls[k].repo = NormalizeRepo[repo]
                                       /\ pulls[k].branch = branch}
           i == SelectLastInSeq(pulls, LAMBDA q : /\ q.repo = NormalizeRepo[repo]
                                                  /\ q.branch = branch)
<1>1. i = IF K # {} THEN Max(K) ELSE 0
  BY DEF SelectLastInSeq
<1>2. i # 0 /\ PullOf(repo, branch) = pulls[i].url
  BY DEF PullOf
<1>3. K \in SUBSET (0..Len(pulls)) /\ Len(pulls) \in Nat
  BY DEF WorldTyped
<1>4. K # {} => Max(K) \in K
  <2> HIDE DEF K
  <2> QED
    BY <1>3, MaxInInterval
<1>5. i \in K
  BY <1>1, <1>2, <1>4
<1>6. i \in DOMAIN pulls /\ pulls[i] \in Pull
  BY <1>5 DEF WorldTyped
<1> HIDE DEF i
<1> QED
  BY <1>2, <1>5, <1>6 DEF Pull

\* What gh says about a pull request.
LEMMA MetaTyped ==
  ASSUME NEW u
  PROVE  Meta(u) \in PRMeta /\ Meta(u) # None
<1>1. Meta(u) \in PRMeta
  BY DEF Meta, PRMeta, OrNone
<1> QED
  BY <1>1, WorkerAssumption

\* The line to pin is one of the snapshot's, and the first of its session.
LEMMA PinLineIsLine ==
  ASSUME NEW p \in Proc, run[p].snap \in Seq(Row), WantsPin(p)
  PROVE  /\ ~Args(p).gc /\ Args(p).pin # None
         /\ \E i \in DOMAIN run[p].snap :
              /\ PinLine(p) = run[p].snap[i] /\ PinLine(p) \in Row
              /\ PinLine(p).id = Args(p).pin /\ ~PinLine(p).pinned
              /\ \A j \in 1..(i - 1) : run[p].snap[j].id # Args(p).pin
<1> DEFINE K == {k \in 1..Len(run[p].snap) : run[p].snap[k].id = Args(p).pin}
           i == SelectInSeq(run[p].snap, LAMBDA s : s.id = Args(p).pin)
<1>1. i = IF K # {} THEN Min(K) ELSE 0
  BY DEF SelectInSeq
<1>2. K \in SUBSET Nat /\ K \subseteq DOMAIN run[p].snap
  OBVIOUS
<1>3. K # {} => Min(K) \in K /\ \A k \in K : Min(K) <= k
  <2> HIDE DEF K
  <2> QED
    BY <1>2, MinIsLeast
<1>4. /\ ~Args(p).gc /\ Args(p).pin # None /\ i # 0
      /\ PinLine(p) = run[p].snap[i] /\ ~PinLine(p).pinned
  BY DEF WantsPin, PinLine
<1>5. i \in K /\ \A k \in K : i <= k
  BY <1>1, <1>3, <1>4
<1> HIDE DEF i
<1>6. i \in DOMAIN run[p].snap /\ run[p].snap[i] \in Row /\ run[p].snap[i].id = Args(p).pin
  BY <1>5
<1>7. \A j \in 1..(i - 1) : run[p].snap[j].id # Args(p).pin
  BY <1>5, <1>6
<1> QED
  BY <1>4, <1>6, <1>7

\* The batch of a run grows by well-typed entries.
LEMMA BatchGrows ==
  ASSUME NEW b \in Batch
  PROVE  /\ \A id \in SessionId, u \in Url :
              [b EXCEPT !.pins[id] = u, !.metas[u] = Meta(u)] \in Batch
         /\ \A ids \in SUBSET SessionId : [b EXCEPT !.checked = ids] \in Batch
         /\ \A ids \in SUBSET SessionId, u \in Url :
              [b EXCEPT !.urls = [id \in SessionId |-> IF id \in ids THEN <<u>> ELSE b.urls[id]],
                        !.metas[u] = Meta(u)] \in Batch
         /\ \A ends \in [SessionId -> OrNone(Stamp)] : [b EXCEPT !.ends = ends] \in Batch
         /\ \A u \in OrNone(Url) : [b EXCEPT !.metas[u] = Meta(u)] \in Batch
<1>1. \A u \in Url : Meta(u) \in PRMeta
  BY MetaTyped
<1>2. ASSUME NEW id \in SessionId, NEW u \in Url
      PROVE  [b EXCEPT !.pins[id] = u, !.metas[u] = Meta(u)] \in Batch
  BY <1>1 DEF Batch, OrNone
<1>3. \A ids \in SUBSET SessionId : [b EXCEPT !.checked = ids] \in Batch
  BY DEF Batch
<1>4. ASSUME NEW ids \in SUBSET SessionId, NEW u \in Url
      PROVE  [b EXCEPT !.urls = [id \in SessionId |-> IF id \in ids THEN <<u>> ELSE b.urls[id]],
                       !.metas[u] = Meta(u)] \in Batch
  <2>1. [id \in SessionId |-> IF id \in ids THEN <<u>> ELSE b.urls[id]] \in [SessionId -> Seq(Url)]
    BY DEF Batch
  <2>2. [b.metas EXCEPT ![u] = Meta(u)] \in [Url -> OrNone(PRMeta)]
    BY <1>1 DEF Batch, OrNone
  <2> DEFINE urls == [id \in SessionId |-> IF id \in ids THEN <<u>> ELSE b.urls[id]]
  <2> HIDE DEF urls
  <2>3. [b EXCEPT !.urls = urls, !.metas[u] = Meta(u)] \in Batch
    BY <2>1, <2>2 DEF Batch, urls
  <2> QED
    BY <2>3 DEF urls
<1>5. \A ends \in [SessionId -> OrNone(Stamp)] : [b EXCEPT !.ends = ends] \in Batch
  BY DEF Batch
<1>6. ASSUME NEW u \in OrNone(Url) PROVE [b EXCEPT !.metas[u] = Meta(u)] \in Batch
  <2>1. Meta(u) \in PRMeta
    BY MetaTyped
  <2> QED
    BY <2>1 DEF Batch, OrNone
<1> QED
  BY <1>2, <1>3, <1>4, <1>5, <1>6

\* The steps of a run, its start and its end keep every run's type.
LEMMA LeaveTyped ==
  ASSUME RunsTyped, NEW p \in Proc, OnlyOf(p), IsLeaving(p)
  PROVE  RunsTyped'
BY IdleRunOK, RunBecomesTyped DEF IsLeaving

LEMMA EndTyped ==
  ASSUME RunsTyped, NEW p \in Proc, OnlyOf(p), Exit(p) \/ Crash(p)
  PROVE  RunsTyped'
<1>1. CASE Crash(p)
  <2>1. pc'[p] = "idle" /\ run'[p] = IdleRun
    BY <1>1 DEF Crash, RunsTyped
  <2> QED
    BY <2>1, IdleRunOK, RunBecomesTyped
<1>2. CASE Exit(p)
  <2>1. pc'[p] = "idle" /\ pc[p] = "exit" /\ run'[p] = run[p]
    BY <1>2 DEF Exit, Is, RunsTyped
  <2>2. RunOK(run[p]) /\ ShapeOK("idle", run[p])
    BY <2>1 DEF RunsTyped, ShapeOK
  <2> QED
    BY <2>1, <2>2, RunBecomesTyped
<1> QED
  BY <1>1, <1>2

LEMMA StartTyped ==
  ASSUME RunsTyped, NEW p \in Proc, Start(p)
  PROVE  RunsTyped' /\ OnlyOf(p)
<1>1. PICK o \in Launches : /\ run' = [run EXCEPT ![p].args = o]
                            /\ pc' = [pc EXCEPT ![p] = IF o.detached THEN "gate" ELSE "read"]
  BY DEF Start
<1> DEFINE r == [run[p] EXCEPT !.args = o]
           to == IF o.detached THEN "gate" ELSE "read"
<1>2. RunOK(run[p]) /\ ShapeOK("idle", run[p])
  BY DEF RunsTyped, Start
<1>3. RunOK(r) /\ ShapeOK(to, r)
  BY <1>2, LaunchTyped DEF RunOK, ShapeOK, RunFields, OrNone
<1>4. run'[p] = r /\ pc'[p] = to /\ OnlyOf(p)
  BY <1>1 DEF RunsTyped, OnlyOf, Phases
<1> HIDE DEF r, to
<1> QED
  BY <1>3, <1>4, RunBecomesTyped

\* A step that only changes the phase of p.
LEMMA PlainStepTyped ==
  ASSUME RunsTyped, NEW p \in Proc, OnlyOf(p),
         \/ TakeGate(p) \/ NoPin(p) \/ NoEnds(p) \/ NothingFound(p) \/ Apply(p)
  PROVE  RunsTyped'
<1>1. run'[p] = run[p] /\ RunOK(run[p])
  BY DEF RunsTyped, TakeGate, NoPin, NoEnds, NothingFound, Apply
<1>2. ShapeOK(pc'[p], run[p])
  BY DEF RunsTyped, ShapeOK, TakeGate, NoPin, NoEnds, NothingFound, Apply, Is
<1> QED
  BY <1>1, <1>2, RunBecomesTyped

\* The steps that read the index and the state file, and a pin that fails.
LEMMA ReadTyped ==
  ASSUME RunsTyped, FileTyped, NEW p \in Proc, OnlyOf(p),
         ReadIndex(p) \/ ReadState(p) \/ PinUnknown(p)
  PROVE  RunsTyped'
<1>0. pc[p] \in {"read", "load", "pin"} /\ Agt(p) \in Agent /\ RunOK(run[p])
  <2>1. pc[p] \in {"read", "load", "pin"}
    BY DEF ReadIndex, ReadState, PinUnknown, Is
  <2> QED
    BY <2>1, RunsForAgent DEF RunsTyped
<1>1. CASE ReadIndex(p)
  <2>1. /\ run'[p] = [run[p] EXCEPT !.snap = index[Agt(p)]]
        /\ pc[p] = "read" /\ pc'[p] = "load" /\ index[Agt(p)] \in Seq(Row)
    BY <1>0, <1>1 DEF ReadIndex, Is, RunsTyped, FileTyped
  <2>2. RunOK(run'[p])
    BY <1>0, <2>1 DEF RunOK, RunFields
  <2>3. ShapeOK(pc'[p], run'[p])
    BY <1>0, <2>1 DEF RunsTyped, ShapeOK, RunOK, RunFields
  <2> QED
    BY <2>2, <2>3, RunBecomesTyped
<1>2. CASE ReadState(p)
  <2>1. /\ run'[p] = [run[p] EXCEPT !.st = state[Agt(p)]]
        /\ pc[p] = "load" /\ pc'[p] = "pin" /\ StateOK(state[Agt(p)])
    BY <1>0, <1>2 DEF ReadState, Is, RunsTyped, FileTyped
  <2>2. RunOK(run'[p])
    BY <1>0, <2>1 DEF RunOK, RunFields
  <2>3. ShapeOK(pc'[p], run'[p])
    BY <1>0, <2>1 DEF RunsTyped, ShapeOK, RunOK, RunFields
  <2> QED
    BY <2>2, <2>3, RunBecomesTyped
<1>3. CASE PinUnknown(p)
  <2>1. PICK n \in {0, 1} : run'[p] = [run[p] EXCEPT !.gh = n]
    BY <1>3 DEF PinUnknown, RunsTyped
  <2>2. pc[p] = "pin" /\ pc'[p] = "collect"
    BY <1>3 DEF PinUnknown, Is, RunsTyped
  <2>3. RunOK(run'[p])
    BY <1>0, <2>1 DEF RunOK, RunFields
  <2>4. ShapeOK(pc'[p], run'[p])
    BY <1>0, <2>1, <2>2 DEF RunsTyped, ShapeOK, RunOK, RunFields
  <2> QED
    BY <2>3, <2>4, RunBecomesTyped
<1> QED
  BY <1>1, <1>2, <1>3

\* A pin puts a pull request of the session's branch into the batch.
LEMMA PinFoundMakes ==
  ASSUME RunsTyped, WorldTyped, NEW p \in Proc, PinFound(p)
  PROVE  \E u \in Url :
           LET s == PinLine(p)
           IN  /\ u = PullOf(s.repo, s.branch) /\ s.id \in SessionId /\ s.id = Args(p).pin
               /\ run'[p] = [run[p] EXCEPT !.gh = 1,
                    !.batch = [run[p].batch EXCEPT !.pins[s.id] = u, !.metas[u] = Meta(u)]]
<1> DEFINE s == PinLine(p)
           u == PullOf(s.repo, s.branch)
<1>1. pc[p] = "pin" /\ WantsPin(p) /\ u # None
  BY DEF PinFound, Is
<1>2. u \in Url
  BY <1>1, PullOfIsPull
<1>3. s.id \in SessionId /\ s.id = Args(p).pin
  <2>1. run[p].snap \in Seq(Row) /\ Args(p) \in Launches
    BY <1>1, RunsForAgent DEF RunsTyped, RunOK
  <2> QED
    BY <1>1, <2>1, PinLineIsLine, LaunchTyped DEF OrNone
<1>4. run'[p] = [run[p] EXCEPT !.gh = 1,
           !.batch = [run[p].batch EXCEPT !.pins[s.id] = u, !.metas[u] = Meta(u)]]
  <2>1. run' = [run EXCEPT ![p].gh = 1,
           ![p].batch = [run[p].batch EXCEPT !.pins[s.id] = u, !.metas[u] = Meta(u)]]
    BY DEF PinFound
  <2> QED
    BY <2>1 DEF RunsTyped
<1> QED
  BY <1>2, <1>3, <1>4

LEMMA PinFoundTyped ==
  ASSUME RunsTyped, WorldTyped, NEW p \in Proc, OnlyOf(p), PinFound(p)
  PROVE  RunsTyped'
<1>1. PICK b \in Batch : run'[p] = [run[p] EXCEPT !.gh = 1, !.batch = b]
  <2>1. run[p].batch \in Batch
    BY DEF RunsTyped, RunOK
  <2> QED
    BY <2>1, PinFoundMakes, BatchGrows
<1>2. pc[p] = "pin" /\ pc'[p] = "collect"
  BY DEF PinFound, Is, RunsTyped
<1>3. RunOK(run'[p])
  BY <1>1 DEF RunsTyped, RunOK, RunFields
<1>4. ShapeOK(pc'[p], run'[p])
  BY <1>1, <1>2 DEF RunsTyped, ShapeOK, RunOK, RunFields
<1> QED
  BY <1>3, <1>4, RunBecomesTyped

\* The lookups of Phase 1 are finitely many, and those of the snapshot.
LEMMA AllGroupsLookUp ==
  ASSUME RunsTyped, NEW p \in Proc
  PROVE  /\ IsFiniteSet(AllGroups(p)) /\ AllGroups(p) \subseteq Lookup
         /\ \A g \in AllGroups(p) :
              \E on \in SUBSET DOMAIN run[p].snap : LooksUp(g, run[p].snap, on, Args(p).recheck)
         /\ \A i \in DOMAIN run[p].snap :
              Candidate(run[p].snap[i], FALSE) =>
              \E g \in AllGroups(p) :
                /\ g.repo = run[p].snap[i].repo /\ g.branch = run[p].snap[i].branch
                /\ run[p].snap[i].id # None => run[p].snap[i].id \in g.ids
<1> DEFINE snap == run[p].snap
           offset == Offset(run[p].st, snap, run[p].args)
           recheck == Args(p).recheck
<1>1. snap \in Seq(Row) /\ offset \in Nat
  BY DEF RunsTyped, RunOK, StateOK, Offset
<1>2. AllGroups(p) = Groups(snap, offset, recheck)
  BY DEF AllGroups, Args
<1>3. \A i \in DOMAIN snap : Candidate(snap[i], FALSE) =>
        i \in Target(snap, offset) /\ Candidate(snap[i], recheck)
  BY DEF Candidate, Target, Pending
<1> HIDE DEF snap, offset, recheck
<1> DEFINE G == Groups(snap, offset, recheck)
<1>4. /\ IsFiniteSet(G)
      /\ \A g \in G : /\ g \in Lookup
                      /\ \E on \in SUBSET DOMAIN snap : LooksUp(g, snap, on, recheck)
      /\ \A i \in Target(snap, offset) : Candidate(snap[i], recheck) =>
           \E g \in G : /\ g.repo = snap[i].repo /\ g.branch = snap[i].branch
                        /\ snap[i].id # None => snap[i].id \in g.ids
  BY <1>1, GroupsLookUp
<1> HIDE DEF G
<1>5. \A i \in DOMAIN snap : Candidate(snap[i], FALSE) =>
        \E g \in G : /\ g.repo = snap[i].repo /\ g.branch = snap[i].branch
                     /\ snap[i].id # None => snap[i].id \in g.ids
  BY <1>3, <1>4
<1> QED
  BY <1>2, <1>4, <1>5 DEF G, snap, recheck

\* Phase 1 looks up some of the groups.
LEMMA CollectMakes ==
  ASSUME RunsTyped, NEW p \in Proc, Collect(p)
  PROVE  \E chosen \in SUBSET AllGroups(p) :
           /\ run'[p] = [run[p] EXCEPT !.groups = chosen]
           /\ \/ Args(p).recheck
              \/ chosen \in NewestFirst(AllGroups(p), GHCap - PinCost(p))
BY DEF Collect, RunsTyped, NewestFirst

LEMMA CollectTyped ==
  ASSUME RunsTyped, NEW p \in Proc, OnlyOf(p), Collect(p) \/ CollectGarbage(p)
  PROVE  RunsTyped'
<1>1. CASE Collect(p)
  <2>1. PICK chosen \in SUBSET Lookup : run'[p] = [run[p] EXCEPT !.groups = chosen]
    BY <1>1, CollectMakes, AllGroupsLookUp
  <2>2. pc[p] = "collect" /\ pc'[p] = "groups"
    BY <1>1 DEF Collect, Is, RunsTyped
  <2>3. RunOK(run'[p])
    BY <2>1 DEF RunsTyped, RunOK, RunFields
  <2>4. ShapeOK(pc'[p], run'[p])
    BY <2>1, <2>2 DEF RunsTyped, ShapeOK, RunOK, RunFields
  <2> QED
    BY <2>3, <2>4, RunBecomesTyped
<1>2. CASE CollectGarbage(p)
  <2>1. PICK ids \in SUBSET SessionId :
          run'[p] = [run[p] EXCEPT !.batch = [run[p].batch EXCEPT !.checked = ids]]
    BY <1>2 DEF CollectGarbage, RunsTyped
  <2>2. PICK b \in Batch : run'[p] = [run[p] EXCEPT !.batch = b]
    BY <2>1, BatchGrows DEF RunsTyped, RunOK
  <2>3. pc[p] = "collect" /\ pc'[p] = "groups"
    BY <1>2 DEF CollectGarbage, Is, RunsTyped
  <2>4. RunOK(run'[p])
    BY <2>2 DEF RunsTyped, RunOK, RunFields
  <2>5. ShapeOK(pc'[p], run'[p])
    BY <2>2, <2>3 DEF RunsTyped, ShapeOK, RunOK, RunFields
  <2> QED
    BY <2>4, <2>5, RunBecomesTyped
<1> QED
  BY <1>1, <1>2

\* The batch of a lookup that is given up, and of one that is answered.
GivenUp(b, g) == [b EXCEPT !.checked = b.checked \cup g.ids]

Answered(b, g, u) ==
  [b EXCEPT !.urls = [id \in SessionId |-> IF id \in g.ids THEN <<u>> ELSE b.urls[id]],
            !.metas[u] = Meta(u)]

\* A lookup of Phase 1 gives up its group, leaves it, or finds its pull request.
GroupEnds(p, g) ==
  LET r == run[p]
  IN  \/ /\ g.cwd \notin cwds
         /\ run'[p] = [r EXCEPT !.groups = r.groups \ {g}, !.batch = GivenUp(r.batch, g)]
      \/ run'[p] = [r EXCEPT !.groups = r.groups \ {g}, !.gh = r.gh + 1]
      \/ \E u \in Url :
           run'[p] = [r EXCEPT !.groups = r.groups \ {g}, !.gh = r.gh + 1,
                               !.batch = Answered(r.batch, g, u)]

LEMMA GroupMakes ==
  ASSUME RunsTyped, WorldTyped, NEW p \in Proc, NEW g \in run[p].groups,
         GroupGone(p, g) \/ GroupUnknown(p, g) \/ GroupFound(p, g)
  PROVE  pc[p] = "groups" /\ pc' = pc /\ g \in Lookup /\ GroupEnds(p, g)
<1>1. g \in Lookup
  BY DEF RunsTyped, RunOK
<1>2. CASE GroupGone(p, g)
  <2>1. run'[p] = [run[p] EXCEPT !.groups = run[p].groups \ {g},
                     !.batch = [run[p].batch EXCEPT !.checked = run[p].batch.checked \cup g.ids]]
    BY <1>2 DEF GroupGone, RunsTyped
  <2> QED
    BY <1>1, <1>2, <2>1 DEF GroupGone, GroupEnds, GivenUp
<1>3. CASE GroupUnknown(p, g)
  BY <1>1, <1>3 DEF GroupUnknown, RunsTyped, GroupEnds
<1>4. CASE GroupFound(p, g)
  <2> DEFINE u == PullOf(g.repo, g.branch)
             b == Answered(run[p].batch, g, u)
  <2>1. u \in Url
    BY <1>4, PullOfIsPull DEF GroupFound
  <2>2. /\ pc[p] = "groups" /\ pc' = pc
        /\ run' = [run EXCEPT ![p].groups = run[p].groups \ {g},
                              ![p].gh = run[p].gh + 1, ![p].batch = b]
    BY <1>4 DEF GroupFound, Answered
  <2> HIDE DEF b
  <2>3. run'[p] = [run[p] EXCEPT !.groups = run[p].groups \ {g}, !.gh = run[p].gh + 1, !.batch = b]
    BY <2>2 DEF RunsTyped
  <2> HIDE DEF u
  <2> QED
    BY <1>1, <2>1, <2>2, <2>3 DEF GroupEnds, b
<1> QED
  BY <1>2, <1>3, <1>4

LEMMA GroupTyped ==
  ASSUME RunsTyped, WorldTyped, NEW p \in Proc, OnlyOf(p), NEW g \in run[p].groups,
         GroupGone(p, g) \/ GroupUnknown(p, g) \/ GroupFound(p, g)
  PROVE  RunsTyped'
<1>1. /\ RunOK(run[p]) /\ ShapeOK(pc[p], run[p]) /\ pc'[p] = "groups" /\ pc[p] = "groups"
      /\ g \in Lookup /\ GroupEnds(p, g)
  BY GroupMakes DEF RunsTyped
<1> DEFINE r == run[p]
<1> HIDE DEF r
<1>2. r.batch \in Batch /\ r.gh \in Nat /\ DOMAIN r = RunFields
  BY <1>1 DEF r, RunOK
<1>3. GivenUp(r.batch, g) \in Batch /\ \A u \in Url : Answered(r.batch, g, u) \in Batch
  <2>1. g.ids \in SUBSET SessionId /\ r.batch.checked \in SUBSET SessionId
    BY <1>1, <1>2 DEF Lookup, Batch
  <2> QED
    BY <1>2, <2>1, BatchGrows DEF GivenUp, Answered
<1>4. \/ run'[p] = [r EXCEPT !.groups = r.groups \ {g}, !.batch = GivenUp(r.batch, g)]
      \/ run'[p] = [r EXCEPT !.groups = r.groups \ {g}, !.gh = r.gh + 1]
      \/ \E u \in Url :
           run'[p] = [r EXCEPT !.groups = r.groups \ {g}, !.gh = r.gh + 1,
                               !.batch = Answered(r.batch, g, u)]
  BY <1>1 DEF GroupEnds, r
<1>5. /\ DOMAIN run'[p] = RunFields
      /\ run'[p].batch \in Batch /\ run'[p].gh \in Nat /\ run'[p].groups = r.groups \ {g}
      /\ run'[p].args = r.args /\ run'[p].snap = r.snap /\ run'[p].st = r.st
      /\ run'[p].urls = r.urls
  <2>1. CASE run'[p] = [r EXCEPT !.groups = r.groups \ {g}, !.batch = GivenUp(r.batch, g)]
    BY <1>2, <1>3, <2>1 DEF RunFields
  <2>2. CASE run'[p] = [r EXCEPT !.groups = r.groups \ {g}, !.gh = r.gh + 1]
    BY <1>2, <2>2 DEF RunFields
  <2>3. ASSUME NEW b \in Batch,
               run'[p] = [r EXCEPT !.groups = r.groups \ {g}, !.gh = r.gh + 1, !.batch = b]
        PROVE  /\ DOMAIN run'[p] = RunFields
               /\ run'[p].batch \in Batch /\ run'[p].gh \in Nat /\ run'[p].groups = r.groups \ {g}
               /\ run'[p].args = r.args /\ run'[p].snap = r.snap /\ run'[p].st = r.st
               /\ run'[p].urls = r.urls
    BY <1>2, <2>3 DEF RunFields
  <2> QED
    BY <1>3, <1>4, <2>1, <2>2, <2>3
<1>6. RunOK(run'[p])
  BY <1>1, <1>5 DEF RunOK, r
<1>7. ShapeOK(pc'[p], run'[p])
  BY <1>1, <1>5 DEF ShapeOK, r
<1> QED
  BY <1>6, <1>7, RunBecomesTyped

\* What FillEnds and StartMeta make of the run.
LEMMA FillEndsTyped ==
  ASSUME RunsTyped, NEW p \in Proc, OnlyOf(p), FillEnds(p)
  PROVE  RunsTyped'
<1>1. PICK b \in Batch : run'[p] = [run[p] EXCEPT !.batch = b]
  <2>1. PICK ends \in [SessionId -> OrNone(Stamp)] :
          run'[p] = [run[p] EXCEPT !.batch = [run[p].batch EXCEPT !.ends = ends]]
    BY DEF FillEnds, RunsTyped
  <2> QED
    BY <2>1, BatchGrows DEF RunsTyped, RunOK
<1>2. pc[p] = "groups" /\ pc'[p] = "meta" /\ run[p].groups = {}
  BY DEF FillEnds, Is, RunsTyped
<1>3. RunOK(run'[p])
  BY <1>1 DEF RunsTyped, RunOK, RunFields
<1>4. ShapeOK(pc'[p], run'[p])
  BY <1>1, <1>2 DEF RunsTyped, ShapeOK, RunOK, RunFields
<1> QED
  BY <1>3, <1>4, RunBecomesTyped

LEMMA StartMetaMakes ==
  ASSUME RunsTyped, NEW p \in Proc, StartMeta(p)
  PROVE  /\ pc[p] = "meta" /\ pc'[p] = "urls"
         /\ \E chosen \in SUBSET OpenUrls(run[p].snap) :
              /\ run'[p] = [run[p] EXCEPT !.urls = chosen, !.st = Advance(p), !.snap = <<>>]
              /\ \/ chosen = {}
                 \/ chosen \in OldestFirst(OpenUrls(run[p].snap), run[p].st.checks, GHCap)
<1>1. pc[p] = "meta" /\ pc'[p] = "urls"
  BY DEF StartMeta, Is, RunsTyped
<1>2. PICK chosen \in IF MetaIsDue(p)
                      THEN OldestFirst(OpenUrls(run[p].snap), run[p].st.checks, GHCap)
                      ELSE {{}} :
        run' = [run EXCEPT ![p].urls = chosen, ![p].st = Advance(p), ![p].snap = <<>>]
  BY DEF StartMeta
<1>3. run'[p] = [run[p] EXCEPT !.urls = chosen, !.st = Advance(p), !.snap = <<>>]
  BY <1>2 DEF RunsTyped
<1>4. \/ chosen = {}
      \/ chosen \in OldestFirst(OpenUrls(run[p].snap), run[p].st.checks, GHCap)
  BY <1>2
<1>5. chosen \in SUBSET OpenUrls(run[p].snap)
  BY <1>4 DEF OldestFirst
<1> QED
  BY <1>1, <1>3, <1>4, <1>5

\* The state a run saves is typed: its instants are the clock's.
LEMMA AdvanceTyped ==
  ASSUME RunsTyped, WorldTyped, NEW p \in Proc
  PROVE  StateOK(Advance(p))
<1>1. StateOK(run[p].st) /\ Len(run[p].snap) \in Nat
  BY DEF RunsTyped, RunOK
<1>2. MaxNow \in Nat /\ now \in 1..MaxNow
  BY TimeTyped DEF WorldTyped
<1> QED
  BY <1>1, <1>2 DEF StateOK, Advance

LEMMA StartMetaTyped ==
  ASSUME RunsTyped, WorldTyped, NEW p \in Proc, OnlyOf(p), StartMeta(p)
  PROVE  RunsTyped'
<1>1. PICK chosen \in SUBSET OpenUrls(run[p].snap) :
        run'[p] = [run[p] EXCEPT !.urls = chosen, !.st = Advance(p), !.snap = <<>>]
  BY StartMetaMakes
<1>2. pc[p] = "meta" /\ pc'[p] = "urls" /\ StateOK(Advance(p)) /\ RunOK(run[p])
  BY AdvanceTyped, StartMetaMakes DEF RunsTyped
<1>3. chosen \subseteq OrNone(Url)
  <2>1. run[p].snap \in Seq(Row)
    BY <1>2 DEF RunOK
  <2>2. \A i \in DOMAIN run[p].snap : run[p].snap[i] \in Row
    BY <2>1
  <2>3. \A i \in DOMAIN run[p].snap : run[p].snap[i].last \in OrNone(Url)
    BY <2>2 DEF Row
  <2> QED
    BY <2>3 DEF OpenUrls
<1>4. RunOK(run'[p])
  BY <1>1, <1>2, <1>3 DEF RunOK, RunFields
<1>5. ShapeOK(pc'[p], run'[p])
  BY <1>1, <1>2 DEF RunsTyped, ShapeOK, RunOK, RunFields
<1> QED
  BY <1>4, <1>5, RunBecomesTyped

\* A lookup of Phase 2 is done, with the state of a pull request or without.
LEMMA UrlMakes ==
  ASSUME RunsTyped, NEW p \in Proc, NEW u \in run[p].urls, UrlUnknown(p, u) \/ UrlFound(p, u)
  PROVE  /\ pc[p] = "urls" /\ pc' = pc /\ u \in OrNone(Url)
         /\ \E b \in Batch : \E st :
              /\ StateOK(st)
              /\ run'[p] = [run[p] EXCEPT !.urls = run[p].urls \ {u}, !.gh = run[p].gh + 1,
                                          !.batch = b, !.st = st]
              /\ b = run[p].batch \/ b = [run[p].batch EXCEPT !.metas[u] = Meta(u)]
<1>1. u \in OrNone(Url) /\ run[p].batch \in Batch /\ DOMAIN run[p] = RunFields
  BY DEF RunsTyped, RunOK
<1>2. StateOK(run[p].st)
  BY DEF RunsTyped, RunOK
<1>3. CASE UrlUnknown(p, u)
  <2>1. run'[p] = [run[p] EXCEPT !.urls = run[p].urls \ {u}, !.gh = run[p].gh + 1]
    BY <1>3 DEF UrlUnknown, RunsTyped
  <2>2. run'[p] = [run[p] EXCEPT !.urls = run[p].urls \ {u}, !.gh = run[p].gh + 1,
                                 !.batch = run[p].batch, !.st = run[p].st]
    BY <1>1, <2>1 DEF RunFields
  <2> QED
    BY <1>1, <1>2, <1>3, <2>2 DEF UrlUnknown
<1>4. CASE UrlFound(p, u)
  <2> DEFINE checks == Checked(run[p].st.checks, u)
             st == [run[p].st EXCEPT !.checks = checks]
             b == [run[p].batch EXCEPT !.metas[u] = Meta(u)]
  <2>1. b \in Batch
    BY <1>1, BatchGrows
  <2>2. StateOK(st)
    <3> HIDE DEF checks
    <3> QED
      BY <1>2 DEF StateOK
  <2>3. run'[p] = [run[p] EXCEPT !.urls = run[p].urls \ {u}, !.gh = run[p].gh + 1,
                                 !.batch = b, !.st = st]
    BY <1>4 DEF UrlFound, RunsTyped
  <2> HIDE DEF st
  <2> QED
    BY <1>1, <1>4, <2>1, <2>2, <2>3 DEF UrlFound
<1> QED
  BY <1>3, <1>4

LEMMA UrlTyped ==
  ASSUME RunsTyped, NEW p \in Proc, OnlyOf(p), NEW u \in run[p].urls,
         UrlUnknown(p, u) \/ UrlFound(p, u)
  PROVE  RunsTyped'
<1>0. /\ pc[p] = "urls" /\ pc' = pc /\ u \in OrNone(Url)
      /\ \E b \in Batch : \E st :
           /\ StateOK(st)
           /\ run'[p] = [run[p] EXCEPT !.urls = run[p].urls \ {u}, !.gh = run[p].gh + 1,
                                       !.batch = b, !.st = st]
           /\ b = run[p].batch \/ b = [run[p].batch EXCEPT !.metas[u] = Meta(u)]
  BY UrlMakes
<1>1. PICK b, st :
        /\ b \in Batch /\ StateOK(st)
        /\ run'[p] = [run[p] EXCEPT !.urls = run[p].urls \ {u}, !.gh = run[p].gh + 1,
                                    !.batch = b, !.st = st]
  BY <1>0, Zenon
<1>2. pc[p] = "urls" /\ pc' = pc /\ RunOK(run[p])
  BY UrlMakes DEF RunsTyped
<1>3. RunOK(run'[p])
  BY <1>1, <1>2 DEF RunOK, RunFields
<1>4. ShapeOK(pc'[p], run'[p])
  BY <1>1, <1>2 DEF RunsTyped, ShapeOK, RunOK, RunFields
<1> QED
  BY <1>3, <1>4, RunBecomesTyped

-----------------------------------------------------------------------------
(* The steps of a process, sorted *)

\* The process p, or the kernel that ends it, takes a step.
ProcessStep(p) == Start(p) \/ RunStep(p) \/ Fail(p) \/ Crash(p)

\* p begins anew, ends, or has nothing yet.
Fresh(p) ==
  \/ Start(p) \/ Fail(p) \/ Crash(p) \/ Exit(p)
  \/ TakeGate(p) \/ SkipGate(p) \/ Skip(p) \/ Busy(p) \/ Save(p)

\* p goes on with its run, in one of these ways.
Works(p) ==
  \/ ReadIndex(p) \/ ReadState(p)
  \/ NoPin(p) \/ PinUnknown(p) \/ PinFound(p)
  \/ Collect(p) \/ CollectGarbage(p)
  \/ \E g \in run[p].groups : GroupGone(p, g) \/ GroupUnknown(p, g) \/ GroupFound(p, g)
  \/ FillEnds(p) \/ NoEnds(p) \/ StartMeta(p)
  \/ \E u \in run[p].urls : UrlUnknown(p, u) \/ UrlFound(p, u)
  \/ NothingFound(p) \/ Apply(p)

LEMMA StepsSorted ==
  ASSUME NEW p \in Proc
  PROVE  ProcessStep(p) <=> Fresh(p) \/ Works(p)
BY DEF ProcessStep, RunStep, Fresh, Works

\* A step of p is no other's, and leaves the world as it is.
LEMMA StepIsOnlyOf ==
  ASSUME GateInv, RunsTyped, NEW p \in Proc, ProcessStep(p)
  PROVE  OnlyOf(p) /\ UNCHANGED <<now, pulls, merged, cwds>>
<1>1. CASE Works(p)
  <2>1. OnlyOf(p)
    BY <1>1, WorkGoesOn DEF Works
  <2>2. UNCHANGED <<now, pulls, merged, cwds>>
    BY <1>1 DEF Works, ReadIndex, ReadState, NoPin, PinUnknown, PinFound, Collect,
         CollectGarbage, GroupGone, GroupUnknown, GroupFound, FillEnds, NoEnds,
         StartMeta, UrlUnknown, UrlFound, NothingFound, Apply, world
  <2> QED
    BY <2>1, <2>2
<1>2. CASE Start(p) \/ TakeGate(p)
  <2>1. CASE Start(p)
    BY <2>1, StartTyped DEF Start, world
  <2>2. CASE TakeGate(p)
    BY <2>2 DEF TakeGate, Is, OnlyOf, RunsTyped, Phases, world
  <2> QED
    BY <1>2, <2>1, <2>2
<1>3. CASE Fail(p) \/ SkipGate(p) \/ Skip(p) \/ Busy(p) \/ Save(p)
  <2>1. Leave(p) /\ pc[p] # "idle" /\ gate' = gate /\ UNCHANGED <<now, pulls, merged, cwds>>
    BY <1>3 DEF Fail, SkipGate, Skip, Busy, Save, world
  <2> QED
    BY <2>1, LeaveIsLeaving
<1>4. CASE Exit(p) \/ Crash(p)
  <2>1. UNCHANGED <<now, pulls, merged, cwds>>
    BY <1>4 DEF Exit, Crash, world
  <2> QED
    BY <1>4, <2>1, EndIsGone
<1> QED
  BY <1>1, <1>2, <1>3, <1>4, StepsSorted DEF Fresh

\* The index is only changed by Apply, the state file only by Save.
LEMMA StepOfFiles ==
  ASSUME NEW p \in Proc, ProcessStep(p)
  PROVE  /\ ~Apply(p) => index' = index
         /\ ~Save(p) => state' = state
<1>1. CASE Works(p)
  BY <1>1 DEF Works, ReadIndex, ReadState, NoPin, PinUnknown, PinFound, Collect,
       CollectGarbage, GroupGone, GroupUnknown, GroupFound, FillEnds, NoEnds,
       StartMeta, UrlUnknown, UrlFound, NothingFound, Apply, Save, file
<1>2. CASE Fresh(p)
  BY <1>2 DEF Fresh, Start, TakeGate, Fail, SkipGate, Skip, Busy, Save, Exit, Crash, file
<1> QED
  BY <1>1, <1>2, StepsSorted

\* Every step of a process keeps the types of the runs.
LEMMA ProcessStepTyped ==
  ASSUME GateInv, WorkerTyped, NEW p \in Proc, ProcessStep(p)
  PROVE  RunsTyped'
<1>0. RunsTyped /\ FileTyped /\ WorldTyped /\ OnlyOf(p)
  BY StepIsOnlyOf DEF WorkerTyped
<1>1. CASE Start(p)
  BY <1>0, <1>1, StartTyped
<1>2. CASE Fail(p) \/ SkipGate(p) \/ Skip(p) \/ Busy(p) \/ Save(p)
  <2>1. Leave(p) /\ pc[p] # "idle" /\ gate' = gate
    BY <1>2 DEF Fail, SkipGate, Skip, Busy, Save
  <2> QED
    BY <1>0, <2>1, LeaveIsLeaving, LeaveTyped
<1>3. CASE Exit(p) \/ Crash(p)
  BY <1>0, <1>3, EndTyped
<1>4. CASE TakeGate(p) \/ NoPin(p) \/ NoEnds(p) \/ NothingFound(p) \/ Apply(p)
  BY <1>0, <1>4, PlainStepTyped
<1>5. CASE ReadIndex(p) \/ ReadState(p) \/ PinUnknown(p)
  BY <1>0, <1>5, ReadTyped
<1>6. CASE PinFound(p)
  BY <1>0, <1>6, PinFoundTyped
<1>7. CASE Collect(p) \/ CollectGarbage(p)
  BY <1>0, <1>7, CollectTyped
<1>8. ASSUME NEW g \in run[p].groups,
             GroupGone(p, g) \/ GroupUnknown(p, g) \/ GroupFound(p, g)
      PROVE  RunsTyped'
  BY <1>0, <1>8, GroupTyped
<1>9. CASE FillEnds(p)
  BY <1>0, <1>9, FillEndsTyped
<1>10. CASE StartMeta(p)
  BY <1>0, <1>10, StartMetaTyped
<1>11. ASSUME NEW u \in run[p].urls, UrlUnknown(p, u) \/ UrlFound(p, u)
       PROVE  RunsTyped'
  BY <1>0, <1>11, UrlTyped
<1> QED
  BY <1>1, <1>2, <1>3, <1>4, <1>5, <1>6, <1>7, <1>8, <1>9, <1>10, <1>11
     DEF ProcessStep, RunStep

-----------------------------------------------------------------------------
(* How the index and the world move on *)

\* What a hook or a user may make of a line: a pinned session's pull request,
\* the marks and the merge state are not theirs.
HookMakes(r, s) ==
  /\ s.pinned = r.pinned /\ s.checked = r.checked /\ s.merged = r.merged
  /\ s.ended # r.ended => s.ended = now
  /\ r.pinned => s.urls = r.urls /\ s.last = r.last
  /\ r.urls \subseteq s.urls
  /\ s.urls = r.urls => s.last = r.last

\* A line SessionStart wrote.
NewLine(s) ==
  /\ ~s.pinned /\ ~s.checked /\ ~s.merged /\ s.urls = {}
  /\ s.id # None /\ s.started = now /\ s.ended = None

\* A hook's lines become out.
HookRewrites(rows, out) ==
  /\ out \in Seq(Row) /\ Len(rows) <= Len(out)
  /\ \A i \in DOMAIN rows : Advances(rows[i], out[i]) /\ HookMakes(rows[i], out[i])
  /\ \A i \in DOMAIN out \ DOMAIN rows : NewLine(out[i])

\* An update that rewrites lines on their own.
LEMMA EvolvedLines ==
  ASSUME NEW rows \in Seq(Row), NEW out, AllEvolve(rows, out),
         \A i \in DOMAIN rows : HookMakes(rows[i], out[i])
  PROVE  HookRewrites(rows, out)
BY DEF AllEvolve, Evolves, HookRewrites

\* Appending URLs to a session that is not pinned.
LEMMA AppendIsHook ==
  ASSUME NEW r \in Row, ~r.pinned, NEW add \in Seq(Url)
  PROVE  HookMakes(r, AppendUniqueURLs(r, r, add))
BY AppendUniqueMakes DEF HookMakes

LEMMA SessionEndRewrites ==
  ASSUME NEW rows \in Seq(Row), NEW id \in SessionId, now \in Stamp
  PROVE  HookRewrites(rows, ApplyUpdateEnd(rows, rows, [x \in {id} |-> now]))
<1> DEFINE ends == [x \in {id} |-> now]
           out == ApplyUpdateEnd(rows, rows, ends)
<1>1. AllEvolve(rows, out)
  <2>1. \A x \in DOMAIN ends : ends[x] \in OrNone(Stamp)
    BY DEF OrNone
  <2> HIDE DEF ends
  <2> QED
    BY <2>1, ApplyUpdateEndEvolves
<1>2. ASSUME NEW i \in DOMAIN rows PROVE HookMakes(rows[i], out[i])
  <2> DEFINE r == rows[i]
  <2>1. out[i] = r \/ out[i] = [r EXCEPT !.ended = now]
    BY DEF ApplyUpdateEnd, EntryOf
  <2>2. r \in Row
    OBVIOUS
  <2> HIDE DEF r, out
  <2>3. HookMakes(r, out[i])
    BY <2>1, <2>2 DEF Row, HookMakes
  <2> QED
    BY <2>3 DEF r
<1> HIDE DEF out
<1>3. HookRewrites(rows, out)
  BY <1>1, <1>2, EvolvedLines
<1> QED
  BY <1>3 DEF out

LEMMA UpdateRewrites ==
  ASSUME NEW rows \in Seq(Row), NEW id \in SessionId, NEW u \in Url
  PROVE  HookRewrites(rows, ApplyUpdate(rows, rows, [x \in {id} |-> <<u>>]))
<1> DEFINE add == [x \in {id} |-> <<u>>]
           out == ApplyUpdate(rows, rows, add)
<1>1. \A x \in DOMAIN add : add[x] \in Seq(Url)
  OBVIOUS
<1> HIDE DEF add
<1>2. AllEvolve(rows, out)
  BY <1>1, ApplyUpdateEvolves
<1>3. ASSUME NEW i \in DOMAIN rows PROVE HookMakes(rows[i], out[i])
  <2>1. rows[i] \in Row
    OBVIOUS
  <2>2. CASE rows[i].id \in DOMAIN add /\ ~rows[i].pinned
    BY <1>1, <2>1, <2>2, AppendIsHook DEF ApplyUpdate
  <2>3. CASE ~(rows[i].id \in DOMAIN add /\ ~rows[i].pinned)
    BY <2>1, <2>3 DEF ApplyUpdate, HookMakes
  <2> QED
    BY <2>2, <2>3
<1> HIDE DEF out
<1>4. HookRewrites(rows, out)
  BY <1>2, <1>3, EvolvedLines
<1> QED
  BY <1>4 DEF out, add

LEMMA UpdateByBranchRewrites ==
  ASSUME NEW rows \in Seq(Row), NEW repo, NEW branch, NEW u \in Url
  PROVE  HookRewrites(rows, UpdateByBranch(rows, repo, branch, u))
<1> DEFINE out == UpdateByBranch(rows, repo, branch, u)
<1>1. AllEvolve(rows, out)
  BY UpdateByBranchEvolves
<1>2. ASSUME NEW i \in DOMAIN rows PROVE HookMakes(rows[i], out[i])
  <2>1. rows[i] \in Row /\ <<u>> \in Seq(Url)
    OBVIOUS
  <2>2. \/ out[i] = rows[i]
        \/ ~rows[i].pinned /\ out[i] = AppendUniqueURLs(rows[i], rows[i], <<u>>)
    BY DEF UpdateByBranch
  <2> HIDE DEF out
  <2> QED
    BY <2>1, <2>2, AppendIsHook DEF HookMakes
<1> HIDE DEF out
<1>3. HookRewrites(rows, out)
  BY <1>1, <1>2, EvolvedLines
<1> QED
  BY <1>3 DEF out

LEMMA SessionStartRewrites ==
  ASSUME NEW rows \in Seq(Row), NEW id \in SessionId, NEW u \in User,
         NEW c \in Checkouts, now \in Stamp
  PROVE  HookRewrites(rows, Append(rows, StartedRow(id, u, c, now)))
<1> DEFINE s == StartedRow(id, u, c, now)
           out == Append(rows, s)
<1>1. c \in [repo : OrNone(Repo), branch : OrNone(Branch), isDefault : BOOLEAN,
             cwd : OrNone(Cwd)]
  BY WorkerAssumption
<1>2. s \in Row /\ NewLine(s)
  BY <1>1, NoneIsNothing DEF StartedRow, UndecodableRow, Row, OrNone, NewLine
<1> HIDE DEF s
<1>3. /\ out \in Seq(Row) /\ Len(out) = Len(rows) + 1 /\ out[Len(rows) + 1] = s
      /\ \A i \in DOMAIN rows : out[i] = rows[i]
  BY <1>2
<1>4. \A i \in DOMAIN rows : Advances(rows[i], out[i]) /\ HookMakes(rows[i], out[i])
  BY <1>3 DEF Advances, HookMakes
<1>5. \A i \in DOMAIN out \ DOMAIN rows : i = Len(rows) + 1
  BY <1>3
<1>6. Len(rows) <= Len(out)
  BY <1>3
<1> HIDE DEF out
<1>7. HookRewrites(rows, out)
  BY <1>2, <1>3, <1>4, <1>5, <1>6 DEF HookRewrites
<1> QED
  BY <1>7 DEF out, s

\* A hook or a user rewrites one agent's index, and nothing else.
HookStep(a) == SessionStart(a) \/ SessionEnd(a) \/ Update(a)

LEMMA HookStepRewrites ==
  ASSUME WorkerTyped, NEW a \in Agent, HookStep(a)
  PROVE  /\ HookRewrites(index[a], index'[a])
         /\ index' = [index EXCEPT ![a] = index'[a]]
         /\ UNCHANGED <<state, gate, pc, run, now, pulls, merged, cwds>>
<1>0. index \in [Agent -> Seq(Row)] /\ index[a] \in Seq(Row) /\ now \in Stamp
  BY TimeTyped DEF WorkerTyped, FileTyped, WorldTyped
<1>1. \A rows : Hook(a, rows) =>
        /\ index'[a] = rows /\ index' = [index EXCEPT ![a] = index'[a]]
        /\ UNCHANGED <<state, gate, pc, run, now, pulls, merged, cwds>>
  BY <1>0 DEF Hook
<1>2. \A k \in DOMAIN pulls : pulls[k].url \in Url
  <2>1. \A k \in DOMAIN pulls : pulls[k] \in Pull
    BY DEF WorkerTyped, WorldTyped
  <2> QED
    BY <2>1 DEF Pull
<1>3. CASE SessionStart(a)
  <2>1. PICK id \in SessionId, u \in User, c \in Checkouts :
          Hook(a, Append(index[a], StartedRow(id, u, c, now)))
    BY <1>3 DEF SessionStart
  <2>2. HookRewrites(index[a], Append(index[a], StartedRow(id, u, c, now)))
    BY <1>0, SessionStartRewrites
  <2> QED
    BY <1>1, <2>1, <2>2
<1>4. CASE SessionEnd(a)
  <2>1. PICK id \in SessionId :
          Hook(a, ApplyUpdateEnd(index[a], index[a], [x \in {id} |-> now]))
    BY <1>4 DEF SessionEnd
  <2>2. HookRewrites(index[a], ApplyUpdateEnd(index[a], index[a], [x \in {id} |-> now]))
    BY <1>0, SessionEndRewrites
  <2> QED
    BY <1>1, <2>1, <2>2
<1>5. CASE Update(a)
  <2>1. PICK k \in DOMAIN pulls :
          \/ \E id \in SessionId :
               Hook(a, ApplyUpdate(index[a], index[a], [x \in {id} |-> <<pulls[k].url>>]))
          \/ Hook(a, UpdateByBranch(index[a], pulls[k].repo, pulls[k].branch, pulls[k].url))
    BY <1>5 DEF Update
  <2>2. ASSUME NEW id \in SessionId,
               Hook(a, ApplyUpdate(index[a], index[a], [x \in {id} |-> <<pulls[k].url>>]))
        PROVE  HookRewrites(index[a], index'[a])
    <3>1. HookRewrites(index[a], ApplyUpdate(index[a], index[a], [x \in {id} |-> <<pulls[k].url>>]))
      BY <1>0, <1>2, UpdateRewrites
    <3> QED
      BY <1>1, <2>2, <3>1
  <2>3. CASE Hook(a, UpdateByBranch(index[a], pulls[k].repo, pulls[k].branch, pulls[k].url))
    <3>1. HookRewrites(index[a], UpdateByBranch(index[a], pulls[k].repo, pulls[k].branch, pulls[k].url))
      BY <1>0, <1>2, UpdateByBranchRewrites
    <3> QED
      BY <1>1, <2>3, <3>1
  <2>4. \E rows : Hook(a, rows)
    BY <2>1
  <2> QED
    BY <1>1, <2>1, <2>2, <2>3, <2>4
<1> QED
  BY <1>3, <1>4, <1>5 DEF HookStep

\* A run's batch rewrites the index of its agent, and nothing else.
LEMMA ApplyRewrites ==
  ASSUME WorkerTyped, NEW p \in Proc, Apply(p)
  PROVE  /\ Agt(p) \in Agent /\ run[p].batch \in Batch /\ pc[p] = "urls"
         /\ AllEvolve(index[Agt(p)], index'[Agt(p)])
         /\ \A i \in DOMAIN index[Agt(p)] :
              BatchMakes(run[p].batch, index[Agt(p)][i], index'[Agt(p)][i])
         /\ index' = [index EXCEPT ![Agt(p)] = index'[Agt(p)]]
<1>1. pc[p] = "urls"
  BY DEF Apply, Is
<1>2. Agt(p) \in Agent /\ run[p].batch \in Batch
  BY <1>1, RunsForAgent DEF WorkerTyped, RunsTyped, RunOK
<1>3. index \in [Agent -> Seq(Row)] /\ index[Agt(p)] \in Seq(Row)
  BY <1>2 DEF WorkerTyped, FileTyped
<1>4. PICK rows \in ApplyBatchToRaw(index[Agt(p)], run[p].batch) :
        index' = [index EXCEPT ![Agt(p)] = rows]
  BY DEF Apply
<1>5. index'[Agt(p)] = rows
  BY <1>2, <1>3, <1>4
<1>6. AllEvolve(index[Agt(p)], rows)
  BY <1>2, <1>3, ApplyBatchEvolves
<1>7. \A i \in DOMAIN index[Agt(p)] : BatchMakes(run[p].batch, index[Agt(p)][i], rows[i])
  BY <1>2, <1>3, ApplyBatchMakes
<1> QED
  BY <1>1, <1>2, <1>4, <1>5, <1>6, <1>7

\* Pull requests are opened and merged, checkouts disappear, time passes.
WorldStep == OpenPull \/ Merge \/ RemoveCwd \/ Tick \/ UNCHANGED vars

LEMMA WorldStepKeeps ==
  ASSUME WorldTyped, WorldStep
  PROVE  /\ UNCHANGED <<index, state, gate, pc, run>>
         /\ WorldTyped'
         /\ now <= now' /\ merged \subseteq merged' /\ cwds' \subseteq cwds
         /\ DOMAIN pulls \subseteq DOMAIN pulls'
         /\ \A k \in DOMAIN pulls : pulls'[k] = pulls[k]
<1>0. MaxNow \in Nat /\ now \in Nat
  BY TimeTyped DEF WorldTyped
<1>1. CASE OpenPull
  <2>1. PICK u \in Url, c \in Checkouts :
          /\ c.repo # None /\ c.branch # None
          /\ pulls' = Append(pulls, [url |-> u, repo |-> NormalizeRepo[c.repo],
                                     branch |-> c.branch])
    BY <1>1 DEF OpenPull
  <2> DEFINE q == [url |-> u, repo |-> NormalizeRepo[c.repo], branch |-> c.branch]
  <2>2. q \in Pull
    BY <2>1, WorkerAssumption, RowAssumption DEF Pull, OrNone
  <2> HIDE DEF q
  <2>3. /\ pulls' \in Seq(Pull) /\ DOMAIN pulls \subseteq DOMAIN pulls'
        /\ \A k \in DOMAIN pulls : pulls'[k] = pulls[k]
    BY <2>1, <2>2 DEF WorldTyped, q
  <2>4. {pulls[k].url : k \in DOMAIN pulls} \subseteq {pulls'[k].url : k \in DOMAIN pulls'}
    BY <2>3
  <2> QED
    BY <1>0, <1>1, <2>3, <2>4 DEF OpenPull, WorldTyped, file
<1>2. CASE Merge
  <2>1. PICK k \in DOMAIN pulls : merged' = merged \cup {pulls[k].url}
    BY <1>2 DEF Merge
  <2> QED
    BY <1>0, <1>2, <2>1 DEF Merge, WorldTyped, file
<1>3. CASE RemoveCwd
  BY <1>0, <1>3 DEF RemoveCwd, WorldTyped, file
<1>4. CASE Tick
  BY <1>0, <1>4 DEF Tick, WorldTyped, file
<1>5. CASE UNCHANGED vars
  BY <1>0, <1>5 DEF vars, file, world, WorldTyped
<1> QED
  BY <1>1, <1>2, <1>3, <1>4, <1>5 DEF WorldStep

\* The three kinds of steps.
LEMMA NextSorted ==
  ASSUME [Next]_vars
  PROVE  \/ \E p \in Proc : ProcessStep(p)
         \/ \E a \in Agent : HookStep(a)
         \/ WorldStep
BY DEF Next, ProcessStep, HookStep, WorldStep

\* Whatever happens, lines stay where they are and keep what is established
\* about them; a line that is new is a session's that has just started.
IndexGrows ==
  \A a \in Agent :
    /\ index'[a] \in Seq(Row) /\ Len(index[a]) <= Len(index'[a])
    /\ \A i \in DOMAIN index[a] : Advances(index[a][i], index'[a][i])
    /\ \A i \in DOMAIN index'[a] \ DOMAIN index[a] : NewLine(index'[a][i])

WorldGrows ==
  /\ now <= now' /\ merged \subseteq merged' /\ cwds' \subseteq cwds
  /\ DOMAIN pulls \subseteq DOMAIN pulls'
  /\ \A k \in DOMAIN pulls : pulls'[k] = pulls[k]

LEMMA NextGrows ==
  ASSUME GateInv, WorkerTyped, [Next]_vars
  PROVE  FileTyped' /\ WorldTyped' /\ IndexGrows /\ WorldGrows
<1>0. /\ index \in [Agent -> Seq(Row)] /\ DOMAIN state = Agent
      /\ \A a \in Agent : StateOK(state[a])
      /\ \A a \in Agent : \A r \in Row : Advances(r, r)
      /\ gate' \in OrNone(Proc) /\ now \in Nat
  <2>1. gate' \in OrNone(Proc)
    <3>1. \A p \in Proc : Works(p) => gate' = gate
      BY WorkGoesOn DEF Works, GoesOn
    <3>2. \A p \in Proc : Fresh(p) => gate' \in {gate, p, None}
      BY DEF Fresh, Start, TakeGate, Fail, SkipGate, Skip, Busy, Save, Exit, Crash
    <3>3. \A a \in Agent : HookStep(a) => gate' = gate
      BY HookStepRewrites
    <3>4. WorldStep => gate' = gate
      BY WorldStepKeeps DEF WorkerTyped
    <3> QED
      BY <3>1, <3>2, <3>3, <3>4, NextSorted, StepsSorted DEF WorkerTyped, WorldTyped, OrNone
  <2> QED
    BY <2>1 DEF WorkerTyped, FileTyped, Advances, WorldTyped
<1>1. CASE index' = index
  <2>1. IndexGrows
    BY <1>0, <1>1 DEF IndexGrows
  <2>2. ASSUME NEW p \in Proc, ProcessStep(p) PROVE WorldTyped' /\ WorldGrows /\ FileTyped'
    <3>1. UNCHANGED <<now, pulls, merged, cwds>>
      BY <2>2, StepIsOnlyOf DEF WorkerTyped
    <3>2. CASE state' = state
      BY <1>0, <1>1, <3>1, <3>2 DEF WorkerTyped, WorldTyped, WorldGrows, FileTyped
    <3>3. CASE Save(p)
      <4>1. Agt(p) \in Agent /\ StateOK(run[p].st)
        BY <3>3, RunsForAgent DEF Save, WorkerTyped, RunsTyped, RunOK
      <4>2. state' = [state EXCEPT ![Agt(p)] = run[p].st]
        BY <3>3 DEF Save
      <4>3. DOMAIN state' = Agent /\ \A a \in Agent : StateOK(state'[a])
        BY <1>0, <4>1, <4>2
      <4> QED
        BY <1>0, <1>1, <3>1, <4>3 DEF WorkerTyped, WorldTyped, WorldGrows, FileTyped
    <3> QED
      BY <2>2, <3>2, <3>3, StepOfFiles
  <2>3. ASSUME NEW a \in Agent, HookStep(a) PROVE WorldTyped' /\ WorldGrows /\ FileTyped'
    BY <1>0, <1>1, <2>3, HookStepRewrites DEF WorkerTyped, WorldTyped, WorldGrows, FileTyped
  <2>4. ASSUME WorldStep PROVE WorldTyped' /\ WorldGrows /\ FileTyped'
    BY <1>0, <1>1, <2>4, WorldStepKeeps DEF WorkerTyped, WorldGrows, FileTyped
  <2> QED
    BY <2>1, <2>2, <2>3, <2>4, NextSorted
<1>2. ASSUME NEW a \in Agent,
             index' = [index EXCEPT ![a] = index'[a]], index'[a] \in Seq(Row),
             Len(index[a]) <= Len(index'[a]),
             \A i \in DOMAIN index[a] : Advances(index[a][i], index'[a][i]),
             \A i \in DOMAIN index'[a] \ DOMAIN index[a] : NewLine(index'[a][i])
      PROVE  index' \in [Agent -> Seq(Row)] /\ IndexGrows
  <2>1. index' \in [Agent -> Seq(Row)] /\ \A b \in Agent \ {a} : index'[b] = index[b]
    BY <1>0, <1>2
  <2>2. ASSUME NEW b \in Agent \ {a}
        PROVE  /\ index'[b] \in Seq(Row) /\ Len(index[b]) <= Len(index'[b])
               /\ \A i \in DOMAIN index[b] : Advances(index[b][i], index'[b][i])
               /\ \A i \in DOMAIN index'[b] \ DOMAIN index[b] : NewLine(index'[b][i])
    BY <1>0, <2>1
  <2> QED
    BY <1>2, <2>1, <2>2 DEF IndexGrows
<1>3. ASSUME NEW p \in Proc, Apply(p) PROVE FileTyped' /\ WorldTyped' /\ IndexGrows /\ WorldGrows
  <2>1. ProcessStep(p) /\ ~Save(p)
    BY <1>3 DEF ProcessStep, RunStep, Apply, Save, Is
  <2>2. UNCHANGED <<now, pulls, merged, cwds, state>>
    BY <2>1, StepIsOnlyOf, StepOfFiles DEF WorkerTyped
  <2>3. index' \in [Agent -> Seq(Row)] /\ IndexGrows
    <3>1. Agt(p) \in Agent /\ AllEvolve(index[Agt(p)], index'[Agt(p)])
      BY <1>3, ApplyRewrites
    <3>2. index' = [index EXCEPT ![Agt(p)] = index'[Agt(p)]]
      BY <1>3, ApplyRewrites
    <3> DEFINE a == Agt(p)
    <3> HIDE DEF a
    <3>3. a \in Agent /\ AllEvolve(index[a], index'[a]) /\ index' = [index EXCEPT ![a] = index'[a]]
      BY <3>1, <3>2 DEF a
    <3>4. /\ index'[a] \in Seq(Row) /\ Len(index'[a]) = Len(index[a])
          /\ \A i \in DOMAIN index[a] : Advances(index[a][i], index'[a][i])
      BY <3>3 DEF AllEvolve, Evolves
    <3>5. DOMAIN index'[a] = DOMAIN index[a] /\ Len(index[a]) <= Len(index'[a])
      BY <1>0, <3>3, <3>4
    <3> QED
      BY <1>2, <3>3, <3>4, <3>5
  <2> QED
    BY <1>0, <2>2, <2>3 DEF FileTyped, WorkerTyped, WorldTyped, WorldGrows
<1>4. ASSUME NEW a \in Agent, HookStep(a)
      PROVE  FileTyped' /\ WorldTyped' /\ IndexGrows /\ WorldGrows
  <2>1. index' \in [Agent -> Seq(Row)] /\ IndexGrows
    BY <1>2, <1>4, HookStepRewrites DEF HookRewrites
  <2>2. UNCHANGED <<state, gate, now, pulls, merged, cwds>>
    BY <1>4, HookStepRewrites
  <2> QED
    BY <1>0, <2>1, <2>2 DEF FileTyped, WorkerTyped, WorldTyped, WorldGrows
<1>5. ASSUME WorldStep PROVE index' = index
  BY <1>5, WorldStepKeeps DEF WorkerTyped
<1> QED
  BY <1>1, <1>3, <1>4, <1>5, NextSorted, StepOfFiles

\* Types are kept, and so is the gate.
WorkerInv == GateInv /\ WorkerTyped

LEMMA NextKeepsTypes ==
  ASSUME WorkerInv, [Next]_vars
  PROVE  WorkerInv'
<1>1. RunsTyped'
  <2>1. ASSUME NEW p \in Proc, ProcessStep(p) PROVE RunsTyped'
    BY <2>1, ProcessStepTyped DEF WorkerInv
  <2>2. ASSUME NEW a \in Agent, HookStep(a) PROVE RunsTyped'
    BY <2>2, HookStepRewrites DEF WorkerInv, WorkerTyped, RunsTyped
  <2>3. ASSUME WorldStep PROVE RunsTyped'
    BY <2>3, WorldStepKeeps DEF WorkerInv, WorkerTyped, RunsTyped
  <2> QED
    BY <2>1, <2>2, <2>3, NextSorted
<1> QED
  BY <1>1, NextGrows, NextKeepsGate DEF WorkerInv, WorkerTyped

LEMMA InitMakesTypes == Init => WorkerInv
<1> SUFFICES ASSUME Init PROVE WorkerInv
  OBVIOUS
<1>1. GateInv
  BY InitMakesGate
<1>2. RunsTyped
  <2>1. "idle" \in Phases
    BY DEF Phases
  <2> QED
    BY <2>1, IdleRunOK DEF Init, RunsTyped
<1>3. index \in [Agent -> Seq(Row)]
  BY WorkerAssumption DEF Init
<1>4. FileTyped
  <2>1. StateOK(ZeroState)
    BY TimeTyped DEF StateOK, ZeroState
  <2> QED
    BY <1>3, <2>1 DEF Init, FileTyped
<1>5. now \in 1..MaxNow
  <2> DEFINE times == {1} \cup UNION {{SessionTime(index[a][i]) : i \in DOMAIN index[a]} : a \in Agent}
  <2>1. MaxNow \in Nat /\ MaxNow > 0
    BY WorkerAssumption
  <2>2. \A a \in Agent : \A i \in DOMAIN index[a] : SessionTime(index[a][i]) \in 0..MaxNow
    <3>1. \A a \in Agent : \A i \in DOMAIN index[a] : index[a][i] \in Row
      BY <1>3
    <3> QED
      BY <3>1, TimeTyped
  <2>3. times \in SUBSET (0..MaxNow) /\ 1 \in times
    BY <2>1, <2>2
  <2>4. now = Max(times)
    BY DEF Init, LastInstant
  <2> HIDE DEF times
  <2>5. Max(times) \in times /\ 1 <= Max(times)
    BY <2>1, <2>3, MaxInInterval
  <2>6. now \in 0..MaxNow /\ 1 <= now
    BY <2>3, <2>4, <2>5
  <2> QED
    BY <2>1, <2>6
<1>6. WorldTyped
  <2>1. \A c \in Checkouts : c.cwd \in OrNone(Cwd)
    BY WorkerAssumption
  <2>2. cwds \subseteq Cwd
    BY <2>1 DEF Init, OrNone
  <2>3. pulls \in Seq(Pull)
    BY WorkerAssumption DEF Init, Pull
  <2> QED
    BY <1>5, <2>2, <2>3 DEF Init, WorldTyped, OrNone
<1> QED
  BY <1>1, <1>2, <1>4, <1>6 DEF WorkerInv, WorkerTyped

\* The index, the state files, the gate, every run under way, the clock and
\* the pull requests keep their types, and a run has a command line exactly
\* between its start and its end.
THEOREM WorkerTypeCorrect == Spec => []TypeOK
<1>1. WorkerInv => TypeOK
  BY TypedIsTypeOK DEF WorkerInv
<1> QED
  BY <1>1, InitMakesTypes, NextKeepsTypes, PTL DEF Spec

\* Phase 1 of every run reconsiders every session of its snapshot that waits
\* for its pull request, whatever cursor the state file holds.
THEOREM NoneIsForgotten == Spec => []NoneForgotten
<1>1. WorkerInv => NoneForgotten
  <2> SUFFICES ASSUME WorkerInv, NEW p \in Proc, NEW i \in DOMAIN run[p].snap,
                      Candidate(run[p].snap[i], FALSE), run[p].snap[i].id # None
               PROVE  \E g \in AllGroups(p) :
                        /\ g.repo = run[p].snap[i].repo /\ g.branch = run[p].snap[i].branch
                        /\ run[p].snap[i].id \in g.ids
    BY DEF NoneForgotten
  <2> QED
    BY AllGroupsLookUp DEF WorkerInv, WorkerTyped
<1> QED
  BY <1>1, InitMakesTypes, NextKeepsTypes, PTL DEF Spec

-----------------------------------------------------------------------------
(* The lookups of a run *)

\* A worker that is not a recheck has made no more lookups than it may, counting
\* those it still has on its list.
Counted(p) ==
  LET r == run[p]
  IN  Args(p) # None /\ Args(p).detached /\ ~Args(p).recheck =>
        /\ pc[p] = "collect" => r.gh <= PinCost(p)
        /\ pc[p] \in {"groups", "meta"} =>
             IsFiniteSet(r.groups) /\ r.gh + Cardinality(r.groups) <= GHCap
        /\ pc[p] \in {"urls", "save"} =>
             IsFiniteSet(r.urls) /\ r.gh + Cardinality(r.urls) <= 2 * GHCap

CountInv == \A p \in Proc : Counted(p)

\* The session to pin is the snapshot's and the command line's matter only.
LEMMA PinIsStable ==
  ASSUME NEW p \in Proc, run'[p].snap = run[p].snap, run'[p].args = run[p].args
  PROVE  /\ PinLine(p)' = PinLine(p) /\ WantsPin(p)' = WantsPin(p)
         /\ PinCost(p)' = PinCost(p)
<1>1. PinLine(p)' = PinLine(p)
  BY DEF PinLine, Args, SelectInSeq
<1> QED
  BY <1>1 DEF WantsPin, PinCost

\* The pin costs at most one lookup, and the cap has room for it.
LEMMA PinCostTyped ==
  ASSUME NEW p \in Proc
  PROVE  /\ PinCost(p) \in Nat /\ PinCost(p) <= GHCap
         /\ GHCap \in Nat /\ GHCap - PinCost(p) \in Nat
<1>1. GHCap \in Nat /\ GHCap > 0
  BY WorkerAssumption
<1> QED
  BY <1>1 DEF PinCost

\* Of a finite set, a lookup list holds at most cap.
LEMMA ChosenBounded ==
  ASSUME NEW S, IsFiniteSet(S), NEW cap \in Nat, NEW chosen \in SUBSET S,
         Cardinality(chosen) = Min({cap, Cardinality(S)})
  PROVE  IsFiniteSet(chosen) /\ Cardinality(chosen) \in Nat /\ Cardinality(chosen) <= cap
<1>1. Cardinality(S) \in Nat
  BY FS_CardinalityType
<1>2. Min({cap, Cardinality(S)}) <= cap
  BY <1>1, MinOfTwo
<1> QED
  BY <1>2, FS_Subset, FS_CardinalityType

\* Steps that leave the count to others.
LEMMA OthersCounted ==
  ASSUME NEW p \in Proc, Counted(p), pc'[p] = pc[p], run'[p] = run[p]
  PROVE  Counted(p)'
<1>1. PinCost(p)' = PinCost(p)
  BY PinIsStable
<1> QED
  BY <1>1 DEF Counted, Args

\* One step of Phase 1 or Phase 2 takes a lookup off its list.
LEMMA OneLess ==
  ASSUME NEW S, IsFiniteSet(S), NEW x \in S, NEW n \in Nat, NEW m \in Nat,
         NEW cap \in Nat, n + Cardinality(S) <= cap, m <= n + 1
  PROVE  IsFiniteSet(S \ {x}) /\ m + Cardinality(S \ {x}) <= cap
<1>1. Cardinality(S \ {x}) = Cardinality(S) - 1 /\ IsFiniteSet(S \ {x})
  BY FS_RemoveElement
<1>2. Cardinality(S) \in Nat
  BY FS_CardinalityType
<1> QED
  BY <1>1, <1>2

LEMMA StepCounts ==
  ASSUME WorkerInv, NEW p \in Proc, Counted(p), ProcessStep(p)
  PROVE  Counted(p)'
<1> DEFINE r == run[p]
           s == run'[p]
<1>0. /\ RunsTyped /\ WorldTyped /\ RunOK(r) /\ RunOK(s) /\ RunsTyped'
      /\ ShapeOK(pc[p], r) /\ ShapeOK(pc'[p], s) /\ OnlyOf(p)
  <2>1. RunsTyped'
    BY ProcessStepTyped DEF WorkerInv
  <2> QED
    BY <2>1, StepIsOnlyOf DEF WorkerInv, WorkerTyped, RunsTyped
<1>1. /\ GHCap \in Nat /\ r.gh \in Nat /\ s.gh \in Nat
      /\ PinCost(p) \in Nat /\ PinCost(p) <= GHCap
  BY <1>0, PinCostTyped DEF RunOK
<1>2. CASE pc'[p] \notin {"collect", "groups", "meta", "urls", "save"}
  BY <1>2 DEF Counted
<1>3. CASE NoPin(p) \/ PinUnknown(p) \/ PinFound(p)
  <2>1. pc[p] = "pin" /\ pc'[p] = "collect" /\ r.gh = 0
    BY <1>0, <1>3 DEF NoPin, PinUnknown, PinFound, Is, RunsTyped, ShapeOK
  <2>2. /\ s.snap = r.snap /\ s.args = r.args
        /\ s.gh <= PinCost(p)
    <3>1. CASE NoPin(p)
      BY <1>1, <2>1, <3>1 DEF NoPin
    <3>2. CASE PinUnknown(p)
      <4>1. PICK n \in {0, 1} : s = [r EXCEPT !.gh = n]
        BY <1>0, <3>2 DEF PinUnknown, RunsTyped
      <4>2. PinCost(p) = 1
        BY <3>2 DEF PinUnknown, PinCost
      <4> QED
        BY <1>0, <4>1, <4>2 DEF RunOK, RunFields
    <3>3. CASE PinFound(p)
      <4>1. PICK b : s = [r EXCEPT !.gh = 1, !.batch = b]
        BY <1>0, <3>3, PinFoundMakes
      <4>2. PinCost(p) = 1
        BY <3>3 DEF PinFound, PinCost
      <4> QED
        BY <1>0, <4>1, <4>2 DEF RunOK, RunFields
    <3> QED
      BY <1>3, <3>1, <3>2, <3>3
  <2>3. PinCost(p)' = PinCost(p)
    BY <2>2, PinIsStable
  <2> HIDE DEF r, s
  <2> QED
    BY <2>1, <2>2, <2>3 DEF Counted, s
<1>4. CASE Collect(p)
  <2>1. pc[p] = "collect" /\ pc'[p] = "groups"
    BY <1>0, <1>4 DEF Collect, Is, RunsTyped
  <2>2. PICK chosen \in SUBSET AllGroups(p) :
          /\ s = [r EXCEPT !.groups = chosen]
          /\ Args(p).recheck \/ chosen \in NewestFirst(AllGroups(p), GHCap - PinCost(p))
    BY <1>0, <1>4, CollectMakes
  <2>3. s.gh = r.gh /\ s.groups = chosen /\ s.args = r.args
    BY <1>0, <2>2 DEF RunOK, RunFields
  <2>4. SUFFICES ASSUME Args(p) # None, Args(p).detached, ~Args(p).recheck
                 PROVE  IsFiniteSet(chosen) /\ r.gh + Cardinality(chosen) <= GHCap
    BY <2>1, <2>3 DEF Counted, Args
  <2>5. r.gh <= PinCost(p)
    BY <2>1, <2>4 DEF Counted
  <2>6. GHCap - PinCost(p) \in Nat
    BY PinCostTyped
  <2>7. Cardinality(chosen) = Min({GHCap - PinCost(p), Cardinality(AllGroups(p))})
    BY <2>2, <2>4 DEF NewestFirst
  <2>8. IsFiniteSet(AllGroups(p))
    BY <1>0, AllGroupsLookUp
  <2>9. IsFiniteSet(chosen) /\ Cardinality(chosen) \in Nat /\ Cardinality(chosen) <= GHCap - PinCost(p)
    BY <2>6, <2>7, <2>8, ChosenBounded
  <2> QED
    BY <1>1, <2>5, <2>9
<1>5. CASE CollectGarbage(p)
  <2>1. pc[p] = "collect" /\ pc'[p] = "groups" /\ r.groups = {}
    BY <1>0, <1>5 DEF CollectGarbage, Is, RunsTyped, ShapeOK
  <2>2. PICK b : s = [r EXCEPT !.batch = b]
    BY <1>0, <1>5 DEF CollectGarbage, RunsTyped
  <2>3. s.gh = r.gh /\ s.groups = r.groups /\ s.args = r.args
    BY <1>0, <2>2 DEF RunOK, RunFields
  <2>4. IsFiniteSet({}) /\ Cardinality({}) = 0
    BY FS_EmptySet
  <2>5. Args(p) # None /\ Args(p).detached /\ ~Args(p).recheck => r.gh <= GHCap
    BY <1>1, <2>1 DEF Counted
  <2> QED
    BY <1>1, <2>1, <2>3, <2>4, <2>5 DEF Counted, Args
<1>6. ASSUME NEW g \in r.groups, GroupGone(p, g) \/ GroupUnknown(p, g) \/ GroupFound(p, g)
      PROVE  Counted(p)'
  <2>1. pc[p] = "groups" /\ pc'[p] = "groups" /\ GroupEnds(p, g)
    BY <1>0, <1>6, GroupMakes
  <2>2. s.groups = r.groups \ {g} /\ s.gh <= r.gh + 1 /\ s.args = r.args
    <3>1. \/ \E b : s = [r EXCEPT !.groups = r.groups \ {g}, !.batch = b]
          \/ s = [r EXCEPT !.groups = r.groups \ {g}, !.gh = r.gh + 1]
          \/ \E b : s = [r EXCEPT !.groups = r.groups \ {g}, !.gh = r.gh + 1, !.batch = b]
      BY <2>1, Zenon DEF GroupEnds
    <3>2. DOMAIN r = RunFields
      BY <1>0 DEF RunOK
    <3>3. r.gh \in Nat
      BY <1>1
    <3> HIDE DEF s, r
    <3>4. CASE \E b : s = [r EXCEPT !.groups = r.groups \ {g}, !.batch = b]
      BY <3>2, <3>3, <3>4 DEF RunFields
    <3>5. CASE s = [r EXCEPT !.groups = r.groups \ {g}, !.gh = r.gh + 1]
      BY <3>2, <3>3, <3>5 DEF RunFields
    <3>6. CASE \E b : s = [r EXCEPT !.groups = r.groups \ {g}, !.gh = r.gh + 1, !.batch = b]
      BY <3>2, <3>3, <3>6 DEF RunFields
    <3> QED
      BY <3>1, <3>4, <3>5, <3>6
  <2>3. Args(p) # None /\ Args(p).detached /\ ~Args(p).recheck =>
          IsFiniteSet(r.groups) /\ r.gh + Cardinality(r.groups) <= GHCap
    BY <2>1 DEF Counted
  <2>4. IsFiniteSet(r.groups) /\ r.gh + Cardinality(r.groups) <= GHCap =>
          IsFiniteSet(r.groups \ {g}) /\ s.gh + Cardinality(r.groups \ {g}) <= GHCap
    <3> DEFINE G == r.groups
               n == r.gh
               m == s.gh
    <3>1. g \in G /\ n \in Nat /\ m \in Nat /\ GHCap \in Nat /\ m <= n + 1
      BY <1>1, <1>6, <2>2
    <3> HIDE DEF G, n, m
    <3>2. IsFiniteSet(G) /\ n + Cardinality(G) <= GHCap =>
            IsFiniteSet(G \ {g}) /\ m + Cardinality(G \ {g}) <= GHCap
      BY <3>1, OneLess
    <3> QED
      BY <3>2 DEF G, n, m
  <2> HIDE DEF r, s
  <2> QED
    BY <2>1, <2>2, <2>3, <2>4 DEF Counted, Args, r, s
<1>7. CASE FillEnds(p) \/ NoEnds(p)
  <2>1. pc[p] = "groups" /\ pc'[p] = "meta"
    BY <1>0, <1>7 DEF FillEnds, NoEnds, Is, RunsTyped
  <2>2. s = r \/ \E b : s = [r EXCEPT !.batch = b]
    BY <1>0, <1>7 DEF FillEnds, NoEnds, RunsTyped
  <2>3. s.gh = r.gh /\ s.groups = r.groups /\ s.args = r.args
    BY <1>0, <2>2 DEF RunOK, RunFields
  <2> QED
    BY <2>1, <2>3 DEF Counted, Args
<1>8. CASE StartMeta(p)
  <2>1. PICK chosen \in SUBSET OpenUrls(r.snap) :
          /\ s = [r EXCEPT !.urls = chosen, !.st = Advance(p), !.snap = <<>>]
          /\ chosen = {} \/ chosen \in OldestFirst(OpenUrls(r.snap), r.st.checks, GHCap)
    BY <1>0, <1>8, StartMetaMakes
  <2>2. pc[p] = "meta" /\ pc'[p] = "urls"
    BY <1>0, <1>8, StartMetaMakes
  <2>3. s.gh = r.gh /\ s.urls = chosen /\ s.args = r.args
    BY <1>0, <2>1 DEF RunOK, RunFields
  <2>4. SUFFICES ASSUME Args(p) # None, Args(p).detached, ~Args(p).recheck
                 PROVE  IsFiniteSet(chosen) /\ r.gh + Cardinality(chosen) <= 2 * GHCap
    BY <2>2, <2>3 DEF Counted, Args
  <2>5. r.gh <= GHCap
    <3>1. IsFiniteSet(r.groups) /\ r.gh + Cardinality(r.groups) <= GHCap
      BY <2>2, <2>4 DEF Counted
    <3>2. Cardinality(r.groups) \in Nat
      BY <3>1, FS_CardinalityType
    <3> QED
      BY <1>1, <3>1, <3>2
  <2>6. IsFiniteSet(OpenUrls(r.snap))
    <3>1. IsFiniteSet(OrNone(Url))
      BY RowAssumption, FS_AddElement DEF OrNone
    <3>2. \A i \in DOMAIN r.snap : r.snap[i] \in Row
      BY <1>0 DEF RunOK
    <3>3. OpenUrls(r.snap) \in SUBSET OrNone(Url)
      BY <3>2 DEF OpenUrls, Row
    <3> QED
      BY <3>1, <3>3, FS_Subset
  <2>7. IsFiniteSet(chosen) /\ Cardinality(chosen) \in Nat /\ Cardinality(chosen) <= GHCap
    <3>1. CASE chosen = {}
      BY <1>1, <3>1, FS_EmptySet
    <3>2. CASE chosen \in OldestFirst(OpenUrls(r.snap), r.st.checks, GHCap)
      <4> DEFINE O == OpenUrls(r.snap)
      <4>1. Cardinality(chosen) = Min({GHCap, Cardinality(O)}) /\ chosen \in SUBSET O
        BY <3>2 DEF OldestFirst
      <4>2. IsFiniteSet(O)
        BY <2>6
      <4> HIDE DEF O
      <4> QED
        BY <1>1, <4>1, <4>2, ChosenBounded
    <3> QED
      BY <2>1, <3>1, <3>2
  <2> QED
    BY <1>1, <2>5, <2>7
<1>9. ASSUME NEW u \in r.urls, UrlUnknown(p, u) \/ UrlFound(p, u)
      PROVE  Counted(p)'
  <2>1. /\ pc[p] = "urls" /\ pc'[p] = "urls"
        /\ \E b, st : s = [r EXCEPT !.urls = r.urls \ {u}, !.gh = r.gh + 1, !.batch = b, !.st = st]
    <3>1. /\ pc[p] = "urls" /\ pc' = pc
          /\ \E b \in Batch : \E st :
               /\ StateOK(st)
               /\ s = [r EXCEPT !.urls = r.urls \ {u}, !.gh = r.gh + 1, !.batch = b, !.st = st]
               /\ b = r.batch \/ b = [r.batch EXCEPT !.metas[u] = Meta(u)]
      BY <1>0, <1>9, UrlMakes
    <3> HIDE DEF r, s
    <3> QED
      BY <3>1, Zenon
  <2>2. s.urls = r.urls \ {u} /\ s.gh = r.gh + 1 /\ s.args = r.args
    BY <1>0, <2>1 DEF RunOK, RunFields
  <2>3. Args(p) # None /\ Args(p).detached /\ ~Args(p).recheck =>
          IsFiniteSet(r.urls) /\ r.gh + Cardinality(r.urls) <= 2 * GHCap
    BY <2>1 DEF Counted
  <2>4. IsFiniteSet(r.urls) /\ r.gh + Cardinality(r.urls) <= 2 * GHCap =>
          IsFiniteSet(r.urls \ {u}) /\ s.gh + Cardinality(r.urls \ {u}) <= 2 * GHCap
    <3> DEFINE G == r.urls
               n == r.gh
               m == s.gh
               cap == 2 * GHCap
    <3>1. u \in G /\ n \in Nat /\ m \in Nat /\ cap \in Nat /\ m <= n + 1
      BY <1>1, <1>9, <2>2
    <3> HIDE DEF G, n, m, cap
    <3>2. IsFiniteSet(G) /\ n + Cardinality(G) <= cap =>
            IsFiniteSet(G \ {u}) /\ m + Cardinality(G \ {u}) <= cap
      BY <3>1, OneLess
    <3> QED
      BY <3>2 DEF G, n, m, cap
  <2> HIDE DEF r, s
  <2> QED
    BY <2>1, <2>2, <2>3, <2>4 DEF Counted, Args, r, s
<1>10. CASE NothingFound(p) \/ Apply(p)
  <2>1. pc[p] = "urls" /\ pc'[p] = "save" /\ run' = run
    BY <1>0, <1>10 DEF NothingFound, Apply, Is, RunsTyped
  <2> QED
    BY <2>1 DEF Counted, Args
<1>11. CASE Fresh(p) \/ ReadIndex(p) \/ ReadState(p)
  <2>1. pc'[p] \in {"idle", "gate", "read", "load", "pin", "exit"}
    BY <1>0, <1>11 DEF Fresh, ReadIndex, ReadState, Start, TakeGate, Fail, SkipGate, Skip,
         Busy, Save, Exit, Crash, Leave, Is, RunsTyped
  <2> QED
    BY <1>2, <2>1
<1> QED
  BY <1>3, <1>4, <1>5, <1>6, <1>7, <1>8, <1>9, <1>10, <1>11, StepsSorted DEF Works

\* No step of anyone makes a worker look up too much.
LEMMA NextCounts ==
  ASSUME WorkerInv, CountInv, [Next]_vars
  PROVE  CountInv'
<1>1. ASSUME NEW p \in Proc, ProcessStep(p) PROVE CountInv'
  <2>1. \A q \in Proc \ {p} : pc'[q] = pc[q] /\ run'[q] = run[q]
    BY <1>1, StepIsOnlyOf DEF WorkerInv, WorkerTyped, OnlyOf
  <2>2. ASSUME NEW q \in Proc PROVE Counted(q)'
    <3>1. CASE q = p
      BY <1>1, <3>1, StepCounts DEF CountInv
    <3>2. CASE q # p
      BY <2>1, <3>2, OthersCounted DEF CountInv
    <3> QED
      BY <3>1, <3>2
  <2> QED
    BY <2>2 DEF CountInv
<1>2. ASSUME UNCHANGED <<pc, run>> PROVE CountInv'
  <2>1. ASSUME NEW q \in Proc PROVE Counted(q)'
    BY <1>2, OthersCounted DEF CountInv
  <2> QED
    BY <2>1 DEF CountInv
<1>3. ASSUME NEW a \in Agent, HookStep(a) PROVE UNCHANGED <<pc, run>>
  BY <1>3, HookStepRewrites DEF WorkerInv
<1>4. ASSUME WorldStep PROVE UNCHANGED <<pc, run>>
  BY <1>4, WorldStepKeeps DEF WorkerInv, WorkerTyped
<1> QED
  BY <1>1, <1>2, <1>3, <1>4, NextSorted

LEMMA InitCounts == Init => CountInv
BY DEF Init, CountInv, Counted

\* The pin and Phase 1 of a worker share one cap of gh calls, and Phase 2 has
\* as many again, however many sessions and pull requests are waiting.
THEOREM LookupsAreBounded == Spec => []LookupsBounded
<1>1. WorkerInv /\ CountInv => LookupsBounded
  <2> SUFFICES ASSUME WorkerInv, CountInv, NEW p \in Proc,
                      pc[p] \in Working, Args(p).detached, ~Args(p).recheck
               PROVE  /\ pc[p] \in {"groups", "meta"} =>
                           run[p].gh + Cardinality(run[p].groups) <= GHCap
                      /\ run[p].gh + Cardinality(run[p].urls) <= 2 * GHCap
    BY DEF LookupsBounded
  <2>1. /\ Counted(p) /\ ShapeOK(pc[p], run[p]) /\ run[p].gh \in Nat /\ Args(p) # None
    BY RunsForAgent, LaunchTyped DEF CountInv, WorkerInv, WorkerTyped, RunsTyped, RunOK, Working
  <2>2. GHCap \in Nat /\ PinCost(p) \in Nat /\ PinCost(p) <= GHCap
    BY PinCostTyped
  <2>3. CASE pc[p] \in {"urls", "save"}
    BY <2>1, <2>3 DEF Counted
  <2>4. CASE pc[p] \in {"read", "load", "pin", "collect", "groups", "meta"}
    <3>1. Cardinality(run[p].urls) = 0
      BY <2>1, <2>4, FS_EmptySet DEF ShapeOK
    <3>2. CASE pc[p] \in {"groups", "meta"}
      <4>1. IsFiniteSet(run[p].groups) /\ run[p].gh + Cardinality(run[p].groups) <= GHCap
        BY <2>1, <3>2 DEF Counted
      <4>2. Cardinality(run[p].groups) \in Nat
        BY <4>1, FS_CardinalityType
      <4> QED
        BY <2>1, <2>2, <3>1, <4>1, <4>2
    <3>3. CASE pc[p] \in {"read", "load", "pin", "collect"}
      <4>1. run[p].gh <= GHCap
        BY <2>1, <2>2, <3>3 DEF Counted, ShapeOK
      <4> QED
        BY <2>1, <2>2, <3>1, <3>3, <4>1
    <3> QED
      BY <2>4, <3>2, <3>3
  <2> QED
    BY <2>3, <2>4 DEF Working
<1> QED
  BY <1>1, InitMakesTypes, NextKeepsTypes, InitCounts, NextCounts, PTL DEF Spec

-----------------------------------------------------------------------------
(* What a step of a run makes of its batch *)

\* --gc finds session id older than the horizon.
IsOld(p, id) ==
  \E i \in DOMAIN run[p].snap :
    LET s == run[p].snap[i]
    IN  /\ s.id = id /\ Candidate(s, FALSE)
        /\ SessionTime(s) # 0 /\ now - SessionTime(s) >= Horizon

\* The end of a session that FillEnds reads off its transcript.
EndsAt(p, id, at) ==
  \E i \in Rows(Agt(p)) :
    LET s == index[Agt(p)][i]
    IN  s.id = id /\ s.started <= at /\ at <= now

PinMove(p, b, c) ==
  \E u \in Url :
    LET s == PinLine(p)
    IN  /\ u = PullOf(s.repo, s.branch) /\ s.id \in SessionId /\ s.id = Args(p).pin
        /\ c = [b EXCEPT !.pins[s.id] = u, !.metas[u] = Meta(u)]

EndMove(p, b, c) ==
  \E ends \in [SessionId -> OrNone(Stamp)] :
    /\ c = [b EXCEPT !.ends = ends]
    /\ \A id \in SessionId : ends[id] # None => EndsAt(p, id, ends[id])

\* The batch of p goes from b to c.
BatchMove(p, b, c) ==
  \/ c = EmptyBatch /\ pc'[p] \in {"idle", "exit", "gate", "read"}
  \/ c = b
  \/ PinFound(p) /\ PinMove(p, b, c)
  \/ CollectGarbage(p) /\ c = [b EXCEPT !.checked = {id \in SessionId : IsOld(p, id)}]
  \/ \E g \in run[p].groups : g.cwd \notin cwds /\ c = GivenUp(b, g)
  \/ \E g \in run[p].groups, u \in Url : c = Answered(b, g, u)
  \/ EndMove(p, b, c)
  \/ \E u \in OrNone(Url) : c = [b EXCEPT !.metas[u] = Meta(u)]

LEMMA BatchMoves ==
  ASSUME WorkerInv, NEW p \in Proc, ProcessStep(p)
  PROVE  BatchMove(p, run[p].batch, run'[p].batch)
<1> DEFINE r == run[p]
           s == run'[p]
           b == r.batch
           c == s.batch
<1>0. /\ RunsTyped /\ WorldTyped /\ DOMAIN r = RunFields /\ OnlyOf(p)
  BY StepIsOnlyOf DEF WorkerInv, WorkerTyped, RunsTyped, RunOK
<1>1. CASE Start(p) \/ Fail(p) \/ Crash(p) \/ SkipGate(p) \/ Skip(p) \/ Busy(p) \/ Save(p)
  <2>1. CASE Start(p)
    <3>1. PICK o \in Launches : s = [r EXCEPT !.args = o]
      BY <1>0, <2>1 DEF Start, RunsTyped
    <3> QED
      BY <1>0, <3>1 DEF BatchMove, RunFields
  <2>2. CASE Fail(p) \/ SkipGate(p) \/ Skip(p) \/ Busy(p) \/ Save(p)
    <3>1. s = IdleRun /\ pc'[p] = "exit"
      BY <1>0, <2>2 DEF Fail, SkipGate, Skip, Busy, Save, Leave, RunsTyped
    <3> QED
      BY <3>1 DEF IdleRun, BatchMove
  <2>3. CASE Crash(p)
    <3>1. s = IdleRun /\ pc'[p] = "idle"
      BY <1>0, <2>3 DEF Crash, RunsTyped
    <3> QED
      BY <3>1 DEF IdleRun, BatchMove
  <2> QED
    BY <1>1, <2>1, <2>2, <2>3
<1>2. CASE Exit(p) \/ TakeGate(p) \/ NoPin(p) \/ NoEnds(p) \/ NothingFound(p) \/ Apply(p)
  <2>1. run' = run
    BY <1>2 DEF Exit, TakeGate, NoPin, NoEnds, NothingFound, Apply
  <2> QED
    BY <2>1 DEF BatchMove
<1>3. CASE ReadIndex(p) \/ ReadState(p) \/ PinUnknown(p) \/ Collect(p) \/ StartMeta(p)
  <2>1. \/ \E x : s = [r EXCEPT !.snap = x] \/ s = [r EXCEPT !.st = x]
                  \/ s = [r EXCEPT !.gh = x] \/ s = [r EXCEPT !.groups = x]
        \/ \E x : s = [r EXCEPT !.urls = x, !.st = Advance(p), !.snap = <<>>]
    <3>1. CASE StartMeta(p)
      BY <1>0, <3>1, StartMetaMakes
    <3>2. CASE Collect(p)
      BY <1>0, <3>2, CollectMakes
    <3>3. CASE ReadIndex(p) \/ ReadState(p) \/ PinUnknown(p)
      BY <1>0, <3>3 DEF ReadIndex, ReadState, PinUnknown, RunsTyped
    <3> QED
      BY <1>3, <3>1, <3>2, <3>3
  <2>2. c = b
    BY <1>0, <2>1 DEF RunFields
  <2> QED
    BY <2>2 DEF BatchMove
<1>4. CASE PinFound(p)
  <2>1. PICK u \in Url :
          LET l == PinLine(p)
          IN  /\ u = PullOf(l.repo, l.branch) /\ l.id \in SessionId /\ l.id = Args(p).pin
              /\ s = [r EXCEPT !.gh = 1,
                        !.batch = [r.batch EXCEPT !.pins[l.id] = u, !.metas[u] = Meta(u)]]
    BY <1>0, <1>4, PinFoundMakes
  <2>2. c = [b EXCEPT !.pins[PinLine(p).id] = u, !.metas[u] = Meta(u)]
    BY <1>0, <2>1 DEF RunFields
  <2> QED
    BY <1>4, <2>1, <2>2 DEF BatchMove, PinMove
<1>5. CASE CollectGarbage(p)
  <2>1. s = [r EXCEPT !.batch = [b EXCEPT !.checked = {id \in SessionId : IsOld(p, id)}]]
    BY <1>0, <1>5 DEF CollectGarbage, IsOld, RunsTyped
  <2>2. c = [b EXCEPT !.checked = {id \in SessionId : IsOld(p, id)}]
    BY <1>0, <2>1 DEF RunFields
  <2> QED
    BY <1>5, <2>2 DEF BatchMove
<1>6. ASSUME NEW g \in r.groups, GroupGone(p, g) \/ GroupUnknown(p, g) \/ GroupFound(p, g)
      PROVE  BatchMove(p, b, c)
  <2>1. GroupEnds(p, g)
    BY <1>0, <1>6, GroupMakes
  <2>2. \/ g.cwd \notin cwds /\ c = GivenUp(b, g)
        \/ c = b
        \/ \E u \in Url : c = Answered(b, g, u)
    BY <1>0, <2>1 DEF GroupEnds, RunFields
  <2> QED
    BY <1>6, <2>2 DEF BatchMove
<1>7. CASE FillEnds(p)
  <2>1. PICK ends \in [SessionId -> OrNone(Stamp)] :
          /\ \A id \in SessionId :
               ends[id] \in {None} \cup {t \in Stamp : \E i \in DOMAIN index[Agt(p)] :
                 /\ index[Agt(p)][i].id = id /\ index[Agt(p)][i].ended = None
                 /\ index[Agt(p)][i].started <= t /\ t <= now}
          /\ s = [r EXCEPT !.batch = [b EXCEPT !.ends = ends]]
    BY <1>0, <1>7 DEF FillEnds, RunsTyped
  <2>2. c = [b EXCEPT !.ends = ends]
    BY <1>0, <2>1 DEF RunFields
  <2>3. \A id \in SessionId : ends[id] # None => EndsAt(p, id, ends[id])
    BY <2>1 DEF EndsAt, Rows
  <2> QED
    BY <2>2, <2>3 DEF BatchMove, EndMove
<1>8. ASSUME NEW u \in r.urls, UrlUnknown(p, u) \/ UrlFound(p, u)
      PROVE  BatchMove(p, b, c)
  <2>1. /\ u \in OrNone(Url)
        /\ \E d \in Batch : \E st :
             /\ s = [r EXCEPT !.urls = r.urls \ {u}, !.gh = r.gh + 1, !.batch = d, !.st = st]
             /\ d = b \/ d = [b EXCEPT !.metas[u] = Meta(u)]
    <3>1. /\ u \in OrNone(Url)
          /\ \E d \in Batch : \E st :
               /\ StateOK(st)
               /\ s = [r EXCEPT !.urls = r.urls \ {u}, !.gh = r.gh + 1, !.batch = d, !.st = st]
               /\ d = b \/ d = [b EXCEPT !.metas[u] = Meta(u)]
      BY <1>0, <1>8, UrlMakes
    <3> HIDE DEF r, s, b
    <3> QED
      BY <3>1, Zenon
  <2>2. c = b \/ c = [b EXCEPT !.metas[u] = Meta(u)]
    BY <1>0, <2>1 DEF RunFields
  <2> QED
    BY <2>1, <2>2 DEF BatchMove
<1> QED
  BY <1>1, <1>2, <1>3, <1>4, <1>5, <1>6, <1>7, <1>8 DEF ProcessStep, RunStep

\* Each part of a batch is only written by its own step.
LEMMA BatchFields ==
  ASSUME WorkerInv, NEW p \in Proc, ProcessStep(p)
  PROVE  LET b == run[p].batch
             c == run'[p].batch
         IN  /\ c.pins = b.pins \/ c = EmptyBatch \/ (PinFound(p) /\ PinMove(p, b, c))
             /\ \/ c.checked = b.checked \/ c = EmptyBatch
                \/ CollectGarbage(p) /\ c.checked = {id \in SessionId : IsOld(p, id)}
                \/ \E g \in run[p].groups : g.cwd \notin cwds /\ c.checked = b.checked \cup g.ids
             /\ c.ends = b.ends \/ c = EmptyBatch \/ EndMove(p, b, c)
<1> DEFINE b == run[p].batch
           c == run'[p].batch
<1>1. b \in Batch /\ BatchMove(p, b, c)
  BY BatchMoves DEF WorkerInv, WorkerTyped, RunsTyped, RunOK
<1> HIDE DEF b, c
<1>2. ASSUME PinMove(p, b, c) PROVE c.checked = b.checked /\ c.ends = b.ends
  BY <1>1, <1>2 DEF PinMove, Batch
<1>3. ASSUME NEW ids, c = [b EXCEPT !.checked = ids]
      PROVE  c.checked = ids /\ c.pins = b.pins /\ c.ends = b.ends
  BY <1>1, <1>3 DEF Batch
<1>4. ASSUME NEW g, c = GivenUp(b, g)
      PROVE  c.checked = b.checked \cup g.ids /\ c.pins = b.pins /\ c.ends = b.ends
  BY <1>1, <1>4 DEF Batch, GivenUp
<1>5. ASSUME NEW g, NEW u, c = Answered(b, g, u)
      PROVE  c.checked = b.checked /\ c.pins = b.pins /\ c.ends = b.ends
  BY <1>1, <1>5 DEF Batch, Answered
<1>6. ASSUME EndMove(p, b, c) PROVE c.checked = b.checked /\ c.pins = b.pins
  BY <1>1, <1>6 DEF Batch, EndMove
<1>7. ASSUME NEW u, c = [b EXCEPT !.metas[u] = Meta(u)]
      PROVE  c.checked = b.checked /\ c.pins = b.pins /\ c.ends = b.ends
  BY <1>1, <1>7 DEF Batch
<1>8. /\ c.pins = b.pins \/ c = EmptyBatch \/ (PinFound(p) /\ PinMove(p, b, c))
      /\ \/ c.checked = b.checked \/ c = EmptyBatch
         \/ CollectGarbage(p) /\ c.checked = {id \in SessionId : IsOld(p, id)}
         \/ \E g \in run[p].groups : g.cwd \notin cwds /\ c.checked = b.checked \cup g.ids
      /\ c.ends = b.ends \/ c = EmptyBatch \/ EndMove(p, b, c)
  BY <1>1, <1>2, <1>3, <1>4, <1>5, <1>6, <1>7 DEF BatchMove
<1> QED
  BY <1>8 DEF b, c

-----------------------------------------------------------------------------
(* The merge state *)

\* A batch says merged of merged pull requests only, and says something of
\* every pull request it attributes to a session.
BatchTrue(b) ==
  /\ \A u \in Url : b.metas[u] # None /\ b.metas[u].merged => u \in merged
  /\ \A id \in SessionId : b.pins[id] # None => b.metas[b.pins[id]] # None
  /\ \A id \in SessionId : \A k \in DOMAIN b.urls[id] : b.metas[b.urls[id][k]] # None

\* A line without pull requests has no merge state to lose.
RowTrue(r) ==
  /\ r.merged => r.urls # {}
  /\ r.merged /\ r.urls = {r.last} => r.last \in merged

MergeInv ==
  /\ \A a \in Agent : \A i \in Rows(a) : RowTrue(index[a][i])
  /\ \A p \in Proc : BatchTrue(run[p].batch)

LEMMA EmptyBatchTrue == BatchTrue(EmptyBatch)
BY DEF BatchTrue, EmptyBatch

\* New knowledge of a pull request is true knowledge.
LEMMA PinBatchTrue ==
  ASSUME NEW b \in Batch, BatchTrue(b), NEW id \in SessionId, NEW u \in Url
  PROVE  BatchTrue([b EXCEPT !.pins[id] = u, !.metas[u] = Meta(u)])
<1> DEFINE c == [b EXCEPT !.pins[id] = u, !.metas[u] = Meta(u)]
<1>1. /\ c.pins = [b.pins EXCEPT ![id] = u] /\ c.metas = [b.metas EXCEPT ![u] = Meta(u)]
      /\ c.urls = b.urls
  BY DEF Batch
<1>2. /\ b.pins \in [SessionId -> OrNone(Url)] /\ b.metas \in [Url -> OrNone(PRMeta)]
      /\ \A x \in SessionId : \A k \in DOMAIN b.urls[x] : b.urls[x][k] \in Url
  BY DEF Batch
<1>3. Meta(u) # None /\ Meta(u).merged = (u \in merged)
  BY MetaTyped DEF Meta
<1> HIDE DEF c
<1>4. \A v \in Url : c.metas[v] = IF v = u THEN Meta(u) ELSE b.metas[v]
  BY <1>1, <1>2
<1>5. \A x \in SessionId : c.pins[x] = IF x = id THEN u ELSE b.pins[x]
  BY <1>1, <1>2
<1>6. \A v \in Url : c.metas[v] # None /\ c.metas[v].merged => v \in merged
  BY <1>3, <1>4 DEF BatchTrue
<1>7. \A x \in SessionId : c.pins[x] # None => c.metas[c.pins[x]] # None
  BY <1>2, <1>3, <1>4, <1>5 DEF BatchTrue, OrNone
<1>8. \A x \in SessionId : \A k \in DOMAIN c.urls[x] : c.metas[c.urls[x][k]] # None
  BY <1>1, <1>2, <1>3, <1>4 DEF BatchTrue
<1>9. BatchTrue(c)
  BY <1>6, <1>7, <1>8 DEF BatchTrue
<1> QED
  BY <1>9 DEF c

LEMMA AnsweredBatchTrue ==
  ASSUME NEW b \in Batch, BatchTrue(b), NEW g, NEW u \in Url
  PROVE  BatchTrue(Answered(b, g, u))
<1> DEFINE c == Answered(b, g, u)
           urls == [id \in SessionId |-> IF id \in g.ids THEN <<u>> ELSE b.urls[id]]
<1>1. c.pins = b.pins /\ c.metas = [b.metas EXCEPT ![u] = Meta(u)] /\ c.urls = urls
  BY DEF Batch, Answered
<1>2. /\ b.pins \in [SessionId -> OrNone(Url)] /\ b.metas \in [Url -> OrNone(PRMeta)]
      /\ \A x \in SessionId : \A k \in DOMAIN b.urls[x] : b.urls[x][k] \in Url
  BY DEF Batch
<1>3. Meta(u) # None /\ Meta(u).merged = (u \in merged)
  BY MetaTyped DEF Meta
<1>4. \A x \in SessionId : \A k \in DOMAIN urls[x] :
        urls[x][k] = u \/ (k \in DOMAIN b.urls[x] /\ urls[x][k] = b.urls[x][k])
  OBVIOUS
<1> HIDE DEF c, urls
<1>5. \A v \in Url : c.metas[v] = IF v = u THEN Meta(u) ELSE b.metas[v]
  BY <1>1, <1>2
<1>6. \A v \in Url : c.metas[v] # None /\ c.metas[v].merged => v \in merged
  BY <1>3, <1>5 DEF BatchTrue
<1>7. \A x \in SessionId : c.pins[x] # None => c.metas[c.pins[x]] # None
  BY <1>1, <1>2, <1>3, <1>5 DEF BatchTrue, OrNone
<1>8. \A x \in SessionId : \A k \in DOMAIN c.urls[x] : c.metas[c.urls[x][k]] # None
  BY <1>1, <1>2, <1>3, <1>4, <1>5 DEF BatchTrue
<1>9. BatchTrue(c)
  BY <1>6, <1>7, <1>8 DEF BatchTrue
<1> QED
  BY <1>9 DEF c

LEMMA MetaBatchTrue ==
  ASSUME NEW b \in Batch, BatchTrue(b), NEW u \in OrNone(Url)
  PROVE  BatchTrue([b EXCEPT !.metas[u] = Meta(u)])
<1> DEFINE c == [b EXCEPT !.metas[u] = Meta(u)]
<1>1. c.pins = b.pins /\ c.metas = [b.metas EXCEPT ![u] = Meta(u)] /\ c.urls = b.urls
  BY DEF Batch
<1>2. /\ b.pins \in [SessionId -> OrNone(Url)] /\ b.metas \in [Url -> OrNone(PRMeta)]
      /\ \A x \in SessionId : \A k \in DOMAIN b.urls[x] : b.urls[x][k] \in Url
  BY DEF Batch
<1>3. Meta(u) # None /\ Meta(u).merged = (u \in merged)
  BY MetaTyped DEF Meta
<1> HIDE DEF c
<1>4. \A v \in Url : c.metas[v] = IF v = u THEN Meta(u) ELSE b.metas[v]
  BY <1>1, <1>2
<1>5. \A v \in Url : c.metas[v] # None /\ c.metas[v].merged => v \in merged
  BY <1>3, <1>4 DEF BatchTrue
<1>6. \A x \in SessionId : c.pins[x] # None => c.metas[c.pins[x]] # None
  BY <1>1, <1>2, <1>3, <1>4 DEF BatchTrue, OrNone
<1>7. \A x \in SessionId : \A k \in DOMAIN c.urls[x] : c.metas[c.urls[x][k]] # None
  BY <1>1, <1>2, <1>3, <1>4 DEF BatchTrue
<1>8. BatchTrue(c)
  BY <1>5, <1>6, <1>7 DEF BatchTrue
<1> QED
  BY <1>8 DEF c

\* The parts of a batch that say nothing of pull requests.
LEMMA SameBatchTrue ==
  ASSUME NEW b, BatchTrue(b), NEW c, c.pins = b.pins, c.urls = b.urls, c.metas = b.metas
  PROVE  BatchTrue(c)
BY DEF BatchTrue

LEMMA StepBatchTrue ==
  ASSUME WorkerInv, NEW p \in Proc, ProcessStep(p), BatchTrue(run[p].batch)
  PROVE  BatchTrue(run'[p].batch)
<1> DEFINE b == run[p].batch
           c == run'[p].batch
<1>1. b \in Batch /\ BatchMove(p, b, c) /\ BatchTrue(b)
  BY BatchMoves DEF WorkerInv, WorkerTyped, RunsTyped, RunOK
<1> HIDE DEF b, c
<1>2. ASSUME PinMove(p, b, c) PROVE BatchTrue(c)
  BY <1>1, <1>2, PinBatchTrue DEF PinMove
<1>3. ASSUME NEW ids, c = [b EXCEPT !.checked = ids] PROVE BatchTrue(c)
  <2>1. c.pins = b.pins /\ c.urls = b.urls /\ c.metas = b.metas
    BY <1>1, <1>3 DEF Batch
  <2> QED
    BY <1>1, <2>1, SameBatchTrue
<1>4. ASSUME EndMove(p, b, c) PROVE BatchTrue(c)
  <2>1. c.pins = b.pins /\ c.urls = b.urls /\ c.metas = b.metas
    BY <1>1, <1>4 DEF Batch, EndMove
  <2> QED
    BY <1>1, <2>1, SameBatchTrue
<1>5. BatchTrue(c)
  BY <1>1, <1>2, <1>3, <1>4, EmptyBatchTrue, AnsweredBatchTrue, MetaBatchTrue
     DEF BatchMove, GivenUp
<1> QED
  BY <1>5 DEF c

\* A batch keeps a line's merge state true.
LEMMA BatchRowTrue ==
  ASSUME NEW b \in Batch, BatchTrue(b), NEW r \in Row, NEW s \in Row, RowTrue(r),
         BatchMakes(b, r, s)
  PROVE  RowTrue(s)
<1> DEFINE pin == EntryOf(b.pins, r.id)
<1>1. s.urls = {} => ~s.merged
  BY DEF BatchMakes, RowTrue
<1>2. SUFFICES ASSUME s.merged, s.urls = {s.last} PROVE s.last \in merged
  BY <1>1 DEF RowTrue
<1>3. s.last \in Url
  BY <1>2 DEF Row
<1>4. CASE b.metas[s.last] # None
  BY <1>2, <1>3, <1>4 DEF BatchMakes, BatchTrue
<1>5. CASE b.metas[s.last] = None
  <2>1. r.merged
    BY <1>2, <1>5 DEF BatchMakes
  <2>2. ~(s.last = pin /\ pin # None)
    BY <1>5 DEF BatchTrue, EntryOf, Batch
  <2>3. ~(r.id \in DOMAIN b.urls /\ \E k \in DOMAIN b.urls[r.id] : s.last = b.urls[r.id][k])
    BY <1>5 DEF BatchTrue, Batch
  <2>4. s.last = r.last /\ s.urls = r.urls
    BY <2>2, <2>3 DEF BatchMakes
  <2> QED
    BY <1>2, <2>1, <2>4 DEF RowTrue
<1> QED
  BY <1>4, <1>5

\* So does a hook: a URL it adds comes next to the ones there are.
LEMMA HookRowTrue ==
  ASSUME NEW r, NEW s, RowTrue(r), HookMakes(r, s)
  PROVE  RowTrue(s)
<1>1. r.merged = s.merged /\ r.urls \subseteq s.urls /\ (s.urls = r.urls => s.last = r.last)
  BY DEF HookMakes
<1>2. s.merged => s.urls # {}
  BY <1>1 DEF RowTrue
<1>3. ASSUME s.merged, s.urls = {s.last} PROVE s.urls = r.urls
  BY <1>1, <1>3 DEF RowTrue
<1> QED
  BY <1>1, <1>2, <1>3 DEF RowTrue

\* The line a step rewrites, with what the step makes of it.
LEMMA LineComesFrom ==
  ASSUME WorkerInv, [Next]_vars, NEW a \in Agent, NEW i \in DOMAIN index'[a]
  PROVE  LET s == index'[a][i]
         IN  \/ i \in DOMAIN index[a] /\ s = index[a][i]
             \/ i \in DOMAIN index[a] /\ HookMakes(index[a][i], s)
             \/ NewLine(s) /\ i \notin DOMAIN index[a] /\ \E b \in Agent : HookStep(b)
             \/ /\ i \in DOMAIN index[a]
                /\ \E p \in Proc : /\ Apply(p) /\ a = Agt(p) /\ run[p].batch \in Batch
                                   /\ BatchMakes(run[p].batch, index[a][i], s)
<1>0. index \in [Agent -> Seq(Row)]
  BY DEF WorkerInv, WorkerTyped, FileTyped
<1>1. CASE index' = index
  BY <1>1
<1>2. ASSUME NEW p \in Proc, Apply(p)
      PROVE  \/ i \in DOMAIN index[a] /\ index'[a][i] = index[a][i]
             \/ /\ i \in DOMAIN index[a] /\ a = Agt(p) /\ run[p].batch \in Batch
                /\ BatchMakes(run[p].batch, index[a][i], index'[a][i])
  <2>1. /\ AllEvolve(index[Agt(p)], index'[Agt(p)]) /\ run[p].batch \in Batch
        /\ Agt(p) \in Agent /\ index' = [index EXCEPT ![Agt(p)] = index'[Agt(p)]]
        /\ \A k \in DOMAIN index[Agt(p)] :
             BatchMakes(run[p].batch, index[Agt(p)][k], index'[Agt(p)][k])
    BY <1>2, ApplyRewrites DEF WorkerInv
  <2>2. CASE a = Agt(p)
    <3>1. index[a] \in Seq(Row) /\ index'[a] \in Seq(Row) /\ Len(index'[a]) = Len(index[a])
      BY <1>0, <2>1, <2>2 DEF AllEvolve
    <3>2. DOMAIN index'[a] = DOMAIN index[a]
      BY <3>1
    <3> QED
      BY <2>1, <2>2, <3>2
  <2>3. CASE a # Agt(p)
    <3>1. index'[a] = index[a]
      BY <1>0, <2>1, <2>3
    <3> QED
      BY <3>1
  <2> QED
    BY <2>2, <2>3
<1>3. ASSUME NEW b \in Agent, HookStep(b)
      PROVE  \/ i \in DOMAIN index[a] /\ index'[a][i] = index[a][i]
             \/ i \in DOMAIN index[a] /\ HookMakes(index[a][i], index'[a][i])
             \/ NewLine(index'[a][i]) /\ i \notin DOMAIN index[a]
  <2>1. HookRewrites(index[b], index'[b]) /\ index' = [index EXCEPT ![b] = index'[b]]
    BY <1>3, HookStepRewrites DEF WorkerInv
  <2>2. CASE a = b
    BY <2>1, <2>2 DEF HookRewrites
  <2>3. CASE a # b
    <3>1. index'[a] = index[a]
      BY <1>0, <2>1, <2>3
    <3> QED
      BY <3>1
  <2> QED
    BY <2>2, <2>3
<1>4. WorldStep => index' = index
  BY WorldStepKeeps DEF WorkerInv, WorkerTyped
<1> QED
  BY <1>1, <1>2, <1>3, <1>4, NextSorted, StepOfFiles

LEMMA NextKeepsMerge ==
  ASSUME WorkerInv, MergeInv, [Next]_vars
  PROVE  MergeInv'
<1>1. FileTyped' /\ merged \subseteq merged' /\ FileTyped
  BY NextGrows DEF WorkerInv, WorldGrows, WorkerTyped
<1>2. ASSUME NEW a \in Agent, NEW i \in DOMAIN index'[a]
      PROVE  RowTrue(index[a][i])'
  <2> DEFINE r == index[a][i]
             s == index'[a][i]
  <2>1. s \in Row
    BY <1>1 DEF FileTyped
  <2>2. i \in DOMAIN index[a] => r \in Row /\ RowTrue(r)
    BY <1>1 DEF FileTyped, MergeInv, Rows
  <2>3. \/ i \in DOMAIN index[a] /\ s = r
        \/ i \in DOMAIN index[a] /\ HookMakes(r, s)
        \/ NewLine(s)
        \/ /\ i \in DOMAIN index[a]
           /\ \E p \in Proc : run[p].batch \in Batch /\ BatchMakes(run[p].batch, r, s)
    BY <1>2, LineComesFrom
  <2>4. \A p \in Proc : BatchTrue(run[p].batch)
    BY DEF MergeInv
  <2> HIDE DEF r, s
  <2>5. RowTrue(s)
    <3>1. NewLine(s) => RowTrue(s)
      BY DEF NewLine, RowTrue
    <3> QED
      BY <2>1, <2>2, <2>3, <2>4, <3>1, HookRowTrue, BatchRowTrue
  <2>6. s.merged => s.urls # {}
    BY <2>5 DEF RowTrue
  <2>7. s.merged /\ s.urls = {s.last} => s.last \in merged'
    BY <1>1, <2>5 DEF RowTrue
  <2> QED
    BY <2>6, <2>7 DEF RowTrue, s
<1>3. ASSUME NEW q \in Proc PROVE BatchTrue(run[q].batch)'
  <2> DEFINE b == run'[q].batch
  <2>1. BatchTrue(b)
    <3>1. ASSUME NEW p \in Proc, ProcessStep(p) PROVE BatchTrue(b)
      <4>1. CASE q = p
        BY <3>1, <4>1, StepBatchTrue DEF MergeInv
      <4>2. CASE q # p
        <5>1. run'[q] = run[q]
          BY <3>1, <4>2, StepIsOnlyOf DEF WorkerInv, WorkerTyped, OnlyOf
        <5> QED
          BY <5>1 DEF MergeInv
      <4> QED
        BY <4>1, <4>2
    <3>2. ASSUME run' = run PROVE BatchTrue(b)
      BY <3>2 DEF MergeInv
    <3>3. \A a \in Agent : HookStep(a) => run' = run
      BY HookStepRewrites DEF WorkerInv
    <3>4. WorldStep => run' = run
      BY WorldStepKeeps DEF WorkerInv, WorkerTyped
    <3> HIDE DEF b
    <3> QED
      BY <3>1, <3>2, <3>3, <3>4, NextSorted
  <2> HIDE DEF b
  <2>2. \A u \in Url : b.metas[u] # None /\ b.metas[u].merged => u \in merged'
    BY <1>1, <2>1 DEF BatchTrue
  <2> QED
    BY <2>1, <2>2 DEF BatchTrue, b
<1> QED
  BY <1>2, <1>3 DEF MergeInv, Rows

LEMMA InitMakesMerge == Init => MergeInv
<1> SUFFICES ASSUME Init PROVE MergeInv
  OBVIOUS
<1>1. \A a \in Agent : \A i \in DOMAIN index[a] : Unworked(index[a][i])
  BY WorkerAssumption DEF Init
<1>2. \A p \in Proc : run[p].batch = EmptyBatch
  BY DEF Init, IdleRun
<1> QED
  BY <1>1, <1>2, EmptyBatchTrue DEF MergeInv, Unworked, RowTrue, Rows

\* A line with one pull request says merged of a merged pull request only,
\* whatever hooks and overlapping runs of any agents make of its URLs.
THEOREM MergeStateIsTrue == Spec => []MergedIsTrue
<1>1. MergeInv => MergedIsTrue
  BY DEF MergeInv, RowTrue, MergedIsTrue
<1> QED
  BY <1>1, InitMakesTypes, NextKeepsTypes, InitMakesMerge, NextKeepsMerge, PTL DEF Spec

-----------------------------------------------------------------------------
(* Pins *)

SnapPhases == {"load", "pin", "collect", "groups", "meta"}

SameOrigin(r, s) ==
  \A f \in {"id", "repo", "branch", "isDefault", "cwd", "started"} : s[f] = r[f]

\* While p uses its snapshot, its lines are the first of the index still.
SnapOK(p) ==
  pc[p] \in SnapPhases =>
    \A i \in DOMAIN run[p].snap :
      i \in Rows(Agt(p)) /\ SameOrigin(run[p].snap[i], index[Agt(p)][i])

\* Until a worker that was to pin a session has looked, nobody pins one.
PinsSeen(p) ==
  pc[p] \in {"load", "pin"} /\ Args(p).pin # None =>
    \A i \in DOMAIN run[p].snap : run[p].snap[i].pinned = index[Agt(p)][i].pinned

\* A run pins the session it was started for, which nobody has pinned.
PinOK(p) ==
  \A id \in SessionId : run[p].batch.pins[id] # None =>
    /\ Args(p) # None /\ Args(p).pin = id
    /\ pc[p] # "save" =>
         \A i \in Rows(Agt(p)) : index[Agt(p)][i].id = id => ~index[Agt(p)][i].pinned

\* Of the lines of a session the first is pinned first: a line added by a resume
\* after the pin is not pinned.
FirstPinned(a) ==
  \A i, j \in Rows(a) :
    /\ i < j /\ index[a][i].id = index[a][j].id
    /\ index[a][j].pinned
    => index[a][i].pinned

PinInv ==
  /\ \A a \in Agent : FirstPinned(a)
  /\ \A p \in Proc : SnapOK(p) /\ PinsSeen(p) /\ PinOK(p)

\* A run that begins or ends is at one of these phases.
LEMMA FreshPhases ==
  ASSUME RunsTyped, NEW p \in Proc, Fresh(p)
  PROVE  pc'[p] \in {"idle", "gate", "read", "exit"}
BY DEF Fresh, Start, TakeGate, Fail, SkipGate, Skip, Busy, Save, Exit, Crash, Leave, Is,
       RunsTyped

\* A run keeps its command line while it works.
LEMMA WorksKeepsArgs ==
  ASSUME WorkerInv, NEW p \in Proc, Works(p)
  PROVE  run'[p].args = run[p].args /\ pc[p] \in Working /\ pc'[p] \in Working /\ gate' = gate
BY WorkGoesOn DEF WorkerInv, Works, GoesOn

\* A worker with a session to pin holds the gate while it works.
LEMMA PinnerHoldsGate ==
  ASSUME WorkerInv, NEW p \in Proc, pc[p] \in Working, Args(p) # None, Args(p).pin # None
  PROVE  gate = p
<1>1. Args(p) \in Launches
  BY DEF WorkerInv, WorkerTyped, RunsTyped, RunOK, OrNone, Args
<1> QED
  BY <1>1, LaunchTyped DEF WorkerInv, GateInv, SingleFlight

\* Only the holder of the gate pins, and only the session it was started for.
LEMMA OnlyHolderPins ==
  ASSUME WorkerInv, PinInv, [Next]_vars, NEW a \in Agent, NEW i \in DOMAIN index'[a],
         index'[a][i].pinned, i \in DOMAIN index[a] => ~index[a][i].pinned
  PROVE  /\ i \in DOMAIN index[a]
         /\ \E p \in Proc :
              /\ Apply(p) /\ a = Agt(p) /\ gate = p
              /\ EntryOf(run[p].batch.pins, index[a][i].id) # None
<1>1. /\ i \in DOMAIN index[a]
      /\ \E p \in Proc : /\ Apply(p) /\ a = Agt(p) /\ run[p].batch \in Batch
                         /\ BatchMakes(run[p].batch, index[a][i], index'[a][i])
  BY LineComesFrom DEF HookMakes, NewLine
<1>2. PICK p \in Proc : /\ Apply(p) /\ a = Agt(p) /\ run[p].batch \in Batch
                        /\ BatchMakes(run[p].batch, index[a][i], index'[a][i])
  BY <1>1
<1> DEFINE id == index[a][i].id
<1>3. EntryOf(run[p].batch.pins, id) # None
  BY <1>1, <1>2 DEF BatchMakes
<1>4. id \in SessionId /\ run[p].batch.pins[id] # None
  BY <1>2, <1>3 DEF EntryOf, Batch
<1>5. Args(p) # None /\ Args(p).pin # None
  BY <1>4, NoneIsNothing DEF PinInv, PinOK
<1>6. gate = p
  <2>1. pc[p] \in Working
    BY <1>2 DEF Apply, Is, Working
  <2> QED
    BY <1>5, <2>1, PinnerHoldsGate
<1> QED
  BY <1>1, <1>2, <1>3, <1>6

LEMMA NextKeepsFirstPinned ==
  ASSUME WorkerInv, PinInv, [Next]_vars, NEW a \in Agent
  PROVE  FirstPinned(a)'
<1> SUFFICES ASSUME NEW i \in DOMAIN index'[a], NEW j \in DOMAIN index'[a], i < j,
                    index'[a][i].id = index'[a][j].id, index'[a][j].pinned
             PROVE  index'[a][i].pinned
  BY DEF FirstPinned, Rows
<1>1. /\ IndexGrows /\ index[a] \in Seq(Row) /\ index'[a] \in Seq(Row)
  BY NextGrows DEF WorkerInv, WorkerTyped, FileTyped, IndexGrows
<1>2. j \in DOMAIN index[a]
  BY OnlyHolderPins
<1>3. i \in DOMAIN index[a]
  BY <1>1, <1>2
<1>4. /\ index[a][i].id = index'[a][i].id /\ index[a][j].id = index'[a][j].id
      /\ index[a][i].pinned => index'[a][i].pinned
  BY <1>1, <1>2, <1>3 DEF IndexGrows, Advances
<1>5. CASE index[a][j].pinned
  BY <1>2, <1>3, <1>4, <1>5 DEF PinInv, FirstPinned, Rows
<1>6. CASE ~index[a][j].pinned
  <2>1. PICK p \in Proc : /\ Apply(p) /\ a = Agt(p)
                          /\ EntryOf(run[p].batch.pins, index[a][j].id) # None
    BY <1>6, OnlyHolderPins
  <2>2. BatchMakes(run[p].batch, index[a][i], index'[a][i])
    BY <1>3, <2>1, ApplyRewrites DEF WorkerInv
  <2> QED
    BY <1>4, <2>1, <2>2 DEF BatchMakes
<1> QED
  BY <1>5, <1>6

\* The snapshot and the batch of p under steps of others.
LEMMA OthersKeepSnap ==
  ASSUME WorkerInv, PinInv, [Next]_vars, NEW p \in Proc, pc'[p] = pc[p], run'[p] = run[p],
         pc[p] \notin {"idle", "exit"}, ~Apply(p)
  PROVE  SnapOK(p)' /\ PinsSeen(p)' /\ PinOK(p)'
<1> DEFINE a == Agt(p)
<1>1. a \in Agent /\ Agt(p)' = a /\ Args(p)' = Args(p) /\ Args(p) \in Launches
  BY RunsForAgent DEF Agt, Args, WorkerInv, WorkerTyped
<1>2. IndexGrows /\ index[a] \in Seq(Row) /\ index'[a] \in Seq(Row)
  BY <1>1, NextGrows DEF WorkerInv, WorkerTyped, FileTyped, IndexGrows
<1>3. DOMAIN index[a] \subseteq DOMAIN index'[a]
  BY <1>1, <1>2 DEF IndexGrows
<1>4. \A i \in DOMAIN index[a] : Advances(index[a][i], index'[a][i])
  BY <1>1, <1>2 DEF IndexGrows
<1>5. SnapOK(p)'
  BY <1>1, <1>3, <1>4 DEF PinInv, SnapOK, SameOrigin, Rows, Advances
<1>6. ASSUME Args(p).pin # None, pc[p] \in Working,
             NEW i \in DOMAIN index'[a], index'[a][i].pinned
      PROVE  i \in DOMAIN index[a] /\ index[a][i].pinned
  <2>1. gate = p
    BY <1>1, <1>6, LaunchTyped, PinnerHoldsGate
  <2>2. ~(i \in DOMAIN index[a] => ~index[a][i].pinned)
    <3>1. SUFFICES ASSUME i \in DOMAIN index[a] => ~index[a][i].pinned PROVE FALSE
      OBVIOUS
    <3>2. \E q \in Proc : Apply(q) /\ gate = q
      BY <1>1, <1>6, <3>1, OnlyHolderPins
    <3> QED
      BY <2>1, <3>2
  <2> QED
    BY <2>2
<1>7. PinsSeen(p)'
  <2> SUFFICES ASSUME pc[p] \in {"load", "pin"}, Args(p).pin # None,
                      NEW i \in DOMAIN run[p].snap
               PROVE  run[p].snap[i].pinned = index'[a][i].pinned
    BY <1>1 DEF PinsSeen
  <2>1. i \in DOMAIN index[a] /\ run[p].snap[i].pinned = index[a][i].pinned
    BY DEF PinInv, SnapOK, PinsSeen, Rows, SnapPhases
  <2>2. pc[p] \in Working
    BY DEF Working
  <2>3. index[a][i].pinned <=> index'[a][i].pinned
    BY <1>3, <1>4, <1>6, <2>1, <2>2 DEF Advances
  <2>4. index[a][i] \in Row /\ index'[a][i] \in Row
    BY <1>2, <1>3, <2>1
  <2>5. index[a][i].pinned \in BOOLEAN /\ index'[a][i].pinned \in BOOLEAN
    BY <2>4 DEF Row
  <2> QED
    BY <2>1, <2>3, <2>5
<1>8. PinOK(p)'
  <2> SUFFICES ASSUME NEW id \in SessionId, run[p].batch.pins[id] # None
               PROVE  /\ Args(p) # None /\ Args(p).pin = id
                      /\ pc[p] # "save" =>
                           \A i \in DOMAIN index'[a] : index'[a][i].id = id => ~index'[a][i].pinned
    BY <1>1 DEF PinOK, Rows
  <2>1. Args(p) # None /\ Args(p).pin = id /\ id # None
    BY NoneIsNothing DEF PinInv, PinOK
  <2>2. ASSUME pc[p] # "save", NEW i \in DOMAIN index'[a], index'[a][i].id = id, index'[a][i].pinned
        PROVE  FALSE
    <3>1. pc[p] \in Working
      <4>1. run[p].batch # EmptyBatch
        BY DEF EmptyBatch
      <4>2. pc[p] \in Phases /\ ShapeOK(pc[p], run[p])
        BY DEF WorkerInv, WorkerTyped, RunsTyped
      <4> QED
        BY <4>1, <4>2 DEF ShapeOK, Phases, Working
    <3>2. i \in DOMAIN index[a] /\ index[a][i].pinned
      BY <1>6, <2>1, <2>2, <3>1
    <3>3. index[a][i].id = id
      BY <1>4, <2>2, <3>2 DEF Advances
    <3> QED
      BY <2>2, <3>2, <3>3 DEF PinInv, PinOK, Rows
  <2> QED
    BY <2>1, <2>2
<1> QED
  BY <1>5, <1>7, <1>8

\* A run at work keeps the snapshot it has read.
LEMMA SnapKept ==
  ASSUME WorkerInv, NEW p \in Proc, ProcessStep(p), ~ReadIndex(p), pc'[p] \in SnapPhases
  PROVE  /\ pc[p] \in SnapPhases /\ run'[p].snap = run[p].snap /\ index' = index
         /\ run'[p].args = run[p].args
<1>0. RunsTyped /\ WorldTyped /\ DOMAIN run[p] = RunFields
  BY DEF WorkerInv, WorkerTyped, RunsTyped, RunOK
<1>1. Works(p)
  BY <1>0, FreshPhases, StepsSorted DEF SnapPhases
<1>2. run'[p].args = run[p].args
  BY <1>1, WorksKeepsArgs
<1>3. index' = index
  <2>1. ~Apply(p)
    BY <1>0 DEF Apply, Is, RunsTyped, SnapPhases
  <2> QED
    BY <2>1, StepOfFiles
<1>4. CASE NoPin(p) \/ NoEnds(p) \/ NothingFound(p) \/ Apply(p)
  BY <1>0, <1>2, <1>3, <1>4 DEF NoPin, NoEnds, NothingFound, Apply, Is, RunsTyped, SnapPhases
<1>5. CASE ReadState(p) \/ PinUnknown(p) \/ CollectGarbage(p) \/ FillEnds(p)
  <2>1. \E x : \/ run'[p] = [run[p] EXCEPT !.st = x] \/ run'[p] = [run[p] EXCEPT !.gh = x]
               \/ run'[p] = [run[p] EXCEPT !.batch = x]
    BY <1>0, <1>5 DEF ReadState, PinUnknown, CollectGarbage, FillEnds, RunsTyped
  <2>2. run'[p].snap = run[p].snap
    BY <1>0, <2>1 DEF RunFields
  <2> QED
    BY <1>2, <1>3, <1>5, <2>2
       DEF ReadState, PinUnknown, CollectGarbage, FillEnds, Is, SnapPhases
<1>6. CASE PinFound(p) \/ Collect(p)
  <2>1. \E x : \/ run'[p] = [run[p] EXCEPT !.gh = 1, !.batch = x]
               \/ run'[p] = [run[p] EXCEPT !.groups = x]
    BY <1>0, <1>6, PinFoundMakes, CollectMakes
  <2>2. run'[p].snap = run[p].snap
    BY <1>0, <2>1 DEF RunFields
  <2> QED
    BY <1>2, <1>3, <1>6, <2>2 DEF PinFound, Collect, Is, SnapPhases
<1>7. ASSUME NEW g \in run[p].groups, GroupGone(p, g) \/ GroupUnknown(p, g) \/ GroupFound(p, g)
      PROVE  pc[p] \in SnapPhases /\ run'[p].snap = run[p].snap
  <2>1. pc[p] = "groups" /\ GroupEnds(p, g)
    BY <1>0, <1>7, GroupMakes
  <2>2. \/ \E b : run'[p] = [run[p] EXCEPT !.groups = run[p].groups \ {g}, !.batch = b]
        \/ run'[p] = [run[p] EXCEPT !.groups = run[p].groups \ {g}, !.gh = run[p].gh + 1]
        \/ \E b : run'[p] = [run[p] EXCEPT !.groups = run[p].groups \ {g},
                                           !.gh = run[p].gh + 1, !.batch = b]
    BY <2>1, Zenon DEF GroupEnds
  <2>3. run'[p].snap = run[p].snap
    BY <1>0, <2>2 DEF RunFields
  <2> QED
    BY <2>1, <2>3 DEF SnapPhases
<1>8. ~StartMeta(p)
  BY <1>0, StartMetaMakes DEF SnapPhases
<1>9. ASSUME NEW u \in run[p].urls PROVE ~UrlUnknown(p, u) /\ ~UrlFound(p, u)
  BY <1>0 DEF UrlUnknown, UrlFound, SnapPhases
<1> QED
  BY <1>1, <1>2, <1>3, <1>4, <1>5, <1>6, <1>7, <1>8, <1>9 DEF Works

\* The line a run pins is the first of its session in the index, too.
LEMMA PinLineIsFirst ==
  ASSUME WorkerInv, NEW p \in Proc, SnapOK(p), pc[p] = "pin", WantsPin(p)
  PROVE  \E i \in DOMAIN run[p].snap :
           /\ i \in Rows(Agt(p)) /\ PinLine(p) = run[p].snap[i]
           /\ SameOrigin(PinLine(p), index[Agt(p)][i])
           /\ index[Agt(p)][i].id = Args(p).pin /\ ~PinLine(p).pinned
           /\ \A j \in 1..(i - 1) : index[Agt(p)][j].id # Args(p).pin
<1>1. run[p].snap \in Seq(Row)
  BY DEF WorkerInv, WorkerTyped, RunsTyped, RunOK
<1>2. PICK i \in DOMAIN run[p].snap :
        /\ PinLine(p) = run[p].snap[i]
        /\ PinLine(p).id = Args(p).pin /\ ~PinLine(p).pinned
        /\ \A j \in 1..(i - 1) : run[p].snap[j].id # Args(p).pin
  BY <1>1, PinLineIsLine
<1>3. \A j \in DOMAIN run[p].snap :
        j \in Rows(Agt(p)) /\ SameOrigin(run[p].snap[j], index[Agt(p)][j])
  BY DEF SnapOK, SnapPhases
<1>4. \A j \in 1..(i - 1) : j \in DOMAIN run[p].snap
  BY <1>1
<1> QED
  BY <1>2, <1>3, <1>4 DEF SameOrigin

\* Nobody has pinned the session of the line a run is about to pin.
LEMMA PinLineIsUnpinned ==
  ASSUME WorkerInv, PinInv, NEW p \in Proc, pc[p] = "pin", WantsPin(p),
         NEW k \in Rows(Agt(p)), index[Agt(p)][k].id = Args(p).pin
  PROVE  ~index[Agt(p)][k].pinned
<1>1. PICK i \in DOMAIN run[p].snap :
        /\ i \in Rows(Agt(p)) /\ PinLine(p) = run[p].snap[i]
        /\ index[Agt(p)][i].id = Args(p).pin /\ ~PinLine(p).pinned
        /\ \A j \in 1..(i - 1) : index[Agt(p)][j].id # Args(p).pin
  BY PinLineIsFirst DEF PinInv
<1>2. Agt(p) \in Agent /\ Args(p).pin # None
  BY RunsForAgent DEF WorkerInv, WorkerTyped, WantsPin, PinLine
<1>3. ~index[Agt(p)][i].pinned
  BY <1>1, <1>2 DEF PinInv, PinsSeen
<1>4. i \in Nat /\ k \in Nat /\ k >= 1
  <2>1. index[Agt(p)] \in Seq(Row)
    BY <1>2 DEF WorkerInv, WorkerTyped, FileTyped
  <2> QED
    BY <1>1, <2>1 DEF Rows
<1>5. k >= i
  BY <1>1, <1>4
<1>6. CASE k = i
  BY <1>3, <1>6
<1>7. CASE i < k
  BY <1>1, <1>2, <1>3, <1>7 DEF PinInv, FirstPinned
<1> QED
  BY <1>4, <1>5, <1>6, <1>7

LEMMA StepKeepsSnap ==
  ASSUME WorkerInv, PinInv, NEW p \in Proc, ProcessStep(p)
  PROVE  SnapOK(p)' /\ PinsSeen(p)' /\ PinOK(p)'
<1>0. RunsTyped /\ WorldTyped /\ DOMAIN run[p] = RunFields /\ RunsTyped' /\ OnlyOf(p)
  BY ProcessStepTyped, StepIsOnlyOf DEF WorkerInv, WorkerTyped, RunsTyped, RunOK
<1>1. CASE ReadIndex(p)
  <2>1. /\ pc[p] = "read" /\ pc'[p] = "load" /\ index' = index
        /\ run'[p] = [run[p] EXCEPT !.snap = index[Agt(p)]]
    BY <1>0, <1>1 DEF ReadIndex, Is, RunsTyped, file
  <2>2. /\ run'[p].args = run[p].args /\ run'[p].snap = index[Agt(p)]
        /\ run'[p].batch = run[p].batch
    BY <1>0, <2>1 DEF RunFields
  <2>3. SnapOK(p)' /\ PinsSeen(p)'
    BY <2>1, <2>2 DEF SnapOK, PinsSeen, SameOrigin, Rows, Agt, Args
  <2>4. PinOK(p)'
    BY <2>1, <2>2 DEF PinInv, PinOK, Agt, Args, Rows
  <2> QED
    BY <2>3, <2>4
<1>2. ASSUME ~ReadIndex(p) PROVE SnapOK(p)' /\ PinsSeen(p)'
  <2>1. CASE pc'[p] \notin SnapPhases
    BY <2>1 DEF SnapOK, PinsSeen, SnapPhases
  <2>2. CASE pc'[p] \in SnapPhases
    <3>1. /\ pc[p] \in SnapPhases /\ run'[p].snap = run[p].snap /\ index' = index
          /\ run'[p].args = run[p].args
      BY <1>2, <2>2, SnapKept
    <3>2. pc'[p] \in {"load", "pin"} => pc[p] \in {"load", "pin"}
      <4>1. CASE Works(p)
        BY <1>0, <1>2, <4>1 DEF Works, ReadState, NoPin, PinUnknown, PinFound, Collect,
         CollectGarbage, GroupGone, GroupUnknown, GroupFound, FillEnds, NoEnds,
         StartMeta, UrlUnknown, UrlFound, NothingFound, Apply, Is, RunsTyped
      <4>2. CASE Fresh(p)
        BY <1>0, <4>2, FreshPhases
      <4> QED
        BY <4>1, <4>2, StepsSorted
    <3> QED
      BY <3>1, <3>2 DEF PinInv, SnapOK, PinsSeen, SameOrigin, Rows, Agt, Args
  <2> QED
    BY <2>1, <2>2
<1>3. ASSUME ~ReadIndex(p) PROVE PinOK(p)'
  <2>1. CASE run'[p].batch = EmptyBatch
    BY <2>1 DEF PinOK, EmptyBatch
  <2>2. CASE Fresh(p)
    <3>1. run'[p].batch = EmptyBatch
      BY <1>0, <2>2, FreshPhases DEF RunsTyped, ShapeOK
    <3> QED
      BY <2>1, <3>1
  <2>3. CASE Works(p) /\ run'[p].batch.pins = run[p].batch.pins
    <3>1. run'[p].args = run[p].args
      BY <2>3, WorksKeepsArgs
    <3>2. CASE Apply(p)
      <4>1. pc'[p] = "save"
        BY <1>0, <3>2 DEF Apply, Is, RunsTyped
      <4> QED
        BY <2>3, <3>1, <4>1 DEF PinInv, PinOK, Args
    <3>3. CASE ~Apply(p)
      <4>1. index' = index
        BY <3>3, StepOfFiles
      <4>2. pc'[p] # "save" => pc[p] # "save"
        BY <1>0, <2>3 DEF Works, ReadIndex, ReadState, NoPin, PinUnknown, PinFound, Collect,
         CollectGarbage, GroupGone, GroupUnknown, GroupFound, FillEnds, NoEnds,
         StartMeta, UrlUnknown, UrlFound, NothingFound, Apply, Is, RunsTyped
      <4> QED
        BY <2>3, <3>1, <4>1, <4>2 DEF PinInv, PinOK, Args, Agt, Rows
    <3> QED
      BY <3>2, <3>3
  <2>4. CASE PinFound(p) /\ PinMove(p, run[p].batch, run'[p].batch)
    <3>1. pc[p] = "pin" /\ WantsPin(p) /\ index' = index
      BY <2>4 DEF PinFound, Is, file
    <3>2. run'[p].args = run[p].args
      BY <2>4, WorksKeepsArgs DEF Works
    <3>3. PICK u \in Url :
            /\ Args(p).pin \in SessionId
            /\ run'[p].batch = [run[p].batch EXCEPT !.pins[Args(p).pin] = u, !.metas[u] = Meta(u)]
      BY <2>4 DEF PinMove
    <3>4. run[p].batch = EmptyBatch /\ Args(p) # None /\ run[p].batch \in Batch
      BY <3>1 DEF WorkerInv, WorkerTyped, RunsTyped, ShapeOK, RunOK, Args
    <3>5. \A id \in SessionId : run'[p].batch.pins[id] # None => id = Args(p).pin
      <4>1. \A id \in SessionId : run[p].batch.pins[id] = None
        BY <3>4 DEF EmptyBatch
      <4> QED
        BY <3>3, <3>4, <4>1 DEF Batch
    <3>6. \A k \in Rows(Agt(p)) : index[Agt(p)][k].id = Args(p).pin => ~index[Agt(p)][k].pinned
      BY <3>1, PinLineIsUnpinned
    <3> QED
      BY <3>1, <3>2, <3>4, <3>5, <3>6 DEF PinOK, Args, Agt, Rows
  <2> QED
    BY <2>1, <2>2, <2>3, <2>4, BatchFields, StepsSorted
<1> QED
  BY <1>1, <1>2, <1>3

\* The invariant of the pins is inductive.
LEMMA NextKeepsPins ==
  ASSUME WorkerInv, PinInv, [Next]_vars
  PROVE  PinInv'
<1>1. ASSUME NEW p \in Proc PROVE SnapOK(p)' /\ PinsSeen(p)' /\ PinOK(p)'
  <2>1. CASE ProcessStep(p)
    BY <2>1, StepKeepsSnap
  <2>2. CASE ~ProcessStep(p)
    <3>1. pc'[p] = pc[p] /\ run'[p] = run[p]
      <4>1. ASSUME NEW q \in Proc, ProcessStep(q) PROVE pc'[p] = pc[p] /\ run'[p] = run[p]
        BY <2>2, <4>1, StepIsOnlyOf DEF WorkerInv, WorkerTyped, OnlyOf
      <4>2. ASSUME NEW a \in Agent, HookStep(a) PROVE pc'[p] = pc[p] /\ run'[p] = run[p]
        BY <4>2, HookStepRewrites DEF WorkerInv
      <4>3. ASSUME WorldStep PROVE pc'[p] = pc[p] /\ run'[p] = run[p]
        BY <4>3, WorldStepKeeps DEF WorkerInv, WorkerTyped
      <4> QED
        BY <4>1, <4>2, <4>3, NextSorted
    <3>2. CASE pc[p] \notin {"idle", "exit"}
      <4>1. ~Apply(p)
        BY <2>2 DEF ProcessStep, RunStep
      <4> QED
        BY <3>1, <3>2, <4>1, OthersKeepSnap
    <3>3. CASE pc[p] \in {"idle", "exit"}
      <4>1. run[p].batch = EmptyBatch
        BY <3>3 DEF WorkerInv, WorkerTyped, RunsTyped, ShapeOK
      <4> QED
        BY <3>1, <3>3, <4>1 DEF SnapOK, PinsSeen, PinOK, SnapPhases, EmptyBatch
    <3> QED
      BY <3>2, <3>3
  <2> QED
    BY <2>1, <2>2
<1>2. \A a \in Agent : FirstPinned(a)'
  BY NextKeepsFirstPinned
<1> QED
  BY <1>1, <1>2 DEF PinInv

LEMMA InitMakesPins == Init => PinInv
<1> SUFFICES ASSUME Init PROVE PinInv
  OBVIOUS
<1>1. \A a \in Agent : \A i \in DOMAIN index[a] : ~index[a][i].pinned
  BY WorkerAssumption DEF Init, Unworked
<1>2. \A p \in Proc : run[p].batch = EmptyBatch /\ pc[p] = "idle"
  BY DEF Init, IdleRun
<1> QED
  BY <1>1, <1>2 DEF PinInv, FirstPinned, SnapOK, PinsSeen, PinOK, SnapPhases, EmptyBatch, Rows

\* No step changes a pinned line's pull request.
LEMMA PinsStay ==
  ASSUME WorkerInv, PinInv, [Next]_vars, NEW a \in Agent, NEW i \in Rows(a),
         index[a][i].pinned
  PROVE  /\ index'[a][i].pinned
         /\ index'[a][i].last = index[a][i].last
         /\ index'[a][i].urls = index[a][i].urls
<1> DEFINE r == index[a][i]
           s == index'[a][i]
<1>1. i \in DOMAIN index'[a] /\ (r.pinned => s.pinned)
  <2>1. IndexGrows /\ index[a] \in Seq(Row)
    BY NextGrows DEF WorkerInv, WorkerTyped, FileTyped
  <2> QED
    BY <2>1 DEF IndexGrows, Advances, Rows
<1>2. \/ s = r \/ HookMakes(r, s)
      \/ \E p \in Proc : /\ Apply(p) /\ a = Agt(p) /\ run[p].batch \in Batch
                         /\ BatchMakes(run[p].batch, r, s)
  BY <1>1, LineComesFrom DEF Rows
<1>3. ASSUME NEW p \in Proc, Apply(p), a = Agt(p), run[p].batch \in Batch,
             BatchMakes(run[p].batch, r, s)
      PROVE  s.last = r.last /\ s.urls = r.urls
  <2>1. EntryOf(run[p].batch.pins, r.id) = None
    <3>1. SUFFICES ASSUME r.id \in SessionId, run[p].batch.pins[r.id] # None PROVE FALSE
      BY <1>3 DEF EntryOf, Batch
    <3>2. pc[p] = "urls"
      BY <1>3 DEF Apply, Is
    <3> QED
      BY <1>3, <3>1, <3>2 DEF PinInv, PinOK
  <2> QED
    BY <1>3, <2>1 DEF BatchMakes
<1> QED
  BY <1>1, <1>2, <1>3 DEF HookMakes

\* The pull request a session is pinned to is its pull request for good: no hook,
\* no user's update and no run, one that read the index before the pin included,
\* replaces it.
THEOREM PinnedForGood == Spec => PinForever
<1>1. WorkerInv /\ PinInv /\ [Next]_vars =>
        [\A a \in Agent : \A i \in Rows(a) :
           index[a][i].pinned =>
             /\ index'[a][i].pinned
             /\ index'[a][i].last = index[a][i].last
             /\ index'[a][i].urls = index[a][i].urls]_vars
  BY PinsStay
<1> QED
  BY <1>1, InitMakesTypes, NextKeepsTypes, InitMakesPins, NextKeepsPins, PTL
     DEF Spec, PinForever

-----------------------------------------------------------------------------
(* The branch of a pin *)

\* u is a pull request of the branch session id started on.
OwnBranch(a, id, u) ==
  \E i \in Rows(a) :
    LET r == index[a][i]
    IN  /\ r.id = id /\ \A j \in 1..(i - 1) : index[a][j].id # id
        /\ \E k \in DOMAIN pulls : /\ pulls[k].url = u
                                   /\ pulls[k].branch = r.branch
                                   /\ pulls[k].repo = NormalizeRepo[r.repo]

OwnInv ==
  /\ PinnedToOwnBranch
  /\ \A p \in Proc, id \in SessionId :
       run[p].batch.pins[id] # None => OwnBranch(Agt(p), id, run[p].batch.pins[id])

\* A session's first line and the pull requests of its branch stay.
LEMMA OwnBranchStays ==
  ASSUME WorkerInv, [Next]_vars, NEW a \in Agent, NEW id, NEW u, OwnBranch(a, id, u)
  PROVE  OwnBranch(a, id, u)'
<1>1. PICK i \in Rows(a) :
        /\ index[a][i].id = id /\ \A j \in 1..(i - 1) : index[a][j].id # id
        /\ \E k \in DOMAIN pulls : /\ pulls[k].url = u
                                   /\ pulls[k].branch = index[a][i].branch
                                   /\ pulls[k].repo = NormalizeRepo[index[a][i].repo]
  BY DEF OwnBranch
<1>2. /\ IndexGrows /\ WorldGrows /\ index[a] \in Seq(Row) /\ index'[a] \in Seq(Row)
  BY NextGrows DEF WorkerInv, WorkerTyped, FileTyped, IndexGrows
<1>3. i \in DOMAIN index'[a] /\ \A j \in 1..(i - 1) : j \in DOMAIN index[a]
  BY <1>1, <1>2 DEF IndexGrows, Rows
<1>4. \A j \in DOMAIN index[a] : Advances(index[a][j], index'[a][j])
  BY <1>2 DEF IndexGrows
<1>5. /\ index'[a][i].id = id /\ index'[a][i].branch = index[a][i].branch
      /\ index'[a][i].repo = index[a][i].repo
      /\ \A j \in 1..(i - 1) : index'[a][j].id # id
  BY <1>1, <1>3, <1>4 DEF Advances, Rows
<1>6. \E k \in DOMAIN pulls' : /\ pulls'[k].url = u
                               /\ pulls'[k].branch = index'[a][i].branch
                               /\ pulls'[k].repo = NormalizeRepo[index'[a][i].repo]
  BY <1>1, <1>2, <1>5 DEF WorldGrows
<1> QED
  BY <1>3, <1>5, <1>6 DEF OwnBranch, Rows

\* The pull request a run pins is one of the session's own branch.
LEMMA PinIsOwn ==
  ASSUME WorkerInv, PinInv, NEW p \in Proc, PinFound(p), NEW u \in Url,
         u = PullOf(PinLine(p).repo, PinLine(p).branch)
  PROVE  OwnBranch(Agt(p), Args(p).pin, u)
<1>1. pc[p] = "pin" /\ WantsPin(p) /\ WorldTyped
  BY DEF PinFound, Is, WorkerInv, WorkerTyped
<1>2. PICK i \in Rows(Agt(p)) :
        /\ SameOrigin(PinLine(p), index[Agt(p)][i])
        /\ index[Agt(p)][i].id = Args(p).pin
        /\ \A j \in 1..(i - 1) : index[Agt(p)][j].id # Args(p).pin
  BY <1>1, PinLineIsFirst DEF PinInv
<1>3. PICK k \in DOMAIN pulls : /\ pulls[k].url = u
                                /\ pulls[k].repo = NormalizeRepo[PinLine(p).repo]
                                /\ pulls[k].branch = PinLine(p).branch
  BY <1>1, NoneIsNothing, PullOfIsPull
<1> QED
  BY <1>2, <1>3 DEF OwnBranch, SameOrigin

LEMMA NextKeepsOwnPins ==
  ASSUME WorkerInv, PinInv, OwnInv, [Next]_vars, NEW p \in Proc, NEW id \in SessionId,
         run'[p].batch.pins[id] # None
  PROVE  OwnBranch(Agt(p), id, run[p].batch.pins[id])'
<1>0. RunsTyped /\ RunsTyped'
  BY NextKeepsTypes DEF WorkerInv, WorkerTyped
<1>1. ASSUME run'[p].batch.pins = run[p].batch.pins, run'[p].args = run[p].args
      PROVE  OwnBranch(Agt(p), id, run[p].batch.pins[id])'
  <2> DEFINE a == run[p].args.agent
             u == run[p].batch.pins[id]
             v == run'[p].batch.pins[id]
             b == run'[p].args.agent
  <2>1. u # None /\ OwnBranch(a, id, u)
    BY <1>1 DEF OwnInv, Agt
  <2>2. a \in Agent
    <3>1. run[p].batch # EmptyBatch
      BY <2>1 DEF EmptyBatch
    <3> QED
      BY <1>0, <3>1, RunsForAgent DEF RunsTyped, ShapeOK, Agt
  <2>3. u = v /\ a = b
    BY <1>1
  <2>4. \E i \in DOMAIN index'[a] :
          LET r == index'[a][i]
          IN  /\ r.id = id /\ \A j \in 1..(i - 1) : index'[a][j].id # id
              /\ \E k \in DOMAIN pulls' : /\ pulls'[k].url = u
                                          /\ pulls'[k].branch = r.branch
                                          /\ pulls'[k].repo = NormalizeRepo[r.repo]
    <3> HIDE DEF a, u, v, b
    <3>1. \A c \in Agent : \A w : OwnBranch(c, id, w) => OwnBranch(c, id, w)'
      BY OwnBranchStays
    <3>2. OwnBranch(a, id, u)
      BY <2>1
    <3> QED
      BY <2>2, <3>1, <3>2 DEF OwnBranch, Rows
  <2>5. \E i \in DOMAIN index'[b] :
          LET r == index'[b][i]
          IN  /\ r.id = id /\ \A j \in 1..(i - 1) : index'[b][j].id # id
              /\ \E k \in DOMAIN pulls' : /\ pulls'[k].url = v
                                          /\ pulls'[k].branch = r.branch
                                          /\ pulls'[k].repo = NormalizeRepo[r.repo]
    <3> HIDE DEF a, u, v, b
    <3> QED
      BY <2>3, <2>4
  <2> QED
    BY <2>5 DEF OwnBranch, Rows, Agt
<1>2. ASSUME ProcessStep(p) PROVE OwnBranch(Agt(p), id, run[p].batch.pins[id])'
  <2>1. run'[p].batch # EmptyBatch
    BY DEF EmptyBatch
  <2>2. Works(p)
    BY <1>0, <1>2, <2>1, FreshPhases, StepsSorted DEF RunsTyped, ShapeOK
  <2>3. run'[p].args = run[p].args
    BY <2>2, WorksKeepsArgs
  <2>4. CASE PinFound(p) /\ PinMove(p, run[p].batch, run'[p].batch)
    <3>1. PICK u \in Url :
            /\ u = PullOf(PinLine(p).repo, PinLine(p).branch) /\ Args(p).pin \in SessionId
            /\ run'[p].batch = [run[p].batch EXCEPT !.pins[Args(p).pin] = u, !.metas[u] = Meta(u)]
      BY <2>4 DEF PinMove
    <3>2. pc[p] = "pin" /\ index' = index /\ pulls' = pulls
      BY <2>4 DEF PinFound, Is, file, world
    <3>3. run[p].batch = EmptyBatch /\ run[p].batch \in Batch
      BY <1>0, <3>2 DEF RunsTyped, ShapeOK, RunOK
    <3>4. id = Args(p).pin /\ run'[p].batch.pins[id] = u
      <4>1. \A x \in SessionId : run[p].batch.pins[x] = None
        BY <3>3 DEF EmptyBatch
      <4> QED
        BY <3>1, <3>3, <4>1 DEF Batch
    <3>5. OwnBranch(Agt(p), id, u)
      BY <2>4, <3>1, <3>4, PinIsOwn
    <3> QED
      BY <2>3, <3>2, <3>4, <3>5 DEF OwnBranch, Rows, Agt
  <2> QED
    BY <1>1, <1>2, <2>1, <2>3, <2>4, BatchFields
<1>3. ASSUME NEW q \in Proc, q # p, ProcessStep(q) PROVE run'[p] = run[p]
  BY <1>3, StepIsOnlyOf DEF WorkerInv, WorkerTyped, OnlyOf
<1>4. ASSUME NEW a \in Agent, HookStep(a) PROVE run'[p] = run[p]
  BY <1>4, HookStepRewrites DEF WorkerInv
<1>5. ASSUME WorldStep PROVE run'[p] = run[p]
  BY <1>5, WorldStepKeeps DEF WorkerInv, WorkerTyped
<1> QED
  BY <1>1, <1>2, <1>3, <1>4, <1>5, NextSorted

LEMMA NextKeepsOwnBranch ==
  ASSUME WorkerInv, PinInv, OwnInv, [Next]_vars
  PROVE  PinnedToOwnBranch'
<1> SUFFICES ASSUME NEW a \in Agent, NEW i \in DOMAIN index'[a], index'[a][i].pinned,
                    \A j \in 1..(i - 1) : index'[a][j].id # index'[a][i].id
             PROVE  \E k \in DOMAIN pulls' :
                      /\ pulls'[k].url = index'[a][i].last
                      /\ pulls'[k].branch = index'[a][i].branch
                      /\ pulls'[k].repo = NormalizeRepo[index'[a][i].repo]
  BY DEF PinnedToOwnBranch, Rows
<1>1. /\ IndexGrows /\ WorldGrows /\ index[a] \in Seq(Row) /\ index'[a] \in Seq(Row)
  BY NextGrows DEF WorkerInv, WorkerTyped, FileTyped, IndexGrows
<1>2. i \in DOMAIN index[a]
  BY OnlyHolderPins
<1>3. \A j \in 1..i : j \in DOMAIN index[a] /\ index'[a][j].id = index[a][j].id
  <2>1. \A j \in 1..i : j \in DOMAIN index[a]
    BY <1>1, <1>2
  <2> QED
    BY <1>1, <2>1 DEF IndexGrows, Advances
<1>4. index'[a][i].branch = index[a][i].branch /\ index'[a][i].repo = index[a][i].repo
  BY <1>1, <1>2 DEF IndexGrows, Advances
<1>5. i \in Nat /\ i >= 1
  BY <1>1, <1>2
<1>6. \A j \in 1..(i - 1) : index[a][j].id # index[a][i].id
  BY <1>3, <1>5
<1>7. \E k \in DOMAIN pulls : /\ pulls[k].url = index'[a][i].last
                              /\ pulls[k].branch = index[a][i].branch
                              /\ pulls[k].repo = NormalizeRepo[index[a][i].repo]
  <2>1. CASE index[a][i].pinned
    <3>1. index'[a][i].last = index[a][i].last
      BY <1>2, <2>1, PinsStay DEF Rows
    <3> QED
      BY <1>2, <1>6, <2>1, <3>1 DEF OwnInv, PinnedToOwnBranch, Rows
  <2>2. CASE ~index[a][i].pinned
    <3> DEFINE id == index[a][i].id
    <3>1. PICK p \in Proc : Apply(p) /\ a = Agt(p) /\ EntryOf(run[p].batch.pins, id) # None
      BY <2>2, OnlyHolderPins
    <3>2. BatchMakes(run[p].batch, index[a][i], index'[a][i]) /\ run[p].batch \in Batch
      BY <1>2, <3>1, ApplyRewrites DEF WorkerInv
    <3>3. id \in SessionId /\ run[p].batch.pins[id] # None
          /\ index'[a][i].last = run[p].batch.pins[id]
      BY <2>2, <3>1, <3>2 DEF EntryOf, BatchMakes, Batch
    <3>4. PICK f \in Rows(a) :
            /\ index[a][f].id = id /\ \A j \in 1..(f - 1) : index[a][j].id # id
            /\ \E k \in DOMAIN pulls : /\ pulls[k].url = index'[a][i].last
                                       /\ pulls[k].branch = index[a][f].branch
                                       /\ pulls[k].repo = NormalizeRepo[index[a][f].repo]
      BY <3>1, <3>3 DEF OwnInv, OwnBranch
    <3>5. f = i
      <4>1. f \in Nat /\ f >= 1
        BY <1>1, <3>4 DEF Rows
      <4>2. ~(f < i) /\ ~(i < f)
        BY <1>5, <1>6, <3>4, <4>1
      <4> QED
        BY <1>5, <4>1, <4>2
    <3> QED
      BY <3>4, <3>5
  <2> QED
    BY <2>1, <2>2
<1> QED
  BY <1>1, <1>4, <1>7 DEF WorldGrows

LEMMA InitMakesOwn == Init => OwnInv
<1> SUFFICES ASSUME Init PROVE OwnInv
  OBVIOUS
<1>1. \A a \in Agent : \A i \in DOMAIN index[a] : ~index[a][i].pinned
  BY WorkerAssumption DEF Init, Unworked
<1>2. \A p \in Proc : run[p].batch = EmptyBatch
  BY DEF Init, IdleRun
<1> QED
  BY <1>1, <1>2 DEF OwnInv, PinnedToOwnBranch, Rows, EmptyBatch

\* A session is pinned to a pull request of the branch it started on, wherever
\* it was resumed and whatever pull requests were opened since.
THEOREM PinnedToItsBranch == Spec => []PinnedToOwnBranch
<1>1. WorkerInv /\ PinInv /\ OwnInv /\ [Next]_vars => OwnInv'
  <2> SUFFICES ASSUME WorkerInv, PinInv, OwnInv, [Next]_vars PROVE OwnInv'
    OBVIOUS
  <2>1. \A p \in Proc, id \in SessionId :
          run'[p].batch.pins[id] # None => OwnBranch(Agt(p), id, run[p].batch.pins[id])'
    BY NextKeepsOwnPins
  <2> QED
    BY <2>1, NextKeepsOwnBranch DEF OwnInv
<1>2. OwnInv => PinnedToOwnBranch
  BY DEF OwnInv
<1> QED
  BY <1>1, <1>2, InitMakesTypes, NextKeepsTypes, InitMakesPins, NextKeepsPins,
     InitMakesOwn, PTL DEF Spec

-----------------------------------------------------------------------------
(* Why a session is given up *)

\* Session id started at t or before.
Backed(a, id, t) ==
  \E j \in Rows(a) : /\ index[a][j].id = id
                     /\ index[a][j].started \in Stamp /\ index[a][j].started <= t

\* A line of a session has a start, none later than now; and it does not end
\* before the session first started.
LineTimed(a, r) ==
  r.id # None => /\ r.started \in Stamp /\ r.started <= now
                 /\ r.ended # None => Backed(a, r.id, r.ended)

\* Every session of lookup g was on its branch, and so was a session in its
\* directory.
LookupIsThere(a, g) ==
  /\ \A id \in g.ids : \E i \in Rows(a) : /\ index[a][i].id = id
                                          /\ index[a][i].repo = g.repo
                                          /\ index[a][i].branch = g.branch
  /\ \E j \in Rows(a) : /\ index[a][j].repo = g.repo
                        /\ index[a][j].branch = g.branch
                        /\ index[a][j].cwd = g.cwd

EndsBacked(p) ==
  \A id \in SessionId :
    run[p].batch.ends[id] # None => Backed(Agt(p), id, run[p].batch.ends[id])

CheckedReasoned(p) == \A id \in run[p].batch.checked : Reason(Agt(p), id)

SnapTimed(p) ==
  pc[p] \in SnapPhases =>
    \A i \in DOMAIN run[p].snap :
      LET s == run[p].snap[i]
      IN  s.id # None /\ s.ended # None => Backed(Agt(p), s.id, s.ended)

WhyInv ==
  /\ \A a \in Agent : \A i \in Rows(a) :
       /\ LineTimed(a, index[a][i])
       /\ index[a][i].checked => index[a][i].id # None /\ Reason(a, index[a][i].id)
  /\ \A p \in Proc :
       /\ EndsBacked(p) /\ CheckedReasoned(p) /\ SnapTimed(p)
       /\ \A g \in run[p].groups : LookupIsThere(Agt(p), g)

\* A line stays where it is and keeps its origin.
LEMMA LineStays ==
  ASSUME WorkerInv, [Next]_vars, NEW a \in Agent, NEW i \in Rows(a)
  PROVE  i \in DOMAIN index'[a] /\ SameOrigin(index[a][i], index'[a][i])
<1>1. IndexGrows /\ index[a] \in Seq(Row) /\ index'[a] \in Seq(Row)
  BY NextGrows DEF WorkerInv, WorkerTyped, FileTyped, IndexGrows
<1> QED
  BY <1>1 DEF IndexGrows, Advances, SameOrigin, Rows

LEMMA BackedStays ==
  ASSUME WorkerInv, [Next]_vars, NEW a \in Agent, NEW id, NEW t, Backed(a, id, t)
  PROVE  Backed(a, id, t)'
<1>1. PICK j \in Rows(a) : /\ index[a][j].id = id
                           /\ index[a][j].started \in Stamp /\ index[a][j].started <= t
  BY DEF Backed
<1>2. j \in DOMAIN index'[a] /\ SameOrigin(index[a][j], index'[a][j])
  BY LineStays
<1> QED
  BY <1>1, <1>2 DEF Backed, Rows, SameOrigin

LEMMA LookupStays ==
  ASSUME WorkerInv, [Next]_vars, NEW a \in Agent, NEW g, LookupIsThere(a, g)
  PROVE  LookupIsThere(a, g)'
<1>1. \A i \in Rows(a) : i \in DOMAIN index'[a] /\ SameOrigin(index[a][i], index'[a][i])
  BY LineStays
<1>2. \A id \in g.ids : \E i \in DOMAIN index'[a] :
        index'[a][i].id = id /\ index'[a][i].repo = g.repo /\ index'[a][i].branch = g.branch
  BY <1>1 DEF LookupIsThere, SameOrigin
<1>3. \E j \in DOMAIN index'[a] :
        index'[a][j].repo = g.repo /\ index'[a][j].branch = g.branch /\ index'[a][j].cwd = g.cwd
  BY <1>1 DEF LookupIsThere, SameOrigin
<1> QED
  BY <1>2, <1>3 DEF LookupIsThere, Rows

\* Time does not take a reason back, and a directory does not come back.
LEMMA ReasonStays ==
  ASSUME WorkerInv, WhyInv, [Next]_vars, NEW a \in Agent, NEW id, id # None, Reason(a, id)
  PROVE  Reason(a, id)'
<1>1. PICK i \in Rows(a) :
        /\ index[a][i].id = id
        /\ \/ now - index[a][i].started >= Horizon
           \/ \E j \in Rows(a) : /\ index[a][j].repo = index[a][i].repo
                                 /\ index[a][j].branch = index[a][i].branch
                                 /\ index[a][j].cwd \notin cwds
  BY DEF Reason
<1>2. \A j \in Rows(a) : j \in DOMAIN index'[a] /\ SameOrigin(index[a][j], index'[a][j])
  BY LineStays
<1>3. now <= now' /\ cwds' \subseteq cwds /\ now \in Nat /\ now' \in Nat
  BY NextGrows DEF WorldGrows, WorkerInv, WorkerTyped, WorldTyped
<1>4. i \in DOMAIN index'[a] /\ index'[a][i].id = id
  BY <1>1, <1>2 DEF SameOrigin
<1>5. CASE now - index[a][i].started >= Horizon
  <2>1. index[a][i].started \in Nat /\ Horizon \in Nat
    BY <1>1, WorkerAssumption, RowAssumption DEF WhyInv, LineTimed
  <2>2. index'[a][i].started = index[a][i].started
    BY <1>2 DEF SameOrigin
  <2>3. now' - index'[a][i].started >= Horizon
    BY <1>3, <1>5, <2>1, <2>2
  <2> QED
    BY <1>4, <2>3 DEF Reason, Rows
<1>6. CASE \E j \in Rows(a) : /\ index[a][j].repo = index[a][i].repo
                              /\ index[a][j].branch = index[a][i].branch
                              /\ index[a][j].cwd \notin cwds
  <2>1. PICK j \in Rows(a) : /\ index[a][j].repo = index[a][i].repo
                             /\ index[a][j].branch = index[a][i].branch
                             /\ index[a][j].cwd \notin cwds
    BY <1>6
  <2>2. /\ j \in DOMAIN index'[a] /\ index'[a][j].repo = index'[a][i].repo
        /\ index'[a][j].branch = index'[a][i].branch /\ index'[a][j].cwd \notin cwds'
    BY <1>2, <1>3, <2>1 DEF SameOrigin
  <2> QED
    BY <1>4, <2>2 DEF Reason, Rows
<1> QED
  BY <1>1, <1>5, <1>6

\* The lines of the index keep their times and their reasons.
LEMMA NextKeepsLines ==
  ASSUME WorkerInv, WhyInv, [Next]_vars, NEW a \in Agent, NEW i \in DOMAIN index'[a]
  PROVE  /\ LineTimed(a, index[a][i])'
         /\ index'[a][i].checked => index'[a][i].id # None /\ Reason(a, index[a][i].id)'
<1> DEFINE s == index'[a][i]
           r == index[a][i]
<1>0. /\ now \in Stamp /\ now \in Nat /\ now' \in Nat /\ now <= now' /\ Stamp \subseteq Nat
      /\ index'[a] \in Seq(Row) /\ index[a] \in Seq(Row)
  <2>1. WorldTyped /\ WorldTyped' /\ WorldGrows /\ index[a] \in Seq(Row) /\ index'[a] \in Seq(Row)
    BY NextGrows DEF WorkerInv, WorkerTyped, FileTyped, IndexGrows
  <2> QED
    BY <2>1, TimeTyped, RowAssumption DEF WorldTyped, WorldGrows
<1>1. CASE i \in DOMAIN index[a]
  <2>1. i \in Rows(a) /\ LineTimed(a, r) /\ (r.checked => r.id # None /\ Reason(a, r.id))
    BY <1>1 DEF WhyInv, Rows
  <2>2. SameOrigin(r, s)
    BY <2>1, LineStays
  <2>3. s.id = r.id /\ s.started = r.started
    BY <2>2 DEF SameOrigin
  <2>4. /\ \/ s.ended = r.ended \/ s.ended = None
           \/ s.ended = now /\ r.ended # now
           \/ \E p \in Proc : /\ Apply(p) /\ a = Agt(p) /\ run[p].batch \in Batch
                              /\ s.ended = EntryOf(run[p].batch.ends, r.id)
        /\ \/ ~s.checked \/ r.checked
           \/ \E p \in Proc : /\ Apply(p) /\ a = Agt(p) /\ run[p].batch \in Batch
                              /\ r.id \in run[p].batch.checked
    BY <1>1, LineComesFrom DEF HookMakes, BatchMakes
  <2>5. ASSUME s.id # None, s.ended # None PROVE Backed(a, index[a][i].id, index[a][i].ended)'
    <3>1. CASE s.ended = r.ended
      <4>1. Backed(a, r.id, r.ended)
        BY <2>1, <2>3, <2>5, <3>1 DEF LineTimed
      <4>2. \A x, t : Backed(a, x, t) => Backed(a, x, t)'
        BY BackedStays
      <4> QED
        BY <2>3, <3>1, <4>1, <4>2 DEF Backed, Rows
    <3>2. CASE s.ended = now
      BY <1>1, <2>1, <2>3, <2>5, <3>2 DEF Backed, Rows, LineTimed
    <3>3. ASSUME NEW p \in Proc, Apply(p), a = Agt(p), run[p].batch \in Batch,
                 s.ended = EntryOf(run[p].batch.ends, r.id)
          PROVE  Backed(a, index[a][i].id, index[a][i].ended)'
      <4>1. r.id \in SessionId /\ run[p].batch.ends[r.id] = s.ended
        BY <2>5, <3>3 DEF EntryOf, Batch
      <4>2. Backed(a, r.id, s.ended)
        BY <2>5, <3>3, <4>1 DEF WhyInv, EndsBacked
      <4>3. \A x, t : Backed(a, x, t) => Backed(a, x, t)'
        BY BackedStays
      <4> QED
        BY <2>3, <4>2, <4>3 DEF Backed, Rows
    <3> QED
      BY <2>4, <2>5, <3>1, <3>2, <3>3
  <2>6. LineTimed(a, index[a][i])'
    <3>1. s.id # None => s.started \in Stamp /\ s.started <= now'
      <4>1. s.id # None => s.started \in Stamp /\ s.started <= now
        BY <2>1, <2>3 DEF LineTimed
      <4>2. \A x \in Stamp : x <= now => x <= now'
        BY <1>0
      <4> QED
        BY <4>1, <4>2, Zenon
    <3> QED
      BY <2>5, <3>1 DEF LineTimed
  <2>7. ASSUME s.checked PROVE s.id # None /\ Reason(a, index[a][i].id)'
    <3>1. r.id # None /\ Reason(a, r.id)
      BY <2>1, <2>4, <2>7, NoneIsNothing DEF WhyInv, CheckedReasoned, Batch
    <3>2. \A x : x # None /\ Reason(a, x) => Reason(a, x)'
      BY ReasonStays
    <3> QED
      BY <2>3, <3>1, <3>2 DEF Reason, Rows
  <2> QED
    BY <2>6, <2>7
<1>2. CASE i \notin DOMAIN index[a]
  <2>1. NewLine(s)
    BY <1>2, LineComesFrom
  <2> QED
    BY <1>0, <2>1 DEF NewLine, LineTimed
<1> QED
  BY <1>1, <1>2

\* Phase 1 only ever drops lookups once it has chosen them.
LEMMA LookupsMove ==
  ASSUME WorkerInv, NEW p \in Proc, ProcessStep(p)
  PROVE  run'[p].groups \subseteq run[p].groups
         \/ (Collect(p) /\ run'[p].groups \subseteq AllGroups(p))
<1>0. RunsTyped /\ WorldTyped /\ RunsTyped' /\ DOMAIN run[p] = RunFields
  BY ProcessStepTyped DEF WorkerInv, WorkerTyped, RunsTyped, RunOK
<1>1. CASE pc'[p] # "groups"
  BY <1>0, <1>1 DEF RunsTyped, ShapeOK
<1>2. CASE Collect(p)
  <2>1. PICK chosen \in SUBSET AllGroups(p) : run'[p] = [run[p] EXCEPT !.groups = chosen]
    <3>1. \E chosen \in SUBSET AllGroups(p) :
            /\ run'[p] = [run[p] EXCEPT !.groups = chosen]
            /\ \/ Args(p).recheck
               \/ chosen \in NewestFirst(AllGroups(p), GHCap - PinCost(p))
      BY <1>0, <1>2, CollectMakes
    <3> QED
      BY <3>1, Zenon
  <2>2. run'[p].groups = chosen
    BY <1>0, <2>1 DEF RunFields
  <2> QED
    BY <1>2, <2>1, <2>2
<1>3. CASE CollectGarbage(p)
  <2>1. \E x : run'[p] = [run[p] EXCEPT !.batch = x]
    BY <1>0, <1>3 DEF CollectGarbage, RunsTyped
  <2> QED
    BY <1>0, <2>1 DEF RunFields
<1>4. ASSUME NEW g \in run[p].groups, GroupGone(p, g) \/ GroupUnknown(p, g) \/ GroupFound(p, g)
      PROVE  run'[p].groups \subseteq run[p].groups
  <2>1. GroupEnds(p, g)
    BY <1>0, <1>4, GroupMakes
  <2>2. \/ \E b : run'[p] = [run[p] EXCEPT !.groups = run[p].groups \ {g}, !.batch = b]
        \/ run'[p] = [run[p] EXCEPT !.groups = run[p].groups \ {g}, !.gh = run[p].gh + 1]
        \/ \E b : run'[p] = [run[p] EXCEPT !.groups = run[p].groups \ {g},
                                           !.gh = run[p].gh + 1, !.batch = b]
    BY <2>1, Zenon DEF GroupEnds
  <2>3. run'[p].groups = run[p].groups \ {g}
    BY <1>0, <2>2 DEF RunFields
  <2> QED
    BY <2>3
<1>5. CASE pc'[p] = "groups" /\ ~Collect(p) /\ ~CollectGarbage(p)
  <2>1. Works(p)
    BY <1>0, <1>5, FreshPhases, StepsSorted
  <2>2. \E g \in run[p].groups : GroupGone(p, g) \/ GroupUnknown(p, g) \/ GroupFound(p, g)
    <3>1. ~StartMeta(p)
      BY <1>0, <1>5, StartMetaMakes
    <3>2. \A u \in run[p].urls : ~UrlUnknown(p, u) /\ ~UrlFound(p, u)
      BY <1>0, <1>5 DEF UrlUnknown, UrlFound
    <3> QED
      BY <1>0, <1>5, <2>1, <3>1, <3>2
         DEF Works, ReadIndex, ReadState, NoPin, PinUnknown, PinFound, FillEnds, NoEnds,
             NothingFound, Apply, Is, RunsTyped
  <2> QED
    BY <1>4, <2>2
<1> QED
  BY <1>1, <1>2, <1>3, <1>5

\* A lookup that is chosen is for lines of the snapshot, hence of the index.
LEMMA ChosenIsThere ==
  ASSUME WorkerInv, PinInv, NEW p \in Proc, pc[p] = "collect", NEW g \in AllGroups(p)
  PROVE  LookupIsThere(Agt(p), g)
<1>1. SnapOK(p) /\ RunsTyped
  BY DEF PinInv, WorkerInv, WorkerTyped
<1>2. PICK on \in SUBSET DOMAIN run[p].snap : LooksUp(g, run[p].snap, on, Args(p).recheck)
  BY <1>1, AllGroupsLookUp
<1>3. \A i \in DOMAIN run[p].snap :
        i \in Rows(Agt(p)) /\ SameOrigin(run[p].snap[i], index[Agt(p)][i])
  BY <1>1 DEF SnapOK, SnapPhases
<1>4. \A i \in on :
        LET r == index[Agt(p)][i]
        IN  /\ i \in Rows(Agt(p)) /\ r.repo = g.repo /\ r.branch = g.branch
            /\ r.id = run[p].snap[i].id /\ r.cwd = run[p].snap[i].cwd
  BY <1>2, <1>3 DEF LooksUp, SameOrigin
<1>5. (\A id \in g.ids : \E i \in on : run[p].snap[i].id = id)
      /\ \E i \in on : g.cwd = run[p].snap[i].cwd
  BY <1>2 DEF LooksUp
<1>6. \A id \in g.ids : \E i \in Rows(Agt(p)) :
        /\ index[Agt(p)][i].id = id
        /\ index[Agt(p)][i].repo = g.repo /\ index[Agt(p)][i].branch = g.branch
  BY <1>4, <1>5
<1>7. \E j \in Rows(Agt(p)) :
        /\ index[Agt(p)][j].repo = g.repo /\ index[Agt(p)][j].branch = g.branch
        /\ index[Agt(p)][j].cwd = g.cwd
  BY <1>4, <1>5
<1> QED
  BY <1>6, <1>7 DEF LookupIsThere

\* A lookup whose directory is gone is a reason for each of its sessions.
LEMMA GoneIsReason ==
  ASSUME NEW a, NEW g, LookupIsThere(a, g), g.cwd \notin cwds, NEW id \in g.ids
  PROVE  Reason(a, id)
<1>1. PICK i \in Rows(a) : /\ index[a][i].id = id
                           /\ index[a][i].repo = g.repo /\ index[a][i].branch = g.branch
  BY DEF LookupIsThere
<1>2. PICK j \in Rows(a) : /\ index[a][j].repo = g.repo /\ index[a][j].branch = g.branch
                           /\ index[a][j].cwd = g.cwd
  BY DEF LookupIsThere
<1> QED
  BY <1>1, <1>2 DEF Reason

\* What --gc finds too old has a line that started as long ago.
LEMMA OldIsReason ==
  ASSUME WorkerInv, PinInv, WhyInv, NEW p \in Proc, pc[p] = "collect",
         NEW id \in SessionId, IsOld(p, id)
  PROVE  Reason(Agt(p), id)
<1>1. PICK i \in DOMAIN run[p].snap :
        /\ run[p].snap[i].id = id
        /\ SessionTime(run[p].snap[i]) # 0 /\ now - SessionTime(run[p].snap[i]) >= Horizon
  BY DEF IsOld
<1> DEFINE s == run[p].snap[i]
           r == index[Agt(p)][i]
<1>2. i \in Rows(Agt(p)) /\ SameOrigin(s, r)
  BY DEF PinInv, SnapOK, SnapPhases
<1>3. /\ now \in Nat /\ Horizon \in Nat /\ Stamp \subseteq Nat /\ id # None
      /\ run[p].args \in Launches /\ Agt(p) \in Agent
  BY RowAssumption, WorkerAssumption, NoneIsNothing, RunsForAgent
     DEF WorkerInv, WorkerTyped, WorldTyped, Args
<1>4. CASE s.ended # None
  <2>1. Backed(Agt(p), id, s.ended)
    BY <1>1, <1>3, <1>4 DEF WhyInv, SnapTimed, SnapPhases
  <2>2. PICK j \in Rows(Agt(p)) : /\ index[Agt(p)][j].id = id
                                  /\ index[Agt(p)][j].started \in Stamp
                                  /\ index[Agt(p)][j].started <= s.ended
    BY <2>1 DEF Backed
  <2>3. s.ended \in Nat
    <3>1. s \in Row
      BY DEF WorkerInv, WorkerTyped, RunsTyped, RunOK
    <3> QED
      BY <1>3, <1>4, <3>1 DEF Row, OrNone
  <2>4. now - s.ended >= Horizon
    BY <1>1, <1>4 DEF SessionTime
  <2>5. now - index[Agt(p)][j].started >= Horizon
    <3>1. \A x \in Stamp, y \in Nat : x <= y /\ now - y >= Horizon => now - x >= Horizon
      BY <1>3
    <3> QED
      BY <2>2, <2>3, <2>4, <3>1, Zenon
  <2> QED
    BY <2>2, <2>5 DEF Reason
<1>5. CASE s.ended = None
  <2>1. s.started # None /\ now - s.started >= Horizon
    BY <1>1, <1>5 DEF SessionTime
  <2>2. r.started = s.started /\ r.id = id
    BY <1>1, <1>2 DEF SameOrigin
  <2> QED
    BY <1>2, <2>1, <2>2 DEF Reason
<1> QED
  BY <1>4, <1>5

\* What one step of a run collects is backed by the index.
LEMMA StepKeepsWhy ==
  ASSUME WorkerInv, PinInv, WhyInv, NEW p \in Proc, ProcessStep(p)
  PROVE  /\ EndsBacked(p)' /\ CheckedReasoned(p)' /\ SnapTimed(p)'
         /\ \A g \in run'[p].groups : LookupIsThere(Agt(p), g)'
<1> DEFINE b == run[p].batch
           c == run'[p].batch
<1>0. RunsTyped /\ RunsTyped' /\ DOMAIN run[p] = RunFields /\ [Next]_vars
  BY ProcessStepTyped DEF WorkerInv, WorkerTyped, RunsTyped, RunOK, Next, ProcessStep
<1>1. CASE Fresh(p)
  <2>1. c = EmptyBatch /\ run'[p].groups = {} /\ pc'[p] \notin SnapPhases
    BY <1>0, <1>1, FreshPhases DEF RunsTyped, ShapeOK, SnapPhases
  <2> QED
    BY <2>1 DEF EndsBacked, CheckedReasoned, SnapTimed, EmptyBatch
<1>2. CASE Works(p)
  <2>1. PICK a \in Agent : a = run[p].args.agent /\ a = run'[p].args.agent
    <3>1. run'[p].args = run[p].args /\ pc[p] \in Working
      BY <1>2, WorksKeepsArgs
    <3> QED
      BY <1>0, <3>1, RunsForAgent DEF Working, Agt
  <2>2. /\ \A x, t : Backed(a, x, t) => Backed(a, x, t)'
        /\ \A x : x # None /\ Reason(a, x) => Reason(a, x)'
        /\ \A g : LookupIsThere(a, g) => LookupIsThere(a, g)'
    BY <1>0, BackedStays, ReasonStays, LookupStays
  <2>3. EndsBacked(p)'
    <3> SUFFICES ASSUME NEW id \in SessionId, c.ends[id] # None
                 PROVE  Backed(Agt(p), id, run[p].batch.ends[id])'
      BY DEF EndsBacked
    <3>1. Backed(a, id, c.ends[id])
      <4>1. CASE c.ends = b.ends
        BY <2>1, <4>1 DEF WhyInv, EndsBacked, Agt
      <4>2. CASE EndMove(p, b, c)
        <5>1. PICK ends \in [SessionId -> OrNone(Stamp)] :
                /\ c = [b EXCEPT !.ends = ends]
                /\ \A x \in SessionId : ends[x] # None => EndsAt(p, x, ends[x])
          BY <4>2 DEF EndMove
        <5>2. c.ends = ends
          BY <1>0, <5>1 DEF RunsTyped, RunOK, Batch
        <5>3. EndsAt(p, id, c.ends[id])
          BY <5>1, <5>2
        <5>4. id # None
          BY NoneIsNothing
        <5> QED
          BY <2>1, <5>3, <5>4 DEF EndsAt, WhyInv, LineTimed, Backed, Agt
      <4>3. c # EmptyBatch
        BY DEF EmptyBatch
      <4> QED
        BY <4>1, <4>2, <4>3, BatchFields
    <3> QED
      BY <2>1, <2>2, <3>1 DEF Backed, Rows, Agt
  <2>4. CheckedReasoned(p)'
    <3> SUFFICES ASSUME NEW id \in c.checked
                 PROVE  Reason(Agt(p), id)'
      BY DEF CheckedReasoned
    <3>1. id \in SessionId /\ id # None
      BY <1>0, NoneIsNothing DEF RunsTyped, RunOK, Batch
    <3>2. Reason(a, id)
      <4>1. ASSUME id \in b.checked PROVE Reason(a, id)
        BY <2>1, <4>1 DEF WhyInv, CheckedReasoned, Agt
      <4>2. CASE CollectGarbage(p) /\ c.checked = {x \in SessionId : IsOld(p, x)}
        BY <2>1, <3>1, <4>2, OldIsReason DEF CollectGarbage, Is, Agt
      <4>3. ASSUME NEW g \in run[p].groups, g.cwd \notin cwds, id \in g.ids
            PROVE  Reason(a, id)
        BY <2>1, <4>3, GoneIsReason DEF WhyInv, Agt
      <4>4. c # EmptyBatch
        BY DEF EmptyBatch
      <4> QED
        BY <4>1, <4>2, <4>3, <4>4, BatchFields
    <3>3. Reason(a, id)'
      BY <2>2, <3>1, <3>2
    <3> QED
      BY <2>1, <3>3 DEF Reason, Rows, Agt
  <2>5. SnapTimed(p)'
    <3>1. CASE ReadIndex(p)
      <4>1. run'[p].snap = index[Agt(p)] /\ index' = index
        <5>1. run'[p] = [run[p] EXCEPT !.snap = index[Agt(p)]] /\ index' = index
          BY <1>0, <3>1 DEF ReadIndex, RunsTyped, file
        <5> QED
          BY <1>0, <5>1 DEF RunFields
      <4>2. \A i \in DOMAIN index[a] : index[a][i].id # None /\ index[a][i].ended # None =>
              Backed(a, index[a][i].id, index[a][i].ended)
        BY DEF WhyInv, LineTimed, Rows
      <4> QED
        BY <2>1, <4>1, <4>2 DEF SnapTimed, Backed, Rows, Agt
    <3>2. CASE ~ReadIndex(p) /\ pc'[p] \in SnapPhases
      <4>1. pc[p] \in SnapPhases /\ run'[p].snap = run[p].snap /\ index' = index
        BY <1>2, <3>2, SnapKept
      <4>2. \A i \in DOMAIN run[p].snap :
              LET s == run[p].snap[i]
              IN  s.id # None /\ s.ended # None => Backed(a, s.id, s.ended)
        BY <2>1, <4>1 DEF WhyInv, SnapTimed, Agt
      <4> QED
        BY <2>1, <4>1, <4>2 DEF SnapTimed, Backed, Rows, Agt
    <3> QED
      BY <3>1, <3>2 DEF SnapTimed
  <2>6. ASSUME NEW g \in run'[p].groups PROVE LookupIsThere(Agt(p), g)'
    <3>1. LookupIsThere(a, g)
      <4>1. CASE g \in run[p].groups
        BY <2>1, <4>1 DEF WhyInv, Agt
      <4>2. CASE Collect(p) /\ g \in AllGroups(p)
        BY <2>1, <4>2, ChosenIsThere DEF Collect, Is, Agt
      <4> QED
        BY <2>6, <4>1, <4>2, LookupsMove
    <3>2. LookupIsThere(a, g)'
      BY <2>2, <3>1
    <3>3. index'[run'[p].args.agent] = index'[a]
      BY <2>1
    <3> QED
      BY <3>2, <3>3 DEF LookupIsThere, Rows, Agt
  <2> QED
    BY <2>3, <2>4, <2>5, <2>6
<1> QED
  BY <1>1, <1>2, StepsSorted

\* So is what a run has collected, whatever the others do.
LEMMA OthersKeepWhy ==
  ASSUME WorkerInv, WhyInv, [Next]_vars, NEW p \in Proc, pc'[p] = pc[p], run'[p] = run[p]
  PROVE  /\ EndsBacked(p)' /\ CheckedReasoned(p)' /\ SnapTimed(p)'
         /\ \A g \in run'[p].groups : LookupIsThere(Agt(p), g)'
<1>0. RunsTyped
  BY DEF WorkerInv, WorkerTyped
<1>1. CASE pc[p] \in {"idle", "exit"}
  <2>1. run[p].batch = EmptyBatch /\ run[p].groups = {} /\ pc[p] \notin SnapPhases
    BY <1>0, <1>1 DEF RunsTyped, ShapeOK, SnapPhases
  <2> QED
    BY <2>1 DEF EndsBacked, CheckedReasoned, SnapTimed, EmptyBatch
<1>2. CASE pc[p] \notin {"idle", "exit"}
  <2>1. PICK a \in Agent : a = run[p].args.agent /\ a = run'[p].args.agent
    BY <1>0, <1>2, RunsForAgent DEF Agt
  <2>2. /\ \A x, t : Backed(a, x, t) => Backed(a, x, t)'
        /\ \A x : x # None /\ Reason(a, x) => Reason(a, x)'
        /\ \A g : LookupIsThere(a, g) => LookupIsThere(a, g)'
    BY BackedStays, ReasonStays, LookupStays
  <2>3. \A id \in run[p].batch.checked : id # None
    BY <1>0, NoneIsNothing DEF RunsTyped, RunOK, Batch
  <2>4. EndsBacked(p)'
    <3>1. \A id \in SessionId : run'[p].batch.ends[id] # None =>
            Backed(a, id, run'[p].batch.ends[id])
      BY <2>1 DEF WhyInv, EndsBacked, Agt
    <3>2. \A id \in SessionId : run'[p].batch.ends[id] # None =>
            \E j \in DOMAIN index'[a] :
              /\ index'[a][j].id = id /\ index'[a][j].started \in Stamp
              /\ index'[a][j].started <= run'[p].batch.ends[id]
      BY <2>2, <3>1 DEF Backed, Rows
    <3> QED
      BY <2>1, <3>2 DEF EndsBacked, Backed, Rows, Agt
  <2>7. SnapTimed(p)'
    <3>1. pc'[p] \in SnapPhases => \A i \in DOMAIN run'[p].snap :
            LET s == run'[p].snap[i]
            IN  s.id # None /\ s.ended # None => Backed(a, s.id, s.ended)
      BY <2>1 DEF WhyInv, SnapTimed, Agt
    <3>2. pc'[p] \in SnapPhases => \A i \in DOMAIN run'[p].snap :
            LET s == run'[p].snap[i]
            IN  s.id # None /\ s.ended # None =>
                  \E j \in DOMAIN index'[a] :
                    /\ index'[a][j].id = s.id /\ index'[a][j].started \in Stamp
                    /\ index'[a][j].started <= s.ended
      BY <2>2, <3>1 DEF Backed, Rows
    <3> QED
      BY <2>1, <3>2 DEF SnapTimed, Backed, Rows, Agt
  <2>5. CheckedReasoned(p)'
    BY <2>1, <2>2, <2>3 DEF WhyInv, CheckedReasoned, Reason, Rows, Agt
  <2>6. \A g \in run'[p].groups : LookupIsThere(Agt(p), g)'
    BY <2>1, <2>2 DEF WhyInv, LookupIsThere, Rows, Agt
  <2> QED
    BY <2>4, <2>5, <2>6, <2>7
<1> QED
  BY <1>1, <1>2

LEMMA NextKeepsWhy ==
  ASSUME WorkerInv, PinInv, WhyInv, [Next]_vars
  PROVE  WhyInv'
<1>1. \A a \in Agent : \A i \in DOMAIN index'[a] :
        /\ LineTimed(a, index[a][i])'
        /\ index'[a][i].checked => index'[a][i].id # None /\ Reason(a, index[a][i].id)'
  BY NextKeepsLines
<1>2. ASSUME NEW p \in Proc
      PROVE  /\ EndsBacked(p)' /\ CheckedReasoned(p)' /\ SnapTimed(p)'
             /\ \A g \in run'[p].groups : LookupIsThere(Agt(p), g)'
  <2>1. CASE ProcessStep(p)
    BY <2>1, StepKeepsWhy
  <2>2. CASE ~ProcessStep(p)
    <3>1. ASSUME NEW q \in Proc, ProcessStep(q) PROVE pc'[p] = pc[p] /\ run'[p] = run[p]
      BY <2>2, <3>1, StepIsOnlyOf DEF WorkerInv, WorkerTyped, OnlyOf
    <3>2. ASSUME NEW a \in Agent, HookStep(a) PROVE pc'[p] = pc[p] /\ run'[p] = run[p]
      BY <3>2, HookStepRewrites DEF WorkerInv
    <3>3. ASSUME WorldStep PROVE pc'[p] = pc[p] /\ run'[p] = run[p]
      BY <3>3, WorldStepKeeps DEF WorkerInv, WorkerTyped
    <3>4. pc'[p] = pc[p] /\ run'[p] = run[p]
      BY <3>1, <3>2, <3>3, NextSorted
    <3> QED
      BY <3>4, OthersKeepWhy
  <2> QED
    BY <2>1, <2>2
<1> QED
  BY <1>1, <1>2 DEF WhyInv, Rows

LEMMA InitMakesWhy == Init => WhyInv
<1> SUFFICES ASSUME Init PROVE WhyInv
  OBVIOUS
<1>0. /\ MaxNow \in Nat /\ Stamp = 1..MaxNow /\ index \in [Agent -> Seq(Row)]
      /\ \A a \in Agent : \A i \in DOMAIN index[a] : Unworked(index[a][i])
  BY WorkerAssumption, InitMakesTypes DEF Init, WorkerInv, WorkerTyped, FileTyped
<1>1. \A a \in Agent : \A i \in DOMAIN index[a] : SessionTime(index[a][i]) <= now
  <2> DEFINE times == {1} \cup UNION {{SessionTime(index[a][i]) : i \in DOMAIN index[a]} : a \in Agent}
  <2>1. MaxNow > 0
    BY WorkerAssumption
  <2>2. \A a \in Agent : \A i \in DOMAIN index[a] :
          SessionTime(index[a][i]) \in times /\ SessionTime(index[a][i]) \in 0..MaxNow
    <3>1. \A a \in Agent : \A i \in DOMAIN index[a] : index[a][i] \in Row
      BY <1>0
    <3>2. \A a \in Agent : \A i \in DOMAIN index[a] : SessionTime(index[a][i]) \in 0..MaxNow
      BY <3>1, TimeTyped
    <3> QED
      BY <3>2
  <2>3. times \in SUBSET (0..MaxNow) /\ 1 \in times
    BY <1>0, <2>1, <2>2
  <2>4. now = Max(times)
    BY DEF Init, LastInstant
  <2> HIDE DEF times
  <2> QED
    BY <1>0, <2>2, <2>3, <2>4, MaxInInterval
<1>2. ASSUME NEW a \in Agent, NEW i \in Rows(a) PROVE LineTimed(a, index[a][i])
  <2> DEFINE r == index[a][i]
  <2> SUFFICES ASSUME r.id # None
               PROVE  /\ r.started \in Stamp /\ r.started <= now
                      /\ r.ended # None => Backed(a, r.id, r.ended)
    BY DEF LineTimed
  <2>1. r \in Row /\ Unworked(r) /\ SessionTime(r) <= now
    BY <1>0, <1>1 DEF Rows
  <2>2. /\ r.started \in Stamp /\ r.ended \in OrNone(Stamp)
        /\ r.ended # None => r.started <= r.ended
    BY <2>1 DEF Unworked, Row, OrNone
  <2>3. r.ended # None => Backed(a, r.id, r.ended)
    BY <2>2 DEF Backed
  <2>4. r.started <= now
    <3>1. now \in Nat /\ Stamp \subseteq Nat
      BY RowAssumption, InitMakesTypes DEF WorkerInv, WorkerTyped, WorldTyped
    <3>2. CASE r.ended = None
      BY <2>1, <2>2, <3>1, <3>2, NoneIsNothing DEF SessionTime
    <3>3. CASE r.ended # None
      <4>1. r.ended \in Nat /\ r.started \in Nat /\ r.started <= r.ended /\ r.ended <= now
        BY <2>1, <2>2, <3>1, <3>3 DEF SessionTime, OrNone
      <4> HIDE DEF r
      <4> QED
        BY <3>1, <4>1
    <3> QED
      BY <3>2, <3>3
  <2> QED
    BY <2>2, <2>3, <2>4
<1>3. \A a \in Agent : \A i \in Rows(a) : ~index[a][i].checked
  BY <1>0 DEF Unworked, Rows
<1>4. ASSUME NEW p \in Proc
      PROVE  /\ EndsBacked(p) /\ CheckedReasoned(p) /\ SnapTimed(p)
             /\ \A g \in run[p].groups : LookupIsThere(Agt(p), g)
  <2>1. run[p].batch = EmptyBatch /\ run[p].groups = {} /\ pc[p] \notin SnapPhases
    BY DEF Init, IdleRun, SnapPhases
  <2> QED
    BY <2>1 DEF EndsBacked, CheckedReasoned, SnapTimed, EmptyBatch
<1> QED
  BY <1>2, <1>3, <1>4 DEF WhyInv

\* A session is given up only because a checkout of a branch it was on is gone
\* or because it started longer ago than the horizon: never after a lookup that
\* failed or found nothing yet, and no step of anybody takes the reason back.
THEOREM GivenUpForAReason == Spec => []CheckedHasReason
<1>1. WhyInv => CheckedHasReason
  BY DEF WhyInv, CheckedHasReason
<1> QED
  BY <1>1, InitMakesTypes, NextKeepsTypes, InitMakesPins, NextKeepsPins,
     InitMakesWhy, NextKeepsWhy, PTL DEF Spec
=============================================================================
