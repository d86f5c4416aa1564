------------------------- MODULE EventDeliveryProofs -------------------------
(***************************************************************************)
(* That no cursor of flush passes an event its target has not answered     *)
(* for, nor a metrics cursor what its target was shown, and that a target  *)
(* is sent no row twice without a reason, for any number of agents,        *)
(* targets, events, overlapping flushes and backfill runs.                 *)
(***************************************************************************)
EXTENDS EventDelivery, NumberLemmas

-----------------------------------------------------------------------------
(* The greatest of some numbers *)

\* Among numbers up to n and one more there is a greatest.
LEMMA MaxWithOneMore ==
  ASSUME NEW n \in Nat, NEW S \in SUBSET (0..n), NEW x \in Nat
  PROVE  /\ Max({x} \cup S) \in {x} \cup S
         /\ Max({x} \cup S) \in Nat
         /\ x <= Max({x} \cup S)
         /\ \A y \in S : y <= Max({x} \cup S)
<1>1. PICK m \in Nat : n <= m /\ x <= m
  <2>1. CASE n <= x
    BY <2>1
  <2>2. CASE x <= n
    BY <2>2
  <2> QED
    BY <2>1, <2>2
<1> DEFINE T == {x} \cup S
<1>2. T \in SUBSET (0..m) /\ T # {}
  BY <1>1
<1> HIDE DEF T
<1>3. Max(T) \in T /\ \A y \in T : y <= Max(T)
  BY <1>2, MaxInInterval
<1>4. Max(T) \in 0..m
  BY <1>2, <1>3
<1> USE DEF T
<1> QED
  BY <1>3, <1>4

-----------------------------------------------------------------------------
(* Types *)

Phases   == {"idle", "task", "pr", "weekly", "send"}
TaskSet  == [kind : {"logs", "metrics"}, to : Target]
RowSet   == [seq : Nat, event : Event]
PointSet == [family : Family, upto : Nat]
RunSet   ==
  [agent : Agent \cup {None}, full : BOOLEAN, st : StateFile \cup {None},
   tasks : Seq(TaskSet), dirty : BOOLEAN, rows : SUBSET RowSet,
   points : Seq(PointSet), last : Nat]

TargetsTyped ==
  /\ stored \in [Target -> SUBSET Event]
  /\ refused \in [Target -> SUBSET Event]
  /\ lost \in [Target -> SUBSET Event]
  /\ seen \in [Agent -> [Target -> [Family -> Nat]]]
  /\ \A t \in Target : stored[t] \cap Refused[t] = {} /\ refused[t] \subseteq Refused[t]

HistoryTyped ==
  posted \in [Agent -> [Target -> Nat \cup {None}]] /\ again \subseteq Target

FilesTyped ==
  /\ events \in Seq(Event \cup {None})
  /\ file \in [Agent -> StateFile]
  /\ held \in [Agent -> StateFile \cup {None}]

\* What a flush holds at each of its phases.
RunTyped(p) ==
  LET r == run[p]
  IN  /\ pc[p] = "idle" <=> r.st = None
      /\ pc[p] # "idle" => r.agent \in Agent
      /\ pc[p] \in {"pr", "weekly", "send"} => r.tasks # <<>>
      /\ pc[p] \in {"pr", "weekly"} => Task(p).kind = "metrics"
      /\ r.rows # {} => pc[p] = "send" /\ Task(p).kind = "logs"
      /\ r.points # <<>> => pc[p] \in {"weekly", "send"} /\ Task(p).kind = "metrics"
      /\ \A x \in r.rows : x.seq \in DOMAIN events
      /\ r.last <= Len(events)

RunsTyped ==
  /\ pc \in [Flusher -> Phases]
  /\ run \in [Flusher -> RunSet]
  /\ \A p \in Flusher : RunTyped(p)

TypeInv == FilesTyped /\ TargetsTyped /\ HistoryTyped /\ RunsTyped

\* The conjunction is stronger than the invariant the runs check.
LEMMA TypeInvImpliesTypeOK == TypeInv => TypeOK
BY DeliveryAssumption
DEF TypeInv, FilesTyped, TargetsTyped, HistoryTyped, RunsTyped, RunTyped, RunSet, Phases, TypeOK

\* The tasks of a flush are tasks.
LEMMA TasksTyped == Tasks \in Seq(TaskSet)
<1> DEFINE OfKind(k, targets) == [i \in DOMAIN targets |-> [kind |-> k, to |-> targets[i]]]
<1>1. ASSUME NEW k \in {"logs", "metrics"}, NEW targets \in Seq(Target)
      PROVE  OfKind(k, targets) \in Seq(TaskSet)
  <2>1. DOMAIN targets = 1..Len(targets) /\ Len(targets) \in Nat
    OBVIOUS
  <2>2. OfKind(k, targets) \in [1..Len(targets) -> TaskSet]
    BY <2>1 DEF TaskSet
  <2> QED
    BY <2>1, <2>2
<1>2. /\ OfKind("logs", LogsTargets) \in Seq(TaskSet)
      /\ OfKind("metrics", MetricsTargets) \in Seq(TaskSet)
  BY <1>1, DeliveryAssumption
<1>3. Tasks = OfKind("logs", LogsTargets) \o OfKind("metrics", MetricsTargets)
  BY DEF Tasks
<1> QED
  BY <1>2, <1>3

\* An idle run holds nothing.
LEMMA IdleTyped ==
  /\ IdleRun \in RunSet
  /\ IdleRun.st = None /\ IdleRun.rows = {} /\ IdleRun.points = <<>> /\ IdleRun.last = 0
BY DeliveryAssumption DEF IdleRun, RunSet

-----------------------------------------------------------------------------
(* Steps keep types *)

LEMMA InitTyped == Init => TypeInv
<1> SUFFICES ASSUME Init PROVE TypeInv
  OBVIOUS
<1>1. FilesTyped
  BY DeliveryAssumption DEF Init, FileOf, StateFile, FilesTyped
<1>2. TargetsTyped
  <2>1. PICK n \in 0..(IF Legacy \in Target THEN Len(InitEvents) ELSE 0) :
          stored = [t \in Target |-> IF t = Legacy
                                    THEN ToSet(SubSeq(InitEvents, 1, n)) ELSE {}]
    BY DEF Init
  <2>2. Legacy \in Target =>
          ToSet(SubSeq(InitEvents, 1, n)) \subseteq ToSet(InitEvents) \cap Event
    BY DeliveryAssumption DEF ToSet
  <2> QED
    BY <2>1, <2>2, DeliveryAssumption DEF Init, TargetsTyped
<1>3. HistoryTyped
  BY DEF Init, HistoryTyped
<1>4. RunsTyped
  BY IdleTyped, DeliveryAssumption DEF Init, RunsTyped, RunTyped, Phases
<1> QED
  BY <1>1, <1>2, <1>3, <1>4 DEF TypeInv

\* The step is p's, and leaves the table alone.
OnlyOf(p) ==
  /\ pc' \in [Flusher -> Phases]
  /\ run' \in [Flusher -> RunSet]
  /\ \A q \in Flusher \ {p} : pc'[q] = pc[q] /\ run'[q] = run[q]
  /\ events' = events

LEMMA OthersTyped ==
  ASSUME RunsTyped, NEW p \in Flusher, OnlyOf(p), RunTyped(p)'
  PROVE  RunsTyped'
BY DEF RunsTyped, RunTyped, OnlyOf, Task

\* The tasks that are left are tasks.
LEMMA TailTyped ==
  ASSUME NEW S, NEW q \in Seq(S), q # <<>>
  PROVE  Head(q) \in S /\ Tail(q) \in Seq(S)
OBVIOUS

\* An excuse is one.
LEMMA ExcuseTyped ==
  ASSUME HistoryTyped, NEW ts \in SUBSET Target, Excuse(ts) \/ UNCHANGED history
  PROVE  HistoryTyped'
BY DEF HistoryTyped, Excuse, history

\* A target that takes a batch keeps what it took.
LEMMA TakesTyped ==
  ASSUME TargetsTyped, NEW t \in Target, NEW batch \in SUBSET Event, Takes(t, batch)
  PROVE  TargetsTyped'
BY DeliveryAssumption DEF TargetsTyped, Takes

\* What a flush posts is there.
LEMMA PostTyped ==
  ASSUME TypeInv, NEW p \in Flusher, pc[p] = "send"
  PROVE  /\ run[p] \in RunSet /\ run[p].agent \in Agent /\ run[p].st \in StateFile
         /\ Task(p) \in TaskSet /\ Tail(run[p].tasks) \in Seq(TaskSet)
         /\ FirstRows(p) \subseteq run[p].rows
         /\ Batch(p) \subseteq Event
         /\ Sequences(p) \subseteq 0..Len(events)
         /\ Task(p).kind = "metrics" =>
               (run[p].rows = {} /\ (run[p].points # <<>> => Head(run[p].points) \in PointSet))
<1>1. run[p] \in RunSet /\ RunTyped(p)
  BY DEF TypeInv, RunsTyped
<1>2. FirstRows(p) \subseteq run[p].rows /\ run[p].rows \subseteq RowSet
  BY <1>1 DEF FirstRows, RunSet
<1>3. Batch(p) \subseteq Event
  BY <1>2 DEF Batch, RowSet
<1>4. Sequences(p) \subseteq 0..Len(events)
  BY <1>1, <1>2 DEF Sequences, RunTyped, TypeInv, FilesTyped, RowSet
<1>5. run[p].agent \in Agent /\ run[p].st \in StateFile /\ run[p].tasks # <<>>
  BY <1>1 DEF RunTyped, RunSet
<1>6. Task(p) \in TaskSet /\ Tail(run[p].tasks) \in Seq(TaskSet)
  BY <1>1, <1>5 DEF RunSet, Task
<1>7. Task(p).kind = "metrics" =>
        (run[p].rows = {} /\ (run[p].points # <<>> => Head(run[p].points) \in PointSet))
  BY <1>1, <1>6 DEF RunTyped, RunSet
<1> QED
  BY <1>1, <1>2, <1>3, <1>4, <1>5, <1>6, <1>7

\* The next task begins with nothing in hand.
LEMMA NextTaskTyped ==
  ASSUME TypeInv, NEW p \in Flusher, pc[p] # "idle", run[p].tasks # <<>>, NextTask(p),
         UNCHANGED events
  PROVE  OnlyOf(p) /\ RunTyped(p)'
<1>1. run[p] \in RunSet /\ run[p].st # None /\ run[p].agent \in Agent
  BY DEF TypeInv, RunsTyped, RunTyped
<1>2. Tail(run[p].tasks) \in Seq(TaskSet)
  BY <1>1 DEF RunSet
<1>3. run'[p] = [run[p] EXCEPT !.tasks = Tail(@), !.rows = {}, !.points = <<>>, !.last = 0]
  BY DEF NextTask, TypeInv, RunsTyped
<1>4. run'[p] \in RunSet
  <2>1. <<>> \in Seq(PointSet) /\ {} \in SUBSET RowSet /\ 0 \in Nat
    OBVIOUS
  <2> QED
    BY <1>1, <1>2, <1>3, <2>1 DEF RunSet
<1> QED
  BY <1>1, <1>3, <1>4 DEF NextTask, OnlyOf, RunTyped, RunSet, Phases, TypeInv, FilesTyped, RunsTyped

\* What the step of a flush does to its own variables is enough, if the files,
\* the targets and the history are left alone or keep their types.
LEMMA StepOfTyped ==
  ASSUME TypeInv, NEW p \in Flusher, OnlyOf(p), RunTyped(p)',
         UNCHANGED <<file, held>>, TargetsTyped', HistoryTyped'
  PROVE  TypeInv'
<1>1. RunsTyped'
  BY OthersTyped DEF TypeInv
<1>2. FilesTyped'
  BY DEF TypeInv, FilesTyped, OnlyOf
<1> QED
  BY <1>1, <1>2 DEF TypeInv

LEMMA BeginTyped ==
  ASSUME TypeInv, NEW p \in Flusher, NEW a \in Agent, NEW full \in BOOLEAN, Begin(p, a, full)
  PROVE  TypeInv'
<1>1. run[p] \in RunSet /\ RunTyped(p) /\ file[a] \in StateFile
  BY DEF TypeInv, RunsTyped, FilesTyped
<1>2. run'[p] = [run[p] EXCEPT !.agent = a, !.full = full, !.st = file[a], !.tasks = Tasks]
  BY DEF Begin, TypeInv, RunsTyped
<1>3. run'[p] \in RunSet
  BY <1>1, <1>2, TasksTyped DEF RunSet
<1>4. OnlyOf(p)
  BY <1>3 DEF Begin, Is, OnlyOf, Phases, TypeInv, RunsTyped
<1>5. RunTyped(p)'
  BY <1>1, <1>2, DeliveryAssumption DEF Begin, Is, RunTyped, TypeInv, RunsTyped, RunSet, Phases
<1>6. HistoryTyped'
  BY ExcuseTyped DEF Begin, TypeInv
<1>7. TargetsTyped'
  BY DEF Begin, backend, TypeInv, TargetsTyped
<1> QED
  BY <1>4, <1>5, <1>6, <1>7, StepOfTyped DEF Begin

\* Steps that read.
LEMMA ReadTyped ==
  ASSUME TypeInv, NEW p \in Flusher,
         \/ ReadEvents(p) \/ UpToDate(p) \/ ReadMax(p) \/ \E f \in Family : ReadView(p, f)
  PROVE  TypeInv'
<1>1. run[p] \in RunSet /\ RunTyped(p) /\ events \in Seq(Event \cup {None}) /\ Len(events) \in Nat
  BY DEF TypeInv, RunsTyped, FilesTyped
<1>2. \A a, after : Rows(a, after) \subseteq 0..Len(events)
  BY <1>1 DEF Rows
<1>3. \A a, after : /\ Max({0} \cup Rows(a, after)) \in Nat
                    /\ Max({0} \cup Rows(a, after)) <= Len(events)
  <2> TAKE a, after
  <2>1. Rows(a, after) \in SUBSET (0..Len(events)) /\ 0 \in Nat
    BY <1>2
  <2> HIDE DEF Rows
  <2>2. Max({0} \cup Rows(a, after)) \in {0} \cup Rows(a, after)
    BY <1>1, <2>1, MaxWithOneMore
  <2> QED
    BY <1>1, <2>1, <2>2
<1>4. CASE ReadEvents(p)
  <2> DEFINE rows == Rows(run[p].agent, IF run[p].full THEN 0 ELSE CursorFor(run[p].st, Task(p).to))
             held_ == {[seq |-> k, event |-> events[k]] : k \in rows}
  <2>1. run'[p] = [run[p] EXCEPT !.rows = held_, !.last = Max({0} \cup rows)]
    BY <1>4 DEF ReadEvents, TypeInv, RunsTyped
  <2>2. held_ \subseteq RowSet /\ \A x \in held_ : x.seq \in DOMAIN events
    BY <1>1 DEF RowSet, Rows
  <2>3. Max({0} \cup rows) \in Nat /\ Max({0} \cup rows) <= Len(events)
    BY <1>3
  <2> HIDE DEF rows, held_
  <2>4. run'[p] \in RunSet
    BY <1>1, <2>1, <2>2, <2>3 DEF RunSet
  <2>5. OnlyOf(p)
    BY <1>4, <2>4 DEF ReadEvents, OnlyOf, Phases, TypeInv, RunsTyped
  <2>6. RunTyped(p)'
    <3>1. /\ run'[p].tasks = run[p].tasks /\ run'[p].points = run[p].points
          /\ run'[p].st = run[p].st /\ run'[p].agent = run[p].agent
          /\ run'[p].rows = held_ /\ run'[p].last = Max({0} \cup rows)
      BY <1>1, <2>1 DEF RunSet
    <3>2. /\ pc[p] = "task" /\ pc'[p] = "send" /\ events' = events
          /\ run[p].tasks # <<>> /\ Task(p).kind = "logs"
      BY <1>4 DEF ReadEvents, At, TypeInv, RunsTyped
    <3> QED
      BY <1>1, <2>2, <2>3, <3>1, <3>2 DEF Task, RunTyped
  <2> QED
    BY <1>4, <2>5, <2>6, StepOfTyped
    DEF ReadEvents, backend, history, TypeInv, TargetsTyped, HistoryTyped
<1>5. CASE UpToDate(p)
  <2>1. run'[p] = [run[p] EXCEPT !.tasks = Tail(@)] /\ run[p].tasks # <<>>
    BY <1>5 DEF UpToDate, At, TypeInv, RunsTyped
  <2>2. run'[p] \in RunSet
    <3>1. Tail(run[p].tasks) \in Seq(TaskSet)
      BY <1>1, <2>1, TailTyped DEF RunSet
    <3> QED
      BY <1>1, <2>1, <3>1 DEF RunSet
  <2>3. OnlyOf(p)
    BY <1>5, <2>2 DEF UpToDate, OnlyOf, TypeInv, RunsTyped
  <2>4. RunTyped(p)'
    BY <1>1, <1>5, <2>1 DEF UpToDate, At, RunTyped, RunSet
  <2> QED
    BY <1>5, <2>3, <2>4, StepOfTyped
    DEF UpToDate, backend, history, TypeInv, TargetsTyped, HistoryTyped
<1>6. CASE ReadMax(p)
  <2>1. run'[p] = [run[p] EXCEPT !.last = LastSequence(run[p].agent)]
    BY <1>6 DEF ReadMax, TypeInv, RunsTyped
  <2>2. LastSequence(run[p].agent) \in Nat /\ LastSequence(run[p].agent) <= Len(events)
    BY <1>3 DEF LastSequence
  <2>3. run'[p] \in RunSet
    BY <1>1, <2>1, <2>2 DEF RunSet
  <2>4. OnlyOf(p)
    BY <1>6, <2>3 DEF ReadMax, OnlyOf, Phases, TypeInv, RunsTyped
  <2>5. RunTyped(p)'
    BY <1>1, <1>6, <2>1, <2>2 DEF ReadMax, At, Task, RunTyped, RunSet, TypeInv, RunsTyped
  <2> QED
    BY <1>6, <2>4, <2>5, StepOfTyped
    DEF ReadMax, backend, history, TypeInv, TargetsTyped, HistoryTyped
<1>7. ASSUME NEW f \in Family, ReadView(p, f) PROVE TypeInv'
  <2>1. run'[p] = [run[p] EXCEPT !.points = @ \o View(run[p].agent, f)]
    BY <1>7 DEF ReadView, TypeInv, RunsTyped
  <2>2. LastSequence(run[p].agent) \in Nat
    BY <1>3 DEF LastSequence
  <2>3. View(run[p].agent, f) \in Seq(PointSet)
    <3>1. [family |-> f, upto |-> LastSequence(run[p].agent)] \in PointSet
      BY <1>7, <2>2 DEF PointSet
    <3> QED
      BY <3>1 DEF View
  <2>4. run'[p] \in RunSet
    <3>1. run[p].points \o View(run[p].agent, f) \in Seq(PointSet)
      BY <1>1, <2>3 DEF RunSet
    <3> QED
      BY <1>1, <2>1, <3>1 DEF RunSet
  <2>5. OnlyOf(p)
    BY <1>7, <2>4 DEF ReadView, Is, OnlyOf, Phases, TypeInv, RunsTyped
  <2>6. RunTyped(p)'
    BY <1>1, <1>7, <2>1 DEF ReadView, Is, Family, Task, RunTyped, RunSet, TypeInv, RunsTyped
  <2> QED
    BY <1>7, <2>5, <2>6, StepOfTyped
    DEF ReadView, backend, history, TypeInv, TargetsTyped, HistoryTyped
<1> QED
  BY <1>4, <1>5, <1>6, <1>7

\* Steps that post.
LEMMA AcceptTyped ==
  ASSUME TypeInv, NEW p \in Flusher, Accept(p) \/ Drop(p)
  PROVE  TypeInv'
<1> DEFINE a == run[p].agent
           t == Task(p).to
<1>1. run[p] \in RunSet /\ RunTyped(p) /\ pc[p] = "send" /\ Posts(p, "logs")
  BY DEF TypeInv, RunsTyped, Accept, Drop, Posts, At
<1>2. /\ a \in Agent /\ t \in Target /\ Batch(p) \subseteq Event
      /\ FirstRows(p) \subseteq run[p].rows /\ Sequences(p) \subseteq 0..Len(events)
  BY <1>1, PostTyped DEF TaskSet
<1>3. run'[p] = [run[p] EXCEPT !.rows = @ \ FirstRows(p)] /\ UNCHANGED <<events, file, held, pc>>
  BY DEF Accept, Drop, TypeInv, RunsTyped
<1>4. run'[p] \in RunSet
  BY <1>1, <1>3 DEF RunSet
<1>5. OnlyOf(p)
  BY <1>3, <1>4 DEF Accept, Drop, OnlyOf, TypeInv, RunsTyped
<1>6. RunTyped(p)'
  BY <1>1, <1>3 DEF RunTyped, RunSet, Task
<1>7. TargetsTyped'
  <2>1. CASE Accept(p)
    BY <1>2, <2>1, TakesTyped DEF Accept, TypeInv
  <2>2. CASE Drop(p)
    BY <1>2, <2>2, DeliveryAssumption DEF Drop, TypeInv, TargetsTyped
  <2> QED
    BY <2>1, <2>2
<1>8. HistoryTyped'
  <2>1. CASE Accept(p)
    <3>1. posted[a][t] # None => Max({posted[a][t]} \cup Sequences(p)) \in Nat
      <4> SUFFICES ASSUME posted[a][t] # None
                   PROVE  Max({posted[a][t]} \cup Sequences(p)) \in Nat
        OBVIOUS
      <4>1. posted[a][t] \in Nat /\ Len(events) \in Nat
        BY <1>2 DEF TypeInv, HistoryTyped, FilesTyped
      <4> QED
        BY <1>2, <4>1, MaxWithOneMore
    <3>2. posted' \in [Agent -> [Target -> Nat \cup {None}]]
      BY <1>2, <2>1, <3>1 DEF Accept, TypeInv, HistoryTyped
    <3>3. again' \subseteq Target
      BY <1>2, <2>1 DEF Accept, Again, TypeInv, HistoryTyped
    <3> QED
      BY <3>2, <3>3 DEF HistoryTyped
  <2>2. CASE Drop(p)
    BY <2>2 DEF Drop, history, TypeInv, HistoryTyped
  <2> QED
    BY <2>1, <2>2
<1> QED
  BY <1>3, <1>5, <1>6, <1>7, <1>8, StepOfTyped

\* The rows of a view, handled by a target: what it has seen gets no older.
LEMMA GaugesTyped ==
  ASSUME TypeInv, NEW p \in Flusher, Posts(p, "metrics"), Gauges(p)
  PROVE  /\ TargetsTyped'
         /\ \A a \in Agent, t \in Target, f \in Family : seen[a][t][f] <= seen'[a][t][f]
         /\ LET x == Head(run[p].points)
            IN  x.upto <= seen'[run[p].agent][Task(p).to][x.family]
<1> DEFINE a == run[p].agent
           t == Task(p).to
           x == Head(run[p].points)
           newest == Max({seen[a][t][x.family], x.upto})
<1>1. a \in Agent /\ t \in Target /\ x \in PointSet
  BY PostTyped DEF Posts, At, TaskSet
<1>2. x.upto \in Nat /\ x.family \in Family /\ seen[a][t][x.family] \in Nat
  BY <1>1 DEF PointSet, TypeInv, TargetsTyped
<1>3. newest \in Nat /\ seen[a][t][x.family] <= newest /\ x.upto <= newest
  <2> HIDE DEF a, t, x
  <2>1. {x.upto} \in SUBSET (0..x.upto)
    BY <1>2
  <2>2. {seen[a][t][x.family]} \cup {x.upto} = {seen[a][t][x.family], x.upto}
    OBVIOUS
  <2> QED
    BY <1>2, <2>1, <2>2, MaxWithOneMore
<1>4. seen' = [seen EXCEPT ![a][t][x.family] = newest]
  BY DEF Gauges
<1>5. /\ seen' \in [Agent -> [Target -> [Family -> Nat]]]
      /\ \A b \in Agent, u \in Target, f \in Family : seen[b][u][f] <= seen'[b][u][f]
      /\ x.upto <= seen'[a][t][x.family]
  <2> HIDE DEF a, t, x, newest
  <2> QED
    BY <1>1, <1>2, <1>3, <1>4 DEF TypeInv, TargetsTyped
<1> QED
  BY <1>5 DEF Gauges, TypeInv, TargetsTyped

LEMMA AcceptGaugesTyped ==
  ASSUME TypeInv, NEW p \in Flusher, AcceptGauges(p)
  PROVE  TypeInv'
<1>1. run[p] \in RunSet /\ RunTyped(p) /\ Posts(p, "metrics")
  BY DEF TypeInv, RunsTyped, AcceptGauges
<1>2. run[p].points # <<>>
  BY <1>1 DEF RunTyped, Posts, At
<1>3. run'[p] = [run[p] EXCEPT !.points = Tail(@)] /\ UNCHANGED <<events, file, held, pc>>
  BY DEF AcceptGauges, TypeInv, RunsTyped
<1>4. run'[p] \in RunSet
  <2>1. Tail(run[p].points) \in Seq(PointSet)
    BY <1>1, <1>2, TailTyped DEF RunSet
  <2> QED
    BY <1>1, <1>3, <2>1 DEF RunSet
<1>5. OnlyOf(p)
  BY <1>3, <1>4 DEF AcceptGauges, OnlyOf, TypeInv, RunsTyped
<1>6. RunTyped(p)'
  BY <1>1, <1>3 DEF RunTyped, RunSet, Task
<1>7. TargetsTyped'
  BY <1>1, GaugesTyped DEF AcceptGauges
<1> QED
  BY <1>3, <1>5, <1>6, <1>7, StepOfTyped DEF AcceptGauges, history, TypeInv, HistoryTyped

\* Steps that fail.
LEMMA FailTyped ==
  ASSUME TypeInv, NEW p \in Flusher, AnswerLost(p) \/ GiveUp(p)
  PROVE  TypeInv'
<1>1. /\ NextTask(p) /\ UNCHANGED <<events, file, held>>
      /\ pc[p] # "idle" /\ run[p].tasks # <<>>
  BY DEF AnswerLost, GiveUp, CanFail, Posts, At
<1>2. OnlyOf(p) /\ RunTyped(p)'
  BY <1>1, NextTaskTyped
<1>3. CASE GiveUp(p)
  <2>1. Task(p).to \in Target
    <3>1. run[p].tasks \in Seq(TaskSet)
      BY DEF TypeInv, RunsTyped, RunSet
    <3>2. Head(run[p].tasks) \in TaskSet
      BY <1>1, <3>1, TailTyped
    <3> QED
      BY <3>2 DEF Task, TaskSet
  <2>2. HistoryTyped'
    BY <1>3, <2>1, ExcuseTyped DEF GiveUp, TypeInv
  <2> QED
    BY <1>1, <1>2, <1>3, <2>2, StepOfTyped DEF GiveUp, backend, TypeInv, TargetsTyped
<1>4. CASE AnswerLost(p)
  <2>1. pc[p] = "send"
    BY <1>4 DEF AnswerLost, Posts, At
  <2>2. /\ run[p].agent \in Agent /\ Task(p).to \in Target /\ Batch(p) \subseteq Event
    BY <2>1, PostTyped DEF TaskSet
  <2>3. HistoryTyped'
    BY <1>4, <2>2 DEF AnswerLost, Again, TypeInv, HistoryTyped
  <2>4. TargetsTyped'
    <3>1. CASE Posts(p, "logs") /\ Takes(Task(p).to, Batch(p))
      BY <2>2, <3>1, TakesTyped DEF TypeInv
    <3>2. CASE Posts(p, "metrics") /\ Gauges(p)
      BY <3>2, GaugesTyped
    <3> QED
      BY <1>4, <3>1, <3>2 DEF AnswerLost
  <2> QED
    BY <1>1, <1>2, <2>3, <2>4, StepOfTyped
<1> QED
  BY <1>3, <1>4

\* The cursor of a target moves.
LEMMA DoneTyped ==
  ASSUME TypeInv, NEW p \in Flusher, Done(p)
  PROVE  TypeInv'
<1> DEFINE t == Task(p).to
           logs == Task(p).kind = "logs" /\ run[p].last # 0
           flush == [run[p].st.flush EXCEPT ![t] = IF logs THEN run[p].last ELSE @]
           metrics == [run[p].st.metrics EXCEPT
                         ![t] = IF Task(p).kind = "metrics" THEN run[p].last ELSE @]
           dirty == run[p].dirty \/ logs \/ Task(p).kind = "metrics"
           st == [run[p].st EXCEPT !.flush = flush, !.metrics = metrics]
<1>1. /\ run[p] \in RunSet /\ RunTyped(p) /\ pc[p] = "send"
      /\ run[p].rows = {} /\ run[p].points = <<>>
  BY DEF TypeInv, RunsTyped, Done, MovesCursor
<1>2. run[p].st \in StateFile /\ t \in Target /\ Tail(run[p].tasks) \in Seq(TaskSet)
  BY <1>1, PostTyped DEF TaskSet
<1>3. st \in StateFile /\ st # None
  <2>1. flush \in [Target -> Nat \cup {None}] /\ metrics \in [Target -> Nat]
    BY <1>1, <1>2 DEF StateFile, RunSet
  <2>2. st \in StateFile
    BY <1>2, <2>1 DEF StateFile
  <2> QED
    BY <2>2, DeliveryAssumption
<1>4. run'[p] = [run[p] EXCEPT !.st = st,
                   !.dirty = dirty, !.tasks = Tail(@), !.last = 0]
  BY <1>1, <1>2 DEF Done, MovesCursor, TypeInv, RunsTyped, StateFile, RunSet
<1>5. run'[p] \in RunSet
  <2>1. dirty \in BOOLEAN /\ 0 \in Nat
    BY <1>1 DEF RunSet
  <2> HIDE DEF st, dirty, logs, t
  <2>2. run'[p] = [run[p] EXCEPT !.st = st, !.dirty = dirty, !.tasks = Tail(@), !.last = 0]
    BY <1>4
  <2> QED
    BY <1>1, <1>2, <1>3, <2>1, <2>2 DEF RunSet
<1>6. OnlyOf(p)
  BY <1>5 DEF Done, MovesCursor, OnlyOf, Phases, TypeInv, RunsTyped
<1>7. RunTyped(p)'
  <2> HIDE DEF st, dirty
  <2>1. /\ run'[p].st = st /\ run'[p].rows = {} /\ run'[p].points = <<>>
        /\ run'[p].last = 0 /\ run'[p].agent = run[p].agent
    BY <1>1, <1>4 DEF RunSet
  <2>2. pc'[p] = "task" /\ events' = events /\ Len(events) \in Nat /\ run[p].agent \in Agent
    BY <1>1 DEF Done, MovesCursor, RunTyped, TypeInv, RunsTyped, FilesTyped
  <2> QED
    BY <1>3, <2>1, <2>2 DEF RunTyped
<1> QED
  BY <1>6, <1>7, StepOfTyped
  DEF Done, MovesCursor, backend, history, TypeInv, TargetsTyped, HistoryTyped

\* A flush ends.
LEMMA EndTyped ==
  ASSUME TypeInv, NEW p \in Flusher, Finish(p) \/ Abort(p)
  PROVE  TypeInv'
<1>1. /\ run[p] \in RunSet /\ RunTyped(p) /\ run'[p] = IdleRun /\ pc'[p] = "idle"
      /\ events' = events /\ held' = held
  BY DEF Finish, Abort, Is, TypeInv, RunsTyped
<1>2. OnlyOf(p)
  BY <1>1, IdleTyped DEF Finish, Abort, Is, OnlyOf, Phases, TypeInv, RunsTyped
<1>3. RunsTyped'
  BY <1>1, <1>2, IdleTyped, OthersTyped DEF RunTyped, TypeInv, FilesTyped
<1>4. file' \in [Agent -> StateFile]
  BY <1>1 DEF Finish, Abort, Is, RunTyped, RunSet, TypeInv, FilesTyped
<1>5. FilesTyped'
  BY <1>1, <1>4 DEF TypeInv, FilesTyped
<1>6. HistoryTyped'
  BY ExcuseTyped DEF Finish, Abort, TypeInv
<1>7. TargetsTyped'
  BY DEF Finish, Abort, backend, TypeInv, TargetsTyped
<1> QED
  BY <1>3, <1>5, <1>6, <1>7 DEF TypeInv

-----------------------------------------------------------------------------
(* The other commands *)

\* What a sync-db appends is a sequence of events.
LEMMA SyncedTyped ==
  ASSUME NEW es \in UNION {SetToSeqs(S) : S \in (SUBSET Event) \ {{}}}
  PROVE  es \in Seq(Event)
<1>1. PICK S \in SUBSET Event : es \in SetToSeqs(S)
  OBVIOUS
<1>2. Cardinality(S) \in Nat
  BY DeliveryAssumption, FS_Subset, FS_CardinalityType
<1> QED
  BY <1>1, <1>2 DEF SetToSeqs

\* The table grows; rows that are given a new number leave their place.
LEMMA SequencedIs ==
  ASSUME events \in Seq(Event \cup {None}), NEW es \in Seq(Event)
  PROVE  /\ Sequenced(es) \in Seq(Event \cup {None})
         /\ Len(Sequenced(es)) = Len(events) + Len(es)
         /\ \A k \in 1..Len(events) :
              Sequenced(es)[k] = IF events[k] \in ToSet(es) THEN None ELSE events[k]
         /\ \A k \in 1..Len(es) : Sequenced(es)[Len(events) + k] = es[k]
<1> DEFINE kept == [k \in DOMAIN events |-> IF events[k] \in ToSet(es) THEN None ELSE events[k]]
<1>1. DOMAIN events = 1..Len(events) /\ Len(events) \in Nat
  OBVIOUS
<1>2. kept \in Seq(Event \cup {None}) /\ Len(kept) = Len(events)
  BY <1>1
<1>3. \A k \in 1..Len(events) : kept[k] = IF events[k] \in ToSet(es) THEN None ELSE events[k]
  BY <1>1
<1>4. Sequenced(es) = kept \o es
  BY DEF Sequenced
<1> HIDE DEF kept
<1>5. es \in Seq(Event \cup {None}) /\ Len(es) \in Nat
  OBVIOUS
<1>6. kept \o es \in Seq(Event \cup {None}) /\ Len(kept \o es) = Len(events) + Len(es)
  BY <1>2, <1>5
<1>7. \A k \in 1..Len(events) : (kept \o es)[k] = kept[k]
  BY <1>1, <1>2, <1>5
<1>8. \A k \in 1..Len(es) : (kept \o es)[Len(events) + k] = es[k]
  BY <1>1, <1>2, <1>5
<1> QED
  BY <1>3, <1>4, <1>6, <1>7, <1>8

LEMMA OtherCommandsTyped ==
  ASSUME TypeInv,
         \/ \E es \in UNION {SetToSeqs(S) : S \in (SUBSET Event) \ {{}}} : Sync(es)
         \/ \E a \in Agent : BackfillLoads(a) \/ BackfillSaves(a)
  PROVE  TypeInv'
<1>1. ASSUME NEW es \in UNION {SetToSeqs(S) : S \in (SUBSET Event) \ {{}}}, Sync(es)
      PROVE  TypeInv'
  <2>1. /\ events \in Seq(Event \cup {None}) /\ es \in Seq(Event)
        /\ events' = Sequenced(es) /\ UNCHANGED <<file, held, pc, run, backend, history>>
    BY <1>1, SyncedTyped DEF TypeInv, FilesTyped, Sync
  <2>2. /\ events' \in Seq(Event \cup {None}) /\ Len(events) <= Len(events')
        /\ DOMAIN events \subseteq DOMAIN events'
    BY <2>1, SequencedIs
  <2>3. RunsTyped'
    <3>1. ASSUME NEW p \in Flusher PROVE RunTyped(p)'
      <4>1. RunTyped(p) /\ run[p] \in RunSet
        BY DEF TypeInv, RunsTyped
      <4> QED
        BY <2>1, <2>2, <4>1 DEF RunTyped, Task, RunSet
    <3> QED
      BY <2>1, <3>1 DEF TypeInv, RunsTyped
  <2> QED
    BY <2>1, <2>2, <2>3
    DEF backend, history, TypeInv, FilesTyped, TargetsTyped, HistoryTyped
<1>2. ASSUME NEW a \in Agent, BackfillLoads(a) \/ BackfillSaves(a)
      PROVE  TypeInv'
  <2>1. UNCHANGED <<events, pc, run, backend>>
    BY <1>2 DEF BackfillLoads, BackfillSaves
  <2>2. file' \in [Agent -> StateFile] /\ held' \in [Agent -> StateFile \cup {None}]
    <3>1. CASE BackfillLoads(a)
      BY <3>1 DEF BackfillLoads, TypeInv, FilesTyped
    <3>2. CASE BackfillSaves(a)
      <4>1. held[a] \in StateFile
        BY <3>2 DEF BackfillSaves, TypeInv, FilesTyped
      <4>2. [held[a] EXCEPT !.offset = @ + 1] \in StateFile
        BY <4>1 DEF StateFile
      <4> QED
        BY <3>2, <4>2 DEF BackfillSaves, TypeInv, FilesTyped
    <3> QED
      BY <1>2, <3>1, <3>2
  <2>3. RunsTyped'
    BY <2>1 DEF TypeInv, RunsTyped, RunTyped, Task
  <2>4. HistoryTyped'
    BY <1>2, ExcuseTyped DEF BackfillLoads, BackfillSaves, TypeInv
  <2> QED
    BY <2>1, <2>2, <2>3, <2>4 DEF backend, TypeInv, FilesTyped, TargetsTyped
<1> QED
  BY <1>1, <1>2

-----------------------------------------------------------------------------
(* Types are kept *)

LEMMA StepTyped == TypeInv /\ [Next]_vars => TypeInv'
<1> SUFFICES ASSUME TypeInv, [Next]_vars PROVE TypeInv'
  OBVIOUS
<1>1. ASSUME NEW p \in Flusher,
             \/ \E a \in Agent, full \in BOOLEAN : Begin(p, a, full)
             \/ RunStep(p) \/ Abort(p)
      PROVE  TypeInv'
  BY <1>1, BeginTyped, ReadTyped, AcceptTyped, AcceptGaugesTyped, FailTyped, DoneTyped,
     EndTyped, Zenon DEF RunStep
<1>2. CASE UNCHANGED vars
  BY <1>2
  DEF vars, backend, history, TypeInv, FilesTyped, TargetsTyped, HistoryTyped, RunsTyped,
      RunTyped, Task
<1> QED
  BY <1>1, <1>2, OtherCommandsTyped DEF Next

\* EventDelivery keeps its types: what a flush holds is of the table, no target
\* stores what it refuses.
THEOREM TypeCorrect == Spec => []TypeOK
<1>1. Init => TypeInv
  BY InitTyped
<1>2. TypeInv /\ [Next]_vars => TypeInv'
  BY StepTyped
<1>3. TypeInv => TypeOK
  BY TypeInvImpliesTypeOK
<1> QED
  BY <1>1, <1>2, <1>3, PTL DEF Spec

-----------------------------------------------------------------------------
(* What only grows *)

\* Agent a has a row at k.
RowAt(a, k) == k \in DOMAIN events /\ events[k] # None /\ AgentOf[events[k]] = a

\* The table grows at its end, targets take nothing back.
Grows ==
  /\ Len(events) <= Len(events')
  /\ \A k \in DOMAIN events : events'[k] \in {events[k], None}
  /\ \A t \in Target, e \in Event : Settled(t, e) => Settled(t, e)'
  /\ \A a \in Agent, t \in Target, f \in Family : seen[a][t][f] <= seen'[a][t][f]
  /\ \A a \in Agent, k \in DOMAIN events : RowAt(a, k) => \E j \in DOMAIN events' : k <= j /\ RowAt(a, j)'

\* Posts change the targets, sync-db the table.
LEMMA NextGrows ==
  ASSUME TypeInv, TypeInv', [Next]_vars
  PROVE  Grows
<1> USE DEF TypeInv, FilesTyped, TargetsTyped
<1>1. CASE UNCHANGED <<events, backend>>
  BY <1>1 DEF Grows, backend, Settled, RowAt
<1>2. ASSUME NEW p \in Flusher, Accept(p) PROVE Grows
  BY <1>2 DEF Accept, Takes, Grows, Settled, RowAt
<1>3. ASSUME NEW p \in Flusher, Drop(p) PROVE Grows
  BY <1>3 DEF Drop, Grows, Settled, RowAt
<1>4. ASSUME NEW p \in Flusher, Posts(p, "metrics"), Gauges(p), UNCHANGED events
      PROVE  Grows
  <2>1. \A a \in Agent, t \in Target, f \in Family : seen[a][t][f] <= seen'[a][t][f]
    BY <1>4, GaugesTyped
  <2>2. UNCHANGED <<events, stored, refused, lost>>
    BY <1>4 DEF Gauges
  <2> QED
    BY <2>1, <2>2 DEF Grows, Settled, RowAt
<1>5. ASSUME NEW p \in Flusher, AcceptGauges(p) PROVE Grows
  BY <1>4, <1>5 DEF AcceptGauges
<1>6. ASSUME NEW p \in Flusher, AnswerLost(p) PROVE Grows
  <2>1. CASE Posts(p, "logs") /\ Takes(Task(p).to, Batch(p))
    BY <1>6, <2>1 DEF AnswerLost, Takes, Grows, Settled, RowAt
  <2>2. CASE Posts(p, "metrics") /\ Gauges(p)
    BY <1>4, <1>6, <2>2 DEF AnswerLost
  <2> QED
    BY <1>6, <2>1, <2>2 DEF AnswerLost
<1>7. ASSUME NEW es \in UNION {SetToSeqs(S) : S \in (SUBSET Event) \ {{}}}, Sync(es)
      PROVE  Grows
  <2>1. events \in Seq(Event \cup {None}) /\ es \in Seq(Event) /\ events' = Sequenced(es)
    BY <1>7, SyncedTyped DEF Sync
  <2>2. /\ Len(events') = Len(events) + Len(es) /\ events' \in Seq(Event \cup {None})
        /\ \A k \in 1..Len(events) :
             events'[k] = IF events[k] \in ToSet(es) THEN None ELSE events[k]
        /\ \A k \in 1..Len(es) : events'[Len(events) + k] = es[k]
    BY <2>1, SequencedIs
  <2>3. Len(events) \in Nat /\ Len(es) \in Nat /\ DOMAIN events = 1..Len(events)
        /\ DOMAIN events' = 1..(Len(events) + Len(es)) /\ DOMAIN es = 1..Len(es)
    BY <2>1, <2>2
  <2>4. ASSUME NEW a \in Agent, NEW k \in DOMAIN events, RowAt(a, k)
        PROVE  \E j \in DOMAIN events' : k <= j /\ RowAt(a, j)'
    <3>1. CASE events[k] \notin ToSet(es)
      BY <2>2, <2>3, <2>4, <3>1 DEF RowAt
    <3>2. CASE events[k] \in ToSet(es)
      <4>1. PICK i \in 1..Len(es) : es[i] = events[k]
        BY <2>3, <3>2 DEF ToSet
      <4>2. Len(events) + i \in DOMAIN events' /\ k <= Len(events) + i
        BY <2>3, <4>1
      <4>3. events'[Len(events) + i] = events[k]
        BY <2>2, <4>1
      <4> QED
        BY <2>4, <4>2, <4>3 DEF RowAt
    <3> QED
      BY <3>1, <3>2
  <2>5. UNCHANGED backend
    BY <1>7 DEF Sync
  <2> QED
    BY <2>2, <2>3, <2>4, <2>5 DEF Grows, backend, Settled
<1>8. ASSUME NEW p \in Flusher,
             \/ \E a \in Agent, full \in BOOLEAN : Begin(p, a, full)
             \/ RunStep(p) \/ Abort(p)
      PROVE  Grows
  BY <1>1, <1>2, <1>3, <1>5, <1>6, <1>8
  DEF RunStep, Begin, ReadEvents, UpToDate, ReadMax, ReadView, GiveUp, Done, MovesCursor,
      Finish, Abort
<1>9. ASSUME NEW a \in Agent, BackfillLoads(a) \/ BackfillSaves(a) PROVE Grows
  BY <1>1, <1>9 DEF BackfillLoads, BackfillSaves
<1>10. CASE UNCHANGED vars
  BY <1>1, <1>10 DEF vars
<1> QED
  BY <1>7, <1>8, <1>9, <1>10 DEF Next

-----------------------------------------------------------------------------
(* Where state files come from *)

\* The copies of a's state file: on disk, with a backfill run, with flushes.
Loaded(a) ==
  ({file[a], held[a]} \cup {run[p].st : p \in {q \in Flusher : run[q].agent = a}}) \ {None}

SameCursors(st, old) ==
  st.flush = old.flush /\ st.metrics = old.metrics /\ st.legacy = old.legacy

\* Flush p leaves its variables alone, or takes a step.
LEMMA StepsOf ==
  ASSUME TypeInv, [Next]_vars, NEW p \in Flusher
  PROVE  \/ pc'[p] = pc[p] /\ run'[p] = run[p]
         \/ \E a \in Agent, full \in BOOLEAN : Begin(p, a, full)
         \/ RunStep(p)
         \/ Abort(p)
<1>1. pc \in [Flusher -> Phases] /\ run \in [Flusher -> RunSet]
  BY DEF TypeInv, RunsTyped
<1>2. ASSUME NEW q \in Flusher \ {p},
             \/ \E a \in Agent, full \in BOOLEAN : Begin(q, a, full)
             \/ RunStep(q) \/ Abort(q)
      PROVE  pc'[p] = pc[p] /\ run'[p] = run[p]
  BY <1>1, <1>2
  DEF RunStep, Begin, Is, ReadEvents, UpToDate, ReadMax, ReadView, Accept, AcceptGauges, Drop,
      AnswerLost, GiveUp, NextTask, Done, MovesCursor, Finish, Abort
<1>3. CASE UNCHANGED vars
  BY <1>3 DEF vars
<1>4. ASSUME NEW es, Sync(es) PROVE pc'[p] = pc[p] /\ run'[p] = run[p]
  BY <1>4 DEF Sync
<1>5. ASSUME NEW a, BackfillLoads(a) \/ BackfillSaves(a)
      PROVE  pc'[p] = pc[p] /\ run'[p] = run[p]
  BY <1>5 DEF BackfillLoads, BackfillSaves
<1> QED
  BY <1>2, <1>3, <1>4, <1>5 DEF Next

\* The steps of a flush but Done keep its copy, drop it or load the file.
LEMMA RunLoads ==
  ASSUME TypeInv, [Next]_vars, NEW p \in Flusher, run'[p].st # None, ~Done(p)
  PROVE  \/ run'[p].agent = run[p].agent /\ run'[p].st = run[p].st
         \/ run'[p].agent \in Agent /\ run'[p].st = file[run'[p].agent]
<1>1. run \in [Flusher -> RunSet] /\ run[p] \in RunSet
  BY DEF TypeInv, RunsTyped
<1>2. ASSUME NEW a \in Agent, NEW full \in BOOLEAN, Begin(p, a, full)
      PROVE  run'[p].agent \in Agent /\ run'[p].st = file[run'[p].agent]
  BY <1>1, <1>2 DEF Begin, RunSet
<1>3. CASE \/ ReadEvents(p) \/ UpToDate(p) \/ ReadMax(p) \/ \E f \in Family : ReadView(p, f)
           \/ Accept(p) \/ AcceptGauges(p) \/ Drop(p) \/ NextTask(p)
  BY <1>1, <1>3
  DEF ReadEvents, UpToDate, ReadMax, ReadView, Accept, AcceptGauges, Drop, NextTask, RunSet
<1>4. CASE AnswerLost(p) \/ GiveUp(p)
  BY <1>3, <1>4 DEF AnswerLost, GiveUp
<1>5. CASE Finish(p) \/ Abort(p)
  BY <1>1, <1>5, IdleTyped DEF Finish, Abort
<1> QED
  BY <1>2, <1>3, <1>4, <1>5, StepsOf DEF RunStep

\* Only a backfill run loads for itself, and only it and a flush that ends save.
LEMMA FilesChange ==
  ASSUME [Next]_vars
  PROVE  /\ \/ file' = file
            \/ \E p \in Flusher : Finish(p)
            \/ \E a \in Agent : BackfillSaves(a)
         /\ held' = held \/ \E a \in Agent : BackfillLoads(a) \/ BackfillSaves(a)
<1>1. ASSUME NEW p \in Flusher,
             \/ \E a \in Agent, full \in BOOLEAN : Begin(p, a, full)
             \/ RunStep(p) \/ Abort(p)
      PROVE  (file' = file \/ Finish(p)) /\ held' = held
  <2>1. CASE RunStep(p)
    <3>1. CASE \/ ReadEvents(p) \/ UpToDate(p) \/ ReadMax(p) \/ \E f \in Family : ReadView(p, f)
      BY <3>1 DEF ReadEvents, UpToDate, ReadMax, ReadView
    <3>2. CASE Accept(p) \/ AcceptGauges(p) \/ Drop(p) \/ AnswerLost(p) \/ GiveUp(p)
      BY <3>2 DEF Accept, AcceptGauges, Drop, AnswerLost, GiveUp
    <3>3. CASE Done(p) \/ Finish(p)
      BY <3>3 DEF Done, MovesCursor, Finish
    <3> QED
      BY <2>1, <3>1, <3>2, <3>3 DEF RunStep
  <2> QED
    BY <1>1, <2>1 DEF Begin, Abort
<1>2. ASSUME NEW es, Sync(es) PROVE file' = file /\ held' = held
  BY <1>2 DEF Sync
<1>3. ASSUME NEW a \in Agent, BackfillLoads(a) PROVE file' = file
  BY <1>3 DEF BackfillLoads
<1>4. CASE UNCHANGED vars
  BY <1>4 DEF vars
<1> QED
  BY <1>1, <1>2, <1>3, <1>4, Zenon DEF Next

\* Every copy after a step has the cursors of one before it, or Done moved one.
LEMMA LoadedFrom ==
  ASSUME TypeInv, [Next]_vars, NEW a \in Agent, NEW st \in Loaded(a)'
  PROVE  \/ \E old \in Loaded(a) : SameCursors(st, old)
         \/ \E p \in Flusher : Done(p) /\ run'[p].agent = a /\ st = run'[p].st
<1>1. file \in [Agent -> StateFile] /\ held \in [Agent -> StateFile \cup {None}]
  BY DEF TypeInv, FilesTyped
<1>2. file[a] \in Loaded(a)
  BY <1>1, DeliveryAssumption DEF Loaded
<1>3. ASSUME st = file'[a] PROVE \E old \in Loaded(a) : SameCursors(st, old)
  <2>1. CASE file'[a] = file[a]
    BY <1>2, <1>3, <2>1 DEF SameCursors
  <2>2. ASSUME NEW p \in Flusher, Finish(p) PROVE \E old \in Loaded(a) : SameCursors(st, old)
    <3>1. CASE run[p].dirty /\ run[p].agent = a
      <4>1. st = run[p].st /\ run[p].st # None
        BY <1>1, <1>3, <2>2, <3>1, DeliveryAssumption
        DEF Finish, Is, TypeInv, RunsTyped, RunTyped
      <4> QED
        BY <3>1, <4>1 DEF Loaded, SameCursors
    <3>2. CASE ~(run[p].dirty /\ run[p].agent = a)
      BY <1>1, <2>1, <2>2, <3>2 DEF Finish
    <3> QED
      BY <3>1, <3>2
  <2>3. ASSUME NEW b \in Agent, BackfillSaves(b)
        PROVE  \E old \in Loaded(a) : SameCursors(st, old)
    <3>1. CASE b = a
      <4>1. held[a] \in Loaded(a) /\ held[a] \in StateFile
        BY <1>1, <2>3, <3>1 DEF BackfillSaves, Loaded
      <4>2. st = [held[a] EXCEPT !.offset = @ + 1]
        BY <1>1, <1>3, <2>3, <3>1 DEF BackfillSaves
      <4> QED
        BY <4>1, <4>2 DEF SameCursors, StateFile
    <3>2. CASE b # a
      BY <1>1, <2>1, <2>3, <3>2 DEF BackfillSaves
    <3> QED
      BY <3>1, <3>2
  <2>4. \/ file' = file
        \/ \E p \in Flusher : Finish(p)
        \/ \E b \in Agent : BackfillSaves(b)
    BY FilesChange
  <2> QED
    BY <2>1, <2>2, <2>3, <2>4
<1>4. ASSUME st = held'[a], st # None PROVE \E old \in Loaded(a) : SameCursors(st, old)
  <2>1. held'[a] \in {file[a], held[a], None}
    <3>1. CASE held' = held
      BY <3>1
    <3>2. ASSUME NEW b \in Agent, BackfillLoads(b) \/ BackfillSaves(b)
          PROVE  held'[a] \in {file[a], held[a], None}
      BY <1>1, <3>2 DEF BackfillLoads, BackfillSaves
    <3>3. held' = held \/ \E b \in Agent : BackfillLoads(b) \/ BackfillSaves(b)
      BY FilesChange
    <3> QED
      BY <3>1, <3>2, <3>3
  <2> QED
    BY <1>2, <1>4, <2>1 DEF Loaded, SameCursors
<1>5. ASSUME NEW p \in Flusher, run'[p].agent = a, st = run'[p].st, st # None, ~Done(p)
      PROVE  \E old \in Loaded(a) : SameCursors(st, old)
  <2>1. \/ run[p].agent = a /\ st = run[p].st
        \/ st = file[a]
    BY <1>5, RunLoads
  <2> QED
    BY <1>2, <1>5, <2>1 DEF Loaded, SameCursors
<1> QED
  BY <1>3, <1>4, <1>5 DEF Loaded

-----------------------------------------------------------------------------
(* The cursors of logs *)

\* Target t is through with a's events up to c, and c is in the table.
Covered(a, t, c) ==
  /\ c <= Len(events)
  /\ \A k \in DOMAIN events : RowAt(a, k) /\ k <= c => Settled(t, events[k])

CursorsCovered ==
  \A a \in Agent : \A st \in Loaded(a) : \A t \in Target : Covered(a, t, CursorFor(st, t))

\* Of what a flush read for a target, all is settled but what it still holds.
\* The cursor has moved when it holds nothing, so this is what the batches owe.
Sending(p) ==
  pc[p] = "send" /\ Task(p).kind = "logs" =>
    \A k \in DOMAIN events :
      RowAt(run[p].agent, k) /\ k <= run[p].last =>
        Settled(Task(p).to, events[k]) \/ \E x \in run[p].rows : x.event = events[k]

LogsInv == CursorsCovered /\ \A p \in Flusher : Sending(p)

\* A cursor is a number.
LEMMA CursorTyped ==
  ASSUME NEW st \in StateFile, NEW t \in Target
  PROVE  CursorFor(st, t) \in Nat
BY DEF CursorFor, StateFile

\* Copies of an agent's state file are state files.
LEMMA LoadedTyped ==
  ASSUME TypeInv, NEW a \in Agent
  PROVE  file[a] \in Loaded(a) /\ Loaded(a) \subseteq StateFile
BY DeliveryAssumption DEF TypeInv, FilesTyped, RunsTyped, RunSet, Loaded

\* What is covered stays covered: new rows come after, and targets keep all.
LEMMA CoveredStays ==
  ASSUME TypeInv, TypeInv', Grows,
         NEW a \in Agent, NEW t \in Target, NEW c \in Nat, Covered(a, t, c)
  PROVE  Covered(a, t, c)'
<1>1. Len(events) \in Nat /\ Len(events') \in Nat /\ Len(events) <= Len(events')
      /\ DOMAIN events = 1..Len(events) /\ DOMAIN events' = 1..Len(events')
  BY DEF TypeInv, FilesTyped, Grows
<1>2. ASSUME NEW k \in DOMAIN events', RowAt(a, k)', k <= c
      PROVE  Settled(t, events[k])' /\ events'[k] = events[k]
  <2>1. k \in DOMAIN events /\ events'[k] = events[k] /\ events[k] # None
    BY <1>1, <1>2 DEF Covered, Grows, RowAt
  <2>2. RowAt(a, k) /\ events[k] \in Event
    BY <1>2, <2>1 DEF RowAt, TypeInv, FilesTyped
  <2> QED
    BY <1>2, <2>1, <2>2 DEF Covered, Grows
<1> QED
  BY <1>1, <1>2 DEF Covered, Settled

\* At the first flush of this version the only cursor is of what was stored.
LEMMA InitLogs == Init => LogsInv
<1> SUFFICES ASSUME Init PROVE LogsInv
  OBVIOUS
<1>1. PICK n \in 0..(IF Legacy \in Target THEN Len(InitEvents) ELSE 0) :
        /\ file = [a \in Agent |-> FileOf(n)]
        /\ stored = [t \in Target |-> IF t = Legacy
                                      THEN ToSet(SubSeq(InitEvents, 1, n)) ELSE {}]
  BY DEF Init
<1>2. \A a \in Agent : Loaded(a) \subseteq {FileOf(n)}
  BY <1>1, IdleTyped DEF Init, Loaded
<1>3. ASSUME NEW a \in Agent, NEW t \in Target
      PROVE  Covered(a, t, CursorFor(FileOf(n), t))
  <2>1. CASE t = Legacy
    <3>1. n \in 0..Len(InitEvents) /\ InitEvents \in Seq(Event) /\ events = InitEvents
      BY <2>1, DeliveryAssumption DEF Init
    <3>2. CursorFor(FileOf(n), t) = n
      BY <2>1 DEF CursorFor, FileOf
    <3>3. \A k \in 1..n : events[k] \in ToSet(SubSeq(InitEvents, 1, n))
      <4> DEFINE sent == SubSeq(InitEvents, 1, n)
      <4>1. Len(sent) = n /\ \A k \in 1..n : sent[k] = InitEvents[k]
        BY <3>1
      <4>2. sent \in Seq(Event)
        BY <3>1
      <4>3. sent = SubSeq(InitEvents, 1, n)
        OBVIOUS
      <4> HIDE DEF sent
      <4>4. \A k \in 1..n : k \in DOMAIN sent
        BY <4>1, <4>2
      <4>5. \A k \in 1..n : events[k] \in ToSet(sent)
        BY <3>1, <4>1, <4>4 DEF ToSet
      <4> QED
        BY <4>3, <4>5
    <3> QED
      BY <1>1, <2>1, <3>1, <3>2, <3>3 DEF Covered, Settled
  <2>2. CASE t # Legacy
    <3>1. CursorFor(FileOf(n), t) = 0
      BY <2>2 DEF CursorFor, FileOf
    <3>2. InitEvents \in Seq(Event) /\ events = InitEvents
      BY DeliveryAssumption DEF Init
    <3> QED
      BY <3>1, <3>2 DEF Covered
  <2> QED
    BY <2>1, <2>2
<1>4. CursorsCovered
  BY <1>2, <1>3 DEF CursorsCovered
<1>5. \A p \in Flusher : Sending(p)
  BY DEF Init, Sending
<1> QED
  BY <1>4, <1>5 DEF LogsInv

\* A cursor that moves is moved to the last event read, when nothing is held.
LEMMA DoneMoves ==
  ASSUME TypeInv, NEW p \in Flusher, Done(p)
  PROVE  /\ pc[p] = "send" /\ run[p].rows = {} /\ run[p].points = <<>>
         /\ run[p].st \in Loaded(run[p].agent) /\ run[p].agent \in Agent
         /\ run'[p].agent = run[p].agent
         /\ Task(p).to \in Target /\ Task(p).kind \in {"logs", "metrics"}
         /\ run'[p].st \in StateFile
         /\ \A t \in Target :
              \/ CursorFor(run'[p].st, t) = CursorFor(run[p].st, t)
              \/ /\ t = Task(p).to /\ Task(p).kind = "logs"
                 /\ CursorFor(run'[p].st, t) = run[p].last
         /\ \A t \in Target :
              \/ run'[p].st.metrics[t] = run[p].st.metrics[t]
              \/ /\ t = Task(p).to /\ Task(p).kind = "metrics"
                 /\ run'[p].st.metrics[t] = run[p].last
<1>1. /\ run[p] \in RunSet /\ RunTyped(p) /\ pc[p] = "send"
      /\ run[p].rows = {} /\ run[p].points = <<>>
  BY DEF TypeInv, RunsTyped, Done, MovesCursor
<1>2. run[p].st \in StateFile /\ run[p].agent \in Agent /\ Task(p) \in TaskSet
  BY <1>1, PostTyped
<1>3. run[p].st \in Loaded(run[p].agent)
  BY <1>2, DeliveryAssumption DEF Loaded
<1>4. /\ run'[p].agent = run[p].agent
      /\ run'[p].st.flush = [run[p].st.flush EXCEPT
           ![Task(p).to] = IF Task(p).kind = "logs" /\ run[p].last # 0 THEN run[p].last ELSE @]
      /\ run'[p].st.metrics = [run[p].st.metrics EXCEPT
           ![Task(p).to] = IF Task(p).kind = "metrics" THEN run[p].last ELSE @]
      /\ run'[p].st.legacy = run[p].st.legacy
  BY <1>1, <1>2 DEF Done, MovesCursor, TypeInv, RunsTyped, RunSet, StateFile
<1>5. run'[p].st \in StateFile
  <2>1. TypeInv'
    BY DoneTyped
  <2>2. pc'[p] = "task"
    BY DEF Done, MovesCursor, TypeInv, RunsTyped
  <2>3. run' \in [Flusher -> RunSet] /\ run'[p].st # None
    BY <2>1, <2>2 DEF TypeInv, RunsTyped, RunTyped
  <2> QED
    BY <2>3 DEF RunSet
<1>6. run[p].last \in Nat /\ run[p].last # None
  BY <1>1, DeliveryAssumption DEF RunSet
<1>7. Task(p).to \in Target /\ Task(p).kind \in {"logs", "metrics"}
  BY <1>2 DEF TaskSet
<1>8. ASSUME NEW t \in Target
      PROVE  /\ \/ CursorFor(run'[p].st, t) = CursorFor(run[p].st, t)
                \/ /\ t = Task(p).to /\ Task(p).kind = "logs"
                   /\ CursorFor(run'[p].st, t) = run[p].last
             /\ \/ run'[p].st.metrics[t] = run[p].st.metrics[t]
                \/ /\ t = Task(p).to /\ Task(p).kind = "metrics"
                   /\ run'[p].st.metrics[t] = run[p].last
  BY <1>2, <1>4, <1>6 DEF CursorFor, StateFile
<1> QED
  BY <1>1, <1>2, <1>3, <1>4, <1>5, <1>7, <1>8

\* Cursors stay covered.
LEMMA CursorsStep ==
  ASSUME TypeInv, TypeInv', Grows, [Next]_vars, LogsInv
  PROVE  CursorsCovered'
<1>1. ASSUME NEW a \in Agent, NEW st \in Loaded(a)', NEW t \in Target
      PROVE  Covered(a, t, CursorFor(st, t))'
  <2>1. CASE \E old \in Loaded(a) : SameCursors(st, old)
    <3>1. PICK old \in Loaded(a) : SameCursors(st, old)
      BY <2>1
    <3>2. CursorFor(st, t) = CursorFor(old, t)
      BY <3>1 DEF SameCursors, CursorFor
    <3>3. CursorFor(old, t) \in Nat
      BY LoadedTyped, CursorTyped
    <3>4. Covered(a, t, CursorFor(old, t))
      BY DEF LogsInv, CursorsCovered
    <3>5. Covered(a, t, CursorFor(old, t))'
      BY <3>3, <3>4, CoveredStays DEF CursorFor
    <3> QED
      BY <3>2, <3>5
  <2>2. ASSUME NEW p \in Flusher, Done(p), run'[p].agent = a, st = run'[p].st
        PROVE  Covered(a, t, CursorFor(st, t))'
    <3>1. /\ CursorFor(st, t) \in Nat /\ run[p].agent = a
          /\ \/ CursorFor(st, t) = CursorFor(run[p].st, t) /\ run[p].st \in Loaded(a)
             \/ /\ t = Task(p).to /\ Task(p).kind = "logs" /\ pc[p] = "send"
                /\ run[p].rows = {} /\ CursorFor(st, t) = run[p].last
      BY <2>2, DoneMoves, CursorTyped
    <3>2. ASSUME CursorFor(st, t) = CursorFor(run[p].st, t), run[p].st \in Loaded(a)
          PROVE  Covered(a, t, CursorFor(st, t))
      BY <3>2 DEF LogsInv, CursorsCovered
    <3>3. ASSUME t = Task(p).to, Task(p).kind = "logs", pc[p] = "send", run[p].rows = {},
                 CursorFor(st, t) = run[p].last
          PROVE  Covered(a, t, CursorFor(st, t))
      <4>1. \A k \in DOMAIN events : RowAt(a, k) /\ k <= run[p].last => Settled(t, events[k])
        BY <3>1, <3>3 DEF LogsInv, Sending
      <4>2. run[p].last <= Len(events)
        BY DEF TypeInv, RunsTyped, RunTyped
      <4> QED
        BY <3>3, <4>1, <4>2 DEF Covered
    <3>4. PICK c \in Nat : c = CursorFor(st, t)
      BY <3>1
    <3>5. Covered(a, t, c)
      BY <3>1, <3>2, <3>3, <3>4
    <3>6. Covered(a, t, c)'
      BY <3>5, CoveredStays
    <3> QED
      BY <3>4, <3>6
  <2> QED
    BY <2>1, <2>2, LoadedFrom
<1> QED
  BY <1>1 DEF CursorsCovered

\* What a target handles it is through with.
LEMMA HandledIsSettled ==
  ASSUME TypeInv, TypeInv', NEW p \in Flusher, Accept(p) \/ Drop(p)
  PROVE  \A x \in FirstRows(p) : Settled(Task(p).to, x.event)'
<1>1. pc[p] = "send"
  BY DEF Accept, Drop, Posts, At
<1>2. Task(p).to \in Target /\ Batch(p) \subseteq Event
  BY <1>1, PostTyped DEF TaskSet
<1>3. \A x \in FirstRows(p) : x.event \in Batch(p)
  BY DEF Batch
<1>4. \A e \in Batch(p) :
        e \in stored'[Task(p).to] \cup refused'[Task(p).to] \cup lost'[Task(p).to]
  <2>1. CASE Accept(p)
    BY <1>2, <2>1 DEF Accept, Takes, TypeInv, TargetsTyped
  <2>2. CASE Drop(p)
    BY <1>2, <2>2 DEF Drop, TypeInv, TargetsTyped
  <2> QED
    BY <2>1, <2>2
<1>5. (Task(p).to)' = Task(p).to
  <2>1. run \in [Flusher -> RunSet] /\ run'[p] = [run[p] EXCEPT !.rows = @ \ FirstRows(p)]
    BY DEF Accept, Drop, TypeInv, RunsTyped
  <2> QED
    BY <2>1 DEF Task, RunSet
<1> QED
  BY <1>3, <1>4, <1>5 DEF Settled

\* A batch leaves what a flush owes to the rest, and new rows come after it.
LEMMA SendingStep ==
  ASSUME TypeInv, TypeInv', Grows, [Next]_vars, LogsInv, NEW p \in Flusher
  PROVE  Sending(p)'
<1> SUFFICES ASSUME pc'[p] = "send", (Task(p).kind)' = "logs",
                    NEW k \in DOMAIN events', RowAt(run[p].agent, k)', k <= run'[p].last
             PROVE  Settled(Task(p).to, events[k])' \/ \E x \in run'[p].rows : x.event = events'[k]
  BY DEF Sending
<1>1. /\ pc \in [Flusher -> Phases] /\ run \in [Flusher -> RunSet] /\ RunTyped(p) /\ RunTyped(p)'
      /\ Len(events) \in Nat /\ DOMAIN events = 1..Len(events)
      /\ DOMAIN events' = 1..Len(events') /\ run[p].last \in Nat
  BY DEF TypeInv, RunsTyped, FilesTyped, RunSet
<1>2. k \in DOMAIN events => events'[k] = events[k] /\ events[k] \in Event
  BY DEF Grows, RowAt, TypeInv, FilesTyped
<1>3. CASE pc'[p] = pc[p] /\ run'[p] = run[p]
  <2>1. k \in DOMAIN events
    BY <1>1, <1>3 DEF RunTyped
  <2>2. RowAt(run[p].agent, k) /\ Task(p).kind = "logs" /\ (Task(p).to)' = Task(p).to
    BY <1>2, <1>3, <2>1 DEF RowAt, Task
  <2>3. Settled(Task(p).to, events[k]) \/ \E x \in run[p].rows : x.event = events[k]
    BY <1>3, <2>1, <2>2 DEF LogsInv, Sending
  <2>4. Task(p).to \in Target
    BY <1>3, PostTyped DEF TaskSet
  <2>5. Settled(Task(p).to, events[k]) => Settled(Task(p).to, events[k])'
    BY <1>2, <2>1, <2>2, <2>4 DEF Grows, Settled
  <2> QED
    BY <1>2, <1>3, <2>1, <2>3, <2>5
<1>4. CASE ReadEvents(p)
  <2> DEFINE a    == run[p].agent
             t    == Task(p).to
             rows == Rows(a, IF run[p].full THEN 0 ELSE CursorFor(run[p].st, t))
  <2>1. /\ events' = events /\ UNCHANGED <<stored, refused, lost>>
        /\ run'[p] = [run[p] EXCEPT !.rows = {[seq |-> j, event |-> events[j]] : j \in rows},
                                    !.last = Max({0} \cup rows)]
    BY <1>1, <1>4 DEF ReadEvents, backend
  <2>2. a \in Agent /\ t \in Target /\ run[p].st \in Loaded(a) /\ run[p].st \in StateFile
    <3>1. pc[p] = "task" /\ run[p].tasks # <<>> /\ run[p].tasks \in Seq(TaskSet)
      BY <1>1, <1>4 DEF ReadEvents, At, RunSet
    <3>2. Head(run[p].tasks) \in TaskSet
      BY <3>1, TailTyped
    <3> QED
      BY <1>1, <3>1, <3>2 DEF RunTyped, RunSet, Loaded, Task, TaskSet
  <2>3. RowAt(a, k) /\ (Task(p).to)' = t
    BY <1>1, <2>1 DEF RowAt, Task, RunSet
  <2>4. CASE k \in rows
    <3> DEFINE x == [seq |-> k, event |-> events[k]]
    <3>1. run'[p].rows = {[seq |-> j, event |-> events[j]] : j \in rows}
      BY <1>1, <2>1 DEF RunSet
    <3> HIDE DEF rows
    <3>2. x \in run'[p].rows /\ x.event = events'[k]
      BY <2>1, <2>4, <3>1
    <3> QED
      BY <3>2
  <2>5. CASE k \notin rows
    <3>1. ~run[p].full /\ k <= CursorFor(run[p].st, t)
      BY <1>1, <2>1, <2>2, <2>3, <2>5, CursorTyped DEF RowAt, Rows
    <3>2. Settled(t, events[k])
      BY <2>2, <2>3, <3>1 DEF LogsInv, CursorsCovered, Covered, RowAt
    <3> QED
      BY <2>1, <2>3, <3>2 DEF Settled
  <2> QED
    BY <2>4, <2>5
<1>5. CASE Accept(p) \/ Drop(p)
  <2>1. /\ events' = events /\ pc[p] = "send"
        /\ run'[p] = [run[p] EXCEPT !.rows = @ \ FirstRows(p)]
    BY <1>1, <1>5 DEF Accept, Drop, Posts, At
  <2>2. /\ RowAt(run[p].agent, k) /\ Task(p).kind = "logs" /\ (Task(p).to)' = Task(p).to
        /\ k <= run[p].last /\ k \in DOMAIN events /\ run'[p].rows = run[p].rows \ FirstRows(p)
    BY <1>1, <2>1 DEF RowAt, Task, RunSet
  <2>3. Settled(Task(p).to, events[k]) \/ \E x \in run[p].rows : x.event = events[k]
    BY <2>1, <2>2 DEF LogsInv, Sending
  <2>4. Task(p).to \in Target
    BY <2>1, PostTyped DEF TaskSet
  <2>5. Settled(Task(p).to, events[k]) => Settled(Task(p).to, events[k])'
    BY <1>2, <2>1, <2>2, <2>4 DEF Grows, Settled
  <2>6. \A x \in FirstRows(p) : x.event = events[k] => Settled(Task(p).to, events[k])'
    BY <1>5, <2>1, HandledIsSettled DEF Settled
  <2> QED
    BY <2>1, <2>2, <2>3, <2>5, <2>6
<1>6. CASE \/ UpToDate(p) \/ NextTask(p) \/ Done(p) \/ Finish(p) \/ Abort(p)
           \/ \E a \in Agent, full \in BOOLEAN : Begin(p, a, full)
  BY <1>1, <1>6
  DEF UpToDate, At, NextTask, Done, MovesCursor, Finish, Abort, Begin, Is, Phases
<1>7. CASE ReadMax(p) \/ AcceptGauges(p) \/ \E f \in Family : ReadView(p, f)
  <2>1. run'[p].tasks = run[p].tasks /\ Task(p).kind = "metrics"
    BY <1>1, <1>7
    DEF ReadMax, AcceptGauges, Posts, ReadView, At, Is, Family, RunTyped, RunSet
  <2> QED
    BY <2>1 DEF Task
<1> QED
  BY <1>3, <1>4, <1>5, <1>6, <1>7, StepsOf DEF RunStep, AnswerLost, GiveUp

\* Nothing a cursor passes is missing at its target, whatever overlaps.
THEOREM AtLeastOnceCorrect == Spec => []AtLeastOnce
<1> DEFINE Inv == TypeInv /\ LogsInv
<1>1. Init => Inv
  BY InitTyped, InitLogs
<1>2. Inv /\ [Next]_vars => Inv'
  BY StepTyped, NextGrows, CursorsStep, SendingStep DEF LogsInv
<1>3. Inv => AtLeastOnce
  <2> SUFFICES ASSUME Inv, NEW a \in Agent, NEW t \in ToSet(LogsTargets),
                      NEW k \in Rows(a, 0), k <= CursorFor(file[a], t)
               PROVE  Settled(t, events[k])
    BY DEF AtLeastOnce
  <2>1. t \in Target
    BY DeliveryAssumption DEF ToSet
  <2>2. RowAt(a, k)
    BY DEF Rows, RowAt
  <2>3. file[a] \in Loaded(a)
    BY LoadedTyped
  <2> QED
    BY <2>1, <2>2, <2>3 DEF LogsInv, CursorsCovered, Covered, RowAt
<1> QED
  BY <1>1, <1>2, <1>3, PTL DEF Spec

-----------------------------------------------------------------------------
(* The cursors of metrics *)

\* Target t was sent what view f showed of a's events up to c, or newer.
Shown(a, t, f, c) ==
  (\E k \in DOMAIN events : RowAt(a, k) /\ k <= c /\ events[k] \in ShownBy[f])
    => c <= seen[a][t][f]

ViewsShown ==
  \A a \in Agent : \A st \in Loaded(a) : \A t \in Target :
    /\ st.metrics[t] <= Len(events)
    /\ \A f \in Family : Shown(a, t, f, st.metrics[t])

\* The views flush p has read for its metrics task.
HasRead(p) ==
  CASE pc[p] = "weekly" -> {"pr"} [] pc[p] = "send" -> Family [] OTHER -> {}

\* Each was sent at least up to the cursor to be, or is still held as it was
\* then; there still is a row at or after that cursor.
Measuring(p) ==
  LET r == run[p]
  IN  pc[p] \in {"pr", "weekly", "send"} /\ Task(p).kind = "metrics" =>
        /\ r.last = 0 \/ \E k \in DOMAIN events : r.last <= k /\ RowAt(r.agent, k)
        /\ \A f \in HasRead(p) :
             \/ Shown(r.agent, Task(p).to, f, r.last)
             \/ \E i \in DOMAIN r.points : r.points[i].family = f /\ r.last <= r.points[i].upto

GaugesInv == ViewsShown /\ \A p \in Flusher : Measuring(p)

\* What was shown stays so: new rows come after, and targets keep the newest.
LEMMA ShownStays ==
  ASSUME TypeInv, TypeInv', Grows,
         NEW a \in Agent, NEW t \in Target, NEW f \in Family, NEW c \in Nat,
         c <= Len(events), Shown(a, t, f, c)
  PROVE  Shown(a, t, f, c)'
<1>1. Len(events) \in Nat /\ Len(events') \in Nat
      /\ DOMAIN events = 1..Len(events) /\ DOMAIN events' = 1..Len(events')
  BY DEF TypeInv, FilesTyped
<1>2. seen[a][t][f] \in Nat /\ seen'[a][t][f] \in Nat /\ seen[a][t][f] <= seen'[a][t][f]
  BY DEF TypeInv, TargetsTyped, Grows
<1>3. ASSUME NEW k \in DOMAIN events', RowAt(a, k)', k <= c, events'[k] \in ShownBy[f]
      PROVE  c <= seen'[a][t][f]
  <2>1. k \in DOMAIN events /\ events'[k] = events[k]
    BY <1>1, <1>3 DEF Grows, RowAt
  <2>2. RowAt(a, k)
    BY <1>3, <2>1 DEF RowAt
  <2>3. c <= seen[a][t][f]
    BY <1>3, <2>1, <2>2 DEF Shown
  <2> QED
    BY <1>2, <2>3
<1> QED
  BY <1>3 DEF Shown

\* The first cursors are 0, before every row.
LEMMA InitGauges == Init => GaugesInv
<1> SUFFICES ASSUME Init PROVE GaugesInv
  OBVIOUS
<1>1. \A a \in Agent : \A st \in Loaded(a) : \A t \in Target : st.metrics[t] = 0
  BY IdleTyped DEF Init, Loaded, FileOf
<1>2. events \in Seq(Event)
  BY DeliveryAssumption DEF Init
<1>3. ViewsShown
  <2> SUFFICES ASSUME NEW a \in Agent, NEW st \in Loaded(a), NEW t \in Target
               PROVE  /\ st.metrics[t] <= Len(events)
                      /\ \A f \in Family : Shown(a, t, f, st.metrics[t])
    BY DEF ViewsShown
  <2>1. st.metrics[t] = 0
    BY <1>1
  <2> QED
    BY <1>2, <2>1 DEF Shown, RowAt
<1>4. \A p \in Flusher : Measuring(p)
  BY DEF Init, Measuring
<1> QED
  BY <1>3, <1>4 DEF GaugesInv

\* Cursors of metrics stay at or before what was shown.
LEMMA ViewsStep ==
  ASSUME TypeInv, TypeInv', Grows, [Next]_vars, GaugesInv
  PROVE  ViewsShown'
<1>1. ASSUME NEW a \in Agent, NEW st \in Loaded(a)', NEW t \in Target
      PROVE  \E c \in Nat : /\ st.metrics[t] = c /\ c <= Len(events)
                            /\ \A f \in Family : Shown(a, t, f, c)
  <2>1. CASE \E old \in Loaded(a) : SameCursors(st, old)
    <3>1. PICK old \in Loaded(a) : SameCursors(st, old)
      BY <2>1
    <3>2. old.metrics[t] \in Nat
      BY LoadedTyped DEF StateFile
    <3>3. old.metrics[t] <= Len(events) /\ \A f \in Family : Shown(a, t, f, old.metrics[t])
      BY DEF GaugesInv, ViewsShown
    <3> QED
      BY <3>1, <3>2, <3>3 DEF SameCursors
  <2>2. ASSUME NEW p \in Flusher, Done(p), run'[p].agent = a, st = run'[p].st
        PROVE  \E c \in Nat : /\ st.metrics[t] = c /\ c <= Len(events)
                              /\ \A f \in Family : Shown(a, t, f, c)
    <3>1. /\ st \in StateFile /\ run[p].agent = a
          /\ \/ st.metrics[t] = run[p].st.metrics[t] /\ run[p].st \in Loaded(a)
             \/ /\ t = Task(p).to /\ Task(p).kind = "metrics" /\ pc[p] = "send"
                /\ run[p].points = <<>> /\ st.metrics[t] = run[p].last
      BY <2>2, DoneMoves
    <3>2. st.metrics[t] \in Nat
      BY <3>1 DEF StateFile
    <3>3. CASE st.metrics[t] = run[p].st.metrics[t] /\ run[p].st \in Loaded(a)
      BY <3>2, <3>3 DEF GaugesInv, ViewsShown
    <3>4. CASE /\ t = Task(p).to /\ Task(p).kind = "metrics" /\ pc[p] = "send"
               /\ run[p].points = <<>> /\ st.metrics[t] = run[p].last
      <4>1. run[p].last <= Len(events)
        BY DEF TypeInv, RunsTyped, RunTyped
      <4>2. \A f \in Family : Shown(a, t, f, run[p].last)
        BY <3>1, <3>4 DEF GaugesInv, Measuring, HasRead
      <4> QED
        BY <3>2, <3>4, <4>1, <4>2
    <3> QED
      BY <3>1, <3>3, <3>4
  <2> QED
    BY <2>1, <2>2, LoadedFrom
<1>2. ASSUME NEW a \in Agent, NEW st \in Loaded(a)', NEW t \in Target
      PROVE  (st.metrics[t] <= Len(events) /\ \A f \in Family : Shown(a, t, f, st.metrics[t]))'
  <2>1. PICK c \in Nat : /\ st.metrics[t] = c /\ c <= Len(events)
                         /\ \A f \in Family : Shown(a, t, f, c)
    BY <1>1
  <2>2. Len(events) \in Nat /\ Len(events') \in Nat /\ Len(events) <= Len(events')
    BY DEF TypeInv, FilesTyped, Grows
  <2>3. \A f \in Family : Shown(a, t, f, c)'
    BY <2>1, ShownStays
  <2> QED
    BY <2>1, <2>2, <2>3
<1> QED
  BY <1>2 DEF ViewsShown

\* The last local sequence of an agent is that of a row, and none is later.
LEMMA LastSequenceIs ==
  ASSUME TypeInv, NEW a \in Agent
  PROVE  /\ LastSequence(a) \in Nat
         /\ LastSequence(a) = 0 \/ RowAt(a, LastSequence(a))
         /\ \A k \in DOMAIN events : RowAt(a, k) => k <= LastSequence(a)
<1>1. Len(events) \in Nat /\ DOMAIN events = 1..Len(events)
  BY DEF TypeInv, FilesTyped
<1>2. Rows(a, 0) \in SUBSET (0..Len(events)) /\ 0 \in Nat
  BY <1>1 DEF Rows
<1>3. \A k : k \in Rows(a, 0) <=> RowAt(a, k)
  BY <1>1 DEF Rows, RowAt
<1> HIDE DEF Rows
<1>4. /\ LastSequence(a) \in {0} \cup Rows(a, 0) /\ LastSequence(a) \in Nat
      /\ \A k \in Rows(a, 0) : k <= LastSequence(a)
  BY <1>1, <1>2, MaxWithOneMore DEF LastSequence
<1> QED
  BY <1>3, <1>4

\* A view that is read shows everything up to the cursor to be.
LEMMA ViewIsNew ==
  ASSUME TypeInv, NEW p \in Flusher, Measuring(p), Task(p).kind = "metrics",
         NEW f \in Family, ReadView(p, f), run[p].agent \in Agent,
         NEW k \in DOMAIN events, RowAt(run[p].agent, k), events[k] \in ShownBy[f]
  PROVE  \E i \in DOMAIN run'[p].points :
           run'[p].points[i].family = f /\ run[p].last <= run'[p].points[i].upto
<1> DEFINE a == run[p].agent
           x == [family |-> f, upto |-> LastSequence(a)]
<1>1. run[p] \in RunSet /\ pc[p] \in {"pr", "weekly"}
  BY DEF TypeInv, RunsTyped, ReadView, Is, Family
<1>2. run[p].last <= LastSequence(a)
  <2>1. run[p].last = 0 \/ \E j \in DOMAIN events : run[p].last <= j /\ RowAt(a, j)
    BY <1>1 DEF Measuring
  <2>2. LastSequence(a) \in Nat /\ \A j \in DOMAIN events : RowAt(a, j) => j <= LastSequence(a)
    BY LastSequenceIs
  <2>3. run[p].last \in Nat /\ \A j \in DOMAIN events : j \in Nat
    BY <1>1 DEF RunSet, TypeInv, FilesTyped
  <2> QED
    BY <2>1, <2>2, <2>3
<1>3. View(a, f) = <<x>>
  BY DEF View, Rows, RowAt, TypeInv, FilesTyped
<1>4. run'[p].points = Append(run[p].points, x)
  <2>1. run[p].points \in Seq(PointSet)
    BY <1>1 DEF RunSet
  <2>2. run'[p].points = run[p].points \o <<x>>
    BY <1>1, <1>3 DEF ReadView, TypeInv, RunsTyped, RunSet
  <2> QED
    BY <2>1, <2>2
<1>5. x.family = f /\ run[p].last <= x.upto
  BY <1>2
<1>6. run[p].points \in Seq(PointSet) /\ Len(run[p].points) \in Nat
  BY <1>1 DEF RunSet
<1> HIDE DEF x
<1>7. /\ Len(run[p].points) + 1 \in DOMAIN Append(run[p].points, x)
      /\ Append(run[p].points, x)[Len(run[p].points) + 1] = x
  BY <1>6
<1> QED
  BY <1>4, <1>5, <1>7

\* A view that is sent is shown.
LEMMA SentIsShown ==
  ASSUME TypeInv, NEW p \in Flusher, AcceptGauges(p), NEW f \in Family, NEW c \in Nat,
         \E i \in DOMAIN run[p].points :
           run[p].points[i].family = f /\ c <= run[p].points[i].upto
  PROVE  \/ c <= seen'[run[p].agent][Task(p).to][f]
         \/ \E i \in DOMAIN run'[p].points :
              run'[p].points[i].family = f /\ c <= run'[p].points[i].upto
<1> DEFINE points == run[p].points
<1>1. points \in Seq(PointSet) /\ points # <<>>
  <2>1. run[p] \in RunSet
    BY DEF TypeInv, RunsTyped
  <2> QED
    BY <2>1 DEF RunSet
<1>2. run'[p].points = Tail(points)
  BY DEF AcceptGauges, TypeInv, RunsTyped, RunSet
<1>3. PICK i \in DOMAIN points : points[i].family = f /\ c <= points[i].upto
  OBVIOUS
<1>4. CASE i = 1
  <2>1. /\ Head(points).upto <= seen'[run[p].agent][Task(p).to][Head(points).family]
        /\ TargetsTyped'
    BY GaugesTyped DEF AcceptGauges
  <2>2. Head(points) = points[i] /\ points[i].upto \in Nat
    <3> HIDE DEF points
    <3>1. Head(points) = points[i] /\ Head(points) \in PointSet
      BY <1>1, <1>4, TailTyped
    <3> QED
      BY <3>1 DEF PointSet
  <2>3. seen'[run[p].agent][Task(p).to][f] \in Nat
    <3>1. pc[p] = "send"
      BY DEF AcceptGauges, Posts, At
    <3> QED
      BY <2>1, <3>1, PostTyped DEF TargetsTyped, TaskSet
  <2> HIDE DEF points
  <2>4. points[i].upto <= seen'[run[p].agent][Task(p).to][f]
    BY <1>3, <2>1, <2>2
  <2> QED
    BY <1>3, <2>2, <2>3, <2>4
<1>5. CASE i # 1
  <2> HIDE DEF points
  <2>1. i - 1 \in DOMAIN Tail(points) /\ Tail(points)[i - 1] = points[i]
    BY <1>1, <1>3, <1>5
  <2> QED
    BY <1>2, <1>3, <2>1
<1> QED
  BY <1>4, <1>5

\* What is appended to a sequence leaves its elements in place.
LEMMA ConcatKeeps ==
  ASSUME NEW S, NEW s \in Seq(S), NEW u \in Seq(S), NEW i \in DOMAIN s
  PROVE  i \in DOMAIN (s \o u) /\ (s \o u)[i] = s[i]
OBVIOUS

\* What a flush of gauges owes, it sends before its cursor moves.
LEMMA MeasuringStep ==
  ASSUME TypeInv, TypeInv', Grows, [Next]_vars, GaugesInv, NEW p \in Flusher
  PROVE  Measuring(p)'
<1> DEFINE a == run[p].agent
           t == Task(p).to
<1>1. /\ pc \in [Flusher -> Phases] /\ run \in [Flusher -> RunSet] /\ RunTyped(p) /\ RunTyped(p)'
      /\ run[p].last \in Nat /\ run[p].last <= Len(events)
      /\ Len(events) \in Nat /\ DOMAIN events = 1..Len(events) /\ DOMAIN events' = 1..Len(events')
  BY DEF TypeInv, RunsTyped, FilesTyped, RunTyped, RunSet
<1>2. Measuring(p)
  BY DEF GaugesInv
\* Some row is at or after the cursor to be, while the run keeps it.
<1>3. ASSUME run[p].last = 0 \/ \E k \in DOMAIN events : run[p].last <= k /\ RowAt(a, k),
             run'[p].last = run[p].last, run'[p].agent = a, a \in Agent
      PROVE  run'[p].last = 0 \/ \E k \in DOMAIN events' : run'[p].last <= k /\ RowAt(run[p].agent, k)'
  <2>1. CASE run[p].last = 0
    BY <1>3, <2>1
  <2>2. ASSUME NEW k \in DOMAIN events, run[p].last <= k, RowAt(a, k)
        PROVE  \E j \in DOMAIN events' : run'[p].last <= j /\ RowAt(run[p].agent, j)'
    <3>1. PICK j \in DOMAIN events' : k <= j /\ RowAt(a, j)'
      BY <1>3, <2>2 DEF Grows
    <3>2. RowAt(run[p].agent, j)'
      BY <1>3, <3>1 DEF RowAt
    <3> QED
      BY <1>1, <1>3, <2>2, <3>1, <3>2
  <2> QED
    BY <1>3, <2>1, <2>2
<1>4. ASSUME NEW f \in Family, Shown(a, t, f, run[p].last),
             run'[p].last = run[p].last, run'[p].agent = a, (Task(p).to)' = t,
             a \in Agent, t \in Target
      PROVE  Shown(run[p].agent, Task(p).to, f, run[p].last)'
  <2>1. PICK c \in Nat : c = run[p].last
    BY <1>1
  <2>2. Shown(a, t, f, c)
    BY <1>4, <2>1
  <2>3. PICK b \in Agent, u \in Target : b = a /\ u = t
    BY <1>4
  <2>4. Shown(b, u, f, c)'
    BY <1>1, <2>1, <2>2, <2>3, ShownStays
  <2> QED
    BY <1>4, <2>1, <2>3, <2>4 DEF Shown, RowAt
<1>5. CASE pc'[p] = pc[p] /\ run'[p] = run[p]
  <2> SUFFICES ASSUME pc[p] \in {"pr", "weekly", "send"}, Task(p).kind = "metrics"
               PROVE  Measuring(p)'
    BY <1>5 DEF Measuring, Task
  <2>1. (Task(p).to)' = t /\ a \in Agent /\ t \in Target
    <3>1. Head(run[p].tasks) \in TaskSet
      BY <1>1, TailTyped DEF RunTyped, RunSet
    <3> QED
      BY <1>1, <1>5, <3>1 DEF RunTyped, Task, TaskSet
  <2> QED
    BY <1>2, <1>3, <1>4, <1>5, <2>1 DEF Measuring, HasRead, Family
<1>6. CASE ReadMax(p)
  <2>1. /\ pc'[p] = "pr" /\ run'[p].agent = a /\ run'[p].last = LastSequence(a)
        /\ events' = events /\ a \in Agent
    BY <1>1, <1>6 DEF ReadMax, At, RunTyped, RunSet
  <2>2. LastSequence(a) \in Nat /\ (LastSequence(a) = 0 \/ RowAt(a, LastSequence(a)))
    BY <2>1, LastSequenceIs
  <2>3. LastSequence(a) = 0 \/ \E k \in DOMAIN events : LastSequence(a) <= k /\ RowAt(a, k)
    BY <1>1, <2>1, <2>2 DEF RowAt
  <2>4. run'[p].last = 0 \/ \E k \in DOMAIN events' : run'[p].last <= k /\ RowAt(run[p].agent, k)'
    BY <2>1, <2>2, <2>3 DEF RowAt
  <2> QED
    BY <2>1, <2>4 DEF Measuring, HasRead
<1>7. ASSUME NEW f \in Family, ReadView(p, f) PROVE Measuring(p)'
  <2>1. /\ pc[p] = f /\ pc[p] \in {"pr", "weekly"}
        /\ pc'[p] = IF f = "pr" THEN "weekly" ELSE "send"
        /\ run'[p] = [run[p] EXCEPT !.points = @ \o View(a, f)] /\ UNCHANGED <<events, backend>>
    BY <1>1, <1>7 DEF ReadView, Is, Family
  <2>2. /\ run'[p].agent = a /\ run'[p].last = run[p].last /\ run'[p].tasks = run[p].tasks
        /\ run'[p].points = run[p].points \o View(a, f) /\ a \in Agent /\ Task(p).kind = "metrics"
    BY <1>1, <2>1 DEF RunTyped, RunSet
  <2>3. (Task(p).to)' = t /\ t \in Target
    <3>1. Head(run[p].tasks) \in TaskSet
      BY <1>1, <2>1, TailTyped DEF RunTyped, RunSet
    <3> QED
      BY <2>2, <3>1 DEF Task, TaskSet
  <2>4. ASSUME NEW g \in HasRead(p)
        PROVE  \/ Shown(run[p].agent, Task(p).to, g, run[p].last)'
               \/ \E i \in DOMAIN run'[p].points :
                    run'[p].points[i].family = g /\ run'[p].last <= run'[p].points[i].upto
    <3>1. g \in Family
      BY DEF HasRead, Family
    <3>2. CASE Shown(a, t, g, run[p].last)
      BY <1>4, <2>2, <2>3, <3>1, <3>2
    <3>3. ASSUME NEW i \in DOMAIN run[p].points,
                 run[p].points[i].family = g, run[p].last <= run[p].points[i].upto
          PROVE  \E j \in DOMAIN run'[p].points :
                    run'[p].points[j].family = g /\ run'[p].last <= run'[p].points[j].upto
      <4>1. run[p].points \in Seq(PointSet)
        BY <1>1 DEF RunSet
      <4>2. View(a, f) \in Seq(PointSet)
        <5>1. LastSequence(a) \in Nat
          BY <2>2, LastSequenceIs
        <5>2. [family |-> f, upto |-> LastSequence(a)] \in PointSet
          BY <5>1 DEF PointSet
        <5> QED
          BY <5>2 DEF View
      <4>3. i \in DOMAIN run'[p].points /\ run'[p].points[i] = run[p].points[i]
        <5>1. PICK points, more : points = run[p].points /\ more = View(a, f)
          OBVIOUS
        <5>2. i \in DOMAIN (points \o more) /\ (points \o more)[i] = points[i]
          BY <3>3, <4>1, <4>2, <5>1, ConcatKeeps
        <5> QED
          BY <2>2, <5>1, <5>2
      <4> QED
        BY <2>2, <3>3, <4>3
    <3> QED
      BY <1>2, <2>1, <2>2, <3>2, <3>3 DEF Measuring
  <2>5. \/ Shown(run[p].agent, Task(p).to, f, run[p].last)'
        \/ \E i \in DOMAIN run'[p].points :
             run'[p].points[i].family = f /\ run'[p].last <= run'[p].points[i].upto
    <3>1. CASE \E k \in DOMAIN events : RowAt(a, k) /\ events[k] \in ShownBy[f]
      BY <1>2, <1>7, <2>2, <3>1, ViewIsNew
    <3>2. CASE ~\E k \in DOMAIN events : RowAt(a, k) /\ events[k] \in ShownBy[f]
      BY <2>1, <2>2, <3>2 DEF Shown, RowAt
    <3> QED
      BY <3>1, <3>2
  <2>6. HasRead(p)' \subseteq HasRead(p) \cup {f}
    BY <2>1 DEF HasRead, Family
  <2>7. run'[p].last = 0 \/ \E k \in DOMAIN events' : run'[p].last <= k /\ RowAt(run[p].agent, k)'
    BY <1>2, <1>3, <2>1, <2>2 DEF Measuring
  <2> QED
    BY <2>4, <2>5, <2>6, <2>7 DEF Measuring
<1>8. CASE AcceptGauges(p)
  <2>1. /\ pc[p] = "send" /\ pc'[p] = "send" /\ Task(p).kind = "metrics"
        /\ run'[p] = [run[p] EXCEPT !.points = Tail(@)]
    BY <1>1, <1>8 DEF AcceptGauges, Posts, At
  <2>2. run'[p].agent = a /\ run'[p].last = run[p].last /\ run'[p].tasks = run[p].tasks
    BY <1>1, <2>1 DEF RunSet
  <2>3. (Task(p).to)' = t /\ a \in Agent /\ t \in Target
    BY <2>1, <2>2, PostTyped DEF Task, TaskSet
  <2>4. ASSUME NEW f \in Family
        PROVE  \/ Shown(run[p].agent, Task(p).to, f, run[p].last)'
               \/ \E i \in DOMAIN run'[p].points :
                    run'[p].points[i].family = f /\ run'[p].last <= run'[p].points[i].upto
    <3>1. CASE Shown(a, t, f, run[p].last)
      BY <1>4, <2>2, <2>3, <3>1
    <3>2. CASE \E i \in DOMAIN run[p].points :
                 run[p].points[i].family = f /\ run[p].last <= run[p].points[i].upto
      <4>1. \/ run[p].last <= seen'[a][t][f]
            \/ \E i \in DOMAIN run'[p].points :
                 run'[p].points[i].family = f /\ run[p].last <= run'[p].points[i].upto
        BY <1>1, <1>8, <3>2, SentIsShown
      <4> QED
        BY <2>2, <2>3, <4>1 DEF Shown
    <3> QED
      BY <1>2, <2>1, <3>1, <3>2 DEF Measuring, HasRead
  <2>5. run'[p].last = 0 \/ \E k \in DOMAIN events' : run'[p].last <= k /\ RowAt(run[p].agent, k)'
    BY <1>2, <1>3, <2>1, <2>2, <2>3 DEF Measuring
  <2> QED
    BY <2>1, <2>4, <2>5 DEF Measuring, HasRead
<1>9. CASE ReadEvents(p) \/ Accept(p) \/ Drop(p)
  <2>1. run'[p].tasks = run[p].tasks /\ Task(p).kind = "logs"
    BY <1>1, <1>9 DEF ReadEvents, Accept, Drop, Posts, At, RunSet
  <2> QED
    BY <2>1 DEF Measuring, Task
<1>10. CASE \/ UpToDate(p) \/ NextTask(p) \/ Done(p) \/ Finish(p) \/ Abort(p)
            \/ \E b \in Agent, full \in BOOLEAN : Begin(p, b, full)
  BY <1>1, <1>10
  DEF UpToDate, At, NextTask, Done, MovesCursor, Finish, Abort, Begin, Is, Measuring
<1> QED
  BY <1>5, <1>6, <1>7, <1>8, <1>9, <1>10, StepsOf DEF RunStep, AnswerLost, GiveUp

\* No metrics cursor passes what its target was shown, whatever overlaps.
THEOREM GaugesCorrect == Spec => []GaugesAtLeastOnce
<1> DEFINE Inv == TypeInv /\ GaugesInv
<1>1. Init => Inv
  BY InitTyped, InitGauges
<1>2. Inv /\ [Next]_vars => Inv'
  BY StepTyped, NextGrows, ViewsStep, MeasuringStep DEF GaugesInv
<1>3. Inv => GaugesAtLeastOnce
  <2> SUFFICES ASSUME Inv, NEW a \in Agent, NEW t \in ToSet(MetricsTargets), NEW f \in Family,
                      NEW k \in Rows(a, 0), k <= file[a].metrics[t], events[k] \in ShownBy[f]
               PROVE  seen[a][t][f] >= file[a].metrics[t]
    BY DEF GaugesAtLeastOnce
  <2>1. t \in Target
    BY DeliveryAssumption DEF ToSet
  <2>2. RowAt(a, k)
    BY DEF Rows, RowAt
  <2>3. file[a] \in Loaded(a)
    BY LoadedTyped
  <2>4. file[a].metrics[t] <= seen[a][t][f]
    BY <2>1, <2>2, <2>3 DEF GaugesInv, ViewsShown, Shown, RowAt
  <2>5. file[a].metrics[t] \in Nat /\ seen[a][t][f] \in Nat
    BY <2>1 DEF TypeInv, FilesTyped, TargetsTyped, StateFile
  <2> QED
    BY <2>4, <2>5
<1> QED
  BY <1>1, <1>2, <1>3, PTL DEF Spec

-----------------------------------------------------------------------------
(* Batches of rows *)

\* What a flush read and has not sent: rows of different numbers up to the last.
RowsRead(p) ==
  /\ IsFiniteSet(run[p].rows)
  /\ \A x, y \in run[p].rows : x.seq = y.seq => x = y
  /\ \A x \in run[p].rows : x.seq <= run[p].last

\* While rows are left there is a batch, and it is before the rest.
LEMMA FirstRowsAre ==
  ASSUME NEW p \in Flusher, run[p] \in RunSet, RowsRead(p)
  PROVE  /\ run[p].rows # {} => FirstRows(p) # {}
         /\ \A x \in FirstRows(p), y \in run[p].rows \ FirstRows(p) : x.seq < y.seq
<1> DEFINE R == run[p].rows
           UpTo(x) == {y \in R : y.seq <= x.seq}
<1>1. R \subseteq RowSet /\ \A x \in R : x.seq \in Nat
  BY DEF RunSet, RowSet
<1>2. FirstRows(p) = {x \in R : Cardinality(UpTo(x)) <= BatchSize}
  BY DEF FirstRows
<1>3. \A x \in R : IsFiniteSet(UpTo(x)) /\ Cardinality(UpTo(x)) \in Nat
  BY FS_Subset, FS_CardinalityType DEF RowsRead
<1>4. ASSUME R # {} PROVE FirstRows(p) # {}
  <2> DEFINE S == {x.seq : x \in R}
  <2>1. S \in SUBSET Nat /\ S # {}
    BY <1>1, <1>4
  <2>2. PICK m \in S : \A x \in S : m <= x
    BY <2>1, LeastNumber
  <2>3. PICK x \in R : x.seq = m
    OBVIOUS
  <2>4. \A y \in R : y.seq <= x.seq => y = x
    <3>1. \A y \in R : x.seq <= y.seq
      BY <2>2, <2>3
    <3>2. \A y \in R : y.seq <= x.seq => y.seq = x.seq
      BY <1>1, <3>1
    <3> QED
      BY <3>2 DEF RowsRead
  <2>5. UpTo(x) = {x}
    BY <1>1, <2>4
  <2>6. Cardinality(UpTo(x)) = 1
    BY <2>5, FS_Singleton
  <2> QED
    BY <1>2, <2>6, DeliveryAssumption
<1>5. ASSUME NEW x \in FirstRows(p), NEW y \in R \ FirstRows(p) PROVE x.seq < y.seq
  <2> SUFFICES ASSUME y.seq <= x.seq PROVE FALSE
    BY <1>1, <1>2
  <2>1. x \in R /\ UpTo(y) \subseteq UpTo(x)
    BY <1>1, <1>2
  <2>2. Cardinality(UpTo(y)) <= Cardinality(UpTo(x))
    BY <1>3, <2>1, FS_Subset
  <2>3. Cardinality(UpTo(x)) <= BatchSize
    BY <1>2
  <2>4. Cardinality(UpTo(y)) <= BatchSize
    <3> HIDE DEF UpTo, R
    <3> QED
      BY <1>3, <2>1, <2>2, <2>3, DeliveryAssumption
  <2> QED
    BY <1>2, <2>4
<1> QED
  BY <1>4, <1>5

\* A batch of logs is of rows that are there, and has a first.
LEMMA BatchIs ==
  ASSUME TypeInv, NEW p \in Flusher, RowsRead(p), Posts(p, "logs")
  PROVE  /\ Sequences(p) # {} /\ Min(Sequences(p)) \in Sequences(p)
         /\ \A k \in Sequences(p) : \E x \in run[p].rows : x.seq = k
         /\ \A k \in Sequences(p), y \in run[p].rows \ FirstRows(p) : k < y.seq
<1>1. run[p] \in RunSet /\ RunTyped(p) /\ pc[p] = "send" /\ Task(p).kind = "logs"
  BY DEF TypeInv, RunsTyped, Posts, At
<1>2. run[p].rows # {}
  BY <1>1 DEF Posts, RunTyped
<1>3. FirstRows(p) # {} /\ FirstRows(p) \subseteq run[p].rows
  BY <1>1, <1>2, FirstRowsAre, PostTyped
<1>4. Sequences(p) # {} /\ Sequences(p) \in SUBSET Nat
  BY <1>1, <1>3, PostTyped DEF Sequences
<1>5. PICK m \in Sequences(p) : \A x \in Sequences(p) : m <= x
  BY <1>4, LeastNumber
<1>6. Min(Sequences(p)) \in Sequences(p)
  BY <1>5 DEF Min
<1>7. \A k \in Sequences(p), y \in run[p].rows \ FirstRows(p) : k < y.seq
  BY <1>1, FirstRowsAre DEF Sequences
<1> QED
  BY <1>3, <1>4, <1>6, <1>7 DEF Sequences
-----------------------------------------------------------------------------
(* No row twice *)

\* All rows up to n are behind flush p at target t: its cursor, or the last row
\* it read and is sending, is at or past n, and what it has left is later.
Behind(p, t, n) ==
  IF pc[p] = "send" /\ Task(p).kind = "logs" /\ Task(p).to = t /\ run[p].last # 0
  THEN n <= run[p].last /\ \A x \in run[p].rows : n < x.seq
  ELSE n <= CursorFor(run[p].st, t)

\* Flush p of agent a is the only one, and has the cursors of the file until it
\* moves one.
Alone(p, a, t) ==
  /\ \A q \in Flusher : run[q].agent = a => q = p
  /\ ~run[p].full
  /\ run[p].dirty \/ run[p].st.flush = file[a].flush
  /\ Behind(p, t, posted[a][t])

\* As long as target t should not be sent a row of agent a again.
InStep(a, t) ==
  posted[a][t] # None =>
    /\ \A p \in Flusher : run[p].agent = a => Alone(p, a, t)
    /\ (\A p \in Flusher : run[p].agent # a) => posted[a][t] <= CursorFor(file[a], t)

\* The cursor of the old version is the same in all copies of a state file.
LegacySame == \A a \in Agent : \A st \in Loaded(a) : st.legacy = file[a].legacy

RunsRead ==
  \A p \in Flusher : RowsRead(p) /\ (pc[p] = "idle" => run[p] = IdleRun)

SentInv ==
  SentOnce /\ LegacySame /\ RunsRead /\ \A a \in Agent, t \in Target : InStep(a, t)

LEMMA InitSent == Init => SentInv
<1> SUFFICES ASSUME Init PROVE SentInv
  OBVIOUS
<1>1. /\ run = [p \in Flusher |-> IdleRun] /\ pc = [p \in Flusher |-> "idle"]
      /\ held = [a \in Agent |-> None] /\ again = {}
      /\ posted = [a \in Agent |-> [t \in Target |-> 0]]
      /\ TypeInv
  BY InitTyped DEF Init
<1>2. RunsRead
  BY <1>1, IdleTyped, FS_EmptySet DEF RunsRead, RowsRead
<1>3. LegacySame
  <2>1. \A a \in Agent : Loaded(a) \subseteq {file[a]}
    BY <1>1, DeliveryAssumption DEF Loaded, IdleRun
  <2> QED
    BY <2>1 DEF LegacySame
<1>4. ASSUME NEW a \in Agent, NEW t \in Target PROVE InStep(a, t)
  <2>1. \A p \in Flusher : run[p].agent # a
    BY <1>1, DeliveryAssumption DEF IdleRun
  <2>2. CursorFor(file[a], t) \in Nat
    BY <1>1, CursorTyped DEF TypeInv, FilesTyped
  <2> QED
    BY <1>1, <2>1, <2>2 DEF InStep
<1> QED
  BY <1>1, <1>2, <1>3, <1>4 DEF SentInv, SentOnce

\* No step changes the old cursor of a copy.
LEMMA LegacyStep ==
  ASSUME TypeInv, TypeInv', [Next]_vars, LegacySame
  PROVE  LegacySame'
<1>1. ASSUME NEW a \in Agent, NEW st \in Loaded(a)' PROVE st.legacy = file[a].legacy
  <2>1. ASSUME NEW p \in Flusher, Done(p), run'[p].agent = a, st = run'[p].st
        PROVE  st.legacy = file[a].legacy
    <3>1. run[p] \in RunSet /\ RunTyped(p) /\ pc[p] = "send"
      BY <2>1 DEF TypeInv, RunsTyped, Done, MovesCursor
    <3>2. run[p].agent = a /\ run[p].st \in StateFile
      BY <2>1, <3>1 DEF Done, MovesCursor, TypeInv, RunsTyped, RunSet, RunTyped
    <3>3. run[p].st \in Loaded(a)
      BY <3>2, DeliveryAssumption DEF Loaded
    <3>4. st.legacy = run[p].st.legacy
      BY <2>1, <3>1, <3>2 DEF Done, MovesCursor, TypeInv, RunsTyped, RunSet, StateFile
    <3> QED
      BY <3>3, <3>4 DEF LegacySame
  <2> QED
    BY <2>1, LoadedFrom DEF SameCursors, LegacySame
<1>2. ASSUME NEW a \in Agent PROVE file'[a] \in Loaded(a)'
  BY <1>2, LoadedTyped, DeliveryAssumption DEF Loaded, TypeInv, FilesTyped
<1> QED
  BY <1>1, <1>2 DEF LegacySame

\* What a flush reads, and what is left of it, differs in its numbers.
LEMMA RunsStep ==
  ASSUME TypeInv, TypeInv', [Next]_vars, RunsRead
  PROVE  RunsRead'
<1> SUFFICES ASSUME NEW p \in Flusher
             PROVE  RowsRead(p)' /\ (pc'[p] = "idle" => run'[p] = IdleRun)
  BY DEF RunsRead
<1>1. /\ pc \in [Flusher -> Phases] /\ run \in [Flusher -> RunSet] /\ run[p] \in RunSet
      /\ RunTyped(p) /\ RowsRead(p) /\ (pc[p] = "idle" => run[p] = IdleRun)
  BY DEF TypeInv, RunsTyped, RunsRead
<1>2. ASSUME run'[p].rows \subseteq run[p].rows, run'[p].last = run[p].last \/ run'[p].rows = {}
      PROVE  RowsRead(p)'
  BY <1>1, <1>2, FS_Subset DEF RowsRead
<1>3. CASE pc'[p] = pc[p] /\ run'[p] = run[p]
  BY <1>1, <1>3 DEF RowsRead
<1>4. ASSUME NEW a \in Agent, NEW full \in BOOLEAN, Begin(p, a, full)
      PROVE  RowsRead(p)' /\ pc'[p] # "idle"
  BY <1>1, <1>2, <1>4 DEF Begin, Is, RunSet
<1>5. CASE ReadEvents(p)
  <2> DEFINE rows == Rows(run[p].agent, IF run[p].full THEN 0 ELSE CursorFor(run[p].st, Task(p).to))
             held_ == {[seq |-> k, event |-> events[k]] : k \in rows}
  <2>1. run'[p] = [run[p] EXCEPT !.rows = held_, !.last = Max({0} \cup rows)] /\ pc'[p] = "send"
    BY <1>1, <1>5 DEF ReadEvents
  <2>2. Len(events) \in Nat /\ rows \in SUBSET (0..Len(events)) /\ IsFiniteSet(rows)
    <3>1. Len(events) \in Nat /\ rows \subseteq 0..Len(events)
      BY DEF Rows, TypeInv, FilesTyped
    <3>2. IsFiniteSet(0..Len(events))
      BY <3>1, FS_Interval
    <3> QED
      BY <3>1, <3>2, FS_Subset
  <2> HIDE DEF rows
  <2>3. \A k \in rows : k <= Max({0} \cup rows)
    BY <2>2, MaxWithOneMore
  <2>4. IsFiniteSet(held_)
    <3> DEFINE f == [k \in rows |-> [seq |-> k, event |-> events[k]]]
    <3>1. f \in Surjection(rows, held_)
      BY Zenon DEF Surjection
    <3> QED
      BY <2>2, <3>1, FS_Surjection
  <2>5. run'[p].rows = held_ /\ run'[p].last = Max({0} \cup rows)
    BY <1>1, <2>1 DEF RunSet
  <2> QED
    BY <2>1, <2>3, <2>4, <2>5 DEF RowsRead
<1>6. CASE UpToDate(p) \/ ReadMax(p) \/ \E f \in Family : ReadView(p, f)
  <2>1. pc'[p] # "idle" /\ run'[p].rows = run[p].rows /\ run[p].rows = {}
    BY <1>1, <1>6 DEF UpToDate, ReadMax, ReadView, At, Is, Family, RunSet, RunTyped
  <2> QED
    BY <1>2, <2>1
<1>7. CASE Accept(p) \/ AcceptGauges(p) \/ Drop(p)
  <2>1. pc'[p] # "idle"
    BY <1>1, <1>7 DEF Accept, AcceptGauges, Drop, Posts, At
  <2>2. /\ run'[p].rows \subseteq run[p].rows
        /\ run'[p].last = run[p].last
    <3>1. run'[p] \in {[run[p] EXCEPT !.rows = @ \ FirstRows(p)], [run[p] EXCEPT !.points = Tail(@)]}
      BY <1>1, <1>7 DEF Accept, AcceptGauges, Drop
    <3> QED
      BY <1>1, <3>1 DEF RunSet
  <2> QED
    BY <1>2, <2>1, <2>2
<1>8. CASE NextTask(p) \/ Done(p)
  <2>1. pc'[p] = "task"
    BY <1>1, <1>8 DEF NextTask, Done, MovesCursor
  <2>2. run'[p].rows = {}
    BY <1>1, <2>1, DeliveryAssumption DEF TypeInv, RunsTyped, RunTyped
  <2> QED
    BY <1>2, <2>1, <2>2
<1>9. CASE Finish(p) \/ Abort(p)
  <2>1. run'[p] = IdleRun
    BY <1>1, <1>9 DEF Finish, Abort
  <2> QED
    BY <1>2, <2>1, IdleTyped
<1> QED
  BY <1>3, <1>4, <1>5, <1>6, <1>7, <1>8, <1>9, StepsOf DEF RunStep, AnswerLost, GiveUp
\* A flush has an agent and tasks typed while it is not idle.
LEMMA BusyTyped ==
  ASSUME TypeInv, NEW p \in Flusher, pc[p] # "idle"
  PROVE  /\ run[p] \in RunSet /\ RunTyped(p) /\ run[p].agent \in Agent /\ run[p].st \in StateFile
         /\ run[p].tasks # <<>> => Task(p) \in TaskSet
BY DEF TypeInv, RunsTyped, RunTyped, RunSet, Task

\* A step of flush p of agent a that neither starts nor ends it.
GoesOn(p, a) ==
  /\ run[p].agent = a /\ run'[p].agent = a /\ run'[p].full = run[p].full
  /\ \A q \in Flusher \ {p} : pc'[q] = pc[q] /\ run'[q] = run[q]
  /\ file' = file
  /\ run'[p].dirty \/ (run'[p].dirty = run[p].dirty /\ run'[p].st.flush = run[p].st.flush)
  /\ \A b \in Agent \ {a}, t \in Target : posted'[b][t] \in {posted[b][t], None}

\* It keeps all in step if it stays in front of what its targets took.
LEMMA GoesOnInStep ==
  ASSUME NEW p \in Flusher, NEW a \in Agent, GoesOn(p, a),
         \A b \in Agent, t \in Target : InStep(b, t),
         \A t \in Target : posted'[a][t] # None =>
           posted[a][t] # None /\ (Alone(p, a, t) => Behind(p, t, posted[a][t])')
  PROVE  \A b \in Agent, t \in Target : InStep(b, t)'
<1> SUFFICES ASSUME NEW b \in Agent, NEW t \in Target PROVE InStep(b, t)'
  OBVIOUS
<1>1. \A q \in Flusher : run'[q].agent = run[q].agent
  BY DEF GoesOn
<1>2. CASE b = a
  <2> SUFFICES ASSUME posted'[a][t] # None
               PROVE  \A q \in Flusher : run'[q].agent = a => Alone(q, a, t)'
    BY <1>2 DEF InStep, GoesOn
  <2>1. Alone(p, a, t)
    BY DEF InStep, GoesOn
  <2>2. Alone(p, a, t)'
    BY <1>1, <2>1 DEF Alone, GoesOn
  <2> QED
    BY <1>1, <2>1, <2>2 DEF Alone
<1>3. CASE b # a
  <2> SUFFICES ASSUME posted'[b][t] # None
               PROVE  /\ \A q \in Flusher : run'[q].agent = b => Alone(q, b, t)'
                      /\ (\A q \in Flusher : run'[q].agent # b) => posted'[b][t] <= CursorFor(file[b], t)'
    BY DEF InStep
  <2>1. posted'[b][t] = posted[b][t] /\ InStep(b, t)
    BY <1>3 DEF GoesOn
  <2>2. ASSUME NEW q \in Flusher, run'[q].agent = b PROVE Alone(q, b, t)'
    <3>1. pc'[q] = pc[q] /\ run'[q] = run[q] /\ Alone(q, b, t)
      BY <1>1, <1>3, <2>1, <2>2 DEF GoesOn, InStep
    <3> QED
      BY <1>1, <2>1, <3>1 DEF GoesOn, Alone, Behind, Task, CursorFor
  <2>3. (\A q \in Flusher : run'[q].agent # b) => posted'[b][t] <= CursorFor(file[b], t)'
    BY <1>1, <2>1 DEF InStep, GoesOn, CursorFor
  <2> QED
    BY <2>2, <2>3
<1> QED
  BY <1>2, <1>3

\* A row that a flush holds has a number, so it read a last one.
LEMMA HoldingIsSending ==
  ASSUME TypeInv, NEW p \in Flusher, RowsRead(p), run[p].rows # {}
  PROVE  run[p].last # 0
<1>1. PICK x \in run[p].rows : x.seq \in DOMAIN events /\ x.seq <= run[p].last
  BY DEF TypeInv, RunsTyped, RunTyped, RowsRead
<1>2. x.seq \in Nat /\ x.seq > 0
  BY <1>1 DEF TypeInv, FilesTyped
<1> QED
  BY <1>1, <1>2

\* What is posted is later than all its target took.
LEMMA PostIsLater ==
  ASSUME TypeInv, NEW p \in Flusher, RowsRead(p), Posts(p, "logs"),
         NEW a \in Agent, run[p].agent = a, InStep(a, Task(p).to), posted[a][Task(p).to] # None
  PROVE  /\ \A x \in run[p].rows : posted[a][Task(p).to] < x.seq
         /\ posted[a][Task(p).to] <= run[p].last
         /\ run[p].last # 0
         /\ Min(Sequences(p)) > posted[a][Task(p).to]
<1>1. run[p] \in RunSet /\ RunTyped(p) /\ pc[p] = "send" /\ Task(p).kind = "logs"
      /\ Task(p).to \in Target /\ run[p].rows # {}
  BY PostTyped DEF TypeInv, RunsTyped, Posts, At, RunTyped, TaskSet
<1>2. run[p].last # 0
  BY <1>1, HoldingIsSending
<1>3. Behind(p, Task(p).to, posted[a][Task(p).to])
  BY DEF InStep, Alone
<1>4. /\ \A x \in run[p].rows : posted[a][Task(p).to] < x.seq
      /\ posted[a][Task(p).to] <= run[p].last
  BY <1>1, <1>2, <1>3 DEF Behind
<1>5. posted[a][Task(p).to] \in Nat
  BY <1>1 DEF TypeInv, HistoryTyped
<1>6. PICK x \in run[p].rows : x.seq = Min(Sequences(p))
  BY BatchIs
<1>7. x.seq \in Nat
  BY <1>1, <1>6 DEF RunSet, RowSet
<1> QED
  BY <1>2, <1>4, <1>5, <1>6, <1>7

\* So nothing is sent twice.
LEMMA AgainStep ==
  ASSUME TypeInv, [Next]_vars, SentInv
  PROVE  again' = {}
<1>1. ASSUME NEW p \in Flusher, Posts(p, "logs"), Again(p, Task(p).to) PROVE again' = {}
  <2>1. /\ RowsRead(p) /\ run[p].agent \in Agent /\ Task(p).to \in Target /\ again = {}
    BY <1>1, PostTyped DEF SentInv, SentOnce, RunsRead, Posts, At, TaskSet
  <2>2. posted[run[p].agent][Task(p).to] # None =>
          Min(Sequences(p)) > posted[run[p].agent][Task(p).to]
    BY <1>1, <2>1, PostIsLater DEF SentInv
  <2> QED
    BY <1>1, <2>1, <2>2 DEF Again
<1>2. ASSUME NEW p \in Flusher,
             \/ \E a \in Agent, full \in BOOLEAN : Begin(p, a, full)
             \/ RunStep(p) \/ Abort(p)
      PROVE  again' = {}
  <2>1. again = {}
    BY DEF SentInv, SentOnce
  <2>2. CASE Accept(p) \/ AnswerLost(p)
    BY <1>1, <2>1, <2>2 DEF Accept, AnswerLost
  <2>3. CASE ~(Accept(p) \/ AnswerLost(p))
    BY <1>2, <2>1, <2>3
    DEF RunStep, Begin, ReadEvents, UpToDate, ReadMax, ReadView, AcceptGauges, Drop, GiveUp,
        Done, MovesCursor, Finish, Abort, Excuse, history
  <2> QED
    BY <2>2, <2>3
<1>3. ASSUME \/ \E es \in UNION {SetToSeqs(S) : S \in (SUBSET Event) \ {{}}} : Sync(es)
             \/ \E a \in Agent : BackfillLoads(a) \/ BackfillSaves(a)
             \/ UNCHANGED vars
      PROVE  again' = {}
  BY <1>3 DEF Sync, BackfillLoads, BackfillSaves, Excuse, history, vars, SentInv, SentOnce
<1> QED
  BY <1>2, <1>3 DEF Next
\* Steps that leave what a flush posts and its copy of the file alone.
LEMMA QuietInStep ==
  ASSUME TypeInv, RunsRead, \A b \in Agent, t \in Target : InStep(b, t), NEW p \in Flusher,
         \/ UpToDate(p) \/ ReadMax(p) \/ \E f \in Family : ReadView(p, f)
         \/ AcceptGauges(p) \/ Drop(p)
  PROVE  \A b \in Agent, t \in Target : InStep(b, t)'
<1>1. pc \in [Flusher -> Phases] /\ run \in [Flusher -> RunSet] /\ pc[p] # "idle"
  BY DEF TypeInv, RunsTyped, UpToDate, ReadMax, ReadView, AcceptGauges, Drop, Posts, At, Is, Family
<1>2. PICK a \in Agent : a = run[p].agent
  BY <1>1, BusyTyped
<1>3. run[p] \in RunSet /\ RunTyped(p)
  BY <1>1, BusyTyped
<1>4. /\ \A q \in Flusher \ {p} : pc'[q] = pc[q] /\ run'[q] = run[q]
      /\ file' = file /\ posted' = posted
  BY <1>1 DEF UpToDate, ReadMax, ReadView, AcceptGauges, Drop, At, Is, Posts, history
<1>5. /\ run'[p].agent = run[p].agent /\ run'[p].full = run[p].full
      /\ run'[p].dirty = run[p].dirty /\ run'[p].st = run[p].st
  BY <1>1, <1>3 DEF UpToDate, ReadMax, ReadView, AcceptGauges, Drop, RunSet
<1>6. GoesOn(p, a)
  BY <1>2, <1>4, <1>5 DEF GoesOn
<1>7. ASSUME NEW t \in Target, NEW n, Behind(p, t, n) PROVE Behind(p, t, n)'
  <2>1. CursorFor(run[p].st, t)' = CursorFor(run[p].st, t)
    BY <1>5 DEF CursorFor
  <2>2. CASE Drop(p)
    <3>1. /\ pc'[p] = pc[p] /\ run'[p].tasks = run[p].tasks /\ run'[p].last = run[p].last
          /\ run'[p].rows \subseteq run[p].rows
      BY <1>1, <1>3, <2>2 DEF Drop, RunSet
    <3> QED
      BY <1>7, <2>1, <3>1 DEF Behind, Task
  <2>3. CASE AcceptGauges(p)
    <3>1. /\ pc'[p] = pc[p] /\ run'[p].tasks = run[p].tasks /\ Task(p).kind = "metrics"
      BY <1>1, <1>3, <2>3 DEF AcceptGauges, Posts, At, RunSet
    <3> QED
      BY <1>7, <2>1, <3>1 DEF Behind, Task
  <2>4. CASE UpToDate(p) \/ ReadMax(p)
    <3>1. pc[p] # "send" /\ pc'[p] # "send"
      BY <1>1, <2>4 DEF UpToDate, ReadMax, At
    <3> QED
      BY <1>7, <2>1, <3>1 DEF Behind
  <2>5. ASSUME NEW f \in Family, ReadView(p, f) PROVE Behind(p, t, n)'
    <3>1. pc[p] \in {"pr", "weekly"} /\ run'[p].tasks = run[p].tasks
      BY <1>1, <1>3, <2>5 DEF ReadView, Is, Family, RunSet
    <3>2. pc[p] # "send" /\ Task(p).kind = "metrics" /\ run'[p].tasks = run[p].tasks
      BY <1>3, <3>1 DEF RunTyped
    <3> QED
      BY <1>7, <2>1, <3>2 DEF Behind, Task
  <2> QED
    BY <2>2, <2>3, <2>4, <2>5
<1>8. \A t \in Target : posted'[a][t] # None =>
        posted[a][t] # None /\ (Alone(p, a, t) => Behind(p, t, posted[a][t])')
  BY <1>4, <1>7 DEF Alone, Behind
<1> QED
  BY <1>6, <1>8, GoesOnInStep

\* The rows that are read are past the cursor.
LEMMA ReadEventsInStep ==
  ASSUME TypeInv, \A b \in Agent, t \in Target : InStep(b, t), NEW p \in Flusher, ReadEvents(p)
  PROVE  \A b \in Agent, t \in Target : InStep(b, t)'
<1>1. pc \in [Flusher -> Phases] /\ run \in [Flusher -> RunSet] /\ pc[p] = "task"
      /\ Task(p).kind = "logs"
  BY DEF TypeInv, RunsTyped, ReadEvents, At
<1>2. run[p] \in RunSet /\ RunTyped(p) /\ run[p].st \in StateFile
  BY <1>1, BusyTyped
<1>3. PICK a \in Agent : a = run[p].agent
  BY <1>1, BusyTyped
<1> DEFINE rows == Rows(run[p].agent, IF run[p].full THEN 0 ELSE CursorFor(run[p].st, Task(p).to))
           held_ == {[seq |-> k, event |-> events[k]] : k \in rows}
<1>4. run'[p] = [run[p] EXCEPT !.rows = held_, !.last = Max({0} \cup rows)]
  BY <1>1 DEF ReadEvents
<1>5. /\ run'[p].agent = run[p].agent /\ run'[p].full = run[p].full /\ run'[p].dirty = run[p].dirty
      /\ run'[p].st = run[p].st /\ run'[p].tasks = run[p].tasks
      /\ run'[p].rows = held_ /\ run'[p].last = Max({0} \cup rows)
  BY <1>2, <1>4 DEF RunSet
<1>6. GoesOn(p, a)
  BY <1>1, <1>3, <1>5 DEF ReadEvents, GoesOn, history
<1>7. Len(events) \in Nat /\ rows \in SUBSET (0..Len(events))
  BY DEF Rows, TypeInv, FilesTyped
<1>8. Max({0} \cup rows) \in {0} \cup rows
  <2> HIDE DEF rows
  <2> QED
    BY <1>7, MaxWithOneMore
<1>9. ASSUME NEW t \in Target, posted[a][t] # None, Alone(p, a, t)
      PROVE  Behind(p, t, posted[a][t])'
  <2>1. posted[a][t] <= CursorFor(run[p].st, t) /\ ~run[p].full /\ posted' = posted
    BY <1>1, <1>9 DEF Alone, Behind, ReadEvents, history
  <2>2. CursorFor(run[p].st, t)' = CursorFor(run[p].st, t)
    BY <1>5 DEF CursorFor
  <2>3. CursorFor(run[p].st, t) \in Nat /\ posted[a][t] \in Nat
    BY <1>2, <1>9, CursorTyped DEF TypeInv, HistoryTyped
  <2>4. CASE Task(p).to = t
    <3>1. \A k \in rows : k > posted[a][t]
      BY <1>7, <2>1, <2>3, <2>4 DEF Rows
    <3>2. \A x \in run'[p].rows : posted[a][t] < x.seq
      BY <1>5, <1>7, <2>3, <3>1
    <3>3. run'[p].last # 0 => posted[a][t] <= run'[p].last
      <4> HIDE DEF rows
      <4>1. \A k \in rows : posted[a][t] <= k
        BY <1>7, <2>3, <3>1
      <4> QED
        BY <1>5, <1>8, <4>1, Zenon
    <3> QED
      BY <2>1, <2>2, <3>2, <3>3 DEF Behind
  <2>5. CASE Task(p).to # t
    <3>1. (Task(p).to)' # t
      BY <1>5, <2>5 DEF Task
    <3> QED
      BY <2>1, <2>2, <3>1 DEF Behind
  <2> QED
    BY <2>4, <2>5
<1>10. posted' = posted
  BY DEF ReadEvents, history
<1> QED
  BY <1>6, <1>9, <1>10, GoesOnInStep

\* A target that takes a batch has taken what the batch holds, and what is left
\* is later.
LEMMA AcceptInStep ==
  ASSUME TypeInv, RunsRead, \A b \in Agent, t \in Target : InStep(b, t), NEW p \in Flusher,
         Accept(p)
  PROVE  \A b \in Agent, t \in Target : InStep(b, t)'
<1>1. /\ pc \in [Flusher -> Phases] /\ run \in [Flusher -> RunSet] /\ pc[p] = "send"
      /\ Task(p).kind = "logs" /\ Posts(p, "logs") /\ RowsRead(p)
  BY DEF TypeInv, RunsTyped, Accept, Posts, At, RunsRead
<1>2. run[p] \in RunSet /\ RunTyped(p) /\ run[p].st \in StateFile
  BY <1>1, BusyTyped
<1>3. PICK a \in Agent, u \in Target : a = run[p].agent /\ u = Task(p).to
  BY <1>1, PostTyped DEF TaskSet
<1>4. run'[p] = [run[p] EXCEPT !.rows = @ \ FirstRows(p)] /\ pc' = pc
  BY <1>1 DEF Accept
<1>5. /\ run'[p].agent = run[p].agent /\ run'[p].full = run[p].full /\ run'[p].dirty = run[p].dirty
      /\ run'[p].st = run[p].st /\ run'[p].tasks = run[p].tasks /\ run'[p].last = run[p].last
      /\ run'[p].rows = run[p].rows \ FirstRows(p)
  BY <1>2, <1>4 DEF RunSet
<1>6. /\ posted' = [posted EXCEPT ![a][u] = IF @ = None THEN None ELSE Max({@} \cup Sequences(p))]
      /\ posted \in [Agent -> [Target -> Nat \cup {None}]]
  BY <1>3 DEF Accept, TypeInv, HistoryTyped
<1>7. GoesOn(p, a)
  BY <1>1, <1>3, <1>5, <1>6 DEF Accept, GoesOn
<1>8. ASSUME NEW t \in Target, posted'[a][t] # None, Alone(p, a, t)
      PROVE  posted[a][t] # None /\ Behind(p, t, posted[a][t])'
  <2>1. CASE t # u
    <3>1. posted'[a][t] = posted[a][t] /\ (Task(p).to)' # t /\ Task(p).to # t
      BY <1>3, <1>5, <1>6, <2>1 DEF Task
    <3>2. CursorFor(run[p].st, t)' = CursorFor(run[p].st, t)
      BY <1>5 DEF CursorFor
    <3> QED
      BY <1>8, <3>1, <3>2 DEF Behind, Alone
  <2>2. CASE t = u
    <3>1. posted[a][u] \in Nat /\ posted'[a][u] = Max({posted[a][u]} \cup Sequences(p))
      BY <1>6, <1>8, <2>2
    <3>2. /\ \A x \in run[p].rows : posted[a][u] < x.seq
          /\ posted[a][u] <= run[p].last /\ run[p].last # 0
      BY <1>1, <1>3, <3>1, PostIsLater, DeliveryAssumption
    <3>3. posted'[a][u] \in {posted[a][u]} \cup Sequences(p)
      <4>1. Len(events) \in Nat /\ Sequences(p) \in SUBSET (0..Len(events))
        BY <1>1, PostTyped DEF TypeInv, FilesTyped
      <4> QED
        BY <3>1, <4>1, MaxWithOneMore
    <3>4. posted'[a][u] <= run[p].last
      BY <1>1, <3>2, <3>3, BatchIs DEF RowsRead
    <3>5. \A x \in run'[p].rows : posted'[a][u] < x.seq
      BY <1>1, <1>5, <3>2, <3>3, BatchIs
    <3>6. /\ pc'[p] = "send" /\ (Task(p).kind)' = "logs" /\ (Task(p).to)' = u
          /\ run'[p].last # 0 /\ posted'[a][u] <= run'[p].last
      BY <1>1, <1>3, <1>4, <1>5, <3>2, <3>4 DEF Task
    <3> QED
      BY <2>2, <3>1, <3>5, <3>6, DeliveryAssumption DEF Behind
  <2> QED
    BY <2>1, <2>2
<1>9. \A t \in Target : posted'[a][t] # None => posted[a][t] # None
  BY <1>6
<1> QED
  BY <1>7, <1>8, <1>9, GoesOnInStep
\* A target that failed may be sent what it was sent; the others are as before.
LEMMA FailInStep ==
  ASSUME TypeInv, \A b \in Agent, t \in Target : InStep(b, t), NEW p \in Flusher,
         AnswerLost(p) \/ GiveUp(p)
  PROVE  \A b \in Agent, t \in Target : InStep(b, t)'
<1>1. /\ pc \in [Flusher -> Phases] /\ run \in [Flusher -> RunSet] /\ pc[p] # "idle"
      /\ NextTask(p) /\ file' = file
  BY DEF TypeInv, RunsTyped, AnswerLost, GiveUp, CanFail, Posts, At
<1>2. run[p] \in RunSet
  BY <1>1, BusyTyped
<1>3. PICK a \in Agent : a = run[p].agent
  BY <1>1, BusyTyped
<1>4. /\ run'[p].agent = run[p].agent /\ run'[p].full = run[p].full
      /\ run'[p].dirty = run[p].dirty /\ run'[p].st = run[p].st /\ pc'[p] = "task"
  BY <1>1, <1>2 DEF NextTask, RunSet
<1>5. \A b \in Agent, t \in Target :
        /\ posted'[b][t] \in {posted[b][t], None}
        /\ b = a /\ t = Task(p).to => posted'[b][t] = None
  <2>1. posted \in [Agent -> [Target -> Nat \cup {None}]]
    BY DEF TypeInv, HistoryTyped
  <2>2. CASE AnswerLost(p)
    BY <1>3, <2>1, <2>2 DEF AnswerLost
  <2>3. CASE GiveUp(p)
    BY <2>3 DEF GiveUp, Excuse
  <2> QED
    BY <2>2, <2>3
<1>6. GoesOn(p, a)
  BY <1>1, <1>3, <1>4, <1>5 DEF GoesOn, NextTask
<1>7. ASSUME NEW t \in Target, posted'[a][t] # None, Alone(p, a, t)
      PROVE  Behind(p, t, posted[a][t])'
  <2>1. t # Task(p).to /\ posted'[a][t] = posted[a][t]
    BY <1>5, <1>7
  <2>2. posted[a][t] <= CursorFor(run[p].st, t)
    BY <1>7, <2>1 DEF Alone, Behind
  <2>3. CursorFor(run[p].st, t)' = CursorFor(run[p].st, t)
    BY <1>4 DEF CursorFor
  <2> QED
    BY <1>4, <2>1, <2>2, <2>3 DEF Behind
<1>8. \A t \in Target : posted'[a][t] # None => posted[a][t] # None
  BY <1>5
<1> QED
  BY <1>6, <1>7, <1>8, GoesOnInStep

\* The cursor of the target moves to the last row read, others stay.
LEMMA DoneInStep ==
  ASSUME TypeInv, \A b \in Agent, t \in Target : InStep(b, t), NEW p \in Flusher, Done(p)
  PROVE  \A b \in Agent, t \in Target : InStep(b, t)'
<1>1. /\ pc \in [Flusher -> Phases] /\ run \in [Flusher -> RunSet] /\ pc[p] = "send"
      /\ file' = file /\ posted' = posted /\ pc'[p] = "task"
      /\ posted \in [Agent -> [Target -> Nat \cup {None}]]
  BY DEF TypeInv, RunsTyped, HistoryTyped, Done, MovesCursor, history
<1>2. run[p] \in RunSet /\ run[p].st \in StateFile /\ RunTyped(p)
  BY <1>1, BusyTyped
<1>3. PICK a \in Agent, u \in Target : a = run[p].agent /\ u = Task(p).to
  BY <1>1, PostTyped DEF TaskSet
<1>4. Task(p).kind \in {"logs", "metrics"} /\ run[p].last \in Nat
  BY <1>1, <1>2, PostTyped DEF TaskSet, RunSet
<1> DEFINE logs == Task(p).kind = "logs" /\ run[p].last # 0
<1>5. /\ run'[p].agent = run[p].agent /\ run'[p].full = run[p].full
      /\ run'[p].dirty = (run[p].dirty \/ logs \/ Task(p).kind = "metrics")
  BY <1>1, <1>2 DEF Done, MovesCursor, RunSet
<1>6. /\ run'[p].st.flush = [run[p].st.flush EXCEPT ![u] = IF logs THEN run[p].last ELSE @]
      /\ run'[p].st.legacy = run[p].st.legacy
  BY <1>1, <1>2, <1>3 DEF Done, MovesCursor, RunSet, StateFile
<1>7. run[p].st.flush \in [Target -> Nat \cup {None}]
  BY <1>2 DEF StateFile
<1>8. GoesOn(p, a)
  <2>1. CASE logs \/ Task(p).kind = "metrics"
    <3>1. run'[p].dirty
      BY <1>5, <2>1, Zenon
    <3> QED
      BY <1>1, <1>3, <1>5, <3>1 DEF GoesOn, Done, MovesCursor
  <2>2. CASE ~(logs \/ Task(p).kind = "metrics")
    <3>1. run'[p].st.flush = run[p].st.flush
      BY <1>6, <1>7, <2>2
    <3>2. run'[p].dirty = run[p].dirty
      BY <1>2, <1>5, <2>2 DEF RunSet
    <3> QED
      BY <1>1, <1>3, <1>5, <3>1, <3>2 DEF GoesOn, Done, MovesCursor
  <2> QED
    BY <2>1, <2>2
<1>9. ASSUME NEW t \in Target, posted[a][t] # None, Alone(p, a, t)
      PROVE  Behind(p, t, posted[a][t])'
  <2>1. Behind(p, t, posted[a][t])
    BY <1>9 DEF Alone
  <2>2. CASE logs /\ t = u
    <3>1. posted[a][t] <= run[p].last
      BY <1>1, <1>3, <2>1, <2>2 DEF Behind
    <3>2. run'[p].st.flush[t] = run[p].last
      BY <1>6, <1>7, <2>2
    <3>3. CursorFor(run[p].st, t)' = run[p].last
      BY <1>4, <3>2, DeliveryAssumption DEF CursorFor
    <3> QED
      BY <1>1, <3>1, <3>3 DEF Behind
  <2>3. CASE ~(logs /\ t = u)
    <3>1. posted[a][t] <= CursorFor(run[p].st, t)
      BY <1>1, <1>3, <2>1, <2>3 DEF Behind
    <3>2. run'[p].st.flush[t] = run[p].st.flush[t]
      BY <1>6, <1>7, <2>3
    <3>3. CursorFor(run[p].st, t)' = CursorFor(run[p].st, t)
      BY <1>6, <3>2 DEF CursorFor
    <3> QED
      BY <1>1, <3>1, <3>3 DEF Behind
  <2> QED
    BY <2>2, <2>3
<1> QED
  BY <1>1, <1>8, <1>9, GoesOnInStep

\* A flush that starts has the cursors of the file, and is the only one.
LEMMA BeginInStep ==
  ASSUME TypeInv, RunsRead, \A b \in Agent, t \in Target : InStep(b, t), NEW p \in Flusher,
         NEW a \in Agent, NEW full \in BOOLEAN, Begin(p, a, full),
         NEW b \in Agent, NEW t \in Target
  PROVE  InStep(b, t)'
<1> SUFFICES ASSUME posted'[b][t] # None
             PROVE  /\ \A q \in Flusher : run'[q].agent = b => Alone(q, b, t)'
                    /\ (\A q \in Flusher : run'[q].agent # b) =>
                          posted'[b][t] <= CursorFor(file[b], t)'
  BY DEF InStep
<1>1. ~full /\ ~Overlaps(p, a) /\ posted' = posted
  BY DEF Begin, Excuse, history
<1>2. /\ run \in [Flusher -> RunSet] /\ run[p] \in RunSet /\ run[p] = IdleRun
      /\ pc'[p] = "task" /\ file' = file
      /\ \A q \in Flusher \ {p} : pc'[q] = pc[q] /\ run'[q] = run[q]
  BY DEF Begin, Is, TypeInv, RunsTyped, RunsRead
<1>3. /\ run'[p].agent = a /\ run'[p].full = full /\ run'[p].st = file[a]
  BY <1>2 DEF Begin, RunSet
<1>4. run[p].agent \notin Agent
  BY <1>2, DeliveryAssumption DEF IdleRun
<1>5. CASE b = a
  <2>1. \A q \in Flusher : run'[q].agent = b => q = p
    BY <1>1, <1>2, <1>5 DEF Overlaps
  <2>2. posted[b][t] <= CursorFor(file[b], t)
    <3>1. \A q \in Flusher : run[q].agent # b
      BY <1>1, <1>4, <1>5 DEF Overlaps
    <3> QED
      BY <1>1, <3>1 DEF InStep
  <2>3. Alone(p, b, t)'
    BY <1>1, <1>2, <1>3, <1>5, <2>1, <2>2 DEF Alone, Behind, CursorFor
  <2> QED
    BY <1>3, <1>5, <2>1, <2>3
<1>6. CASE b # a
  <2>1. ASSUME NEW q \in Flusher, run'[q].agent = b PROVE Alone(q, b, t)'
    <3>1. q # p /\ Alone(q, b, t)
      BY <1>1, <1>2, <1>3, <1>6, <2>1 DEF InStep
    <3> QED
      BY <1>1, <1>2, <1>3, <1>6, <2>1, <3>1 DEF Alone, Behind, Task, CursorFor
  <2>2. (\A q \in Flusher : run'[q].agent # b) => posted[b][t] <= CursorFor(file[b], t)
    BY <1>1, <1>2, <1>4 DEF InStep
  <2> QED
    BY <1>1, <1>2, <2>1, <2>2 DEF CursorFor
<1> QED
  BY <1>5, <1>6

\* A flush that ends leaves its cursors in the file, if it moved any.
LEMMA FinishInStep ==
  ASSUME TypeInv, LegacySame, \A b \in Agent, t \in Target : InStep(b, t), NEW p \in Flusher,
         Finish(p), NEW b \in Agent, NEW t \in Target
  PROVE  InStep(b, t)'
<1> SUFFICES ASSUME posted[b][t] # None
             PROVE  /\ \A q \in Flusher : run'[q].agent = b => Alone(q, b, t)'
                    /\ (\A q \in Flusher : run'[q].agent # b) =>
                          posted[b][t] <= CursorFor(file[b], t)'
  BY DEF InStep, Finish, history
<1>1. /\ run \in [Flusher -> RunSet] /\ run'[p] = IdleRun /\ pc[p] = "task" /\ posted' = posted
      /\ \A q \in Flusher \ {p} : pc'[q] = pc[q] /\ run'[q] = run[q]
      /\ file' = IF run[p].dirty THEN [file EXCEPT ![run[p].agent] = run[p].st] ELSE file
      /\ file \in [Agent -> StateFile]
  BY DEF Finish, Is, TypeInv, RunsTyped, FilesTyped, history
<1>2. PICK a \in Agent : a = run[p].agent
  BY <1>1, BusyTyped
<1>3. run'[p].agent \notin Agent
  BY <1>1, DeliveryAssumption DEF IdleRun
<1>4. CASE b = a
  <2>1. Alone(p, b, t)
    BY <1>2, <1>4 DEF InStep
  <2>2. \A q \in Flusher : run'[q].agent # b
    BY <1>1, <1>2, <1>3, <2>1 DEF Alone
  <2>3. posted[b][t] <= CursorFor(run[p].st, t)
    BY <1>1, <2>1 DEF Alone, Behind
  <2>4. CursorFor(file'[b], t) = CursorFor(run[p].st, t)
    <3>1. CASE run[p].dirty
      BY <1>1, <1>2, <1>4, <3>1
    <3>2. CASE ~run[p].dirty
      <4>1. run[p].st.flush = file[b].flush /\ file' = file
        BY <1>1, <2>1, <3>2 DEF Alone
      <4>2. run[p].st \in Loaded(b)
        <5>1. run[p].st \in StateFile
          BY <1>1, BusyTyped
        <5> QED
          BY <1>2, <1>4, <5>1, DeliveryAssumption DEF Loaded
      <4> QED
        BY <4>1, <4>2 DEF LegacySame, CursorFor
    <3> QED
      BY <3>1, <3>2
  <2> QED
    BY <2>2, <2>3, <2>4 DEF CursorFor
<1>5. CASE b # a
  <2>1. file'[b] = file[b]
    BY <1>1, <1>2, <1>5
  <2>2. ASSUME NEW q \in Flusher, run'[q].agent = b PROVE Alone(q, b, t)'
    <3>1. q # p /\ Alone(q, b, t)
      BY <1>1, <1>3, <2>2 DEF InStep
    <3> QED
      BY <1>1, <1>3, <2>1, <2>2, <3>1 DEF Alone, Behind, Task, CursorFor
  <2>3. (\A q \in Flusher : run'[q].agent # b) => posted[b][t] <= CursorFor(file[b], t)
    BY <1>1, <1>2, <1>5 DEF InStep
  <2> QED
    BY <2>1, <2>2, <2>3 DEF CursorFor
<1> QED
  BY <1>4, <1>5

\* A step that leaves the flushes and the log cursors of the files alone.
LEMMA SameInStep ==
  ASSUME \A b \in Agent, t \in Target : InStep(b, t), UNCHANGED <<pc, run, posted>>,
         \A b \in Agent : file'[b].flush = file[b].flush /\ file'[b].legacy = file[b].legacy
  PROVE  \A b \in Agent, t \in Target : InStep(b, t)'
<1> SUFFICES ASSUME NEW b \in Agent, NEW t \in Target PROVE InStep(b, t)'
  OBVIOUS
<1>1. CursorFor(file[b], t)' = CursorFor(file[b], t)
  BY DEF CursorFor
<1>2. ASSUME NEW q \in Flusher, Alone(q, b, t) PROVE Alone(q, b, t)'
  BY <1>2 DEF Alone, Behind, Task, CursorFor
<1> QED
  BY <1>1, <1>2 DEF InStep

\* A backfill run that saves puts cursors back, or the very ones that are there.
LEMMA BackfillInStep ==
  ASSUME TypeInv, LegacySame, \A b \in Agent, t \in Target : InStep(b, t),
         NEW a \in Agent, BackfillLoads(a) \/ BackfillSaves(a)
  PROVE  \A b \in Agent, t \in Target : InStep(b, t)'
<1>1. CASE BackfillLoads(a)
  BY <1>1, SameInStep DEF BackfillLoads, history
<1>2. CASE BackfillSaves(a) /\ held[a].flush # file[a].flush
  BY <1>2 DEF BackfillSaves, Excuse, InStep
<1>3. CASE BackfillSaves(a) /\ held[a].flush = file[a].flush
  <2>1. /\ file \in [Agent -> StateFile] /\ held[a] \in StateFile
        /\ file' = [file EXCEPT ![a] = [held[a] EXCEPT !.offset = @ + 1]]
        /\ UNCHANGED <<pc, run, posted>>
    BY <1>3 DEF BackfillSaves, TypeInv, FilesTyped, history
  <2>2. held[a] \in Loaded(a)
    BY <2>1, DeliveryAssumption DEF Loaded
  <2>3. held[a].legacy = file[a].legacy
    BY <2>2 DEF LegacySame
  <2>4. \A b \in Agent : file'[b].flush = file[b].flush /\ file'[b].legacy = file[b].legacy
    BY <1>3, <2>1, <2>3 DEF StateFile
  <2> QED
    BY <2>1, <2>4, SameInStep
<1> QED
  BY <1>1, <1>2, <1>3

LEMMA InStepStep ==
  ASSUME TypeInv, [Next]_vars, SentInv
  PROVE  \A b \in Agent, t \in Target : InStep(b, t)'
<1> USE DEF SentInv
<1>1. ASSUME NEW p \in Flusher, Abort(p)
      PROVE  \A b \in Agent, t \in Target : InStep(b, t)'
  BY <1>1 DEF Abort, Excuse, InStep
<1>2. ASSUME NEW p \in Flusher, RunStep(p)
      PROVE  \A b \in Agent, t \in Target : InStep(b, t)'
  BY <1>2, QuietInStep, ReadEventsInStep, AcceptInStep, FailInStep, DoneInStep, FinishInStep
  DEF RunStep
<1>3. CASE \E es \in UNION {SetToSeqs(S) : S \in (SUBSET Event) \ {{}}} : Sync(es)
  BY <1>3, SameInStep DEF Sync, history
<1>4. CASE UNCHANGED vars
  BY <1>4, SameInStep DEF vars, history
<1> QED
  BY <1>1, <1>2, <1>3, <1>4, BeginInStep, BackfillInStep DEF Next

\* No target is sent a row twice unless it failed itself, a flush was killed, or
\* two of them, or a flush and a backfill run, wrote the same state file: a
\* failure of another target is no reason.
THEOREM SentOnceCorrect == Spec => []SentOnce
<1> DEFINE Inv == TypeInv /\ SentInv
<1>1. Init => Inv
  BY InitTyped, InitSent
<1>2. Inv /\ [Next]_vars => Inv'
  BY StepTyped, LegacyStep, RunsStep, AgainStep, InStepStep DEF SentInv, SentOnce
<1>3. Inv => SentOnce
  BY DEF SentInv
<1> QED
  BY <1>1, <1>2, <1>3, PTL DEF Spec

===============================================================================
