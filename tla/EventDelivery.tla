---------------------------- MODULE EventDelivery ----------------------------
(***************************************************************************)
(* `agent-telemetry flush`: how events reach the export targets.           *)
(*                                                                         *)
(* An event's local_sequence is its position in the local table, which all *)
(* agents share.  sync-db gives every event it writes a new one, also an   *)
(* event that is there already (module EventStore says why), so a position *)
(* may be empty; schema changes are left to that module.  A flush of one   *)
(* agent loads the state file, sends each target with signal "logs" the    *)
(* events past its cursor, batch by batch, then each target with signal    *)
(* "metrics" the current rows of two views, and at its end saves the       *)
(* cursors of all targets that answered 2xx to everything.  A flush of     *)
(* several agents is one Begin per agent; --dry-run changes nothing and is *)
(* left out.                                                               *)
(*                                                                         *)
(* Nothing keeps two flushes, or a flush and a backfill run, from having   *)
(* the state file of an agent loaded at once: each saves what it loaded    *)
(* with its own changes.                                                   *)
(*                                                                         *)
(* A post is one step, taken when the target handles it: a target keeps a  *)
(* set, and a post handled after the client gave up changes it the same    *)
(* way.  The own server (module serverpipe) answers 2xx even when its      *)
(* transaction failed; other targets are external.                         *)
(***************************************************************************)
EXTENDS Naturals, Sequences, SequencesExt, FiniteSetsExt

CONSTANTS
  Agent, Event,   \* the agents that are flushed, and the events
  AgentOf,        \* the coding_agent of each event, flushed or not
  Target,         \* the ids of export targets
  LogsTargets,    \* the configured targets with signal "logs", in order
  MetricsTargets, \*   and those with signal "metrics"
  Legacy,         \* the id of section [server], "server"
  OwnServer,      \* the targets that are an agent-telemetry-server
  Refused,        \* per target, the records it rejects for good
  ShownBy,        \* the events that give a view ("pr", "weekly") a row
  BatchSize,      \* how many records fit in MaxBatchBytes
  Up,             \* the targets that do not fail forever
  Flusher,        \* identities of flush processes
  InitEvents,     \* the table before the first flush of this version
  MaxSequence,    \* bounds: local sequences,
  MaxSaves,       \*   backfill runs that save,
  MaxAborts,      \*   flushes that end without saving
  None

Family == {"pr", "weekly"}

\* A state file: flush_cursors, metrics_cursors, last_flushed_sequence, and
\* offset for the fields of the backfill.
StateFile ==
  [flush : [Target -> Nat \cup {None}], metrics : [Target -> Nat], legacy : Nat, offset : Nat]

\* An event an old version sent is none that the own server refuses.
ASSUME DeliveryAssumption ==
  /\ IsFiniteSet(Event) /\ DOMAIN AgentOf = Event
  /\ Legacy \in Target => Refused[Legacy] \cap ToSet(InitEvents) = {}
  /\ LogsTargets \in Seq(Target) /\ MetricsTargets \in Seq(Target)
  /\ OwnServer \subseteq Target /\ Up \subseteq Target
  /\ Refused \in [Target -> SUBSET Event]
  /\ ShownBy \in [Family -> SUBSET Event]
  /\ InitEvents \in Seq(Event)
  /\ BatchSize \in Nat \ {0}
  /\ MaxSequence \in Nat /\ MaxSaves \in Nat /\ MaxAborts \in Nat
  /\ None \notin Nat \cup Event \cup Agent \cup StateFile

VARIABLES
  events,   \* the local events table: the event at each local_sequence, or None
  file,     \* each agent's state file
  held,     \* what a backfill run of each agent loaded from it, or None
  pc, run,  \* how far each flush is, and its local variables
  stored,   \* targets: the records each has,
  refused,  \*   those it rejected,
  lost,     \*   those it answered 2xx for and dropped,
  seen,     \*   and how recent the newest view it was sent is
  aborts,
  posted,   \* history: the last local sequence of each agent each target took,
            \*   or None once it may be sent a row again,
  again     \*   and the other targets that were

backend == <<stored, refused, lost, seen>>
history == <<posted, again>>
vars == <<events, file, held, pc, run, backend, aborts, history>>

-----------------------------------------------------------------------------
(* The table and the state file *)

\* Where the events of agent a past a cursor are.
Rows(a, after) ==
  {k \in DOMAIN events : k > after /\ events[k] # None /\ AgentOf[events[k]] = a}

LastSequence(a) == Max({0} \cup Rows(a, 0))

FileOf(legacy) ==
  [flush   |-> [t \in Target |-> None],
   metrics |-> [t \in Target |-> 0],
   legacy  |-> legacy,
   offset  |-> 0]

CursorFor(st, t) ==
  IF st.flush[t] # None THEN st.flush[t]
  ELSE IF t = Legacy THEN st.legacy ELSE 0

\* What a view shows: nothing, or rows that reflect all events up to one.
View(a, f) ==
  IF \E k \in Rows(a, 0) : events[k] \in ShownBy[f]
  THEN <<[family |-> f, upto |-> LastSequence(a)]>> ELSE <<>>

-----------------------------------------------------------------------------
\* First the logs, then the metrics.
Tasks ==
  [i \in DOMAIN LogsTargets |-> [kind |-> "logs", to |-> LogsTargets[i]]]
  \o [i \in DOMAIN MetricsTargets |-> [kind |-> "metrics", to |-> MetricsTargets[i]]]

IdleRun ==
  [agent |-> None, full |-> FALSE, st |-> None, tasks |-> <<>>, dirty |-> FALSE,
   rows |-> {}, points |-> <<>>, last |-> 0]

\* An old version flushed to the own server, if there is one, up to its single
\* cursor.
Init ==
  /\ events = InitEvents
  /\ \E n \in 0..(IF Legacy \in Target THEN Len(InitEvents) ELSE 0) :
       /\ file = [a \in Agent |-> FileOf(n)]
       /\ stored = [t \in Target |-> IF t = Legacy
                                     THEN ToSet(SubSeq(InitEvents, 1, n)) ELSE {}]
  /\ held = [a \in Agent |-> None]
  /\ pc = [p \in Flusher |-> "idle"]
  /\ run = [p \in Flusher |-> IdleRun]
  /\ refused = [t \in Target |-> {}]
  /\ lost = [t \in Target |-> {}]
  /\ seen = [a \in Agent |-> [t \in Target |-> [f \in Family |-> 0]]]
  /\ aborts = 0
  /\ posted = [a \in Agent |-> [t \in Target |-> 0]]
  /\ again = {}

Is(p, from, to) == pc[p] = from /\ pc' = [pc EXCEPT ![p] = to]

Task(p) == Head(run[p].tasks)

\* The targets ts may be sent a row again from here on.
Excuse(ts) ==
  /\ posted' = [a \in Agent |-> [t \in Target |-> IF t \in ts THEN None ELSE posted[a][t]]]
  /\ UNCHANGED again

\* Another flush of agent a has its state file loaded.
Overlaps(p, a) ==
  \E q \in Flusher \ {p} : run[q].agent = a

\* A flush starts, and loads the state file before it looks at the table.
Begin(p, a, full) ==
  /\ Is(p, "idle", "task")
  /\ run' = [run EXCEPT ![p].agent = a, ![p].full = full, ![p].st = file[a],
                        ![p].tasks = Tasks]
  /\ IF full \/ Overlaps(p, a) THEN Excuse(Target) ELSE UNCHANGED history
  /\ UNCHANGED <<events, file, held, backend, aborts>>

At(p, from, kind) ==
  pc[p] = from /\ run[p].tasks # <<>> /\ Task(p).kind = kind

ReadEvents(p) ==
  LET r    == run[p]
      rows == Rows(r.agent, IF r.full THEN 0 ELSE CursorFor(r.st, Task(p).to))
  IN  /\ At(p, "task", "logs")
      /\ run' = [run EXCEPT ![p].rows = {[seq |-> k, event |-> events[k]] : k \in rows},
                            ![p].last = Max({0} \cup rows)]
      /\ pc' = [pc EXCEPT ![p] = "send"]
      /\ UNCHANGED <<events, file, held, backend, aborts, history>>

\* Mutant: one cursor for both signals.
IsUpToDateByLogs(p) ==
  ~run[p].full /\ LastSequence(run[p].agent) <= CursorFor(run[p].st, Task(p).to)

IsUpToDate(p) ==
  ~run[p].full /\ LastSequence(run[p].agent) <= run[p].st.metrics[Task(p).to]

\* No event since the last gauges: nothing is sent.
UpToDate(p) ==
  /\ At(p, "task", "metrics")
  /\ IsUpToDate(p)
  /\ run' = [run EXCEPT ![p].tasks = Tail(@)]
  /\ UNCHANGED <<events, file, held, pc, backend, aborts, history>>

\* Mutant: the cursor moves before the views are sent.
ReadMaxAndMove(p) ==
  /\ At(p, "task", "metrics")
  /\ ~IsUpToDate(p)
  /\ run' = [run EXCEPT ![p].last = LastSequence(run[p].agent),
                        ![p].st.metrics[Task(p).to] = LastSequence(run[p].agent)]
  /\ pc' = [pc EXCEPT ![p] = "pr"]
  /\ UNCHANGED <<events, file, held, backend, aborts, history>>

\* The cursor to be is read before the views.
ReadMax(p) ==
  /\ At(p, "task", "metrics")
  /\ ~IsUpToDate(p)
  /\ run' = [run EXCEPT ![p].last = LastSequence(run[p].agent)]
  /\ pc' = [pc EXCEPT ![p] = "pr"]
  /\ UNCHANGED <<events, file, held, backend, aborts, history>>

\* Each view is a query of its own.
ReadView(p, f) ==
  /\ Is(p, f, IF f = "pr" THEN "weekly" ELSE "send")
  /\ run' = [run EXCEPT ![p].points = @ \o View(run[p].agent, f)]
  /\ UNCHANGED <<events, file, held, backend, aborts, history>>

-----------------------------------------------------------------------------
(* Posts *)

\* The next batch, the first rows by local sequence; its sequences and records.
FirstRows(p) ==
  {x \in run[p].rows : Cardinality({y \in run[p].rows : y.seq <= x.seq}) <= BatchSize}
Sequences(p) == {x.seq : x \in FirstRows(p)}
Batch(p) == {x.event : x \in FirstRows(p)}

Posts(p, kind) ==
  /\ At(p, "send", kind)
  /\ run[p].rows # {} \/ run[p].points # <<>>

\* Mutant: a malformed record is counted and stored all the same.
TakesAll(t, batch) ==
  /\ stored'  = [stored  EXCEPT ![t] = @ \cup batch]
  /\ refused' = [refused EXCEPT ![t] = @ \cup (batch \cap Refused[t])]
  /\ UNCHANGED <<lost, seen>>

\* Target t handles a batch: INSERT OR IGNORE, malformed records refused.
Takes(t, batch) ==
  /\ stored'  = [stored  EXCEPT ![t] = @ \cup (batch \ Refused[t])]
  /\ refused' = [refused EXCEPT ![t] = @ \cup (batch \cap Refused[t])]
  /\ UNCHANGED <<lost, seen>>

\* It handles the rows of a view: the newest are what counts.
Gauges(p) ==
  LET r == run[p]
      x == Head(r.points)
  IN  /\ seen' = [seen EXCEPT ![r.agent][Task(p).to][x.family] = Max({@, x.upto})]
      /\ UNCHANGED <<stored, refused, lost>>

\* The next batch goes to target t, which may answer for it.
Again(p, t) ==
  LET taken == posted[run[p].agent][t]
  IN  again' = IF taken = None \/ Min(Sequences(p)) > taken THEN again ELSE again \cup {t}

\* The target has left the run's task; its cursor stays.
NextTask(p) ==
  /\ pc' = [pc EXCEPT ![p] = "task"]
  /\ run' = [run EXCEPT ![p].tasks = Tail(@), ![p].rows = {}, ![p].points = <<>>,
                        ![p].last = 0]

\* Any 2xx, records refused or not.
Accept(p) ==
  /\ Posts(p, "logs")
  /\ Takes(Task(p).to, Batch(p))
  /\ Again(p, Task(p).to)
  /\ posted' = [posted EXCEPT ![run[p].agent][Task(p).to] =
                   IF @ = None THEN None ELSE Max({@} \cup Sequences(p))]
  /\ run' = [run EXCEPT ![p].rows = @ \ FirstRows(p)]
  /\ UNCHANGED <<events, file, held, pc, aborts>>

AcceptGauges(p) ==
  /\ Posts(p, "metrics")
  /\ Gauges(p)
  /\ run' = [run EXCEPT ![p].points = Tail(@)]
  /\ UNCHANGED <<events, file, held, pc, aborts, history>>

\* The own server's transaction fails and it answers 200: nothing is stored,
\* only refusals found before the failure are counted and logged.
Drop(p) ==
  LET t == Task(p).to
  IN  /\ Posts(p, "logs") /\ t \in OwnServer
      /\ \E found \in SUBSET (Batch(p) \cap Refused[t]) :
           /\ refused' = [refused EXCEPT ![t] = @ \cup found]
           /\ lost' = [lost EXCEPT ![t] = @ \cup ((Batch(p) \ stored[t]) \ found)]
      /\ run' = [run EXCEPT ![p].rows = @ \ FirstRows(p)]
      /\ UNCHANGED <<events, file, held, pc, stored, seen, aborts, history>>

\* The target took the batch, but the client sees a timeout, a reset, an error
\* status of a proxy or a body it cannot decode.
AnswerLost(p) ==
  /\ \/ Posts(p, "logs") /\ Takes(Task(p).to, Batch(p)) /\ Again(p, Task(p).to)
     \/ Posts(p, "metrics") /\ Gauges(p) /\ UNCHANGED again
  /\ NextTask(p)
  /\ posted' = [posted EXCEPT ![run[p].agent][Task(p).to] = None]
  /\ UNCHANGED <<events, file, held, aborts>>

CanFail(p) ==
  \/ run[p].tasks # <<>> /\ pc[p] \in {"task", "pr", "weekly"}
  \/ Posts(p, "logs") \/ Posts(p, "metrics")

\* Mutant: the first failure ends the whole flush.
GiveUpAll(p) ==
  /\ CanFail(p)
  /\ pc' = [pc EXCEPT ![p] = "idle"]
  /\ run' = [run EXCEPT ![p] = IdleRun]
  /\ Excuse({Task(p).to})
  /\ UNCHANGED <<events, file, held, backend, aborts>>

\* The post fails before the target takes it, or a query fails.
GiveUp(p) ==
  /\ CanFail(p)
  /\ NextTask(p)
  /\ Excuse({Task(p).to})
  /\ UNCHANGED <<events, file, held, backend, aborts>>

\* The cursor of a target moves, in memory; that of logs only if some were sent.
MovesCursor(p, to) ==
  LET t    == Task(p).to
      logs == Task(p).kind = "logs" /\ run[p].last # 0
  IN  /\ pc[p] = "send" /\ run[p].rows = {} /\ run[p].points = <<>>
      /\ run' = [run EXCEPT
           ![p].st.flush[t]   = IF logs THEN to ELSE @,
           ![p].st.metrics[t] = IF Task(p).kind = "metrics" THEN to ELSE @,
           ![p].dirty = @ \/ logs \/ Task(p).kind = "metrics",
           ![p].tasks = Tail(@), ![p].last = 0]
      /\ pc' = [pc EXCEPT ![p] = "task"]
      /\ UNCHANGED <<events, file, held, backend, aborts, history>>

\* Mutant: it moves to the end of the table as it is now.
DoneAtEnd(p) == MovesCursor(p, LastSequence(run[p].agent))

\* Everything is answered: it moves to the last event, or the maximum, read.
Done(p) == MovesCursor(p, run[p].last)

\* The whole file is replaced by what was loaded with the cursors moved,
\* whether or not some target failed.
Finish(p) ==
  /\ Is(p, "task", "idle")
  /\ run[p].tasks = <<>>
  /\ file' = IF run[p].dirty THEN [file EXCEPT ![run[p].agent] = run[p].st] ELSE file
  /\ run' = [run EXCEPT ![p] = IdleRun]
  /\ UNCHANGED <<events, held, backend, aborts, history>>

\* The process is killed, or the state file can be neither read nor written.
Abort(p) ==
  /\ aborts < MaxAborts /\ aborts' = aborts + 1
  /\ pc[p] # "idle"
  /\ pc' = [pc EXCEPT ![p] = "idle"]
  /\ run' = [run EXCEPT ![p] = IdleRun]
  /\ Excuse(Target)
  /\ UNCHANGED <<events, file, held, backend>>

-----------------------------------------------------------------------------
(* The other commands *)

\* The triggers insert OR IGNORE, but sync-db's INSERT OR REPLACE into the view
\* overrides that: an event that is there is deleted and takes a new number.
Sequenced(es) ==
  [k \in DOMAIN events |-> IF events[k] \in ToSet(es) THEN None ELSE events[k]] \o es

\* A sync-db commits: the events of the current contents, in any order.
Sync(es) ==
  /\ Len(events) + Len(es) <= MaxSequence
  /\ events' = Sequenced(es)
  /\ UNCHANGED <<file, held, pc, run, backend, aborts, history>>

BackfillLoads(a) ==
  /\ held[a] = None
  /\ file[a].offset < MaxSaves
  /\ held' = [held EXCEPT ![a] = file[a]]
  /\ UNCHANGED <<events, file, pc, run, backend, aborts, history>>

\* The run saves its own fields, and the cursors as they were when it loaded.
BackfillSaves(a) ==
  /\ held[a] # None
  /\ file' = [file EXCEPT ![a] = [held[a] EXCEPT !.offset = @ + 1]]
  /\ held' = [held EXCEPT ![a] = None]
  /\ IF held[a].flush # file[a].flush THEN Excuse(Target) ELSE UNCHANGED history
  /\ UNCHANGED <<events, pc, run, backend, aborts>>

-----------------------------------------------------------------------------
RunStep(p) ==
  \/ ReadEvents(p) \/ UpToDate(p) \/ ReadMax(p)
  \/ \E f \in Family : ReadView(p, f)
  \/ Accept(p) \/ AcceptGauges(p) \/ Drop(p) \/ AnswerLost(p) \/ GiveUp(p)
  \/ Done(p) \/ Finish(p)

Next ==
  \/ \E p \in Flusher :
       \/ \E a \in Agent, full \in BOOLEAN : Begin(p, a, full)
       \/ RunStep(p)
       \/ Abort(p)
  \/ \E es \in UNION {SetToSeqs(S) : S \in (SUBSET Event) \ {{}}} : Sync(es)
  \/ \E a \in Agent : BackfillLoads(a) \/ BackfillSaves(a)

Spec == Init /\ [][Next]_vars

\* A flush of target t fails.
Fails(p, t) == (AnswerLost(p) \/ GiveUp(p)) /\ Task(p).to = t

\* cron starts flushes of every agent, each takes its steps, and from some time
\* on posts to the targets in Up, and the queries for them, succeed.  The other
\* targets may be down for good.
FairSpec ==
  /\ Spec
  /\ \A p \in Flusher :
       /\ WF_vars(RunStep(p))
       /\ \A a \in Agent : SF_vars(Begin(p, a, FALSE))
  /\ <>[][\A p \in Flusher, t \in Up : ~Fails(p, t)]_vars

-----------------------------------------------------------------------------
\* Every variable keeps its type.
TypeOK ==
  /\ events \in Seq(Event \cup {None})
  /\ file \in [Agent -> StateFile]
  /\ held \in [Agent -> StateFile \cup {None}]
  /\ pc \in [Flusher -> {"idle", "task", "pr", "weekly", "send"}]
  /\ \A p \in Flusher :
       /\ run[p].agent \in Agent \cup {None}
       /\ run[p].st \in StateFile \cup {None}
       /\ pc[p] = "idle" <=> run[p].st = None
       /\ \A x \in run[p].rows : x.seq \in DOMAIN events
  /\ \A t \in Target : stored[t] \cap refused[t] = {}
  /\ posted \in [Agent -> [Target -> Nat \cup {None}]] /\ again \subseteq Target

\* Target t is through with event e.
Settled(t, e) == e \in stored[t] \cup refused[t] \cup lost[t]

\* A cursor never passes an event its target was not sent and did not answer
\* for: not when a batch fails, not when events arrive while a flush sends, not
\* when flushes and backfill runs overwrite each other's state file.
AtLeastOnce ==
  \A a \in Agent : \A t \in ToSet(LogsTargets) : \A k \in Rows(a, 0) :
    k <= CursorFor(file[a], t) => Settled(t, events[k])

\* What a view shows at a metrics cursor, or something newer, was sent: the
\* events of the next flush make it send again if their rows were missed.
GaugesAtLeastOnce ==
  \A a \in Agent : \A t \in ToSet(MetricsTargets) : \A f \in Family :
    LET c == file[a].metrics[t]
    IN  (\E k \in Rows(a, 0) : k <= c /\ events[k] \in ShownBy[f])
        => seen[a][t][f] >= c

\* A target is sent a row of the table twice only when one of its own posts
\* failed, a flush was killed, the state file was overwritten, or with --full:
\* the failure of another target is no reason.
SentOnce == again = {}

\* Every event is sent to every target that is up, whatever the others do.
EventsArrive ==
  \A t \in Up \cap ToSet(LogsTargets), e \in Event :
    (e \in ToSet(events) /\ AgentOf[e] \in Agent) ~> Settled(t, e)

\* So are the views: what they showed after event k, or something newer.
GaugesArrive ==
  \A t \in Up \cap ToSet(MetricsTargets), f \in Family, e \in Event :
    (e \in ToSet(events) /\ AgentOf[e] \in Agent /\ e \in ShownBy[f]) ~>
      (\E k \in DOMAIN events : events[k] = e /\ seen[AgentOf[e]][t][f] >= k)

\* What docs/spec.md says of an answer 2xx that rejects nothing: all records
\* were accepted.
AnsweredIsAccepted == \A t \in Target : lost[t] = {}
=============================================================================
