--------------------------- MODULE BackfillWorker ---------------------------
(***************************************************************************)
(* The backfill runs of internal/backfill: the detached worker every Stop  *)
(* hook spawns and the manual `backfill` command.  A run of one agent      *)
(* takes the global single-flight lock (workers only), reads a snapshot of *)
(* the index and the state file, asks gh about the PRs of pending sessions *)
(* (pin, Phase 1) and about PRs not known to be merged (Phase 2), applies  *)
(* everything in one batch, and saves the state file.                      *)
(*                                                                         *)
(* Between two steps of a run anything may happen: hooks change the index, *)
(* PRs are opened and merged, checkouts disappear, time passes, another    *)
(* run makes progress, the process dies.  Every change of the index is one *)
(* step here: that is what module SessionIndex shows of the locked file.   *)
(*                                                                         *)
(* Times are Stamps, 0 is Go's zero time.  state.meta_url_checks is only   *)
(* used to order URLs by age, so it is the sequence of checked URLs, the   *)
(* least recent first.  PR titles and review counts are module             *)
(* SessionRows' matter; the metas here carry only the merge state.         *)
(***************************************************************************)
EXTENDS SessionRows, SequencesExt

CONSTANTS
  Agent,              \* the agents with an index: "claude", "codex"
  Codex,              \* those whose ended_at a run fills in
  Proc,               \* identities of backfill processes
  Launches,           \* the command lines they are started with
  Checkouts,          \* where sessions start: [repo, branch, isDefault, cwd]
  InitIndex,          \* the indexes a behaviour may start with
  InitPulls,          \* the pull requests there are at the start
  Dead,               \* pull requests gh pr view no longer finds
  Resumable,          \* sessions whose SessionStart may fire again
  GHCap, WorkerCooldown, MetaCheckInterval, Horizon,
  MaxRows, MaxNow,    \* bounds: lines of an index, the last instant,
  MaxEvents           \*   hooks, faults and changes of the world

Launch ==
  [agent : Agent, detached : BOOLEAN, recheck : BOOLEAN, gc : BOOLEAN,
   pin : OrNone(SessionId)]

\* A line about which no run has recorded anything, as hooks and updates leave it.
Unworked(r) ==
  /\ ~r.pinned /\ ~r.checked /\ ~r.merged
  /\ r.id # None =>
       r.started # None /\ (r.ended # None => r.started <= r.ended)

ASSUME WorkerAssumption ==
  /\ Codex \subseteq Agent
  /\ Checkouts \subseteq [repo : OrNone(Repo), branch : OrNone(Branch),
                         isDefault : BOOLEAN, cwd : OrNone(Cwd)]
  /\ Launches \subseteq Launch
  /\ \A o \in Launches : o.pin # None => o.detached
  /\ Dead \subseteq Url /\ Resumable \subseteq SessionId
  /\ None \notin Proc \cup Launches \cup PRMeta
  /\ \A x \in InitIndex, a \in Agent : \A i \in DOMAIN x[a] : Unworked(x[a][i])
  /\ InitIndex \subseteq [Agent -> Seq(Row)]
  /\ InitPulls \in Seq([url : Url, repo : Repo, branch : Branch])
  /\ {GHCap, WorkerCooldown, MetaCheckInterval, Horizon, MaxRows, MaxNow,
      MaxEvents} \subseteq Nat
  /\ GHCap > 0
  /\ Stamp = 1..MaxNow /\ MaxNow > 0

VARIABLES
  index,    \* each agent's session-index.jsonl
  state,    \* each agent's state file, its backfill fields
  gate,     \* the holder of ~/.agent-telemetry/backfill.lock, or None
  pc, run,  \* how far each process is, and its local variables
  now,
  pulls,    \* GitHub: the user's pull requests, the oldest first
  merged,   \*   those merged so far
  cwds,     \* the directories that exist
  events    \* how much of MaxEvents is used

file   == <<index, state>>
world  == <<now, pulls, merged, cwds, events>>
vars   == <<file, gate, pc, run, world>>

-----------------------------------------------------------------------------
(* What a run computes from its snapshot *)

ZeroState == [offset |-> 0, lastMeta |-> 0, lastRun |-> 0, checks |-> <<>>]

Pending(s) == s.urls = {} /\ ~s.checked

\* Mutant: only the lines from the cursor on.
TargetFromCursor(snap, offset) == {i \in DOMAIN snap : i > offset}

\* The lines Phase 1 looks at: those from the cursor on, then the pending ones
\* before it.
Target(snap, offset) == {i \in DOMAIN snap : i > offset \/ Pending(snap[i])}

Offset(st, snap, o) ==
  IF st.offset > Len(snap) \/ o.recheck \/ o.gc THEN 0 ELSE st.offset

Candidate(s, recheck) ==
  /\ ~s.pinned /\ ~s.isDefault
  /\ s.urls = {} /\ (~s.checked \/ recheck)
  /\ s.repo # None /\ s.branch # None

\* 0 for a line without a readable time.
SessionTime(s) ==
  IF s.ended # None THEN s.ended ELSE IF s.started # None THEN s.started ELSE 0

\* One lookup serves the candidates of a (repo, branch), here the lines on; it
\* runs in the directory of the one that comes last.
GroupOf(snap, offset, on) ==
  LET before == {i \in on : i <= offset}
      s      == snap[Max(IF before # {} THEN before ELSE on)]
  IN  [repo   |-> s.repo,
       branch |-> s.branch,
       ids    |-> {snap[i].id : i \in on} \ {None},
       cwd    |-> s.cwd,
       newest |-> Max({SessionTime(snap[i]) : i \in on})]

Groups(snap, offset, recheck) ==
  LET entries == {i \in Target(snap, offset) : Candidate(snap[i], recheck)}
      On(s)   == {i \in entries : snap[i].repo = s.repo /\ snap[i].branch = s.branch}
  IN  {GroupOf(snap, offset, On(snap[i])) : i \in entries}

\* The newest cap groups; groups equally new come in any order.
NewestFirst(groups, cap) ==
  {chosen \in SUBSET groups :
     /\ Cardinality(chosen) = Min({cap, Cardinality(groups)})
     /\ \A g \in chosen, h \in groups \ chosen : g.newest >= h.newest}

\* The pull requests Phase 2 may look at.
OpenUrls(snap) ==
  {snap[i].last : i \in {j \in DOMAIN snap : snap[j].urls # {} /\ ~snap[j].merged}}

\* When u was last checked, relative to the others; 0 when it never was.
Age(checks, u) == SelectInSeq(checks, LAMBDA v : v = u)

\* Mutant: any cap pull requests, however recently they were checked.
AnyFirst(urls, checks, cap) ==
  {chosen \in SUBSET urls : Cardinality(chosen) = Min({cap, Cardinality(urls)})}

OldestFirst(urls, checks, cap) ==
  {chosen \in SUBSET urls :
     /\ Cardinality(chosen) = Min({cap, Cardinality(urls)})
     /\ \A u \in chosen, v \in urls \ chosen : Age(checks, u) <= Age(checks, v)}

Checked(checks, u) == Append(SelectSeq(checks, LAMBDA v : v # u), u)

Meta(u) == [merged |-> u \in merged, reviews |-> 0, title |-> None]

\* What gh pr list answers in a checkout of repo, None for nothing.  Remotes
\* that differ by .git are one repository.
PullOf(repo, branch) ==
  LET i == SelectLastInSeq(pulls, LAMBDA q : /\ q.repo = NormalizeRepo[repo]
                                             /\ q.branch = branch)
  IN  IF repo = None \/ i = 0 THEN None ELSE pulls[i].url

-----------------------------------------------------------------------------
(* Runs *)

\* The local variables of runForAgent: the command line, the snapshot, the
\* state it will save, the lookups still to make, the changes collected, and
\* how many gh calls it made.
IdleRun ==
  [args |-> None, snap |-> <<>>, st |-> ZeroState, groups |-> {}, urls |-> {},
   batch |-> EmptyBatch, gh |-> 0]

\* A behaviour starts when the youngest line was written.
LastInstant ==
  Max({1} \cup UNION {{SessionTime(index[a][i]) : i \in DOMAIN index[a]} : a \in Agent})

Init ==
  /\ index \in InitIndex
  /\ state = [a \in Agent |-> ZeroState]
  /\ gate = None
  /\ pc = [p \in Proc |-> "idle"]
  /\ run = [p \in Proc |-> IdleRun]
  /\ now = LastInstant
  /\ pulls = InitPulls
  /\ merged = {}
  /\ cwds = {c.cwd : c \in Checkouts} \ {None}
  /\ events = 0

\* A hook, a fault or a change of the world, of which there are MaxEvents.
Event == events < MaxEvents /\ events' = events + 1

Args(p) == run[p].args
Agt(p)  == run[p].args.agent
Is(p, from, to) == pc[p] = from /\ pc' = [pc EXCEPT ![p] = to]

\* The run returns; its deferred unlock is step Exit.
Leave(p) ==
  /\ pc' = [pc EXCEPT ![p] = "exit"]
  /\ run' = [run EXCEPT ![p] = IdleRun]

\* A Stop hook spawns a worker, or a user starts `backfill`.  Without an index
\* file there is nothing to do.
Start(p) ==
  /\ pc[p] = "idle"
  /\ \E o \in Launches :
       /\ index[o.agent] # <<>>
       /\ run' = [run EXCEPT ![p].args = o]
       /\ pc' = [pc EXCEPT ![p] = IF o.detached THEN "gate" ELSE "read"]
  /\ UNCHANGED <<file, gate, world>>

\* Mutant: no single-flight lock.
TakeGateHeld(p) ==
  /\ Is(p, "gate", "read")
  /\ gate' = p
  /\ UNCHANGED <<file, run, world>>

TakeGate(p) ==
  /\ gate = None
  /\ Is(p, "gate", "read")
  /\ gate' = p
  /\ UNCHANGED <<file, run, world>>

\* Another worker is running: this one leaves.
SkipGate(p) ==
  /\ pc[p] = "gate"
  /\ gate # None
  /\ Leave(p)
  /\ UNCHANGED <<file, gate, world>>

ReadIndex(p) ==
  /\ Is(p, "read", "load")
  /\ run' = [run EXCEPT ![p].snap = index[Agt(p)]]
  /\ UNCHANGED <<file, gate, world>>

CoolingDown(p) ==
  LET last == state[Agt(p)].lastRun
  IN  /\ Args(p).detached /\ ~Args(p).recheck /\ ~Args(p).gc
      /\ last # 0 /\ now - last < WorkerCooldown

Skip(p) ==
  /\ pc[p] = "load"
  /\ CoolingDown(p)
  /\ Leave(p)
  /\ UNCHANGED <<file, gate, world>>

ReadState(p) ==
  /\ Is(p, "load", "pin")
  /\ ~CoolingDown(p)
  /\ run' = [run EXCEPT ![p].st = state[Agt(p)]]
  /\ UNCHANGED <<file, gate, world>>

\* The first line of the session the Stop hook named, or None.
PinLine(p) ==
  LET i == SelectInSeq(run[p].snap, LAMBDA s : s.id = Args(p).pin)
  IN  IF Args(p).pin = None \/ Args(p).gc \/ i = 0 THEN None ELSE run[p].snap[i]

\* Mutant: a pinned session is pinned anew at every Stop.
WantsPinAgain(p) ==
  LET s == PinLine(p)
  IN  s # None /\ s.branch # None /\ ~s.isDefault

WantsPin(p) ==
  LET s == PinLine(p)
  IN  s # None /\ ~s.pinned /\ s.branch # None /\ ~s.isDefault

NoPin(p) ==
  /\ Is(p, "pin", "collect")
  /\ ~WantsPin(p)
  /\ UNCHANGED <<file, gate, run, world>>

\* The checkout is gone, or gh fails, times out or knows no pull request.
PinUnknown(p) ==
  LET here == PinLine(p).cwd \in cwds
  IN  /\ Is(p, "pin", "collect")
      /\ WantsPin(p)
      /\ run' = [run EXCEPT ![p].gh = IF here THEN 1 ELSE 0]
      /\ UNCHANGED <<file, gate, world>>

PinFound(p) ==
  /\ Is(p, "pin", "collect")
  /\ WantsPin(p)
  /\ LET s == PinLine(p)
         u == PullOf(s.repo, s.branch)
         b == [run[p].batch EXCEPT !.pins[s.id] = u, !.metas[u] = Meta(u)]
     IN  /\ s.cwd \in cwds /\ u # None
         /\ run' = [run EXCEPT ![p].gh = 1, ![p].batch = b]
  /\ UNCHANGED <<file, gate, world>>

\* The pin takes one off the cap, even if its checkout was gone.
PinCost(p) == IF WantsPin(p) THEN 1 ELSE 0

AllGroups(p) ==
  LET r == run[p]
  IN  Groups(r.snap, Offset(r.st, r.snap, r.args), r.args.recheck)

\* Mutant: the pin is not counted.
CollectUncounted(p) ==
  /\ Is(p, "collect", "groups")
  /\ ~Args(p).gc
  /\ \E chosen \in IF Args(p).recheck THEN {AllGroups(p)}
                   ELSE NewestFirst(AllGroups(p), GHCap) :
       run' = [run EXCEPT ![p].groups = chosen]
  /\ UNCHANGED <<file, gate, world>>

\* Phase 1 begins: the groups to look up, cut to what the pin left of the cap.
Collect(p) ==
  /\ Is(p, "collect", "groups")
  /\ ~Args(p).gc
  /\ \E chosen \in IF Args(p).recheck THEN {AllGroups(p)}
                   ELSE NewestFirst(AllGroups(p), GHCap - PinCost(p)) :
       run' = [run EXCEPT ![p].groups = chosen]
  /\ UNCHANGED <<file, gate, world>>

\* backfill --gc: no lookups, pending sessions older than the horizon retire.
CollectGarbage(p) ==
  LET Old(id) == \E i \in DOMAIN run[p].snap :
                   LET s == run[p].snap[i]
                   IN  /\ s.id = id /\ Candidate(s, FALSE)
                       /\ SessionTime(s) # 0 /\ now - SessionTime(s) >= Horizon
  IN  /\ Is(p, "collect", "groups")
      /\ Args(p).gc
      /\ run' = [run EXCEPT ![p].batch.checked = {id \in SessionId : Old(id)}]
      /\ UNCHANGED <<file, gate, world>>

\* The lookup's directory is gone: its whole group is given up.
GroupGone(p, g) ==
  /\ pc[p] = "groups" /\ g \in run[p].groups
  /\ g.cwd \notin cwds
  /\ run' = [run EXCEPT ![p].groups = @ \ {g}, ![p].batch.checked = @ \cup g.ids]
  /\ UNCHANGED <<file, gate, pc, world>>

\* Mutant: a lookup without an answer gives the group up.
GroupUnknownGivenUp(p, g) ==
  /\ pc[p] = "groups" /\ g \in run[p].groups
  /\ g.cwd \in cwds
  /\ run' = [run EXCEPT ![p].groups = @ \ {g}, ![p].gh = @ + 1,
                        ![p].batch.checked = @ \cup g.ids]
  /\ UNCHANGED <<file, gate, pc, world>>

\* gh fails, times out or finds nothing: the group stays pending.
GroupUnknown(p, g) ==
  /\ pc[p] = "groups" /\ g \in run[p].groups
  /\ g.cwd \in cwds
  /\ run' = [run EXCEPT ![p].groups = @ \ {g}, ![p].gh = @ + 1]
  /\ UNCHANGED <<file, gate, pc, world>>

GroupFound(p, g) ==
  LET u == PullOf(g.repo, g.branch)
      b == [run[p].batch EXCEPT
              !.urls = [id \in SessionId |-> IF id \in g.ids THEN <<u>> ELSE @[id]],
              !.metas[u] = Meta(u)]
  IN  /\ pc[p] = "groups" /\ g \in run[p].groups
      /\ g.cwd \in cwds /\ u # None
      /\ run' = [run EXCEPT ![p].groups = @ \ {g}, ![p].gh = @ + 1, ![p].batch = b]
      /\ UNCHANGED <<file, gate, pc, world>>

\* For Codex, ended_at comes from the last event of the transcript where a
\* fresh read of the index finds it empty.
FillEnds(p) ==
  LET rows == index[Agt(p)]
      LastEvents(id) ==
        {None} \cup {t \in Stamp : \E i \in DOMAIN rows :
           /\ rows[i].id = id /\ rows[i].ended = None
           /\ rows[i].started <= t /\ t <= now}
  IN  /\ Is(p, "groups", "meta")
      /\ run[p].groups = {}
      /\ Agt(p) \in Codex
      /\ \E ends \in [SessionId -> OrNone(Stamp)] :
           /\ \A id \in SessionId : ends[id] \in LastEvents(id)
           /\ run' = [run EXCEPT ![p].batch.ends = ends]
      /\ UNCHANGED <<file, gate, world>>

NoEnds(p) ==
  /\ Is(p, "groups", "meta")
  /\ run[p].groups = {}
  /\ Agt(p) \notin Codex
  /\ UNCHANGED <<file, gate, run, world>>

MetaIsDue(p) ==
  LET last == run[p].st.lastMeta
  IN  /\ ~Args(p).gc
      /\ last = 0 \/ now - last >= MetaCheckInterval \/ Args(p).recheck

\* Mutant: the end of the cooldown is saved instead of its start.
AdvanceToExpiry(p) ==
  [run[p].st EXCEPT
     !.offset   = Len(run[p].snap),
     !.lastMeta = IF MetaIsDue(p) THEN now ELSE @,
     !.lastRun  = IF Args(p).detached THEN now + WorkerCooldown ELSE @]

\* The state a run saves at its end, but for the checked URLs.
Advance(p) ==
  [run[p].st EXCEPT
     !.offset   = Len(run[p].snap),
     !.lastMeta = IF MetaIsDue(p) THEN now ELSE @,
     !.lastRun  = IF Args(p).detached THEN now ELSE @]

\* Phase 2 begins: the open pull requests to look at, the longest unchecked
\* first; the cap is the full one again.  The snapshot has served.
StartMeta(p) ==
  /\ Is(p, "meta", "urls")
  /\ \E chosen \in IF MetaIsDue(p)
                   THEN OldestFirst(OpenUrls(run[p].snap), run[p].st.checks, GHCap)
                   ELSE {{}} :
       run' = [run EXCEPT ![p].urls = chosen, ![p].st = Advance(p),
                          ![p].snap = <<>>]
  /\ UNCHANGED <<file, gate, world>>

UrlUnknown(p, u) ==
  /\ pc[p] = "urls" /\ u \in run[p].urls
  /\ run' = [run EXCEPT ![p].urls = @ \ {u}, ![p].gh = @ + 1]
  /\ UNCHANGED <<file, gate, pc, world>>

UrlFound(p, u) ==
  /\ pc[p] = "urls" /\ u \in run[p].urls
  /\ u \notin Dead
  /\ run' = [run EXCEPT ![p].urls = @ \ {u}, ![p].gh = @ + 1,
               ![p].batch.metas[u] = Meta(u),
               ![p].st.checks = Checked(@, u)]
  /\ UNCHANGED <<file, gate, pc, world>>

\* The lookups are done; nothing was found.
NothingFound(p) ==
  /\ Is(p, "urls", "save")
  /\ run[p].urls = {} /\ run[p].batch = EmptyBatch
  /\ UNCHANGED <<file, gate, run, world>>

\* One locked rewrite applies the batch to the index as it is now.
Apply(p) ==
  /\ Is(p, "urls", "save")
  /\ run[p].urls = {} /\ run[p].batch # EmptyBatch
  /\ \E rows \in ApplyBatchToRaw(index[Agt(p)], run[p].batch) :
       index' = [index EXCEPT ![Agt(p)] = rows]
  /\ UNCHANGED <<state, gate, run, world>>

\* A hook holds the index lock: the run ends, its results and its state unsaved.
Busy(p) ==
  /\ pc[p] = "urls"
  /\ run[p].urls = {} /\ run[p].batch # EmptyBatch
  /\ Leave(p)
  /\ UNCHANGED <<file, gate, world>>

Save(p) ==
  /\ pc[p] = "save"
  /\ state' = [state EXCEPT ![Agt(p)] = run[p].st]
  /\ Leave(p)
  /\ UNCHANGED <<index, gate, world>>

\* An error of any kind ends a run the same way.
Fail(p) ==
  /\ Event
  /\ pc[p] \in {"gate", "read", "load", "urls", "save"}
  /\ Leave(p)
  /\ UNCHANGED <<file, gate, now, pulls, merged, cwds>>

\* A worker that returns unlocks the gate; the kernel does it for one that dies.
Exit(p) ==
  /\ Is(p, "exit", "idle")
  /\ gate' = IF gate = p THEN None ELSE gate
  /\ UNCHANGED <<file, run, world>>

Crash(p) ==
  /\ Event
  /\ pc[p] # "idle"
  /\ pc' = [pc EXCEPT ![p] = "idle"]
  /\ run' = [run EXCEPT ![p] = IdleRun]
  /\ gate' = IF gate = p THEN None ELSE gate
  /\ UNCHANGED <<file, now, pulls, merged, cwds>>

-----------------------------------------------------------------------------
(* The hooks and the world *)

\* A call that changes no line is no step.
Hook(a, rows) ==
  /\ Event
  /\ rows # index[a]
  /\ index' = [index EXCEPT ![a] = rows]
  /\ UNCHANGED <<state, gate, pc, run, now, pulls, merged, cwds>>

SessionStart(a) ==
  \E id \in SessionId, u \in User, c \in Checkouts :
    /\ Len(index[a]) < MaxRows
    /\ id \in Resumable \/ \A i \in DOMAIN index[a] : index[a][i].id # id
    /\ c.cwd \in cwds
    /\ Hook(a, Append(index[a], StartedRow(id, u, c, now)))

\* SessionEnd of Claude, Stop of Codex.
SessionEnd(a) ==
  \E id \in SessionId :
    Hook(a, ApplyUpdateEnd(index[a], index[a], [x \in {id} |-> now]))

\* gh pr create printed a URL, or a user runs `update`.
Update(a) ==
  \E k \in DOMAIN pulls :
    \/ \E id \in SessionId :
         Hook(a, ApplyUpdate(index[a], index[a], [x \in {id} |-> <<pulls[k].url>>]))
    \/ Hook(a, UpdateByBranch(index[a], pulls[k].repo, pulls[k].branch, pulls[k].url))

OpenPull ==
  /\ Event
  /\ \E u \in Url, c \in Checkouts :
       /\ \A k \in DOMAIN pulls : pulls[k].url # u
       /\ c.repo # None /\ c.branch # None /\ ~c.isDefault
       /\ pulls' = Append(pulls, [url |-> u, repo |-> NormalizeRepo[c.repo],
                                  branch |-> c.branch])
  /\ UNCHANGED <<file, gate, pc, run, now, merged, cwds>>

Merge ==
  /\ Event
  /\ \E k \in DOMAIN pulls :
       pulls[k].url \notin merged /\ merged' = merged \cup {pulls[k].url}
  /\ UNCHANGED <<file, gate, pc, run, now, pulls, cwds>>

RemoveCwd ==
  /\ Event
  /\ \E d \in cwds : cwds' = cwds \ {d}
  /\ UNCHANGED <<file, gate, pc, run, now, pulls, merged>>

Tick ==
  /\ Event
  /\ now < MaxNow
  /\ now' = now + 1
  /\ UNCHANGED <<file, gate, pc, run, pulls, merged, cwds>>

-----------------------------------------------------------------------------
\* The steps of a run under way.
RunStep(p) ==
  \/ TakeGate(p) \/ SkipGate(p) \/ ReadIndex(p) \/ Skip(p) \/ ReadState(p)
  \/ NoPin(p) \/ PinUnknown(p) \/ PinFound(p)
  \/ Collect(p) \/ CollectGarbage(p)
  \/ \E g \in run[p].groups : GroupGone(p, g) \/ GroupUnknown(p, g) \/ GroupFound(p, g)
  \/ FillEnds(p) \/ NoEnds(p) \/ StartMeta(p)
  \/ \E u \in run[p].urls : UrlUnknown(p, u) \/ UrlFound(p, u)
  \/ NothingFound(p) \/ Apply(p) \/ Busy(p) \/ Save(p) \/ Exit(p)

Next ==
  \/ \E p \in Proc : Start(p) \/ RunStep(p) \/ Fail(p) \/ Crash(p)
  \/ \E a \in Agent : SessionStart(a) \/ SessionEnd(a) \/ Update(a)
  \/ OpenPull \/ Merge \/ RemoveCwd \/ Tick

Spec == Init /\ [][Next]_vars

\* Stops keep coming, a run takes its steps, gh does not fail the same lookup
\* forever, and hooks do not hold the index lock whenever a run has found a
\* pull request for the same session or the state of the same pull request.
FairSpec ==
  /\ Spec
  /\ \A p \in Proc :
       /\ WF_vars(Start(p)) /\ WF_vars(RunStep(p))
       /\ \A r \in Repo, b \in Branch :
            SF_vars(\E g \in run[p].groups :
                      g.repo = r /\ g.branch = b /\ GroupFound(p, g))
       /\ \A u \in Url : SF_vars(UrlFound(p, u))
       /\ \A id \in SessionId : SF_vars(Apply(p) /\ run[p].batch.urls[id] # <<>>)
       /\ \A u \in Url : SF_vars(Apply(p) /\ run[p].batch.metas[u] # None)

-----------------------------------------------------------------------------
Phases == {"idle", "gate", "read", "load", "pin", "collect", "groups", "meta",
           "urls", "save", "exit"}

\* Every variable keeps its type.
TypeOK ==
  /\ index \in [Agent -> Seq(Row)]
  /\ \A a \in Agent : state[a].lastRun \in 0..MaxNow /\ state[a].lastMeta \in 0..MaxNow
  /\ gate \in OrNone(Proc)
  /\ pc \in [Proc -> Phases]
  /\ now \in 1..MaxNow
  /\ merged \subseteq {pulls[k].url : k \in DOMAIN pulls}
  /\ cwds \subseteq Cwd
  /\ \A p \in Proc : pc[p] \in {"idle", "exit"} <=> Args(p) = None

Rows(a) == DOMAIN index[a]

Working == {"read", "load", "pin", "collect", "groups", "meta", "urls", "save"}

\* However many Stops of however many agents come at once, at most one worker
\* is past the single-flight lock, and the lock is never left behind.
SingleFlight ==
  \A p \in Proc :
    /\ pc[p] \in Working /\ Args(p).detached => gate = p
    /\ gate = p => pc[p] \in Working \cup {"exit"}

\* Once a session is pinned its pull request never changes: neither a later
\* pull request on the same branch, nor a hook, nor a run that looked the
\* session up before the pin.
PinForever ==
  [][\A a \in Agent : \A i \in Rows(a) :
       index[a][i].pinned =>
         /\ index'[a][i].pinned
         /\ index'[a][i].last = index[a][i].last
         /\ index'[a][i].urls = index[a][i].urls]_vars

\* A session with one pull request is recorded as merged only if that pull
\* request is: a batch that replaces the URL replaces the merge state with it.
MergedIsTrue ==
  \A a \in Agent : \A i \in Rows(a) :
    LET r == index[a][i]
    IN  r.merged /\ r.urls = {r.last} => r.last \in merged

\* A session a worker pins gets a pull request of the branch it started on,
\* wherever it was resumed.
PinnedToOwnBranch ==
  \A a \in Agent : \A i \in Rows(a) :
    LET r == index[a][i]
    IN  r.pinned /\ (\A j \in 1..(i - 1) : index[a][j].id # r.id) =>
          \E k \in DOMAIN pulls : /\ pulls[k].url = r.last
                                  /\ pulls[k].branch = r.branch
                                  /\ pulls[k].repo = NormalizeRepo[r.repo]

\* Sessions are given up for a reason: a checkout of a branch they were on is
\* gone, or --gc found them older than the horizon.  A lookup that failed or
\* found no pull request yet is never one.
Reason(a, id) ==
  \E i \in Rows(a) :
    LET r == index[a][i]
    IN  /\ r.id = id
        /\ \/ now - r.started >= Horizon
           \/ \E j \in Rows(a) : /\ index[a][j].repo = r.repo
                                 /\ index[a][j].branch = r.branch
                                 /\ index[a][j].cwd \notin cwds

CheckedHasReason ==
  \A a \in Agent : \A i \in Rows(a) :
    index[a][i].checked => Reason(a, index[a][i].id)

\* Whatever cursor an earlier run saved, Phase 1 reconsiders every session of
\* the snapshot that still waits for its pull request.
NoneForgotten ==
  \A p \in Proc : pc[p] = "collect" =>
    \A i \in DOMAIN run[p].snap :
      LET s == run[p].snap[i]
      IN  Candidate(s, FALSE) /\ s.id # None =>
            \E g \in AllGroups(p) : /\ g.repo = s.repo /\ g.branch = s.branch
                                    /\ s.id \in g.ids

\* A worker makes at most GHCap lookups for the pin and Phase 1 together, and
\* as many again in Phase 2.
LookupsBounded ==
  \A p \in Proc :
    LET r == run[p]
        Capped == pc[p] \in Working /\ Args(p).detached /\ ~Args(p).recheck
    IN  Capped => /\ pc[p] \in {"groups", "meta"} =>
                       r.gh + Cardinality(r.groups) <= GHCap
                  /\ r.gh + Cardinality(r.urls) <= 2 * GHCap

\* A session waits for a pull request that exists while a checkout is there.
Waits(a, i) ==
  /\ i \in Rows(a)
  /\ Candidate(index[a][i], FALSE)
  /\ PullOf(index[a][i].repo, index[a][i].branch) # None

\* A pull request opened after the session's last Stop is found by a later run.
PullIsFound ==
  \A a \in Agent, i \in 1..MaxRows :
    Waits(a, i) ~> (index[a][i].urls # {} \/ index[a][i].cwd \notin cwds)

\* A merge is noticed: no open pull request is passed over forever because
\* there are more of them than one run may look at.
MergeIsSeen ==
  \A a \in Agent, i \in 1..MaxRows, u \in Url \ Dead :
    (i \in Rows(a) /\ index[a][i].urls = {u} /\ u \in merged) ~>
      (index[a][i].merged \/ index[a][i].urls # {u})
=============================================================================
