------------------------------ MODULE EventStore ------------------------------
(***************************************************************************)
(* `agent-telemetry sync-db`: how session rows and transcripts become the  *)
(* events of the local database, and what the views over them show, here   *)
(* and on the server that receives the events.                             *)
(*                                                                         *)
(* A sync-db checks the recorded schema hash, rebuilds the database or     *)
(* repairs its views, statement by statement, and then writes, in one      *)
(* transaction, the events of the sessions of each agent: it reads an      *)
(* agent's index, inserts session by session, parsing the transcript, and  *)
(* goes on with the next.  The first insert takes the write lock, which    *)
(* other processes wait for; the first index is read before that.  Hooks   *)
(* and cron start sync-db at any time, so several run at once.             *)
(*                                                                         *)
(* The index is module SessionIndex's, the flush EventDelivery's: here the *)
(* file goes through some contents, and a flush is one with --full, which  *)
(* gives the server whatever it lacks.  Tables are sequences of distinct   *)
(* events (event_id is a hash of the content) by local_sequence.           *)
(***************************************************************************)
EXTENDS Absent, Naturals, Sequences, SequencesExt, FiniteSetsExt

CONSTANTS
  Agent, Session, AgentOf,  \* the sessions and the agent each belongs to
  Detected,     \* the agents in the order sync-db takes them
  IndexOf,      \* per agent, the contents its index file has, one after the other
  Dummy,        \* the pull request of the examples, never a real one
  Syncer,       \* identities of sync-db processes
  InitHash,     \* the hashes the database may have at first: None for a new file
  TornRebuilds, \* may a rebuild be killed while another one runs?
  MaxSaid,      \* bounds: what each transcript can say,
  MaxSerial,    \*   local sequences told apart,
  MaxMishaps    \*   deletions of transcripts and killed or failing processes

\* The lines of all these contents.
IndexLine == UNION {UNION {ToSet(IndexOf[a][k]) : k \in DOMAIN IndexOf[a]} : a \in Agent}

ASSUME StoreAssumption ==
  /\ AgentOf \in [Session -> Agent]
  /\ IsFiniteSet(Agent) /\ Detected \in SetToSeqs(Agent)
  /\ \A a \in Agent : IndexOf[a] \in Seq(Seq(IndexLine)) \ {<<>>}
  /\ \A a \in Agent : \A k \in DOMAIN IndexOf[a] : \A i \in DOMAIN IndexOf[a][k] :
       IndexOf[a][k][i].id \in {None} \cup {s \in Session : AgentOf[s] = a}
  /\ InitHash \subseteq {None, "old", "current"}
  /\ TornRebuilds \in BOOLEAN
  /\ MaxSaid \in [Session -> Nat]
  /\ {MaxSerial, MaxMishaps} \subseteq Nat
  /\ None \notin Syncer \cup Session \cup {"unset", "old", "current"}

VARIABLES
  index,     \* which of its contents each agent's session index has
  said,      \* how much each transcript says, or None once it is deleted
  hash,      \* the database: the recorded schema hash, or None,
  events,    \*   the events table, or None,
  views,     \*   whether all views and triggers are there
  serial,    \* the last local_sequence given out,
  cursor,    \*   and the one the flush to the server is at
  lock,      \* the process that holds the write lock, or None
  pc, run,   \* how far each sync-db is, and its local variables
  server,    \* the events table of the server
  mishaps    \* how many there have been

database == <<hash, events, views, serial>>
sources == <<index, said>>
sink == <<cursor, server>>
vars == <<sources, database, lock, pc, run, sink, mishaps>>

LinesOf(a) == IndexOf[a][index[a]]

-----------------------------------------------------------------------------
(* From the sources to events *)

\* The sessions of an index; of several lines of one the last counts.
SessionsIn(lines) == {lines[i].id : i \in DOMAIN lines} \ {None}
LastLine(lines, s) == lines[Max({i \in DOMAIN lines : lines[i].id = s})]

\* The last URL counts, the dummy is none, and a title goes with a URL.
PROf(r) ==
  LET url == IF r.urls = <<>> \/ Last(r.urls) = Dummy THEN None ELSE Last(r.urls)
  IN  [url |-> url, title |-> IF url = None THEN None ELSE r.title, merged |-> r.merged]

\* transcript.Parse: a transcript that cannot be opened says nothing.
StatsOf(n) == IF n = None THEN 0 ELSE n

Event(s, kind, content) == [of |-> s, kind |-> kind, content |-> content]

\* What the triggers insert for a session, in their order.
EventsOf(s, r, n) ==
  <<Event(s, "started", None)>>
  \o (IF r.ended # None THEN <<Event(s, "ended", r.ended)>> ELSE <<>>)
  \o <<Event(s, "pr", PROf(r)), Event(s, "scanned", StatsOf(n))>>

\* The rows of a table but those that are gone, in their order: the n-th is the
\* one with n kept rows up to it.
Without(table, gone) ==
  LET KeptUpTo(i) == {j \in 1..i : table[j] \notin gone}
      Nth(n) == CHOOSE i \in KeptUpTo(Len(table)) : Cardinality(KeptUpTo(i)) = n
  IN  [n \in 1..Cardinality(KeptUpTo(Len(table))) |-> table[Nth(n)]]

\* Mutant: an event that is there stays where it is.
InsertedOrIgnored(table, es) ==
  table \o Without(es, ToSet(table))

\* Mutant: the events table takes an event again.
InsertedAgain(table, es) == table \o es

\* sync-db writes with INSERT OR REPLACE into the views.  The triggers' own
\* INSERT OR IGNORE is overridden by that, as SQLite does for all statements of
\* a trigger: an event that is there is deleted and gets a new local_sequence.
Inserted(table, es) ==
  Without(table, ToSet(es)) \o es

\* Mutant: rows that a map gives back are stored in any order.
ReceivedBackwards(table, es) ==
  table \o Reverse(Without(es, ToSet(table)))

\* The server's own INSERT OR IGNORE has no trigger around it.
Received(table, es) ==
  table \o Without(es, ToSet(table))

\* The events there can be; no table is none of their tables.
Kind == {"started", "ended", "pr", "scanned"}
Content == Nat \cup {r.ended : r \in IndexLine} \cup {PROf(r) : r \in IndexLine} \cup {None}
EventRow == [of : Session, kind : Kind, content : Content]

ASSUME NoTableAssumption == None \notin Seq(EventRow)

(* What the views show of a session: the latest event of a kind. *)
Latest(table, s, kind) ==
  LET at == {i \in DOMAIN table : table[i].of = s /\ table[i].kind = kind}
  IN  IF at = {} THEN None ELSE table[Max(at)].content

-----------------------------------------------------------------------------
IdleRun ==
  [todo |-> <<>>, rebuild |-> FALSE, lines |-> <<>>, left |-> {}, pending |-> <<>>, wrote |-> <<>>]

\* A database of an earlier version is empty here: its rows are dropped before
\* any sync reads them.  A flush may have sent some.
Init ==
  /\ index = [a \in Agent |-> 1]
  /\ said = [s \in Session |-> 0]
  /\ hash \in InitHash
  /\ events = IF hash = None THEN None ELSE <<>>
  /\ views = (hash # None)
  /\ serial \in IF hash = "old" THEN 0..MaxSerial ELSE {0}
  /\ cursor \in 0..serial
  /\ lock = None
  /\ pc = [p \in Syncer |-> "idle"]
  /\ run = [p \in Syncer |-> IdleRun]
  /\ server = <<>>
  /\ mishaps = 0

-----------------------------------------------------------------------------
(* The hooks, the backfill and the agents, and the flush *)

\* The index of an agent changes: module SessionIndex says by what.
WriteIndex(a) ==
  /\ index[a] < Len(IndexOf[a])
  /\ index' = [index EXCEPT ![a] = @ + 1]
  /\ UNCHANGED <<said, database, lock, pc, run, sink, mishaps>>

\* A transcript only grows, until it is deleted.
Say(s) ==
  /\ said[s] # None /\ said[s] < MaxSaid[s]
  /\ said' = [said EXCEPT ![s] = @ + 1]
  /\ UNCHANGED <<index, database, lock, pc, run, sink, mishaps>>

DeleteTranscript(s) ==
  /\ mishaps < MaxMishaps /\ mishaps' = mishaps + 1
  /\ said[s] # None
  /\ said' = [said EXCEPT ![s] = None]
  /\ UNCHANGED <<index, database, lock, pc, run, sink>>

\* A flush to a server that answers: rows by local_sequence.
Flush ==
  /\ events # None /\ events # <<>>
  /\ server' = Received(server, events)
  /\ cursor' = serial
  /\ sink' # sink
  /\ UNCHANGED <<sources, database, lock, pc, run, mishaps>>

-----------------------------------------------------------------------------
(* ensureSchema.  Each statement is a transaction of its own.              *)

Is(p, from, to) == pc[p] = from /\ pc' = [pc EXCEPT ![p] = to]

\* A sync-db of all agents, or with --agent of one.
Asked == {Detected} \cup {<<a>> : a \in Agent}

Begin(p, agents) ==
  /\ Is(p, "idle", "hash")
  /\ run' = [run EXCEPT ![p].todo = agents]
  /\ UNCHANGED <<sources, database, lock, sink, mishaps>>

\* An error ends the process; its transaction is rolled back.
Ends(p) ==
  /\ pc' = [pc EXCEPT ![p] = "idle"]
  /\ run' = [run EXCEPT ![p] = IdleRun]
  /\ lock' = IF lock = p THEN None ELSE lock

\* The hash matches: nothing to do, or EnsureViews finds a view missing and
\* repairs them all if the events table is there.
CheckHash(p) ==
  /\ pc[p] = "hash"
  /\ \/ hash = "current" /\ views /\ Is(p, "hash", "write") /\ UNCHANGED <<lock, run>>
     \/ hash = "current" /\ ~views /\ events # None
          /\ Is(p, "hash", "drop_views") /\ UNCHANGED <<lock, run>>
     \/ hash = "current" /\ ~views /\ events = None /\ Ends(p)
     \/ hash # "current" /\ Is(p, "hash", "drop_legacy")
          /\ run' = [run EXCEPT ![p].rebuild = TRUE] /\ UNCHANGED lock
  /\ UNCHANGED <<sources, database, sink, mishaps>>

\* A statement that changes the schema waits for the write lock.
Statement(p, from, to) ==
  /\ lock = None
  /\ Is(p, from, to)
  /\ UNCHANGED <<sources, lock, run, sink, mishaps>>

DropLegacy(p) ==
  /\ Statement(p, "drop_legacy", "drop_events")
  /\ views' = FALSE
  /\ UNCHANGED <<hash, events, serial>>

\* AUTOINCREMENT starts again with the table.
DropEvents(p) ==
  /\ Statement(p, "drop_events", "drop_meta")
  /\ events' = None /\ serial' = 0
  /\ UNCHANGED <<hash, views>>

DropMeta(p) ==
  /\ Statement(p, "drop_meta", "create_meta")
  /\ hash' = None
  /\ UNCHANGED <<events, views, serial>>

\* CREATE TABLE fails when another rebuild has created the table.
CreateMeta(p) ==
  /\ hash = None
  /\ Statement(p, "create_meta", "create_events")
  /\ hash' = "unset"
  /\ UNCHANGED <<events, views, serial>>

CreateEvents(p) ==
  /\ events = None
  /\ Statement(p, "create_events", "drop_views")
  /\ events' = <<>>
  /\ UNCHANGED <<hash, views, serial>>

DropViews(p) ==
  /\ Statement(p, "drop_views", "create_views")
  /\ views' = FALSE
  /\ UNCHANGED <<hash, events, serial>>

CreateViews(p) ==
  /\ ~views
  /\ Statement(p, "create_views", IF run[p].rebuild THEN "write_hash" ELSE "write")
  /\ views' = TRUE
  /\ UNCHANGED <<hash, events, serial>>

\* Mutant: schema_meta is created for the hash if it is not there.
WriteHashAnyway(p) ==
  /\ Statement(p, "write_hash", "write")
  /\ hash' = "current"
  /\ UNCHANGED <<events, views, serial>>

WriteHash(p) ==
  /\ hash # None
  /\ Statement(p, "write_hash", "write")
  /\ hash' = "current"
  /\ UNCHANGED <<events, views, serial>>

StatementFails(p) ==
  /\ lock = None
  /\ \/ pc[p] = "create_meta" /\ hash # None
     \/ pc[p] = "create_events" /\ events # None
     \/ pc[p] = "create_views" /\ views
     \/ pc[p] = "write_hash" /\ hash = None
  /\ Ends(p)
  /\ UNCHANGED <<sources, database, sink, mishaps>>

-----------------------------------------------------------------------------
(* The transaction *)

\* The index of the next agent, when all sessions of the one before are written.
ReadIndex(p) ==
  /\ pc[p] = "write" /\ run[p].left = {} /\ run[p].todo # <<>>
  /\ run' = [run EXCEPT ![p].lines = LinesOf(Head(run[p].todo)),
                        ![p].left = SessionsIn(LinesOf(Head(run[p].todo))),
                        ![p].todo = Tail(@)]
  /\ UNCHANGED <<sources, database, lock, pc, sink, mishaps>>

\* Any session is next: a Go map holds them.  The first insert waits for the
\* write lock and keeps it; the transcript is parsed after it.
Insert(p, s) ==
  LET table == IF lock = p THEN run[p].pending ELSE events
  IN  /\ pc[p] = "write" /\ s \in run[p].left
      /\ lock \in {None, p} /\ lock' = p
      /\ events # None /\ views
      /\ \E es \in {EventsOf(s, LastLine(run[p].lines, s), said[s])} :
           run' = [run EXCEPT ![p].pending = Inserted(table, es),
                              ![p].wrote = @ \o es, ![p].left = @ \ {s}]
      /\ UNCHANGED <<sources, database, pc, sink, mishaps>>

InsertFails(p) ==
  /\ pc[p] = "write" /\ run[p].left # {} /\ lock \in {None, p}
  /\ events = None \/ ~views
  /\ Ends(p)
  /\ UNCHANGED <<sources, database, sink, mishaps>>

Commit(p) ==
  /\ pc[p] = "write" /\ run[p].left = {} /\ run[p].todo = <<>>
  /\ IF lock = p
     THEN /\ events' = run[p].pending
          /\ serial' = Min({MaxSerial, serial + Len(run[p].wrote)})
     ELSE UNCHANGED <<events, serial>>
  /\ Ends(p)
  /\ UNCHANGED <<sources, hash, views, sink, mishaps>>

\* p has dropped the events and not created them again.
Rebuilding(p) == pc[p] \in {"drop_meta", "create_meta", "create_events"}

\* A failure here leaves a database without events under the hash that another
\* rebuild has written or is going to write.
Torn(p) ==
  Rebuilding(p) /\ (hash = "current" \/ \E q \in Syncer \ {p} : run[q].rebuild)

\* An error of any other kind (a lock waited for too long, the disk) or a kill.
Fail(p) ==
  /\ mishaps < MaxMishaps /\ mishaps' = mishaps + 1
  /\ pc[p] # "idle"
  /\ Torn(p) => TornRebuilds
  /\ Ends(p)
  /\ UNCHANGED <<sources, database, sink>>

-----------------------------------------------------------------------------
EnsureSchema(p) ==
  \/ CheckHash(p) \/ DropLegacy(p) \/ DropEvents(p) \/ DropMeta(p)
  \/ CreateMeta(p) \/ CreateEvents(p) \/ DropViews(p) \/ CreateViews(p)
  \/ WriteHash(p) \/ StatementFails(p)

SyncStep(p) ==
  \/ EnsureSchema(p)
  \/ ReadIndex(p) \/ (\E s \in Session : Insert(p, s)) \/ InsertFails(p) \/ Commit(p)

Next ==
  \/ \E p \in Syncer :
       \/ \E agents \in Asked : Begin(p, agents)
       \/ SyncStep(p)
       \/ Fail(p)
  \/ \E a \in Agent : WriteIndex(a)
  \/ \E s \in Session : Say(s) \/ DeleteTranscript(s)
  \/ Flush

Spec == Init /\ [][Next]_vars

\* Each process takes its steps, and syncs of all agents are started for ever,
\* from some time on not while another one is at the schema: two of them in
\* step could drop each other's tables and views again and again.
Fairness ==
  /\ \A p \in Syncer : WF_vars(SyncStep(p))
  /\ SF_vars(\E p \in Syncer : Begin(p, Detected))
  /\ <>[][\A p, q \in Syncer : pc[p] = "idle" /\ pc'[p] = "hash" =>
            pc[q] \in {"idle", "write"}]_vars

-----------------------------------------------------------------------------
\* Every variable keeps its type; an event_id is unique.
TypeOK ==
  /\ index \in [Agent -> Nat] /\ \A a \in Agent : index[a] \in DOMAIN IndexOf[a]
  /\ \A s \in Session : said[s] \in 0..MaxSaid[s] \cup {None}
  /\ hash \in {None, "unset", "old", "current"}
  /\ events # None => IsInjective(events)
  /\ IsInjective(server)
  /\ views \in BOOLEAN /\ {serial, cursor} \subseteq 0..MaxSerial
  /\ lock \in Syncer \cup {None}
  /\ lock # None => pc[lock] = "write" /\ IsInjective(run[lock].pending)

\* What a sync-db has read is what the views show when it commits, a value that
\* was there before included.
ShowsWhatWasRead ==
  [][\A p \in Syncer : Commit(p) /\ lock = p =>
       \A e \in ToSet(run[p].wrote) : Latest(events', e.of, e.kind) = e.content]_vars

\* Transcripts are parsed under the write lock: whatever the order of syncs,
\* the server shows the same stats as the client once it has all events, until
\* a transcript is deleted.
ServerStatsAreCurrent ==
  events # None /\ ToSet(events) \subseteq ToSet(server) =>
    \A s \in Session :
      said[s] = None \/ Latest(events, s, "scanned") = None
        \/ Latest(server, s, "scanned") = Latest(events, s, "scanned")

\* A comment at the hash check: if it matches, the events table is current.
\* True unless a rebuild dies between two statements after another one ended.
HashMeansEvents ==
  hash = "current" => events # None \/ \E p \in Syncer : Rebuilding(p)

\* Once the sources rest, the views show them, whatever syncs overlapped, failed
\* or rebuilt the database before.
ViewsCatchUp ==
  <>[](\A a \in Agent : \A s \in SessionsIn(LinesOf(a)) :
         /\ events # None
         /\ Latest(events, s, "pr") = PROf(LastLine(LinesOf(a), s))
         /\ Latest(events, s, "scanned") = StatsOf(said[s]))

\* docs/design.md: a sync of contents that are there adds nothing to the table.
ResyncAddsNothing ==
  [][\A p \in Syncer : Commit(p) /\ ToSet(run[p].wrote) \subseteq ToSet(events)
       => serial' = serial]_vars

\* docs/spec.md: what is written gets numbers past the cursor, so that the next
\* flush sends it.
NewIsPastCursor ==
  [][\A p \in Syncer : Commit(p) /\ lock = p => serial >= cursor]_vars

\* docs/spec.md: on the server too the latest observation of a pull request
\* counts, and local_sequence is for auditing only.  So with all events there,
\* no sync on its way and the client's views true to the index, its views are.
ServerShowsLatest ==
  /\ events # None /\ ToSet(events) \subseteq ToSet(server)
  /\ \A p \in Syncer : pc[p] = "idle"
  => \A a \in Agent : \A s \in SessionsIn(LinesOf(a)) :
       LET pr == PROf(LastLine(LinesOf(a), s))
       IN  Latest(events, s, "pr") = pr => Latest(server, s, "pr") = pr
=============================================================================
