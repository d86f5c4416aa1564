--------------------------- MODULE LegacyMigration ---------------------------
(***************************************************************************)
(* The renaming of the files of the program's former name (internal/       *)
(* legacy), which backfill, sync-db and flush do before anything else.     *)
(* Commands run at the same time and may be killed between two renames.    *)
(*                                                                         *)
(* A file is what it holds: "old", data of the former program, "new", data *)
(* of this one; None if it is not there.                                   *)
(***************************************************************************)
EXTENDS Absent, Naturals, Sequences, SequencesExt, FiniteSets

CONSTANTS
  Command,      \* identities of commands
  InitFiles,    \* what may be there at first
  MaxKills      \* bound: commands killed

ASSUME MaxKills \in Nat

\* Mutant: the log before its database.
LogFirst == <<"wal", "shm", "db", "claude_state", "codex_state">>

\* The files in the order of the renames: the database before its write-ahead
\* log and its index of the log, and the state file of each agent.
defaultMigrations == <<"db", "wal", "shm", "claude_state", "codex_state">>

LegacyFile == ToSet(defaultMigrations)

ASSUME FilesAssumption ==
  /\ \A held \in SUBSET {"old", "new"} : held # None
  /\ InitFiles \subseteq [old : [LegacyFile -> {None, {"old"}}],
                          new : [LegacyFile -> {None, {"new"}}]]

VARIABLES
  files,  \* those with the old names and those with the new ones
  doing,  \* where each command is
  passed, \* how many of the renames it has passed
  kills

migrationVars == <<files, doing, passed, kills>>

-----------------------------------------------------------------------------
MigrationInit ==
  /\ files \in InitFiles
  /\ doing = [c \in Command |-> "idle"]
  /\ passed = [c \in Command |-> 0]
  /\ kills = 0

Plan(c) == defaultMigrations[passed[c] + 1]
Exists(which, f) == files[which][f] # None

Goes(c, from, to) == doing[c] = from /\ doing' = [doing EXCEPT ![c] = to]

StartCommand(c) ==
  /\ Goes(c, "idle", "from")
  /\ passed' = [passed EXCEPT ![c] = 0]
  /\ UNCHANGED <<files, kills>>

\* On to the next file, whether this one was renamed or an error noted.
Continues(c) ==
  /\ passed' = [passed EXCEPT ![c] = @ + 1]
  /\ doing' = [doing EXCEPT ![c] = IF passed'[c] = Len(defaultMigrations) THEN "run" ELSE "from"]

StatFrom(c) ==
  /\ doing[c] = "from"
  /\ \/ Exists("old", Plan(c)) /\ Goes(c, "from", "to") /\ UNCHANGED passed
     \/ ~Exists("old", Plan(c)) /\ Continues(c)
  /\ UNCHANGED <<files, kills>>

\* Mutant: rename without looking at what is there.
StatToSkipped(c) ==
  /\ Goes(c, "to", "rename")
  /\ UNCHANGED <<files, passed, kills>>

\* Both are there: that is an error, for this file.
StatTo(c) ==
  /\ doing[c] = "to"
  /\ \/ ~Exists("new", Plan(c)) /\ Goes(c, "to", "rename") /\ UNCHANGED passed
     \/ Exists("new", Plan(c)) /\ Continues(c)
  /\ UNCHANGED <<files, kills>>

Renamed(f) == [files EXCEPT !.new[f] = files.old[f], !.old[f] = None]

\* Mutant: an error ends the migration, but not the command.
RenameOrGiveUp(c) ==
  /\ doing[c] = "rename"
  /\ IF Exists("old", Plan(c))
     THEN files' = Renamed(Plan(c)) /\ Continues(c)
     ELSE /\ doing' = [doing EXCEPT ![c] = "run"]
          /\ UNCHANGED <<files, passed>>
  /\ UNCHANGED kills

\* rename(2) replaces what came there since; it fails when the file is gone.
Rename(c) ==
  /\ doing[c] = "rename"
  /\ files' = IF Exists("old", Plan(c)) THEN Renamed(Plan(c)) ELSE files
  /\ Continues(c)
  /\ UNCHANGED kills

\* The command opens the database, which takes its log in and removes it when
\* it is closed, and saves the state of an agent.
Run(c) ==
  /\ doing[c] = "run"
  /\ LET Has(f) == IF files.new[f] = None THEN {} ELSE files.new[f]
         db == [files EXCEPT !.new["db"] = Has("db") \cup Has("wal") \cup {"new"},
                             !.new["wal"] = None, !.new["shm"] = None]
     IN  \/ files' = db
         \/ \E f \in {"claude_state", "codex_state"} :
              files' = [files EXCEPT !.new[f] = Has(f) \cup {"new"}]
  /\ doing' = [doing EXCEPT ![c] = "idle"]
  /\ UNCHANGED <<passed, kills>>

KillCommand(c) ==
  /\ kills < MaxKills /\ kills' = kills + 1
  /\ doing[c] # "idle"
  /\ doing' = [doing EXCEPT ![c] = "idle"]
  /\ UNCHANGED <<files, passed>>

MigrationNext ==
  \E c \in Command :
    StartCommand(c) \/ StatFrom(c) \/ StatTo(c) \/ Rename(c) \/ Run(c) \/ KillCommand(c)

MigrationSpec == MigrationInit /\ [][MigrationNext]_migrationVars

-----------------------------------------------------------------------------
\* No command works beside old files that it should have moved: those left are
\* in conflict with new ones, however many commands migrated at once.
MovedBeforeRun ==
  \A c \in Command : doing[c] = "run" =>
    \A f \in LegacyFile : files.old[f] = None \/ files.new[f] # None

\* What a new file holds is never lost.
NothingOverwritten ==
  [][\A f \in LegacyFile \ {"wal", "shm"} :
       files.new[f] # None => files.new[f] \subseteq files'.new[f]]_migrationVars

\* A comment there: the log moves with its database, so that the move stays
\* consistent.  True as long as there is no new database without a log.
LogBelongsToDatabase ==
  files.new["wal"] = {"old"} => files.new["db"] # None /\ "old" \in files.new["db"]
===============================================================================
