----------------------------- MODULE ClientProofs -----------------------------
(***************************************************************************)
(* Three parts of the client that share no state.  The files of the former *)
(* name: no rename replaces a file this program has and none is left       *)
(* behind, for any number of commands that migrate, work and are killed.   *)
(* Transcripts: the parsers' loops count what they say, for transcripts of *)
(* any length.  The configuration: what is loaded is what is written.      *)
(***************************************************************************)
EXTENDS Transcript, Config, LegacyMigration, NumberLemmas

-----------------------------------------------------------------------------
(* The files of the former name *)

\* The five files.
LEMMA FilesAre ==
  /\ LegacyFile = {"db", "wal", "shm", "claude_state", "codex_state"}
  /\ Len(defaultMigrations) = 5
  /\ \A i \in 1..5 : defaultMigrations[i] \in LegacyFile
  /\ \A f \in LegacyFile : \E i \in 1..5 : defaultMigrations[i] = f
  /\ \A i, j \in 1..5 : defaultMigrations[i] = defaultMigrations[j] => i = j
<1>1. DOMAIN defaultMigrations = 1..5
  BY DEF defaultMigrations
<1>2. LegacyFile = {"db", "wal", "shm", "claude_state", "codex_state"}
  BY <1>1 DEF LegacyFile, ToSet, defaultMigrations
<1>3. \A f \in LegacyFile : \E i \in 1..5 : defaultMigrations[i] = f
  BY <1>1 DEF LegacyFile, ToSet
<1>4. \A i \in 1..5 : defaultMigrations[i] \in LegacyFile
  BY <1>1 DEF LegacyFile, ToSet
<1> QED
  BY <1>1, <1>2, <1>3, <1>4 DEF defaultMigrations

-----------------------------------------------------------------------------
Content == {None} \cup SUBSET {"old", "new"}

\* A command that renames has passed less than all.
MigrationTyped ==
  /\ files \in [old : [LegacyFile -> Content], new : [LegacyFile -> Content]]
  /\ doing \in [Command -> {"idle", "from", "to", "rename", "run"}]
  /\ passed \in [Command -> 0..5]
  /\ \A c \in Command : doing[c] \in {"from", "to", "rename"} => passed[c] < 5
  /\ \A c \in Command : doing[c] = "run" => passed[c] = 5

\* The log of a database goes when the database is closed.
Kept == LegacyFile \ {"wal", "shm"}

\* A command that is past a file found it moved, or left it to a new one.
PassedIsMoved ==
  \A c \in Command : doing[c] # "idle" =>
    \A i \in 1..passed[c] :
      LET f == defaultMigrations[i]
      IN  f \in Kept => files.old[f] = None \/ files.new[f] # None

\* What a command is going to rename has no new file, unless it is gone.
RenameIsFree ==
  \A c \in Command : doing[c] = "rename" /\ Plan(c) \in Kept =>
    files.old[Plan(c)] = None \/ files.new[Plan(c)] = None

MigrationInv == MigrationTyped /\ PassedIsMoved /\ RenameIsFree

\* The plan of a command that migrates is a file.
LEMMA PlanTyped ==
  ASSUME MigrationTyped, NEW c \in Command, doing[c] \in {"from", "to", "rename"}
  PROVE  /\ passed[c] + 1 \in 1..5
         /\ Plan(c) = defaultMigrations[passed[c] + 1]
         /\ Plan(c) \in LegacyFile
BY FilesAre DEF MigrationTyped, Plan

LEMMA MigrationInitial == MigrationInit => MigrationInv
<1> SUFFICES ASSUME MigrationInit PROVE MigrationInv
  OBVIOUS
<1>1. \A f \in LegacyFile :
        /\ files.old[f] \in {None, {"old"}} /\ files.new[f] \in {None, {"new"}}
  BY FilesAssumption DEF MigrationInit
<1>2. files \in [old : [LegacyFile -> Content], new : [LegacyFile -> Content]]
  <2>1. files \in [old : [LegacyFile -> {None, {"old"}}], new : [LegacyFile -> {None, {"new"}}]]
    BY FilesAssumption DEF MigrationInit
  <2>2. {None, {"old"}} \subseteq Content /\ {None, {"new"}} \subseteq Content
    <3>1. {"old"} \in SUBSET {"old", "new"} /\ {"new"} \in SUBSET {"old", "new"}
      BY Zenon
    <3> QED
      BY <3>1, Zenon DEF Content
  <2> QED
    BY <2>1, <2>2
<1> QED
  BY <1>2 DEF MigrationInit, MigrationInv, MigrationTyped, PassedIsMoved, RenameIsFree

\* Files only go from old to new, and what is new in Kept stays, when a step
\* renames a free file, runs, or leaves the files alone.
FilesAdvance ==
  \A f \in Kept :
    /\ files'.old[f] \in {files.old[f], None}
    /\ files.new[f] # None => files'.new[f] # None /\ files.new[f] \subseteq files'.new[f]
    /\ files.old[f] # None /\ files'.old[f] = None => files'.new[f] # None
    /\ files'.new[f] # None /\ files.new[f] = None => files'.old[f] = None

\* A rename moves one file; a free one replaces nothing.
LEMMA RenameAdvances ==
  ASSUME MigrationInv, NEW c \in Command, Rename(c)
  PROVE  /\ FilesAdvance
         /\ files' \in [old : [LegacyFile -> Content], new : [LegacyFile -> Content]]
         /\ files'.old[Plan(c)] = None
<1>1. doing[c] = "rename" /\ Plan(c) \in LegacyFile
  BY PlanTyped DEF Rename, MigrationInv
<1>2. CASE ~Exists("old", Plan(c))
  BY <1>1, <1>2 DEF Rename, Exists, FilesAdvance, Kept, MigrationInv, MigrationTyped
<1>3. CASE Exists("old", Plan(c))
  <2>1. files' = [old |-> [files.old EXCEPT ![Plan(c)] = None],
                  new |-> [files.new EXCEPT ![Plan(c)] = files.old[Plan(c)]]]
    BY <1>1, <1>3 DEF Rename, Renamed, MigrationInv, MigrationTyped
  <2>2. files' \in [old : [LegacyFile -> Content], new : [LegacyFile -> Content]]
    <3>1. None \in Content
      BY DEF Content
    <3>2. files.old \in [LegacyFile -> Content] /\ files.new \in [LegacyFile -> Content]
      BY DEF MigrationInv, MigrationTyped
    <3> QED
      BY <1>1, <2>1, <3>1, <3>2
  <2>3. files.old[Plan(c)] # None
    BY <1>3 DEF Exists
  <2>4. Plan(c) \in Kept => files.new[Plan(c)] = None
    BY <1>1, <2>3 DEF MigrationInv, RenameIsFree
  <2> QED
    BY <1>1, <2>1, <2>2, <2>3, <2>4 DEF FilesAdvance, Kept, MigrationInv, MigrationTyped
<1> QED
  BY <1>2, <1>3

\* A command that works only adds to files that are new, or gone from their old
\* name: it is past them all.
LEMMA RunAdvances ==
  ASSUME MigrationInv, NEW c \in Command, Run(c)
  PROVE  /\ FilesAdvance
         /\ files' \in [old : [LegacyFile -> Content], new : [LegacyFile -> Content]]
<1>1. doing[c] = "run" /\ passed[c] = 5
  BY DEF Run, MigrationInv, MigrationTyped
<1>2. \A f \in Kept : files.old[f] = None \/ files.new[f] # None
  <2> TAKE f \in Kept
  <2>1. PICK i \in 1..5 : defaultMigrations[i] = f
    BY FilesAre DEF Kept
  <2> QED
    BY <1>1, <2>1 DEF MigrationInv, PassedIsMoved
<1> DEFINE Has(f) == IF files.new[f] = None THEN {} ELSE files.new[f]
<1>3. \A f \in LegacyFile : Has(f) \in SUBSET {"old", "new"}
  <2> TAKE f \in LegacyFile
  <2>1. files.new[f] \in Content
    BY DEF MigrationInv, MigrationTyped
  <2>2. files.new[f] # None => files.new[f] \in SUBSET {"old", "new"}
    BY <2>1, Zenon DEF Content
  <2>3. {} \in SUBSET {"old", "new"}
    BY Zenon
  <2> QED
    BY <2>2, <2>3
<1>4. \A S \in SUBSET {"old", "new"} : S # None /\ S \in Content
  BY FilesAssumption DEF Content
<1>5. /\ files = [old |-> files.old, new |-> files.new]
      /\ files.old \in [LegacyFile -> Content] /\ files.new \in [LegacyFile -> Content]
  BY DEF MigrationInv, MigrationTyped
<1>6. \A f \in LegacyFile : files.new[f] # None => Has(f) = files.new[f]
  OBVIOUS
<1> HIDE DEF Has
<1>7. ASSUME NEW all,
             all = Has("db") \cup Has("wal") \cup {"new"},
             files' = [old |-> files.old,
                       new |-> [files.new EXCEPT !["db"] = all, !["wal"] = None, !["shm"] = None]]
      PROVE  /\ FilesAdvance
             /\ files' \in [old : [LegacyFile -> Content], new : [LegacyFile -> Content]]
  <2>1. all \in SUBSET {"old", "new"} /\ Has("db") \subseteq all
    BY <1>3, <1>7, FilesAre
  <2>2. all \in Content /\ all # None /\ None \in Content
    <3>1. None \in Content
      BY DEF Content
    <3> QED
      BY <1>4, <2>1, <3>1
  <2>3. files'.new \in [LegacyFile -> Content] /\ files'.old = files.old
    BY <1>5, <1>7, <2>2, FilesAre
  <2>4. \A f \in Kept : files'.new[f] = IF f = "db" THEN all ELSE files.new[f]
    BY <1>5, <1>7, FilesAre DEF Kept
  <2> QED
    BY <1>2, <1>5, <1>6, <1>7, <2>1, <2>2, <2>3, <2>4, FilesAre DEF FilesAdvance, Kept
<1>8. ASSUME NEW g \in {"claude_state", "codex_state"}, NEW all,
             all = Has(g) \cup {"new"},
             files' = [old |-> files.old, new |-> [files.new EXCEPT ![g] = all]]
      PROVE  /\ FilesAdvance
             /\ files' \in [old : [LegacyFile -> Content], new : [LegacyFile -> Content]]
  <2>1. all \in SUBSET {"old", "new"} /\ Has(g) \subseteq all
    BY <1>3, <1>8, FilesAre
  <2>2. all \in Content /\ all # None
    BY <1>4, <2>1
  <2>3. files'.new \in [LegacyFile -> Content] /\ files'.old = files.old
    BY <1>5, <1>8, <2>2, FilesAre
  <2>4. \A f \in Kept : files'.new[f] = IF f = g THEN all ELSE files.new[f]
    BY <1>5, <1>8, FilesAre DEF Kept
  <2> QED
    BY <1>2, <1>5, <1>6, <1>8, <2>1, <2>2, <2>3, <2>4, FilesAre DEF FilesAdvance, Kept
<1>9. \/ files' = [old |-> files.old,
                   new |-> [files.new EXCEPT !["db"] = Has("db") \cup Has("wal") \cup {"new"},
                                             !["wal"] = None, !["shm"] = None]]
      \/ \E g \in {"claude_state", "codex_state"} :
           files' = [old |-> files.old, new |-> [files.new EXCEPT ![g] = Has(g) \cup {"new"}]]
  BY <1>5 DEF Run, Has
<1> QED
  BY <1>7, <1>8, <1>9

\* Files that advance keep what the commands have looked at.
LEMMA InvAdvances ==
  ASSUME MigrationInv, NEW c \in Command, FilesAdvance, MigrationTyped',
         \A d \in Command \ {c} : doing'[d] = doing[d] /\ passed'[d] = passed[d],
         doing'[c] # "idle" =>
           \A i \in 1..passed'[c] :
             defaultMigrations[i] \in Kept =>
               files'.old[defaultMigrations[i]] = None \/ files'.new[defaultMigrations[i]] # None,
         doing'[c] = "rename" /\ Plan(c)' \in Kept =>
           files'.old[Plan(c)'] = None \/ files'.new[Plan(c)'] = None
  PROVE  MigrationInv'
<1>1. ASSUME NEW f \in Kept, files.old[f] = None \/ files.new[f] # None
      PROVE  files'.old[f] = None \/ files'.new[f] # None
  BY <1>1 DEF FilesAdvance
<1>2. ASSUME NEW f \in Kept, files.old[f] = None \/ files.new[f] = None
      PROVE  files'.old[f] = None \/ files'.new[f] = None
  BY <1>2 DEF FilesAdvance
<1>3. PassedIsMoved'
  <2> SUFFICES ASSUME NEW d \in Command, doing'[d] # "idle", NEW i \in 1..passed'[d],
                      defaultMigrations[i] \in Kept
               PROVE  \/ files'.old[defaultMigrations[i]] = None
                      \/ files'.new[defaultMigrations[i]] # None
    BY DEF PassedIsMoved, Kept, LegacyFile, defaultMigrations
  <2>1. CASE d = c
    BY <2>1
  <2>2. CASE d # c
    BY <1>1, <2>2 DEF MigrationInv, PassedIsMoved
  <2> QED
    BY <2>1, <2>2
<1>4. RenameIsFree'
  <2> SUFFICES ASSUME NEW d \in Command, doing'[d] = "rename", Plan(d)' \in Kept
               PROVE  files'.old[Plan(d)'] = None \/ files'.new[Plan(d)'] = None
    BY DEF RenameIsFree, Kept, LegacyFile, defaultMigrations
  <2>1. CASE d = c
    BY <2>1
  <2>2. CASE d # c
    <3>1. Plan(d)' = Plan(d) /\ doing[d] = "rename"
      BY <2>2 DEF Plan, defaultMigrations
    <3> QED
      BY <1>2, <3>1 DEF MigrationInv, RenameIsFree
  <2> QED
    BY <2>1, <2>2
<1> QED
  BY <1>3, <1>4 DEF MigrationInv

\* A step of command c, other than a rename, goes on after it looked.
LEMMA LookKeeps ==
  ASSUME MigrationInv, NEW c \in Command,
         StartCommand(c) \/ StatFrom(c) \/ StatTo(c) \/ KillCommand(c)
  PROVE  MigrationInv'
<1>1. files' = files /\ FilesAdvance
  BY DEF StartCommand, StatFrom, StatTo, KillCommand, FilesAdvance
<1>2. \A d \in Command \ {c} : doing'[d] = doing[d] /\ passed'[d] = passed[d]
  BY DEF StartCommand, StatFrom, StatTo, KillCommand, Goes, Continues, MigrationInv, MigrationTyped
<1>3. /\ doing \in [Command -> {"idle", "from", "to", "rename", "run"}]
      /\ passed \in [Command -> 0..5] /\ Len(defaultMigrations) = 5
  BY FilesAre DEF MigrationInv, MigrationTyped
<1>4. CASE StartCommand(c) \/ KillCommand(c)
  <2>1. /\ doing' \in [Command -> {"idle", "from", "to", "rename", "run"}]
        /\ passed' \in [Command -> 0..5]
        /\ doing'[c] = "idle" \/ (doing'[c] = "from" /\ passed'[c] = 0)
    BY <1>3, <1>4 DEF StartCommand, KillCommand, Goes
  <2>2. MigrationTyped'
    BY <1>1, <1>2, <1>3, <2>1 DEF MigrationInv, MigrationTyped
  <2> QED
    BY <1>1, <1>2, <2>1, <2>2, InvAdvances
<1>5. ASSUME Continues(c), doing[c] \in {"from", "to"},
             Plan(c) \in Kept => files.old[Plan(c)] = None \/ files.new[Plan(c)] # None
      PROVE  MigrationInv'
  <2>1. passed[c] < 5
    BY <1>5 DEF MigrationInv, MigrationTyped
  <2>2. /\ passed' = [passed EXCEPT ![c] = passed[c] + 1]
        /\ doing' = [doing EXCEPT ![c] = IF passed[c] + 1 = 5 THEN "run" ELSE "from"]
    BY <1>3, <1>5 DEF Continues
  <2>3. /\ passed'[c] = passed[c] + 1 /\ doing'[c] = IF passed[c] + 1 = 5 THEN "run" ELSE "from"
    BY <1>3, <2>2
  <2>4. MigrationTyped'
    BY <1>1, <1>2, <1>3, <2>1, <2>2, <2>3 DEF MigrationInv, MigrationTyped
  <2>5. ASSUME NEW i \in 1..passed'[c], defaultMigrations[i] \in Kept
        PROVE  \/ files'.old[defaultMigrations[i]] = None
               \/ files'.new[defaultMigrations[i]] # None
    <3>1. CASE i = passed[c] + 1
      BY <1>1, <1>5, <2>5, <3>1 DEF Plan
    <3>2. CASE i # passed[c] + 1
      <4>1. i \in 1..passed[c]
        BY <1>3, <2>3, <2>5, <3>2
      <4> QED
        BY <1>1, <1>5, <2>5, <4>1 DEF MigrationInv, PassedIsMoved
    <3> QED
      BY <3>1, <3>2
  <2> QED
    BY <1>1, <1>2, <2>3, <2>4, <2>5, InvAdvances
<1>6. ASSUME doing' = [doing EXCEPT ![c] = doing'[c]], UNCHANGED passed,
             \/ doing[c] = "from" /\ doing'[c] = "to"
             \/ doing[c] = "to" /\ doing'[c] = "rename" /\ files.new[Plan(c)] = None
      PROVE  MigrationInv'
  <2>1. MigrationTyped'
    BY <1>1, <1>2, <1>3, <1>6 DEF MigrationInv, MigrationTyped
  <2>2. Plan(c)' = Plan(c)
    BY <1>6 DEF Plan, defaultMigrations
  <2> QED
    BY <1>1, <1>2, <1>6, <2>1, <2>2, InvAdvances DEF MigrationInv, PassedIsMoved
<1>7. CASE StatFrom(c)
  BY <1>3, <1>5, <1>6, <1>7 DEF StatFrom, Goes, Exists
<1>8. CASE StatTo(c)
  BY <1>3, <1>5, <1>6, <1>8 DEF StatTo, Goes, Exists
<1> QED
  BY <1>4, <1>7, <1>8

\* So does a rename, which leaves no old file behind, and the work of a command.
LEMMA WorkKeeps ==
  ASSUME MigrationInv, NEW c \in Command, Rename(c) \/ Run(c)
  PROVE  MigrationInv' /\ FilesAdvance
<1>1. FilesAdvance /\ files' \in [old : [LegacyFile -> Content], new : [LegacyFile -> Content]]
  BY RenameAdvances, RunAdvances
<1>2. \A d \in Command \ {c} : doing'[d] = doing[d] /\ passed'[d] = passed[d]
  BY DEF Rename, Run, Continues, MigrationInv, MigrationTyped
<1>3. /\ doing \in [Command -> {"idle", "from", "to", "rename", "run"}]
      /\ passed \in [Command -> 0..5] /\ Len(defaultMigrations) = 5
  BY FilesAre DEF MigrationInv, MigrationTyped
<1>4. CASE Rename(c)
  <2>1. passed[c] < 5 /\ doing[c] = "rename" /\ files'.old[Plan(c)] = None
    BY <1>4, RenameAdvances DEF Rename, MigrationInv, MigrationTyped
  <2>2. /\ passed' = [passed EXCEPT ![c] = passed[c] + 1]
        /\ doing' = [doing EXCEPT ![c] = IF passed[c] + 1 = 5 THEN "run" ELSE "from"]
    BY <1>3, <1>4 DEF Rename, Continues
  <2>3. /\ passed'[c] = passed[c] + 1 /\ doing'[c] = IF passed[c] + 1 = 5 THEN "run" ELSE "from"
    BY <1>3, <2>2
  <2>4. MigrationTyped'
    BY <1>1, <1>2, <1>3, <2>1, <2>2, <2>3 DEF MigrationInv, MigrationTyped
  <2>5. ASSUME NEW i \in 1..passed'[c], defaultMigrations[i] \in Kept
        PROVE  \/ files'.old[defaultMigrations[i]] = None
               \/ files'.new[defaultMigrations[i]] # None
    <3>1. CASE i = passed[c] + 1
      BY <2>1, <3>1 DEF Plan
    <3>2. CASE i # passed[c] + 1
      <4>1. i \in 1..passed[c]
        BY <1>3, <2>3, <2>5, <3>2
      <4> QED
        BY <1>1, <2>1, <2>5, <4>1 DEF MigrationInv, PassedIsMoved, FilesAdvance
    <3> QED
      BY <3>1, <3>2
  <2> QED
    BY <1>1, <1>2, <2>3, <2>4, <2>5, InvAdvances
<1>5. CASE Run(c)
  <2>1. doing'[c] = "idle" /\ doing' \in [Command -> {"idle", "from", "to", "rename", "run"}]
        /\ passed' = passed
    BY <1>3, <1>5 DEF Run
  <2>2. MigrationTyped'
    BY <1>1, <1>2, <1>3, <2>1 DEF MigrationInv, MigrationTyped
  <2> QED
    BY <1>1, <1>2, <2>1, <2>2, InvAdvances
<1> QED
  BY <1>4, <1>5

LEMMA MigrationStep == MigrationInv /\ [MigrationNext]_migrationVars => MigrationInv'
<1>1. ASSUME MigrationInv, UNCHANGED migrationVars PROVE MigrationInv'
  BY <1>1 DEF migrationVars, MigrationInv, MigrationTyped, PassedIsMoved, RenameIsFree, Plan,
              defaultMigrations, LegacyFile, Kept
<1> QED
  BY <1>1, LookKeeps, WorkKeeps DEF MigrationNext

\* No step of any command replaces what a file of this program holds.
THEOREM NothingOverwrittenCorrect == MigrationSpec => NothingOverwritten
<1>1. MigrationInv /\ [MigrationNext]_migrationVars =>
        [\A f \in LegacyFile \ {"wal", "shm"} :
           files.new[f] # None => files.new[f] \subseteq files'.new[f]]_migrationVars
  <2> SUFFICES ASSUME MigrationInv, [MigrationNext]_migrationVars
               PROVE  [\A f \in LegacyFile \ {"wal", "shm"} :
                         files.new[f] # None => files.new[f] \subseteq files'.new[f]]_migrationVars
    OBVIOUS
  <2>1. CASE UNCHANGED migrationVars
    BY <2>1
  <2>2. ASSUME NEW c \in Command,
               StartCommand(c) \/ StatFrom(c) \/ StatTo(c) \/ KillCommand(c)
        PROVE  files' = files
    BY <2>2 DEF StartCommand, StatFrom, StatTo, KillCommand
  <2>3. ASSUME NEW c \in Command, Rename(c) \/ Run(c) PROVE FilesAdvance
    BY <2>3, WorkKeeps
  <2> QED
    BY <2>1, <2>2, <2>3 DEF MigrationNext, FilesAdvance, Kept
<1> QED
  BY <1>1, MigrationInitial, MigrationStep, PTL DEF MigrationSpec, NothingOverwritten

-----------------------------------------------------------------------------
\* The two files of a log, which no command keeps: a new one goes when its
\* database is closed, and would leave an old one behind that was in conflict.
Log == {"wal", "shm"}

\* So what the commands find must not be such a conflict,
OneLog ==
  \A f \in Log : files.old[f] = None \/ files.new[f] = None

\* and an old log must be that of an old database, which nothing hinders from
\* being moved first.
LogOfOldDatabase ==
  files.old["wal"] # None =>
    \/ files.old["db"] # None /\ files.new["db"] = None
    \/ files.new["db"] # None /\ "old" \in files.new["db"]

OneLogAtFirst ==
  \A start \in InitFiles :
    \A f \in Log : start.old[f] = None \/ start.new[f] = None

LogOfOldDatabaseAtFirst ==
  \A start \in InitFiles :
    start.old["wal"] # None => start.old["db"] # None /\ start.new["db"] = None

\* An old file is as it was, or gone.
OldIsOld ==
  \A f \in LegacyFile : files.old[f] \in {None, {"old"}}

\* A command that is past a file of the log leaves none behind.
PassedLog ==
  \A c \in Command : doing[c] # "idle" =>
    \A i \in 1..passed[c] :
      defaultMigrations[i] \in Log => files.old[defaultMigrations[i]] = None

LogInv == MigrationInv /\ OldIsOld /\ OneLog /\ PassedLog

\* A log, old or moved, has its database: the one it is of, or one that took
\* that one's place.
DatabaseInv == LogInv /\ LogOfOldDatabase /\ LogBelongsToDatabase

LEMMA LogInitial == OneLogAtFirst /\ MigrationInit => LogInv
<1> SUFFICES ASSUME OneLogAtFirst, MigrationInit PROVE LogInv
  OBVIOUS
<1>1. OldIsOld
  BY FilesAssumption DEF MigrationInit, OldIsOld
<1>2. OneLog /\ PassedLog
  BY DEF MigrationInit, OneLogAtFirst, OneLog, PassedLog
<1> QED
  BY <1>1, <1>2, MigrationInitial DEF LogInv

\* Files of the log only go from old to new.
LogAdvance ==
  /\ \A f \in LegacyFile : files'.old[f] \in {files.old[f], None}
  /\ \A f \in Log : files'.new[f] \in {files.new[f], files.old[f], None}
  /\ \A f \in Log : files'.new[f] # None /\ files.new[f] = None => files'.old[f] = None

\* What a rename makes of the files: nothing, if the old one is gone.
LEMMA RenamedFiles ==
  ASSUME MigrationInv, NEW c \in Command, Rename(c)
  PROVE  /\ Plan(c) \in LegacyFile
         /\ \/ files.old[Plan(c)] = None /\ files' = files
            \/ /\ files.old[Plan(c)] # None
               /\ files' = [old |-> [files.old EXCEPT ![Plan(c)] = None],
                            new |-> [files.new EXCEPT ![Plan(c)] = files.old[Plan(c)]]]
BY PlanTyped DEF Rename, Renamed, Exists, MigrationInv, MigrationTyped

\* What the work of a command makes of them: the database takes in its log, or
\* the state of an agent is saved.
LEMMA WorkedFiles ==
  ASSUME MigrationInv, NEW c \in Command, Run(c)
  PROVE  /\ files'.old = files.old
         /\ \/ files'.new["wal"] = None /\ files'.new["shm"] = None
            \/ \A f \in {"db", "wal", "shm"} : files'.new[f] = files.new[f]
<1> DEFINE Has(f) == IF files.new[f] = None THEN {} ELSE files.new[f]
<1>1. /\ files = [old |-> files.old, new |-> files.new]
      /\ files.new \in [LegacyFile -> Content]
  BY DEF MigrationInv, MigrationTyped
<1>2. \/ files' = [old |-> files.old,
                   new |-> [files.new EXCEPT !["db"] = Has("db") \cup Has("wal") \cup {"new"},
                                             !["wal"] = None, !["shm"] = None]]
      \/ \E g \in {"claude_state", "codex_state"} :
           files' = [old |-> files.old, new |-> [files.new EXCEPT ![g] = Has(g) \cup {"new"}]]
  BY <1>1 DEF Run
<1> HIDE DEF Has
<1> QED
  BY <1>1, <1>2, FilesAre

LEMMA WorkOnLog ==
  ASSUME LogInv, NEW c \in Command, Rename(c) \/ Run(c)
  PROVE  LogAdvance
<1>1. /\ files = [old |-> files.old, new |-> files.new]
      /\ files.old \in [LegacyFile -> Content] /\ files.new \in [LegacyFile -> Content]
  BY DEF LogInv, MigrationInv, MigrationTyped
<1>2. CASE Rename(c)
  BY <1>1, <1>2, RenamedFiles, FilesAre DEF LogInv, LogAdvance, Log
<1>3. CASE Run(c)
  <2>1. /\ files'.old = files.old
        /\ \A f \in Log : files'.new[f] \in {files.new[f], None}
    BY <1>3, WorkedFiles DEF Log, LogInv
  <2> QED
    BY <2>1 DEF LogAdvance
<1> QED
  BY <1>2, <1>3

\* A command that goes on leaves no file of the log behind.
LEMMA PassedLogKept ==
  ASSUME LogInv, MigrationInv', NEW c \in Command,
         \A f \in LegacyFile : files'.old[f] \in {files.old[f], None},
         \A d \in Command \ {c} : doing'[d] = doing[d] /\ passed'[d] = passed[d],
         \/ doing'[c] = "idle"
         \/ passed'[c] = 0
         \/ doing[c] # "idle" /\ passed'[c] = passed[c]
         \/ /\ doing[c] # "idle" /\ passed'[c] = passed[c] + 1
            /\ Plan(c) \in Log => files'.old[Plan(c)] = None
  PROVE  PassedLog'
<1>1. passed \in [Command -> 0..5] /\ passed' \in [Command -> 0..5]
  BY DEF LogInv, MigrationInv, MigrationTyped
<1>2. SUFFICES ASSUME NEW d \in Command, doing'[d] # "idle", NEW i \in 1..passed'[d],
                      defaultMigrations[i] \in Log
               PROVE  files'.old[defaultMigrations[i]] = None
  BY DEF PassedLog, Log, defaultMigrations
<1>3. i \in 1..5 /\ defaultMigrations[i] \in LegacyFile
  BY <1>1, FilesAre
<1>4. ASSUME doing[d] # "idle", i \in 1..passed[d] PROVE files'.old[defaultMigrations[i]] = None
  BY <1>2, <1>3, <1>4 DEF LogInv, PassedLog
<1>5. CASE d # c
  BY <1>2, <1>4, <1>5
<1>6. CASE d = c
  <2>1. CASE passed'[c] = 0
    BY <1>1, <1>6, <2>1
  <2>2. CASE doing[c] # "idle" /\ passed'[c] = passed[c]
    BY <1>4, <1>6, <2>2
  <2>3. CASE /\ doing[c] # "idle" /\ passed'[c] = passed[c] + 1
             /\ Plan(c) \in Log => files'.old[Plan(c)] = None
    <3>1. CASE i = passed[c] + 1
      BY <1>2, <2>3, <3>1 DEF Plan
    <3>2. CASE i # passed[c] + 1
      BY <1>1, <1>4, <1>6, <2>3, <3>2
    <3> QED
      BY <3>1, <3>2
  <2> QED
    BY <1>2, <1>6, <2>1, <2>2, <2>3
<1> QED
  BY <1>5, <1>6

\* The steps of a command that only looks.
LEMMA LookOnLog ==
  ASSUME LogInv, NEW c \in Command,
         StartCommand(c) \/ StatFrom(c) \/ StatTo(c) \/ KillCommand(c)
  PROVE  LogInv' /\ files' = files
<1>1. MigrationInv' /\ files' = files
  BY LookKeeps DEF LogInv, StartCommand, StatFrom, StatTo, KillCommand
<1>2. \A d \in Command \ {c} : doing'[d] = doing[d] /\ passed'[d] = passed[d]
  BY DEF StartCommand, StatFrom, StatTo, KillCommand, Goes, Continues, LogInv, MigrationInv,
         MigrationTyped
<1>3. doing \in [Command -> {"idle", "from", "to", "rename", "run"}] /\ passed \in [Command -> 0..5]
  BY DEF LogInv, MigrationInv, MigrationTyped
<1>4. \/ doing'[c] = "idle"
      \/ passed'[c] = 0
      \/ doing[c] # "idle" /\ passed'[c] = passed[c]
      \/ /\ doing[c] # "idle" /\ passed'[c] = passed[c] + 1
         /\ Plan(c) \in Log => files'.old[Plan(c)] = None
  <2>1. CASE StartCommand(c) \/ KillCommand(c)
    BY <1>3, <2>1 DEF StartCommand, KillCommand, Goes
  <2>2. CASE StatFrom(c)
    BY <1>1, <1>3, <2>2 DEF StatFrom, Goes, Continues, Exists
  <2>3. CASE StatTo(c)
    BY <1>1, <1>3, <2>3 DEF StatTo, Goes, Continues, Exists, LogInv, OneLog
  <2> QED
    BY <2>1, <2>2, <2>3
<1>5. PassedLog'
  BY <1>1, <1>2, <1>4, PassedLogKept
<1> QED
  BY <1>1, <1>5 DEF LogInv, OldIsOld, OneLog, Log, LegacyFile, defaultMigrations

\* Those of a command that renames or works.
LEMMA LogStep == LogInv /\ [MigrationNext]_migrationVars => LogInv'
<1>1. ASSUME LogInv, UNCHANGED migrationVars PROVE LogInv'
  <2>1. MigrationInv'
    BY <1>1, MigrationStep DEF LogInv
  <2> QED
    BY <1>1, <2>1 DEF migrationVars, LogInv, OldIsOld, OneLog, PassedLog, Log, LegacyFile,
                      defaultMigrations
<1>2. ASSUME LogInv, NEW c \in Command, Rename(c) \/ Run(c) PROVE LogInv'
  <2>1. MigrationInv' /\ LogAdvance
    BY <1>2, WorkKeeps, WorkOnLog DEF LogInv
  <2>2. OldIsOld' /\ OneLog'
    BY <1>2, <2>1, FilesAre DEF LogInv, OldIsOld, OneLog, LogAdvance, Log, LegacyFile,
                                defaultMigrations
  <2>3. \A d \in Command \ {c} : doing'[d] = doing[d] /\ passed'[d] = passed[d]
    BY <1>2 DEF Rename, Run, Continues, LogInv, MigrationInv, MigrationTyped
  <2>4. \/ doing'[c] = "idle"
        \/ doing[c] # "idle" /\ passed'[c] = passed[c] + 1 /\ files'.old[Plan(c)] = None
    <3>1. doing \in [Command -> {"idle", "from", "to", "rename", "run"}] /\ passed \in [Command -> 0..5]
      BY <1>2 DEF LogInv, MigrationInv, MigrationTyped
    <3>2. CASE Rename(c)
      BY <1>2, <3>1, <3>2, RenameAdvances DEF Rename, Continues, LogInv
    <3>3. CASE Run(c)
      BY <3>1, <3>3 DEF Run
    <3> QED
      BY <1>2, <3>2, <3>3
  <2>5. PassedLog'
    BY <1>2, <2>1, <2>3, <2>4, PassedLogKept DEF LogAdvance
  <2> QED
    BY <2>1, <2>2, <2>5 DEF LogInv
<1> QED
  BY <1>1, <1>2, LookOnLog DEF MigrationNext

\* Past every file, a command finds no old one that was not in conflict.
LEMMA AllPassed == LogInv => MovedBeforeRun
<1> SUFFICES ASSUME LogInv, NEW c \in Command, doing[c] = "run", NEW f \in LegacyFile
             PROVE  files.old[f] = None \/ files.new[f] # None
  BY DEF MovedBeforeRun
<1>1. PICK i \in 1..5 : defaultMigrations[i] = f
  BY FilesAre
<1>2. i \in 1..passed[c]
  BY DEF LogInv, MigrationInv, MigrationTyped
<1> QED
  BY <1>1, <1>2 DEF LogInv, MigrationInv, PassedIsMoved, PassedLog, Kept, Log

\* No command works beside old files that it should have moved, if there was no
\* log both of the old name and of the new at first.
THEOREM MovedCorrect == OneLogAtFirst /\ MigrationSpec => []MovedBeforeRun
BY LogInitial, LogStep, AllPassed, PTL DEF MigrationSpec

-----------------------------------------------------------------------------
LEMMA DatabaseInitial ==
  OneLogAtFirst /\ LogOfOldDatabaseAtFirst /\ MigrationInit => DatabaseInv
<1> SUFFICES ASSUME OneLogAtFirst, LogOfOldDatabaseAtFirst, MigrationInit PROVE DatabaseInv
  OBVIOUS
<1>1. files \in InitFiles /\ LogInv
  BY LogInitial DEF MigrationInit
<1>2. LogOfOldDatabase
  BY <1>1 DEF LogOfOldDatabaseAtFirst, LogOfOldDatabase
<1>3. files.new["wal"] \in {None, {"new"}}
  BY <1>1, FilesAssumption, FilesAre
<1>4. files.new["wal"] # {"old"}
  <2>1. None # {"old"}
    <3>1. {"old"} \in SUBSET {"old", "new"}
      BY Zenon
    <3> QED
      BY <3>1, FilesAssumption
  <2>2. {"new"} # {"old"}
    OBVIOUS
  <2> QED
    BY <1>3, <2>1, <2>2
<1> QED
  BY <1>1, <1>2, <1>4 DEF DatabaseInv, LogBelongsToDatabase

\* A log is renamed after its database was: one who is past the database found
\* it moved, and then it holds the data of the old one.
LEMMA RenameKeepsDatabase ==
  ASSUME DatabaseInv, NEW c \in Command, Rename(c)
  PROVE  LogOfOldDatabase' /\ LogBelongsToDatabase'
<1>1. /\ files.old \in [LegacyFile -> Content] /\ files.new \in [LegacyFile -> Content]
      /\ "db" \in LegacyFile /\ "wal" \in LegacyFile
  BY FilesAre DEF DatabaseInv, LogInv, MigrationInv, MigrationTyped
<1>2. LogInv /\ MigrationInv /\ doing[c] = "rename" /\ passed[c] \in 0..4
  BY DEF Rename, DatabaseInv, LogInv, MigrationInv, MigrationTyped
<1>3. CASE files' = files
  BY <1>3 DEF DatabaseInv, LogOfOldDatabase, LogBelongsToDatabase
<1>4. CASE /\ files.old[Plan(c)] # None /\ Plan(c) \in LegacyFile
           /\ files' = [old |-> [files.old EXCEPT ![Plan(c)] = None],
                        new |-> [files.new EXCEPT ![Plan(c)] = files.old[Plan(c)]]]
  <2>1. files.old[Plan(c)] = {"old"}
    BY <1>2, <1>4 DEF LogInv, OldIsOld
  <2>2. CASE Plan(c) = "db"
    <3>1. files'.new["db"] = {"old"} /\ files'.new["db"] # None
      BY <1>1, <1>4, <2>1, <2>2
    <3>2. "old" \in files'.new["db"]
      BY <3>1
    <3> QED
      BY <3>1, <3>2 DEF LogOfOldDatabase, LogBelongsToDatabase
  <2>3. CASE Plan(c) = "wal"
    <3>1. passed[c] = 1
      BY <1>2, <2>3 DEF Plan, defaultMigrations
    <3>2. files.old["db"] = None \/ files.new["db"] # None
      BY <1>2, <3>1 DEF MigrationInv, PassedIsMoved, Kept, LegacyFile, ToSet, defaultMigrations
    <3>3. files.new["db"] # None /\ "old" \in files.new["db"]
      BY <1>4, <2>3, <3>2 DEF DatabaseInv, LogOfOldDatabase
    <3>4. files'.new["db"] = files.new["db"] /\ files'.old["wal"] = None
      BY <1>1, <1>4, <2>3
    <3> QED
      BY <3>3, <3>4 DEF LogOfOldDatabase, LogBelongsToDatabase
  <2>4. CASE Plan(c) \notin {"db", "wal"}
    <3>1. /\ files'.new["db"] = files.new["db"] /\ files'.new["wal"] = files.new["wal"]
          /\ files'.old["db"] = files.old["db"] /\ files'.old["wal"] = files.old["wal"]
      BY <1>1, <1>4, <2>4
    <3> QED
      BY <3>1 DEF DatabaseInv, LogOfOldDatabase, LogBelongsToDatabase
  <2> QED
    BY <2>2, <2>3, <2>4
<1> QED
  BY <1>2, <1>3, <1>4, RenamedFiles

\* A command that works is past the log: there is no old one for which it could
\* make a database.
LEMMA RunKeepsDatabase ==
  ASSUME DatabaseInv, NEW c \in Command, Run(c)
  PROVE  LogOfOldDatabase' /\ LogBelongsToDatabase'
<1>1. files.old["wal"] = None
  <2>1. doing[c] = "run" /\ passed[c] = 5
    BY DEF Run, DatabaseInv, LogInv, MigrationInv, MigrationTyped
  <2>2. defaultMigrations[2] = "wal" /\ 2 \in 1..5
    BY DEF defaultMigrations
  <2> QED
    BY <2>1, <2>2 DEF DatabaseInv, LogInv, PassedLog, Log
<1>2. files'.old = files.old
  BY WorkedFiles DEF DatabaseInv, LogInv
<1>3. \/ files'.new["wal"] = None
      \/ files'.new["wal"] = files.new["wal"] /\ files'.new["db"] = files.new["db"]
  BY WorkedFiles DEF DatabaseInv, LogInv
<1>4. None # {"old"}
  <2>1. {"old"} \in SUBSET {"old", "new"}
    BY Zenon
  <2> QED
    BY <2>1, FilesAssumption
<1> QED
  BY <1>1, <1>2, <1>3, <1>4 DEF DatabaseInv, LogOfOldDatabase, LogBelongsToDatabase

\* A log that was moved has the database it belongs to, if each old log had one
\* that nothing was in the way of at first.
THEOREM LogCorrect ==
  OneLogAtFirst /\ LogOfOldDatabaseAtFirst /\ MigrationSpec => []LogBelongsToDatabase
<1>1. DatabaseInv /\ [MigrationNext]_migrationVars => DatabaseInv'
  <2> SUFFICES ASSUME DatabaseInv, [MigrationNext]_migrationVars PROVE DatabaseInv'
    OBVIOUS
  <2>1. LogInv'
    BY LogStep DEF DatabaseInv
  <2>2. CASE files' = files
    BY <2>1, <2>2 DEF DatabaseInv, LogOfOldDatabase, LogBelongsToDatabase
  <2>3. ASSUME NEW c \in Command,
               StartCommand(c) \/ StatFrom(c) \/ StatTo(c) \/ KillCommand(c)
        PROVE  files' = files
    BY <2>3, LookOnLog DEF DatabaseInv
  <2>4. ASSUME NEW c \in Command, Rename(c) \/ Run(c)
        PROVE  LogOfOldDatabase' /\ LogBelongsToDatabase'
    BY <2>4, RenameKeepsDatabase, RunKeepsDatabase
  <2>5. UNCHANGED migrationVars => files' = files
    BY DEF migrationVars
  <2> QED
    BY <2>1, <2>2, <2>3, <2>4, <2>5 DEF MigrationNext, DatabaseInv
<1>2. DatabaseInv => LogBelongsToDatabase
  BY DEF DatabaseInv
<1> QED
  BY <1>1, <1>2, DatabaseInitial, PTL DEF MigrationSpec

-----------------------------------------------------------------------------
(* Transcripts: lines and what is read of one *)

ClaudeRead == INSTANCE LineLoopProofs WITH Read <- ReadClaudeLine, Start <- NoStats
CodexRead == INSTANCE LineLoopProofs WITH Read <- ReadCodexLine, Start <- NoStats
MetaRead == INSTANCE LineLoopProofs WITH Read <- ReadMetaLine, Start <- NoMeta

LEMMA SameLoops ==
  ASSUME NEW file
  PROVE  /\ ClaudeLoop!After(file) = ClaudeRead!After(file)
         /\ CodexLoop!After(file) = CodexRead!After(file)
         /\ MetaLoop!After(file) = MetaRead!After(file)
BY Zenon DEF ClaudeLoop!After, ClaudeRead!After, CodexLoop!After, CodexRead!After,
             MetaLoop!After, MetaRead!After

StatsType ==
  [tools : Nat, mid : Nat, asks : Nat, tokens : Nat, model : Model \cup {None}, ghost : BOOLEAN]

ClaudeText == ClaudeLine \cup {Skipped}
CodexText == CodexLine \cup {Skipped}

LEMMA NoStatsTyped == NoStats \in StatsType
BY DEF NoStats, StatsType

\* Of the items of a message no more are questions than are tools.
LEMMA ItemsCounted ==
  ASSUME NEW l, l.items \in Seq(Item)
  PROVE  /\ \A kinds : ItemsIn(l, kinds) \in Nat
         /\ ItemsIn(l, {"ask"}) <= ItemsIn(l, {"tool_use", "ask"})
<1> DEFINE At(kinds) == {i \in DOMAIN l.items : l.items[i] \in kinds}
<1>1. IsFiniteSet(DOMAIN l.items)
  <2>1. DOMAIN l.items = 1..Len(l.items) /\ Len(l.items) \in Nat
    OBVIOUS
  <2> QED
    BY <2>1, FS_Interval
<1>2. \A kinds : At(kinds) \subseteq DOMAIN l.items
  OBVIOUS
<1>3. At({"ask"}) \subseteq At({"tool_use", "ask"})
  OBVIOUS
<1>4. \A kinds : ItemsIn(l, kinds) = Cardinality(At(kinds))
  BY DEF ItemsIn
<1> HIDE DEF At
<1>5. \A kinds : IsFiniteSet(At(kinds))
  BY <1>1, <1>2, FS_Subset
<1>6. \A kinds : Cardinality(At(kinds)) \in Nat
  BY <1>5, FS_CardinalityType
<1>7. Cardinality(At({"ask"})) <= Cardinality(At({"tool_use", "ask"}))
  BY <1>3, <1>5, FS_Subset
<1> QED
  BY <1>4, <1>6, <1>7

\* What one line adds to the counts: whatever agent wrote it, nothing is taken
\* back, but for the tokens of Codex, which are totals.
Grown(s, t) ==
  /\ s.tools <= t.tools /\ s.mid <= t.mid /\ s.asks <= t.asks
  /\ t.ghost => s.ghost
  /\ s.model # None => t.model # None
  /\ s.asks <= s.tools => t.asks <= t.tools

\* s becomes t at a line that is a prompt, is counted if it is not the first
\* one, and names a model.
Counted(s, t, prompt, counted, named, model) ==
  /\ t.ghost <=> s.ghost /\ ~prompt
  /\ t.mid = IF counted /\ ~s.ghost THEN s.mid + 1 ELSE s.mid
  /\ t.model = IF named THEN model ELSE s.model

LEMMA ClaudeLineCounts ==
  ASSUME NEW s \in StatsType, NEW l \in ClaudeText
  PROVE  LET t == ReadClaudeLine(s, l)
         IN  /\ t \in StatsType
             /\ Grown(s, t) /\ s.tokens <= t.tokens
             /\ Counted(s, t, l.type = "user", l.type = "user" /\ isHumanTextMessage(l),
                        l.type = "assistant" /\ l.model # None, l.model)
<1> DEFINE t == ReadClaudeLine(s, l)
<1>1. CASE l.type = "user"
  <2> DEFINE human == isHumanTextMessage(l)
             mid == IF ~s.ghost /\ human THEN s.mid + 1 ELSE s.mid
  <2>1. t = [s EXCEPT !.ghost = FALSE, !.mid = mid]
    BY <1>1 DEF ReadClaudeLine, ReadPrompt, StatsType
  <2>2. mid \in Nat /\ s.mid <= mid /\ mid = IF human /\ ~s.ghost THEN s.mid + 1 ELSE s.mid
    BY DEF StatsType
  <2> HIDE DEF human, mid, t
  <2>3. t \in StatsType /\ ~t.ghost /\ t.model = s.model /\ t.mid = mid
        /\ t.tools = s.tools /\ t.asks = s.asks /\ t.tokens = s.tokens
    BY <2>1, <2>2 DEF StatsType
  <2>6. Grown(s, t) /\ s.tokens <= t.tokens
    BY <2>2, <2>3 DEF StatsType, Grown
  <2>4. Counted(s, t, TRUE, human, FALSE, l.model)
    BY <2>2, <2>3 DEF Counted
  <2>5. (l.type = "user") = TRUE /\ (l.type = "assistant" /\ l.model # None) = FALSE
        /\ (l.type = "user" /\ human) = (TRUE /\ human)
    BY <1>1
  <2> QED
    BY <1>1, <2>2, <2>3, <2>6 DEF t, human, Counted
<1>2. CASE l.type = "assistant"
  <2>1. l # Skipped
    BY <1>2 DEF Skipped
  <2>2. l.items \in Seq(Item) /\ l.usage \in Nat /\ l.model \in Model \cup {None}
    BY <1>2, <2>1, TranscriptAssumption DEF ClaudeText
  <2> DEFINE tools == ItemsIn(l, {"tool_use", "ask"})
             asks == ItemsIn(l, {"ask"})
             model == Newer(l.model, s.model)
  <2>3. tools \in Nat /\ asks \in Nat /\ asks <= tools
    BY <2>2, ItemsCounted
  <2>4. model \in Model \cup {None} /\ (s.model # None => model # None)
        /\ model = IF l.model # None THEN l.model ELSE s.model
    BY <2>2 DEF Newer, StatsType
  <2>5. t = [s EXCEPT !.tokens = s.tokens + l.usage, !.model = model,
                      !.tools = s.tools + tools, !.asks = s.asks + asks]
    BY <1>2 DEF ReadClaudeLine, ReadAnswer, StatsType
  <2> DEFINE nTools == s.tools + tools
             nAsks == s.asks + asks
             nTokens == s.tokens + l.usage
  <2>9. nTools \in Nat /\ nAsks \in Nat /\ nTokens \in Nat
    BY <2>2, <2>3 DEF StatsType
  <2>10. t = [s EXCEPT !.tokens = nTokens, !.model = model, !.tools = nTools, !.asks = nAsks]
    BY <2>5
  <2> HIDE DEF tools, asks, model, t, nTools, nAsks, nTokens
  <2>11. /\ t.tokens = nTokens /\ t.model = model /\ t.tools = nTools
         /\ t.asks = nAsks /\ t.mid = s.mid /\ t.ghost = s.ghost
         /\ t \in StatsType
    BY <2>4, <2>9, <2>10 DEF StatsType
  <2>6. /\ t.tokens = s.tokens + l.usage /\ t.model = model /\ t.tools = s.tools + tools
        /\ t.asks = s.asks + asks /\ t.mid = s.mid /\ t.ghost = s.ghost
        /\ t \in StatsType
    BY <2>11 DEF nTools, nAsks, nTokens
  <2>7. Grown(s, t) /\ s.tokens <= t.tokens
    BY <2>2, <2>3, <2>4, <2>6 DEF StatsType, Grown
  <2>8. l.type # "user"
    BY <1>2
  <2> QED
    BY <1>2, <2>4, <2>6, <2>7, <2>8 DEF Counted, t
<1>3. CASE l.type \notin {"user", "assistant"}
  <2>1. t = s
    BY <1>3 DEF ReadClaudeLine
  <2>2. Grown(s, s) /\ s.tokens <= s.tokens
    BY DEF StatsType, Grown
  <2> QED
    BY <1>3, <2>1, <2>2 DEF Counted
<1> QED
  BY <1>1, <1>2, <1>3

LEMMA CodexLineCounts ==
  ASSUME NEW s \in StatsType, NEW l \in CodexText
  PROVE  LET t == ReadCodexLine(s, l)
             prompt == l.type = "event_msg" /\ l.payload = "user_message"
         IN  /\ t \in StatsType
             /\ Grown(s, t)
             /\ Counted(s, t, prompt, prompt, l.type = "turn_context" /\ l.model # None, l.model)
<1> DEFINE t == ReadCodexLine(s, l)
           prompt == l.type = "event_msg" /\ l.payload = "user_message"
<1>1. CASE l.type = "turn_context"
  <2>1. l # Skipped
    BY <1>1 DEF Skipped
  <2>2. l.model \in Model \cup {None}
    BY <1>1, <2>1, TranscriptAssumption DEF CodexText
  <2> DEFINE model == Newer(l.model, s.model)
  <2>3. model \in Model \cup {None} /\ (s.model # None => model # None)
        /\ model = IF l.model # None THEN l.model ELSE s.model
    BY <2>2 DEF Newer, StatsType
  <2>4. t = [s EXCEPT !.model = model]
    BY <1>1 DEF ReadCodexLine, StatsType
  <2> HIDE DEF model, t
  <2>5. t \in StatsType /\ Grown(s, t) /\ t.model = model /\ t.mid = s.mid /\ t.ghost = s.ghost
    BY <2>3, <2>4 DEF StatsType, Grown
  <2> QED
    BY <1>1, <2>3, <2>5 DEF Counted, t
<1>2. CASE prompt
  <2> DEFINE mid == IF s.ghost THEN s.mid ELSE s.mid + 1
  <2>1. t = [s EXCEPT !.ghost = FALSE, !.mid = mid]
    BY <1>2 DEF ReadCodexLine, StatsType
  <2>4. mid \in Nat /\ s.mid <= mid
    BY DEF StatsType
  <2> HIDE DEF mid, t
  <2>5. /\ t \in StatsType /\ t.model = s.model /\ ~t.ghost /\ t.mid = mid
        /\ t.tools = s.tools /\ t.asks = s.asks
    BY <2>1, <2>4 DEF StatsType
  <2>2. /\ t \in StatsType /\ Grown(s, t) /\ t.model = s.model /\ ~t.ghost
        /\ t.mid = IF s.ghost THEN s.mid ELSE s.mid + 1
    BY <2>4, <2>5 DEF StatsType, Grown, mid
  <2>3. l.type # "turn_context"
    BY <1>2
  <2> QED
    BY <1>2, <2>2, <2>3 DEF Counted, t
<1>3. CASE l.type # "turn_context" /\ ~prompt
  <2>1. \/ l.type = "event_msg" /\ l.payload = "token_count" /\ l.total # None
             /\ t = [s EXCEPT !.tokens = l.total]
        \/ t = [s EXCEPT !.tools = s.tools + 1]
        \/ t = s
    BY <1>3 DEF ReadCodexLine, StatsType
  <2>2. l.type = "event_msg" => l # Skipped
    BY DEF Skipped
  <2>3. l.type = "event_msg" /\ l.payload = "token_count" /\ l.total # None => l.total \in Nat
    BY <2>2, TranscriptAssumption DEF CodexText
  <2> HIDE DEF t
  <2>4. t \in StatsType /\ Grown(s, t) /\ t.model = s.model /\ t.mid = s.mid /\ t.ghost = s.ghost
    BY <2>1, <2>3 DEF StatsType, Grown
  <2> HIDE DEF prompt
  <2>5. Counted(s, t, prompt, prompt, l.type = "turn_context" /\ l.model # None, l.model)
    BY <1>3, <2>4 DEF Counted
  <2> QED
    BY <2>4, <2>5 DEF t, prompt
<1> QED
  BY <1>1, <1>2, <1>3

-----------------------------------------------------------------------------
(* The lines the scanner gets to *)

Ends(file) == {i \in DOMAIN file : file[i] = TooLong}

LEMMA ScannedTyped ==
  ASSUME NEW S, NEW file \in Seq(S)
  PROVE  Scanned(file) \in Seq(S)
<1>1. CASE Ends(file) = {}
  BY <1>1 DEF Scanned, Ends
<1>2. CASE Ends(file) # {}
  <2>1. Ends(file) \in SUBSET Nat /\ \A i \in Ends(file) : i \in 1..Len(file)
    BY DEF Ends
  <2>2. Min(Ends(file)) \in 1..Len(file)
    BY <1>2, <2>1, MinIsLeast
  <2> DEFINE m == Min(Ends(file))
  <2>3. Scanned(file) = SubSeq(file, 1, m - 1)
    BY <1>2 DEF Scanned, Ends
  <2> HIDE DEF m
  <2>4. m \in 1..Len(file)
    BY <2>2 DEF m
  <2> QED
    BY <2>3, <2>4
<1> QED
  BY <1>1, <1>2

\* A line too long hides itself and all after it.
LEMMA ScannedAppended ==
  ASSUME NEW S, NEW file \in Seq(S), NEW l \in S
  PROVE  \/ Scanned(Append(file, l)) = Scanned(file)
         \/ Scanned(Append(file, l)) = Append(Scanned(file), l)
<1> DEFINE longer == Append(file, l)
<1>1. /\ longer \in Seq(S) /\ Len(longer) = Len(file) + 1 /\ Len(file) \in Nat
      /\ longer[Len(file) + 1] = l
      /\ \A i \in 1..Len(file) : longer[i] = file[i]
      /\ DOMAIN longer = 1..(Len(file) + 1) /\ DOMAIN file = 1..Len(file)
  OBVIOUS
<1> HIDE DEF longer
<1>2. \A k \in 0..Len(file) : SubSeq(longer, 1, k) = SubSeq(file, 1, k)
  <2> TAKE k \in 0..Len(file)
  <2>1. \A i \in 1..k : i \in 1..Len(file)
    BY <1>1
  <2>2. SubSeq(longer, 1, k) = [i \in 1..k |-> longer[i]]
    BY <1>1
  <2>3. SubSeq(file, 1, k) = [i \in 1..k |-> file[i]]
    BY <1>1
  <2> QED
    BY <1>1, <2>1, <2>2, <2>3
<1>3. CASE Ends(file) # {}
  <2>1. Ends(file) \in SUBSET Nat /\ \A i \in Ends(file) : i \in 1..Len(file)
    BY DEF Ends
  <2>2. Ends(longer) \in SUBSET Nat /\ Ends(file) \subseteq Ends(longer)
        /\ \A i \in Ends(longer) : i \in Ends(file) \/ i = Len(file) + 1
    BY <1>1 DEF Ends
  <2>3. Min(Ends(file)) \in Ends(file) /\ \A x \in Ends(file) : Min(Ends(file)) <= x
    BY <1>3, <2>1, MinIsLeast
  <2>4. Min(Ends(longer)) \in Ends(longer) /\ \A x \in Ends(longer) : Min(Ends(longer)) <= x
    <3>1. Ends(longer) # {}
      BY <1>3, <2>2
    <3> QED
      BY <2>2, <3>1, MinIsLeast
  <2>5. Min(Ends(longer)) = Min(Ends(file)) /\ Min(Ends(file)) \in 1..Len(file)
    BY <1>1, <2>1, <2>2, <2>3, <2>4
  <2>6. Min(Ends(file)) - 1 \in 0..Len(file)
    BY <2>5
  <2>7. Ends(longer) # {}
    BY <2>4
  <2>8. Scanned(file) = SubSeq(file, 1, Min(Ends(file)) - 1)
    BY <1>3 DEF Scanned, Ends
  <2>9. Scanned(longer) = SubSeq(longer, 1, Min(Ends(longer)) - 1)
    BY <2>7 DEF Scanned, Ends
  <2> QED
    BY <1>2, <2>5, <2>6, <2>8, <2>9 DEF longer
<1>4. CASE Ends(file) = {} /\ l = TooLong
  <2>1. Ends(longer) = {Len(file) + 1}
    BY <1>1, <1>4 DEF Ends
  <2>2. Min(Ends(longer)) = Len(file) + 1
    <3>1. Ends(longer) \in SUBSET Nat /\ Ends(longer) # {}
      BY <1>1, <2>1
    <3> QED
      BY <2>1, <3>1, MinIsLeast
  <2>3. Scanned(longer) = SubSeq(longer, 1, Min(Ends(longer)) - 1)
    BY <2>1 DEF Scanned, Ends
  <2>4. Scanned(longer) = SubSeq(file, 1, Len(file))
    BY <1>1, <1>2, <2>2, <2>3
  <2>5. SubSeq(file, 1, Len(file)) = file
    BY <1>1
  <2>6. Scanned(file) = file
    BY <1>4 DEF Scanned, Ends
  <2> QED
    BY <2>4, <2>5, <2>6 DEF longer
<1>5. CASE Ends(file) = {} /\ l # TooLong
  <2>1. Ends(longer) = {}
    BY <1>1, <1>5 DEF Ends
  <2>2. Scanned(longer) = longer /\ Scanned(file) = file
    BY <1>5, <2>1 DEF Scanned, Ends
  <2> QED
    BY <2>2 DEF longer
<1> QED
  BY <1>3, <1>4, <1>5

-----------------------------------------------------------------------------
(* What is counted in a transcript *)

\* Of the first n lines: which are prompts, which of them count, which name a
\* model; s is what was read of them.
CountsOf(file, prompts, counted, models, n, s) ==
  /\ s.ghost <=> prompts \cap (1..n) = {}
  /\ s.mid = Cardinality({i \in counted \cap (1..n) : \E j \in prompts : j < i})
  /\ \/ models \cap (1..n) = {} /\ s.model = None
     \/ \E m \in models \cap (1..n) :
          s.model = file[m].model /\ \A k \in models \cap (1..n) : k <= m

\* Counting line by line comes to that, whatever the lines are.
LEMMA CountingCounts ==
  ASSUME NEW file, NEW len \in Nat, NEW read,
         NEW prompts \in SUBSET (1..len), NEW counted \in SUBSET prompts,
         NEW models \in SUBSET (1..len),
         read[0] = NoStats,
         \A n \in 1..len :
           read[n - 1] \in StatsType /\
           Counted(read[n - 1], read[n], n \in prompts, n \in counted, n \in models, file[n].model)
  PROVE  CountsOf(file, prompts, counted, models, len, read[len])
<1> DEFINE Late(n) == {i \in counted \cap (1..n) : \E j \in prompts : j < i}
           Good == {n \in Nat : n <= len => CountsOf(file, prompts, counted, models, n, read[n])}
<1>1. 0 \in Good
  <2>1. 1..0 = {} /\ Late(0) = {}
    OBVIOUS
  <2>2. Cardinality(Late(0)) = 0
    BY <2>1, FS_EmptySet
  <2>3. CountsOf(file, prompts, counted, models, 0, NoStats)
    <3> HIDE DEF Late
    <3>1. NoStats.mid = Cardinality(Late(0)) /\ NoStats.ghost /\ NoStats.model = None
      BY <2>2 DEF NoStats
    <3> QED
      BY <2>1, <3>1 DEF CountsOf, Late
  <2> QED
    BY <2>3
<1>2. ASSUME NEW k \in Good PROVE k + 1 \in Good
  <2> SUFFICES ASSUME k + 1 <= len
               PROVE  CountsOf(file, prompts, counted, models, k + 1, read[k + 1])
    OBVIOUS
  <2>1. k \in Nat /\ k <= len /\ k + 1 \in 1..len /\ (k + 1) - 1 = k
    OBVIOUS
  <2>2. CountsOf(file, prompts, counted, models, k, read[k])
    BY <2>1
  <2> DEFINE n == k + 1
  <2>3. /\ read[k] \in StatsType
        /\ Counted(read[k], read[n], n \in prompts, n \in counted, n \in models, file[n].model)
    BY <2>1
  <2>4. 1..n = (1..k) \cup {n} /\ n \notin 1..k /\ \A i \in 1..k : i < n
    BY <2>1
  <2> HIDE DEF n
  <2>5. read[n].ghost <=> prompts \cap (1..n) = {}
    BY <2>2, <2>3, <2>4 DEF CountsOf, Counted
  <2>6. read[k].ghost <=> ~ \E j \in prompts : j < n
    <3>1. \A j \in prompts : j < n <=> j \in 1..k
      BY <2>1 DEF n
    <3> QED
      BY <2>2, <3>1 DEF CountsOf
  <2>7. read[n].mid = Cardinality(Late(n))
    <3>1. IsFiniteSet(Late(k))
      <4>1. IsFiniteSet(1..k) /\ Late(k) \subseteq 1..k
        BY <2>1, FS_Interval
      <4> HIDE DEF Late
      <4> QED
        BY <4>1, FS_Subset
    <3>2. read[k].mid = Cardinality(Late(k))
      BY <2>2 DEF CountsOf
    <3>3. CASE n \in counted /\ ~read[k].ghost
      <4>1. Late(n) = Late(k) \cup {n} /\ n \notin Late(k)
        BY <2>4, <2>6, <3>3
      <4>2. Cardinality(Late(n)) = Cardinality(Late(k)) + 1
        <5> HIDE DEF Late
        <5> QED
          BY <3>1, <4>1, FS_AddElement
      <4>3. read[n].mid = read[k].mid + 1
        BY <2>3, <3>3 DEF Counted
      <4> QED
        BY <3>2, <4>2, <4>3
    <3>4. CASE ~(n \in counted /\ ~read[k].ghost)
      <4>1. Late(n) = Late(k)
        BY <2>4, <2>6, <3>4
      <4>2. read[n].mid = read[k].mid
        BY <2>3, <3>4 DEF Counted
      <4> QED
        BY <3>2, <4>1, <4>2
    <3> QED
      BY <3>3, <3>4
  <2>8. \/ models \cap (1..n) = {} /\ read[n].model = None
        \/ \E m \in models \cap (1..n) :
             read[n].model = file[m].model /\ \A i \in models \cap (1..n) : i <= m
    <3>1. CASE n \in models
      <4>1. read[n].model = file[n].model
        BY <2>3, <3>1 DEF Counted
      <4>2. \A i \in 1..n : i <= n
        BY <2>1 DEF n
      <4> QED
        BY <2>4, <3>1, <4>1, <4>2
    <3>2. CASE n \notin models
      <4>1. read[n].model = read[k].model
        BY <2>3, <3>2 DEF Counted
      <4>2. models \cap (1..n) = models \cap (1..k)
        BY <2>4, <3>2
      <4> QED
        BY <2>2, <4>1, <4>2 DEF CountsOf
    <3> QED
      BY <3>1, <3>2
  <2>9. CountsOf(file, prompts, counted, models, n, read[n])
    BY <2>5, <2>7, <2>8 DEF CountsOf
  <2> QED
    BY <2>9 DEF n
<1>3. \A n \in Nat : n \in Good
  <2> HIDE DEF Good
  <2> QED
    BY <1>1, <1>2, NumbersFollow
<1> QED
  BY <1>3

\* Of all its lines.
LEMMA CountsToTheEnd ==
  ASSUME NEW file, NEW len \in Nat, NEW s, NEW prompts \in SUBSET (1..len),
         NEW counted \in SUBSET prompts, NEW models \in SUBSET (1..len),
         CountsOf(file, prompts, counted, models, len, s)
  PROVE  /\ s.ghost <=> prompts = {}
         /\ s.mid = Cardinality({i \in counted : \E j \in prompts : j < i})
         /\ s.model = IF models = {} THEN None ELSE file[Max(models)].model
<1>1. prompts \cap (1..len) = prompts /\ counted \cap (1..len) = counted
      /\ models \cap (1..len) = models
  OBVIOUS
<1>2. /\ s.ghost <=> prompts = {}
      /\ s.mid = Cardinality({i \in counted : \E j \in prompts : j < i})
      /\ \/ models = {} /\ s.model = None
         \/ \E m \in models : s.model = file[m].model /\ \A k \in models : k <= m
  BY <1>1, Zenon DEF CountsOf
<1>3. models # {} => Max(models) \in models /\ \A k \in models : k <= Max(models)
  <2>1. models \in SUBSET (0..len)
    OBVIOUS
  <2> QED
    BY <2>1, MaxInInterval
<1>4. \A m \in models : (\A k \in models : k <= m) => models # {} /\ m = Max(models)
  <2> SUFFICES ASSUME NEW m \in models, \A k \in models : k <= m PROVE m = Max(models)
    OBVIOUS
  <2>1. Max(models) \in models /\ m <= Max(models) /\ Max(models) <= m
    BY <1>3
  <2>2. Max(models) \in 1..len /\ m \in 1..len
    BY <2>1
  <2> QED
    BY <2>1, <2>2
<1> QED
  BY <1>2, <1>4

ClaudePrompts(file) == {i \in DOMAIN file : file[i].type = "user"}
ClaudeCounted(file) == {i \in ClaudePrompts(file) : isHumanTextMessage(file[i])}
ClaudeModels(file) == {i \in DOMAIN file : file[i].type = "assistant" /\ file[i].model # None}

CodexPrompts(file) ==
  {i \in DOMAIN file : file[i].type = "event_msg" /\ file[i].payload = "user_message"}
CodexModels(file) == {i \in DOMAIN file : file[i].type = "turn_context" /\ file[i].model # None}

\* Counts with no more questions than tools.
Sound == {s \in StatsType : s.asks <= s.tools}

LEMMA NoStatsSound == NoStats \in Sound
BY NoStatsTyped DEF Sound, NoStats

LEMMA ClaudeKeepsSound ==
  ASSUME NEW s \in Sound, NEW l \in ClaudeText
  PROVE  ReadClaudeLine(s, l) \in Sound
BY ClaudeLineCounts DEF Sound, Grown

LEMMA CodexKeepsSound ==
  ASSUME NEW s \in Sound, NEW l \in CodexText
  PROVE  ReadCodexLine(s, l) \in Sound
BY CodexLineCounts DEF Sound, Grown

\* The loop of ParseClaude counts,
LEMMA ClaudeCounts ==
  ASSUME NEW file \in Seq(ClaudeText)
  PROVE  /\ ClaudeLoop!After(file) \in Sound
         /\ CountsOf(file, ClaudePrompts(file), ClaudeCounted(file), ClaudeModels(file),
                     Len(file), ClaudeLoop!After(file))
<1> DEFINE prompts == ClaudePrompts(file)
           counted == ClaudeCounted(file)
           models == ClaudeModels(file)
<1>1. PICK read : ClaudeRead!History(read, file) /\ ClaudeRead!After(file) = read[Len(file)]
  BY ClaudeRead!LoopReads
<1>2. ClaudeRead!After(file) \in Sound /\ \A n \in 0..Len(file) : read[n] \in Sound
  BY <1>1, NoStatsSound, ClaudeKeepsSound, ClaudeRead!LoopKeeps
<1>3. /\ prompts \in SUBSET (1..Len(file)) /\ counted \in SUBSET prompts
      /\ models \in SUBSET (1..Len(file)) /\ Len(file) \in Nat
  BY DEF ClaudePrompts, ClaudeCounted, ClaudeModels
<1>4. read[0] = NoStats
  BY <1>1 DEF ClaudeRead!History
<1>5. ASSUME NEW n \in 1..Len(file)
      PROVE  /\ read[n - 1] \in StatsType
             /\ Counted(read[n - 1], read[n], n \in prompts, n \in counted, n \in models,
                        file[n].model)
  <2>1. n - 1 \in 0..Len(file) /\ file[n] \in ClaudeText
    OBVIOUS
  <2>2. read[n - 1] \in StatsType
    BY <1>2, <2>1 DEF Sound
  <2>3. read[n] = ReadClaudeLine(read[n - 1], file[n])
    BY <1>1 DEF ClaudeRead!History
  <2>4. /\ n \in prompts <=> file[n].type = "user"
        /\ n \in counted <=> file[n].type = "user" /\ isHumanTextMessage(file[n])
        /\ n \in models <=> file[n].type = "assistant" /\ file[n].model # None
    BY DEF ClaudePrompts, ClaudeCounted, ClaudeModels
  <2>5. Counted(read[n - 1], read[n], file[n].type = "user",
                file[n].type = "user" /\ isHumanTextMessage(file[n]),
                file[n].type = "assistant" /\ file[n].model # None, file[n].model)
    BY <2>1, <2>2, <2>3, ClaudeLineCounts
  <2> HIDE DEF prompts, counted, models
  <2> QED
    BY <2>2, <2>4, <2>5 DEF Counted
<1> HIDE DEF prompts, counted, models
<1>6. CountsOf(file, prompts, counted, models, Len(file), read[Len(file)])
  BY <1>3, <1>4, <1>5, CountingCounts
<1> QED
  BY <1>1, <1>2, <1>6, SameLoops DEF prompts, counted, models

\* and that of ParseCodex.
LEMMA CodexCounts ==
  ASSUME NEW file \in Seq(CodexText)
  PROVE  /\ CodexLoop!After(file) \in Sound
         /\ CountsOf(file, CodexPrompts(file), CodexPrompts(file), CodexModels(file),
                     Len(file), CodexLoop!After(file))
<1> DEFINE prompts == CodexPrompts(file)
           models == CodexModels(file)
<1>1. PICK read : CodexRead!History(read, file) /\ CodexRead!After(file) = read[Len(file)]
  BY CodexRead!LoopReads
<1>2. CodexRead!After(file) \in Sound /\ \A n \in 0..Len(file) : read[n] \in Sound
  BY <1>1, NoStatsSound, CodexKeepsSound, CodexRead!LoopKeeps
<1>3. /\ prompts \in SUBSET (1..Len(file)) /\ models \in SUBSET (1..Len(file))
      /\ Len(file) \in Nat
  BY DEF CodexPrompts, CodexModels
<1>4. read[0] = NoStats
  BY <1>1 DEF CodexRead!History
<1>5. ASSUME NEW n \in 1..Len(file)
      PROVE  /\ read[n - 1] \in StatsType
             /\ Counted(read[n - 1], read[n], n \in prompts, n \in prompts, n \in models,
                        file[n].model)
  <2>1. n - 1 \in 0..Len(file) /\ file[n] \in CodexText
    OBVIOUS
  <2>2. read[n - 1] \in StatsType
    BY <1>2, <2>1 DEF Sound
  <2>3. read[n] = ReadCodexLine(read[n - 1], file[n])
    BY <1>1 DEF CodexRead!History
  <2>4. /\ n \in prompts <=> file[n].type = "event_msg" /\ file[n].payload = "user_message"
        /\ n \in models <=> file[n].type = "turn_context" /\ file[n].model # None
    BY DEF CodexPrompts, CodexModels
  <2>5. Counted(read[n - 1], read[n],
                file[n].type = "event_msg" /\ file[n].payload = "user_message",
                file[n].type = "event_msg" /\ file[n].payload = "user_message",
                file[n].type = "turn_context" /\ file[n].model # None, file[n].model)
    BY <2>1, <2>2, <2>3, CodexLineCounts
  <2> HIDE DEF prompts, models
  <2> QED
    BY <2>2, <2>4, <2>5 DEF Counted
<1> HIDE DEF prompts, models
<1>6. CountsOf(file, prompts, prompts, models, Len(file), read[Len(file)])
  BY <1>3, <1>4, <1>5, CountingCounts
<1> QED
  BY <1>1, <1>2, <1>6, SameLoops DEF prompts, models

-----------------------------------------------------------------------------
(* Transcripts that grow *)

\* A line is begun only in a transcript that is there.
TranscriptInv ==
  /\ writer \in {"claude", "codex"}
  /\ lines = None \/ lines \in Seq(LinesOfWriter)
  /\ half \in BOOLEAN
  /\ half => lines # None

LEMMA TranscriptStep ==
  TranscriptInv /\ [TranscriptNext]_transcriptVars => TranscriptInv'
<1> SUFFICES ASSUME TranscriptInv, [TranscriptNext]_transcriptVars PROVE TranscriptInv'
  OBVIOUS
<1>1. CASE UNCHANGED transcriptVars
  BY <1>1 DEF transcriptVars, TranscriptInv, LinesOfWriter
<1>2. CASE CreateTranscript
  BY <1>2 DEF CreateTranscript, TranscriptInv, LinesOfWriter
<1>3. CASE StartLine
  BY <1>3 DEF StartLine, TranscriptInv, LinesOfWriter
<1>4. ASSUME NEW l \in LinesOfWriter, FinishLine(l) PROVE TranscriptInv'
  <2>1. writer' = writer /\ LinesOfWriter' = LinesOfWriter
    BY <1>4 DEF FinishLine, LinesOfWriter
  <2>2. lines' \in Seq(LinesOfWriter)
    BY <1>4 DEF FinishLine, TranscriptInv
  <2> QED
    BY <1>4, <2>1, <2>2 DEF FinishLine, TranscriptInv
<1> QED
  BY <1>1, <1>2, <1>3, <1>4 DEF TranscriptNext

LEMMA TranscriptStarts == TranscriptInit => TranscriptInv
BY DEF TranscriptInit, TranscriptInv

\* What a reader of an existing transcript finds are lines.
LEMMA FoundTyped ==
  ASSUME TranscriptInv, lines # None
  PROVE  /\ Found \in Seq(IF writer = "codex" THEN CodexText ELSE ClaudeText)
         /\ Found # None
<1> DEFINE S == IF writer = "codex" THEN CodexText ELSE ClaudeText
<1>1. lines \in Seq(S) /\ Skipped \in S
  BY DEF TranscriptInv, LinesOfWriter, CodexText, ClaudeText
<1>2. S \subseteq ClaudeLine \cup CodexLine \cup {Skipped}
  BY DEF CodexText, ClaudeText
<1> HIDE DEF S
<1>3. Found \in Seq(S)
  BY <1>1 DEF Found
<1>4. None \notin Seq(S)
  BY <1>2, TranscriptAssumption
<1> QED
  BY <1>3, <1>4 DEF S

\* The columns of a transcript are the counts they are named for, wherever the
\* agent is in writing it.
THEOREM StatsCorrect == TranscriptSpec => []StatsAreCounts
<1>1. ASSUME TranscriptInv PROVE StatsAreCounts
  <2>1. CASE lines = None
    <3>1. Found = None
      BY <1>1, <2>1 DEF Found, TranscriptInv
    <3>2. Stats = NoStats
      BY <3>1 DEF Stats, Parse, ParseCodex, ParseClaude
    <3>3. Cardinality({}) = 0
      BY FS_EmptySet
    <3>5. DOMAIN <<>> = {}
      OBVIOUS
    <3>6. Stats.ghost /\ Stats.mid = Cardinality({}) /\ Stats.asks <= Stats.tools
          /\ Stats.model = None
      BY <3>2, <3>3 DEF NoStats
    <3>7. CASE writer = "codex"
      BY <2>1, <3>5, <3>6, <3>7 DEF StatsAreCounts
    <3>8. CASE writer # "codex"
      BY <2>1, <3>5, <3>6, <3>8 DEF StatsAreCounts
    <3> QED
      BY <3>7, <3>8
  <2>2. CASE lines # None /\ writer = "codex"
    <3> DEFINE file == Scanned(Found)
               s == CodexLoop!After(file)
    <3>1. Found # None /\ file \in Seq(CodexText)
      BY <1>1, <2>2, FoundTyped, ScannedTyped
    <3>2. Stats = s
      BY <2>2, <3>1 DEF Stats, Parse, ParseCodex
    <3>3. s \in Sound
          /\ CountsOf(file, CodexPrompts(file), CodexPrompts(file), CodexModels(file), Len(file), s)
      BY <3>1, CodexCounts
    <3> HIDE DEF file, s
    <3>4. CodexPrompts(file) \subseteq 1..Len(file) /\ CodexModels(file) \subseteq 1..Len(file)
          /\ DOMAIN file = 1..Len(file) /\ Len(file) \in Nat
      BY <3>1 DEF CodexPrompts, CodexModels
    <3>5. /\ s.ghost <=> CodexPrompts(file) = {}
          /\ s.mid = Cardinality({i \in CodexPrompts(file) : \E j \in CodexPrompts(file) : j < i})
          /\ s.model = IF CodexModels(file) = {} THEN None ELSE file[Max(CodexModels(file))].model
      <4> DEFINE prompts == CodexPrompts(file)
                 counted == CodexPrompts(file)
                 models == CodexModels(file)
                 len == Len(file)
      <4>1. /\ CountsOf(file, prompts, counted, models, len, s) /\ len \in Nat
            /\ prompts \in SUBSET (1..len) /\ counted \in SUBSET prompts
            /\ models \in SUBSET (1..len)
        BY <3>3, <3>4
      <4> HIDE DEF prompts, counted, models, len
      <4>2. /\ s.ghost <=> prompts = {}
            /\ s.mid = Cardinality({i \in counted : \E j \in prompts : j < i})
            /\ s.model = IF models = {} THEN None ELSE file[Max(models)].model
        BY <4>1, CountsToTheEnd
      <4> QED
        BY <4>2 DEF prompts, counted, models
    <3>6. s.ghost \in BOOLEAN /\ s.asks <= s.tools
      BY <3>3 DEF Sound, StatsType
    <3> QED
      BY <2>2, <3>2, <3>5, <3>6 DEF StatsAreCounts, CodexPrompts, CodexModels, file
  <2>3. CASE lines # None /\ writer # "codex"
    <3> DEFINE file == Scanned(Found)
               s == ClaudeLoop!After(file)
    <3>1. Found # None /\ file \in Seq(ClaudeText)
      BY <1>1, <2>3, FoundTyped, ScannedTyped
    <3>2. Stats = s
      BY <2>3, <3>1 DEF Stats, Parse, ParseClaude
    <3>3. s \in Sound
          /\ CountsOf(file, ClaudePrompts(file), ClaudeCounted(file), ClaudeModels(file), Len(file), s)
      BY <3>1, ClaudeCounts
    <3> HIDE DEF file, s
    <3>4. /\ ClaudePrompts(file) \subseteq 1..Len(file) /\ ClaudeModels(file) \subseteq 1..Len(file)
          /\ ClaudeCounted(file) \subseteq ClaudePrompts(file)
          /\ DOMAIN file = 1..Len(file) /\ Len(file) \in Nat
      BY <3>1 DEF ClaudePrompts, ClaudeCounted, ClaudeModels
    <3>5. /\ s.ghost <=> ClaudePrompts(file) = {}
          /\ s.mid = Cardinality({i \in ClaudeCounted(file) : \E j \in ClaudePrompts(file) : j < i})
          /\ s.model = IF ClaudeModels(file) = {} THEN None ELSE file[Max(ClaudeModels(file))].model
      <4> DEFINE prompts == ClaudePrompts(file)
                 counted == ClaudeCounted(file)
                 models == ClaudeModels(file)
                 len == Len(file)
      <4>1. /\ CountsOf(file, prompts, counted, models, len, s) /\ len \in Nat
            /\ prompts \in SUBSET (1..len) /\ counted \in SUBSET prompts
            /\ models \in SUBSET (1..len)
        BY <3>3, <3>4
      <4> HIDE DEF prompts, counted, models, len
      <4>2. /\ s.ghost <=> prompts = {}
            /\ s.mid = Cardinality({i \in counted : \E j \in prompts : j < i})
            /\ s.model = IF models = {} THEN None ELSE file[Max(models)].model
        BY <4>1, CountsToTheEnd
      <4> QED
        BY <4>2 DEF prompts, counted, models
    <3>6. s.ghost \in BOOLEAN /\ s.asks <= s.tools
      BY <3>3 DEF Sound, StatsType
    <3> QED
      BY <2>3, <3>2, <3>5, <3>6 DEF StatsAreCounts, ClaudePrompts, ClaudeCounted, ClaudeModels, file
  <2> QED
    BY <2>1, <2>2, <2>3
<1> QED
  BY <1>1, TranscriptStarts, TranscriptStep, PTL DEF TranscriptSpec

\* One more line: nothing that was counted before it is taken back, and a blank
\* line or half a line changes nothing.
LEMMA ClaudeFileGrows ==
  ASSUME NEW file \in Seq(ClaudeText), NEW l \in ClaudeText
  PROVE  LET s == ClaudeLoop!After(Scanned(file))
             t == ClaudeLoop!After(Scanned(Append(file, l)))
         IN  /\ s \in Sound /\ t \in Sound
             /\ Grown(s, t) /\ s.tokens <= t.tokens
             /\ l = Skipped => t = s
<1> DEFINE s == ClaudeLoop!After(Scanned(file))
           t == ClaudeLoop!After(Scanned(Append(file, l)))
<1>1. Append(file, l) \in Seq(ClaudeText)
  OBVIOUS
<1>2. s \in Sound /\ t \in Sound
  BY <1>1, ScannedTyped, ClaudeCounts
<1>3. CASE Scanned(Append(file, l)) = Scanned(file)
  <2>1. t = s
    BY <1>3
  <2> HIDE DEF s, t
  <2>2. Grown(s, t) /\ s.tokens <= t.tokens
    BY <1>2, <2>1 DEF Grown, Sound, StatsType
  <2> QED
    BY <1>2, <2>1, <2>2 DEF s, t
<1>4. CASE Scanned(Append(file, l)) = Append(Scanned(file), l)
  <2>1. t = ReadClaudeLine(s, l)
    BY <1>4, ScannedTyped, SameLoops, ClaudeRead!LoopAppends
  <2>2. Skipped.type \notin {"user", "assistant"}
    BY DEF Skipped
  <2>3. l = Skipped => ReadClaudeLine(s, l) = s
    BY <2>2 DEF ReadClaudeLine
  <2> HIDE DEF s, t
  <2>4. Grown(s, t) /\ s.tokens <= t.tokens
    BY <1>2, <2>1, ClaudeLineCounts DEF Sound
  <2> QED
    BY <1>2, <2>1, <2>3, <2>4 DEF s, t
<1> QED
  BY <1>3, <1>4, ScannedAppended

LEMMA CodexFileGrows ==
  ASSUME NEW file \in Seq(CodexText), NEW l \in CodexText
  PROVE  LET s == CodexLoop!After(Scanned(file))
             t == CodexLoop!After(Scanned(Append(file, l)))
         IN  /\ s \in Sound /\ t \in Sound
             /\ Grown(s, t)
             /\ l = Skipped => t = s
<1> DEFINE s == CodexLoop!After(Scanned(file))
           t == CodexLoop!After(Scanned(Append(file, l)))
<1>1. Append(file, l) \in Seq(CodexText)
  OBVIOUS
<1>2. s \in Sound /\ t \in Sound
  BY <1>1, ScannedTyped, CodexCounts
<1>3. CASE Scanned(Append(file, l)) = Scanned(file)
  <2>1. t = s
    BY <1>3
  <2> HIDE DEF s, t
  <2>2. Grown(s, t)
    BY <1>2, <2>1 DEF Grown, Sound, StatsType
  <2> QED
    BY <1>2, <2>1, <2>2 DEF s, t
<1>4. CASE Scanned(Append(file, l)) = Append(Scanned(file), l)
  <2>1. t = ReadCodexLine(s, l)
    BY <1>4, ScannedTyped, SameLoops, CodexRead!LoopAppends
  <2>2. Skipped.type \notin {"turn_context", "event_msg", "response_item"}
    BY DEF Skipped
  <2>3. l = Skipped => ReadCodexLine(s, l) = s
    BY <2>2 DEF ReadCodexLine
  <2> HIDE DEF s, t
  <2>4. Grown(s, t)
    BY <1>2, <2>1, CodexLineCounts DEF Sound
  <2> QED
    BY <1>2, <2>1, <2>3, <2>4 DEF s, t
<1> QED
  BY <1>3, <1>4, ScannedAppended

\* What the writer's parser makes of a file.
LEMMA FileGrows ==
  ASSUME TranscriptInv, NEW file \in Seq(LinesOfWriter \cup {Skipped}),
         NEW l \in LinesOfWriter \cup {Skipped}
  PROVE  LET s == Parse(file, writer)
             t == Parse(Append(file, l), writer)
         IN  /\ s \in Sound /\ t \in Sound
             /\ Grown(s, t) /\ (writer = "claude" => s.tokens <= t.tokens)
             /\ l = Skipped => t = s
<1>1. \A f \in Seq(LinesOfWriter \cup {Skipped}) : f # None
  <2>1. LinesOfWriter \cup {Skipped} \subseteq ClaudeLine \cup CodexLine \cup {Skipped}
    BY DEF LinesOfWriter
  <2> QED
    BY <2>1, TranscriptAssumption
<1>2. file # None /\ Append(file, l) # None
  <2>1. Append(file, l) \in Seq(LinesOfWriter \cup {Skipped})
    OBVIOUS
  <2> QED
    BY <1>1, <2>1
<1>3. CASE writer = "codex"
  <2>1. LinesOfWriter \cup {Skipped} = CodexText
    BY <1>3 DEF LinesOfWriter, CodexText
  <2>2. /\ Parse(file, writer) = CodexLoop!After(Scanned(file))
        /\ Parse(Append(file, l), writer) = CodexLoop!After(Scanned(Append(file, l)))
    BY <1>2, <1>3 DEF Parse, ParseCodex
  <2> QED
    BY <1>3, <2>1, <2>2, CodexFileGrows
<1>4. CASE writer # "codex"
  <2>1. LinesOfWriter \cup {Skipped} = ClaudeText
    BY <1>4 DEF LinesOfWriter, ClaudeText
  <2>2. /\ Parse(file, writer) = ClaudeLoop!After(Scanned(file))
        /\ Parse(Append(file, l), writer) = ClaudeLoop!After(Scanned(Append(file, l)))
    BY <1>2, <1>4 DEF Parse, ParseClaude
  <2> QED
    BY <2>1, <2>2, ClaudeFileGrows
<1> QED
  BY <1>3, <1>4

\* No step of the agent takes back what was counted.
LEMMA StatsGrow ==
  ASSUME TranscriptInv, [TranscriptNext]_transcriptVars
  PROVE  /\ Stats \in Sound /\ Stats' \in Sound
         /\ Grown(Stats, Stats')
         /\ writer = "claude" => Stats.tokens <= Stats'.tokens
<1> DEFINE S == LinesOfWriter \cup {Skipped}
<1>1. TranscriptInv' /\ writer' = writer
  BY TranscriptStep DEF TranscriptNext, CreateTranscript, StartLine, FinishLine, transcriptVars
<1>2. \A s \in Sound : Grown(s, s) /\ s.tokens <= s.tokens
  BY DEF Sound, StatsType, Grown
<1>3. <<>> \in Seq(S) /\ Skipped \in S
  OBVIOUS
<1>4. lines # None => lines \in Seq(S)
  BY DEF TranscriptInv
<1>5. Stats' = Parse(Found', writer)
  BY <1>1 DEF Stats
<1>6. Parse(<<>>, writer) = NoStats
  <2>1. Scanned(<<>>) = <<>>
    BY DEF Scanned
  <2>2. ClaudeLoop!After(<<>>) = NoStats /\ CodexLoop!After(<<>>) = NoStats
    BY SameLoops, ClaudeRead!LoopOfNothing, CodexRead!LoopOfNothing
  <2> QED
    BY <2>1, <2>2 DEF Parse, ParseCodex, ParseClaude
<1>7. lines = None => Stats = NoStats
  BY DEF Found, TranscriptInv, Stats, Parse, ParseCodex, ParseClaude
<1>8. Stats \in Sound
  <2>1. CASE lines = None
    BY <1>7, <2>1, NoStatsSound
  <2>2. CASE lines # None /\ ~half
    BY <1>3, <1>4, <2>2, FileGrows DEF Stats, Found
  <2>3. CASE half
    BY <1>3, <1>4, <2>3, FileGrows DEF Stats, Found, TranscriptInv
  <2> QED
    BY <2>1, <2>2, <2>3
<1>9. CASE UNCHANGED transcriptVars
  <2>1. Stats' = Stats
    BY <1>9 DEF transcriptVars, Stats, Found
  <2> QED
    BY <1>2, <1>8, <2>1
<1>10. CASE CreateTranscript
  <2>1. Found' = <<>> /\ lines = None
    BY <1>10 DEF CreateTranscript, Found, TranscriptInv
  <2>2. Stats' = Stats
    BY <1>5, <1>6, <1>7, <2>1
  <2> QED
    BY <1>2, <1>8, <2>2
<1>11. CASE StartLine
  <2>1. Found = lines /\ Found' = Append(lines, Skipped) /\ lines \in Seq(S)
    BY <1>4, <1>11 DEF StartLine, Found
  <2> QED
    BY <1>3, <1>5, <2>1, FileGrows DEF Stats
<1>12. ASSUME NEW l \in LinesOfWriter, FinishLine(l)
       PROVE  /\ Stats' \in Sound /\ Grown(Stats, Stats')
              /\ writer = "claude" => Stats.tokens <= Stats'.tokens
  <2>1. Found = Append(lines, Skipped) /\ Found' = Append(lines, l) /\ lines \in Seq(S)
    BY <1>4, <1>12 DEF FinishLine, Found, TranscriptInv
  <2>2. Stats = Parse(lines, writer)
    BY <1>3, <2>1, FileGrows DEF Stats
  <2> QED
    BY <1>5, <1>12, <2>1, <2>2, FileGrows
<1> QED
  BY <1>8, <1>9, <1>10, <1>11, <1>12 DEF TranscriptNext

\* A sync never takes back what an earlier one counted, between whichever lines,
\* or parts of lines, the two came.
THEOREM CountsGrowCorrect == TranscriptSpec => CountsOnlyGrow
<1> DEFINE A == /\ Stats'.tools >= Stats.tools /\ Stats'.mid >= Stats.mid
                /\ Stats'.asks >= Stats.asks
                /\ writer = "claude" => Stats'.tokens >= Stats.tokens
                /\ Stats'.ghost => Stats.ghost
                /\ Stats.model # None => Stats'.model # None
<1>1. TranscriptInv /\ [TranscriptNext]_transcriptVars => [A]_transcriptVars
  BY StatsGrow DEF Grown, Sound, StatsType
<1> HIDE DEF A
<1>2. TranscriptSpec => [][A]_transcriptVars
  BY <1>1, TranscriptStarts, TranscriptStep, PTL DEF TranscriptSpec
<1> QED
  BY <1>2 DEF CountsOnlyGrow, A

-----------------------------------------------------------------------------
(* Rollouts read for their meta data *)

\* Once a line with a timestamp is read, there is one; and the model read is
\* that of the other loop over the same lines.
LEMMA MetaOfFile ==
  ASSUME NEW file \in Seq(CodexText)
  PROVE  LET meta == MetaLoop!After(file)
         IN  /\ meta.model = CodexLoop!After(file).model
             /\ (\E i \in DOMAIN file : file[i] # Skipped /\ file[i].at # None) => meta.at # None
<1>1. PICK read : MetaRead!History(read, file) /\ MetaRead!After(file) = read[Len(file)]
  BY MetaRead!LoopReads
<1>2. PICK stats : CodexRead!History(stats, file) /\ CodexRead!After(file) = stats[Len(file)]
  BY CodexRead!LoopReads
<1>3. \A n \in 0..Len(file) : stats[n] \in StatsType
  <2>1. \A n \in 0..Len(file) : stats[n] \in Sound
    BY <1>2, NoStatsSound, CodexKeepsSound, CodexRead!LoopKeeps
  <2> QED
    BY <2>1 DEF Sound
<1> DEFINE Timed(n) == \E i \in 1..n : file[i] # Skipped /\ file[i].at # None
           Good == {n \in Nat : n <= Len(file) =>
                      read[n].model = stats[n].model /\ (Timed(n) => read[n].at # None)}
<1>4. 0 \in Good
  <2>1. read[0] = NoMeta /\ stats[0] = NoStats
    BY <1>1, <1>2 DEF MetaRead!History, CodexRead!History
  <2> QED
    BY <2>1 DEF NoMeta, NoStats
<1>5. ASSUME NEW k \in Good PROVE k + 1 \in Good
  <2> SUFFICES ASSUME k + 1 <= Len(file)
               PROVE  /\ read[k + 1].model = stats[k + 1].model
                      /\ Timed(k + 1) => read[k + 1].at # None
    OBVIOUS
  <2>1. k \in Nat /\ k \in 0..Len(file) /\ k + 1 \in 1..Len(file) /\ (k + 1) - 1 = k
    OBVIOUS
  <2> DEFINE l == file[k + 1]
  <2>2. read[k].model = stats[k].model /\ (Timed(k) => read[k].at # None)
    BY <2>1
  <2>3. read[k + 1] = ReadMetaLine(read[k], l) /\ stats[k + 1] = ReadCodexLine(stats[k], l)
    BY <1>1, <1>2, <2>1 DEF MetaRead!History, CodexRead!History
  <2>4. l \in CodexText /\ stats[k] \in StatsType
    BY <1>3, <2>1
  <2>5. stats[k + 1].model = IF l.type = "turn_context" /\ l.model # None
                             THEN l.model ELSE stats[k].model
    <3> DEFINE prompt == l.type = "event_msg" /\ l.payload = "user_message"
    <3> HIDE DEF l
    <3>1. Counted(stats[k], ReadCodexLine(stats[k], l), prompt, prompt,
                  l.type = "turn_context" /\ l.model # None, l.model)
      BY <2>4, CodexLineCounts
    <3> HIDE DEF prompt
    <3> QED
      BY <2>3, <3>1 DEF Counted
  <2>6. CASE l = Skipped
    <3>1. read[k + 1] = read[k]
      BY <2>3, <2>6 DEF ReadMetaLine
    <3>2. l.type # "turn_context"
      BY <2>6 DEF Skipped
    <3>3. Timed(k + 1) => Timed(k)
      BY <2>1, <2>6
    <3> QED
      BY <2>2, <2>5, <3>1, <3>2, <3>3
  <2>7. CASE l # Skipped
    <3>1. /\ read[k + 1].model = IF l.type = "turn_context" THEN Newer(l.model, read[k].model)
                                 ELSE read[k].model
          /\ read[k + 1].at = Newer(l.at, read[k].at)
      BY <2>3, <2>7 DEF ReadMetaLine
    <3>2. Timed(k + 1) => Timed(k) \/ l.at # None
      BY <2>1
    <3> HIDE DEF l, Timed
    <3> QED
      BY <2>2, <2>5, <3>1, <3>2 DEF Newer
  <2> QED
    BY <2>6, <2>7
<1>6. \A n \in Nat : n \in Good
  <2> HIDE DEF Good
  <2> QED
    BY <1>4, <1>5, NumbersFollow
<1>7. read[Len(file)].model = stats[Len(file)].model
      /\ (Timed(Len(file)) => read[Len(file)].at # None)
  BY <1>6
<1> QED
  BY <1>1, <1>2, <1>7, SameLoops

\* What backfill and the hooks take from a rollout is what sync-db finds in it;
\* and of one that has begun they find something.
THEOREM MetaCorrect == TranscriptSpec => []MetaAgrees
<1>1. ASSUME TranscriptInv PROVE MetaAgrees
  <2> SUFFICES ASSUME writer = "codex", lines # None
               PROVE  LET meta == ReadCodexMeta(Found)
                      IN  /\ meta.model = Stats.model
                          /\ (\E i \in DOMAIN Scanned(lines) :
                                Scanned(lines)[i] # Skipped /\ Scanned(lines)[i].at # None)
                                  => MetaOk(meta)
    BY DEF MetaAgrees
  <2> DEFINE file == Scanned(Found)
             begun == Scanned(lines)
  <2>1. Found # None /\ Found \in Seq(CodexText) /\ file \in Seq(CodexText)
    BY <1>1, FoundTyped, ScannedTyped
  <2>2. lines \in Seq(CodexText) /\ begun \in Seq(CodexText)
    <3>1. lines \in Seq(CodexText)
      BY <1>1 DEF TranscriptInv, LinesOfWriter, CodexText
    <3> QED
      BY <3>1, ScannedTyped
  <2>3. file = begun \/ file = Append(begun, Skipped)
    BY <2>2, ScannedAppended DEF Found, CodexText
  <2>4. Stats = CodexLoop!After(file) /\ ReadCodexMeta(Found) = MetaLoop!After(file)
    BY <2>1 DEF Stats, Parse, ParseCodex, ReadCodexMeta
  <2> HIDE DEF file, begun
  <2>5. (\E i \in DOMAIN begun : begun[i] # Skipped /\ begun[i].at # None) =>
          \E i \in DOMAIN file : file[i] # Skipped /\ file[i].at # None
    <3> SUFFICES ASSUME NEW i \in DOMAIN begun, begun[i] # Skipped, begun[i].at # None
                 PROVE  i \in DOMAIN file /\ file[i] = begun[i]
      OBVIOUS
    <3> QED
      BY <2>2, <2>3
  <2>6. /\ ReadCodexMeta(Found).model = Stats.model
        /\ (\E i \in DOMAIN file : file[i] # Skipped /\ file[i].at # None) =>
             ReadCodexMeta(Found).at # None
    BY <2>1, <2>4, MetaOfFile
  <2> QED
    BY <2>5, <2>6 DEF MetaOk, begun
<1> QED
  BY <1>1, TranscriptStarts, TranscriptStep, PTL DEF TranscriptSpec

-----------------------------------------------------------------------------
(* The configuration: what a line makes of what is read *)

ConfigRead == INSTANCE LineLoopProofs WITH Read <- ReadLine, Start <- NothingRead

LEMMA SameConfigLoop ==
  ASSUME NEW file
  PROVE  ConfigLoop!After(file) = ConfigRead!After(file)
BY Zenon DEF ConfigLoop!After, ConfigRead!After

ConfigValue == {Meaning(l.key, l.value) : l \in ConfigLine} \cup {None, "server", <<>>}

TargetType == {t \in [exportKeys -> ConfigValue] : t["signals"] \in Seq(STRING)}

\* The last table is open as long as keys of an [[export]] are read.
ConfigState ==
  {c \in [section : {None, "server", "export"}, hasServer : BOOLEAN,
          server : TargetType, exports : Seq(TargetType)] :
     c.section = "export" => Len(c.exports) > 0}

LEMMA ExportKeysAre ==
  exportKeys = {"id", "endpoint", "token", "auth_header", "auth_scheme", "encoding", "signals"}
BY DEF exportKeys, Target

\* A target starts empty, but for its name.
LEMMA TargetIs ==
  ASSUME NEW id \in {None, "server"}
  PROVE  /\ Target(id) \in TargetType
         /\ Target(id)["id"] = id
         /\ Target(id)["endpoint"] = None
         /\ Target(id)["token"] = None
<1>1. /\ Target(id)["id"] = id /\ Target(id)["endpoint"] = None /\ Target(id)["token"] = None
      /\ Target(id)["auth_header"] = None /\ Target(id)["auth_scheme"] = None
      /\ Target(id)["encoding"] = None /\ Target(id)["signals"] = <<>>
  BY DEF Target
<1>2. DOMAIN Target(id) = exportKeys
  BY ExportKeysAre DEF Target
<1>3. Target(id) = [k \in exportKeys |-> Target(id)[k]]
  BY <1>2 DEF Target
<1>4. \A k \in exportKeys : Target(id)[k] \in ConfigValue
  BY <1>1, ExportKeysAre DEF ConfigValue
<1>5. <<>> \in Seq(STRING)
  OBVIOUS
<1> QED
  BY <1>1, <1>3, <1>4, <1>5 DEF TargetType

\* A line is a head or has a key.
LEMMA ConfigLineIs ==
  ASSUME NEW l \in ConfigLine
  PROVE  /\ l.kind \in {"table", "key"}
         /\ \A name \in {"server", "export"} : l = Table(name) <=> l.kind = "table" /\ l.name = name
         /\ l.kind = "key" /\ l.key = "signals" => l.value \in Seq(STRING)
BY ConfigAssumption DEF Table

\* A key sets one field of the target it is in.
LEMMA ApplyKeyIs ==
  ASSUME NEW t \in TargetType, NEW l \in ConfigLine, l.kind = "key", NEW keys \in SUBSET exportKeys
  PROVE  /\ applyKey(t, keys, l) \in TargetType
         /\ \A k \in exportKeys :
              applyKey(t, keys, l)[k] = IF k = l.key /\ k \in keys THEN Meaning(k, l.value) ELSE t[k]
<1>1. CASE l.key \notin keys
  BY <1>1 DEF applyKey
<1>2. CASE l.key \in keys
  <2> DEFINE v == Meaning(l.key, l.value)
             s == applyKey(t, keys, l)
  <2>1. v \in ConfigValue
    BY DEF ConfigValue
  <2>2. l.key = "signals" => v \in Seq(STRING)
    BY ConfigLineIs DEF Meaning
  <2>3. s = [t EXCEPT ![l.key] = v]
    BY <1>2 DEF applyKey
  <2> HIDE DEF v, s
  <2>4. t \in [exportKeys -> ConfigValue] /\ t["signals"] \in Seq(STRING) /\ l.key \in exportKeys
        /\ "signals" \in exportKeys
    BY <1>2, ExportKeysAre DEF TargetType
  <2>5. s \in [exportKeys -> ConfigValue] /\ s["signals"] \in Seq(STRING)
        /\ \A k \in exportKeys : s[k] = IF k = l.key THEN v ELSE t[k]
    BY <2>1, <2>2, <2>3, <2>4
  <2> QED
    BY <1>2, <2>5 DEF TargetType, s, v
<1> QED
  BY <1>1, <1>2

\* What a line makes of what is read: it opens a table, or sets a key of the
\* one that is open, or means nothing.
LEMMA ReadLineMakes ==
  ASSUME NEW s \in ConfigState, NEW l \in ConfigLine
  PROVE  LET t == ReadLine(s, l)
             last == Len(s.exports)
         IN  /\ t \in ConfigState
             /\ l.kind = "table" /\ l.name = "export" =>
                  /\ t.section = "export" /\ t.exports = Append(s.exports, Target(None))
                  /\ t.server = s.server /\ t.hasServer = s.hasServer
             /\ l.kind = "table" /\ l.name = "server" =>
                  /\ t.section = "server" /\ t.hasServer
                  /\ t.server = s.server /\ t.exports = s.exports
             /\ l.kind = "table" /\ l.name \notin {"server", "export"} =>
                  /\ t.section = None
                  /\ t.server = s.server /\ t.hasServer = s.hasServer /\ t.exports = s.exports
             /\ l.kind = "key" =>
                  /\ t.section = s.section /\ t.hasServer = s.hasServer
                  /\ t.server = IF s.section = "server" THEN applyKey(s.server, serverKeys, l)
                                ELSE s.server
                  /\ Len(t.exports) = last
                  /\ \A i \in 1..last :
                       t.exports[i] = IF s.section = "export" /\ i = last
                                      THEN applyKey(s.exports[last], exportKeys, l)
                                      ELSE s.exports[i]
<1> DEFINE t == ReadLine(s, l)
           last == Len(s.exports)
<1>1. s.section \in {None, "server", "export"} /\ s.hasServer \in BOOLEAN
      /\ s.server \in TargetType /\ s.exports \in Seq(TargetType)
      /\ (s.section = "export" => last > 0)
      /\ s = [section |-> s.section, hasServer |-> s.hasServer, server |-> s.server,
              exports |-> s.exports]
  BY DEF ConfigState
<1>2. Table("server") # Table("export")
  BY DEF Table
<1>0. None # "server" /\ None # "export"
  BY ConfigAssumption
<1>3. CASE l.kind = "table" /\ l.name = "export"
  <2>1. l = Table("export") /\ l # Table("server") /\ l.kind # "key"
        /\ ~(l.kind = "table" /\ l.name \notin {"server", "export"})
    BY <1>2, <1>3, ConfigLineIs
  <2>2. t = [s EXCEPT !.section = "export", !.exports = Append(@, Target(None))]
    BY <2>1, Zenon DEF ReadLine
  <2>3. Append(s.exports, Target(None)) \in Seq(TargetType)
        /\ Len(Append(s.exports, Target(None))) > 0
    <3>1. Target(None) \in TargetType
      BY TargetIs
    <3> QED
      BY <1>1, <3>1
  <2> HIDE DEF t
  <2>4. /\ t.section = "export" /\ t.exports = Append(s.exports, Target(None))
        /\ t.server = s.server /\ t.hasServer = s.hasServer
    BY <1>1, <2>2
  <2>5. t \in ConfigState
    BY <1>1, <2>2, <2>3 DEF ConfigState
  <2> QED
    BY <1>3, <2>4, <2>5 DEF t
<1>4. CASE l.kind = "table" /\ l.name = "server"
  <2>1. l = Table("server") /\ l # Table("export") /\ l.kind # "key"
        /\ ~(l.kind = "table" /\ l.name \notin {"server", "export"})
    BY <1>2, <1>4, ConfigLineIs
  <2>2. t = [s EXCEPT !.section = "server", !.hasServer = TRUE]
    BY <2>1, Zenon DEF ReadLine
  <2> HIDE DEF t
  <2>4. /\ t.section = "server" /\ t.hasServer = TRUE
        /\ t.server = s.server /\ t.exports = s.exports
    BY <1>1, <2>2
  <2>5. t \in ConfigState
    BY <1>1, <2>2 DEF ConfigState
  <2> QED
    BY <1>4, <2>4, <2>5 DEF t
<1>5. CASE l.kind = "table" /\ l.name \notin {"server", "export"}
  <2>1. l # Table("server") /\ l # Table("export")
    BY <1>5, ConfigLineIs
  <2>2. t = [s EXCEPT !.section = None]
    BY <1>5, <2>1 DEF ReadLine
  <2> HIDE DEF t
  <2>4. /\ t.section = None /\ t.hasServer = s.hasServer
        /\ t.server = s.server /\ t.exports = s.exports
    BY <1>1, <2>2
  <2>5. t \in ConfigState
    BY <1>0, <1>1, <2>2 DEF ConfigState
  <2> QED
    BY <1>5, <2>4, <2>5 DEF t
<1>6. CASE l.kind = "key"
  <2>1. l # Table("server") /\ l # Table("export") /\ l.kind # "table"
    BY <1>6, ConfigLineIs
  <2>2. CASE s.section = "server"
    <3> DEFINE new == applyKey(s.server, serverKeys, l)
    <3>1. new \in TargetType
      <4>1. serverKeys \in SUBSET exportKeys
        BY ExportKeysAre DEF serverKeys
      <4> QED
        BY <1>1, <1>6, <4>1, ApplyKeyIs
    <3>2. t = [s EXCEPT !.server = new]
      BY <1>6, <2>1, <2>2 DEF ReadLine
    <3> HIDE DEF new, t
    <3>3. /\ t.section = s.section /\ t.hasServer = s.hasServer
          /\ t.server = new /\ t.exports = s.exports
      BY <1>1, <3>2
    <3>4. t \in ConfigState
      BY <1>1, <3>1, <3>2 DEF ConfigState
    <3> QED
      BY <1>6, <2>2, <3>3, <3>4 DEF t, new
  <2>3. CASE s.section = "export"
    <3> DEFINE new == applyKey(s.exports[last], exportKeys, l)
               all == [s.exports EXCEPT ![last] = new]
    <3>1. new \in TargetType
      <4>1. s.exports[last] \in TargetType
        BY <1>1, <2>3
      <4> QED
        BY <1>6, <4>1, ApplyKeyIs
    <3>2. t = [s EXCEPT !.exports = all]
      BY <1>6, <2>1, <2>3 DEF ReadLine
    <3>3. all \in Seq(TargetType) /\ Len(all) = last
          /\ \A i \in 1..last : all[i] = IF i = last THEN new ELSE s.exports[i]
      <4> HIDE DEF new
      <4>1. s.exports \in [1..last -> TargetType] /\ last \in Nat
        BY <1>1
      <4>2. all \in [1..last -> TargetType]
            /\ \A i \in 1..last : all[i] = IF i = last THEN new ELSE s.exports[i]
        BY <3>1, <4>1
      <4> HIDE DEF all
      <4> QED
        BY <4>1, <4>2
    <3> HIDE DEF new, all, t
    <3>4. /\ t.section = s.section /\ t.hasServer = s.hasServer
          /\ t.server = s.server /\ t.exports = all
      BY <1>1, <3>2
    <3>5. t \in ConfigState
      BY <1>1, <2>3, <3>2, <3>3 DEF ConfigState
    <3> QED
      BY <1>6, <2>3, <3>3, <3>4, <3>5 DEF t, new
  <2>4. CASE s.section = None
    <3>1. t = s
      BY <1>0, <1>6, <2>1, <2>4 DEF ReadLine
    <3> QED
      BY <1>0, <1>6, <2>4, <3>1
  <2> QED
    BY <1>1, <2>2, <2>3, <2>4
<1> QED
  BY <1>3, <1>4, <1>5, <1>6, ConfigLineIs

-----------------------------------------------------------------------------
(* The configuration: what n lines make is what they say *)

\* Counting tables up to a line.
LEMMA PlaceSteps ==
  ASSUME NEW tables, \A g \in tables : g \in Nat /\ g # 0
  PROVE  /\ Place(tables, 0) = 0
         /\ \A n \in Nat :
              /\ Place(tables, n) \in Nat
              /\ Place(tables, n + 1) = Place(tables, n) + (IF n + 1 \in tables THEN 1 ELSE 0)
              /\ \A m \in 0..n : /\ Place(tables, m) <= Place(tables, n)
                                 /\ m < n /\ n \in tables => Place(tables, m) < Place(tables, n)
<1> DEFINE UpTo(n) == {g \in tables : g <= n}
<1>1. ASSUME NEW n \in Nat PROVE IsFiniteSet(UpTo(n)) /\ Place(tables, n) \in Nat
  <2>1. IsFiniteSet(1..n)
    BY FS_Interval
  <2>2. UpTo(n) \in SUBSET (1..n)
    OBVIOUS
  <2>3. IsFiniteSet(UpTo(n))
    BY <2>1, <2>2, FS_Subset
  <2> QED
    BY <2>3, FS_CardinalityType DEF Place
<1>2. ASSUME NEW n \in Nat
      PROVE  Place(tables, n + 1) = Place(tables, n) + (IF n + 1 \in tables THEN 1 ELSE 0)
  <2>1. CASE n + 1 \in tables
    <3>1. UpTo(n + 1) = UpTo(n) \cup {n + 1} /\ n + 1 \notin UpTo(n)
      BY <2>1
    <3>2. Cardinality(UpTo(n + 1)) = Cardinality(UpTo(n)) + 1
      <4> HIDE DEF UpTo
      <4> QED
        BY <1>1, <3>1, FS_AddElement
    <3> QED
      BY <2>1, <3>2 DEF Place
  <2>2. CASE n + 1 \notin tables
    <3>1. UpTo(n + 1) = UpTo(n)
      BY <2>2
    <3> QED
      BY <1>1, <2>2, <3>1 DEF Place
  <2> QED
    BY <2>1, <2>2
<1>3. ASSUME NEW n \in Nat, NEW m \in 0..n PROVE Place(tables, m) <= Place(tables, n)
  <2>1. UpTo(m) \in SUBSET UpTo(n)
    OBVIOUS
  <2>2. Cardinality(UpTo(m)) <= Cardinality(UpTo(n))
    <3> HIDE DEF UpTo
    <3> QED
      BY <1>1, <2>1, FS_Subset
  <2> QED
    BY <2>2 DEF Place
<1>4. ASSUME NEW n \in tables, NEW m \in 0..n, m < n
      PROVE  Place(tables, m) < Place(tables, n)
  <2> DEFINE k == n - 1
  <2>1. k \in Nat /\ n = k + 1 /\ m \in 0..k
    BY <1>4
  <2> HIDE DEF k
  <2>2. Place(tables, m) <= Place(tables, k) /\ Place(tables, k) \in Nat
    BY <1>1, <1>3, <2>1
  <2>3. Place(tables, n) = Place(tables, k) + 1
    BY <1>2, <1>4, <2>1
  <2>4. m \in Nat /\ Place(tables, m) \in Nat
    <3>1. m \in Nat
      OBVIOUS
    <3> QED
      BY <1>1, <3>1
  <2>5. Place(tables, n) > Place(tables, k)
    BY <1>4, <2>1, <2>2, <2>3
  <2> HIDE DEF UpTo
  <2> QED
    BY <2>2, <2>4, <2>5, <2>3
<1>5. Place(tables, 0) = 0
  <2>1. UpTo(0) = {}
    OBVIOUS
  <2> QED
    BY <2>1, FS_EmptySet DEF Place
<1> QED
  BY <1>1, <1>2, <1>3, <1>4, <1>5

LEMMA NamedAre ==
  ASSUME NEW file \in Seq(ConfigLine)
  PROVE  /\ Heads(file) \in SUBSET (1..Len(file))
         /\ Heads(file) \in SUBSET Nat
         /\ \A name : Named(file, name) \in SUBSET Heads(file)
         /\ \A name : \A h \in Named(file, name) : h \in Nat /\ h # 0
         /\ \A i \in 1..Len(file) : i \in Heads(file) <=> file[i].kind = "table"
         /\ \A i \in 1..Len(file) : \A name :
              i \in Named(file, name) <=> file[i].kind = "table" /\ file[i].name = name
BY DEF Heads, Named

\* A head opens its table and closes all others; a key leaves them as they are.
LEMMA UnderSteps ==
  ASSUME NEW file \in Seq(ConfigLine), NEW tables \in SUBSET Heads(file),
         NEW i \in 1..Len(file)
  PROVE  /\ file[i].kind = "table" => (Under(file, tables, i + 1) <=> i \in tables)
         /\ file[i].kind = "key" => (Under(file, tables, i + 1) <=> Under(file, tables, i))
<1>1. Heads(file) \in SUBSET Nat /\ Heads(file) \in SUBSET (1..Len(file)) /\ i \in Nat
  BY NamedAre
<1>2. ASSUME file[i].kind = "table" PROVE Under(file, tables, i + 1) <=> i \in tables
  <2>1. i \in Heads(file)
    BY <1>2, NamedAre
  <2>2. ASSUME Under(file, tables, i + 1) PROVE i \in tables
    <3>1. PICK h \in tables : h < i + 1 /\ \A g \in Heads(file) : g < i + 1 => g <= h
      BY <2>2 DEF Under
    <3>2. i <= h /\ h \in Nat
      BY <1>1, <2>1, <3>1
    <3> QED
      BY <1>1, <3>1, <3>2
  <2>3. ASSUME i \in tables PROVE Under(file, tables, i + 1)
    BY <1>1, <2>3 DEF Under
  <2> QED
    BY <2>2, <2>3
<1>3. ASSUME file[i].kind = "key" PROVE Under(file, tables, i + 1) <=> Under(file, tables, i)
  <2>1. i \notin Heads(file)
    BY <1>3, NamedAre
  <2>2. \A h \in Heads(file) : h < i + 1 <=> h < i
    BY <1>1, <2>1
  <2> QED
    BY <2>2 DEF Under
<1> QED
  BY <1>2, <1>3

LEMMA NothingUnder ==
  ASSUME NEW file \in Seq(ConfigLine), NEW tables \in SUBSET Heads(file)
  PROVE  ~Under(file, tables, 1)
BY NamedAre DEF Under

\* Only one table is open.
LEMMA UnderOne ==
  ASSUME NEW file \in Seq(ConfigLine), NEW i \in Nat, NEW h \in Heads(file), NEW k \in Heads(file),
         Under(file, {h}, i), Under(file, {k}, i)
  PROVE  h = k
<1>1. h \in Nat /\ k \in Nat
  BY NamedAre
<1> QED
  BY <1>1 DEF Under

LEMMA UnderIs ==
  ASSUME NEW file, NEW tables, NEW i
  PROVE  Under(file, tables, i) <=> \E h \in tables : Under(file, {h}, i)
BY DEF Under

\* A key of the tables sets the value, any other line leaves it.
LEMMA WrittenSteps ==
  ASSUME NEW file \in Seq(ConfigLine), NEW tables \in SUBSET Heads(file), NEW key,
         NEW n \in Nat, n + 1 <= Len(file)
  PROVE  LET sets == /\ file[n + 1].kind = "key" /\ file[n + 1].key = key
                     /\ Under(file, tables, n + 1)
         IN  /\ sets => Written(file, 1..(n + 1), tables, key) = Meaning(key, file[n + 1].value)
             /\ ~sets => Written(file, 1..(n + 1), tables, key) = Written(file, 1..n, tables, key)
<1> DEFINE Sets(i) == /\ file[i].kind = "key" /\ file[i].key = key
                      /\ Under(file, tables, i)
           At(m) == {i \in 1..m : Sets(i)}
<1>1. \A m : Written(file, 1..m, tables, key) =
               IF At(m) = {} THEN Target(None)[key] ELSE Meaning(key, file[Max(At(m))].value)
  BY DEF Written
<1>2. ASSUME Sets(n + 1)
      PROVE  Written(file, 1..(n + 1), tables, key) = Meaning(key, file[n + 1].value)
  <2>1. n + 1 \in At(n + 1)
    BY <1>2
  <2>2. At(n + 1) \in SUBSET (0..(n + 1)) /\ n + 1 \in Nat
    OBVIOUS
  <2> HIDE DEF At
  <2>3. Max(At(n + 1)) \in At(n + 1) /\ n + 1 <= Max(At(n + 1))
    BY <2>1, <2>2, MaxInInterval
  <2>4. Max(At(n + 1)) = n + 1
    BY <2>2, <2>3
  <2> QED
    BY <1>1, <2>1, <2>4
<1>3. ASSUME ~Sets(n + 1)
      PROVE  Written(file, 1..(n + 1), tables, key) = Written(file, 1..n, tables, key)
  <2>1. At(n + 1) = At(n)
    <3> HIDE DEF Sets
    <3>1. \A i : i \in 1..(n + 1) <=> i \in 1..n \/ i = n + 1
      OBVIOUS
    <3> QED
      BY <1>3, <3>1
  <2> HIDE DEF At
  <2> QED
    BY <1>1, <2>1
<1> QED
  BY <1>2, <1>3

\* A table that starts later says nothing yet.
LEMMA NothingWritten ==
  ASSUME NEW file \in Seq(ConfigLine), NEW tables \in SUBSET Heads(file), NEW key,
         NEW n \in Nat, \A h \in tables : n <= h
  PROVE  Written(file, 1..n, tables, key) = Target(None)[key]
<1>1. Heads(file) \in SUBSET Nat
  BY NamedAre
<1>2. \A i \in 1..n : ~Under(file, tables, i)
  BY <1>1 DEF Under
<1>3. {i \in 1..n : file[i].kind = "key" /\ file[i].key = key /\ Under(file, tables, i)} = {}
  BY <1>2
<1> QED
  BY <1>3 DEF Written

\* What has been read after n lines is what they say.
AsRead(file, n, c) ==
  LET servers == Named(file, "server")
      exports == Named(file, "export")
  IN  /\ c \in ConfigState
      /\ c.section = "server" <=> Under(file, servers, n + 1)
      /\ c.section = "export" <=> Under(file, exports, n + 1)
      /\ c.hasServer <=> \E h \in servers : h <= n
      /\ c.server["id"] = "server"
      /\ \A key \in serverKeys : c.server[key] = Written(file, 1..n, servers, key)
      /\ Len(c.exports) = Place(exports, n)
      /\ \A h \in exports : h <= n =>
           \A key \in exportKeys : c.exports[Place(exports, h)][key] = Written(file, 1..n, {h}, key)

LEMMA StartIsAsRead ==
  ASSUME NEW file \in Seq(ConfigLine)
  PROVE  AsRead(file, 0, NothingRead)
<1> DEFINE servers == Named(file, "server")
           exports == Named(file, "export")
           c == NothingRead
<1>1. /\ servers \in SUBSET Heads(file) /\ exports \in SUBSET Heads(file)
      /\ \A h \in servers : h \in Nat /\ h # 0
      /\ \A h \in exports : h \in Nat /\ h # 0
  BY NamedAre
<1>2. None # "server" /\ None # "export"
  BY ConfigAssumption
<1>3. /\ Target("server") \in TargetType /\ Target("server")["id"] = "server"
      /\ Target("server")["endpoint"] = None /\ Target("server")["token"] = None
      /\ Target(None)["endpoint"] = None /\ Target(None)["token"] = None
  BY TargetIs
<1>4. c \in ConfigState
  <2>1. <<>> \in Seq(TargetType)
    OBVIOUS
  <2> QED
    BY <1>2, <1>3, <2>1 DEF ConfigState, NothingRead
<1>5. /\ c.section = None /\ c.hasServer = FALSE /\ c.server = Target("server") /\ c.exports = <<>>
  BY DEF NothingRead
<1> HIDE DEF servers, exports, c
<1>6. ~Under(file, servers, 1) /\ ~Under(file, exports, 1)
  BY <1>1, NothingUnder
<1>7. \A key \in serverKeys : c.server[key] = Written(file, 1..0, servers, key)
  <2>1. \A key : Written(file, 1..0, servers, key) = Target(None)[key]
    <3>1. \A h \in servers : 0 <= h
      BY <1>1
    <3> QED
      BY <1>1, <3>1, NothingWritten
  <2> QED
    BY <1>3, <1>5, <2>1 DEF serverKeys
<1>8. Len(c.exports) = Place(exports, 0)
  BY <1>1, <1>5, PlaceSteps
<1>9. (\A h \in exports : ~(h <= 0)) /\ \A h \in servers : ~(h <= 0)
  BY <1>1
<1>10. 0 + 1 = 1
  OBVIOUS
<1> QED
  BY <1>2, <1>3, <1>4, <1>5, <1>6, <1>7, <1>8, <1>9, <1>10 DEF AsRead, servers, exports, c

\* A line of another table, or the head of one, is no value of these.
LEMMA OtherLine ==
  ASSUME NEW file \in Seq(ConfigLine), NEW n \in Nat, n + 1 <= Len(file),
         NEW tables \in SUBSET Heads(file),
         file[n + 1].kind = "key" => ~Under(file, tables, n + 1)
  PROVE  \A key : Written(file, 1..(n + 1), tables, key) = Written(file, 1..n, tables, key)
BY WrittenSteps

\* One line more.
LEMMA LineIsRead ==
  ASSUME NEW file \in Seq(ConfigLine), NEW n \in Nat, n + 1 <= Len(file),
         NEW c, AsRead(file, n, c)
  PROVE  AsRead(file, n + 1, ReadLine(c, file[n + 1]))
<1> DEFINE servers == Named(file, "server")
           exports == Named(file, "export")
           l == file[n + 1]
           t == ReadLine(c, l)
           last == Len(c.exports)
<1>1. /\ n + 1 \in 1..Len(file) /\ n + 1 \in Nat /\ l \in ConfigLine
  OBVIOUS
<1>2. /\ servers \in SUBSET Heads(file) /\ exports \in SUBSET Heads(file)
      /\ \A h \in Heads(file) : h \in Nat /\ h # 0
      /\ \A h \in servers : h \in Nat /\ h # 0
      /\ \A h \in exports : h \in Nat /\ h # 0
      /\ n + 1 \in servers <=> l.kind = "table" /\ l.name = "server"
      /\ n + 1 \in exports <=> l.kind = "table" /\ l.name = "export"
      /\ \A h \in exports : {h} \in SUBSET Heads(file)
  BY <1>1, NamedAre
<1>3. /\ c \in ConfigState
      /\ c.section = "server" <=> Under(file, servers, n + 1)
      /\ c.section = "export" <=> Under(file, exports, n + 1)
      /\ c.hasServer <=> \E h \in servers : h <= n
      /\ c.server["id"] = "server"
      /\ \A key \in serverKeys : c.server[key] = Written(file, 1..n, servers, key)
      /\ last = Place(exports, n)
      /\ \A h \in exports : h <= n =>
           \A key \in exportKeys : c.exports[Place(exports, h)][key] = Written(file, 1..n, {h}, key)
  BY DEF AsRead
<1>4. /\ c.section \in {None, "server", "export"} /\ c.hasServer \in BOOLEAN
      /\ c.server \in TargetType /\ c.exports \in Seq(TargetType)
      /\ last \in Nat
      /\ \A i \in 1..last : c.exports[i] \in TargetType
  BY <1>3 DEF ConfigState
<1> HIDE DEF t, l, last, servers, exports
<1>5. /\ Place(exports, n + 1) = last + (IF n + 1 \in exports THEN 1 ELSE 0)
      /\ \A h \in exports : h <= n => Place(exports, h) \in 1..last
  <2>1. Place(exports, n + 1) = last + (IF n + 1 \in exports THEN 1 ELSE 0)
    BY <1>2, <1>3, PlaceSteps
  <2>2. ASSUME NEW h \in exports, h <= n PROVE Place(exports, h) \in 1..last
    <3>1. h \in Nat /\ h # 0 /\ h \in 0..n /\ 0 \in 0..h
      BY <1>2, <2>2
    <3>2. Place(exports, h) <= last /\ Place(exports, h) \in Nat
      BY <1>2, <1>3, <3>1, PlaceSteps
    <3>3. Place(exports, 0) = 0 /\ Place(exports, 0) < Place(exports, h)
      <4>1. 0 < h
        BY <3>1
      <4> QED
        BY <1>2, <3>1, <4>1, PlaceSteps
    <3> QED
      BY <1>4, <3>2, <3>3
  <2> QED
    BY <2>1, <2>2
<1>6. \A h : h \in Nat => (h <= n + 1 <=> h <= n \/ h = n + 1)
  OBVIOUS
<1> USE DEF servers, exports, l
<1>7. /\ l.kind = "table" => /\ Under(file, servers, n + 2) <=> n + 1 \in servers
                             /\ Under(file, exports, n + 2) <=> n + 1 \in exports
      /\ l.kind = "key" => /\ Under(file, servers, n + 2) <=> Under(file, servers, n + 1)
                           /\ Under(file, exports, n + 2) <=> Under(file, exports, n + 1)
  <2>1. (n + 1) + 1 = n + 2
    OBVIOUS
  <2> QED
    BY <1>1, <1>2, <2>1, UnderSteps
<1>8. None # "server" /\ None # "export" /\ (n + 1) + 1 = n + 2
  BY ConfigAssumption
<1>9. ~(n + 1 <= n)
  OBVIOUS
<1> HIDE DEF servers, exports, l
<1>10. ASSUME l.kind = "table"
       PROVE  /\ \A key : Written(file, 1..(n + 1), servers, key) = Written(file, 1..n, servers, key)
              /\ \A h \in exports : \A key :
                   Written(file, 1..(n + 1), {h}, key) = Written(file, 1..n, {h}, key)
  <2>1. file[n + 1].kind # "key"
    BY <1>10 DEF l
  <2> QED
    BY <1>2, <2>1, OtherLine
<1>20. CASE l.kind = "table" /\ l.name = "export"
  <2>1. /\ t \in ConfigState
        /\ t.section = "export" /\ t.exports = Append(c.exports, Target(None))
        /\ t.server = c.server /\ t.hasServer = c.hasServer
    BY <1>1, <1>3, <1>20, ReadLineMakes DEF t, l
  <2>2. n + 1 \in exports /\ n + 1 \notin servers
    BY <1>2, <1>20
  <2>3. Place(exports, n + 1) = last + 1
    BY <1>5, <2>2
  <2>4. /\ Len(t.exports) = last + 1 /\ t.exports[last + 1] = Target(None)
        /\ \A i \in 1..last : t.exports[i] = c.exports[i]
    BY <1>4, <2>1 DEF last
  <2>5. t.hasServer <=> \E h \in servers : h <= n + 1
    BY <1>2, <1>3, <1>6, <2>1, <2>2
  <2>6. ASSUME NEW h \in exports, h <= n + 1, NEW key \in exportKeys
        PROVE  t.exports[Place(exports, h)][key] = Written(file, 1..(n + 1), {h}, key)
    <3>1. CASE h <= n
      <4>1. t.exports[Place(exports, h)] = c.exports[Place(exports, h)]
        BY <1>5, <2>4, <3>1
      <4> QED
        BY <1>3, <1>10, <1>20, <3>1, <4>1
    <3>2. CASE h = n + 1
      <4>1. {h} \in SUBSET Heads(file) /\ \A k \in {h} : n + 1 <= k
        BY <1>1, <1>2, <3>2
      <4>2. Written(file, 1..(n + 1), {h}, key) = Target(None)[key]
        BY <1>1, <4>1, NothingWritten
      <4> QED
        BY <2>3, <2>4, <3>2, <4>2
    <3> QED
      BY <1>2, <1>6, <2>6, <3>1, <3>2
  <2>7. \A key \in serverKeys : t.server[key] = Written(file, 1..(n + 1), servers, key)
    BY <1>3, <1>10, <1>20, <2>1
  <2>8. t.section = "server" <=> Under(file, servers, n + 2)
    BY <1>7, <1>20, <2>1, <2>2
  <2>9. t.section = "export" <=> Under(file, exports, n + 2)
    BY <1>7, <1>20, <2>1, <2>2
  <2> QED
    BY <1>3, <1>8, <2>1, <2>3, <2>4, <2>5, <2>6, <2>7, <2>8, <2>9
       DEF AsRead, servers, exports, t, l
<1>30. CASE l.kind = "table" /\ l.name # "export"
  <2>1. n + 1 \notin exports /\ (n + 1 \in servers <=> l.name = "server")
    BY <1>2, <1>30
  <2>2. /\ t \in ConfigState
        /\ t.section = IF l.name = "server" THEN "server" ELSE None
        /\ t.hasServer <=> l.name = "server" \/ c.hasServer
        /\ t.server = c.server /\ t.exports = c.exports
    <3>1. CASE l.name = "server"
      BY <1>1, <1>3, <1>30, <3>1, ReadLineMakes DEF t, l
    <3>2. CASE l.name # "server"
      BY <1>1, <1>3, <1>30, <3>2, ReadLineMakes DEF t, l
    <3> QED
      BY <3>1, <3>2
  <2>3. Place(exports, n + 1) = last
    BY <1>4, <1>5, <2>1
  <2>5. t.hasServer <=> \E h \in servers : h <= n + 1
    BY <1>1, <1>2, <1>3, <1>6, <2>1, <2>2
  <2>6. ASSUME NEW h \in exports, h <= n + 1, NEW key \in exportKeys
        PROVE  t.exports[Place(exports, h)][key] = Written(file, 1..(n + 1), {h}, key)
    <3>1. h <= n
      BY <1>2, <1>6, <2>1, <2>6
    <3> QED
      BY <1>3, <1>10, <1>30, <2>2, <3>1
  <2>7. \A key \in serverKeys : t.server[key] = Written(file, 1..(n + 1), servers, key)
    BY <1>3, <1>10, <1>30, <2>2
  <2>8. t.section = "server" <=> Under(file, servers, n + 2)
    BY <1>7, <1>8, <1>30, <2>1, <2>2
  <2>9. t.section = "export" <=> Under(file, exports, n + 2)
    BY <1>7, <1>8, <1>30, <2>1, <2>2
  <2>10. Len(t.exports) = Place(exports, n + 1)
    BY <2>2, <2>3 DEF last
  <2> QED
    BY <1>3, <1>8, <2>2, <2>5, <2>6, <2>7, <2>8, <2>9, <2>10
       DEF AsRead, servers, exports, t, l
<1>40. CASE l.kind = "key"
  <2>1. /\ t \in ConfigState
        /\ t.section = c.section /\ t.hasServer = c.hasServer
        /\ t.server = IF c.section = "server" THEN applyKey(c.server, serverKeys, l)
                      ELSE c.server
        /\ Len(t.exports) = last
        /\ \A i \in 1..last :
             t.exports[i] = IF c.section = "export" /\ i = last
                            THEN applyKey(c.exports[last], exportKeys, l)
                            ELSE c.exports[i]
    BY <1>1, <1>3, <1>40, ReadLineMakes DEF t, l, last
  <2>2. n + 1 \notin exports /\ n + 1 \notin servers
    BY <1>2, <1>40
  <2>3. Place(exports, n + 1) = last
    BY <1>4, <1>5, <2>2
  <2>4. serverKeys \in SUBSET exportKeys /\ "id" \in exportKeys /\ "id" \notin serverKeys
    BY ExportKeysAre DEF serverKeys
  <2>5. t.hasServer <=> \E h \in servers : h <= n + 1
    BY <1>2, <1>3, <1>6, <2>1, <2>2
  <2>6. t.section = "server" <=> Under(file, servers, n + 2)
    BY <1>3, <1>7, <1>40, <2>1
  <2>7. t.section = "export" <=> Under(file, exports, n + 2)
    BY <1>3, <1>7, <1>40, <2>1
  <2>8. t.server["id"] = "server"
    BY <1>1, <1>3, <1>4, <1>40, <2>1, <2>4, ApplyKeyIs
  <2>9. ASSUME NEW key \in serverKeys
        PROVE  t.server[key] = Written(file, 1..(n + 1), servers, key)
    <3>1. CASE Under(file, servers, n + 1) /\ l.key = key
      <4>1. Written(file, 1..(n + 1), servers, key) = Meaning(key, l.value)
        BY <1>2, <1>40, <3>1, WrittenSteps DEF l
      <4>2. t.server[key] = Meaning(key, l.value)
        BY <1>1, <1>3, <1>4, <1>40, <2>1, <2>4, <3>1, ApplyKeyIs
      <4> QED
        BY <4>1, <4>2
    <3>2. CASE ~(Under(file, servers, n + 1) /\ l.key = key)
      <4>1. Written(file, 1..(n + 1), servers, key) = Written(file, 1..n, servers, key)
        BY <1>2, <3>2, WrittenSteps DEF l
      <4>2. t.server[key] = c.server[key]
        BY <1>1, <1>3, <1>4, <1>40, <2>1, <2>4, <3>2, ApplyKeyIs
      <4> QED
        BY <1>3, <4>1, <4>2
    <3> QED
      BY <3>1, <3>2
  <2>10. ASSUME NEW h \in exports, h <= n + 1, NEW key \in exportKeys
         PROVE  t.exports[Place(exports, h)][key] = Written(file, 1..(n + 1), {h}, key)
    <3>1. h <= n
      BY <1>2, <1>6, <2>2, <2>10
    <3>2. Place(exports, h) \in 1..last
      BY <1>5, <3>1
    <3>3. c.exports[Place(exports, h)][key] = Written(file, 1..n, {h}, key)
      BY <1>3, <3>1
    <3>4. Under(file, {h}, n + 1) <=> c.section = "export" /\ Place(exports, h) = last
      <4>1. ASSUME Under(file, {h}, n + 1)
            PROVE  c.section = "export" /\ Place(exports, h) = last
        <5>1. c.section = "export"
          BY <1>3, <4>1, UnderIs
        <5>2. \A g \in exports : g <= n => g <= h
          BY <1>2, <1>6, <4>1 DEF Under
        <5>3. {g \in exports : g <= n} = {g \in exports : g <= h}
          BY <1>2, <3>1, <5>2
        <5> QED
          BY <1>3, <5>1, <5>3 DEF Place
      <4>2. ASSUME c.section = "export", Place(exports, h) = last
            PROVE  Under(file, {h}, n + 1)
        <5>1. PICK k \in exports : Under(file, {k}, n + 1)
          BY <1>3, <4>2, UnderIs
        <5>2. k <= n /\ h <= k /\ k \in Nat /\ h \in Nat
          BY <1>2, <1>6, <3>1, <5>1 DEF Under
        <5>3. h = k
          <6> SUFFICES ASSUME h # k PROVE FALSE
            OBVIOUS
          <6>1. h \in 0..k /\ h < k /\ k \in 0..n
            BY <5>2
          <6>2. Place(exports, h) < Place(exports, k)
            BY <1>2, <5>1, <5>2, <6>1, PlaceSteps
          <6>3. Place(exports, k) \in 1..last
            BY <1>5, <5>2
          <6> QED
            BY <1>4, <4>2, <6>2, <6>3
        <5> QED
          BY <5>1, <5>3
      <4> QED
        BY <4>1, <4>2
    <3>5. CASE Under(file, {h}, n + 1) /\ l.key = key
      <4>1. Written(file, 1..(n + 1), {h}, key) = Meaning(key, l.value)
        BY <1>2, <1>40, <3>5, WrittenSteps DEF l
      <4>2. t.exports[last] = applyKey(c.exports[last], exportKeys, l) /\ last \in 1..last
        BY <2>1, <3>2, <3>4, <3>5
      <4>3. t.exports[last][key] = Meaning(key, l.value)
        BY <1>1, <1>4, <1>40, <3>5, <4>2, ApplyKeyIs
      <4> QED
        BY <3>4, <3>5, <4>1, <4>3
    <3>6. CASE ~(Under(file, {h}, n + 1) /\ l.key = key)
      <4>1. Written(file, 1..(n + 1), {h}, key) = Written(file, 1..n, {h}, key)
        BY <1>2, <3>6, WrittenSteps DEF l
      <4>2. t.exports[Place(exports, h)][key] = c.exports[Place(exports, h)][key]
        <5>1. CASE c.section = "export" /\ Place(exports, h) = last
          <6>1. l.key # key /\ last \in 1..last
            BY <3>2, <3>4, <3>6, <5>1
          <6>2. t.exports[last] = applyKey(c.exports[last], exportKeys, l)
            BY <2>1, <5>1, <6>1
          <6>3. t.exports[last][key] = c.exports[last][key]
            BY <1>1, <1>4, <1>40, <6>1, <6>2, ApplyKeyIs
          <6> QED
            BY <5>1, <6>3
        <5>2. CASE ~(c.section = "export" /\ Place(exports, h) = last)
          BY <2>1, <3>2, <5>2
        <5> QED
          BY <5>1, <5>2
      <4> QED
        BY <3>3, <4>1, <4>2
    <3> QED
      BY <3>5, <3>6
  <2>11. Len(t.exports) = Place(exports, n + 1)
    BY <2>1, <2>3
  <2> QED
    BY <1>8, <2>1, <2>5, <2>6, <2>7, <2>8, <2>9, <2>10, <2>11
       DEF AsRead, servers, exports, t, l
<1> QED
  <2>1. l.kind \in {"table", "key"}
    BY <1>1, ConfigLineIs
  <2> QED
    BY <1>20, <1>30, <1>40, <2>1 DEF t, l

\* The whole file.
LEMMA FileIsRead ==
  ASSUME NEW file \in Seq(ConfigLine)
  PROVE  AsRead(file, Len(file), ConfigLoop!After(file))
<1>1. PICK read : ConfigRead!History(read, file) /\ ConfigRead!After(file) = read[Len(file)]
  BY ConfigRead!LoopReads
<1>2. /\ read[0] = NothingRead
      /\ \A n \in 1..Len(file) : read[n] = ReadLine(read[n - 1], file[n])
  BY <1>1 DEF ConfigRead!History
<1> DEFINE Good == {n \in Nat : n <= Len(file) => AsRead(file, n, read[n])}
<1>3. 0 \in Good
  BY <1>2, StartIsAsRead
<1>4. ASSUME NEW k \in Nat, k \in Good PROVE k + 1 \in Good
  <2> SUFFICES ASSUME k + 1 <= Len(file) PROVE AsRead(file, k + 1, read[k + 1])
    OBVIOUS
  <2>1. k + 1 \in 1..Len(file) /\ (k + 1) - 1 = k /\ AsRead(file, k, read[k])
    BY <1>4
  <2>2. read[k + 1] = ReadLine(read[k], file[k + 1])
    BY <1>2, <2>1
  <2> QED
    BY <2>1, <2>2, LineIsRead
<1>5. \A n \in Nat : n \in Good
  <2> HIDE DEF Good
  <2> QED
    BY <1>3, <1>4, NumbersFollow
<1>6. Len(file) \in Nat
  OBVIOUS
<1>7. AsRead(file, Len(file), read[Len(file)])
  BY <1>5, <1>6
<1> QED
  BY <1>1, <1>7, SameConfigLoop

\* Defaults fill what a table leaves open, and only that.
LEMMA NormalizedIs ==
  ASSUME NEW t \in TargetType
  PROVE  LET d == normalizeTarget(t)
         IN  /\ \A key \in {"id", "endpoint", "token"} : d[key] = t[key]
             /\ d["signals"] \in Seq(STRING \cup {"logs"}) /\ d["signals"] # <<>>
<1> DEFINE d == normalizeTarget(t)
<1>1. /\ t \in [exportKeys -> ConfigValue] /\ t["signals"] \in Seq(STRING)
  BY DEF TargetType
<1>2. DOMAIN t = exportKeys /\ exportKeys = {"id", "endpoint", "token", "auth_header",
                                             "auth_scheme", "encoding", "signals"}
  BY <1>1, ExportKeysAre
<1>3. \A key \in {"id", "endpoint", "token"} : d[key] = t[key]
  BY <1>2 DEF normalizeTarget
<1>4. d["signals"] = IF t["signals"] = <<>> THEN <<"logs">> ELSE t["signals"]
  BY <1>2 DEF normalizeTarget
<1>5. <<"logs">> \in Seq(STRING \cup {"logs"}) /\ <<"logs">> # <<>>
  OBVIOUS
<1>6. t["signals"] \in Seq(STRING \cup {"logs"})
  BY <1>1
<1> QED
  BY <1>3, <1>4, <1>5, <1>6

\* The targets of a file that is there.
LEMMA TargetsAre ==
  ASSUME NEW file \in Seq(ConfigLine)
  PROVE  LET read == ConfigLoop!After(file)
             first == IF read.hasServer THEN 1 ELSE 0
             all == [i \in 1..(first + Len(read.exports)) |->
                       IF i = 1 /\ first = 1 THEN read.server ELSE read.exports[i - first]]
             loaded == LoadConfig(file)
         IN  \/ loaded = Refused
             \/ /\ loaded.ok
                /\ loaded.targets = [i \in 1..(first + Len(read.exports)) |-> normalizeTarget(all[i])]
                /\ \A i \in 1..(first + Len(read.exports)) : Valid(normalizeTarget(all[i]))
<1> DEFINE read == ConfigLoop!After(file)
           exports == read.exports
           first == IF read.hasServer THEN 1 ELSE 0
           size == first + Len(exports)
           both == (IF read.hasServer THEN <<read.server>> ELSE <<>>) \o exports
           all == [i \in 1..size |->
                     IF i = 1 /\ first = 1 THEN read.server ELSE exports[i - first]]
           targets == [i \in DOMAIN both |-> normalizeTarget(both[i])]
           Accepted ==
             /\ \A i \in DOMAIN targets : targets[i].id # None /\ Valid(targets[i])
             /\ \A i, j \in DOMAIN targets : targets[i].id = targets[j].id => i = j
<1>1. read \in ConfigState
  BY FileIsRead DEF AsRead
<1>2. /\ read.hasServer \in BOOLEAN /\ read.server \in TargetType
      /\ exports \in Seq(TargetType)
  BY <1>1 DEF ConfigState
<1>3. file # None
  BY ConfigAssumption
<1>4. LoadConfig(file) =
        IF Accepted THEN [ok |-> TRUE, targets |-> targets] ELSE Refused
  BY <1>3, Zenon DEF LoadConfig
<1> HIDE DEF read
<1>5. both = all
  <2>1. CASE read.hasServer
    <3>1. both = <<read.server>> \o exports /\ <<read.server>> \in Seq(TargetType)
      BY <1>2, <2>1
    <3>2. both \in Seq(TargetType) /\ Len(both) = 1 + Len(exports)
          /\ \A i \in 1..Len(both) : both[i] = IF i = 1 THEN read.server ELSE exports[i - 1]
      <4> HIDE DEF both
      <4> QED
        BY <1>2, <3>1
    <3>3. both = [i \in 1..Len(both) |-> both[i]]
      <4> HIDE DEF both
      <4> QED
        BY <3>2
    <3> HIDE DEF both
    <3> QED
      BY <2>1, <3>2, <3>3
  <2>2. CASE ~read.hasServer
    <3>1. both = exports
      BY <1>2, <2>2
    <3>2. exports = [i \in 1..Len(exports) |-> exports[i]] /\ Len(exports) \in Nat
      BY <1>2
    <3>3. \A i \in 1..Len(exports) : i - 0 = i
      OBVIOUS
    <3> HIDE DEF both
    <3> QED
      BY <2>2, <3>1, <3>2, <3>3
  <2> QED
    BY <2>1, <2>2
<1>6. DOMAIN both = 1..size
  <2> HIDE DEF both
  <2> QED
    BY <1>5
<1> HIDE DEF both, all
<1>7. targets = [i \in 1..size |-> normalizeTarget(all[i])]
  BY <1>5, <1>6
<1>8. CASE Accepted
  <2>1. LoadConfig(file) = [ok |-> TRUE, targets |-> targets]
    BY <1>4, <1>8, Zenon
  <2>2. \A i \in 1..size : Valid(normalizeTarget(all[i]))
    <3> HIDE DEF size
    <3> QED
      BY <1>7, <1>8
  <2>3. LoadConfig(file).ok /\ LoadConfig(file).targets = targets
    <3> HIDE DEF targets
    <3> QED
      BY <2>1
  <2>4. LoadConfig(file).targets = [i \in 1..size |-> normalizeTarget(all[i])]
    BY <1>7, <2>3, Zenon
  <2> QED
    BY <2>2, <2>3, <2>4, Zenon DEF read, all
<1>9. CASE ~Accepted
  BY <1>4, <1>9, Zenon
<1> HIDE DEF Accepted
<1> QED
  BY <1>8, <1>9, Zenon

-----------------------------------------------------------------------------
(* The configuration: the theorems *)

\* A file is not there, or has lines.
ConfigFiles == {preferred, legacy} \subseteq {None} \cup Seq(ConfigLine)

LEMMA FilesStay == ConfigSpec => []ConfigFiles
<1>1. ConfigInit => ConfigFiles
  BY DEF ConfigInit, ConfigFiles
<1>2. ConfigFiles /\ [ConfigNext]_configVars => ConfigFiles'
  <2> SUFFICES ASSUME ConfigFiles, [ConfigNext]_configVars PROVE ConfigFiles'
    OBVIOUS
  <2>1. CASE MoveConfig
    BY <2>1 DEF MoveConfig, ConfigFiles
  <2>2. ASSUME NEW l \in ConfigLine, TypeLine(l) PROVE ConfigFiles'
    <3>1. \A file \in {None} \cup Seq(ConfigLine) : Typed(file, l) \in Seq(ConfigLine)
      BY DEF Typed
    <3> QED
      BY <2>2, <3>1 DEF TypeLine, ConfigFiles
  <2>3. CASE UNCHANGED configVars
    BY <2>3 DEF configVars, ConfigFiles
  <2> QED
    BY <2>1, <2>2, <2>3 DEF ConfigNext
<1> QED
  BY <1>1, <1>2, PTL DEF ConfigSpec

LEMMA ConfigPathIs ==
  ASSUME ConfigFiles
  PROVE  ConfigPath \in {None} \cup Seq(ConfigLine)
BY DEF ConfigFiles, ConfigPath

\* What is loaded is what is written: LoadedAsWritten is an invariant, for
\* files of any length.
THEOREM LoadedCorrect == ConfigSpec => []LoadedAsWritten
<1>1. ASSUME ConfigFiles PROVE LoadedAsWritten
  <2> DEFINE file == ConfigPath
             servers == Named(file, "server")
             exports == Named(file, "export")
             first == IF servers = {} THEN 0 ELSE 1
             Says(tables, key) == Written(file, DOMAIN file, tables, key)
             c == ConfigLoop!After(file)
             targets == Loaded.targets
  <2> SUFFICES ASSUME file # None, Loaded.ok
               PROVE  /\ Len(targets) = first + Cardinality(exports)
                      /\ servers # {} => /\ targets[1].id = "server"
                                         /\ targets[1].endpoint = Says(servers, "endpoint")
                                         /\ targets[1].token = Says(servers, "token")
                      /\ \A h \in exports : \A key \in {"id", "endpoint", "token"} :
                           targets[first + Place(exports, h)][key] = Says({h}, key)
    BY Zenon DEF LoadedAsWritten
  <2>1. file \in Seq(ConfigLine)
    BY <1>1, ConfigPathIs
  <2> DEFINE n == Len(file)
             size == first + Len(c.exports)
             all == [i \in 1..size |->
                       IF i = 1 /\ first = 1 THEN c.server ELSE c.exports[i - first]]
  <2>2. n \in Nat /\ DOMAIN file = 1..n
    BY <2>1
  <2>3. AsRead(file, n, c)
    BY <2>1, FileIsRead
  <2>4. /\ servers \in SUBSET (1..n) /\ exports \in SUBSET (1..n)
        /\ \A h \in exports : h \in Nat /\ h # 0 /\ h <= n
        /\ \A h \in servers : h <= n
    BY <2>1, <2>2, NamedAre
  <2>5. /\ c \in ConfigState
        /\ c.hasServer <=> \E h \in servers : h <= n
        /\ c.server["id"] = "server"
        /\ \A key \in serverKeys : c.server[key] = Written(file, 1..n, servers, key)
        /\ Len(c.exports) = Place(exports, n)
        /\ \A h \in exports : h <= n =>
             \A key \in exportKeys :
               c.exports[Place(exports, h)][key] = Written(file, 1..n, {h}, key)
    BY <2>3 DEF AsRead
  <2>6. first = IF c.hasServer THEN 1 ELSE 0
    BY <2>4, <2>5
  <2>7. /\ c.server \in TargetType /\ c.exports \in Seq(TargetType) /\ Len(c.exports) \in Nat
        /\ \A i \in 1..Len(c.exports) : c.exports[i] \in TargetType
    BY <2>5 DEF ConfigState
  <2>8. targets = [i \in 1..size |-> normalizeTarget(all[i])]
    <3>1. Refused.ok = FALSE
      BY DEF Refused
    <3>2. LoadConfig(file) # Refused
      BY <3>1 DEF Loaded
    <3> DEFINE one == IF c.hasServer THEN 1 ELSE 0
               both == [i \in 1..(one + Len(c.exports)) |->
                          IF i = 1 /\ one = 1 THEN c.server ELSE c.exports[i - one]]
    <3>3. targets = [i \in 1..(one + Len(c.exports)) |-> normalizeTarget(both[i])]
      BY <2>1, <3>2, TargetsAre, Zenon DEF Loaded
    <3>4. first = one
      BY <2>6
    <3> HIDE DEF first, one, c, targets
    <3> QED
      BY <3>3, <3>4, Zenon
  <2> HIDE DEF file, c, targets, servers, exports, first
  <2>9. first \in {0, 1} /\ (first = 1 <=> servers # {})
    BY DEF first
  <2>10. Len(c.exports) = Cardinality(exports)
    <3>1. {g \in exports : g <= n} = exports
      BY <2>4
    <3> QED
      BY <2>5, <3>1 DEF Place
  <2>11. Len(targets) = first + Cardinality(exports)
    <3>1. size \in Nat /\ size = first + Cardinality(exports)
      BY <2>7, <2>9, <2>10
    <3>2. targets \in Seq({normalizeTarget(all[i]) : i \in 1..size}) /\ Len(targets) = size
      <4> HIDE DEF all, size
      <4> QED
        BY <2>8, <3>1
    <3> QED
      BY <3>1, <3>2
  <2>12. ASSUME servers # {}
         PROVE  /\ targets[1].id = "server"
                /\ targets[1].endpoint = Says(servers, "endpoint")
                /\ targets[1].token = Says(servers, "token")
    <3>1. first = 1 /\ 1 \in 1..size
      BY <2>7, <2>9, <2>12
    <3>2. all[1] = c.server
      BY <3>1
    <3>3. targets[1] = normalizeTarget(c.server)
      <4> HIDE DEF all, size
      <4> QED
        BY <2>8, <3>1, <3>2
    <3>4. \A key \in {"id", "endpoint", "token"} : targets[1][key] = c.server[key]
      BY <2>7, <3>3, NormalizedIs
    <3>5. c.server["endpoint"] = Says(servers, "endpoint") /\ c.server["token"] = Says(servers, "token")
      BY <2>2, <2>5 DEF serverKeys
    <3> QED
      BY <2>5, <3>4, <3>5
  <2>13. ASSUME NEW h \in exports, NEW key \in {"id", "endpoint", "token"}
         PROVE  targets[first + Place(exports, h)][key] = Says({h}, key)
    <3> DEFINE p == Place(exports, h)
    <3>1. p \in Nat /\ p <= Len(c.exports) /\ 0 < p
      <4>1. h \in Nat /\ n \in Nat /\ h \in 0..n /\ 0 \in 0..h /\ 0 < h
        BY <2>2, <2>4
      <4>2. \A g \in exports : g \in Nat /\ g # 0
        BY <2>4
      <4>3. Place(exports, 0) = 0 /\ Place(exports, 0) < Place(exports, h)
        BY <4>1, <4>2, PlaceSteps
      <4>4. Place(exports, h) <= Place(exports, n) /\ Place(exports, h) \in Nat
        BY <4>1, <4>2, PlaceSteps
      <4> QED
        BY <2>5, <4>3, <4>4
    <3> HIDE DEF p
    <3>2. first + p \in 1..size /\ ~(first + p = 1 /\ first = 1) /\ (first + p) - first = p
          /\ p \in 1..Len(c.exports)
      BY <2>7, <2>9, <3>1
    <3>3. all[first + p] = c.exports[p]
      BY <3>2
    <3>4. targets[first + p] = normalizeTarget(c.exports[p])
      <4> HIDE DEF all, size
      <4> QED
        BY <2>8, <3>2, <3>3
    <3>5. targets[first + p][key] = c.exports[p][key]
      BY <2>7, <3>2, <3>4, NormalizedIs
    <3>6. key \in exportKeys /\ h <= n
      BY <2>4, ExportKeysAre
    <3>7. c.exports[p][key] = Written(file, 1..n, {h}, key)
      BY <2>5, <3>6 DEF p
    <3> QED
      BY <2>2, <3>5, <3>7 DEF p
  <2> QED
    BY <2>11, <2>12, <2>13
<1> QED
  BY <1>1, FilesStay, PTL

\* No target that is configured is sent nothing, or less than it asks for:
\* NoTargetIsDeaf is an invariant.
THEOREM NoneIsDeaf == ConfigSpec => []NoTargetIsDeaf
<1>1. ASSUME ConfigFiles PROVE NoTargetIsDeaf
  <2> DEFINE file == ConfigPath
             c == ConfigLoop!After(file)
             first == IF c.hasServer THEN 1 ELSE 0
             size == first + Len(c.exports)
             all == [i \in 1..size |->
                       IF i = 1 /\ first = 1 THEN c.server ELSE c.exports[i - first]]
  <2> SUFFICES ASSUME NEW i \in DOMAIN Loaded.targets
               PROVE  LET t == Loaded.targets[i]
                      IN  /\ SendsLogs(t) \/ SendsMetrics(t)
                          /\ ToSet(t.signals) \subseteq {"logs", "metrics"}
    BY Zenon DEF NoTargetIsDeaf
  <2>1. file # None
    <3> SUFFICES ASSUME file = None PROVE FALSE
      OBVIOUS
    <3>1. LoadConfig(file) = [ok |-> TRUE, targets |-> <<>>]
      BY Zenon DEF LoadConfig
    <3>2. Loaded.targets = <<>>
      BY <3>1 DEF Loaded
    <3> QED
      BY <3>2
  <2>2. file \in Seq(ConfigLine)
    BY <1>1, <2>1, ConfigPathIs
  <2>3. c \in ConfigState
    BY <2>2, FileIsRead DEF AsRead
  <2>4. /\ c.server \in TargetType /\ c.exports \in Seq(TargetType) /\ Len(c.exports) \in Nat
        /\ \A k \in 1..Len(c.exports) : c.exports[k] \in TargetType
        /\ first \in {0, 1}
    BY <2>3 DEF ConfigState
  <2>5. LoadConfig(file) # Refused
    BY DEF Refused, Loaded
  <2>6. /\ Loaded.targets = [k \in 1..size |-> normalizeTarget(all[k])]
        /\ \A k \in 1..size : Valid(normalizeTarget(all[k]))
    BY <2>2, <2>5, TargetsAre, Zenon DEF Loaded
  <2> HIDE DEF c, file, first
  <2>7. i \in 1..size
    BY <2>6
  <2>8. all[i] \in TargetType
    BY <2>4, <2>7
  <2> DEFINE t == normalizeTarget(all[i])
  <2>9. Loaded.targets[i] = t /\ Valid(t)
    <3> HIDE DEF all, size
    <3> QED
      BY <2>6, <2>7
  <2>10. t["signals"] \in Seq(STRING \cup {"logs"}) /\ t["signals"] # <<>>
    BY <2>8, NormalizedIs
  <2> HIDE DEF t
  <2>11. \A k \in 1..Len(t.signals) : t.signals[k] \in {"logs", "metrics"}
    BY <2>9, <2>10 DEF Valid
  <2>12. 1 \in 1..Len(t.signals)
    BY <2>10
  <2> QED
    BY <2>9, <2>10, <2>11, <2>12 DEF SendsLogs, SendsMetrics, Contains, ToSet
<1> QED
  BY <1>1, FilesStay, PTL

\* Moving the file as the warning asks changes neither the user nor a target:
\* MovingChangesNothing holds of every step.
THEOREM MovingCorrect == ConfigSpec => MovingChangesNothing
<1>1. ASSUME ConfigFiles, MoveConfig PROVE UserId' = UserId /\ Loaded' = Loaded
  <2>1. ConfigPath' = ConfigPath /\ envUser' = envUser
    BY <1>1 DEF MoveConfig, ConfigPath
  <2>2. Loaded' = Loaded
    BY <2>1, Zenon DEF Loaded
  <2>3. UserId' = UserId
    BY <2>1, Zenon DEF UserId
  <2> QED
    BY <2>2, <2>3
<1>2. ConfigFiles /\ [ConfigNext]_configVars
        => [MoveConfig => UserId' = UserId /\ Loaded' = Loaded]_configVars
  BY <1>1
<1> QED
  BY <1>2, FilesStay, PTL DEF ConfigSpec, MovingChangesNothing
=============================================================================
