-------------------------------- MODULE Config --------------------------------
(***************************************************************************)
(* The configuration file: where it is looked for (configpath), the export *)
(* targets flush reads from it (serverclient), and the user every session  *)
(* is recorded for (userid).  A user edits the file line by line and moves *)
(* it from its old place to the new one at any time.                       *)
(*                                                                         *)
(* A line opens a table, assigns a value to a key, or means nothing.  None *)
(* is the empty string of the code and, for a file, that it is not there.  *)
(***************************************************************************)
EXTENDS Absent, Naturals, Sequences, SequencesExt, FiniteSets, FiniteSetsExt

CONSTANTS
  ConfigLine,      \* the lines a user types
  Environment,     \* the values of AGENT_TELEMETRY_USER
  GitEmail,        \* what git config --global user.email prints
  Expand,          \* what each token stands for: ${VAR} the variable's value
  MaxConfigLines   \* bound: lines of both files

\* A line is a table's head, or a key with a value: of signals an array of
\* strings, of other keys whatever stands there.  None is no table, and no file
\* that is there.
ASSUME ConfigAssumption ==
  /\ MaxConfigLines \in Nat
  /\ None \notin {"server", "export"} /\ None \notin Seq(ConfigLine)
  /\ \A l \in ConfigLine :
       \/ l \in [kind : {"table"}, name : STRING]
       \/ /\ l \in [kind : {"key"}, key : STRING, value : {l.value}]
          /\ l.key = "signals" => l.value \in Seq(STRING)

VARIABLES
  preferred, legacy,  \* the lines of the file at each place, or None
  envUser

configVars == <<preferred, legacy, envUser>>

Table(name) == [kind |-> "table", name |-> name]
Assign(key, value) == [kind |-> "key", key |-> key, value |-> value]

-----------------------------------------------------------------------------
Target(id) ==
  [id |-> id, endpoint |-> None, token |-> None, auth_header |-> None,
   auth_scheme |-> None, encoding |-> None, signals |-> <<>>]

serverKeys == {"endpoint", "token"}
exportKeys == DOMAIN Target(None)

\* signals is an array; what cannot be parsed as one is empty.
Meaning(key, value) == IF key = "token" THEN Expand[value] ELSE value

applyKey(t, keys, l) ==
  IF l.key \in keys THEN [t EXCEPT ![l.key] = Meaning(l.key, l.value)] ELSE t

NothingRead ==
  [section |-> None, hasServer |-> FALSE, server |-> Target("server"), exports |-> <<>>]

\* Mutant: a table nobody knows does not end the one before.
ReadLineUnknownTable(c, l) ==
  CASE l = Table("export") ->
         [c EXCEPT !.section = "export", !.exports = Append(@, Target(None))]
    [] l = Table("server") ->
         [c EXCEPT !.section = "server", !.hasServer = TRUE]
    [] l.kind = "key" /\ c.section = "server" ->
         [c EXCEPT !.server = applyKey(@, serverKeys, l)]
    [] l.kind = "key" /\ c.section = "export" ->
         [c EXCEPT !.exports[Len(c.exports)] = applyKey(@, exportKeys, l)]
    [] OTHER -> c

\* One line: [server] may be opened again, each [[export]] is a target of its
\* own, and keys of other tables are skipped.
ReadLine(c, l) ==
  CASE l = Table("export") ->
         [c EXCEPT !.section = "export", !.exports = Append(@, Target(None))]
    [] l = Table("server") ->
         [c EXCEPT !.section = "server", !.hasServer = TRUE]
    [] l.kind = "table" /\ l.name \notin {"server", "export"} ->
         [c EXCEPT !.section = None]
    [] l.kind = "key" /\ c.section = "server" ->
         [c EXCEPT !.server = applyKey(@, serverKeys, l)]
    [] l.kind = "key" /\ c.section = "export" ->
         [c EXCEPT !.exports[Len(c.exports)] = applyKey(@, exportKeys, l)]
    [] OTHER -> c

ConfigLoop == INSTANCE LineLoop WITH Read <- ReadLine, Start <- NothingRead

Default(value, default) == IF value = None THEN default ELSE value

\* The scheme has a default only with the default header: a raw token is a
\* valid choice with any other.
normalizeTarget(t) ==
  LET header == Default(t.auth_header, "Authorization")
  IN  [t EXCEPT
         !.auth_header = header,
         !.auth_scheme = IF header = "Authorization" THEN Default(@, "Bearer") ELSE @,
         !.encoding = Default(@, "json"),
         !.signals = IF @ = <<>> THEN <<"logs">> ELSE @]

\* Mutant: only the first signal is looked at.
ValidFirst(t) ==
  t.encoding \in {"json", "protobuf"} /\ t.signals[1] \in {"logs", "metrics"}

Valid(t) ==
  /\ t.encoding \in {"json", "protobuf"}
  /\ \A i \in DOMAIN t.signals : t.signals[i] \in {"logs", "metrics"}

\* [server] first, then the tables in order.  One bad table refuses them all:
\* no id, an id twice (cursors are kept by it), or an unknown value.
Refused == [ok |-> FALSE, targets |-> <<>>]

LoadConfig(file) ==
  LET read == ConfigLoop!After(file)
      all == (IF read.hasServer THEN <<read.server>> ELSE <<>>) \o read.exports
      targets == [i \in DOMAIN all |-> normalizeTarget(all[i])]
  IN  IF file = None THEN [ok |-> TRUE, targets |-> <<>>]
      ELSE IF /\ \A i \in DOMAIN targets : targets[i].id # None /\ Valid(targets[i])
              /\ \A i, j \in DOMAIN targets : targets[i].id = targets[j].id => i = j
      THEN [ok |-> TRUE, targets |-> targets]
      ELSE Refused

Configured(t) == t.endpoint # None /\ t.signals # <<>>
SendsLogs(t) == Contains(t.signals, "logs")
SendsMetrics(t) == Contains(t.signals, "metrics")

-----------------------------------------------------------------------------
\* The first user key above all tables; an empty one hides any after it.
readConfigUser(file) ==
  IF file = None THEN None
  ELSE LET top == IF \E i \in DOMAIN file : file[i].kind = "table"
                  THEN SubSeq(file, 1, SelectInSeq(file, LAMBDA l : l.kind = "table") - 1)
                  ELSE file
           at == SelectInSeq(top, LAMBDA l : l.kind = "key" /\ l.key = "user")
       IN  IF at = 0 THEN None ELSE top[at].value

\* Mutant: the fallback to the old place is gone.
ConfigPathPreferred == preferred

\* configpath.Resolve: the whole old file counts as long as there is no new one.
ConfigPath == IF preferred # None THEN preferred ELSE legacy

\* userid.Resolve
Resolve(env, file) ==
  LET sources == <<env, readConfigUser(file), GitEmail, "unknown">>
  IN  sources[SelectInSeq(sources, LAMBDA u : u # None)]

UserId == Resolve(envUser, ConfigPath)

Loaded == LoadConfig(ConfigPath)

-----------------------------------------------------------------------------
ConfigInit ==
  /\ preferred = None /\ legacy = None
  /\ envUser \in Environment

LinesIn(file) == IF file = None THEN 0 ELSE Len(file)
Typed(file, l) == IF file = None THEN <<l>> ELSE Append(file, l)

TypeLine(l) ==
  /\ LinesIn(preferred) + LinesIn(legacy) < MaxConfigLines
  /\ \/ preferred' = Typed(preferred, l) /\ UNCHANGED legacy
     \/ legacy' = Typed(legacy, l) /\ UNCHANGED preferred
  /\ UNCHANGED envUser

\* As the warning asks.
MoveConfig ==
  /\ legacy # None /\ preferred = None
  /\ preferred' = legacy /\ legacy' = None
  /\ UNCHANGED envUser

ConfigNext == MoveConfig \/ \E l \in ConfigLine : TypeLine(l)

ConfigSpec == ConfigInit /\ [][ConfigNext]_configVars

-----------------------------------------------------------------------------
Heads(file) == {i \in DOMAIN file : file[i].kind = "table"}

Named(file, name) == {h \in Heads(file) : file[h].name = name}

\* The table that line i is in is one of those.
Under(file, tables, i) ==
  \E h \in tables : h < i /\ \A g \in Heads(file) : g < i => g <= h

\* The last value of a key in those tables, among the lines.
Written(file, lines, tables, key) ==
  LET at == {i \in lines : /\ file[i].kind = "key" /\ file[i].key = key
                           /\ Under(file, tables, i)}
  IN  IF at = {} THEN Target(None)[key] ELSE Meaning(key, file[Max(at)].value)

\* How many of them come no later than line h.
Place(tables, h) == Cardinality({g \in tables : g <= h})

\* The targets are what the tables of the file say: of a key the last value in
\* its own table counts, of other tables nothing, and none is left out or added.
LoadedAsWritten ==
  LET file == ConfigPath
      servers == Named(file, "server")
      exports == Named(file, "export")
      first == IF servers = {} THEN 0 ELSE 1
      Says(tables, key) == Written(file, DOMAIN file, tables, key)
  IN  file # None /\ Loaded.ok =>
        /\ Len(Loaded.targets) = first + Cardinality(exports)
        /\ servers # {} => /\ Loaded.targets[1].id = "server"
                           /\ Loaded.targets[1].endpoint = Says(servers, "endpoint")
                           /\ Loaded.targets[1].token = Says(servers, "token")
        /\ \A h \in exports : \A key \in {"id", "endpoint", "token"} :
             Loaded.targets[first + Place(exports, h)][key] = Says({h}, key)

\* No configured target is one that flush neither sends logs nor metrics to, or
\* only some of what it asks for.
NoTargetIsDeaf ==
  \A i \in DOMAIN Loaded.targets :
    LET t == Loaded.targets[i]
    IN  Configured(t) =>
          /\ SendsLogs(t) \/ SendsMetrics(t)
          /\ ToSet(t.signals) \subseteq {"logs", "metrics"}

\* Moving the file to its new place changes neither who a session is recorded
\* for nor where anything is sent.
MovingChangesNothing ==
  [][MoveConfig => UserId' = UserId /\ Loaded' = Loaded]_configVars
===============================================================================
