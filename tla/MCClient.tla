------------------------------- MODULE MCClient -------------------------------
(***************************************************************************)
(* Four parts of the client that share no state, side by side: sync-db     *)
(* with the worlds of MCEventStore, and what it and flush read, a          *)
(* transcript, the configuration and the files of the former name.  A      *)
(* behaviour is one of one of them; the others stay as they begin.         *)
(***************************************************************************)
EXTENDS MCEventStore, Transcript, Config, LegacyMigration

CONSTANTS m1, m2

Prompt(text, items) == [type |-> "user", text |-> text, items |-> items]
Answer(items, usage, model) ==
  [type |-> "assistant", items |-> items, usage |-> usage, model |-> model]
MCClaudeLine ==
  {Skipped, TooLong, Prompt("prompt", <<>>), Prompt("command", <<>>), Prompt(None, <<>>),
   Prompt(None, <<"tool_result">>), Prompt(None, <<"tool_result", "text">>),
   Prompt(None, <<"text", "command">>),
   Answer(<<"text">>, 2, m1), Answer(<<"tool_use", "ask">>, 1, None), Answer(<<>>, 0, m2),
   [type |-> "summary"]}

Codex(type, payload, at) == [type |-> type, payload |-> payload, at |-> at]
MCCodexLine ==
  {Skipped, TooLong,
   [type |-> "session_meta", version |-> 1, at |-> 1],
   [type |-> "turn_context", model |-> m1, at |-> 2],
   [type |-> "turn_context", model |-> None, at |-> None],
   Codex("event_msg", "user_message", 2),
   [type |-> "event_msg", payload |-> "token_count", total |-> 3, at |-> 1],
   [type |-> "event_msg", payload |-> "token_count", total |-> None, at |-> 2],
   Codex("response_item", "function_call", 2),
   Codex("response_item", "mcp_tool_call", None),
   Codex("response_item", "function_call_output", 1)}

MCConfigLine ==
  {Table("server"), Table("export"), Table("other"),
   Assign("id", "a"), Assign("id", "server"), Assign("endpoint", "url"),
   Assign("token", "${VAR}"), Assign("auth_header", "dd-api-key"), Assign("encoding", "xml"),
   Assign("signals", <<"metrics">>), Assign("signals", <<"logs", "traces">>),
   Assign("user", "me")}

MCExpand == ("${VAR}" :> "secret")

Files(old, new) ==
  [old |-> [f \in LegacyFile |-> IF f \in old THEN {"old"} ELSE None],
   new |-> [f \in LegacyFile |-> IF f \in new THEN {"new"} ELSE None]]

\* Nothing, everything under the old name, without a log, one state file there
\* under both names, or the database is.
MCInitFiles ==
  {Files({}, {}), Files(LegacyFile, {}), Files({"db", "codex_state"}, {}),
   Files(LegacyFile, {"claude_state"}), Files({"db", "claude_state"}, {"db"})}

VARIABLE part

partVars == <<vars, transcriptVars, configVars, migrationVars, part>>

ClientInit ==
  /\ part \in {"store", "transcript", "config", "migration"}
  /\ Init /\ TranscriptInit /\ ConfigInit /\ MigrationInit
  /\ part # "transcript" => writer = "claude"
  /\ part # "config" => envUser = None
  /\ part # "migration" => files = Files({}, {})

StoreNext ==
  part = "store" /\ Next
    /\ UNCHANGED <<transcriptVars, configVars, migrationVars, part>>

ReadNext ==
  part = "transcript" /\ TranscriptNext
    /\ UNCHANGED <<vars, configVars, migrationVars, part>>

ConfigureNext ==
  part = "config" /\ ConfigNext
    /\ UNCHANGED <<vars, transcriptVars, migrationVars, part>>

MigrateNext ==
  part = "migration" /\ MigrationNext
    /\ UNCHANGED <<vars, transcriptVars, configVars, part>>

ClientNext == StoreNext \/ ReadNext \/ ConfigureNext \/ MigrateNext

ClientSpec ==
  ClientInit /\ [][ClientNext]_partVars /\ (part = "store" => Fairness)

\* ViewsCatchUp, of the behaviours of the store: once the sources rest, the
\* views show them, whatever syncs overlapped, failed or rebuilt the database.
StoreCatchesUp == part = "store" => ViewsCatchUp
===============================================================================
