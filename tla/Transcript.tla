------------------------------ MODULE Transcript ------------------------------
(***************************************************************************)
(* The parsers of internal/transcript: what sync-db counts in a Claude     *)
(* Code transcript and in a Codex rollout while the agent writes it.       *)
(*                                                                         *)
(* A transcript is a sequence of lines.  A line is a record with the       *)
(* fields its type has; usage stands for the four token counters of a      *)
(* message, which are treated alike, and at for its timestamp.             *)
(***************************************************************************)
EXTENDS Absent, Naturals, Sequences, FiniteSets, FiniteSetsExt

CONSTANTS
  ClaudeLine, CodexLine,  \* the lines an agent writes
  Model,
  MaxLines                \* bound: lines of a transcript

Item == {"text", "tool_use", "ask", "tool_result", "command"}

Skipped == [type |-> "skipped"]
TooLong == [type |-> "too_long"]

\* Agents count tokens upwards; other fields are as they come.
ASSUME TranscriptAssumption ==
  /\ MaxLines \in Nat
  /\ None \notin Model
  /\ None \notin Seq(ClaudeLine \cup CodexLine \cup {Skipped})
  /\ \A l \in ClaudeLine : l.type = "assistant" =>
       l.items \in Seq(Item) /\ l.usage \in Nat /\ l.model \in Model \cup {None}
  /\ \A l \in CodexLine :
       /\ l.type = "turn_context" => l.model \in Model \cup {None}
       /\ l.type = "event_msg" /\ l.payload = "token_count" => l.total \in Nat \cup {None}

VARIABLES
  writer,  \* the agent whose transcript this is
  lines,   \* the complete lines, or None: no path, or no file there
  half     \* is there a half-written line after them?

transcriptVars == <<writer, lines, half>>

-----------------------------------------------------------------------------
\* Blank lines and lines that are no JSON are skipped; one that is longer than
\* the scanner's buffer ends the loop, and nobody asks for the scanner's error.
Scanned(file) ==
  LET ends == {i \in DOMAIN file : file[i] = TooLong}
  IN  IF ends = {} THEN file ELSE SubSeq(file, 1, Min(ends) - 1)

Newer(new, old) == IF new = None THEN old ELSE new

(* Claude Code.  The items of a message are a sequence; its text is None     *)
(* unless the content is a string.                                           *)

\* Neither the output of a local command nor only results of tools.
isHumanTextMessage(l) ==
  IF l.text # None THEN l.text # "command"
  ELSE \/ l.items = <<>>
       \/ /\ \E i \in DOMAIN l.items : l.items[i] # "tool_result"
          /\ \A i \in DOMAIN l.items : l.items[i] # "command"

NoStats ==
  [tools |-> 0, mid |-> 0, asks |-> 0, tokens |-> 0, model |-> None, ghost |-> TRUE]

ItemsIn(l, kinds) == Cardinality({i \in DOMAIN l.items : l.items[i] \in kinds})

\* Mutant: the session starts with the first prompt a human typed.
ReadPromptOfHuman(s, l) ==
  IF ~isHumanTextMessage(l) THEN s
  ELSE [s EXCEPT !.ghost = FALSE, !.mid = IF s.ghost THEN @ ELSE @ + 1]

\* The first user entry of any kind starts the session and is never counted.
ReadPrompt(s, l) ==
  [s EXCEPT !.ghost = FALSE,
            !.mid = IF ~s.ghost /\ isHumanTextMessage(l) THEN @ + 1 ELSE @]

\* Mutant: the usage of an answer is taken for a total.
ReadAnswerAsTotal(s, l) ==
  [s EXCEPT !.tokens = l.usage, !.model = Newer(l.model, @),
            !.tools = @ + ItemsIn(l, {"tool_use", "ask"}),
            !.asks = @ + ItemsIn(l, {"ask"})]

ReadAnswer(s, l) ==
  [s EXCEPT !.tokens = @ + l.usage, !.model = Newer(l.model, @),
            !.tools = @ + ItemsIn(l, {"tool_use", "ask"}),
            !.asks = @ + ItemsIn(l, {"ask"})]

ReadClaudeLine(s, l) ==
  CASE l.type = "user"      -> ReadPrompt(s, l)
    [] l.type = "assistant" -> ReadAnswer(s, l)
    [] OTHER                -> s

ClaudeLoop == INSTANCE LineLoop WITH Read <- ReadClaudeLine, Start <- NoStats

ParseClaude(file) ==
  IF file = None THEN NoStats ELSE ClaudeLoop!After(Scanned(file))

(* Codex.  A payload is named by its type; every line may have a timestamp.  *)

\* function_call, and whatever ends in tool_call: the results end otherwise.
isCodexToolCall(payload) == payload \in {"function_call", "mcp_tool_call"}

\* The last token_count that has a total counts, not the sum.
ReadCodexLine(s, l) ==
  CASE l.type = "turn_context" -> [s EXCEPT !.model = Newer(l.model, @)]
    [] l.type = "event_msg" /\ l.payload = "user_message" ->
         [s EXCEPT !.ghost = FALSE, !.mid = IF s.ghost THEN @ ELSE @ + 1]
    [] l.type = "event_msg" /\ l.payload = "token_count" /\ l.total # None ->
         [s EXCEPT !.tokens = l.total]
    [] l.type = "response_item" /\ isCodexToolCall(l.payload) ->
         [s EXCEPT !.tools = @ + 1]
    [] OTHER -> s

CodexLoop == INSTANCE LineLoop WITH Read <- ReadCodexLine, Start <- NoStats

ParseCodex(file) ==
  IF file = None THEN NoStats ELSE CodexLoop!After(Scanned(file))

NoMeta == [version |-> None, model |-> None, at |-> None]

\* The first version, the last model, the last timestamp, wherever they stand.
ReadMetaLine(m, l) ==
  IF l = Skipped THEN m
  ELSE [version |-> IF l.type = "session_meta" /\ m.version = None THEN l.version ELSE m.version,
        model   |-> IF l.type = "turn_context" THEN Newer(l.model, m.model) ELSE m.model,
        at      |-> Newer(l.at, m.at)]

MetaLoop == INSTANCE LineLoop WITH Read <- ReadMetaLine, Start <- NoMeta

\* What hooks and backfill take from a rollout.
ReadCodexMeta(file) ==
  IF file = None THEN NoMeta ELSE MetaLoop!After(Scanned(file))

\* Mutant: a rollout without its first line is no rollout.
MetaOkOfVersion(meta) == meta.version # None

\* Is that a rollout at all?
MetaOk(meta) == meta.version # None \/ meta.at # None

\* An agent nobody knows is taken for Claude.
Parse(file, agent) ==
  IF agent = "codex" THEN ParseCodex(file) ELSE ParseClaude(file)

-----------------------------------------------------------------------------
LinesOfWriter == IF writer = "codex" THEN CodexLine ELSE ClaudeLine

TranscriptInit ==
  /\ writer \in {"claude", "codex"}
  /\ lines = None
  /\ half = FALSE

CreateTranscript ==
  /\ lines = None
  /\ lines' = <<>> /\ UNCHANGED <<writer, half>>

\* Readers come between the first and the last byte of a line.
StartLine ==
  /\ lines # None /\ ~half /\ Len(lines) < MaxLines
  /\ half' = TRUE /\ UNCHANGED <<writer, lines>>

FinishLine(l) ==
  /\ half
  /\ lines' = Append(lines, l)
  /\ half' = FALSE /\ UNCHANGED writer

TranscriptNext ==
  CreateTranscript \/ StartLine \/ \E l \in LinesOfWriter : FinishLine(l)

TranscriptSpec == TranscriptInit /\ [][TranscriptNext]_transcriptVars

\* What a reader finds: half a line is no JSON.
Found == IF half THEN Append(lines, Skipped) ELSE lines
Stats == Parse(Found, writer)

-----------------------------------------------------------------------------
\* The columns of transcript_stats mean what their names say: prompts after the
\* first, tool calls, tokens used, the model used last.
StatsAreCounts ==
  LET read == IF lines = None THEN <<>> ELSE Scanned(Found)
      Where(P(_)) == {i \in DOMAIN read : P(read[i])}
      prompts == IF writer = "codex"
                 THEN Where(LAMBDA l : l.type = "event_msg" /\ l.payload = "user_message")
                 ELSE Where(LAMBDA l : l.type = "user")
      counted == IF writer = "codex" THEN prompts
                 ELSE {i \in prompts : isHumanTextMessage(read[i])}
      models == IF writer = "codex"
                THEN Where(LAMBDA l : l.type = "turn_context" /\ l.model # None)
                ELSE Where(LAMBDA l : l.type = "assistant" /\ l.model # None)
  IN  /\ Stats.ghost = (prompts = {})
      /\ Stats.mid = Cardinality({i \in counted : \E j \in prompts : j < i})
      /\ Stats.asks <= Stats.tools
      /\ Stats.model = IF models = {} THEN None ELSE read[Max(models)].model

\* A sync never takes back what an earlier one counted in a transcript that only
\* grows, however the reads fall between its lines; Codex's totals are its own.
CountsOnlyGrow ==
  [][/\ Stats'.tools >= Stats.tools /\ Stats'.mid >= Stats.mid
     /\ Stats'.asks >= Stats.asks
     /\ writer = "claude" => Stats'.tokens >= Stats.tokens
     /\ Stats'.ghost => Stats.ghost
     /\ Stats.model # None => Stats'.model # None]_transcriptVars

\* Backfill fills in an end, and a model, from ReadCodexMeta: the same as the
\* parser finds; of a rollout that has begun it finds something.
MetaAgrees ==
  writer = "codex" /\ lines # None =>
    LET meta == ReadCodexMeta(Found)
    IN  /\ meta.model = Stats.model
        /\ (\E i \in DOMAIN Scanned(lines) :
              Scanned(lines)[i] # Skipped /\ Scanned(lines)[i].at # None) => MetaOk(meta)
===============================================================================
