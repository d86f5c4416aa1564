----------------------------- MODULE MCEventStore -----------------------------
(***************************************************************************)
(* Two sync-dbs at once: of a session of one agent, or of a session of     *)
(* each of two agents.                                                     *)
(***************************************************************************)
EXTENDS EventStore, TLC

CONSTANTS claude, codex, s1, s2, pull, dummy, title

Line(s, urls, merged, ended) ==
  [id |-> s, urls |-> urls, title |-> title, merged |-> merged, ended |-> ended]

\* A session pastes the example's URL; a second line of it has its own pull
\* request, merged, and its end.
One == <<claude>>
OneAgentOf == [s \in Session |-> claude]
OneIndexOf ==
  claude :> << <<Line(s1, <<dummy>>, FALSE, None)>>,
               <<Line(s1, <<>>, FALSE, None), Line(s1, <<dummy, pull>>, TRUE, 1)>> >>

\* A pull request that merges, and an agent whose only session has ended.
Both == <<claude, codex>>
BothAgentOf == (s1 :> claude) @@ (s2 :> codex)
BothIndexOf ==
  (claude :> << <<Line(s1, <<pull>>, FALSE, None)>>, <<Line(s1, <<pull>>, TRUE, None)>> >>)
  @@ (codex :> << <<Line(s2, <<>>, FALSE, 1)>> >>)

\* The transcript of the first session grows.
OneSaid == [s \in Session |-> IF s = s1 THEN 1 ELSE 0]
===============================================================================
