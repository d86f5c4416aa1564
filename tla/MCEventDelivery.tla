--------------------------- MODULE MCEventDelivery ---------------------------
(***************************************************************************)
(* Flushes of one agent to the own server and to a collector that takes    *)
(* logs and metrics, of three events, one of them another agent's.         *)
(***************************************************************************)
EXTENDS EventDelivery, TLC

CONSTANTS claude, codex, e1, e2, e3, server, collector

MCAgentOf == [e \in Event |-> IF e = e2 THEN codex ELSE claude]

MCLogsTargets    == <<server, collector>>
MCMetricsTargets == <<collector>>

\* The server lacks an attribute of e3, say; e1 is a merged pull request.
MCRefused == [t \in Target |-> IF t = server THEN {e3} ELSE {}]
MCShownBy == [f \in Family |-> IF f = "pr" THEN {e1} ELSE {e1, e3}]

MCInitEvents == <<e1, e2>>

\* With two flushes at once, of two events to the collector.
OverlapLogsTargets == <<collector>>
OverlapInitEvents  == <<e1>>

Symmetry == Permutations(Flusher)
=============================================================================
