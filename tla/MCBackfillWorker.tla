-------------------------- MODULE MCBackfillWorker --------------------------
(***************************************************************************)
(* Small worlds for BackfillWorker: one or two sessions on one or two      *)
(* branches of a repository, and up to two pull requests.                  *)
(***************************************************************************)
EXTENDS BackfillWorker, TLC

CONSTANTS s1, s2, rA, rAgit, b1, b2, d1, d2, uA, uB, me, claude, codex

MCNormalizeRepo == (rA :> rA) @@ (rAgit :> rA)

On(branch, cwd) == [repo |-> rA, branch |-> branch, isDefault |-> FALSE, cwd |-> cwd]

\* Where sessions start.
OneCheckout == {On(b1, d1)}
OneBranch   == {On(b1, d1), On(b1, d2)}
TwoBranches == {On(b1, d1), On(b2, d2)}

Worker(pin) ==
  [agent |-> claude, detached |-> TRUE, recheck |-> FALSE, gc |-> FALSE, pin |-> pin]
Manual  == [Worker(None) EXCEPT !.detached = FALSE]
Gc      == [Manual EXCEPT !.gc = TRUE]
Recheck == [Manual EXCEPT !.recheck = TRUE]

\* Command lines: Stops that name no session; a Stop next to a user; all of
\* them, for Codex, whose runs also fill in ends.
Plain    == {Worker(None)}
Mixed    == {Worker(s1), Manual}
Commands == {[o EXCEPT !.agent = codex] : o \in {Worker(s1), Manual, Gc, Recheck}}

Line(id, c, at) == StartedRow(id, me, c, at)
Found(line, u)  == [line EXCEPT !.urls = {u}, !.last = u]

\* Every agent's index holds these lines.
Holding(rows) == {[a \in Agent |-> rows]}
OneLine  == Holding(<<Line(s1, On(b1, d1), 1)>>)
OneFound == Holding(<<Line(s1, On(b1, d1), 1), Found(Line(s2, On(b2, d2), 1), uB)>>)

Pull(u, branch) == [url |-> u, repo |-> rA, branch |-> branch]
NoPulls    == <<>>
OnePull    == <<Pull(uA, b1)>>
SecondPull == <<Pull(uB, b2)>>

Symmetry == Permutations(Proc)
=============================================================================
