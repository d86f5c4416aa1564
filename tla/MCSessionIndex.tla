--------------------------- MODULE MCSessionIndex ---------------------------
(***************************************************************************)
(* A small index for TLC: two sessions on one branch whose remotes differ  *)
(* by ".git", two pull requests, and the calls that meet on them.          *)
(***************************************************************************)
EXTENDS SessionIndex, TLC

CONSTANTS s1, s2, rA, rAgit, b1, dir, uA, uB, t1, me

MCNormalizeRepo == (rA :> rA) @@ (rAgit :> rA)

Checkout(repo) == [repo |-> repo, branch |-> b1, isDefault |-> FALSE, cwd |-> dir]

Start == [kind |-> "append", row |-> StartedRow(s2, me, Checkout(rA), 1)]

\* The first run of a worker: it pins s1 to uA while the branch lookup of the
\* same run found uB for both sessions.
PinBatch ==
  [EmptyBatch EXCEPT
     !.pins[s1] = uA,
     !.urls = (s1 :> <<uB>>) @@ (s2 :> <<uB>>),
     !.metas = (uA :> [merged |-> TRUE, reviews |-> 1, title |-> None])
               @@ (uB :> [merged |-> FALSE, reviews |-> 0, title |-> t1])]

\* A later run: gh knows no title, s2's checkout is gone, s2's end is filled in.
MetaBatch ==
  [EmptyBatch EXCEPT
     !.checked = {s2},
     !.ends[s2] = 2,
     !.metas[uB] = [merged |-> TRUE, reviews |-> 1, title |-> None]]

MCOp ==
  {Start,
   [kind |-> "update", id |-> s1, add |-> <<uB, uA, uB>>],
   [kind |-> "by_branch", repo |-> rAgit, branch |-> b1, url |-> uB],
   [kind |-> "mark", ids |-> {s1}],
   [kind |-> "end", id |-> s2, at |-> 1],
   [kind |-> "user", user |-> me],
   [kind |-> "batch", batch |-> PinBatch],
   [kind |-> "batch", batch |-> MetaBatch]}

\* A line no decoder accepts and a session recorded before user attribution.
Legacy == <<UndecodableRow, StartedRow(s1, None, Checkout(rAgit), 1)>>

MCInitIndex == {<<>>, Legacy}
=============================================================================
