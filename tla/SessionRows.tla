---------------------------- MODULE SessionRows ----------------------------
(***************************************************************************)
(* The lines of session-index.jsonl and the pure functions that rewrite    *)
(* them (internal/sessionindex).  A file is a sequence of rows; every      *)
(* update of the Go code maps it to a sequence of rows, under a lock that  *)
(* module SessionIndex models.                                             *)
(*                                                                         *)
(* pr_urls is a list in the file.  Every reader uses three things of it:   *)
(* which URLs it holds, whether it is empty, and its LAST element, the URL *)
(* the session is attributed to.  A row keeps exactly those: the set urls  *)
(* and the URL last.  review_comments and changes_requested always travel  *)
(* together and are one number, reviews; ended_at and end_reason are one   *)
(* value, ended.  None is the empty string of the code.                    *)
(***************************************************************************)
EXTENDS Naturals, Sequences, FiniteSets, FiniteSetsExt, Functions

CONSTANTS
  SessionId, User, Repo, Branch, Cwd, Url, Title,
  Stamp,           \* timestamps with the resolution of one second
  NormalizeRepo,   \* what strings.TrimSuffix(repo, ".git") makes of each Repo
  None             \* the empty string / missing key

ASSUME RowAssumption ==
  /\ None \notin UNION {SessionId, User, Repo, Branch, Cwd, Url, Title, Stamp}
  /\ NormalizeRepo \in [Repo -> Repo]
  /\ Stamp \subseteq Nat
  /\ IsFiniteSet(Url)

OrNone(S) == S \cup {None}

Row ==
  [id        : OrNone(SessionId),
   user      : OrNone(User),
   repo      : OrNone(Repo),
   branch    : OrNone(Branch),
   isDefault : BOOLEAN,
   cwd       : OrNone(Cwd),
   started   : OrNone(Stamp),
   urls      : SUBSET Url,
   last      : OrNone(Url),
   pinned    : BOOLEAN,
   title     : OrNone(Title),
   ended     : OrNone(Stamp),
   checked   : BOOLEAN,
   merged    : BOOLEAN,
   reviews   : Nat]

PRMeta == [merged : BOOLEAN, reviews : Nat, title : OrNone(Title)]

\* A run's collected changes.  The Go maps are total functions here; None, or
\* no URL to append, is an absent key.
Batch ==
  [pins    : [SessionId -> OrNone(Url)],
   urls    : [SessionId -> Seq(Url)],
   checked : SUBSET SessionId,
   ends    : [SessionId -> OrNone(Stamp)],
   metas   : [Url -> OrNone(PRMeta)]]

EmptyBatch ==
  [pins    |-> [id \in SessionId |-> None],
   urls    |-> [id \in SessionId |-> <<>>],
   checked |-> {},
   ends    |-> [id \in SessionId |-> None],
   metas   |-> [u \in Url |-> None]]

EntryOf(map, id) == IF id \in DOMAIN map THEN map[id] ELSE None

-----------------------------------------------------------------------------
(* Rows as they enter the file *)

\* A line json.Unmarshal refuses: kept verbatim, decoded as Session{}.
UndecodableRow ==
  [id |-> None, user |-> None, repo |-> None, branch |-> None,
   isDefault |-> FALSE, cwd |-> None, started |-> None, urls |-> {},
   last |-> None, pinned |-> FALSE, title |-> None, ended |-> None,
   checked |-> FALSE, merged |-> FALSE, reviews |-> 0]

\* What SessionStart appends for session id, run by u, in the checkout git.
StartedRow(id, u, git, at) ==
  [UndecodableRow EXCEPT !.id = id, !.user = u, !.repo = git.repo,
     !.branch = git.branch, !.isDefault = git.isDefault, !.cwd = git.cwd,
     !.started = at]

-----------------------------------------------------------------------------
(* The updates.  Each takes the lines to rewrite (raws) and the sessions    *)
(* decoded from them (view): conditions are read off view, and the fields   *)
(* an update does not set keep the value they have in raws.                 *)

\* The indices of add that appendUniqueURLs appends.
NewURLs(urls, add) ==
  {k \in DOMAIN add : /\ add[k] \notin urls
                      /\ \A j \in 1..(k - 1) : add[j] # add[k]}

AppendUniqueURLs(raw, seen, add) ==
  LET new == NewURLs(seen.urls, add)
  IN  IF new = {} THEN raw
      ELSE [raw EXCEPT !.urls = seen.urls \cup {add[k] : k \in new},
                       !.last = add[Max(new)]]

\* Mutant: the appends reach pinned sessions.
ApplyUpdateToPinned(raws, view, add) ==
  [i \in DOMAIN raws |->
     IF view[i].id \in DOMAIN add
     THEN AppendUniqueURLs(raws[i], view[i], add[view[i].id])
     ELSE raws[i]]

ApplyUpdate(raws, view, add) ==
  [i \in DOMAIN raws |->
     IF view[i].id \in DOMAIN add /\ ~view[i].pinned
     THEN AppendUniqueURLs(raws[i], view[i], add[view[i].id])
     ELSE raws[i]]

\* Mutant: an update by branch reaches pinned sessions.
UpdateByBranchToPinned(rows, repo, branch, url) ==
  [i \in DOMAIN rows |->
     IF /\ rows[i].repo # None
        /\ NormalizeRepo[rows[i].repo] = NormalizeRepo[repo]
        /\ rows[i].branch = branch
     THEN AppendUniqueURLs(rows[i], rows[i], <<url>>)
     ELSE rows[i]]

UpdateByBranch(rows, repo, branch, url) ==
  [i \in DOMAIN rows |->
     IF /\ rows[i].repo # None
        /\ NormalizeRepo[rows[i].repo] = NormalizeRepo[repo]
        /\ rows[i].branch = branch
        /\ ~rows[i].pinned
     THEN AppendUniqueURLs(rows[i], rows[i], <<url>>)
     ELSE rows[i]]

\* Mutant: a pin confirms the URL the session has instead of replacing it.
ApplyPinKeepsURLs(raws, view, pins) ==
  [i \in DOMAIN raws |->
     LET url == EntryOf(pins, view[i].id)
     IN  IF url = None \/ view[i].pinned THEN raws[i]
         ELSE IF view[i].urls = {}
         THEN [raws[i] EXCEPT !.urls = {url}, !.last = url, !.pinned = TRUE]
         ELSE [raws[i] EXCEPT !.pinned = TRUE]]

ApplyPinPR(raws, view, pins) ==
  [i \in DOMAIN raws |->
     LET url == EntryOf(pins, view[i].id)
     IN  IF /\ url # None
            /\ ~(view[i].pinned /\ view[i].urls = {url})
         THEN [raws[i] EXCEPT !.urls = {url}, !.last = url, !.pinned = TRUE]
         ELSE raws[i]]

ApplyMarkChecked(raws, view, ids) ==
  [i \in DOMAIN raws |->
     IF view[i].id \in ids THEN [raws[i] EXCEPT !.checked = TRUE] ELSE raws[i]]

ApplyUpdateEnd(raws, view, ends) ==
  [i \in DOMAIN raws |->
     LET at == EntryOf(ends, view[i].id)
     IN  IF at # None THEN [raws[i] EXCEPT !.ended = at] ELSE raws[i]]

\* The URL of S that comes last in order.
Latest(order, S) == CHOOSE u \in S : \A v \in S : order[v] <= order[u]

\* The metas are applied one URL after the other, in the order Go's map
\* iteration happens to take (order); each overwrites the one before on every
\* row that lists both URLs, and an empty title overwrites nothing.
ApplyPRMetas(rows, metas, order) ==
  [i \in DOMAIN rows |->
     LET hits   == {u \in rows[i].urls : metas[u] # None}
         titled == {u \in hits : metas[u].title # None}
     IN  IF hits = {} THEN rows[i]
         ELSE [rows[i] EXCEPT
                 !.merged  = metas[Latest(order, hits)].merged,
                 !.reviews = metas[Latest(order, hits)].reviews,
                 !.title   = IF titled = {} THEN @
                             ELSE metas[Latest(order, titled)].title]]

\* sync-db fills user_id where it is missing.
FillUser(rows, u) ==
  [i \in DOMAIN rows |->
     IF rows[i].id # None /\ rows[i].user = None
     THEN [rows[i] EXCEPT !.user = u] ELSE rows[i]]

Orders(D) == Injection(D, 1..Cardinality(D))

\* Mutant: the PR metas are applied first.
ApplyBatchMetasFirst(rows, b) ==
  {LET described == ApplyPRMetas(rows, b.metas, order)
       marked    == ApplyMarkChecked(described, described, b.checked)
       pinned    == ApplyPinPR(marked, marked, b.pins)
       updated   == ApplyUpdate(pinned, pinned, b.urls)
   IN  ApplyUpdateEnd(updated, updated, b.ends) :
     order \in Orders({u \in Url : b.metas[u] # None})}

\* The rows ApplyBatchToRaw can leave, one for each order of the PR metas.
\* The entries of the other maps touch disjoint rows, so their order is
\* immaterial; sessions are decoded anew after each stage.
ApplyBatchToRaw(rows, b) ==
  LET marked  == ApplyMarkChecked(rows, rows, b.checked)
      pinned  == ApplyPinPR(marked, rows, b.pins)
      updated == ApplyUpdate(pinned, pinned, b.urls)
      ended   == ApplyUpdateEnd(updated, updated, b.ends)
  IN  {ApplyPRMetas(ended, b.metas, order) :
         order \in Orders({u \in Url : b.metas[u] # None})}

-----------------------------------------------------------------------------
(* What an update may never do to a row *)

\* A pinned session is attributed to exactly one URL.
PinnedRow(r) == r.pinned => r.urls = {r.last}

\* What is established about a session is never taken back: where and when it
\* started, a pin, the checked mark, the end, the title, the user; and its URLs
\* only grow unless a pin replaces them.
Advances(r, s) ==
  /\ \A f \in {"id", "repo", "branch", "isDefault", "cwd", "started"} : s[f] = r[f]
  /\ r.pinned => s.pinned
  /\ r.checked => s.checked
  /\ \A f \in {"ended", "title", "user", "last"} : r[f] # None => s[f] # None
  /\ r.urls \subseteq s.urls \/ s.pinned
=============================================================================
