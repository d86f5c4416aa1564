-------------------------- MODULE SessionRowsProofs --------------------------
(***************************************************************************)
(* What the row updates of SessionRows preserve, for every file and every  *)
(* argument: the lemmas the proofs about SessionIndex rest on.  They end   *)
(* in ApplyBatchEvolves, which composes the five stages of a batch.        *)
(***************************************************************************)
EXTENDS SessionRows, NumberLemmas

\* s is what a correct update may make of row r.
Evolves(r, s) == /\ s \in Row
                 /\ Advances(r, s)
                 /\ PinnedRow(r) => PinnedRow(s)

\* rows became out, line by line.
AllEvolve(rows, out) == /\ out \in Seq(Row)
                        /\ Len(out) = Len(rows)
                        /\ \A i \in DOMAIN rows : Evolves(rows[i], out[i])

\* view may stand for raws where an update reads its conditions: it agrees
\* with raws on the session and on everything about its URLs.
SameUrls(raws, view) ==
  /\ view \in Seq(Row)
  /\ DOMAIN view = DOMAIN raws
  /\ \A i \in DOMAIN raws : /\ view[i].id = raws[i].id
                            /\ view[i].pinned = raws[i].pinned
                            /\ view[i].urls = raws[i].urls
                            /\ view[i].last = raws[i].last

-----------------------------------------------------------------------------
(* The order of metas *)

\* The metas of a batch are finitely many, so some URL of S comes last.
LEMMA LatestIsIn ==
  ASSUME NEW D \in SUBSET Url, NEW order \in Orders(D), NEW S \in SUBSET D, S # {}
  PROVE  Latest(order, S) \in S
<1>1. IsFiniteSet(D) /\ Cardinality(D) \in Nat
  BY RowAssumption, FS_Subset, FS_CardinalityType
<1>2. order \in [D -> 1..Cardinality(D)]
  BY DEF Orders, Injection
<1>3. {order[u] : u \in S} \in SUBSET (0..Cardinality(D))
  BY <1>1, <1>2
<1>4. PICK m \in {order[u] : u \in S} : \A k \in {order[u] : u \in S} : k <= m
  BY <1>1, <1>3, MaxInInterval
<1>5. \E u \in S : \A v \in S : order[v] <= order[u]
  BY <1>4
<1> QED
  BY <1>5 DEF Latest

-----------------------------------------------------------------------------
(* Evolution composes *)

\* None, the empty string, is no session, user, URL, title or instant.
LEMMA NoneIsNothing ==
  /\ None \notin SessionId /\ None \notin User /\ None \notin Url
  /\ None \notin Title /\ None \notin Stamp
BY RowAssumption

\* An update may leave a row alone.
LEMMA EvolvesReflexive ==
  ASSUME NEW r \in Row
  PROVE  Evolves(r, r)
BY DEF Evolves, Advances

\* Two updates in a row are an update.
LEMMA EvolvesTransitive ==
  ASSUME NEW r, NEW s, NEW t, Evolves(r, s), Evolves(s, t)
  PROVE  Evolves(r, t)
BY DEF Evolves, Advances

\* An update may leave a file alone.
LEMMA AllEvolveReflexive ==
  ASSUME NEW rows \in Seq(Row)
  PROVE  AllEvolve(rows, rows)
BY EvolvesReflexive DEF AllEvolve

\* Two rewrites of a file in a row lose no more than one of them may.
LEMMA AllEvolveTransitive ==
  ASSUME NEW rows \in Seq(Row), NEW mid, NEW out,
         AllEvolve(rows, mid), AllEvolve(mid, out)
  PROVE  AllEvolve(rows, out)
<1>1. DOMAIN rows = DOMAIN mid
  BY DEF AllEvolve
<1>2. \A i \in DOMAIN rows : Evolves(rows[i], out[i])
  BY <1>1, EvolvesTransitive DEF AllEvolve
<1> QED
  BY <1>2 DEF AllEvolve

\* An update that treats each line on its own is a sequence again.
LEMMA LineByLine ==
  ASSUME NEW rows \in Seq(Row), NEW out \in [DOMAIN rows -> Row],
         \A i \in DOMAIN rows : Evolves(rows[i], out[i])
  PROVE  AllEvolve(rows, out)
<1>1. out \in Seq(Row) /\ Len(out) = Len(rows)
  OBVIOUS
<1> QED
  BY <1>1 DEF AllEvolve

-----------------------------------------------------------------------------
(* One lemma per update *)

\* appendUniqueURLs only adds URLs, and its last one is among them.
LEMMA AppendUniqueEvolves ==
  ASSUME NEW r \in Row, ~r.pinned, NEW add \in Seq(Url)
  PROVE  Evolves(r, AppendUniqueURLs(r, r, add))
<1> DEFINE new == NewURLs(r.urls, add)
           s == [r EXCEPT !.urls = r.urls \cup {add[k] : k \in new},
                          !.last = add[Max(new)]]
<1>1. CASE new = {}
  BY <1>1, EvolvesReflexive DEF AppendUniqueURLs
<1>2. CASE new # {}
  <2>1. new \in SUBSET (0..Len(add)) /\ new \subseteq DOMAIN add
    BY DEF NewURLs
  <2>2. Max(new) \in new
    <3> HIDE DEF new
    <3>1. Len(add) \in Nat
      OBVIOUS
    <3> QED
      BY <1>2, <2>1, <3>1, MaxInInterval
  <2>3. add[Max(new)] \in Url /\ {add[k] : k \in new} \subseteq Url
    BY <2>1, <2>2
  <2>4. s \in Row
    BY <2>3 DEF Row, OrNone
  <2>5. Advances(r, s)
    BY <2>3, NoneIsNothing DEF Advances, Row
  <2>6. PinnedRow(r) => PinnedRow(s)
    BY DEF PinnedRow, Row
  <2>7. AppendUniqueURLs(r, r, add) = s
    BY <1>2 DEF AppendUniqueURLs
  <2> QED
    BY <2>4, <2>5, <2>6, <2>7 DEF Evolves
<1> QED
  BY <1>1, <1>2

\* applyUpdate leaves pinned sessions alone and adds URLs to the others.
LEMMA ApplyUpdateEvolves ==
  ASSUME NEW rows \in Seq(Row), NEW add, \A x \in DOMAIN add : add[x] \in Seq(Url)
  PROVE  AllEvolve(rows, ApplyUpdate(rows, rows, add))
<1> DEFINE out == ApplyUpdate(rows, rows, add)
<1>1. ASSUME NEW i \in DOMAIN rows PROVE Evolves(rows[i], out[i])
  BY AppendUniqueEvolves, EvolvesReflexive DEF ApplyUpdate
<1>2. out \in [DOMAIN rows -> Row]
  BY <1>1 DEF ApplyUpdate, Evolves
<1>3. AllEvolve(rows, out)
  <2> HIDE DEF out
  <2> QED
    BY <1>1, <1>2, LineByLine
<1> QED
  BY <1>3

\* UpdateByBranch leaves pinned sessions alone and adds one URL to the others.
LEMMA UpdateByBranchEvolves ==
  ASSUME NEW rows \in Seq(Row), NEW repo, NEW branch, NEW url \in Url
  PROVE  AllEvolve(rows, UpdateByBranch(rows, repo, branch, url))
<1> DEFINE out == UpdateByBranch(rows, repo, branch, url)
<1>1. ASSUME NEW i \in DOMAIN rows PROVE Evolves(rows[i], out[i])
  <2>1. <<url>> \in Seq(Url) /\ rows[i] \in Row
    OBVIOUS
  <2>2. CASE out[i] = rows[i]
    BY <2>1, <2>2, EvolvesReflexive
  <2>3. CASE ~rows[i].pinned /\ out[i] = AppendUniqueURLs(rows[i], rows[i], <<url>>)
    BY <2>1, <2>3, AppendUniqueEvolves
  <2> QED
    BY <2>2, <2>3 DEF UpdateByBranch
<1>2. out \in [DOMAIN rows -> Row]
  BY <1>1 DEF UpdateByBranch, Evolves
<1>3. AllEvolve(rows, out)
  <2> HIDE DEF out
  <2> QED
    BY <1>1, <1>2, LineByLine
<1> QED
  BY <1>3

\* applyPinPR leaves a pinned session with exactly the URL of its pin.
LEMMA ApplyPinPREvolves ==
  ASSUME NEW raws \in Seq(Row), NEW view, SameUrls(raws, view),
         NEW pins, \A id \in DOMAIN pins : pins[id] \in OrNone(Url)
  PROVE  AllEvolve(raws, ApplyPinPR(raws, view, pins))
<1> DEFINE out == ApplyPinPR(raws, view, pins)
           url(i) == EntryOf(pins, view[i].id)
<1>1. ASSUME NEW i \in DOMAIN raws PROVE Evolves(raws[i], out[i])
  <2>1. raws[i] \in Row /\ url(i) \in OrNone(Url)
    BY DEF EntryOf, OrNone
  <2>2. CASE out[i] = raws[i]
    BY <2>1, <2>2, EvolvesReflexive
  <2>3. CASE url(i) # None /\ out[i] = [raws[i] EXCEPT !.urls = {url(i)},
                                          !.last = url(i), !.pinned = TRUE]
    <3> DEFINE u == url(i)
               r == raws[i]
               s == [r EXCEPT !.urls = {u}, !.last = u, !.pinned = TRUE]
    <3>1. u \in Url
      BY <2>1, <2>3 DEF OrNone
    <3> HIDE DEF u, r
    <3>2. r \in Row
      BY <2>1 DEF r
    <3>3. s \in Row
      BY <3>1, <3>2 DEF Row, OrNone
    <3>4. Advances(r, s)
      BY <3>1, <3>2, NoneIsNothing DEF Advances, Row
    <3>5. PinnedRow(s)
      BY <3>2 DEF PinnedRow, Row
    <3>6. out[i] = s
      BY <2>3 DEF r, u
    <3> QED
      BY <3>3, <3>4, <3>5, <3>6 DEF Evolves, r
  <2> QED
    BY <2>2, <2>3 DEF ApplyPinPR
<1>2. out \in [DOMAIN raws -> Row]
  BY <1>1 DEF ApplyPinPR, Evolves
<1>3. AllEvolve(raws, out)
  <2> HIDE DEF out
  <2> QED
    BY <1>1, <1>2, LineByLine
<1> QED
  BY <1>3

\* applyMarkChecked takes nothing back and touches no URL.
LEMMA ApplyMarkCheckedEvolves ==
  ASSUME NEW rows \in Seq(Row), NEW ids
  PROVE  /\ AllEvolve(rows, ApplyMarkChecked(rows, rows, ids))
         /\ SameUrls(ApplyMarkChecked(rows, rows, ids), rows)
<1> DEFINE out == ApplyMarkChecked(rows, rows, ids)
<1>1. ASSUME NEW i \in DOMAIN rows
      PROVE  /\ Evolves(rows[i], out[i])
             /\ out[i].id = rows[i].id /\ out[i].pinned = rows[i].pinned
             /\ out[i].urls = rows[i].urls /\ out[i].last = rows[i].last
  <2>1. rows[i] \in Row
    OBVIOUS
  <2>2. CASE out[i] = rows[i]
    BY <2>1, <2>2, EvolvesReflexive
  <2>3. CASE out[i] = [rows[i] EXCEPT !.checked = TRUE]
    <3> DEFINE r == rows[i]
               s == [r EXCEPT !.checked = TRUE]
    <3> HIDE DEF r
    <3>1. r \in Row
      BY <2>1 DEF r
    <3>2. s \in Row /\ Advances(r, s) /\ (PinnedRow(r) => PinnedRow(s))
      BY <3>1 DEF Row, Advances, PinnedRow
    <3>3. s.id = r.id /\ s.pinned = r.pinned /\ s.urls = r.urls /\ s.last = r.last
      BY <3>1 DEF Row
    <3>4. out[i] = s
      BY <2>3 DEF r
    <3> QED
      BY <3>2, <3>3, <3>4 DEF Evolves, r
  <2> QED
    BY <2>2, <2>3 DEF ApplyMarkChecked
<1>2. out \in [DOMAIN rows -> Row]
  BY <1>1 DEF ApplyMarkChecked, Evolves
<1>3. AllEvolve(rows, out) /\ SameUrls(out, rows)
  <2> HIDE DEF out
  <2>1. DOMAIN out = DOMAIN rows
    BY <1>2
  <2> QED
    BY <1>1, <1>2, <2>1, LineByLine DEF SameUrls
<1> QED
  BY <1>3

\* applyUpdateEnd takes nothing back and touches no URL.
LEMMA ApplyUpdateEndEvolves ==
  ASSUME NEW rows \in Seq(Row), NEW ends,
         \A id \in DOMAIN ends : ends[id] \in OrNone(Stamp)
  PROVE  AllEvolve(rows, ApplyUpdateEnd(rows, rows, ends))
<1> DEFINE out == ApplyUpdateEnd(rows, rows, ends)
           at(i) == EntryOf(ends, rows[i].id)
<1>1. ASSUME NEW i \in DOMAIN rows PROVE Evolves(rows[i], out[i])
  <2>1. rows[i] \in Row /\ at(i) \in OrNone(Stamp)
    BY DEF EntryOf, OrNone
  <2>2. CASE out[i] = rows[i]
    BY <2>1, <2>2, EvolvesReflexive
  <2>3. CASE at(i) # None /\ out[i] = [rows[i] EXCEPT !.ended = at(i)]
    <3> DEFINE e == at(i)
               r == rows[i]
               s == [r EXCEPT !.ended = e]
    <3>1. e \in OrNone(Stamp) /\ e # None
      BY <2>1, <2>3
    <3> HIDE DEF e, r
    <3>2. r \in Row
      BY <2>1 DEF r
    <3>3. s \in Row /\ Advances(r, s) /\ (PinnedRow(r) => PinnedRow(s))
      BY <3>1, <3>2 DEF Row, Advances, PinnedRow
    <3>4. out[i] = s
      BY <2>3 DEF r, e
    <3> QED
      BY <3>3, <3>4 DEF Evolves, r
  <2> QED
    BY <2>2, <2>3 DEF ApplyUpdateEnd
<1>2. out \in [DOMAIN rows -> Row]
  BY <1>1 DEF ApplyUpdateEnd, Evolves
<1>3. AllEvolve(rows, out)
  <2> HIDE DEF out
  <2> QED
    BY <1>1, <1>2, LineByLine
<1> QED
  BY <1>3

\* applyPRMeta, in whatever order the URLs come, takes back no title and no URL.
LEMMA ApplyPRMetasEvolves ==
  ASSUME NEW rows \in Seq(Row), NEW metas \in [Url -> OrNone(PRMeta)],
         NEW order \in Orders({u \in Url : metas[u] # None})
  PROVE  AllEvolve(rows, ApplyPRMetas(rows, metas, order))
<1> DEFINE out == ApplyPRMetas(rows, metas, order)
           D == {u \in Url : metas[u] # None}
           hits(i) == {u \in rows[i].urls : metas[u] # None}
           titled(i) == {u \in hits(i) : metas[u].title # None}
<1>1. ASSUME NEW i \in DOMAIN rows PROVE Evolves(rows[i], out[i])
  <2>1. rows[i] \in Row /\ hits(i) \in SUBSET D /\ titled(i) \in SUBSET D
    <3>1. rows[i] \in Row
      OBVIOUS
    <3>2. rows[i].urls \subseteq Url
      BY <3>1 DEF Row
    <3>3. hits(i) \subseteq D
      BY <3>2
    <3>4. titled(i) \subseteq hits(i)
      OBVIOUS
    <3> QED
      BY <3>1, <3>3, <3>4
  <2>2. CASE out[i] = rows[i]
    BY <2>1, <2>2, EvolvesReflexive
  <2>3. CASE hits(i) # {}
    <3> DEFINE h == Latest(order, hits(i))
               t == Latest(order, titled(i))
               r == rows[i]
               merged == metas[h].merged
               reviews == metas[h].reviews
               title == IF titled(i) = {} THEN r.title ELSE metas[t].title
               s == [r EXCEPT !.merged = merged, !.reviews = reviews,
                              !.title = title]
    <3>1. h \in hits(i)
      <4> HIDE DEF hits, D
      <4> QED
        BY <2>1, <2>3, LatestIsIn DEF D
    <3>2. titled(i) # {} => t \in titled(i)
      <4> HIDE DEF titled, D
      <4> QED
        BY <2>1, LatestIsIn DEF D
    <3>3. metas[h] \in PRMeta
      BY <2>1, <3>1 DEF OrNone
    <3>4. merged \in BOOLEAN /\ reviews \in Nat
      BY <3>3 DEF PRMeta
    <3>5. title \in OrNone(Title) /\ (r.title # None => title # None)
      <4>1. CASE titled(i) = {}
        BY <2>1, <4>1 DEF Row
      <4>2. CASE titled(i) # {}
        <5>1. t \in D /\ metas[t].title # None
          BY <2>1, <3>2, <4>2
        <5>2. metas[t] \in PRMeta
          BY <5>1 DEF OrNone
        <5> QED
          BY <4>2, <5>1, <5>2 DEF PRMeta
      <4> QED
        BY <4>1, <4>2
    <3>6. out[i] = s
      BY <2>3 DEF ApplyPRMetas
    <3> HIDE DEF merged, reviews, title, r
    <3>7. r \in Row
      BY <2>1 DEF r
    <3>8. s \in Row /\ (PinnedRow(r) => PinnedRow(s))
      BY <3>4, <3>5, <3>7 DEF Row, PinnedRow
    <3>9. Advances(r, s)
      BY <3>5, <3>7 DEF Row, Advances
    <3> QED
      BY <3>6, <3>8, <3>9 DEF Evolves, r
  <2> QED
    BY <2>2, <2>3 DEF ApplyPRMetas
<1>2. out \in [DOMAIN rows -> Row]
  BY <1>1 DEF ApplyPRMetas, Evolves
<1>3. AllEvolve(rows, out)
  <2> HIDE DEF out
  <2> QED
    BY <1>1, <1>2, LineByLine
<1> QED
  BY <1>3

\* The user_id fill of sync-db changes no user that is there.
LEMMA FillUserEvolves ==
  ASSUME NEW rows \in Seq(Row), NEW u \in User
  PROVE  AllEvolve(rows, FillUser(rows, u))
<1> DEFINE out == FillUser(rows, u)
<1>1. ASSUME NEW i \in DOMAIN rows PROVE Evolves(rows[i], out[i])
  <2>1. rows[i] \in Row
    OBVIOUS
  <2>2. CASE out[i] = rows[i]
    BY <2>1, <2>2, EvolvesReflexive
  <2>3. CASE out[i] = [rows[i] EXCEPT !.user = u]
    <3> DEFINE r == rows[i]
               s == [r EXCEPT !.user = u]
    <3> HIDE DEF r
    <3>1. r \in Row
      BY <2>1 DEF r
    <3>2. u \in OrNone(User) /\ u # None
      BY NoneIsNothing DEF OrNone
    <3>3. s \in Row /\ (PinnedRow(r) => PinnedRow(s))
      BY <3>1, <3>2 DEF Row, PinnedRow
    <3>4. Advances(r, s)
      BY <3>1, <3>2 DEF Row, Advances
    <3>5. out[i] = s
      BY <2>3 DEF r
    <3> QED
      BY <3>3, <3>4, <3>5 DEF Evolves, r
  <2> QED
    BY <2>2, <2>3 DEF FillUser
<1>2. out \in [DOMAIN rows -> Row]
  BY <1>1 DEF FillUser, Evolves
<1>3. AllEvolve(rows, out)
  <2> HIDE DEF out
  <2> QED
    BY <1>1, <1>2, LineByLine
<1> QED
  BY <1>3

\* Whatever the batch and the order of its metas, ApplyBatchToRaw leaves every
\* line at its place and takes nothing back; a batch that pins a session and
\* carries URLs for it leaves the pin as its only URL.
LEMMA ApplyBatchEvolves ==
  ASSUME NEW rows \in Seq(Row), NEW b \in Batch, NEW out \in ApplyBatchToRaw(rows, b)
  PROVE  AllEvolve(rows, out)
<1> DEFINE marked  == ApplyMarkChecked(rows, rows, b.checked)
           pinned  == ApplyPinPR(marked, rows, b.pins)
           updated == ApplyUpdate(pinned, pinned, b.urls)
           ended   == ApplyUpdateEnd(updated, updated, b.ends)
           D       == {u \in Url : b.metas[u] # None}
<1>1. /\ b.pins \in [SessionId -> OrNone(Url)]
      /\ b.urls \in [SessionId -> Seq(Url)]
      /\ b.ends \in [SessionId -> OrNone(Stamp)]
      /\ b.metas \in [Url -> OrNone(PRMeta)]
  BY DEF Batch
<1>2. AllEvolve(rows, marked) /\ SameUrls(marked, rows)
  BY ApplyMarkCheckedEvolves
<1>3. AllEvolve(marked, pinned)
  <2> HIDE DEF marked
  <2>1. marked \in Seq(Row)
    BY <1>2 DEF AllEvolve
  <2>2. \A id \in DOMAIN b.pins : b.pins[id] \in OrNone(Url)
    BY <1>1
  <2> QED
    BY <1>2, <2>1, <2>2, ApplyPinPREvolves
<1>4. AllEvolve(pinned, updated)
  <2> HIDE DEF pinned
  <2>1. pinned \in Seq(Row)
    BY <1>3 DEF AllEvolve
  <2>2. \A id \in DOMAIN b.urls : b.urls[id] \in Seq(Url)
    BY <1>1
  <2> QED
    BY <2>1, <2>2, ApplyUpdateEvolves
<1>5. AllEvolve(updated, ended)
  <2> HIDE DEF updated
  <2>1. updated \in Seq(Row)
    BY <1>4 DEF AllEvolve
  <2>2. \A id \in DOMAIN b.ends : b.ends[id] \in OrNone(Stamp)
    BY <1>1
  <2> QED
    BY <2>1, <2>2, ApplyUpdateEndEvolves
<1>6. PICK order \in Orders(D) : out = ApplyPRMetas(ended, b.metas, order)
  BY DEF ApplyBatchToRaw
<1>7. AllEvolve(ended, out)
  <2> HIDE DEF ended
  <2>1. ended \in Seq(Row)
    BY <1>5 DEF AllEvolve
  <2> QED
    BY <1>1, <1>6, <2>1, ApplyPRMetasEvolves
<1> HIDE DEF marked, pinned, updated, ended
<1>8. AllEvolve(rows, pinned)
  BY <1>2, <1>3, AllEvolveTransitive
<1>9. AllEvolve(rows, updated)
  BY <1>4, <1>8, AllEvolveTransitive
<1>10. AllEvolve(rows, ended)
  BY <1>5, <1>9, AllEvolveTransitive
<1> QED
  BY <1>7, <1>10, AllEvolveTransitive

-----------------------------------------------------------------------------
(* What exactly a batch makes of a line *)

\* appendUniqueURLs touches nothing but the URLs; if it changes them there are
\* more, and the last is one of those it was given.
LEMMA AppendUniqueMakes ==
  ASSUME NEW r \in Row, NEW add \in Seq(Url), NEW s, s = AppendUniqueURLs(r, r, add)
  PROVE  /\ s.id = r.id /\ s.pinned = r.pinned /\ s.checked = r.checked
         /\ s.ended = r.ended /\ s.merged = r.merged
         /\ s = r \/ (r.urls # s.urls /\ \E k \in DOMAIN add : s.last = add[k])
         /\ r.urls \subseteq s.urls
<1> DEFINE new == NewURLs(r.urls, add)
<1>1. CASE new = {}
  BY <1>1 DEF AppendUniqueURLs
<1>2. CASE new # {}
  <2>1. new \in SUBSET (0..Len(add)) /\ new \subseteq DOMAIN add
    BY DEF NewURLs
  <2>2. Max(new) \in new
    <3> HIDE DEF new
    <3>1. Len(add) \in Nat
      OBVIOUS
    <3> QED
      BY <1>2, <2>1, <3>1, MaxInInterval
  <2>3. \A k \in new : add[k] \notin r.urls
    BY DEF NewURLs
  <2>4. s = [r EXCEPT !.urls = r.urls \cup {add[k] : k \in new}, !.last = add[Max(new)]]
    BY <1>2 DEF AppendUniqueURLs
  <2> HIDE DEF new
  <2>5. s.urls = r.urls \cup {add[k] : k \in new} /\ s.last = add[Max(new)]
    BY <2>4 DEF Row
  <2>6. add[Max(new)] \in s.urls /\ add[Max(new)] \notin r.urls
    BY <2>2, <2>3, <2>5
  <2> QED
    BY <2>1, <2>2, <2>4, <2>5, <2>6 DEF Row
<1> QED
  BY <1>1, <1>2

\* Of a batch b, line r becomes s: only sessions it names are checked, pinned or
\* end, a pin that it has leaves its URL, and nothing else touches a pinned
\* session's; a new URL is one of the batch; and a session with one URL has the
\* merge state that came with it.
BatchMakes(b, r, s) ==
  LET pin == EntryOf(b.pins, r.id)
  IN  /\ s.checked => r.checked \/ r.id \in b.checked
      /\ s.ended # r.ended => s.ended = EntryOf(b.ends, r.id)
      /\ pin = None => s.pinned = r.pinned
      /\ pin = None /\ r.pinned => s.urls = r.urls /\ s.last = r.last
      /\ pin # None /\ ~r.pinned => s.pinned /\ s.urls = {pin} /\ s.last = pin
      /\ s.last # r.last \/ s.urls # r.urls =>
           \/ s.last = pin /\ pin # None
           \/ r.id \in DOMAIN b.urls /\ \E k \in DOMAIN b.urls[r.id] : s.last = b.urls[r.id][k]
      /\ s.urls = {} => r.urls = {} /\ s.merged = r.merged
      /\ s.urls = {s.last} =>
           s.merged = IF b.metas[s.last] # None THEN b.metas[s.last].merged ELSE r.merged

\* What the stages up to the metas make of line r.
StagesMake(b, r, e) ==
  LET pin == EntryOf(b.pins, r.id)
  IN  /\ e.id = r.id /\ e.merged = r.merged
      /\ e.checked => r.checked \/ r.id \in b.checked
      /\ e.ended # r.ended => e.ended = EntryOf(b.ends, r.id)
      /\ pin = None => e.pinned = r.pinned
      /\ pin = None /\ r.pinned => e.urls = r.urls /\ e.last = r.last
      /\ pin # None /\ ~r.pinned => e.pinned /\ e.urls = {pin} /\ e.last = pin
      /\ e.last # r.last \/ e.urls # r.urls =>
           \/ e.last = pin /\ pin # None
           \/ r.id \in DOMAIN b.urls /\ \E k \in DOMAIN b.urls[r.id] : e.last = b.urls[r.id][k]
      /\ e.urls = {} => r.urls = {}

\* Line r is marked as m, which is pinned as p, updated as u and ends as e.
MarkMakes(b, r, m) ==
  /\ m.id = r.id /\ m.ended = r.ended /\ m.merged = r.merged
  /\ m.urls = r.urls /\ m.last = r.last /\ m.pinned = r.pinned
  /\ m.checked => r.checked \/ r.id \in b.checked

PinMakes(b, m, p) ==
  LET pin == EntryOf(b.pins, m.id)
  IN  /\ p.id = m.id /\ p.ended = m.ended /\ p.merged = m.merged /\ p.checked = m.checked
      /\ \/ p.urls = m.urls /\ p.last = m.last /\ p.pinned = m.pinned
              /\ (pin = None \/ (m.pinned /\ m.urls = {pin}))
         \/ p.urls = {pin} /\ p.last = pin /\ p.pinned /\ pin # None

UpdateMakes(b, p, u) ==
  /\ u.id = p.id /\ u.pinned = p.pinned /\ u.checked = p.checked
  /\ u.ended = p.ended /\ u.merged = p.merged
  /\ \/ u.urls = p.urls /\ u.last = p.last
     \/ /\ p.id \in DOMAIN b.urls /\ ~p.pinned
        /\ \E k \in DOMAIN b.urls[p.id] : u.last = b.urls[p.id][k]
  /\ p.urls \subseteq u.urls

EndMakes(b, u, e) ==
  /\ e.id = u.id /\ e.pinned = u.pinned /\ e.checked = u.checked /\ e.merged = u.merged
  /\ e.urls = u.urls /\ e.last = u.last
  /\ e.ended # u.ended => e.ended = EntryOf(b.ends, u.id)

LEMMA MarkOfLine ==
  ASSUME NEW b, NEW r \in Row
  PROVE  MarkMakes(b, r, IF r.id \in b.checked THEN [r EXCEPT !.checked = TRUE] ELSE r)
BY DEF Row, MarkMakes

LEMMA PinOfLine ==
  ASSUME NEW b, NEW m \in Row, NEW p,
         \/ /\ EntryOf(b.pins, m.id) = None \/ (m.pinned /\ m.urls = {EntryOf(b.pins, m.id)})
            /\ p = m
         \/ /\ EntryOf(b.pins, m.id) # None
            /\ p = [m EXCEPT !.urls = {EntryOf(b.pins, m.id)},
                             !.last = EntryOf(b.pins, m.id), !.pinned = TRUE]
  PROVE  PinMakes(b, m, p)
<1> DEFINE pin == EntryOf(b.pins, m.id)
<1> HIDE DEF pin
<1>1. \/ (pin = None \/ (m.pinned /\ m.urls = {pin})) /\ p = m
      \/ pin # None /\ p = [m EXCEPT !.urls = {pin}, !.last = pin, !.pinned = TRUE]
  BY DEF pin
<1> QED
  BY <1>1 DEF Row, PinMakes, pin

LEMMA UpdateOfLine ==
  ASSUME NEW b \in Batch, NEW p \in Row
  PROVE  UpdateMakes(b, p, IF p.id \in DOMAIN b.urls /\ ~p.pinned
                           THEN AppendUniqueURLs(p, p, b.urls[p.id]) ELSE p)
<1>1. CASE p.id \in DOMAIN b.urls /\ ~p.pinned
  <2>1. b.urls[p.id] \in Seq(Url)
    BY <1>1 DEF Batch
  <2> QED
    BY <1>1, <2>1, AppendUniqueMakes DEF UpdateMakes
<1>2. CASE ~(p.id \in DOMAIN b.urls /\ ~p.pinned)
  BY <1>2 DEF UpdateMakes
<1> QED
  BY <1>1, <1>2

LEMMA EndOfLine ==
  ASSUME NEW b, NEW u \in Row, NEW at, at = EntryOf(b.ends, u.id)
  PROVE  EndMakes(b, u, IF at # None THEN [u EXCEPT !.ended = at] ELSE u)
BY DEF Row, EndMakes

LEMMA StagesOfLine ==
  ASSUME NEW b, NEW r \in Row, NEW m \in Row, NEW p \in Row, NEW u \in Row, NEW e \in Row,
         MarkMakes(b, r, m), PinMakes(b, m, p), UpdateMakes(b, p, u), EndMakes(b, u, e)
  PROVE  StagesMake(b, r, e)
<1>1. /\ e.id = r.id /\ e.merged = r.merged
      /\ e.checked => r.checked \/ r.id \in b.checked
      /\ e.ended # r.ended => e.ended = EntryOf(b.ends, r.id)
  BY DEF MarkMakes, PinMakes, UpdateMakes, EndMakes
<1> DEFINE pin == EntryOf(b.pins, r.id)
<1>2. /\ p.id = r.id /\ (p.pinned => u.urls = p.urls /\ u.last = p.last)
      /\ \/ p.urls = r.urls /\ p.last = r.last /\ p.pinned = r.pinned
              /\ (pin = None \/ (r.pinned /\ r.urls = {pin}))
         \/ p.urls = {pin} /\ p.last = pin /\ p.pinned /\ pin # None
  BY DEF MarkMakes, PinMakes, UpdateMakes
<1> HIDE DEF pin
<1>3. /\ pin = None => e.pinned = r.pinned
      /\ pin = None /\ r.pinned => e.urls = r.urls /\ e.last = r.last
      /\ pin # None /\ ~r.pinned => e.pinned /\ e.urls = {pin} /\ e.last = pin
  BY <1>2 DEF UpdateMakes, EndMakes
<1>4. e.last # r.last \/ e.urls # r.urls =>
        \/ e.last = pin /\ pin # None
        \/ r.id \in DOMAIN b.urls /\ \E k \in DOMAIN b.urls[r.id] : e.last = b.urls[r.id][k]
  BY <1>2 DEF UpdateMakes, EndMakes
<1>5. e.urls = {} => r.urls = {}
  BY <1>2 DEF UpdateMakes, EndMakes
<1> QED
  BY <1>1, <1>3, <1>4, <1>5 DEF StagesMake, pin

\* A batch makes of every line what it says.
LEMMA ApplyBatchMakes ==
  ASSUME NEW rows \in Seq(Row), NEW b \in Batch, NEW out \in ApplyBatchToRaw(rows, b),
         NEW i \in DOMAIN rows
  PROVE  BatchMakes(b, rows[i], out[i])
<1> DEFINE marked  == ApplyMarkChecked(rows, rows, b.checked)
           pinned  == ApplyPinPR(marked, rows, b.pins)
           updated == ApplyUpdate(pinned, pinned, b.urls)
           ended   == ApplyUpdateEnd(updated, updated, b.ends)
           D       == {u \in Url : b.metas[u] # None}
           r == rows[i]
           m == marked[i]
           p == pinned[i]
           u == updated[i]
           e == ended[i]
           s == out[i]
           hits == {v \in e.urls : b.metas[v] # None}
<1>1. AllEvolve(rows, marked) /\ SameUrls(marked, rows)
  BY ApplyMarkCheckedEvolves
<1>2. AllEvolve(marked, pinned)
  <2> HIDE DEF marked
  <2>1. \A id \in DOMAIN b.pins : b.pins[id] \in OrNone(Url)
    BY DEF Batch
  <2>2. marked \in Seq(Row)
    BY <1>1 DEF AllEvolve
  <2> QED
    BY <1>1, <2>1, <2>2, ApplyPinPREvolves
<1>3. AllEvolve(pinned, updated)
  <2> HIDE DEF pinned
  <2>1. \A id \in DOMAIN b.urls : b.urls[id] \in Seq(Url)
    BY DEF Batch
  <2> QED
    BY <1>2, <2>1, ApplyUpdateEvolves DEF AllEvolve
<1>4. AllEvolve(updated, ended)
  <2> HIDE DEF updated
  <2>1. \A id \in DOMAIN b.ends : b.ends[id] \in OrNone(Stamp)
    BY DEF Batch
  <2> QED
    BY <1>3, <2>1, ApplyUpdateEndEvolves DEF AllEvolve
<1>5. PICK order \in Orders(D) : out = ApplyPRMetas(ended, b.metas, order)
  BY DEF ApplyBatchToRaw
<1>6. r \in Row /\ m \in Row /\ p \in Row /\ u \in Row /\ e \in Row
  BY <1>1, <1>2, <1>3, <1>4 DEF AllEvolve
<1>7. /\ i \in DOMAIN marked /\ i \in DOMAIN pinned
      /\ i \in DOMAIN updated /\ i \in DOMAIN ended
  BY <1>1, <1>2, <1>3, <1>4 DEF AllEvolve
<1>8. MarkMakes(b, r, m)
  <2>1. m = IF r.id \in b.checked THEN [r EXCEPT !.checked = TRUE] ELSE r
    BY DEF ApplyMarkChecked
  <2> QED
    BY <1>6, <2>1, MarkOfLine
<1>9. PinMakes(b, m, p)
  <2>1. r.id = m.id /\ r.pinned = m.pinned /\ r.urls = m.urls
    BY <1>1 DEF SameUrls
  <2> HIDE DEF marked
  <2>2. p = IF EntryOf(b.pins, r.id) # None
                 /\ ~(r.pinned /\ r.urls = {EntryOf(b.pins, r.id)})
            THEN [m EXCEPT !.urls = {EntryOf(b.pins, r.id)},
                           !.last = EntryOf(b.pins, r.id), !.pinned = TRUE]
            ELSE m
    BY <1>7 DEF ApplyPinPR
  <2>3. \/ /\ EntryOf(b.pins, m.id) = None \/ (m.pinned /\ m.urls = {EntryOf(b.pins, m.id)})
           /\ p = m
        \/ /\ EntryOf(b.pins, m.id) # None
           /\ p = [m EXCEPT !.urls = {EntryOf(b.pins, m.id)},
                            !.last = EntryOf(b.pins, m.id), !.pinned = TRUE]
    BY <2>1, <2>2
  <2> HIDE DEF pinned, m, p
  <2> QED
    BY <1>6, <2>3, PinOfLine
<1>10. UpdateMakes(b, p, u)
  <2> HIDE DEF pinned
  <2>1. u = IF p.id \in DOMAIN b.urls /\ ~p.pinned
            THEN AppendUniqueURLs(p, p, b.urls[p.id]) ELSE p
    BY <1>7 DEF ApplyUpdate
  <2> HIDE DEF updated
  <2> QED
    BY <1>6, <2>1, UpdateOfLine
<1>11. EndMakes(b, u, e)
  <2> DEFINE at == EntryOf(b.ends, u.id)
  <2> HIDE DEF updated
  <2>1. e = IF at # None THEN [u EXCEPT !.ended = at] ELSE u
    BY <1>7 DEF ApplyUpdateEnd
  <2> HIDE DEF ended
  <2> QED
    BY <1>6, <2>1, EndOfLine
<1>12. s = IF hits = {} THEN e
          ELSE [e EXCEPT !.merged  = b.metas[Latest(order, hits)].merged,
                         !.reviews = b.metas[Latest(order, hits)].reviews,
                         !.title   = s.title]
  <2> HIDE DEF ended
  <2>1. s = ApplyPRMetas(ended, b.metas, order)[i]
    BY <1>5
  <2> QED
    BY <1>6, <1>7, <2>1 DEF ApplyPRMetas, Row
<1>13. hits # {} => Latest(order, hits) \in hits
  <2>1. hits \in SUBSET D
    BY <1>6 DEF Row
  <2> HIDE DEF hits, D
  <2> QED
    BY <2>1, LatestIsIn DEF D
<1> HIDE DEF marked, pinned, updated, ended, r, m, p, u, e, s
<1>14. /\ s.id = e.id /\ s.checked = e.checked /\ s.ended = e.ended /\ s.pinned = e.pinned
       /\ s.urls = e.urls /\ s.last = e.last
       /\ s.urls = {} => s.merged = e.merged
       /\ s.urls = {s.last} =>
            s.merged = IF b.metas[s.last] # None THEN b.metas[s.last].merged ELSE e.merged
  <2>1. CASE hits = {}
    BY <1>12, <2>1
  <2>2. CASE hits # {}
    <3>1. /\ s.id = e.id /\ s.checked = e.checked /\ s.ended = e.ended
          /\ s.pinned = e.pinned /\ s.urls = e.urls /\ s.last = e.last
          /\ s.merged = b.metas[Latest(order, hits)].merged
      BY <1>6, <1>12, <2>2 DEF Row
    <3>2. s.urls = {s.last} => Latest(order, hits) = s.last /\ b.metas[s.last] # None
      BY <1>13, <2>2, <3>1
    <3> QED
      BY <2>2, <3>1, <3>2
  <2> QED
    BY <2>1, <2>2
<1>15. BatchMakes(b, r, s)
  <2>1. StagesMake(b, r, e)
    BY <1>6, <1>8, <1>9, <1>10, <1>11, StagesOfLine
  <2> QED
    BY <1>14, <2>1 DEF BatchMakes, StagesMake
<1> QED
  BY <1>15 DEF r, s
=============================================================================
