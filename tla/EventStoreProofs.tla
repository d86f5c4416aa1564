--------------------------- MODULE EventStoreProofs ---------------------------
(***************************************************************************)
(* That a recorded hash means an events table, that a sync-db shows what   *)
(* it has read, and that the server's stats are the client's, for any      *)
(* number of agents, sessions, index contents and overlapping sync-dbs.    *)
(***************************************************************************)
EXTENDS EventStore, NumberLemmas

-----------------------------------------------------------------------------
(* Rows of a table *)

\* The places where rows are kept, in their order: at says which row of the
\* table becomes which of the result.
Keeps(table, gone, kept, at) ==
  /\ at \in [1..Len(kept) -> 1..Len(table)]
  /\ \A n \in 1..Len(kept) : kept[n] = table[at[n]] /\ kept[n] \notin gone
  /\ \A m, n \in 1..Len(kept) : m < n => at[m] < at[n]
  /\ \A i \in 1..Len(table) : table[i] \notin gone => \E n \in 1..Len(kept) : at[n] = i

\* Without keeps the rows that are not gone, and their order.
LEMMA WithoutKeeps ==
  ASSUME NEW S, NEW table \in Seq(S), NEW gone
  PROVE  /\ Without(table, gone) \in Seq(S)
         /\ \E at : Keeps(table, gone, Without(table, gone), at)
<1> DEFINE L == Len(table)
           K(i) == {j \in 1..i : table[j] \notin gone}
           c(i) == Cardinality(K(i))
           N == c(L)
           Nth(n) == CHOOSE i \in K(L) : c(i) = n
           W == Without(table, gone)
           At == [n \in 1..N |-> Nth(n)]
<1>1. L \in Nat /\ DOMAIN table = 1..L /\ \A j \in 1..L : table[j] \in S
  OBVIOUS
<1>2. \A i \in 0..L : IsFiniteSet(K(i)) /\ c(i) \in Nat
  <2>1. ASSUME NEW i \in 0..L PROVE IsFiniteSet(K(i)) /\ c(i) \in Nat
    <3>1. IsFiniteSet(1..i)
      BY FS_Interval
    <3>2. K(i) \in SUBSET (1..i)
      OBVIOUS
    <3>3. IsFiniteSet(K(i))
      BY <3>1, <3>2, FS_Subset
    <3> QED
      BY <3>3, FS_CardinalityType
  <2> QED
    BY <2>1
<1>3. c(0) = 0
  <2>1. K(0) = {}
    OBVIOUS
  <2> QED
    BY <2>1, FS_EmptySet
<1>4. \A i, j \in 0..L : i <= j => c(i) <= c(j)
  <2>1. ASSUME NEW i \in 0..L, NEW j \in 0..L, i <= j PROVE c(i) <= c(j)
    <3>1. K(i) \in SUBSET K(j)
      BY <2>1
    <3> QED
      BY <3>1, <1>2, FS_Subset
  <2> QED
    BY <2>1
<1>5. \A i \in 0..L : \A j \in K(L) : i < j => c(i) < c(j)
  <2>1. ASSUME NEW i \in 0..L, NEW j \in K(L), i < j PROVE c(i) < c(j)
    <3>0. j \in 0..L
      OBVIOUS
    <3>1. K(i) \in SUBSET K(j) /\ j \in K(j) /\ j \notin K(i)
      BY <2>1
    <3>2. c(i) <= c(j) /\ c(i) # c(j)
      BY <3>0, <3>1, <1>2, FS_Subset
    <3>3. i \in 0..L
      OBVIOUS
    <3> HIDE DEF c, K
    <3>4. c(i) \in Nat /\ c(j) \in Nat
      BY <3>0, <3>3, <1>2
    <3> QED
      BY <3>2, <3>4
  <2> QED
    BY <2>1
<1>6. \A m \in 1..L : c(m) = IF table[m] \notin gone THEN c(m - 1) + 1 ELSE c(m - 1)
  <2>1. ASSUME NEW m \in 1..L
        PROVE  c(m) = IF table[m] \notin gone THEN c(m - 1) + 1 ELSE c(m - 1)
    <3>1. CASE table[m] \in gone
      <4>1. K(m) = K(m - 1)
        BY <3>1
      <4> QED
        BY <3>1, <4>1
    <3>2. CASE table[m] \notin gone
      <4>1. K(m) = K(m - 1) \cup {m} /\ m \notin K(m - 1) /\ m - 1 \in 0..L
        BY <3>2
      <4> QED
        BY <3>2, <4>1, <1>2, FS_AddElement
    <3> QED
      BY <3>1, <3>2
  <2> QED
    BY <2>1
<1>7. \A n \in 1..N : \E i \in K(L) : c(i) = n
  <2>1. ASSUME NEW n \in 1..N PROVE \E i \in K(L) : c(i) = n
    <3> DEFINE Far == {i \in 0..L : c(i) >= n}
    <3>1. L \in Far /\ Far \in SUBSET Nat
      BY <1>1, <1>2
    <3>2. PICK m \in Far : \A i \in Far : m <= i
      <4> HIDE DEF Far
      <4> QED
        BY <3>1, LeastNumber
    <3>3. m \in 1..L /\ m - 1 \in 0..L
      <4>1. m # 0
        <5>1. m \in 0..L /\ c(m) >= n
          OBVIOUS
        <5> HIDE DEF c, Far, N
        <5> QED
          BY <5>1, <1>3
      <4> QED
        BY <4>1
    <3>4. m - 1 \notin Far
      BY <3>2, <3>3
    <3>5. c(m - 1) \in Nat /\ c(m - 1) < n /\ c(m) \in Nat /\ c(m) >= n
      <4>1. m \in 0..L /\ c(m) >= n /\ ~(c(m - 1) >= n)
        BY <3>3, <3>4
      <4> HIDE DEF c, Far, K, N
      <4>2. c(m - 1) \in Nat /\ c(m) \in Nat /\ n \in Nat
        BY <3>3, <4>1, <1>2
      <4> QED
        BY <4>1, <4>2
    <3>6. table[m] \notin gone /\ c(m) = n
      <4> HIDE DEF c
      <4> QED
        BY <3>3, <3>5, <1>6
    <3> QED
      BY <3>3, <3>6
  <2> QED
    BY <2>1
<1>8. \A n \in 1..N : Nth(n) \in K(L) /\ c(Nth(n)) = n
  BY <1>7
<1>9. W = [n \in 1..N |-> table[Nth(n)]] /\ N \in Nat
  BY <1>1, <1>2 DEF Without
<1>10. W \in Seq(S) /\ Len(W) = N
  <2>1. \A n \in 1..N : table[Nth(n)] \in S
    BY <1>8, <1>1
  <2> HIDE DEF N, Nth, W
  <2> QED
    BY <2>1, <1>9
<1>11. Keeps(table, gone, W, At)
  <2>1. At \in [1..N -> 1..L]
    BY <1>8
  <2>2. ASSUME NEW n \in 1..N PROVE W[n] = table[At[n]] /\ W[n] \notin gone
    <3>1. W[n] = table[Nth(n)] /\ At[n] = Nth(n) /\ Nth(n) \in K(L)
      BY <1>8, <1>9
    <3> QED
      BY <3>1
  <2>3. ASSUME NEW m \in 1..N, NEW n \in 1..N, m < n PROVE At[m] < At[n]
    <3>1. /\ At[m] = Nth(m) /\ Nth(m) \in K(L) /\ c(Nth(m)) = m
          /\ At[n] = Nth(n) /\ Nth(n) \in K(L) /\ c(Nth(n)) = n
      BY <1>8
    <3>2. At[m] \in 0..L /\ At[n] \in 0..L
      BY <3>1
    <3>3. ~(At[n] <= At[m])
      <4> HIDE DEF c, Nth, At, K, N
      <4> QED
        BY <3>1, <3>2, <1>4, <2>3
    <3> QED
      BY <3>2, <3>3
  <2>4. ASSUME NEW i \in 1..L, table[i] \notin gone PROVE \E n \in 1..N : At[n] = i
    <3>1. i \in K(L) /\ i \in 0..L /\ L \in 0..L /\ 0 \in 0..L
      BY <2>4, <1>1
    <3>2. c(i) \in 1..N
      <4>1. 0 < c(i)
        BY <3>1, <1>3, <1>5
      <4>2. c(i) <= c(L)
        BY <3>1, <1>4
      <4>3. c(i) \in Nat /\ c(L) \in Nat
        BY <3>1, <1>2
      <4> HIDE DEF c
      <4> QED
        BY <4>1, <4>2, <4>3
    <3>3. /\ At[c(i)] = Nth(c(i)) /\ Nth(c(i)) \in K(L) /\ c(Nth(c(i))) = c(i)
      BY <3>2, <1>8
    <3>4. Nth(c(i)) = i
      <4> DEFINE k == Nth(c(i))
      <4>1. k \in K(L) /\ k \in 0..L /\ c(k) = c(i)
        BY <3>3
      <4>2. c(i) \in Nat
        BY <3>1, <1>2
      <4>3. ~(k < i) /\ ~(i < k)
        <5> HIDE DEF k, c, K
        <5> QED
          BY <3>1, <4>1, <4>2, <1>5
      <4> QED
        BY <4>1, <4>3
    <3> QED
      BY <3>2, <3>3, <3>4
  <2> QED
    BY <2>1, <2>2, <2>3, <2>4, <1>10 DEF Keeps
<1> QED
  BY <1>10, <1>11

\* A table of events: no event is there twice, and what is scanned is counted.
EventTable ==
  {t \in Seq(EventRow) :
     IsInjective(t) /\ \A i \in DOMAIN t : t[i].kind = "scanned" => t[i].content \in Nat}

\* The rows of two sequences, one after the other.
LEMMA ToSetJoined ==
  ASSUME NEW S, NEW t \in Seq(S), NEW u \in Seq(S)
  PROVE  ToSet(t \o u) = ToSet(t) \cup ToSet(u)
<1> DEFINE w == t \o u
<1>1. /\ DOMAIN t = 1..Len(t) /\ DOMAIN u = 1..Len(u) /\ DOMAIN w = 1..(Len(t) + Len(u))
      /\ Len(t) \in Nat /\ Len(u) \in Nat
  OBVIOUS
<1>2. /\ \A i \in DOMAIN w : w[i] = IF i <= Len(t) THEN t[i] ELSE u[i - Len(t)]
      /\ \A i \in DOMAIN t : i \in DOMAIN w /\ w[i] = t[i]
      /\ \A i \in DOMAIN u : i + Len(t) \in DOMAIN w /\ w[i + Len(t)] = u[i]
  BY <1>1
<1> HIDE DEF w
<1>3. ToSet(w) = ToSet(t) \cup ToSet(u)
  BY <1>1, <1>2 DEF ToSet
<1> QED
  BY <1>3 DEF w

\* Two tables with no row in common, one after the other.
LEMMA JoinedTable ==
  ASSUME NEW t \in EventTable, NEW u \in EventTable, ToSet(t) \cap ToSet(u) = {}
  PROVE  t \o u \in EventTable /\ ToSet(t \o u) = ToSet(t) \cup ToSet(u)
<1> DEFINE w == t \o u
<1>1. /\ t \in Seq(EventRow) /\ u \in Seq(EventRow) /\ w \in Seq(EventRow)
      /\ DOMAIN t = 1..Len(t) /\ DOMAIN u = 1..Len(u) /\ DOMAIN w = 1..(Len(t) + Len(u))
      /\ Len(t) \in Nat /\ Len(u) \in Nat /\ Len(w) = Len(t) + Len(u)
  BY DEF EventTable
<1>2. /\ \A i \in DOMAIN w : w[i] = IF i <= Len(t) THEN t[i] ELSE u[i - Len(t)]
      /\ \A i \in DOMAIN t : i \in DOMAIN w /\ w[i] = t[i]
      /\ \A i \in DOMAIN u : i + Len(t) \in DOMAIN w /\ w[i + Len(t)] = u[i]
  BY <1>1
<1> HIDE DEF w
<1>3. ToSet(w) = ToSet(t) \cup ToSet(u)
  BY <1>1, ToSetJoined DEF w
<1>4. IsInjective(w)
  <2>1. ASSUME NEW a \in DOMAIN w, NEW b \in DOMAIN w, w[a] = w[b] PROVE a = b
    <3>1. a \in Nat /\ b \in Nat
      BY <1>1
    <3>2. CASE a <= Len(t) /\ b <= Len(t)
      BY <1>1, <1>2, <2>1, <3>2 DEF EventTable, IsInjective
    <3>3. CASE ~(a <= Len(t)) /\ ~(b <= Len(t))
      <4>1. a - Len(t) \in DOMAIN u /\ b - Len(t) \in DOMAIN u
        BY <1>1, <3>1, <3>3
      <4>2. u[a - Len(t)] = u[b - Len(t)]
        BY <1>2, <2>1, <3>3
      <4>3. a - Len(t) = b - Len(t)
        BY <4>1, <4>2 DEF EventTable, IsInjective
      <4> QED
        BY <1>1, <3>1, <4>3
    <3>4. CASE a <= Len(t) /\ ~(b <= Len(t))
      <4>1. a \in DOMAIN t /\ b - Len(t) \in DOMAIN u
        BY <1>1, <3>1, <3>4
      <4>2. t[a] = u[b - Len(t)]
        BY <1>2, <2>1, <3>4
      <4> QED
        BY <4>1, <4>2 DEF ToSet
    <3>5. CASE ~(a <= Len(t)) /\ b <= Len(t)
      <4>1. b \in DOMAIN t /\ a - Len(t) \in DOMAIN u
        BY <1>1, <3>1, <3>5
      <4>2. t[b] = u[a - Len(t)]
        BY <1>2, <2>1, <3>5
      <4> QED
        BY <4>1, <4>2 DEF ToSet
    <3> QED
      BY <3>2, <3>3, <3>4, <3>5
  <2> QED
    BY <2>1 DEF IsInjective
<1>5. ASSUME NEW i \in DOMAIN w, w[i].kind = "scanned" PROVE w[i].content \in Nat
  <2>1. (\E a \in DOMAIN t : w[i] = t[a]) \/ (\E a \in DOMAIN u : w[i] = u[a])
    BY <1>3 DEF ToSet
  <2> QED
    BY <1>5, <2>1 DEF EventTable
<1>6. w \in EventTable
  BY <1>1, <1>4, <1>5 DEF EventTable
<1> QED
  BY <1>3, <1>6 DEF w

\* What Without leaves of a table is a table.
LEMMA WithoutTable ==
  ASSUME NEW table \in EventTable, NEW gone
  PROVE  /\ Without(table, gone) \in EventTable
         /\ ToSet(Without(table, gone)) = ToSet(table) \ gone
<1> DEFINE W == Without(table, gone)
<1>1. table \in Seq(EventRow) /\ DOMAIN table = 1..Len(table)
  BY DEF EventTable
<1>2. W \in Seq(EventRow) /\ \E at : Keeps(table, gone, W, at)
  BY <1>1, WithoutKeeps
<1>3. PICK at : Keeps(table, gone, W, at)
  BY <1>2
<1> HIDE DEF W
<1>4. DOMAIN W = 1..Len(W) /\ Len(W) \in Nat
  BY <1>2
<1>5. \A n \in DOMAIN W : at[n] \in DOMAIN table /\ W[n] = table[at[n]] /\ W[n] \notin gone
  BY <1>1, <1>3, <1>4 DEF Keeps
<1>6. IsInjective(W)
  <2>1. ASSUME NEW m \in DOMAIN W, NEW n \in DOMAIN W, W[m] = W[n] PROVE m = n
    <3>1. at[m] = at[n]
      BY <1>5, <2>1 DEF EventTable, IsInjective
    <3>2. ~(m < n) /\ ~(n < m)
      <4>1. at[m] \in Nat /\ at[n] \in Nat
        BY <1>1, <1>5
      <4>2. ~(at[m] < at[n]) /\ ~(at[n] < at[m])
        BY <3>1, <4>1
      <4> QED
        BY <1>3, <1>4, <4>2 DEF Keeps
    <3> QED
      BY <1>4, <3>2
  <2> QED
    BY <2>1 DEF IsInjective
<1>7. W \in EventTable
  BY <1>2, <1>5, <1>6 DEF EventTable
<1>8. ToSet(W) = ToSet(table) \ gone
  <2>1. ASSUME NEW e \in ToSet(table), e \notin gone PROVE e \in ToSet(W)
    <3>1. PICK i \in DOMAIN table : e = table[i]
      BY DEF ToSet
    <3>2. PICK n \in DOMAIN W : at[n] = i
      BY <1>1, <1>3, <1>4, <2>1, <3>1 DEF Keeps
    <3> QED
      BY <1>5, <3>1, <3>2 DEF ToSet
  <2>2. ASSUME NEW e \in ToSet(W) PROVE e \in ToSet(table) /\ e \notin gone
    BY <1>5 DEF ToSet
  <2> QED
    BY <2>1, <2>2
<1> QED
  BY <1>7, <1>8 DEF W

\* INSERT OR REPLACE: no event is lost, and the new ones are there.
LEMMA InsertedTable ==
  ASSUME NEW table \in EventTable, NEW es \in EventTable
  PROVE  /\ Inserted(table, es) \in EventTable
         /\ ToSet(Inserted(table, es)) = ToSet(table) \cup ToSet(es)
<1>1. /\ Without(table, ToSet(es)) \in EventTable
      /\ ToSet(Without(table, ToSet(es))) = ToSet(table) \ ToSet(es)
  BY WithoutTable
<1> QED
  BY <1>1, JoinedTable DEF Inserted

\* The server's INSERT OR IGNORE.
LEMMA ReceivedTable ==
  ASSUME NEW table \in EventTable, NEW es \in EventTable
  PROVE  /\ Received(table, es) \in EventTable
         /\ ToSet(Received(table, es)) = ToSet(table) \cup ToSet(es)
<1>1. /\ Without(es, ToSet(table)) \in EventTable
      /\ ToSet(Without(es, ToSet(table))) = ToSet(es) \ ToSet(table)
  BY WithoutTable
<1> QED
  BY <1>1, JoinedTable DEF Received

-----------------------------------------------------------------------------
(* What the views show *)

\* The places of a table with an event of a session and a kind.
Places(t, s, kind) == {i \in DOMAIN t : t[i].of = s /\ t[i].kind = kind}

\* Where there are some, there is a last one, and the views show it.
LEMMA LatestIs ==
  ASSUME NEW t \in EventTable, NEW s, NEW kind, Places(t, s, kind) # {}
  PROVE  \E m \in Places(t, s, kind) :
           /\ Latest(t, s, kind) = t[m].content
           /\ \A i \in Places(t, s, kind) : i <= m
<1>1. DOMAIN t = 1..Len(t) /\ Len(t) \in Nat
  BY DEF EventTable
<1> DEFINE at == Places(t, s, kind)
<1>2. at \in SUBSET (0..Len(t))
  BY <1>1 DEF Places
<1>3. Latest(t, s, kind) = t[Max(at)].content
  BY DEF Latest, Places
<1> HIDE DEF at
<1>4. Max(at) \in at /\ \A i \in at : i <= Max(at)
  BY <1>1, <1>2, MaxInInterval DEF at
<1> QED
  BY <1>3, <1>4 DEF at

\* Where there are none, they show none.
LEMMA LatestOfNothing ==
  ASSUME NEW t, NEW s, NEW kind, Places(t, s, kind) = {}
  PROVE  Latest(t, s, kind) = None
BY DEF Latest, Places

\* What is at the last place is what they show.
LEMMA LatestAt ==
  ASSUME NEW t \in EventTable, NEW s, NEW kind, NEW m \in Places(t, s, kind),
         \A i \in Places(t, s, kind) : i <= m
  PROVE  Latest(t, s, kind) = t[m].content
<1>1. DOMAIN t \subseteq Nat
  BY DEF EventTable
<1>2. PICK n \in Places(t, s, kind) :
        Latest(t, s, kind) = t[n].content /\ \A i \in Places(t, s, kind) : i <= n
  BY LatestIs
<1>3. m = n
  BY <1>1, <1>2 DEF Places
<1> QED
  BY <1>2, <1>3

\* The places of two tables one after the other.
LEMMA PlacesJoined ==
  ASSUME NEW t \in EventTable, NEW u \in EventTable, NEW s, NEW kind
  PROVE  \A i \in DOMAIN (t \o u) :
           /\ i \in Nat
           /\ i <= Len(t) => /\ i \in DOMAIN t /\ (t \o u)[i] = t[i]
                             /\ i \in Places(t \o u, s, kind) <=> i \in Places(t, s, kind)
           /\ i > Len(t) => /\ i - Len(t) \in DOMAIN u /\ (t \o u)[i] = u[i - Len(t)]
                            /\ i \in Places(t \o u, s, kind)
                                <=> i - Len(t) \in Places(u, s, kind)
<1> DEFINE w == t \o u
<1>1. /\ t \in Seq(EventRow) /\ u \in Seq(EventRow)
      /\ DOMAIN t = 1..Len(t) /\ DOMAIN u = 1..Len(u) /\ DOMAIN w = 1..(Len(t) + Len(u))
      /\ Len(t) \in Nat /\ Len(u) \in Nat
  BY DEF EventTable
<1>2. \A i \in DOMAIN w : w[i] = IF i <= Len(t) THEN t[i] ELSE u[i - Len(t)]
  BY <1>1
<1> HIDE DEF w
<1>3. ASSUME NEW i \in DOMAIN w
      PROVE  /\ i \in Nat
             /\ i <= Len(t) => /\ i \in DOMAIN t /\ w[i] = t[i]
                               /\ i \in Places(w, s, kind) <=> i \in Places(t, s, kind)
             /\ i > Len(t) => /\ i - Len(t) \in DOMAIN u /\ w[i] = u[i - Len(t)]
                              /\ i \in Places(w, s, kind) <=> i - Len(t) \in Places(u, s, kind)
  <2>1. i \in Nat
    BY <1>1
  <2>2. ASSUME i <= Len(t)
        PROVE  /\ i \in DOMAIN t /\ w[i] = t[i]
               /\ i \in Places(w, s, kind) <=> i \in Places(t, s, kind)
    <3>1. i \in DOMAIN t /\ w[i] = t[i]
      BY <1>1, <1>2, <2>2
    <3> QED
      BY <3>1 DEF Places
  <2>3. ASSUME i > Len(t)
        PROVE  /\ i - Len(t) \in DOMAIN u /\ w[i] = u[i - Len(t)]
               /\ i \in Places(w, s, kind) <=> i - Len(t) \in Places(u, s, kind)
    <3>1. i - Len(t) \in DOMAIN u /\ w[i] = u[i - Len(t)]
      BY <1>1, <1>2, <2>1, <2>3
    <3> QED
      BY <3>1 DEF Places
  <2> QED
    BY <2>1, <2>2, <2>3
<1> QED
  BY <1>3 DEF w

\* The later of two tables decides, if it says anything.
LEMMA LatestJoined ==
  ASSUME NEW t \in EventTable, NEW u \in EventTable, NEW s, NEW kind,
         ToSet(t) \cap ToSet(u) = {}
  PROVE  Latest(t \o u, s, kind) =
           IF Places(u, s, kind) = {} THEN Latest(t, s, kind) ELSE Latest(u, s, kind)
<1> DEFINE w == t \o u
<1>1. w \in EventTable
  BY JoinedTable
<1>2. /\ DOMAIN t = 1..Len(t) /\ DOMAIN u = 1..Len(u) /\ DOMAIN w = 1..(Len(t) + Len(u))
      /\ Len(t) \in Nat /\ Len(u) \in Nat
  BY DEF EventTable
<1>3. \A i \in DOMAIN w :
        /\ i \in Nat
        /\ i <= Len(t) => /\ w[i] = t[i]
                          /\ i \in Places(w, s, kind) <=> i \in Places(t, s, kind)
        /\ i > Len(t) => /\ w[i] = u[i - Len(t)]
                         /\ i \in Places(w, s, kind) <=> i - Len(t) \in Places(u, s, kind)
  BY PlacesJoined
<1> HIDE DEF w
<1>4. CASE Places(u, s, kind) # {}
  <2>1. PICK m \in Places(u, s, kind) :
          Latest(u, s, kind) = u[m].content /\ \A i \in Places(u, s, kind) : i <= m
    BY <1>4, LatestIs
  <2>2. m \in 1..Len(u) /\ m + Len(t) \in DOMAIN w /\ m + Len(t) > Len(t) /\ (m + Len(t)) - Len(t) = m
    BY <1>2 DEF Places
  <2>3. m + Len(t) \in Places(w, s, kind) /\ w[m + Len(t)] = u[m]
    BY <1>3, <2>2
  <2>4. ASSUME NEW i \in Places(w, s, kind) PROVE i <= m + Len(t)
    <3>1. i \in DOMAIN w /\ i \in Nat
      BY <1>2 DEF Places
    <3>2. i > Len(t) => i - Len(t) <= m
      BY <1>3, <2>1, <3>1, Zenon
    <3> QED
      BY <1>2, <2>2, <3>1, <3>2
  <2>5. Latest(w, s, kind) = w[m + Len(t)].content
    BY <1>1, <2>3, <2>4, LatestAt
  <2> QED
    BY <1>4, <2>1, <2>3, <2>5, Zenon DEF w
<1>5. CASE Places(u, s, kind) = {}
  <2>1. Places(w, s, kind) = Places(t, s, kind)
    <3>1. ASSUME NEW i \in Places(w, s, kind) PROVE i \in Places(t, s, kind)
      <4>1. i \in DOMAIN w /\ i \in Nat
        BY <1>2 DEF Places
      <4>2. ~(i > Len(t))
        BY <1>3, <1>5, <4>1, Zenon
      <4>3. i <= Len(t)
        BY <1>2, <4>1, <4>2
      <4> QED
        BY <1>3, <4>1, <4>3, Zenon
    <3>2. ASSUME NEW i \in Places(t, s, kind) PROVE i \in Places(w, s, kind)
      <4>1. i \in DOMAIN w /\ i <= Len(t)
        BY <1>2 DEF Places
      <4> QED
        BY <1>3, <4>1
    <3> QED
      BY <3>1, <3>2
  <2>2. CASE Places(t, s, kind) = {}
    BY <1>5, <2>1, <2>2, LatestOfNothing DEF w
  <2>3. CASE Places(t, s, kind) # {}
    <3>1. PICK m \in Places(t, s, kind) :
            Latest(t, s, kind) = t[m].content /\ \A i \in Places(t, s, kind) : i <= m
      BY <2>3, LatestIs
    <3>2. m \in DOMAIN w /\ m <= Len(t)
      BY <1>2 DEF Places
    <3>3. m \in Places(w, s, kind) /\ w[m] = t[m]
      BY <1>3, <3>2
    <3>4. Latest(w, s, kind) = w[m].content
      BY <1>1, <2>1, <3>1, <3>3, LatestAt
    <3> QED
      BY <1>5, <3>1, <3>3, <3>4 DEF w
  <2> QED
    BY <2>2, <2>3
<1> QED
  BY <1>4, <1>5

\* Rows of others that are gone do not change what is shown.
LEMMA LatestWithout ==
  ASSUME NEW t \in EventTable, NEW gone, NEW s, NEW kind,
         \A i \in Places(t, s, kind) : t[i] \notin gone
  PROVE  Latest(Without(t, gone), s, kind) = Latest(t, s, kind)
<1> DEFINE W == Without(t, gone)
<1>1. t \in Seq(EventRow) /\ W \in EventTable
  BY WithoutTable DEF EventTable
<1>2. PICK at : Keeps(t, gone, W, at)
  BY <1>1, WithoutKeeps
<1> HIDE DEF W
<1>3. DOMAIN t = 1..Len(t) /\ DOMAIN W = 1..Len(W)
  BY <1>1 DEF EventTable
<1>4. \A n \in DOMAIN W : /\ at[n] \in DOMAIN t /\ W[n] = t[at[n]]
                          /\ n \in Places(W, s, kind) <=> at[n] \in Places(t, s, kind)
  BY <1>2, <1>3 DEF Keeps, Places
<1>5. \A i \in Places(t, s, kind) : \E n \in Places(W, s, kind) : at[n] = i
  <2>1. ASSUME NEW i \in Places(t, s, kind) PROVE \E n \in Places(W, s, kind) : at[n] = i
    <3>1. i \in DOMAIN t /\ t[i] \notin gone
      BY DEF Places
    <3>2. PICK n \in DOMAIN W : at[n] = i
      BY <1>2, <1>3, <3>1 DEF Keeps
    <3> QED
      BY <1>4, <3>2
  <2> QED
    BY <2>1
<1>6. CASE Places(t, s, kind) = {}
  <2>0. Places(W, s, kind) \subseteq DOMAIN W
    BY Zenon DEF Places
  <2>1. Places(W, s, kind) = {}
    BY <1>4, <1>6, <2>0, Zenon
  <2> QED
    BY <1>6, <2>1, LatestOfNothing DEF W
<1>7. CASE Places(t, s, kind) # {}
  <2>1. PICK m \in Places(t, s, kind) :
          Latest(t, s, kind) = t[m].content /\ \A i \in Places(t, s, kind) : i <= m
    BY <1>7, LatestIs
  <2>2. PICK n \in Places(W, s, kind) : at[n] = m
    BY <1>5, <2>1
  <2>3. ASSUME NEW k \in Places(W, s, kind) PROVE k <= n
    <3>0. k \in DOMAIN W /\ n \in DOMAIN W
      BY Zenon DEF Places
    <3>1. k \in DOMAIN W /\ n \in DOMAIN W /\ at[k] \in Places(t, s, kind)
      BY <1>4, <3>0, Zenon
    <3>2. at[k] <= at[n] /\ at[k] \in Nat /\ at[n] \in Nat
      BY <1>3, <1>4, <2>1, <2>2, <3>1
    <3>3. ~(n < k)
      BY <1>2, <1>3, <3>1, <3>2 DEF Keeps
    <3> QED
      BY <1>3, <3>1, <3>3
  <2>4. Latest(W, s, kind) = W[n].content
    BY <1>1, <2>2, <2>3, LatestAt DEF W
  <2>5. n \in DOMAIN W
    BY DEF Places
  <2> QED
    BY <1>4, <2>1, <2>2, <2>4, <2>5 DEF W
<1> QED
  BY <1>6, <1>7

-----------------------------------------------------------------------------
(* The events of a session *)

\* What is written is a table of events of the session, one of a kind, with
\* what its transcript says.
LEMMA EventsOfAre ==
  ASSUME NEW s \in Session, NEW r \in IndexLine, NEW n \in Nat \cup {None}
  PROVE  /\ EventsOf(s, r, n) \in EventTable
         /\ \A i \in DOMAIN EventsOf(s, r, n) : EventsOf(s, r, n)[i].of = s
         /\ \A i, j \in DOMAIN EventsOf(s, r, n) :
              EventsOf(s, r, n)[i].kind = EventsOf(s, r, n)[j].kind => i = j
         /\ \E i \in DOMAIN EventsOf(s, r, n) :
              EventsOf(s, r, n)[i] = Event(s, "scanned", StatsOf(n))
<1> DEFINE e1 == Event(s, "started", None)
           e2 == Event(s, "ended", r.ended)
           e3 == Event(s, "pr", PROf(r))
           e4 == Event(s, "scanned", StatsOf(n))
           es == EventsOf(s, r, n)
<1>1. /\ e1.of = s /\ e1.kind = "started"
      /\ e2.of = s /\ e2.kind = "ended"
      /\ e3.of = s /\ e3.kind = "pr"
      /\ e4.of = s /\ e4.kind = "scanned" /\ e4.content = StatsOf(n)
  BY DEF Event
<1>2. StatsOf(n) \in Nat
  BY DEF StatsOf
<1>3. {e1, e2, e3, e4} \subseteq EventRow
  <2>1. {None, r.ended, PROf(r), StatsOf(n)} \subseteq Content
    BY <1>2 DEF Content
  <2>2. \A k \in Kind, c \in Content : Event(s, k, c) \in EventRow
    BY DEF Event, EventRow
  <2> QED
    BY <2>1, <2>2 DEF Kind
<1>4. CASE r.ended # None
  <2>1. es = (<<e1>> \o <<e2>>) \o <<e3, e4>>
    BY <1>4 DEF EventsOf
  <2> HIDE DEF e1, e2, e3, e4, es
  <2>2. /\ es \in Seq(EventRow) /\ Len(es) = 4
        /\ es[1] = e1 /\ es[2] = e2 /\ es[3] = e3 /\ es[4] = e4
    BY <1>3, <2>1
  <2>3. DOMAIN es = {1, 2, 3, 4}
    BY <2>2
  <2>4. \A i, j \in DOMAIN es : es[i].kind = es[j].kind => i = j
    BY <1>1, <2>2, <2>3
  <2>5. \A i \in DOMAIN es : es[i].kind = "scanned" => es[i].content \in Nat
    BY <1>1, <1>2, <2>2, <2>3
  <2>6. es \in EventTable
    BY <2>2, <2>4, <2>5 DEF EventTable, IsInjective
  <2>7. \A i \in DOMAIN es : es[i].of = s
    BY <1>1, <2>2, <2>3
  <2>8. 4 \in DOMAIN es /\ es[4] = e4
    BY <2>2, <2>3
  <2> QED
    BY <2>4, <2>6, <2>7, <2>8 DEF es, e4
<1>5. CASE r.ended = None
  <2>1. es = (<<e1>> \o <<>>) \o <<e3, e4>>
    BY <1>5 DEF EventsOf
  <2> HIDE DEF e1, e2, e3, e4, es
  <2>2. /\ es \in Seq(EventRow) /\ Len(es) = 3
        /\ es[1] = e1 /\ es[2] = e3 /\ es[3] = e4
    BY <1>3, <2>1
  <2>3. DOMAIN es = {1, 2, 3}
    BY <2>2
  <2>4. \A i, j \in DOMAIN es : es[i].kind = es[j].kind => i = j
    BY <1>1, <2>2, <2>3
  <2>5. \A i \in DOMAIN es : es[i].kind = "scanned" => es[i].content \in Nat
    BY <1>1, <1>2, <2>2, <2>3
  <2>6. es \in EventTable
    BY <2>2, <2>4, <2>5 DEF EventTable, IsInjective
  <2>7. \A i \in DOMAIN es : es[i].of = s
    BY <1>1, <2>2, <2>3
  <2>8. 3 \in DOMAIN es /\ es[3] = e4
    BY <2>2, <2>3
  <2> QED
    BY <2>4, <2>6, <2>7, <2>8 DEF es, e4
<1> QED
  BY <1>4, <1>5

\* The lines an agent has now are lines of the index, and each names a session
\* of the agent or none.
LEMMA LinesAre ==
  ASSUME NEW a \in Agent, index[a] \in DOMAIN IndexOf[a]
  PROVE  /\ LinesOf(a) \in Seq(IndexLine)
         /\ \A s \in SessionsIn(LinesOf(a)) : s \in Session /\ AgentOf[s] = a
<1>1. LinesOf(a) \in Seq(IndexLine)
  <2>1. IndexOf[a] \in Seq(Seq(IndexLine))
    BY StoreAssumption
  <2> QED
    BY <2>1 DEF LinesOf
<1>2. \A i \in DOMAIN LinesOf(a) :
        LinesOf(a)[i].id \in {None} \cup {s \in Session : AgentOf[s] = a}
  BY StoreAssumption DEF LinesOf
<1> QED
  BY <1>1, <1>2 DEF SessionsIn

\* A session of the lines has a last line.
LEMMA LastLineIs ==
  ASSUME NEW lines \in Seq(IndexLine), NEW s \in SessionsIn(lines)
  PROVE  LastLine(lines, s) \in IndexLine
<1> DEFINE at == {i \in DOMAIN lines : lines[i].id = s}
<1>1. DOMAIN lines = 1..Len(lines) /\ Len(lines) \in Nat
  OBVIOUS
<1>2. at \in SUBSET (0..Len(lines)) /\ at # {}
  BY <1>1 DEF SessionsIn
<1>3. LastLine(lines, s) = lines[Max(at)]
  BY DEF LastLine
<1>4. at \subseteq DOMAIN lines
  OBVIOUS
<1> HIDE DEF at
<1>5. Max(at) \in at
  BY <1>1, <1>2, MaxInInterval
<1>6. lines[Max(at)] \in IndexLine
  BY <1>1, <1>4, <1>5
<1> QED
  BY <1>3, <1>6

-----------------------------------------------------------------------------
(* Types *)

Phases ==
  {"idle", "hash", "drop_legacy", "drop_events", "drop_meta", "create_meta",
   "create_events", "drop_views", "create_views", "write_hash", "write"}

RunSet ==
  [todo : Seq(Agent), rebuild : BOOLEAN, lines : Seq(IndexLine), left : SUBSET Session,
   pending : EventTable, wrote : Seq(EventRow)]

SourcesTyped ==
  /\ index \in [Agent -> Nat] /\ \A a \in Agent : index[a] \in DOMAIN IndexOf[a]
  /\ said \in [Session -> Nat \cup {None}]
  /\ \A s \in Session : said[s] \in 0..MaxSaid[s] \cup {None}

DatabaseTyped ==
  /\ hash \in {None, "unset", "old", "current"}
  /\ events \in EventTable \cup {None}
  /\ views \in BOOLEAN
  /\ serial \in 0..MaxSerial

SinkTyped == server \in EventTable /\ cursor \in 0..MaxSerial

RunsTyped ==
  /\ pc \in [Syncer -> Phases]
  /\ run \in [Syncer -> RunSet]
  /\ \A p \in Syncer : run[p].left \subseteq SessionsIn(run[p].lines)
  /\ \A p \in Syncer : pc[p] = "idle" => run[p] = IdleRun

\* Only who writes has the lock, and then there is a table.
LockTyped ==
  /\ lock \in Syncer \cup {None}
  /\ lock # None => pc[lock] = "write" /\ events # None

TypeInv == SourcesTyped /\ DatabaseTyped /\ SinkTyped /\ RunsTyped /\ LockTyped

LEMMA TypeInvImpliesTypeOK == TypeInv => TypeOK
<1> SUFFICES ASSUME TypeInv PROVE TypeOK
  OBVIOUS
<1>1. lock # None => lock \in Syncer /\ run[lock].pending \in EventTable
  BY DEF TypeInv, LockTyped, RunsTyped, RunSet
<1> QED
  BY <1>1 DEF TypeInv, SourcesTyped, DatabaseTyped, SinkTyped, LockTyped, EventTable, TypeOK

\* A table is never mistaken for none.
LEMMA TableIsThere ==
  ASSUME NEW t \in EventTable
  PROVE  t # None
BY NoTableAssumption DEF EventTable

\* An empty table is a table.
LEMMA EmptyTable == <<>> \in EventTable /\ ToSet(<<>>) = {}
BY DEF EventTable, IsInjective, ToSet

LEMMA IdleRunTyped == IdleRun \in RunSet /\ IdleRun.left = {} /\ IdleRun.pending = <<>>
BY EmptyTable DEF IdleRun, RunSet

LEMMA InitTyped == Init => TypeInv
<1> SUFFICES ASSUME Init PROVE TypeInv
  OBVIOUS
<1>1. SourcesTyped
  <2>1. \A a \in Agent : 1 \in DOMAIN IndexOf[a]
    <3>1. ASSUME NEW a \in Agent PROVE 1 \in DOMAIN IndexOf[a]
      <4>1. IndexOf[a] \in Seq(Seq(IndexLine)) /\ IndexOf[a] # <<>>
        BY StoreAssumption
      <4> QED
        BY <4>1
    <3> QED
      BY <3>1
  <2>2. \A s \in Session : 0 \in 0..MaxSaid[s]
    BY StoreAssumption
  <2> QED
    BY <2>1, <2>2 DEF Init, SourcesTyped
<1>2. MaxSerial \in Nat
  BY StoreAssumption
<1>3. DatabaseTyped
  <2>1. hash \in {None, "old", "current"}
    BY StoreAssumption DEF Init
  <2>2. events \in EventTable \cup {None} /\ views \in BOOLEAN
    BY EmptyTable DEF Init
  <2>3. serial \in 0..MaxSerial
    BY <1>2 DEF Init
  <2> QED
    BY <2>1, <2>2, <2>3 DEF DatabaseTyped
<1>4. SinkTyped
  BY <1>2, <1>3, EmptyTable DEF Init, SinkTyped, DatabaseTyped
<1>5. RunsTyped
  BY IdleRunTyped DEF Init, RunsTyped, Phases
<1>6. LockTyped
  BY DEF Init, LockTyped
<1> QED
  BY <1>1, <1>3, <1>4, <1>5, <1>6 DEF TypeInv

\* A process goes on with a run that fits its phase.
LEMMA MovesTyped ==
  ASSUME TypeInv, NEW p \in Syncer, NEW ph \in Phases, NEW r \in RunSet,
         r.left \subseteq SessionsIn(r.lines), ph = "idle" => r = IdleRun,
         pc' = [pc EXCEPT ![p] = ph], run' = [run EXCEPT ![p] = r]
  PROVE  RunsTyped'
<1>1. pc \in [Syncer -> Phases] /\ run \in [Syncer -> RunSet]
  BY DEF TypeInv, RunsTyped
<1>2. pc' \in [Syncer -> Phases] /\ run' \in [Syncer -> RunSet]
  BY <1>1
<1>3. ASSUME NEW q \in Syncer
      PROVE  /\ run'[q].left \subseteq SessionsIn(run'[q].lines)
             /\ pc'[q] = "idle" => run'[q] = IdleRun
  <2>1. CASE q = p
    BY <1>1, <2>1
  <2>2. CASE q # p
    <3>1. pc'[q] = pc[q] /\ run'[q] = run[q]
      BY <1>1, <2>2
    <3> QED
      BY <3>1 DEF TypeInv, RunsTyped
  <2> QED
    BY <2>1, <2>2
<1> QED
  BY <1>2, <1>3 DEF RunsTyped

\* A process that ends.
LEMMA EndsTyped ==
  ASSUME TypeInv, NEW p \in Syncer, Ends(p)
  PROVE  RunsTyped' /\ (events' # None \/ events' = events => LockTyped')
<1>1. RunsTyped'
  <2>1. "idle" \in Phases
    BY DEF Phases
  <2> QED
    BY <2>1, IdleRunTyped, MovesTyped DEF Ends
<1>2. ASSUME events' # None \/ events' = events PROVE LockTyped'
  <2>1. /\ lock \in Syncer \cup {None} /\ pc \in [Syncer -> Phases]
        /\ lock # None => pc[lock] = "write" /\ events # None
    BY DEF TypeInv, LockTyped, RunsTyped
  <2>2. CASE lock = p \/ lock = None
    <3>1. lock' = None
      BY <2>2 DEF Ends
    <3> QED
      BY <3>1 DEF LockTyped
  <2>3. CASE lock # p /\ lock # None
    <3>1. lock' = lock /\ pc'[lock] = "write"
      BY <2>1, <2>3 DEF Ends
    <3> QED
      BY <1>2, <2>1, <2>3, <3>1 DEF LockTyped
  <2> QED
    BY <2>2, <2>3
<1> QED
  BY <1>1, <1>2

\* A statement of ensureSchema, whose effect on the database is typed.
LEMMA StatementTyped ==
  ASSUME TypeInv, NEW p \in Syncer, NEW from, NEW to \in Phases, to # "idle",
         Statement(p, from, to), DatabaseTyped'
  PROVE  TypeInv'
<1>1. run' = [run EXCEPT ![p] = run[p]] /\ pc' = [pc EXCEPT ![p] = to]
  BY DEF TypeInv, RunsTyped, Statement, Is
<1>2. run[p] \in RunSet /\ run[p].left \subseteq SessionsIn(run[p].lines)
  BY DEF TypeInv, RunsTyped
<1>3. RunsTyped'
  BY <1>1, <1>2, MovesTyped
<1>4. LockTyped'
  BY DEF Statement, LockTyped
<1>5. SourcesTyped' /\ SinkTyped'
  BY DEF TypeInv, Statement, sources, sink, SourcesTyped, SinkTyped
<1> QED
  BY <1>3, <1>4, <1>5 DEF TypeInv

\* The statements and the checks before them.
LEMMA EnsureSchemaTyped ==
  ASSUME TypeInv, NEW p \in Syncer, EnsureSchema(p)
  PROVE  TypeInv'
<1>1. DatabaseTyped /\ MaxSerial \in Nat
  BY StoreAssumption DEF TypeInv
<1>2. Phases \ {"idle"} =
        {"hash", "drop_legacy", "drop_events", "drop_meta", "create_meta",
         "create_events", "drop_views", "create_views", "write_hash", "write"}
  BY DEF Phases
<1>3. CASE CheckHash(p)
  <2>1. SourcesTyped' /\ DatabaseTyped' /\ SinkTyped'
    BY <1>3 DEF TypeInv, CheckHash, sources, database, sink, SourcesTyped, DatabaseTyped, SinkTyped
  <2>2. events' = events /\ pc[p] = "hash"
    BY <1>3 DEF CheckHash, database
  <2>3. CASE Ends(p)
    BY <2>1, <2>2, <2>3, EndsTyped DEF TypeInv
  <2>4. CASE ~Ends(p)
    <3>1. PICK to \in {"write", "drop_views", "drop_legacy"} : Is(p, "hash", to)
      BY <1>3, <2>4 DEF CheckHash
    <3>2. PICK r \in RunSet : /\ run' = [run EXCEPT ![p] = r]
                              /\ r.left = run[p].left /\ r.lines = run[p].lines
      <4>0. run \in [Syncer -> RunSet] /\ run[p] \in RunSet
        BY DEF TypeInv, RunsTyped
      <4>1. CASE run' = run
        <5>1. run' = [run EXCEPT ![p] = run[p]]
          BY <4>0, <4>1
        <5> QED
          BY <4>0, <5>1
      <4>2. CASE run' = [run EXCEPT ![p].rebuild = TRUE]
        <5> DEFINE r == [run[p] EXCEPT !.rebuild = TRUE]
        <5>1. r \in RunSet /\ r.left = run[p].left /\ r.lines = run[p].lines
          BY <4>0 DEF RunSet
        <5>2. run' = [run EXCEPT ![p] = r]
          BY <4>0, <4>2
        <5> QED
          BY <5>1, <5>2
      <4> QED
        BY <1>3, <2>4, <4>1, <4>2 DEF CheckHash
    <3>3. pc' = [pc EXCEPT ![p] = to] /\ to \in Phases /\ to # "idle"
      BY <3>1, <1>2 DEF Is
    <3>4. RunsTyped'
      <4>1. r.left \subseteq SessionsIn(r.lines)
        BY <3>2 DEF TypeInv, RunsTyped
      <4> QED
        BY <3>2, <3>3, <4>1, MovesTyped
    <3>5. LockTyped'
      <4>1. lock' = lock
        BY <1>3, <2>4 DEF CheckHash
      <4>2. lock # p
        BY <2>2, StoreAssumption DEF TypeInv, LockTyped
      <4> QED
        BY <2>2, <3>3, <4>1, <4>2 DEF TypeInv, LockTyped, RunsTyped
    <3> QED
      BY <2>1, <3>4, <3>5 DEF TypeInv
  <2> QED
    BY <2>3, <2>4
<1>4. CASE DropLegacy(p)
  <2>1. DatabaseTyped'
    BY <1>1, <1>4 DEF DropLegacy, DatabaseTyped
  <2> QED
    BY <1>2, <1>4, <2>1, StatementTyped DEF DropLegacy
<1>5. CASE DropEvents(p)
  <2>1. DatabaseTyped'
    BY <1>1, <1>5 DEF DropEvents, DatabaseTyped
  <2> QED
    BY <1>2, <1>5, <2>1, StatementTyped DEF DropEvents
<1>6. CASE DropMeta(p)
  <2>1. DatabaseTyped'
    BY <1>1, <1>6 DEF DropMeta, DatabaseTyped
  <2> QED
    BY <1>2, <1>6, <2>1, StatementTyped DEF DropMeta
<1>7. CASE CreateMeta(p)
  <2>1. DatabaseTyped'
    BY <1>1, <1>7 DEF CreateMeta, DatabaseTyped
  <2> QED
    BY <1>2, <1>7, <2>1, StatementTyped DEF CreateMeta
<1>8. CASE CreateEvents(p)
  <2>1. DatabaseTyped'
    BY <1>1, <1>8, EmptyTable DEF CreateEvents, DatabaseTyped
  <2> QED
    BY <1>2, <1>8, <2>1, StatementTyped DEF CreateEvents
<1>9. CASE DropViews(p)
  <2>1. DatabaseTyped'
    BY <1>1, <1>9 DEF DropViews, DatabaseTyped
  <2> QED
    BY <1>2, <1>9, <2>1, StatementTyped DEF DropViews
<1>10. CASE CreateViews(p)
  <2>1. DatabaseTyped'
    BY <1>1, <1>10 DEF CreateViews, DatabaseTyped
  <2>2. CASE run[p].rebuild
    <3>1. Statement(p, "create_views", "write_hash")
      BY <1>10, <2>2 DEF CreateViews
    <3> QED
      BY <1>2, <2>1, <3>1, StatementTyped
  <2>3. CASE ~run[p].rebuild
    <3>1. Statement(p, "create_views", "write")
      BY <1>10, <2>3 DEF CreateViews
    <3> QED
      BY <1>2, <2>1, <3>1, StatementTyped
  <2> QED
    BY <2>2, <2>3
<1>11. CASE WriteHash(p)
  <2>1. DatabaseTyped'
    BY <1>1, <1>11 DEF WriteHash, DatabaseTyped
  <2> QED
    BY <1>2, <1>11, <2>1, StatementTyped DEF WriteHash
<1>12. CASE StatementFails(p)
  <2>1. SourcesTyped' /\ DatabaseTyped' /\ SinkTyped' /\ events' = events /\ Ends(p)
    BY <1>12 DEF TypeInv, StatementFails, sources, database, sink, SourcesTyped, DatabaseTyped, SinkTyped
  <2> QED
    BY <2>1, EndsTyped DEF TypeInv
<1> QED
  BY <1>3, <1>4, <1>5, <1>6, <1>7, <1>8, <1>9, <1>10, <1>11, <1>12 DEF EnsureSchema

\* What an insert makes of the run and the table it inserts into.
LEMMA InsertMakes ==
  ASSUME TypeInv, NEW p \in Syncer, NEW s \in Session, Insert(p, s)
  PROVE  \E es \in EventTable, table \in EventTable :
           /\ es = EventsOf(s, LastLine(run[p].lines, s), said[s])
           /\ table = IF lock = p THEN run[p].pending ELSE events
           /\ LastLine(run[p].lines, s) \in IndexLine
           /\ Inserted(table, es) \in EventTable
           /\ run' = [run EXCEPT ![p] =
                [run[p] EXCEPT !.pending = Inserted(table, es),
                               !.wrote = run[p].wrote \o es, !.left = run[p].left \ {s}]]
<1>1. run \in [Syncer -> RunSet] /\ run[p] \in RunSet /\ s \in SessionsIn(run[p].lines)
  BY DEF TypeInv, RunsTyped, Insert
<1>2. run[p].lines \in Seq(IndexLine)
  BY <1>1 DEF RunSet
<1>3. LastLine(run[p].lines, s) \in IndexLine
  BY <1>1, <1>2, LastLineIs
<1>4. said[s] \in Nat \cup {None}
  BY DEF TypeInv, SourcesTyped
<1> DEFINE es == EventsOf(s, LastLine(run[p].lines, s), said[s])
           table == IF lock = p THEN run[p].pending ELSE events
<1>5. es \in EventTable
  BY <1>3, <1>4, EventsOfAre
<1>6. table \in EventTable
  BY <1>1 DEF TypeInv, DatabaseTyped, Insert, RunSet
<1>7. run' = [run EXCEPT ![p].pending = Inserted(table, es),
                         ![p].wrote = @ \o es, ![p].left = @ \ {s}]
  BY DEF Insert
<1> HIDE DEF es, table
<1>8. Inserted(table, es) \in EventTable
  BY <1>5, <1>6, InsertedTable
<1>9. run' = [run EXCEPT ![p] =
                [run[p] EXCEPT !.pending = Inserted(table, es),
                               !.wrote = run[p].wrote \o es, !.left = run[p].left \ {s}]]
  BY <1>1, <1>7 DEF RunSet
<1> QED
  BY <1>3, <1>5, <1>6, <1>8, <1>9 DEF es, table

\* The next agent's index.
LEMMA ReadIndexMakes ==
  ASSUME TypeInv, NEW p \in Syncer, ReadIndex(p)
  PROVE  \E a \in Agent :
           /\ a = Head(run[p].todo) /\ run[p].todo # <<>>
           /\ run[p].todo \in Seq(Agent) /\ Tail(run[p].todo) \in Seq(Agent)
           /\ LinesOf(a) \in Seq(IndexLine)
           /\ \A s \in SessionsIn(LinesOf(a)) : s \in Session /\ AgentOf[s] = a
           /\ run' = [run EXCEPT ![p] =
                [run[p] EXCEPT !.lines = LinesOf(a), !.left = SessionsIn(LinesOf(a)),
                               !.todo = Tail(run[p].todo)]]
<1>1. run \in [Syncer -> RunSet] /\ run[p] \in RunSet
  BY DEF TypeInv, RunsTyped
<1>2. run[p].todo \in Seq(Agent) /\ run[p].todo # <<>>
  BY <1>1 DEF RunSet, ReadIndex
<1>3. Head(run[p].todo) \in Agent /\ Tail(run[p].todo) \in Seq(Agent)
  BY <1>2
<1>4. PICK a \in Agent : a = Head(run[p].todo)
  BY <1>3
<1>5. /\ LinesOf(a) \in Seq(IndexLine)
      /\ \A s \in SessionsIn(LinesOf(a)) : s \in Session /\ AgentOf[s] = a
  BY LinesAre DEF TypeInv, SourcesTyped
<1>6. run' = [run EXCEPT ![p].lines = LinesOf(a), ![p].left = SessionsIn(LinesOf(a)),
                         ![p].todo = Tail(@)]
  BY <1>4 DEF ReadIndex
<1>7. run' = [run EXCEPT ![p] =
                [run[p] EXCEPT !.lines = LinesOf(a), !.left = SessionsIn(LinesOf(a)),
                               !.todo = Tail(run[p].todo)]]
  BY <1>1, <1>6 DEF RunSet
<1> QED
  BY <1>2, <1>3, <1>4, <1>5, <1>7

\* A sync-db takes no agent twice.
LEMMA AskedAre ==
  ASSUME NEW agents \in Asked
  PROVE  agents \in Seq(Agent) /\ IsInjective(agents)
<1>1. Cardinality(Agent) \in Nat
  BY StoreAssumption, FS_CardinalityType
<1>2. CASE agents = Detected
  <2>1. /\ agents \in [1..Cardinality(Agent) -> Agent]
        /\ \A i, j \in 1..Cardinality(Agent) : i # j => agents[i] # agents[j]
    BY <1>2, StoreAssumption DEF SetToSeqs
  <2>2. agents \in Seq(Agent)
    BY <1>1, <2>1
  <2>3. DOMAIN agents = 1..Cardinality(Agent)
    BY <2>1
  <2> QED
    BY <2>1, <2>2, <2>3 DEF IsInjective
<1>3. CASE agents \in {<<a>> : a \in Agent}
  <2>1. PICK a \in Agent : agents = <<a>>
    BY <1>3
  <2>2. agents \in Seq(Agent) /\ DOMAIN agents = {1}
    BY <2>1
  <2> QED
    BY <2>2 DEF IsInjective
<1> QED
  BY <1>2, <1>3 DEF Asked

LEMMA BeginTyped ==
  ASSUME TypeInv, NEW p \in Syncer, NEW agents \in Asked, Begin(p, agents)
  PROVE  TypeInv'
<1>1. run \in [Syncer -> RunSet] /\ run[p] = IdleRun /\ pc[p] = "idle"
  BY DEF TypeInv, RunsTyped, Begin, Is
<1>2. agents \in Seq(Agent) /\ IsInjective(agents)
  BY AskedAre
<1> DEFINE r == [IdleRun EXCEPT !.todo = agents]
<1>3. r \in RunSet /\ r.left = {}
  BY <1>2, IdleRunTyped DEF RunSet
<1>4. run' = [run EXCEPT ![p] = r] /\ pc' = [pc EXCEPT ![p] = "hash"]
  BY <1>1 DEF Begin, Is
<1>5. RunsTyped'
  <2>1. "hash" \in Phases
    BY DEF Phases
  <2> HIDE DEF r
  <2>2. r.left \subseteq SessionsIn(r.lines)
    BY <1>3
  <2> QED
    BY <1>3, <1>4, <2>1, <2>2, MovesTyped
<1>6. LockTyped'
  <2>1. lock' = lock /\ lock # p /\ events' = events
    BY <1>1, StoreAssumption DEF Begin, database, TypeInv, LockTyped
  <2> QED
    BY <1>4, <2>1 DEF TypeInv, LockTyped, RunsTyped
<1>7. SourcesTyped' /\ DatabaseTyped' /\ SinkTyped'
  BY DEF TypeInv, Begin, sources, database, sink, SourcesTyped, DatabaseTyped, SinkTyped
<1> QED
  BY <1>5, <1>6, <1>7 DEF TypeInv

LEMMA ReadIndexTyped ==
  ASSUME TypeInv, NEW p \in Syncer, ReadIndex(p)
  PROVE  TypeInv'
<1>1. PICK a \in Agent :
        /\ Tail(run[p].todo) \in Seq(Agent)
        /\ LinesOf(a) \in Seq(IndexLine)
        /\ \A s \in SessionsIn(LinesOf(a)) : s \in Session /\ AgentOf[s] = a
        /\ run' = [run EXCEPT ![p] =
             [run[p] EXCEPT !.lines = LinesOf(a), !.left = SessionsIn(LinesOf(a)),
                            !.todo = Tail(run[p].todo)]]
  BY ReadIndexMakes
<1> DEFINE r == [run[p] EXCEPT !.lines = LinesOf(a), !.left = SessionsIn(LinesOf(a)),
                               !.todo = Tail(run[p].todo)]
<1>2. run[p] \in RunSet /\ pc[p] = "write" /\ pc \in [Syncer -> Phases]
  BY DEF TypeInv, RunsTyped, ReadIndex
<1>3. r \in RunSet /\ r.left \subseteq SessionsIn(r.lines)
  BY <1>1, <1>2 DEF RunSet
<1>4. RunsTyped'
  <2>1. pc' = [pc EXCEPT ![p] = "write"] /\ "write" \in Phases
    BY <1>2 DEF ReadIndex, Phases
  <2>2. run' = [run EXCEPT ![p] = r]
    BY <1>1
  <2> HIDE DEF r
  <2> QED
    BY <1>3, <2>1, <2>2, MovesTyped
<1>5. SourcesTyped' /\ DatabaseTyped' /\ SinkTyped' /\ LockTyped'
  BY DEF TypeInv, ReadIndex, sources, database, sink, SourcesTyped, DatabaseTyped, SinkTyped,
         LockTyped
<1> QED
  BY <1>4, <1>5 DEF TypeInv

LEMMA InsertTyped ==
  ASSUME TypeInv, NEW p \in Syncer, NEW s \in Session, Insert(p, s)
  PROVE  TypeInv'
<1>1. PICK es \in EventTable, table \in EventTable :
        /\ Inserted(table, es) \in EventTable
        /\ run' = [run EXCEPT ![p] =
             [run[p] EXCEPT !.pending = Inserted(table, es),
                            !.wrote = run[p].wrote \o es, !.left = run[p].left \ {s}]]
  BY InsertMakes
<1> DEFINE r == [run[p] EXCEPT !.pending = Inserted(table, es),
                               !.wrote = run[p].wrote \o es, !.left = run[p].left \ {s}]
<1>2. /\ run[p] \in RunSet /\ pc[p] = "write" /\ pc \in [Syncer -> Phases]
      /\ run[p].left \subseteq SessionsIn(run[p].lines)
  BY DEF TypeInv, RunsTyped, Insert
<1>3. r \in RunSet /\ r.left \subseteq SessionsIn(r.lines)
  <2>1. run[p].wrote \o es \in Seq(EventRow)
    BY <1>2 DEF EventTable, RunSet
  <2> QED
    BY <1>1, <1>2, <2>1 DEF RunSet
<1>4. RunsTyped'
  <2>1. pc' = [pc EXCEPT ![p] = "write"] /\ "write" \in Phases
    BY <1>2 DEF Insert, Phases
  <2>2. run' = [run EXCEPT ![p] = r]
    BY <1>1
  <2> HIDE DEF r
  <2> QED
    BY <1>3, <2>1, <2>2, MovesTyped
<1>5. SourcesTyped' /\ DatabaseTyped' /\ SinkTyped'
  BY DEF TypeInv, Insert, sources, database, sink, SourcesTyped, DatabaseTyped, SinkTyped
<1>6. LockTyped'
  BY <1>2 DEF Insert, database, LockTyped
<1> QED
  BY <1>4, <1>5, <1>6 DEF TypeInv

LEMMA CommitTyped ==
  ASSUME TypeInv, NEW p \in Syncer, Commit(p)
  PROVE  TypeInv'
<1>1. Ends(p) /\ hash' = hash /\ views' = views
  BY DEF Commit
<1>2. events' = IF lock = p THEN run[p].pending ELSE events
  BY DEF Commit
<1>3. run[p].pending \in EventTable /\ run[p].wrote \in Seq(EventRow)
  BY DEF TypeInv, RunsTyped, RunSet
<1>4. events' \in EventTable \cup {None} /\ (events' # None \/ events' = events)
  BY <1>2, <1>3, TableIsThere DEF TypeInv, DatabaseTyped
<1>5. serial' \in 0..MaxSerial
  <2>1. serial \in 0..MaxSerial /\ MaxSerial \in Nat
    BY StoreAssumption DEF TypeInv, DatabaseTyped
  <2>2. Len(run[p].wrote) \in Nat
    BY <1>3
  <2>3. serial + Len(run[p].wrote) \in Nat
    BY <2>1, <2>2
  <2> DEFINE S == {MaxSerial, serial + Len(run[p].wrote)}
  <2>4. S \in SUBSET Nat /\ S # {} /\ MaxSerial \in S
    BY <2>1, <2>3
  <2> HIDE DEF S
  <2>5. Min(S) \in S /\ Min(S) <= MaxSerial
    BY <2>4, MinIsLeast
  <2>6. Min(S) \in 0..MaxSerial
    <3>1. Min(S) \in Nat
      BY <2>4, <2>5
    <3> QED
      BY <2>1, <2>5, <3>1
  <2>7. serial' = Min(S) \/ serial' = serial
    BY DEF Commit, S
  <2> QED
    BY <2>1, <2>6, <2>7
<1>6. DatabaseTyped'
  BY <1>1, <1>4, <1>5 DEF TypeInv, DatabaseTyped
<1>7. RunsTyped' /\ LockTyped'
  BY <1>1, <1>4, EndsTyped
<1>8. SourcesTyped' /\ SinkTyped'
  BY DEF TypeInv, Commit, sources, sink, SourcesTyped, SinkTyped
<1> QED
  BY <1>6, <1>7, <1>8 DEF TypeInv

LEMMA FailsTyped ==
  ASSUME TypeInv, NEW p \in Syncer, InsertFails(p) \/ Fail(p)
  PROVE  TypeInv'
<1>1. /\ SourcesTyped' /\ DatabaseTyped' /\ SinkTyped'
      /\ events' = events /\ Ends(p)
  BY DEF TypeInv, InsertFails, Fail, sources, database, sink, SourcesTyped, DatabaseTyped, SinkTyped
<1> QED
  BY <1>1, EndsTyped DEF TypeInv

\* The world around the syncs.
WorldStep ==
  \/ \E a \in Agent : WriteIndex(a)
  \/ \E s \in Session : Say(s) \/ DeleteTranscript(s)
  \/ Flush

LEMMA WorldTyped ==
  ASSUME TypeInv, WorldStep
  PROVE  TypeInv'
<1>1. /\ lock' = lock /\ pc' = pc /\ run' = run
      /\ hash' = hash /\ events' = events /\ views' = views /\ serial' = serial
  BY DEF WorldStep, WriteIndex, Say, DeleteTranscript, Flush, database
<1>2. DatabaseTyped' /\ RunsTyped' /\ LockTyped'
  BY <1>1 DEF TypeInv, DatabaseTyped, RunsTyped, LockTyped
<1>3. SourcesTyped'
  <2>1. CASE \E a \in Agent : WriteIndex(a)
    <3>1. PICK a \in Agent : WriteIndex(a)
      BY <2>1
    <3>2. said' = said /\ index' = [index EXCEPT ![a] = index[a] + 1] /\ index[a] < Len(IndexOf[a])
      BY <3>1 DEF WriteIndex
    <3>3. index[a] + 1 \in DOMAIN IndexOf[a]
      <4>1. IndexOf[a] \in Seq(Seq(IndexLine)) /\ index[a] \in DOMAIN IndexOf[a]
        BY StoreAssumption DEF TypeInv, SourcesTyped
      <4> QED
        BY <3>2, <4>1
    <3> QED
      BY <3>2, <3>3 DEF TypeInv, SourcesTyped
  <2>2. CASE \E s \in Session : Say(s)
    <3>1. PICK s \in Session : Say(s)
      BY <2>2
    <3>2. /\ index' = index /\ said' = [said EXCEPT ![s] = said[s] + 1]
          /\ said[s] # None /\ said[s] < MaxSaid[s]
      BY <3>1 DEF Say
    <3>3. /\ said \in [Session -> Nat \cup {None}]
          /\ \A x \in Session : said[x] \in 0..MaxSaid[x] \cup {None}
          /\ MaxSaid \in [Session -> Nat]
      BY StoreAssumption DEF TypeInv, SourcesTyped
    <3>4. said[s] + 1 \in 0..MaxSaid[s] /\ said[s] + 1 \in Nat
      BY <3>2, <3>3
    <3>5. said' \in [Session -> Nat \cup {None}]
      BY <3>2, <3>3, <3>4
    <3>6. \A x \in Session : said'[x] \in 0..MaxSaid[x] \cup {None}
      BY <3>2, <3>3, <3>4
    <3> QED
      BY <3>2, <3>5, <3>6 DEF TypeInv, SourcesTyped
  <2>3. CASE \E s \in Session : DeleteTranscript(s)
    BY <2>3 DEF TypeInv, SourcesTyped, DeleteTranscript
  <2>4. CASE Flush
    BY <2>4 DEF TypeInv, SourcesTyped, Flush, sources
  <2> QED
    BY <2>1, <2>2, <2>3, <2>4 DEF WorldStep
<1>4. SinkTyped'
  <2>1. CASE Flush
    <3>1. events \in EventTable /\ server \in EventTable /\ serial \in 0..MaxSerial
      BY <2>1 DEF TypeInv, DatabaseTyped, SinkTyped, Flush
    <3> QED
      BY <2>1, <3>1, ReceivedTable DEF SinkTyped, Flush
  <2>2. CASE ~Flush
    <3>1. server' = server /\ cursor' = cursor
      BY <2>2 DEF WorldStep, WriteIndex, Say, DeleteTranscript, sink
    <3> QED
      BY <3>1 DEF TypeInv, SinkTyped
  <2> QED
    BY <2>1, <2>2
<1> QED
  BY <1>2, <1>3, <1>4 DEF TypeInv

LEMMA StepTyped == TypeInv /\ [Next]_vars => TypeInv'
<1> SUFFICES ASSUME TypeInv, [Next]_vars PROVE TypeInv'
  OBVIOUS
<1>1. CASE UNCHANGED vars
  BY <1>1 DEF TypeInv, SourcesTyped, DatabaseTyped, SinkTyped, RunsTyped, LockTyped,
              vars, sources, database, sink
<1>2. ASSUME NEW p \in Syncer, SyncStep(p) \/ Fail(p) \/ \E agents \in Asked : Begin(p, agents)
      PROVE  TypeInv'
  BY <1>2, EnsureSchemaTyped, ReadIndexTyped, InsertTyped, CommitTyped, FailsTyped, BeginTyped
  DEF SyncStep
<1>3. CASE WorldStep
  BY <1>3, WorldTyped
<1> QED
  BY <1>1, <1>2, <1>3 DEF Next, WorldStep

\* Every variable keeps its type, an event_id is unique in every table, and a
\* sync-db that writes has a table to write to.
THEOREM TypeCorrect == Spec => []TypeOK
<1>1. Init => TypeInv
  BY InitTyped
<1>2. TypeInv /\ [Next]_vars => TypeInv'
  BY StepTyped
<1>3. TypeInv => TypeOK
  BY TypeInvImpliesTypeOK
<1> QED
  BY <1>1, <1>2, <1>3, PTL DEF Spec

-----------------------------------------------------------------------------
(* The recorded hash *)

\* The phases a rebuild goes through before it writes the hash.
ToRebuild == {"drop_legacy", "drop_events", "drop_meta", "create_meta", "create_events", "write_hash"}

\* p rebuilds and has the events created again, but not written the hash.
Recreated(p) == run[p].rebuild /\ pc[p] \in {"drop_views", "create_views", "write_hash"}

\* Without a table some process is between its drop and its creation, or no
\* hash says otherwise and none is about to be written.  Of processes that wait
\* to create the hash's table while it is there, one creates the events.
HashInv ==
  /\ events = None => \/ \E p \in Syncer : Rebuilding(p)
                      \/ hash # "current" /\ \A p \in Syncer : ~Recreated(p)
  /\ events = None /\ hash # None /\ (\E p \in Syncer : pc[p] = "create_meta")
       => \E p \in Syncer : pc[p] \in {"drop_meta", "create_events"}
  /\ \A p \in Syncer : pc[p] \in ToRebuild => run[p].rebuild
  /\ \A p \in Syncer : pc[p] \in {"idle", "hash"} => ~run[p].rebuild

LEMMA InitHashed == Init => HashInv
<1> SUFFICES ASSUME Init PROVE HashInv
  OBVIOUS
<1>1. \A p \in Syncer : pc[p] = "idle" /\ ~run[p].rebuild
  BY DEF Init, IdleRun
<1>2. events = None => hash # "current"
  BY EmptyTable, TableIsThere, StoreAssumption DEF Init
<1> QED
  BY <1>1, <1>2 DEF HashInv, Recreated, ToRebuild

\* The others stay where they are.
OthersStay(p) ==
  \A q \in Syncer \ {p} : pc'[q] = pc[q] /\ run'[q].rebuild = run[q].rebuild

LEMMA StatementMoves ==
  ASSUME TypeInv, NEW p \in Syncer, NEW from, NEW to, Statement(p, from, to)
  PROVE  /\ pc[p] = from /\ pc'[p] = to /\ run'[p].rebuild = run[p].rebuild
         /\ OthersStay(p)
BY DEF TypeInv, RunsTyped, Statement, Is, OthersStay

LEMMA EndsMoves ==
  ASSUME TypeInv, NEW p \in Syncer, Ends(p)
  PROVE  pc'[p] = "idle" /\ ~run'[p].rebuild /\ OthersStay(p)
BY DEF TypeInv, RunsTyped, Ends, OthersStay, IdleRun

\* A process at no statement between drop and creation ends or goes on, and no
\* table is gone by it.
LEMMA QuietKeepsHash ==
  ASSUME HashInv, NEW p \in Syncer, OthersStay(p), hash' = hash,
         events' = None => events = None,
         ~Rebuilding(p), pc'[p] # "create_meta",
         Recreated(p)' => Recreated(p),
         pc'[p] \in ToRebuild => run'[p].rebuild,
         pc'[p] \in {"idle", "hash"} => ~run'[p].rebuild
  PROVE  HashInv'
<1>1. \A q \in Syncer : q # p => pc'[q] = pc[q] /\ run'[q].rebuild = run[q].rebuild
  BY DEF OthersStay
<1>2. \A q \in Syncer : Rebuilding(q) => q # p /\ pc'[q] = pc[q] /\ Rebuilding(q)'
  BY <1>1 DEF Rebuilding
<1>3. \A q \in Syncer : Recreated(q)' => Recreated(q)
  BY <1>1 DEF Recreated
<1>4. events' = None => \/ \E q \in Syncer : Rebuilding(q)'
                        \/ hash' # "current" /\ \A q \in Syncer : ~Recreated(q)'
  BY <1>2, <1>3 DEF HashInv
<1>5. ASSUME events' = None, hash' # None, NEW r \in Syncer, pc'[r] = "create_meta"
      PROVE  \E q \in Syncer : pc'[q] \in {"drop_meta", "create_events"}
  <2>1. r # p /\ pc[r] = "create_meta"
    BY <1>1, <1>5
  <2>2. PICK q \in Syncer : pc[q] \in {"drop_meta", "create_events"}
    BY <1>5, <2>1 DEF HashInv
  <2>3. q # p /\ pc'[q] = pc[q]
    BY <1>1, <2>2 DEF Rebuilding
  <2> QED
    BY <2>2, <2>3
<1>6. \A q \in Syncer : /\ pc'[q] \in ToRebuild => run'[q].rebuild
                        /\ pc'[q] \in {"idle", "hash"} => ~run'[q].rebuild
  BY <1>1 DEF HashInv
<1> QED
  BY <1>4, <1>5, <1>6 DEF HashInv

LEMMA CheckHashed ==
  ASSUME TypeInv, HashInv, NEW p \in Syncer, CheckHash(p)
  PROVE  HashInv'
<1>1. pc[p] = "hash" /\ ~run[p].rebuild /\ hash' = hash /\ events' = events
  BY DEF HashInv, CheckHash, database
<1>2. /\ pc \in [Syncer -> Phases] /\ run \in [Syncer -> RunSet] /\ run[p] \in RunSet
  BY DEF TypeInv, RunsTyped
<1>3. CASE Ends(p)
  <2>1. pc'[p] = "idle" /\ ~run'[p].rebuild /\ OthersStay(p)
    BY <1>3, EndsMoves
  <2>2. ~Rebuilding(p) /\ ~Recreated(p)' /\ "idle" \notin ToRebuild
    BY <1>1, <2>1 DEF Rebuilding, Recreated, ToRebuild
  <2> QED
    BY <1>1, <2>1, <2>2, QuietKeepsHash
<1>4. CASE run' = run /\ (Is(p, "hash", "write") \/ Is(p, "hash", "drop_views"))
  <2>1. pc'[p] \in {"write", "drop_views"} /\ ~run'[p].rebuild /\ OthersStay(p)
    BY <1>1, <1>2, <1>4 DEF Is, OthersStay
  <2>2. ~Rebuilding(p) /\ ~Recreated(p)' /\ pc'[p] \notin ToRebuild
    BY <1>1, <2>1 DEF Rebuilding, Recreated, ToRebuild
  <2> QED
    BY <1>1, <2>1, <2>2, QuietKeepsHash
<1>5. CASE Is(p, "hash", "drop_legacy") /\ run' = [run EXCEPT ![p].rebuild = TRUE]
  <2>1. pc'[p] = "drop_legacy" /\ run'[p].rebuild /\ OthersStay(p)
    BY <1>2, <1>5 DEF Is, OthersStay, RunSet
  <2>2. ~Rebuilding(p) /\ ~Recreated(p)'
    BY <1>1, <2>1 DEF Rebuilding, Recreated
  <2> QED
    BY <1>1, <2>1, <2>2, QuietKeepsHash
<1> QED
  BY <1>3, <1>4, <1>5 DEF CheckHash

\* A statement that neither drops nor creates the events or the hash.
LEMMA OtherStatementsHashed ==
  ASSUME TypeInv, HashInv, NEW p \in Syncer,
         DropLegacy(p) \/ DropViews(p) \/ CreateViews(p)
  PROVE  HashInv'
<1>1. hash' = hash /\ events' = events
  BY DEF DropLegacy, DropViews, CreateViews
<1>2. CASE DropLegacy(p)
  <2>1. /\ pc[p] = "drop_legacy" /\ pc'[p] = "drop_events"
        /\ run'[p].rebuild = run[p].rebuild /\ OthersStay(p)
    BY <1>2, StatementMoves DEF DropLegacy
  <2>2. ~Rebuilding(p) /\ ~Recreated(p)' /\ run'[p].rebuild
    BY <2>1 DEF HashInv, Rebuilding, Recreated, ToRebuild
  <2> QED
    BY <1>1, <2>1, <2>2, QuietKeepsHash
<1>3. CASE DropViews(p)
  <2>1. /\ pc[p] = "drop_views" /\ pc'[p] = "create_views"
        /\ run'[p].rebuild = run[p].rebuild /\ OthersStay(p)
    BY <1>3, StatementMoves DEF DropViews
  <2>2. ~Rebuilding(p) /\ (Recreated(p)' => Recreated(p)) /\ "create_views" \notin ToRebuild
    BY <2>1 DEF Rebuilding, Recreated, ToRebuild
  <2> QED
    BY <1>1, <2>1, <2>2, QuietKeepsHash
<1>4. CASE CreateViews(p)
  <2>1. /\ pc[p] = "create_views"
        /\ pc'[p] = IF run[p].rebuild THEN "write_hash" ELSE "write"
        /\ run'[p].rebuild = run[p].rebuild /\ OthersStay(p)
    BY <1>4, StatementMoves DEF CreateViews
  <2>2. /\ ~Rebuilding(p) /\ (Recreated(p)' => Recreated(p))
        /\ pc'[p] \in ToRebuild => run'[p].rebuild
    BY <2>1 DEF Rebuilding, Recreated, ToRebuild
  <2> QED
    BY <1>1, <2>1, <2>2, QuietKeepsHash
<1> QED
  BY <1>2, <1>3, <1>4

\* The statements of a rebuild.
LEMMA RebuildHashed ==
  ASSUME TypeInv, HashInv, NEW p \in Syncer,
         DropEvents(p) \/ DropMeta(p) \/ CreateMeta(p) \/ CreateEvents(p) \/ WriteHash(p)
  PROVE  HashInv'
<1>1. PICK from \in ToRebuild, to \in ToRebuild \cup {"drop_views", "write"} :
        Statement(p, from, to) /\ (to = "write" => WriteHash(p))
  BY DEF DropEvents, DropMeta, CreateMeta, CreateEvents, WriteHash, ToRebuild
<1>2. /\ pc[p] = from /\ pc'[p] = to /\ run'[p].rebuild = run[p].rebuild /\ run[p].rebuild
      /\ \A q \in Syncer : q # p => pc'[q] = pc[q] /\ run'[q].rebuild = run[q].rebuild
  BY <1>1, StatementMoves DEF OthersStay, HashInv
<1>3. \A q \in Syncer : /\ pc'[q] \in ToRebuild => run'[q].rebuild
                        /\ pc'[q] \in {"idle", "hash"} => ~run'[q].rebuild
  <2>1. to \notin {"idle", "hash"}
    BY <1>1 DEF ToRebuild
  <2> QED
    BY <1>2, <2>1 DEF HashInv
<1>4. CASE DropEvents(p) \/ DropMeta(p) \/ CreateMeta(p)
  <2>1. /\ pc'[p] \in {"drop_meta", "create_meta", "create_events"}
        /\ pc'[p] = "create_meta" => hash' = None
    BY <1>4, StatementMoves DEF DropEvents, DropMeta, CreateMeta
  <2>2. Rebuilding(p)'
    BY <2>1 DEF Rebuilding
  <2>3. hash' # None => pc'[p] \in {"drop_meta", "create_events"}
    BY <2>1
  <2> QED
    BY <1>3, <2>2, <2>3 DEF HashInv
<1>5. CASE CreateEvents(p)
  <2>1. events' # None
    BY <1>5, EmptyTable, TableIsThere DEF CreateEvents
  <2> QED
    BY <1>3, <2>1 DEF HashInv
<1>6. CASE WriteHash(p)
  <2>1. /\ pc[p] = "write_hash" /\ pc'[p] = "write" /\ hash # None /\ events' = events
    BY <1>6, StatementMoves DEF WriteHash
  <2>2. Recreated(p) /\ ~Rebuilding(p)
    BY <1>2, <2>1 DEF Recreated, Rebuilding
  <2>3. \A q \in Syncer : Rebuilding(q) => Rebuilding(q)' /\ pc'[q] = pc[q]
    BY <1>2, <2>2 DEF Rebuilding
  <2>4. events' = None => \E q \in Syncer : Rebuilding(q)'
    BY <2>1, <2>2, <2>3 DEF HashInv
  <2>5. ASSUME events' = None, NEW r \in Syncer, pc'[r] = "create_meta"
        PROVE  \E q \in Syncer : pc'[q] \in {"drop_meta", "create_events"}
    <3>1. pc[r] = "create_meta"
      BY <1>2, <2>1, <2>5
    <3>2. PICK q \in Syncer : pc[q] \in {"drop_meta", "create_events"}
      BY <2>1, <2>5, <3>1 DEF HashInv
    <3>3. pc'[q] = pc[q]
      BY <2>3, <3>2 DEF Rebuilding
    <3> QED
      BY <3>2, <3>3
  <2> QED
    BY <1>3, <2>4, <2>5 DEF HashInv
<1> QED
  BY <1>4, <1>5, <1>6

\* A process fails that leaves no torn rebuild behind.
LEMMA FailHashed ==
  ASSUME TypeInv, HashInv, NEW p \in Syncer, Ends(p), hash' = hash, events' = events, ~Torn(p)
  PROVE  HashInv'
<1>1. pc'[p] = "idle" /\ ~run'[p].rebuild /\ OthersStay(p)
  BY EndsMoves
<1>2. ~Recreated(p)' /\ "idle" \notin ToRebuild
  BY <1>1 DEF Recreated, ToRebuild
<1>3. CASE ~Rebuilding(p)
  BY <1>1, <1>2, <1>3, QuietKeepsHash
<1>4. CASE Rebuilding(p)
  <2>1. hash' # "current" /\ \A q \in Syncer : q # p => ~run[q].rebuild
    BY <1>4 DEF Torn
  <2>2. \A q \in Syncer : ~run'[q].rebuild /\ pc'[q] \notin ToRebuild
    BY <1>1, <1>2, <2>1 DEF OthersStay, HashInv
  <2>3. "create_meta" \in ToRebuild
    BY DEF ToRebuild
  <2> QED
    BY <2>1, <2>2, <2>3 DEF HashInv, Recreated
<1> QED
  BY <1>3, <1>4

\* A statement that fails because another process has undone or redone its own.
LEMMA StatementFailsHashed ==
  ASSUME TypeInv, HashInv, NEW p \in Syncer, StatementFails(p)
  PROVE  HashInv'
<1>1. /\ Ends(p) /\ hash' = hash /\ events' = events
      /\ pc[p] \in {"create_meta", "create_events", "create_views", "write_hash"}
      /\ pc[p] = "create_meta" => hash # None
      /\ pc[p] = "create_events" => events # None
  BY DEF StatementFails, database
<1>2. pc'[p] = "idle" /\ ~run'[p].rebuild /\ OthersStay(p)
  BY <1>1, EndsMoves
<1>3. ~Recreated(p)' /\ "idle" \notin ToRebuild
  BY <1>2 DEF Recreated, ToRebuild
<1>4. CASE ~Rebuilding(p)
  BY <1>1, <1>2, <1>3, <1>4, QuietKeepsHash
<1>5. CASE Rebuilding(p)
  <2>1. \A q \in Syncer : /\ pc'[q] \in ToRebuild => run'[q].rebuild
                          /\ pc'[q] \in {"idle", "hash"} => ~run'[q].rebuild
    BY <1>2, <1>3 DEF OthersStay, HashInv
  <2>2. ASSUME events' = None
        PROVE  \E q \in Syncer : pc'[q] \in {"drop_meta", "create_events"}
    <3>1. pc[p] = "create_meta"
      BY <1>1, <1>5, <2>2 DEF Rebuilding
    <3>2. PICK q \in Syncer : pc[q] \in {"drop_meta", "create_events"}
      BY <1>1, <2>2, <3>1 DEF HashInv
    <3>3. pc'[q] = pc[q]
      BY <1>2, <3>1, <3>2 DEF OthersStay
    <3> QED
      BY <3>2, <3>3
  <2> QED
    BY <2>1, <2>2 DEF HashInv, Rebuilding
<1> QED
  BY <1>4, <1>5

LEMMA StepHashed == ~TornRebuilds /\ TypeInv /\ HashInv /\ [Next]_vars => HashInv'
<1> SUFFICES ASSUME ~TornRebuilds, TypeInv, HashInv, [Next]_vars PROVE HashInv'
  OBVIOUS
<1>1. CASE WorldStep \/ UNCHANGED vars
  <2>1. pc' = pc /\ run' = run /\ hash' = hash /\ events' = events
    BY <1>1 DEF WorldStep, WriteIndex, Say, DeleteTranscript, Flush, vars, database
  <2> QED
    BY <2>1 DEF HashInv, Recreated, Rebuilding
<1>2. ASSUME NEW p \in Syncer, EnsureSchema(p) PROVE HashInv'
  BY <1>2, CheckHashed, OtherStatementsHashed, RebuildHashed, StatementFailsHashed
  DEF EnsureSchema
<1>3. ASSUME NEW p \in Syncer, Fail(p) PROVE HashInv'
  <2>1. Ends(p) /\ hash' = hash /\ events' = events /\ ~Torn(p)
    BY <1>3 DEF Fail, database
  <2> QED
    BY <2>1, FailHashed
<1>4. ASSUME NEW p \in Syncer, InsertFails(p) \/ Commit(p) PROVE HashInv'
  <2>1. /\ Ends(p) /\ hash' = hash /\ pc[p] = "write"
        /\ events' = events \/ events' = run[p].pending
    BY <1>4 DEF InsertFails, Commit, database
  <2>2. pc'[p] = "idle" /\ ~run'[p].rebuild /\ OthersStay(p)
    BY <2>1, EndsMoves
  <2>3. ~Rebuilding(p) /\ ~Recreated(p)' /\ "idle" \notin ToRebuild
    BY <2>1, <2>2 DEF Rebuilding, Recreated, ToRebuild
  <2>4. run[p].pending # None
    BY TableIsThere DEF TypeInv, RunsTyped, RunSet
  <2> QED
    BY <2>1, <2>2, <2>3, <2>4, QuietKeepsHash
<1>5. ASSUME NEW p \in Syncer,
             \/ \E agents \in Asked : Begin(p, agents)
             \/ ReadIndex(p)
             \/ \E s \in Session : Insert(p, s)
      PROVE  HashInv'
  <2>1. /\ hash' = hash /\ events' = events /\ run'[p].rebuild = run[p].rebuild /\ OthersStay(p)
        /\ \/ pc[p] = "idle" /\ pc'[p] = "hash"
           \/ pc[p] = "write" /\ pc'[p] = "write"
    <3>0. pc \in [Syncer -> Phases] /\ run \in [Syncer -> RunSet] /\ run[p] \in RunSet
      BY DEF TypeInv, RunsTyped
    <3>1. CASE \E agents \in Asked : Begin(p, agents)
      BY <3>0, <3>1 DEF Begin, Is, database, OthersStay, RunSet
    <3>2. CASE ReadIndex(p)
      <4>1. pc' = pc /\ pc[p] = "write" /\ hash' = hash /\ events' = events
        BY <3>2 DEF ReadIndex, database
      <4>2. PICK a \in Agent :
              run' = [run EXCEPT ![p] =
                [run[p] EXCEPT !.lines = LinesOf(a), !.left = SessionsIn(LinesOf(a)),
                               !.todo = Tail(run[p].todo)]]
        BY <3>2, ReadIndexMakes
      <4> QED
        BY <3>0, <4>1, <4>2 DEF OthersStay, RunSet
    <3>3. CASE \E s \in Session : Insert(p, s)
      <4>1. PICK s \in Session : Insert(p, s)
        BY <3>3
      <4>2. pc' = pc /\ pc[p] = "write" /\ hash' = hash /\ events' = events
        BY <4>1 DEF Insert, database
      <4>3. PICK es \in EventTable, table \in EventTable :
              run' = [run EXCEPT ![p] =
                [run[p] EXCEPT !.pending = Inserted(table, es),
                               !.wrote = run[p].wrote \o es, !.left = run[p].left \ {s}]]
        BY <4>1, InsertMakes
      <4> QED
        BY <3>0, <4>2, <4>3 DEF OthersStay, RunSet
    <3> QED
      BY <1>5, <3>1, <3>2, <3>3
  <2>2. ~Rebuilding(p) /\ ~Recreated(p)' /\ pc'[p] \notin ToRebuild /\ pc'[p] # "create_meta"
    BY <2>1 DEF Rebuilding, Recreated, ToRebuild
  <2>3. pc'[p] \in {"idle", "hash"} => ~run'[p].rebuild
    BY <2>1 DEF HashInv
  <2> QED
    BY <2>1, <2>2, <2>3, QuietKeepsHash
<1> QED
  BY <1>1, <1>2, <1>3, <1>4, <1>5 DEF Next, SyncStep, WorldStep

\* Unless a rebuild is killed while another one runs, a hash that matches means
\* that the events table is there or on its way, so a sync-db that skips the
\* rebuild has one to write to: whatever overlaps, fails or is killed.
THEOREM HashCorrect == ~TornRebuilds /\ Spec => []HashMeansEvents
<1> SUFFICES ASSUME ~TornRebuilds PROVE Spec => []HashMeansEvents
  OBVIOUS
<1>1. Init => TypeInv /\ HashInv
  BY InitTyped, InitHashed
<1>2. TypeInv /\ HashInv /\ [Next]_vars => (TypeInv /\ HashInv)'
  BY StepTyped, StepHashed
<1>3. HashInv => HashMeansEvents
  BY DEF HashInv, HashMeansEvents
<1> QED
  BY <1>1, <1>2, <1>3, PTL DEF Spec

-----------------------------------------------------------------------------
(* What a sync-db shows when it commits *)

\* An insert of a session's events shows them, and what was shown of others.
LEMMA LatestInserted ==
  ASSUME NEW table \in EventTable, NEW es \in EventTable, NEW s,
         \A i \in DOMAIN es : es[i].of = s,
         \A i, j \in DOMAIN es : es[i].kind = es[j].kind => i = j
  PROVE  /\ \A i \in DOMAIN es : Latest(Inserted(table, es), s, es[i].kind) = es[i].content
         /\ \A o, kind : o # s => Latest(Inserted(table, es), o, kind) = Latest(table, o, kind)
<1> DEFINE W == Without(table, ToSet(es))
<1>1. /\ W \in EventTable /\ ToSet(W) \cap ToSet(es) = {}
      /\ Inserted(table, es) = W \o es
  BY WithoutTable DEF Inserted
<1> HIDE DEF W
<1>2. ASSUME NEW i \in DOMAIN es
      PROVE  Latest(Inserted(table, es), s, es[i].kind) = es[i].content
  <2>1. \A j \in Places(es, s, es[i].kind) : j = i
    BY DEF Places
  <2>2. i \in Places(es, s, es[i].kind) /\ i \in Nat
    BY DEF Places, EventTable
  <2>3. Latest(es, s, es[i].kind) = es[i].content
    BY <2>1, <2>2, LatestAt
  <2>4. Latest(W \o es, s, es[i].kind) = Latest(es, s, es[i].kind)
    BY <1>1, <2>2, LatestJoined
  <2> QED
    BY <1>1, <2>3, <2>4
<1>3. ASSUME NEW o, NEW kind, o # s
      PROVE  Latest(Inserted(table, es), o, kind) = Latest(table, o, kind)
  <2>1. Places(es, o, kind) = {}
    BY <1>3 DEF Places
  <2>2. Latest(W \o es, o, kind) = Latest(W, o, kind)
    BY <1>1, <2>1, LatestJoined
  <2>3. \A i \in Places(table, o, kind) : table[i] \notin ToSet(es)
    BY <1>3 DEF Places, ToSet
  <2>4. Latest(W, o, kind) = Latest(table, o, kind)
    BY <2>3, LatestWithout DEF W
  <2> QED
    BY <1>1, <2>2, <2>4
<1> QED
  BY <1>2, <1>3

\* What p has written is what its table shows, no session of it is written
\* again, and who has no lock has written nothing.
WroteIsShown(p) ==
  /\ IsInjective(run[p].todo)
  /\ \A s \in run[p].left : AgentOf[s] \notin ToSet(run[p].todo)
  /\ lock # p => run[p].wrote = <<>>
  /\ \A e \in ToSet(run[p].wrote) :
       /\ Latest(run[p].pending, e.of, e.kind) = e.content
       /\ e.of \notin run[p].left
       /\ AgentOf[e.of] \notin ToSet(run[p].todo)

WroteInv == \A p \in Syncer : WroteIsShown(p)

LEMMA IdleRunShown ==
  ASSUME NEW p \in Syncer, run[p] = IdleRun
  PROVE  WroteIsShown(p)
<1>1. run[p].todo = <<>> /\ run[p].wrote = <<>> /\ run[p].left = {}
  BY DEF IdleRun
<1> QED
  BY <1>1 DEF WroteIsShown, IsInjective, ToSet

LEMMA InitWrote == Init => WroteInv
BY IdleRunShown DEF Init, WroteInv

\* A process whose run and lock stay as they are.
LEMMA SameIsShown ==
  ASSUME NEW p \in Syncer, WroteIsShown(p), run'[p] = run[p], lock' = lock \/ lock # p
  PROVE  WroteIsShown(p)'
BY DEF WroteIsShown

LEMMA BeginShown ==
  ASSUME TypeInv, NEW p \in Syncer, NEW agents \in Asked, Begin(p, agents)
  PROVE  WroteIsShown(p)'
<1>1. run \in [Syncer -> RunSet] /\ run[p] = IdleRun
  BY DEF TypeInv, RunsTyped, Begin, Is
<1>2. run'[p] = [IdleRun EXCEPT !.todo = agents]
  BY <1>1 DEF Begin
<1>3. run'[p].todo = agents /\ run'[p].wrote = <<>> /\ run'[p].left = {}
  BY <1>2 DEF IdleRun
<1>4. IsInjective(agents)
  BY AskedAre
<1> QED
  BY <1>3, <1>4, EmptyTable DEF WroteIsShown

\* The next index is of an agent that is not to come again, nor did come.
LEMMA ReadIndexShown ==
  ASSUME TypeInv, NEW p \in Syncer, WroteIsShown(p), ReadIndex(p)
  PROVE  WroteIsShown(p)'
<1>1. PICK a \in Agent :
        /\ a = Head(run[p].todo) /\ run[p].todo # <<>>
        /\ run[p].todo \in Seq(Agent) /\ Tail(run[p].todo) \in Seq(Agent)
        /\ \A s \in SessionsIn(LinesOf(a)) : s \in Session /\ AgentOf[s] = a
        /\ run' = [run EXCEPT ![p] =
             [run[p] EXCEPT !.lines = LinesOf(a), !.left = SessionsIn(LinesOf(a)),
                            !.todo = Tail(run[p].todo)]]
  BY ReadIndexMakes
<1>2. run \in [Syncer -> RunSet] /\ run[p] \in RunSet
  BY DEF TypeInv, RunsTyped
<1>3. /\ run'[p].left = SessionsIn(LinesOf(a)) /\ run'[p].todo = Tail(run[p].todo)
      /\ run'[p].wrote = run[p].wrote /\ run'[p].pending = run[p].pending /\ lock' = lock
  BY <1>1, <1>2 DEF RunSet, ReadIndex
<1> DEFINE todo == run[p].todo
<1>4. /\ DOMAIN todo = 1..Len(todo) /\ Len(todo) \in Nat /\ Len(todo) > 0
      /\ DOMAIN Tail(todo) = 1..(Len(todo) - 1)
      /\ \A i \in DOMAIN Tail(todo) : Tail(todo)[i] = todo[i + 1]
      /\ a = todo[1]
  BY <1>1
<1>5. IsInjective(todo)
  BY DEF WroteIsShown
<1> HIDE DEF todo
<1>6. IsInjective(Tail(todo)) /\ a \notin ToSet(Tail(todo))
  <2>1. \A i, j \in DOMAIN todo : todo[i] = todo[j] => i = j
    BY <1>5 DEF IsInjective
  <2>2. \A i \in DOMAIN Tail(todo) : i + 1 \in DOMAIN todo /\ i \in Nat /\ i # 0
    BY <1>4
  <2>3. \A i, j \in DOMAIN Tail(todo) : Tail(todo)[i] = Tail(todo)[j] => i = j
    BY <1>4, <2>1, <2>2
  <2>4. \A i \in DOMAIN Tail(todo) : Tail(todo)[i] # a
    <3>1. 1 \in DOMAIN todo
      BY <1>4
    <3> QED
      BY <1>4, <2>1, <2>2, <3>1
  <2> QED
    BY <2>3, <2>4 DEF IsInjective, ToSet
<1>7. ToSet(Tail(todo)) \subseteq ToSet(todo) /\ a \in ToSet(todo)
  <2>1. \A i \in DOMAIN Tail(todo) : i + 1 \in DOMAIN todo
    BY <1>4
  <2>2. 1 \in DOMAIN todo
    BY <1>4
  <2> QED
    BY <1>4, <2>1, <2>2 DEF ToSet
<1>8. ASSUME NEW e \in ToSet(run[p].wrote)
      PROVE  /\ Latest(run[p].pending, e.of, e.kind) = e.content
             /\ e.of \notin SessionsIn(LinesOf(a))
             /\ AgentOf[e.of] \notin ToSet(Tail(todo))
  <2>1. /\ Latest(run[p].pending, e.of, e.kind) = e.content
        /\ AgentOf[e.of] \notin ToSet(todo)
    BY DEF WroteIsShown, todo
  <2> QED
    BY <1>1, <1>7, <2>1
<1>9. /\ run'[p].todo = Tail(todo)
      /\ \A s \in run'[p].left : AgentOf[s] \notin ToSet(Tail(todo))
      /\ lock' # p => run'[p].wrote = <<>>
  BY <1>1, <1>3, <1>6 DEF todo, WroteIsShown
<1> QED
  BY <1>3, <1>6, <1>8, <1>9 DEF WroteIsShown

LEMMA InsertShown ==
  ASSUME TypeInv, NEW p \in Syncer, WroteIsShown(p), NEW s \in Session, Insert(p, s)
  PROVE  WroteIsShown(p)'
<1>1. PICK es \in EventTable, table \in EventTable :
        /\ es = EventsOf(s, LastLine(run[p].lines, s), said[s])
        /\ table = IF lock = p THEN run[p].pending ELSE events
        /\ LastLine(run[p].lines, s) \in IndexLine
        /\ run' = [run EXCEPT ![p] =
             [run[p] EXCEPT !.pending = Inserted(table, es),
                            !.wrote = run[p].wrote \o es, !.left = run[p].left \ {s}]]
  BY InsertMakes
<1>2. run \in [Syncer -> RunSet] /\ run[p] \in RunSet
  BY DEF TypeInv, RunsTyped
<1>3. /\ run'[p].left = run[p].left \ {s} /\ run'[p].todo = run[p].todo
      /\ run'[p].wrote = run[p].wrote \o es /\ run'[p].pending = Inserted(table, es)
      /\ lock' = p /\ s \in run[p].left
  BY <1>1, <1>2 DEF RunSet, Insert
<1>4. said[s] \in Nat \cup {None}
  BY DEF TypeInv, SourcesTyped
<1>5. /\ \A i \in DOMAIN es : es[i].of = s
      /\ \A i, j \in DOMAIN es : es[i].kind = es[j].kind => i = j
  BY <1>1, <1>4, EventsOfAre
<1>6. /\ \A i \in DOMAIN es : Latest(Inserted(table, es), s, es[i].kind) = es[i].content
      /\ \A o, kind : o # s => Latest(Inserted(table, es), o, kind) = Latest(table, o, kind)
  <2>1. es \in EventTable /\ table \in EventTable
    OBVIOUS
  <2>2. \A i \in DOMAIN es : Latest(Inserted(table, es), s, es[i].kind) = es[i].content
    BY <1>5, <2>1, LatestInserted
  <2>3. \A o, kind : o # s => Latest(Inserted(table, es), o, kind) = Latest(table, o, kind)
    BY <1>5, <2>1, LatestInserted
  <2> QED
    BY <2>2, <2>3, Zenon
<1>7. ToSet(run[p].wrote \o es) = ToSet(run[p].wrote) \cup ToSet(es)
  <2>1. run[p].wrote \in Seq(EventRow) /\ es \in Seq(EventRow)
    BY <1>1, <1>2 DEF RunSet, EventTable
  <2> QED
    BY <2>1, ToSetJoined
<1>8. ASSUME NEW e \in ToSet(run[p].wrote)
      PROVE  /\ Latest(Inserted(table, es), e.of, e.kind) = e.content
             /\ e.of \notin run[p].left
             /\ AgentOf[e.of] \notin ToSet(run[p].todo)
  <2>1. /\ Latest(run[p].pending, e.of, e.kind) = e.content
        /\ e.of \notin run[p].left
        /\ AgentOf[e.of] \notin ToSet(run[p].todo)
    BY DEF WroteIsShown
  <2>2. lock = p
    BY EmptyTable DEF WroteIsShown
  <2>3. e.of # s
    BY <1>3, <2>1
  <2>4. Latest(Inserted(table, es), e.of, e.kind) = Latest(run[p].pending, e.of, e.kind)
    BY <1>1, <1>6, <2>2, <2>3
  <2> QED
    BY <2>1, <2>4
<1>9. ASSUME NEW e \in ToSet(es)
      PROVE  /\ Latest(Inserted(table, es), e.of, e.kind) = e.content
             /\ e.of = s
             /\ AgentOf[e.of] \notin ToSet(run[p].todo)
  <2>1. PICK i \in DOMAIN es : e = es[i]
    BY DEF ToSet
  <2>2. AgentOf[s] \notin ToSet(run[p].todo)
    BY <1>3 DEF WroteIsShown
  <2> QED
    BY <1>5, <1>6, <2>1, <2>2
<1>10. /\ IsInjective(run'[p].todo)
       /\ \A o \in run'[p].left : AgentOf[o] \notin ToSet(run'[p].todo)
  BY <1>3 DEF WroteIsShown
<1>11. ASSUME NEW e \in ToSet(run'[p].wrote)
       PROVE  /\ Latest(run'[p].pending, e.of, e.kind) = e.content
              /\ e.of \notin run'[p].left
              /\ AgentOf[e.of] \notin ToSet(run'[p].todo)
  BY <1>3, <1>7, <1>8, <1>9
<1> QED
  BY <1>3, <1>10, <1>11 DEF WroteIsShown

LEMMA StepWrote == TypeInv /\ WroteInv /\ [Next]_vars => WroteInv'
<1> SUFFICES ASSUME TypeInv, WroteInv, [Next]_vars PROVE WroteInv'
  OBVIOUS
<1>0. \A p \in Syncer : WroteIsShown(p)
  BY DEF WroteInv
<1>1. CASE WorldStep \/ UNCHANGED vars
  <2>1. run' = run /\ lock' = lock
    BY <1>1 DEF WorldStep, WriteIndex, Say, DeleteTranscript, Flush, vars
  <2> QED
    BY <1>0, <2>1, SameIsShown DEF WroteInv
<1>2. ASSUME NEW p \in Syncer, SyncStep(p) \/ Fail(p) \/ \E agents \in Asked : Begin(p, agents)
      PROVE  WroteInv'
  <2>1. WroteIsShown(p)' /\ \A q \in Syncer \ {p} : run'[q] = run[q] /\ (lock' = lock \/ lock # q)
    <3>0. run \in [Syncer -> RunSet] /\ run[p] \in RunSet /\ lock \in Syncer \cup {None}
      BY DEF TypeInv, RunsTyped, LockTyped
    <3>1. CASE Ends(p)
      <4>1. run'[p] = IdleRun /\ \A q \in Syncer \ {p} : run'[q] = run[q]
        BY <3>0, <3>1 DEF Ends
      <4>2. \A q \in Syncer \ {p} : lock' = lock \/ lock # q
        BY <3>1 DEF Ends
      <4>3. WroteIsShown(p)'
        <5>1. run'[p].todo = <<>> /\ run'[p].wrote = <<>> /\ run'[p].left = {}
          BY <4>1 DEF IdleRun
        <5> QED
          BY <5>1 DEF WroteIsShown, IsInjective, ToSet
      <4> QED
        BY <4>1, <4>2, <4>3
    <3>2. CASE ~Ends(p) /\ EnsureSchema(p)
      <4>1. lock' = lock /\ (run' = run \/ run' = [run EXCEPT ![p].rebuild = TRUE])
        BY <3>2 DEF EnsureSchema, CheckHash, DropLegacy, DropEvents, DropMeta, CreateMeta,
                    CreateEvents, DropViews, CreateViews, WriteHash, StatementFails, Statement
      <4>2. /\ run'[p].todo = run[p].todo /\ run'[p].wrote = run[p].wrote
            /\ run'[p].left = run[p].left /\ run'[p].pending = run[p].pending
        BY <3>0, <4>1 DEF RunSet
      <4>3. \A q \in Syncer \ {p} : run'[q] = run[q]
        BY <3>0, <4>1
      <4> QED
        BY <1>0, <4>1, <4>2, <4>3 DEF WroteIsShown
    <3>3. CASE ReadIndex(p)
      <4>1. lock' = lock /\ \A q \in Syncer \ {p} : run'[q] = run[q]
        <5>1. PICK a \in Agent :
                run' = [run EXCEPT ![p] =
                  [run[p] EXCEPT !.lines = LinesOf(a), !.left = SessionsIn(LinesOf(a)),
                                 !.todo = Tail(run[p].todo)]]
          BY <3>3, ReadIndexMakes
        <5>2. lock' = lock
          BY <3>3 DEF ReadIndex
        <5> QED
          BY <3>0, <5>1, <5>2
      <4> QED
        BY <1>0, <3>3, <4>1, ReadIndexShown
    <3>4. CASE \E s \in Session : Insert(p, s)
      <4>1. PICK s \in Session : Insert(p, s)
        BY <3>4
      <4>2. PICK es \in EventTable, table \in EventTable :
              run' = [run EXCEPT ![p] =
                [run[p] EXCEPT !.pending = Inserted(table, es),
                               !.wrote = run[p].wrote \o es, !.left = run[p].left \ {s}]]
        BY <4>1, InsertMakes
      <4>3. \A q \in Syncer \ {p} : run'[q] = run[q]
        BY <3>0, <4>2
      <4>4. \A q \in Syncer \ {p} : lock # q
        BY <4>1, StoreAssumption DEF Insert
      <4>5. WroteIsShown(p)'
        BY <1>0, <4>1, InsertShown
      <4> QED
        BY <4>3, <4>4, <4>5
    <3>5. CASE \E agents \in Asked : Begin(p, agents)
      <4>1. lock' = lock /\ \A q \in Syncer \ {p} : run'[q] = run[q]
        BY <3>0, <3>5 DEF Begin
      <4> QED
        BY <3>5, <4>1, BeginShown
    <3> QED
      BY <1>2, <3>1, <3>2, <3>3, <3>4, <3>5 DEF SyncStep, InsertFails, Commit, Fail
  <2>2. \A q \in Syncer \ {p} : WroteIsShown(q)'
    BY <1>0, <2>1, SameIsShown
  <2> QED
    BY <2>1, <2>2 DEF WroteInv
<1> QED
  BY <1>1, <1>2 DEF Next, WorldStep

\* Every commit shows what it has read, of every session that it wrote: also a
\* value that the table has held before, which is moved to the end, and of a
\* session that another sync-db wrote while this one waited for the lock.
THEOREM ShowsCorrect == Spec => ShowsWhatWasRead
<1>1. Init => TypeInv /\ WroteInv
  BY InitTyped, InitWrote
<1>2. TypeInv /\ WroteInv /\ [Next]_vars => (TypeInv /\ WroteInv)'
  BY StepTyped, StepWrote
<1> DEFINE Shown == \A p \in Syncer : Commit(p) /\ lock = p =>
                      \A e \in ToSet(run[p].wrote) : Latest(events', e.of, e.kind) = e.content
<1>3. WroteInv => Shown
  BY DEF WroteInv, WroteIsShown, Commit
<1>4. TypeInv /\ WroteInv /\ [Next]_vars => [Shown]_vars
  BY <1>3
<1> QED
  BY <1>1, <1>2, <1>4, PTL DEF Spec, ShowsWhatWasRead

-----------------------------------------------------------------------------
(* The stats of a session *)

\* What a table says was scanned of a session.
Values(t, s) == {v \in Nat : Event(s, "scanned", v) \in ToSet(t)}

\* It says more each time.
Rising(t, s) ==
  \A i, j \in Places(t, s, "scanned") : i < j => t[i].content < t[j].content

LEMMA ValueAt ==
  ASSUME NEW t \in EventTable, NEW s, NEW i \in Places(t, s, "scanned")
  PROVE  t[i].content \in Nat /\ t[i].content \in Values(t, s)
<1>1. /\ i \in DOMAIN t /\ t[i] \in EventRow /\ t[i].of = s /\ t[i].kind = "scanned"
      /\ t[i].content \in Nat
  BY DEF Places, EventTable
<1>2. t[i] = Event(s, "scanned", t[i].content)
  BY <1>1 DEF EventRow, Event
<1> QED
  BY <1>1, <1>2 DEF Values, ToSet

LEMMA PlaceOf ==
  ASSUME NEW t \in EventTable, NEW s, NEW v \in Values(t, s)
  PROVE  \E i \in Places(t, s, "scanned") : t[i].content = v
<1>1. PICK i \in DOMAIN t : t[i] = Event(s, "scanned", v)
  BY DEF Values, ToSet
<1>2. t[i].of = s /\ t[i].kind = "scanned" /\ t[i].content = v
  BY <1>1 DEF Event
<1> QED
  BY <1>2 DEF Places

\* The latest of what rises is the most.
LEMMA LatestOfRising ==
  ASSUME NEW t \in EventTable, NEW s, Rising(t, s), Places(t, s, "scanned") # {}
  PROVE  /\ Latest(t, s, "scanned") \in Values(t, s)
         /\ \A v \in Values(t, s) : v <= Latest(t, s, "scanned")
<1>1. PICK m \in Places(t, s, "scanned") :
        /\ Latest(t, s, "scanned") = t[m].content
        /\ \A i \in Places(t, s, "scanned") : i <= m
  BY LatestIs
<1>2. t[m].content \in Values(t, s) /\ t[m].content \in Nat
  BY ValueAt
<1>3. ASSUME NEW v \in Values(t, s) PROVE v <= t[m].content
  <2>1. PICK i \in Places(t, s, "scanned") : t[i].content = v
    BY PlaceOf
  <2>2. i \in Nat /\ m \in Nat /\ i <= m /\ v \in Nat
    BY <1>1 DEF Places, EventTable, Values
  <2>3. i = m \/ i < m
    BY <2>2
  <2>4. i < m => v < t[m].content
    BY <2>1 DEF Rising
  <2> QED
    BY <1>2, <2>1, <2>2, <2>3, <2>4
<1> QED
  BY <1>1, <1>2, <1>3

\* A table that says more than one before it.
LEMMA RisingJoined ==
  ASSUME NEW t \in EventTable, NEW u \in EventTable, NEW s, Rising(t, s), Rising(u, s),
         \A v \in Values(t, s), w \in Values(u, s) : v < w
  PROVE  Rising(t \o u, s)
<1> DEFINE w == t \o u
<1>1. \A i \in DOMAIN w :
        /\ i \in Nat
        /\ i <= Len(t) => /\ w[i] = t[i]
                          /\ i \in Places(w, s, "scanned") <=> i \in Places(t, s, "scanned")
        /\ i > Len(t) => /\ w[i] = u[i - Len(t)]
                         /\ i \in Places(w, s, "scanned")
                              <=> i - Len(t) \in Places(u, s, "scanned")
  BY PlacesJoined
<1>2. Len(t) \in Nat
  BY DEF EventTable
<1> HIDE DEF w
<1>3. ASSUME NEW i \in Places(w, s, "scanned"), NEW j \in Places(w, s, "scanned"), i < j
      PROVE  w[i].content < w[j].content
  <2>1. i \in DOMAIN w /\ j \in DOMAIN w
    BY Zenon DEF Places
  <2>2. i \in Nat /\ j \in Nat
    BY <1>1, <2>1, Zenon
  <2>3. CASE j <= Len(t)
    <3>1. i <= Len(t)
      BY <1>2, <1>3, <2>2, <2>3
    <3>2. /\ i \in Places(t, s, "scanned") /\ w[i] = t[i]
          /\ j \in Places(t, s, "scanned") /\ w[j] = t[j]
      BY <1>1, <2>1, <2>3, <3>1, Zenon
    <3> QED
      BY <1>3, <3>2 DEF Rising
  <2>4. CASE i > Len(t)
    <3>1. j > Len(t)
      BY <1>2, <1>3, <2>2, <2>4
    <3>2. /\ i - Len(t) \in Places(u, s, "scanned") /\ w[i] = u[i - Len(t)]
          /\ j - Len(t) \in Places(u, s, "scanned") /\ w[j] = u[j - Len(t)]
      BY <1>1, <2>1, <2>4, <3>1, Zenon
    <3>3. i - Len(t) < j - Len(t)
      BY <1>2, <1>3, <2>2
    <3> QED
      BY <3>2, <3>3 DEF Rising
  <2>5. CASE i <= Len(t) /\ j > Len(t)
    <3>1. /\ i \in Places(t, s, "scanned") /\ w[i] = t[i]
          /\ j - Len(t) \in Places(u, s, "scanned") /\ w[j] = u[j - Len(t)]
      BY <1>1, <2>1, <2>5, Zenon
    <3>2. t[i].content \in Values(t, s) /\ u[j - Len(t)].content \in Values(u, s)
      BY <3>1, ValueAt
    <3> QED
      BY <3>1, <3>2
  <2> QED
    BY <1>2, <2>2, <2>3, <2>4, <2>5
<1>4. Rising(w, s)
  BY <1>3 DEF Rising
<1> QED
  BY <1>4 DEF w

\* What is left of rising rows rises.
LEMMA RisingWithout ==
  ASSUME NEW t \in EventTable, NEW gone, NEW s, Rising(t, s)
  PROVE  Rising(Without(t, gone), s)
<1> DEFINE W == Without(t, gone)
<1>1. t \in Seq(EventRow) /\ W \in EventTable
  BY WithoutTable DEF EventTable
<1>2. PICK at : Keeps(t, gone, W, at)
  BY <1>1, WithoutKeeps
<1> HIDE DEF W
<1>3. DOMAIN t = 1..Len(t) /\ DOMAIN W = 1..Len(W)
  BY <1>1 DEF EventTable
<1>4. ASSUME NEW i \in Places(W, s, "scanned"), NEW j \in Places(W, s, "scanned"), i < j
      PROVE  W[i].content < W[j].content
  <2>1. i \in DOMAIN W /\ j \in DOMAIN W
    BY Zenon DEF Places
  <2>2. /\ W[i] = t[at[i]] /\ at[i] \in DOMAIN t
        /\ W[j] = t[at[j]] /\ at[j] \in DOMAIN t
        /\ at[i] < at[j]
    BY <1>2, <1>3, <1>4, <2>1 DEF Keeps
  <2>3. at[i] \in Places(t, s, "scanned") /\ at[j] \in Places(t, s, "scanned")
    BY <2>2 DEF Places
  <2> QED
    BY <2>2, <2>3 DEF Rising
<1> QED
  BY <1>4 DEF Rising, W

\* After an insert of more than was there.
LEMMA RisingInserted ==
  ASSUME NEW table \in EventTable, NEW es \in EventTable, NEW s,
         Rising(table, s), Rising(es, s),
         \A v \in Values(table, s), w \in Values(es, s) : v <= w
  PROVE  /\ Rising(Inserted(table, es), s)
         /\ Values(Inserted(table, es), s) = Values(table, s) \cup Values(es, s)
<1> DEFINE W == Without(table, ToSet(es))
<1>1. W \in EventTable /\ ToSet(W) = ToSet(table) \ ToSet(es)
  BY WithoutTable
<1>2. Rising(W, s)
  BY RisingWithout
<1>3. Values(W, s) = Values(table, s) \ Values(es, s)
  BY <1>1 DEF Values
<1> HIDE DEF W
<1>4. \A v \in Values(W, s), w \in Values(es, s) : v < w
  <2>1. ASSUME NEW v \in Values(W, s), NEW w \in Values(es, s) PROVE v < w
    <3>1. v <= w /\ v # w
      BY <1>3
    <3>2. v \in Nat /\ w \in Nat
      BY DEF Values
    <3> QED
      BY <3>1, <3>2
  <2> QED
    BY <2>1
<1>5. Rising(W \o es, s)
  BY <1>1, <1>2, <1>4, RisingJoined
<1>6. Values(Inserted(table, es), s) = Values(table, s) \cup Values(es, s)
  BY InsertedTable DEF Values
<1> QED
  BY <1>5, <1>6 DEF Inserted, W

\* When the server receives a table, of which what it lacks is more.
LEMMA RisingReceived ==
  ASSUME NEW table \in EventTable, NEW es \in EventTable, NEW s,
         Rising(table, s), Rising(es, s),
         \A v \in Values(table, s), w \in Values(es, s) \ Values(table, s) : v < w
  PROVE  /\ Rising(Received(table, es), s)
         /\ Values(Received(table, es), s) = Values(table, s) \cup Values(es, s)
<1> DEFINE W == Without(es, ToSet(table))
<1>1. W \in EventTable /\ ToSet(W) = ToSet(es) \ ToSet(table)
  BY WithoutTable
<1>2. Rising(W, s)
  BY RisingWithout
<1>3. Values(W, s) = Values(es, s) \ Values(table, s)
  BY <1>1 DEF Values
<1> HIDE DEF W
<1>4. Rising(table \o W, s)
  BY <1>1, <1>2, <1>3, RisingJoined
<1>5. Values(Received(table, es), s) = Values(table, s) \cup Values(es, s)
  BY ReceivedTable DEF Values
<1> QED
  BY <1>4, <1>5 DEF Received, W

\* What is written of a session says what its transcript says, and nothing of
\* another session.
LEMMA WrittenValues ==
  ASSUME NEW s \in Session, NEW r \in IndexLine, NEW n \in Nat \cup {None}, NEW o
  PROVE  /\ Rising(EventsOf(s, r, n), o)
         /\ Values(EventsOf(s, r, n), o) = IF o = s THEN {StatsOf(n)} ELSE {}
<1> DEFINE es == EventsOf(s, r, n)
<1>1. /\ es \in EventTable
      /\ \A i \in DOMAIN es : es[i].of = s
      /\ \A i, j \in DOMAIN es : es[i].kind = es[j].kind => i = j
      /\ \E i \in DOMAIN es : es[i] = Event(s, "scanned", StatsOf(n))
  BY EventsOfAre
<1>2. PICK k \in DOMAIN es : es[k] = Event(s, "scanned", StatsOf(n))
  BY <1>1
<1> HIDE DEF es
<1>3. es[k].kind = "scanned" /\ es[k].content = StatsOf(n) /\ StatsOf(n) \in Nat /\ k \in Nat
  BY <1>1, <1>2 DEF Event, StatsOf, EventTable
<1>4. \A i \in Places(es, o, "scanned") : i = k /\ o = s
  BY <1>1, <1>3 DEF Places
<1>5. Rising(es, o)
  BY <1>3, <1>4 DEF Rising
<1>6. ASSUME NEW v \in Values(es, o) PROVE o = s /\ v = StatsOf(n)
  <2>1. PICK i \in Places(es, o, "scanned") : es[i].content = v
    BY <1>1, PlaceOf
  <2> QED
    BY <1>3, <1>4, <2>1
<1>7. StatsOf(n) \in Values(es, s)
  BY <1>2, <1>3 DEF Values, ToSet
<1> QED
  BY <1>5, <1>6, <1>7 DEF es

\* What t says and u does not is more than all that u says.
Above(t, u, s) ==
  \A v \in Values(t, s) \ Values(u, s), w \in Values(u, s) : w < v

\* A table of the client rises, says no more than the transcript, nothing old
\* that the server has not, and if anything, the most that the server has.
Ahead(t, s) ==
  /\ Rising(t, s)
  /\ \A v \in Values(t, s) : v <= said[s]
  /\ Above(t, server, s)
  /\ Values(t, s) # {} => \A w \in Values(server, s) : \E v \in Values(t, s) : w <= v

\* While the transcript is there, so are both tables and what a sync-db is
\* about to commit, which keeps what is committed.
StatsHold(s) ==
  /\ Rising(server, s)
  /\ \A v \in Values(server, s) : v <= said[s]
  /\ events # None => Ahead(events, s)
  /\ lock # None => /\ Ahead(run[lock].pending, s)
                    /\ Values(events, s) \subseteq Values(run[lock].pending, s)
                    /\ Above(run[lock].pending, events, s)

StatsInv == \A s \in Session : said[s] # None => StatsHold(s)

LEMMA EmptySays ==
  ASSUME NEW s
  PROVE  Rising(<<>>, s) /\ Values(<<>>, s) = {}
BY DEF Rising, Places, Values, ToSet

LEMMA EmptyAhead ==
  ASSUME NEW s
  PROVE  Ahead(<<>>, s)
BY EmptySays DEF Ahead, Above

LEMMA InitStats == Init => StatsInv
<1> SUFFICES ASSUME Init, NEW s \in Session PROVE StatsHold(s)
  BY DEF StatsInv
<1>1. server = <<>> /\ lock = None /\ (events # None => events = <<>>)
  BY DEF Init
<1> QED
  BY <1>1, EmptySays, EmptyAhead DEF StatsHold

\* Nothing that the stats are about changes.
LEMMA SameStats ==
  ASSUME NEW s, StatsHold(s), said'[s] = said[s], server' = server,
         events' = events \/ events' = None \/ events' = <<>>,
         \/ lock' = None
         \/ events' = events /\ lock' = lock /\ run'[lock].pending = run[lock].pending
  PROVE  StatsHold(s)'
<1>1. Rising(server', s) /\ \A v \in Values(server', s) : v <= said'[s]
  BY DEF StatsHold
<1>2. ASSUME events' # None PROVE Ahead(events, s)' \/ events' = <<>>
  <2>1. events' = events => Ahead(events, s)
    BY <1>2 DEF StatsHold
  <2> QED
    BY <1>2, <2>1 DEF Ahead, Above
<1>3. events' = <<>> => Ahead(events, s)'
  BY EmptySays DEF Ahead, Above
<1>4. ASSUME lock' # None
      PROVE  /\ Ahead(run[lock].pending, s)'
             /\ Values(events', s) \subseteq Values(run'[lock'].pending, s)
             /\ Above(run'[lock'].pending, events', s)
  <2>1. /\ lock # None /\ lock' = lock /\ events' = events
        /\ run'[lock'].pending = run[lock].pending
    BY <1>4
  <2>2. /\ Ahead(run[lock].pending, s)
        /\ Values(events, s) \subseteq Values(run[lock].pending, s)
        /\ Above(run[lock].pending, events, s)
    BY <2>1 DEF StatsHold
  <2>3. Ahead(run[lock].pending, s)'
    BY <2>1, <2>2 DEF Ahead, Above
  <2> QED
    BY <2>1, <2>2, <2>3
<1> QED
  BY <1>1, <1>2, <1>3, <1>4 DEF StatsHold

\* A transcript grows.
LEMMA SayStats ==
  ASSUME TypeInv, NEW o \in Session, Say(o), NEW s \in Session, said'[s] # None, StatsHold(s)
  PROVE  StatsHold(s)'
<1>1. /\ server' = server /\ events' = events /\ lock' = lock /\ run' = run
      /\ said' = [said EXCEPT ![o] = said[o] + 1] /\ said[o] # None
  BY DEF Say, database, sink
<1>2. said \in [Session -> Nat \cup {None}]
  BY DEF TypeInv, SourcesTyped
<1>3. CASE s # o
  BY <1>1, <1>2, <1>3, SameStats
<1>4. CASE s = o
  <2>1. said[s] \in Nat /\ said'[s] = said[s] + 1
    BY <1>1, <1>2, <1>4
  <2>2. \A v \in Nat : v <= said[s] => v <= said'[s]
    BY <2>1
  <2>3. \A t : Ahead(t, s) => /\ Rising(t, s) /\ \A v \in Values(t, s) : v <= said'[s]
                              /\ Above(t, server, s)
                              /\ Values(t, s) # {} => \A w \in Values(server, s) :
                                                        \E v \in Values(t, s) : w <= v
    BY <2>2 DEF Ahead, Values
  <2>4. \A t : Ahead(t, s) => /\ Rising(t, s) /\ \A v \in Values(t, s) : v <= said'[s]
                              /\ Above(t, server', s)
                              /\ Values(t, s) # {} => \A w \in Values(server', s) :
                                                        \E v \in Values(t, s) : w <= v
    BY <1>1, <2>3
  <2>5. events' # None => Ahead(events, s)'
    BY <1>1, <2>4 DEF StatsHold, Ahead
  <2>6. lock' # None => Ahead(run[lock].pending, s)'
    BY <1>1, <2>4 DEF StatsHold, Ahead
  <2>7. Rising(server', s) /\ \A v \in Values(server', s) : v <= said'[s]
    BY <1>1, <2>2 DEF StatsHold, Values
  <2> QED
    BY <1>1, <2>5, <2>6, <2>7 DEF StatsHold
<1> QED
  BY <1>3, <1>4

\* A flush gives the server what it lacks.
LEMMA FlushStats ==
  ASSUME TypeInv, Flush, NEW s \in Session, said[s] # None, StatsHold(s)
  PROVE  StatsHold(s)'
<1>1. /\ events # None /\ server' = Received(server, events)
      /\ events' = events /\ lock' = lock /\ run' = run /\ said' = said
  BY DEF Flush, database, sources
<1>2. events \in EventTable /\ server \in EventTable
  BY <1>1 DEF TypeInv, DatabaseTyped, SinkTyped
<1>3. Ahead(events, s) /\ Rising(server, s)
  BY <1>1 DEF StatsHold
<1>4. /\ Rising(server', s)
      /\ Values(server', s) = Values(server, s) \cup Values(events, s)
  <2>1. \A v \in Values(server, s), w \in Values(events, s) \ Values(server, s) : v < w
    BY <1>3 DEF Ahead, Above
  <2> QED
    BY <1>1, <1>2, <1>3, <2>1, RisingReceived DEF Ahead
<1>5. \A v \in Values(server', s) : v <= said'[s]
  BY <1>1, <1>3, <1>4 DEF StatsHold, Ahead
<1>6. Ahead(events, s)'
  <2>1. Rising(events, s) /\ \A v \in Values(events, s) : v <= said[s]
    BY <1>3 DEF Ahead
  <2>2. Above(events, server', s)
    BY <1>4 DEF Above
  <2>3. ASSUME Values(events, s) # {}, NEW w \in Values(server', s)
        PROVE  \E v \in Values(events, s) : w <= v
    <3>1. CASE w \in Values(server, s)
      BY <1>3, <2>3, <3>1 DEF Ahead
    <3>2. CASE w \in Values(events, s)
      <4>1. w <= w
        BY DEF Values
      <4> QED
        BY <3>2, <4>1
    <3> QED
      BY <1>4, <3>1, <3>2
  <2> QED
    BY <1>1, <2>1, <2>2, <2>3 DEF Ahead
<1>7. ASSUME lock' # None
      PROVE  /\ Ahead(run[lock].pending, s)'
             /\ Values(events', s) \subseteq Values(run'[lock'].pending, s)
             /\ Above(run'[lock'].pending, events', s)
  <2> DEFINE t == run[lock].pending
  <2>1. /\ Ahead(t, s) /\ Values(events, s) \subseteq Values(t, s) /\ Above(t, events, s)
    BY <1>1, <1>7 DEF StatsHold
  <2>2. run'[lock'].pending = t
    BY <1>1
  <2> HIDE DEF t
  <2>3. Rising(t, s) /\ \A v \in Values(t, s) : v <= said[s]
    BY <2>1 DEF Ahead
  <2>4. Above(t, server', s)
    BY <1>4, <2>1 DEF Ahead, Above
  <2>5. ASSUME Values(t, s) # {}, NEW w \in Values(server', s)
        PROVE  \E v \in Values(t, s) : w <= v
    <3>1. CASE w \in Values(server, s)
      BY <2>1, <2>5, <3>1 DEF Ahead
    <3>2. CASE w \in Values(events, s)
      <4>1. w <= w
        BY DEF Values
      <4> QED
        BY <2>1, <3>2, <4>1
    <3> QED
      BY <1>4, <3>1, <3>2
  <2> QED
    BY <1>1, <2>1, <2>2, <2>3, <2>4, <2>5 DEF Ahead
<1> QED
  BY <1>1, <1>4, <1>5, <1>6, <1>7 DEF StatsHold

\* What an insert makes of the table.
LEMMA InsertStats ==
  ASSUME TypeInv, NEW p \in Syncer, NEW o \in Session, Insert(p, o),
         NEW s \in Session, said[s] # None, StatsHold(s)
  PROVE  StatsHold(s)'
<1>1. PICK es \in EventTable, table \in EventTable :
        /\ es = EventsOf(o, LastLine(run[p].lines, o), said[o])
        /\ table = IF lock = p THEN run[p].pending ELSE events
        /\ LastLine(run[p].lines, o) \in IndexLine
        /\ run' = [run EXCEPT ![p] =
             [run[p] EXCEPT !.pending = Inserted(table, es),
                            !.wrote = run[p].wrote \o es, !.left = run[p].left \ {o}]]
  BY InsertMakes
<1>2. run \in [Syncer -> RunSet] /\ run[p] \in RunSet /\ said \in [Session -> Nat \cup {None}]
  BY DEF TypeInv, RunsTyped, SourcesTyped
<1>3. /\ lock \in {None, p} /\ lock' = p /\ events # None
      /\ events' = events /\ server' = server /\ said' = said
  BY DEF Insert, database, sink, sources
<1>4. run'[lock'].pending = Inserted(table, es)
  BY <1>1, <1>2, <1>3 DEF RunSet
<1>5. /\ Ahead(table, s) /\ Values(events, s) \subseteq Values(table, s) /\ Above(table, events, s)
  <2>1. p # None
    BY StoreAssumption
  <2>2. CASE lock = p
    BY <1>1, <2>1, <2>2 DEF StatsHold
  <2>3. CASE lock # p
    <3>1. table = events
      BY <1>1, <2>3
    <3>2. Ahead(events, s) /\ Above(events, events, s)
      BY <1>3 DEF StatsHold, Above
    <3> QED
      BY <3>1, <3>2
  <2> QED
    BY <2>2, <2>3
<1>6. /\ Rising(es, s)
      /\ Values(es, s) = IF s = o THEN {said[s]} ELSE {}
  <2>1. /\ Rising(es, s)
        /\ Values(es, s) = IF s = o THEN {StatsOf(said[o])} ELSE {}
    BY <1>1, <1>2, WrittenValues
  <2> QED
    BY <2>1 DEF StatsOf
<1> DEFINE new == Inserted(table, es)
<1>7. Rising(new, s) /\ Values(new, s) = Values(table, s) \cup Values(es, s)
  <2>1. \A v \in Values(table, s), w \in Values(es, s) : v <= w
    BY <1>5, <1>6 DEF Ahead
  <2> QED
    BY <1>5, <1>6, <2>1, RisingInserted DEF Ahead
<1> HIDE DEF new
<1>8. said[s] \in Nat /\ \A v \in Values(es, s) : v = said[s]
  BY <1>2, <1>6
<1>9. \A v \in Values(server, s) \cup Values(events, s) : v \in Nat /\ v <= said[s]
  BY <1>3 DEF StatsHold, Ahead, Values
<1>10. ASSUME NEW v \in Values(es, s), NEW u, v \notin Values(u, s),
              NEW w \in Values(u, s), w <= said[s]
       PROVE  w < v
  <2>1. w # v /\ v = said[s] /\ w \in Nat
    BY <1>8, <1>10 DEF Values
  <2> QED
    BY <1>8, <1>10, <2>1
<1>11. Above(new, server, s) /\ Above(new, events, s)
  <2>1. ASSUME NEW v \in Values(new, s), NEW w \in Values(server, s), v \notin Values(server, s)
        PROVE  w < v
    <3>1. CASE v \in Values(table, s)
      BY <1>5, <2>1, <3>1 DEF Ahead, Above
    <3>2. CASE v \in Values(es, s)
      BY <1>9, <1>10, <2>1, <3>2
    <3> QED
      BY <1>7, <3>1, <3>2
  <2>2. ASSUME NEW v \in Values(new, s), NEW w \in Values(events, s), v \notin Values(events, s)
        PROVE  w < v
    <3>1. CASE v \in Values(table, s)
      BY <1>5, <2>2, <3>1 DEF Above
    <3>2. CASE v \in Values(es, s)
      BY <1>9, <1>10, <2>2, <3>2
    <3> QED
      BY <1>7, <3>1, <3>2
  <2> QED
    BY <2>1, <2>2 DEF Above
<1>12. \A v \in Values(new, s) : v <= said[s]
  <2>1. said[s] <= said[s]
    BY <1>8
  <2> QED
    BY <1>5, <1>7, <1>8, <2>1 DEF Ahead
<1>13. ASSUME Values(new, s) # {}, NEW w \in Values(server, s)
       PROVE  \E v \in Values(new, s) : w <= v
  <2>1. CASE Values(es, s) # {}
    BY <1>7, <1>8, <1>9, <2>1
  <2>2. CASE Values(es, s) = {}
    BY <1>5, <1>7, <1>13, <2>2 DEF Ahead
  <2> QED
    BY <2>1, <2>2
<1>14. Ahead(run[lock].pending, s)'
  BY <1>3, <1>4, <1>7, <1>11, <1>12, <1>13 DEF Ahead, new
<1>15. Values(events', s) \subseteq Values(run'[lock'].pending, s)
  BY <1>3, <1>4, <1>5, <1>7 DEF new
<1>16. Above(run'[lock'].pending, events', s)
  BY <1>3, <1>4, <1>11 DEF new
<1>17. /\ Rising(server', s) /\ \A v \in Values(server', s) : v <= said'[s]
       /\ Ahead(events, s)'
  <2>1. Rising(server, s) /\ (\A v \in Values(server, s) : v <= said[s]) /\ Ahead(events, s)
    BY <1>3 DEF StatsHold
  <2> QED
    BY <1>3, <2>1 DEF Ahead, Above
<1> QED
  BY <1>14, <1>15, <1>16, <1>17 DEF StatsHold

LEMMA CommitStats ==
  ASSUME TypeInv, NEW p \in Syncer, Commit(p), lock = p,
         NEW s \in Session, said[s] # None, StatsHold(s)
  PROVE  StatsHold(s)'
<1>1. /\ events' = run[lock].pending /\ lock' = None /\ lock # None
      /\ server' = server /\ said' = said
  BY StoreAssumption DEF Commit, Ends, sink, sources
<1>2. /\ Rising(server, s) /\ \A v \in Values(server, s) : v <= said[s]
      /\ Ahead(run[lock].pending, s)
  BY <1>1 DEF StatsHold
<1>3. Ahead(events, s)' /\ Rising(server', s) /\ \A v \in Values(server', s) : v <= said'[s]
  BY <1>1, <1>2 DEF Ahead, Above
<1> QED
  BY <1>1, <1>3 DEF StatsHold

LEMMA StepStats == TypeInv /\ StatsInv /\ [Next]_vars => StatsInv'
<1> SUFFICES ASSUME TypeInv, StatsInv, [Next]_vars, NEW s \in Session, said'[s] # None
             PROVE  StatsHold(s)'
  BY DEF StatsInv
<1>0. /\ said \in [Session -> Nat \cup {None}] /\ run \in [Syncer -> RunSet]
      /\ lock \in Syncer \cup {None}
  BY DEF TypeInv, SourcesTyped, RunsTyped, LockTyped
<1>1. CASE \E o \in Session : Say(o)
  <2>1. PICK o \in Session : Say(o)
    BY <1>1
  <2>2. said[s] # None
    BY <1>0, <2>1 DEF Say
  <2> QED
    BY <2>1, <2>2, SayStats DEF StatsInv
<1>2. CASE ~\E o \in Session : Say(o)
  <2>1. said'[s] = said[s]
    <3>1. CASE \E o \in Session : DeleteTranscript(o)
      BY <1>0, <3>1 DEF DeleteTranscript
    <3>2. CASE ~\E o \in Session : DeleteTranscript(o)
      BY <1>2, <3>2 DEF Next, SyncStep, EnsureSchema, CheckHash, DropLegacy, DropEvents, DropMeta,
           CreateMeta, CreateEvents, DropViews, CreateViews, WriteHash, StatementFails, Statement,
           ReadIndex, Insert, InsertFails, Commit, Fail, Begin, WriteIndex, Flush, sources, vars
    <3> QED
      BY <3>1, <3>2
  <2>2. said[s] # None /\ StatsHold(s)
    BY <2>1 DEF StatsInv
  <2>3. CASE Flush
    BY <2>2, <2>3, FlushStats
  <2>4. CASE \E p \in Syncer : Commit(p) /\ lock = p
    BY <2>2, <2>4, CommitStats
  <2>5. CASE \E p \in Syncer, o \in Session : Insert(p, o)
    BY <2>2, <2>5, InsertStats
  <2>6. CASE UNCHANGED vars \/ (WorldStep /\ ~Flush)
    <3>1. server' = server /\ events' = events /\ lock' = lock /\ run' = run
      BY <2>6 DEF WorldStep, WriteIndex, Say, DeleteTranscript, vars, database, sink
    <3> QED
      BY <2>1, <2>2, <3>1, SameStats
  <2>7. ASSUME NEW p \in Syncer, Ends(p), server' = server, events' = events
        PROVE  StatsHold(s)'
    <3>1. lock' = None \/ (lock' = lock /\ run'[lock].pending = run[lock].pending)
      BY <1>0, <2>7 DEF Ends
    <3> QED
      BY <2>1, <2>2, <2>7, <3>1, SameStats
  <2>8. ASSUME NEW p \in Syncer, EnsureSchema(p) PROVE StatsHold(s)'
    <3>1. CASE (CheckHash(p) /\ Ends(p)) \/ StatementFails(p)
      <4>1. Ends(p) /\ server' = server /\ events' = events
        BY <3>1 DEF CheckHash, StatementFails, database, sink
      <4> QED
        BY <2>7, <4>1
    <3>2. CASE CheckHash(p) /\ ~Ends(p)
      <4>1. /\ server' = server /\ events' = events /\ lock' = lock
            /\ run' = run \/ run' = [run EXCEPT ![p].rebuild = TRUE]
        BY <3>2 DEF CheckHash, database, sink
      <4>2. lock' = None \/ run'[lock].pending = run[lock].pending
        <5>1. CASE lock = None
          BY <4>1, <5>1
        <5>2. CASE lock \in Syncer
          <6>1. run[lock] \in RunSet
            BY <1>0, <5>2
          <6> QED
            BY <1>0, <4>1, <5>2, <6>1 DEF RunSet
        <5> QED
          BY <1>0, <5>1, <5>2
      <4> QED
        BY <2>1, <2>2, <4>1, <4>2, SameStats
    <3>3. CASE ~CheckHash(p) /\ ~StatementFails(p)
      <4>1. /\ server' = server /\ lock' = None
            /\ events' = events \/ events' = None \/ events' = <<>>
        BY <2>8, <3>3 DEF EnsureSchema, Statement, DropLegacy, DropEvents,
             DropMeta, CreateMeta, CreateEvents, DropViews, CreateViews, WriteHash, database, sink
      <4> QED
        BY <2>1, <2>2, <4>1, SameStats
    <3> QED
      BY <3>1, <3>2, <3>3
  <2>9. ASSUME NEW p \in Syncer, InsertFails(p) \/ Fail(p) \/ (Commit(p) /\ lock # p)
        PROVE  StatsHold(s)'
    <3>1. Ends(p) /\ server' = server /\ events' = events
      BY <2>9 DEF InsertFails, Fail, Commit, database, sink
    <3> QED
      BY <2>7, <3>1
  <2>10. ASSUME NEW p \in Syncer, ReadIndex(p) \/ \E agents \in Asked : Begin(p, agents)
         PROVE  StatsHold(s)'
    <3>1. server' = server /\ events' = events /\ lock' = lock
      BY <2>10 DEF ReadIndex, Begin, database, sink
    <3>2. lock = None \/ run'[lock].pending = run[lock].pending
      <4>1. CASE ReadIndex(p)
        <5>1. PICK a \in Agent :
                run' = [run EXCEPT ![p] =
                  [run[p] EXCEPT !.lines = LinesOf(a), !.left = SessionsIn(LinesOf(a)),
                                 !.todo = Tail(run[p].todo)]]
          BY <4>1, ReadIndexMakes
        <5>2. run[p] \in RunSet
          BY <1>0
        <5>3. lock \in Syncer => run'[lock].pending = run[lock].pending
          BY <1>0, <5>1, <5>2 DEF RunSet
        <5> QED
          BY <1>0, <5>3
      <4>2. CASE \E agents \in Asked : Begin(p, agents)
        <5>1. PICK agents \in Asked : run' = [run EXCEPT ![p].todo = agents]
          BY <4>2 DEF Begin
        <5>2. run[p] \in RunSet
          BY <1>0
        <5>3. lock \in Syncer => run'[lock].pending = run[lock].pending
          BY <1>0, <5>1, <5>2 DEF RunSet
        <5> QED
          BY <1>0, <5>3
      <4> QED
        BY <2>10, <4>1, <4>2
    <3> QED
      BY <2>1, <2>2, <3>1, <3>2, SameStats
  <2> QED
    BY <2>3, <2>4, <2>5, <2>6, <2>8, <2>9, <2>10 DEF Next, SyncStep, WorldStep
<1> QED
  BY <1>1, <1>2

\* Once the server has all events of the client, it shows the same stats of
\* every session whose transcript is there: whatever overlapped, whatever was
\* rebuilt, and whatever order the events arrived in.
THEOREM StatsCorrect == Spec => []ServerStatsAreCurrent
<1>1. Init => TypeInv /\ StatsInv
  BY InitTyped, InitStats
<1>2. TypeInv /\ StatsInv /\ [Next]_vars => (TypeInv /\ StatsInv)'
  BY StepTyped, StepStats
<1>3. TypeInv /\ StatsInv => ServerStatsAreCurrent
  <2> SUFFICES ASSUME TypeInv, StatsInv, events # None, ToSet(events) \subseteq ToSet(server),
                      NEW s \in Session, said[s] # None, Latest(events, s, "scanned") # None
               PROVE  Latest(server, s, "scanned") = Latest(events, s, "scanned")
    BY DEF ServerStatsAreCurrent
  <2>1. events \in EventTable /\ server \in EventTable
    BY DEF TypeInv, DatabaseTyped, SinkTyped
  <2>2. Rising(server, s) /\ Ahead(events, s) /\ Rising(events, s)
    BY DEF StatsInv, StatsHold, Ahead
  <2>3. Places(events, s, "scanned") # {}
    BY LatestOfNothing
  <2> DEFINE mine == Latest(events, s, "scanned")
             theirs == Latest(server, s, "scanned")
  <2>4. mine \in Values(events, s) /\ \A v \in Values(events, s) : v <= mine
    BY <2>1, <2>2, <2>3, LatestOfRising
  <2>5. mine \in Values(server, s)
    BY <2>4 DEF Values
  <2>6. Places(server, s, "scanned") # {}
    BY <2>1, <2>5, PlaceOf
  <2>7. theirs \in Values(server, s) /\ \A v \in Values(server, s) : v <= theirs
    BY <2>1, <2>2, <2>6, LatestOfRising
  <2> HIDE DEF mine, theirs
  <2>8. PICK v \in Values(events, s) : theirs <= v
    BY <2>2, <2>4, <2>7 DEF Ahead
  <2>9. mine <= theirs /\ theirs <= v /\ v <= mine
    BY <2>4, <2>5, <2>7, <2>8
  <2>10. mine \in Nat /\ theirs \in Nat /\ v \in Nat
    BY <2>4, <2>7 DEF Values
  <2>11. mine = theirs
    BY <2>9, <2>10
  <2> QED
    BY <2>11 DEF mine, theirs
<1> QED
  BY <1>1, <1>2, <1>3, PTL DEF Spec
=============================================================================
