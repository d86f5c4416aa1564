---------------------------- MODULE LineLoopProofs ----------------------------
(***************************************************************************)
(* What a loop over lines computes: that the recursion of LineLoop defines *)
(* what it says, for any step and a file of any length.  Instantiated with *)
(* the step of a parser, this is the induction over the lines it reads.    *)
(***************************************************************************)
EXTENDS LineLoop, NumberLemmas

\* What was read after each of the first k lines.
IsRead(read, file, k) ==
  read = [n \in 0..k |-> IF n = 0 THEN Start ELSE Read(read[n - 1], file[n])]

\* Line by line: read[n] is what n lines of the file make.
History(read, file) ==
  /\ DOMAIN read = 0..Len(file)
  /\ read[0] = Start
  /\ \A n \in 1..Len(file) : read[n] = Read(read[n - 1], file[n])

\* There is something that was read after the first lines, however many.
LEMMA IsReadUpTo ==
  ASSUME NEW S, NEW file \in Seq(S)
  PROVE  \A k \in 0..Len(file) : \E read : IsRead(read, file, k)
<1> DEFINE Good == {k \in Nat : k <= Len(file) => \E read : IsRead(read, file, k)}
<1>1. 0 \in Good
  <2> DEFINE read == [n \in 0..0 |-> Start]
  <2>1. read = [n \in 0..0 |-> IF n = 0 THEN Start ELSE Read(read[n - 1], file[n])]
    OBVIOUS
  <2> HIDE DEF read
  <2> QED
    BY <2>1, Zenon DEF IsRead
<1>2. ASSUME NEW k \in Good PROVE k + 1 \in Good
  <2> SUFFICES ASSUME k + 1 <= Len(file) PROVE \E read : IsRead(read, file, k + 1)
    OBVIOUS
  <2>1. k \in Nat /\ Len(file) \in Nat
    OBVIOUS
  <2>2. PICK read : IsRead(read, file, k)
    BY <2>1
  <2> DEFINE more == [n \in 0..(k + 1) |->
                        IF n = k + 1 THEN Read(read[k], file[k + 1]) ELSE read[n]]
  <2>3. \A n \in 0..(k + 1) : more[n] = IF n = 0 THEN Start ELSE Read(more[n - 1], file[n])
    <3> TAKE n \in 0..(k + 1)
    <3>1. CASE n = k + 1
      <4>1. more[n - 1] = read[k] /\ more[n] = Read(read[k], file[k + 1])
        BY <2>1, <3>1
      <4> HIDE DEF more
      <4> QED
        BY <2>1, <3>1, <4>1
    <3>2. CASE n # k + 1
      <4>1. n \in 0..k
        BY <2>1, <3>2
      <4>2. more[n] = read[n] /\ (n # 0 => more[n - 1] = read[n - 1])
        BY <2>1, <4>1
      <4>3. read[n] = IF n = 0 THEN Start ELSE Read(read[n - 1], file[n])
        BY <2>2, <4>1, Zenon DEF IsRead
      <4> HIDE DEF more
      <4> QED
        BY <4>2, <4>3
    <3> QED
      BY <3>1, <3>2
  <2>4. more = [n \in 0..(k + 1) |-> more[n]]
    OBVIOUS
  <2> HIDE DEF more
  <2>5. IsRead(more, file, k + 1)
    BY <2>3, <2>4 DEF IsRead
  <2> QED
    BY <2>5
<1>3. \A k \in Nat : k \in Good
  <2> HIDE DEF Good
  <2> QED
    BY <1>1, <1>2, NumbersFollow
<1> QED
  BY <1>3

\* What the loop ends with has been read line by line.
LEMMA LoopReads ==
  ASSUME NEW S, NEW file \in Seq(S)
  PROVE  \E read : History(read, file) /\ After(file) = read[Len(file)]
<1> DEFINE read[n \in 0..Len(file)] == IF n = 0 THEN Start ELSE Read(read[n - 1], file[n])
<1>1. Len(file) \in Nat
  OBVIOUS
<1>2. \E r : r = [n \in 0..Len(file) |-> IF n = 0 THEN Start ELSE Read(r[n - 1], file[n])]
  BY <1>1, IsReadUpTo DEF IsRead
<1>3. read = [n \in 0..Len(file) |-> IF n = 0 THEN Start ELSE Read(read[n - 1], file[n])]
  BY <1>2, Zenon
<1>4. After(file) = read[Len(file)]
  BY Zenon DEF After
<1> HIDE DEF read
<1>5. DOMAIN read = 0..Len(file)
  BY <1>3, Zenon
<1>6. \A n \in 0..Len(file) : read[n] = IF n = 0 THEN Start ELSE Read(read[n - 1], file[n])
  BY <1>3, Zenon
<1> QED
  BY <1>1, <1>4, <1>5, <1>6 DEF History

\* There is only one way to read a file.
LEMMA HistoryIsOne ==
  ASSUME NEW S, NEW file \in Seq(S), NEW longer \in Seq(S), Len(file) <= Len(longer),
         \A i \in 1..Len(file) : longer[i] = file[i],
         NEW read, NEW more, History(read, file), History(more, longer)
  PROVE  \A n \in 0..Len(file) : more[n] = read[n]
<1> DEFINE Good == {n \in Nat : n <= Len(file) => more[n] = read[n]}
<1>1. 0 \in Good
  BY DEF History
<1>2. ASSUME NEW k \in Good PROVE k + 1 \in Good
  <2> SUFFICES ASSUME k + 1 <= Len(file) PROVE more[k + 1] = read[k + 1]
    OBVIOUS
  <2>1. k \in Nat /\ k + 1 \in 1..Len(file) /\ k + 1 \in 1..Len(longer) /\ (k + 1) - 1 = k
    OBVIOUS
  <2>2. more[k] = read[k] /\ longer[k + 1] = file[k + 1]
    BY <2>1
  <2>3. read[k + 1] = Read(read[k], file[k + 1])
    BY <2>1 DEF History
  <2>4. more[k + 1] = Read(more[k], longer[k + 1])
    BY <2>1 DEF History
  <2> QED
    BY <2>2, <2>3, <2>4
<1>3. \A k \in Nat : k \in Good
  <2> HIDE DEF Good
  <2> QED
    BY <1>1, <1>2, NumbersFollow
<1> QED
  BY <1>3

\* One more line: one more step.
LEMMA LoopAppends ==
  ASSUME NEW S, NEW file \in Seq(S), NEW line \in S
  PROVE  After(Append(file, line)) = Read(After(file), line)
<1> DEFINE longer == Append(file, line)
<1>1. /\ longer \in Seq(S) /\ Len(longer) = Len(file) + 1 /\ Len(file) \in Nat
      /\ longer[Len(file) + 1] = line
      /\ \A i \in 1..Len(file) : longer[i] = file[i]
  OBVIOUS
<1> HIDE DEF longer
<1>2. PICK read : History(read, file) /\ After(file) = read[Len(file)]
  BY LoopReads
<1>3. PICK more : History(more, longer) /\ After(longer) = more[Len(longer)]
  BY <1>1, LoopReads
<1>4. more[Len(file)] = read[Len(file)]
  BY <1>1, <1>2, <1>3, HistoryIsOne
<1>5. more[Len(file) + 1] = Read(more[Len(file)], line)
  BY <1>1, <1>3 DEF History
<1>6. After(longer) = Read(After(file), line)
  BY <1>1, <1>2, <1>3, <1>4, <1>5
<1> QED
  BY <1>6 DEF longer

\* No line: nothing read.
LEMMA LoopOfNothing == After(<<>>) = Start
<1>1. <<>> \in Seq({})
  OBVIOUS
<1>2. PICK read : History(read, <<>>) /\ After(<<>>) = read[Len(<<>>)]
  BY <1>1, LoopReads
<1> QED
  BY <1>2 DEF History

\* What each step keeps in a set, the loop ends in.
LEMMA LoopKeeps ==
  ASSUME NEW S, NEW file \in Seq(S), NEW T, Start \in T,
         \A s \in T, l \in S : Read(s, l) \in T
  PROVE  /\ After(file) \in T
         /\ \A read : History(read, file) => \A n \in 0..Len(file) : read[n] \in T
<1>1. ASSUME NEW read, History(read, file) PROVE \A n \in 0..Len(file) : read[n] \in T
  <2> DEFINE Good == {n \in Nat : n <= Len(file) => read[n] \in T}
  <2>1. 0 \in Good
    BY <1>1 DEF History
  <2>2. ASSUME NEW k \in Good PROVE k + 1 \in Good
    <3> SUFFICES ASSUME k + 1 <= Len(file) PROVE read[k + 1] \in T
      OBVIOUS
    <3>1. k \in Nat /\ k + 1 \in 1..Len(file) /\ (k + 1) - 1 = k
      OBVIOUS
    <3>2. read[k] \in T /\ file[k + 1] \in S
      BY <3>1
    <3> QED
      BY <1>1, <3>1, <3>2 DEF History
  <2>3. \A k \in Nat : k \in Good
    <3> HIDE DEF Good
    <3> QED
      BY <2>1, <2>2, NumbersFollow
  <2> QED
    BY <2>3
<1>2. PICK read : History(read, file) /\ After(file) = read[Len(file)]
  BY LoopReads
<1>3. Len(file) \in 0..Len(file)
  OBVIOUS
<1> QED
  BY <1>1, <1>2, <1>3
===============================================================================
