-------------------------- MODULE TranscribeProofs --------------------------
(***************************************************************************)
(* What holds of an inference and of its captions for every length of      *)
(* audio, every size of the windows and every report of the recognizer.    *)
(*                                                                         *)
(*   - The windows cover the audio: Progress says which samples the        *)
(*     current one has.                                                    *)
(*   - What merging makes of two lists is Seamed: a beginning of the old   *)
(*     one and an end of the new one, and maybe words of both between      *)
(*     them, in order.                                                     *)
(*   - Windows go forward by an even number of milliseconds, so that the   *)
(*     end of the audio is rounded alike in the window and in the whole:   *)
(*     no word of a window ends after the audio.                           *)
(*   - Transcript puts these together: at every moment the words so far    *)
(*     are in order, each longer than nothing and inside the audio.  So    *)
(*     the result is valid, and its captions are in time.                  *)
(*   - Group cuts the list at some ends (Cuts), and knows the characters   *)
(*     of the caption it is at: Grouped is the invariant of its loop.      *)
(*                                                                         *)
(* Recursive functions and counts are reasoned about by induction over the *)
(* natural numbers, which follows from the least of a set of them.         *)
(***************************************************************************)
EXTENDS Captions, FiniteSetTheorems, WellFoundedInduction, TLAPS

-----------------------------------------------------------------------------
(* Natural numbers *)

\* Every set of natural numbers has a least one.
LEMMA Least ==
    ASSUME NEW S \in SUBSET Nat, NEW n \in S
    PROVE  \E m \in S : \A k \in S : m <= k
<1>1. \E R : IsWellFoundedOn(R, Nat) /\ \A x, y \in Nat : <<y, x>> \in R <=> y < x
  <2>1. \A x, y \in Nat : <<y, x>> \in OpToRel(<, Nat) <=> y < x
    BY DEF OpToRel
  <2> QED
    BY <2>1, NatLessThanWellFounded
<1>2. PICK R :
         IsWellFoundedOn(R, Nat) /\ \A x, y \in Nat : <<y, x>> \in R <=> y < x
  BY <1>1
<1>3. \E x \in S : \A y \in S : ~(<<y, x>> \in R)
  BY <1>2, WFMin
<1>4. PICK x \in S : \A y \in S : ~(<<y, x>> \in R)
  BY <1>3
<1>5. ASSUME NEW y \in S PROVE x <= y
  <2>1. ~(<<y, x>> \in R) /\ x \in Nat /\ y \in Nat
    BY <1>4
  <2>2. ~(y < x)
    BY <1>2, <2>1
  <2> QED
    BY <2>1, <2>2
<1> QED
  BY <1>5

\* So what holds of 0, and of n + 1 when it holds of n, holds of all of them.
LEMMA Induction ==
    ASSUME NEW S, 0 \in S, \A n \in Nat : n \in S => n + 1 \in S
    PROVE  Nat \subseteq S
<1> SUFFICES ASSUME NEW n \in Nat, n \notin S PROVE FALSE
  OBVIOUS
<1>1. PICK m \in Nat \ S : \A k \in Nat \ S : m <= k
  BY Least
<1>2. m # 0 /\ m - 1 \in Nat
  BY <1>1
<1>3. m - 1 \in S
  BY <1>1, <1>2
<1> QED
  BY <1>1, <1>2, <1>3

-----------------------------------------------------------------------------
(* Sets of positions, sorted *)

\* How many positions of S there are up to i.
Rank(S, i) == Cardinality({j \in S : j <= i})

\* How it counts: nothing before the first one, one more at each of S.
LEMMA RankFacts ==
    ASSUME NEW n \in Nat, NEW S, \A x \in S : x \in 1 .. n, NEW i \in Nat
    PROVE  /\ IsFiniteSet(S) /\ Cardinality(S) \in Nat
           /\ Rank(S, i) \in Nat /\ Rank(S, i) <= Cardinality(S)
           /\ \A k \in Nat : i <= k => Rank(S, i) <= Rank(S, k)
           /\ i # 0 => Rank(S, i) = IF i \in S THEN Rank(S, i - 1) + 1
                                    ELSE Rank(S, i - 1)
           /\ Rank(S, 0) = 0 /\ Rank(S, n) = Cardinality(S)
<1> DEFINE Up(k) == {j \in S : j <= k}
<1>1. IsFiniteSet(S) /\ Cardinality(S) \in Nat
  <2>1. S \subseteq 1 .. n
    OBVIOUS
  <2>2. IsFiniteSet(1 .. n)
    BY FS_Interval
  <2> QED
    BY <2>1, <2>2, FS_Subset, FS_CardinalityType
<1>2. \A k : IsFiniteSet(Up(k)) /\ Cardinality(Up(k)) \in Nat
             /\ Cardinality(Up(k)) <= Cardinality(S)
  BY <1>1, FS_Subset, FS_CardinalityType
<1>3. ASSUME NEW k \in Nat, i <= k
      PROVE  Cardinality(Up(i)) <= Cardinality(Up(k))
  <2>1. Up(i) \subseteq Up(k)
    BY <1>3
  <2> QED
    BY <1>2, <2>1, FS_Subset
<1>4. ASSUME i # 0
      PROVE  Cardinality(Up(i)) = IF i \in S THEN Cardinality(Up(i - 1)) + 1
                                  ELSE Cardinality(Up(i - 1))
  <2>1. i \notin Up(i - 1)
    OBVIOUS
  <2>2. CASE i \in S
    <3>1. Up(i) = Up(i - 1) \cup {i}
      <4>1. \A j \in S : j <= i <=> j <= i - 1 \/ j = i
        BY <1>4
      <4> QED
        BY <4>1, <2>2
    <3>2. Cardinality(Up(i - 1) \cup {i}) = Cardinality(Up(i - 1)) + 1
      BY <1>2, <2>1, FS_AddElement
    <3> QED
      BY <2>2, <3>1, <3>2
  <2>3. CASE i \notin S
    <3>1. Up(i) = Up(i - 1)
      BY <1>4, <2>3
    <3> QED
      BY <2>3, <3>1
  <2> QED
    BY <2>2, <2>3
<1>5. Up(0) = {} /\ Up(n) = S
  OBVIOUS
<1>6. Cardinality(Up(0)) = 0 /\ Cardinality(Up(n)) = Cardinality(S)
  BY <1>5, FS_EmptySet
<1> QED
  BY <1>1, <1>2, <1>3, <1>4, <1>6 DEF Rank

\* Of two positions, the later one has the higher rank.
LEMMA RankGrows ==
    ASSUME NEW n \in Nat, NEW S, \A x \in S : x \in 1 .. n, NEW i \in S, NEW j \in S, i < j
    PROVE  Rank(S, i) < Rank(S, j)
<1>1. i \in Nat /\ j \in Nat /\ j # 0 /\ j - 1 \in Nat /\ i <= j - 1
  OBVIOUS
<1>2. Rank(S, i) \in Nat /\ Rank(S, i) <= Rank(S, j - 1)
  <2>1. \A k \in Nat : i <= k => Rank(S, i) <= Rank(S, k)
    BY <1>1, RankFacts
  <2> QED
    BY <1>1, <2>1, RankFacts
<1>3. Rank(S, j - 1) \in Nat
  BY <1>1, RankFacts
<1>4. Rank(S, j) = Rank(S, j - 1) + 1
  BY <1>1, RankFacts
<1> QED
  BY <1>2, <1>3, <1>4

\* Sorted lists the positions by their ranks.
LEMMA SortedAt ==
    ASSUME NEW n \in Nat, NEW S, \A x \in S : x \in 1 .. n, NEW k \in 1 .. Cardinality(S)
    PROVE  Sorted(S)[k] \in S /\ Rank(S, Sorted(S)[k]) = k
<1> DEFINE T == {m \in Nat : Rank(S, m) >= k}
<1>1. n \in T /\ T \in SUBSET Nat /\ Cardinality(S) \in Nat
  BY RankFacts
<1>2. PICK m \in T : \A l \in T : m <= l
  BY <1>1, Least
<1>3. m \in Nat /\ Rank(S, m) >= k /\ m # 0
  BY <1>1, <1>2, RankFacts
<1>4. m - 1 \in Nat /\ m - 1 \notin T
  BY <1>2, <1>3
<1>5. Rank(S, m - 1) \in Nat /\ Rank(S, m - 1) < k
  BY <1>1, <1>4, RankFacts
<1>6. m \in S /\ Rank(S, m) = k
  BY <1>1, <1>3, <1>5, RankFacts
<1>7. Sorted(S)[k] = CHOOSE i \in S : Rank(S, i) = k
  BY DEF Sorted, Rank
<1> QED
  BY <1>6, <1>7

\* A sorted set is a sequence of all its members.
LEMMA SortedLen ==
    ASSUME NEW n \in Nat, NEW S, \A x \in S : x \in 1 .. n
    PROVE  /\ Sorted(S) \in Seq(1 .. n) /\ Len(Sorted(S)) = Cardinality(S)
           /\ DOMAIN Sorted(S) = 1 .. Cardinality(S) /\ Cardinality(S) \in Nat
<1>1. Cardinality(S) \in Nat
  BY RankFacts
<1>2. \A k \in 1 .. Cardinality(S) : Sorted(S)[k] \in 1 .. n
  BY SortedAt
<1>3. Sorted(S) = [k \in 1 .. Cardinality(S) |-> Sorted(S)[k]]
  BY DEF Sorted
<1> QED
  BY <1>1, <1>2, <1>3

\* Each position is at its rank.
LEMMA SortedRank ==
    ASSUME NEW n \in Nat, NEW S, \A x \in S : x \in 1 .. n, NEW i \in S
    PROVE  /\ Rank(S, i) \in 1 .. Cardinality(S)
           /\ Sorted(S)[Rank(S, i)] = i
<1>1. /\ i \in Nat /\ i # 0 /\ i - 1 \in Nat /\ Cardinality(S) \in Nat
      /\ Rank(S, i) \in Nat /\ Rank(S, i) <= Cardinality(S)
      /\ Rank(S, i) = Rank(S, i - 1) + 1 /\ Rank(S, i - 1) \in Nat
  BY RankFacts, SMTT(30)
<1>2. Rank(S, i) \in 1 .. Cardinality(S)
  BY <1>1
<1> DEFINE j == Sorted(S)[Rank(S, i)]
<1>3. j \in S /\ Rank(S, j) = Rank(S, i)
  BY <1>2, SortedAt
<1> HIDE DEF j
<1>4. ~(i < j)
  <2> SUFFICES ASSUME i < j PROVE FALSE
    OBVIOUS
  <2>1. Rank(S, i) < Rank(S, j)
    BY <1>3, RankGrows
  <2> QED
    BY <1>1, <1>3, <2>1
<1>5. ~(j < i)
  <2> SUFFICES ASSUME j < i PROVE FALSE
    OBVIOUS
  <2>1. Rank(S, j) < Rank(S, i)
    BY <1>3, RankGrows
  <2> QED
    BY <1>1, <1>3, <2>1
<1>6. i \in Int /\ j \in Int
  BY <1>3
<1>7. j = i
  BY <1>4, <1>5, <1>6
<1> QED
  BY <1>2, <1>7 DEF j

\* A beginning of the positions keeps its place.
LEMMA SortedBeginning ==
    ASSUME NEW n \in Nat, NEW S, \A x \in S : x \in 1 .. n, NEW m \in 0 .. n,
           \A x \in 1 .. m : x \in S, NEW k \in 1 .. m
    PROVE  k \in 1 .. Cardinality(S) /\ Sorted(S)[k] = k
<1>1. {j \in S : j <= k} = 1 .. k
  OBVIOUS
<1>2. Rank(S, k) = k
  <2>1. Cardinality(1 .. k) = k
    BY FS_Interval
  <2> QED
    BY <1>1, <2>1 DEF Rank
<1> QED
  BY <1>2, SortedRank

\* And so does an end of them, counted from behind.
LEMMA SortedEnd ==
    ASSUME NEW n \in Nat, NEW S, \A x \in S : x \in 1 .. n, NEW m \in 1 .. n + 1,
           \A x \in m .. n : x \in S, NEW k \in m .. n
    PROVE  /\ Cardinality(S) - (n - k) \in 1 .. Cardinality(S)
           /\ Sorted(S)[Cardinality(S) - (n - k)] = k
<1> DEFINE A == {j \in S : j <= k}
           B == k + 1 .. n
<1>1. S = A \cup B /\ A \cap B = {}
  OBVIOUS
<1>2. IsFiniteSet(A) /\ IsFiniteSet(B) /\ Cardinality(B) = n - k /\ n - k \in Nat
  <2>1. IsFiniteSet(A)
    BY FS_Interval, FS_Subset
  <2>2. IsFiniteSet(B) /\ Cardinality(B) = IF k + 1 > n THEN 0 ELSE n - (k + 1) + 1
    BY FS_Interval
  <2> QED
    BY <2>1, <2>2
<1>3. Cardinality(A) \in Nat
  BY <1>2, FS_CardinalityType
<1>4. Cardinality(A \cup B) = Cardinality(A) + Cardinality(B)
  <2>1. Cardinality(A \cup B) =
           Cardinality(A) + Cardinality(B) - Cardinality(A \cap B)
    BY <1>2, FS_Union
  <2>2. Cardinality(A \cap B) = 0
    BY <1>1, FS_EmptySet
  <2> QED
    BY <1>2, <1>3, <2>1, <2>2
<1>5. Rank(S, k) = Cardinality(S) - (n - k)
  <2>1. Cardinality(S) = Cardinality(A) + (n - k)
    BY <1>1, <1>2, <1>4
  <2>2. Rank(S, k) = Cardinality(A)
    BY DEF Rank
  <2> HIDE DEF A
  <2> QED
    BY <1>2, <1>3, <2>1, <2>2
<1> QED
  BY <1>5, SortedRank

\* Positions that begin at the first one are those up to some m.
LEMMA Beginning ==
    ASSUME NEW n \in Nat, NEW S,
           \A i \in 1 .. n : i \in S => \A j \in 1 .. n : j <= i => j \in S
    PROVE  \E m \in 0 .. n : \A i \in 1 .. n : i \in S <=> i <= m
<1> DEFINE Out == {k \in Nat : k \in 1 .. n + 1 /\ (k <= n => k \notin S)}
<1>1. Out \in SUBSET Nat /\ n + 1 \in Out
  OBVIOUS
<1>2. PICK k \in Out : \A l \in Out : k <= l
  BY <1>1, Least
<1>3. k \in 1 .. n + 1 /\ (k <= n => k \notin S)
  BY <1>2
<1>4. ASSUME NEW i \in 1 .. n PROVE i \in S <=> i <= k - 1
  <2>1. CASE i < k
    <3>1. i \notin Out
      BY <1>2, <1>3, <2>1
    <3> QED
      BY <1>3, <2>1, <3>1
  <2>2. CASE k <= i
    <3>1. k \in 1 .. n /\ k \notin S
      BY <1>3, <2>2
    <3>2. i \notin S
      BY <2>2, <3>1
    <3> QED
      BY <1>3, <2>2, <3>2
  <2> QED
    BY <1>3, <2>1, <2>2
<1>5. k - 1 \in 0 .. n
  BY <1>3
<1> QED
  BY <1>4, <1>5

-----------------------------------------------------------------------------
(* Words *)

Word == [text : Text, start : Nat, end : Nat]

\* What merge_words gets: words of a window, or of the transcript so far.
Timed(list) ==
    /\ list \in Seq(Word)
    /\ Ordered(list)
    /\ \A i \in DOMAIN list : list[i].start <= list[i].end

\* No word goes back behind any of those before it.
LEMMA OrderedAll ==
    ASSUME NEW list \in Seq(Word), Ordered(list),
           NEW i \in DOMAIN list, NEW j \in DOMAIN list, i <= j
    PROVE  list[i].start <= list[j].start /\ list[i].end <= list[j].end
<1> DEFINE Later(k) == /\ list[i].start <= list[k].start
                       /\ list[i].end <= list[k].end
           S == {d \in Nat : i + d <= Len(list) => Later(i + d)}
<1>1. i \in 1 .. Len(list) /\ j \in 1 .. Len(list) /\ Len(list) \in Nat
  OBVIOUS
<1>0. ASSUME NEW k \in 1 .. Len(list)
      PROVE  list[k].start \in Nat /\ list[k].end \in Nat
  <2>1. list[k] \in Word
    OBVIOUS
  <2> QED
    BY <2>1 DEF Word
<1>2. 0 \in S
  <2>1. i + 0 = i /\ Later(i)
    BY <1>0, <1>1
  <2> QED
    BY <2>1
<1>3. ASSUME NEW d \in Nat, d \in S PROVE d + 1 \in S
  <2> SUFFICES ASSUME i + d + 1 <= Len(list) PROVE Later(i + d + 1)
    BY <1>1
  <2>1. i + d \in 1 .. Len(list) - 1 /\ i + d + 1 \in 1 .. Len(list)
    BY <1>1
  <2>2. Later(i + d)
    BY <1>1, <1>3
  <2>3. /\ list[i + d].start <= list[i + d + 1].start
        /\ list[i + d].end <= list[i + d + 1].end
    BY <2>1 DEF Ordered
  <2>4. list[i].start \in Nat /\ list[i].end \in Nat
    BY <1>0, <1>1
  <2>5. i + d \in 1 .. Len(list)
    BY <1>1, <2>1
  <2>6. list[i + d].start \in Nat /\ list[i + d].end \in Nat
    BY <1>0, <2>5
  <2>7. list[i + d + 1].start \in Nat /\ list[i + d + 1].end \in Nat
    BY <1>0, <2>1
  <2> QED
    BY <2>2, <2>3, <2>4, <2>6, <2>7, SMTT(30)
<1>4. Nat \subseteq S
  <2> HIDE DEF S
  <2> QED
    BY <1>2, <1>3, Induction
<1>5. j - i \in S
  BY <1>1, <1>4
<1> QED
  BY <1>1, <1>5

\* A beginning of the words, chosen.
LEMMA ChosenBeginning ==
    ASSUME NEW X, NEW list \in Seq(X), NEW S, NEW m \in 0 .. Len(list),
           \A i \in S : i \in 1 .. Len(list),
           \A i \in 1 .. Len(list) : i \in S <=> i <= m
    PROVE  Cardinality(S) = m /\ Chosen(list, S) = SubSeq(list, 1, m)
<1>1. S = 1 .. m /\ Cardinality(1 .. m) = m
  <2>1. S = 1 .. m
    <3>1. Len(list) \in Nat
      OBVIOUS
    <3>2. \A i \in S : i \in 1 .. m
      BY <3>1
    <3>3. \A i \in 1 .. m : i \in S
      BY <3>1
    <3> QED
      BY <3>2, <3>3
  <2>2. Cardinality(1 .. m) = m
    BY FS_Interval
  <2> QED
    BY <2>1, <2>2
<1>2. DOMAIN Sorted(S) = 1 .. m
  BY <1>1, SortedLen
<1>3. ASSUME NEW k \in 1 .. m PROVE Sorted(S)[k] = k
  <2>1. \A i \in 1 .. m : i \in S
    BY <1>1
  <2> QED
    BY <2>1, SortedBeginning
<1>4. Chosen(list, S) = [k \in 1 .. m |-> list[k]]
  BY <1>2, <1>3 DEF Chosen
<1>5. SubSeq(list, 1, m) = [k \in 1 .. m |-> list[k]]
  OBVIOUS
<1> QED
  BY <1>1, <1>4, <1>5

\* An end of the words, chosen.
LEMMA ChosenEnd ==
    ASSUME NEW X, NEW list \in Seq(X), NEW S, NEW m \in 1 .. Len(list) + 1,
           \A i \in S : i \in 1 .. Len(list),
           \A i \in 1 .. Len(list) : i \in S <=> m <= i
    PROVE  /\ Cardinality(S) = Len(list) - m + 1
           /\ Chosen(list, S) = SubSeq(list, m, Len(list))
<1> DEFINE n == Len(list)
<1>0. /\ n \in Nat /\ m \in 1 .. n + 1
      /\ \A i \in S : i \in 1 .. n
      /\ \A i \in 1 .. n : i \in S <=> m <= i
  OBVIOUS
<1> HIDE DEF n
<1>1. S = m .. n /\ Cardinality(m .. n) = n - m + 1
  <2>1. S = m .. n
    <3>1. \A i \in S : i \in m .. n
      BY <1>0
    <3>2. \A i \in m .. n : i \in S
      BY <1>0
    <3> QED
      BY <3>1, <3>2
  <2>2. Cardinality(m .. n) = IF m > n THEN 0 ELSE n - m + 1
    BY <1>0, FS_Interval
  <2> QED
    BY <1>0, <2>1, <2>2
<1>2. DOMAIN Sorted(S) = 1 .. n - m + 1
  BY <1>0, <1>1, SortedLen
<1>3. ASSUME NEW p \in m .. n PROVE Sorted(S)[p - m + 1] = p
  <2>1. \A i \in m .. n : i \in S
    BY <1>1
  <2>2. Sorted(S)[Cardinality(S) - (n - p)] = p
    BY <1>0, <2>1, SortedEnd
  <2>3. Cardinality(S) = n - m + 1
    BY <1>1
  <2>4. Cardinality(S) - (n - p) = p - m + 1
    BY <1>0, <2>3
  <2> QED
    BY <2>2, <2>4
<1>6. ASSUME NEW k \in 1 .. n - m + 1 PROVE Sorted(S)[k] = k + m - 1
  <2>1. k + m - 1 \in m .. n /\ (k + m - 1) - m + 1 = k
    BY <1>0
  <2> QED
    BY <1>3, <2>1
<1>4. Chosen(list, S) = [k \in 1 .. n - m + 1 |-> list[k + m - 1]]
  BY <1>2, <1>6 DEF Chosen
<1>5. SubSeq(list, m, n) = [k \in 1 .. n - m + 1 |-> list[k + m - 1]]
  BY <1>0 DEF n
<1> QED
  BY <1>1, <1>4, <1>5 DEF n

-----------------------------------------------------------------------------
(* What a seam makes of the words *)

\* A beginning of the old words, with all that ended before the overlap, and an
\* end of the new ones, with all that begin after it.
Seamed(result, previous, incoming, start) ==
    \E a \in 0 .. Len(previous), b \in 1 .. Len(incoming) + 1 :
        /\ result = SubSeq(previous, 1, a) \o SubSeq(incoming, b, Len(incoming))
        /\ \A i \in DOMAIN previous : previous[i].end < start => i <= a
        /\ \A j \in DOMAIN incoming : incoming[j].start > start + Overlap => b <= j

\* The words that end, or begin, no later than some time are a beginning.
LEMMA UpTo ==
    ASSUME NEW list, Timed(list), NEW t \in Int
    PROVE  \E m \in 0 .. Len(list) :
              /\ \A i \in DOMAIN list : list[i].end <= t <=> i <= m
              /\ Cardinality({i \in DOMAIN list : list[i].end <= t}) = m
              /\ Chosen(list, {i \in DOMAIN list : list[i].end <= t})
                    = SubSeq(list, 1, m)
<1> DEFINE S == {i \in DOMAIN list : list[i].end <= t}
           n == Len(list)
<1>1. list \in Seq(Word) /\ Ordered(list) /\ n \in Nat /\ DOMAIN list = 1 .. n
  BY DEF Timed
<1>2. \A i \in 1 .. n : i \in S => \A j \in 1 .. n : j <= i => j \in S
  <2> SUFFICES ASSUME NEW i \in 1 .. n, i \in S, NEW j \in 1 .. n, j <= i
               PROVE  j \in S
    OBVIOUS
  <2>1. list[j].end <= list[i].end
    BY <1>1, OrderedAll
  <2>2. list[j] \in Word /\ list[i] \in Word
    BY <1>1
  <2>3. list[j].end \in Nat /\ list[i].end \in Nat
    BY <2>2 DEF Word
  <2> QED
    BY <1>1, <2>1, <2>3
<1>3. PICK m \in 0 .. n : \A i \in 1 .. n : i \in S <=> i <= m
  <2> HIDE DEF S, n
  <2> QED
    BY <1>1, <1>2, Beginning
<1>4. \A i \in S : i \in 1 .. n
  BY <1>1
<1>5. Cardinality(S) = m /\ Chosen(list, S) = SubSeq(list, 1, m)
  <2> HIDE DEF S
  <2> QED
    BY <1>1, <1>3, <1>4, ChosenBeginning
<1> QED
  BY <1>1, <1>3, <1>5

\* The words with only what is new in the window are such a list.
LEMMA FilledSeamed ==
    ASSUME NEW previous, NEW incoming, Timed(previous), Timed(incoming),
           NEW start \in Int, incoming # << >>, start <= incoming[1].start
    PROVE  Seamed(Filled(previous, incoming), previous, incoming, start)
<1>1. /\ previous \in Seq(Word) /\ incoming \in Seq(Word)
      /\ Len(previous) \in Nat /\ Len(incoming) \in Nat
      /\ DOMAIN previous = 1 .. Len(previous)
  BY DEF Timed
<1>2. incoming[1] \in Word
  BY <1>1
<1>3. incoming[1].start \in Int
  BY <1>2 DEF Word
<1>4. PICK m \in 0 .. Len(previous) :
         /\ \A i \in DOMAIN previous : previous[i].end <= incoming[1].start <=> i <= m
         /\ Chosen(previous, {i \in DOMAIN previous :
                                 previous[i].end <= incoming[1].start})
               = SubSeq(previous, 1, m)
  BY <1>3, UpTo
<1>5. Filled(previous, incoming)
         = SubSeq(previous, 1, m) \o SubSeq(incoming, 1, Len(incoming))
  <2>1. SubSeq(incoming, 1, Len(incoming)) = incoming
    BY <1>1
  <2> QED
    BY <1>4, <2>1 DEF Filled
<1>6. ASSUME NEW i \in DOMAIN previous, previous[i].end < start PROVE i <= m
  <2>1. previous[i] \in Word
    BY <1>1
  <2>2. previous[i].end \in Nat
    BY <2>1 DEF Word
  <2>3. previous[i].end <= incoming[1].start
    BY <1>3, <1>6, <2>2
  <2> QED
    BY <1>4, <2>3
<1>7. 1 \in 1 .. Len(incoming) + 1 /\ \A j \in DOMAIN incoming : 1 <= j
  BY <1>1
<1> QED
  BY <1>4, <1>5, <1>6, <1>7 DEF Seamed

\* So are those cut at a place where a seam may lie,
LEMMA CutSeamed ==
    ASSUME NEW previous, NEW incoming, Timed(previous), Timed(incoming),
           NEW start \in Int, NEW i \in DOMAIN previous, NEW j \in DOMAIN incoming,
           previous[i].end >= start, incoming[j].start <= start + Overlap
    PROVE  Seamed(Cut(previous, incoming, <<i, j>>), previous, incoming, start)
<1>1. /\ previous \in Seq(Word) /\ Ordered(previous)
      /\ incoming \in Seq(Word) /\ Ordered(incoming)
      /\ Len(previous) \in Nat /\ Len(incoming) \in Nat
      /\ DOMAIN previous = 1 .. Len(previous) /\ DOMAIN incoming = 1 .. Len(incoming)
  BY DEF Timed
<1>2. i - 1 \in 0 .. Len(previous) /\ j \in 1 .. Len(incoming) + 1
  BY <1>1
<1>3. Cut(previous, incoming, <<i, j>>)
         = SubSeq(previous, 1, i - 1) \o SubSeq(incoming, j, Len(incoming))
  BY DEF Cut
<1>4. ASSUME NEW k \in DOMAIN previous, previous[k].end < start PROVE k <= i - 1
  <2>1. previous[k] \in Word /\ previous[i] \in Word
    BY <1>1
  <2>2. previous[k].end \in Nat /\ previous[i].end \in Nat
    BY <2>1 DEF Word
  <2>3. i <= k => previous[i].end <= previous[k].end
    BY <1>1, OrderedAll
  <2>4. ~(i <= k)
    BY <1>4, <2>2, <2>3
  <2> QED
    BY <1>1, <2>4
<1>5. ASSUME NEW k \in DOMAIN incoming, incoming[k].start > start + Overlap
      PROVE  j <= k
  <2>1. incoming[k] \in Word /\ incoming[j] \in Word
    BY <1>1
  <2>2. incoming[k].start \in Nat /\ incoming[j].start \in Nat
    BY <2>1 DEF Word
  <2>3. k <= j => incoming[k].start <= incoming[j].start
    BY <1>1, OrderedAll
  <2>4. Overlap \in Nat
    BY SeamsAssumption
  <2>5. ~(k <= j)
    BY <1>5, <2>2, <2>3, <2>4
  <2> QED
    BY <1>1, <2>5
<1> QED
  BY <1>2, <1>3, <1>4, <1>5 DEF Seamed

\* and those cut at the middle of the overlap.
LEMMA SplitSeamed ==
    ASSUME NEW previous, NEW incoming, Timed(previous), Timed(incoming),
           NEW start \in Int
    PROVE  Seamed(Split(previous, incoming, start), previous, incoming, start)
<1> DEFINE Early(w) == w.start + w.end < 2 * start + Overlap
           P == {i \in DOMAIN previous : Early(previous[i])}
           N == {j \in DOMAIN incoming : ~Early(incoming[j])}
<1>1. /\ previous \in Seq(Word) /\ Ordered(previous)
      /\ incoming \in Seq(Word) /\ Ordered(incoming)
      /\ Len(previous) \in Nat /\ Len(incoming) \in Nat
      /\ DOMAIN previous = 1 .. Len(previous) /\ DOMAIN incoming = 1 .. Len(incoming)
  BY DEF Timed
<1>2. Overlap \in Nat
  BY SeamsAssumption
<1>3. ASSUME NEW list \in Seq(Word), Ordered(list),
             NEW i \in 1 .. Len(list), NEW j \in 1 .. Len(list), j <= i,
             Early(list[i])
      PROVE  Early(list[j])
  <2>1. list[j].end <= list[i].end /\ list[j].start <= list[i].start
    BY <1>3, OrderedAll
  <2>2. list[j] \in Word /\ list[i] \in Word
    OBVIOUS
  <2>3. /\ list[j].end \in Nat /\ list[i].end \in Nat
        /\ list[j].start \in Nat /\ list[i].start \in Nat
    BY <2>2 DEF Word
  <2> QED
    BY <1>2, <1>3, <2>1, <2>3
<1>4. PICK a \in 0 .. Len(previous) : \A i \in 1 .. Len(previous) : i \in P <=> i <= a
  <2>1. \A i \in 1 .. Len(previous) :
           i \in P => \A j \in 1 .. Len(previous) : j <= i => j \in P
    BY <1>1, <1>3
  <2> HIDE DEF P
  <2> QED
    BY <1>1, <2>1, Beginning
<1>5. PICK c \in 0 .. Len(incoming) :
         \A i \in 1 .. Len(incoming) : i \in (1 .. Len(incoming)) \ N <=> i <= c
  <2> DEFINE E == (1 .. Len(incoming)) \ N
  <2>1. \A i \in 1 .. Len(incoming) :
           i \in E => \A j \in 1 .. Len(incoming) : j <= i => j \in E
    BY <1>1, <1>3
  <2> HIDE DEF E
  <2>2. \E c \in 0 .. Len(incoming) : \A i \in 1 .. Len(incoming) : i \in E <=> i <= c
    BY <1>1, <2>1, Beginning
  <2> QED
    BY <2>2 DEF E
<1>6. Chosen(previous, P) = SubSeq(previous, 1, a)
  <2>1. \A i \in P : i \in 1 .. Len(previous)
    BY <1>1
  <2> HIDE DEF P
  <2> QED
    BY <1>1, <1>4, <2>1, ChosenBeginning
<1>7. Chosen(incoming, N) = SubSeq(incoming, c + 1, Len(incoming))
  <2>1. \A j \in N : j \in 1 .. Len(incoming)
    BY <1>1
  <2> HIDE DEF N
  <2>2. \A j \in 1 .. Len(incoming) : j \in N <=> c + 1 <= j
    BY <1>1, <1>5
  <2>3. c + 1 \in 1 .. Len(incoming) + 1
    BY <1>1
  <2> QED
    BY <1>1, <2>1, <2>2, <2>3, ChosenEnd
<1>8. Split(previous, incoming, start)
         = SubSeq(previous, 1, a) \o SubSeq(incoming, c + 1, Len(incoming))
  BY <1>6, <1>7 DEF Split
<1>9. ASSUME NEW i \in DOMAIN previous, previous[i].end < start PROVE i <= a
  <2>1. previous[i] \in Word /\ previous[i].start <= previous[i].end
    BY <1>1 DEF Timed
  <2>2. previous[i].start \in Nat /\ previous[i].end \in Nat
    BY <2>1 DEF Word
  <2>3. i \in P
    BY <1>2, <1>9, <2>1, <2>2
  <2> QED
    BY <1>1, <1>4, <2>3
<1>10. ASSUME NEW j \in DOMAIN incoming, incoming[j].start > start + Overlap
       PROVE  c + 1 <= j
  <2>1. incoming[j] \in Word /\ incoming[j].start <= incoming[j].end
    BY <1>1 DEF Timed
  <2>2. incoming[j].start \in Nat /\ incoming[j].end \in Nat
    BY <2>1 DEF Word
  <2>3. j \in N
    BY <1>2, <1>10, <2>1, <2>2
  <2>4. ~(j <= c)
    BY <1>1, <1>5, <2>3
  <2> QED
    BY <1>1, <2>4
<1>11. c + 1 \in 1 .. Len(incoming) + 1
  BY <1>1
<1> QED
  BY <1>4, <1>8, <1>9, <1>10, <1>11 DEF Seamed

-----------------------------------------------------------------------------
(* The search for a seam *)

\* Is r the first of the longest runs?
FirstLongest(r, runs) ==
    \A s \in runs : \/ s[3] < r[3]
                    \/ s[3] = r[3] /\ (r[1] < s[1] \/ (r[1] = s[1] /\ r[2] <= s[2]))

\* Some run is the first of the longest ones.
LEMMA FirstLongestExists ==
    ASSUME NEW runs, NEW n \in Nat, NEW run \in runs,
           \A r \in runs : /\ r[1] \in Nat /\ r[2] \in Nat /\ r[3] \in Nat
                           /\ r[3] <= n
    PROVE  \E r \in runs : FirstLongest(r, runs)
<1> DEFINE Missing == {k \in Nat : \E r \in runs : k = n - r[3]}
<1>1. Missing \in SUBSET Nat /\ n - run[3] \in Missing
  OBVIOUS
<1>2. PICK k \in Missing : \A l \in Missing : k <= l
  BY <1>1, Least
<1>3. PICK longest \in runs : k = n - longest[3]
  BY <1>2
<1>4. ASSUME NEW s \in runs PROVE s[3] <= longest[3]
  <2>1. n - s[3] \in Missing
    OBVIOUS
  <2>2. k <= n - s[3]
    BY <1>2, <2>1
  <2> QED
    BY <1>3, <2>2
<1> DEFINE Starts == {i \in Nat : \E r \in runs : r[3] = longest[3] /\ i = r[1]}
<1>5. Starts \in SUBSET Nat /\ longest[1] \in Starts
  BY <1>3
<1>6. PICK i \in Starts : \A l \in Starts : i <= l
  BY <1>5, Least
<1>7. PICK earliest \in runs : earliest[3] = longest[3] /\ i = earliest[1]
  BY <1>6
<1> DEFINE Others == {j \in Nat : \E r \in runs : /\ r[3] = longest[3] /\ r[1] = i
                                                  /\ j = r[2]}
<1>8. Others \in SUBSET Nat /\ earliest[2] \in Others
  BY <1>7
<1>9. PICK j \in Others : \A l \in Others : j <= l
  BY <1>8, Least
<1>10. PICK best \in runs : best[3] = longest[3] /\ best[1] = i /\ j = best[2]
  BY <1>9
<1>11. ASSUME NEW s \in runs
       PROVE  \/ s[3] < best[3]
              \/ s[3] = best[3] /\ (best[1] < s[1] \/ (best[1] = s[1] /\ best[2] <= s[2]))
  <2>1. CASE s[3] # longest[3]
    BY <1>4, <1>10, <2>1
  <2>2. CASE s[3] = longest[3]
    <3>1. s[1] \in Starts
      BY <2>2
    <3>2. i <= s[1]
      BY <1>6, <3>1
    <3>3. CASE s[1] = i
      <4>1. s[2] \in Others
        BY <2>2, <3>3
      <4>2. j <= s[2]
        BY <1>9, <4>1
      <4> QED
        BY <1>10, <2>2, <3>3, <4>2
    <3>4. CASE s[1] # i
      <4>1. i < s[1]
        BY <1>6, <3>2, <3>4
      <4> QED
        BY <1>10, <2>2, <4>1
    <3> QED
      BY <3>3, <3>4
  <2> QED
    BY <2>1, <2>2
<1> QED
  BY <1>11 DEF FirstLongest

\* A seam may lie at p: at an old word that ended in the overlap, or later, and
\* at a new one that began in it, or earlier.
SeamAt(p, previous, incoming, start) ==
    \E i \in DOMAIN previous, j \in DOMAIN incoming :
        /\ p = <<i, j>>
        /\ previous[i].end >= start /\ incoming[j].start <= start + Overlap

\* A position of a sequence, and the k-th word of a run that fits into one.
LEMMA Position ==
    ASSUME NEW m \in Nat, NEW i \in 1 .. m
    PROVE  i \in Nat /\ 1 <= i
OBVIOUS

LEMMA RunInside ==
    ASSUME NEW i \in Nat, NEW n \in Nat, NEW m \in Nat, NEW k \in 1 .. n,
           1 <= i, i + n <= m + 1
    PROVE  i + k - 1 \in 1 .. m
  OBVIOUS

\* What a match is of, and where it lies.
LEMMA MatchesAt ==
    ASSUME NEW previous \in Seq(Word), NEW incoming \in Seq(Word), NEW start
    PROVE  /\ Matches(previous, incoming, start) \in
                 Seq({p \in Nat \X Nat : SeamAt(p, previous, incoming, start)})
<1> DEFINE O == {i \in DOMAIN previous : previous[i].end >= start}
           N == {j \in DOMAIN incoming : incoming[j].start <= start + Overlap}
           old == Sorted(O)
           new == Sorted(N)
           runs == Runs(previous, incoming, old, new)
           best == CHOOSE r \in runs : FirstLongest(r, runs)
           found == [k \in 1 .. best[3] |->
                        <<old[best[1] + k - 1], new[best[2] + k - 1]>>]
           P == {p \in Nat \X Nat : SeamAt(p, previous, incoming, start)}
<1>1. /\ Len(previous) \in Nat /\ DOMAIN previous = 1 .. Len(previous)
      /\ Len(incoming) \in Nat /\ DOMAIN incoming = 1 .. Len(incoming)
  OBVIOUS
<1>2. Matches(previous, incoming, start) = IF runs = {} THEN << >> ELSE found
  BY DEF Matches, FirstLongest
<1>3. Len(old) \in Nat /\ \A k \in 1 .. Len(old) : old[k] \in O
  <2>1. \A i \in O : i \in 1 .. Len(previous)
    BY <1>1
  <2> HIDE DEF O
  <2>2. Len(old) = Cardinality(O) /\ Len(old) \in Nat
    BY <1>1, <2>1, SortedLen
  <2> QED
    BY <1>1, <2>1, <2>2, SortedAt
<1>4. Len(new) \in Nat /\ \A k \in 1 .. Len(new) : new[k] \in N
  <2>1. \A i \in N : i \in 1 .. Len(incoming)
    BY <1>1
  <2> HIDE DEF N
  <2>2. Len(new) = Cardinality(N) /\ Len(new) \in Nat
    BY <1>1, <2>1, SortedLen
  <2> QED
    BY <1>1, <2>1, <2>2, SortedAt
<1>5. CASE runs = {}
  <2>1. Matches(previous, incoming, start) = << >>
    BY <1>2, <1>5
  <2> HIDE DEF P
  <2>2. << >> \in Seq(P)
    OBVIOUS
  <2> QED
    BY <2>1, <2>2 DEF P
<1>6. CASE runs # {}
  <2>1. \A r \in runs : /\ r[1] \in 1 .. Len(old) /\ r[2] \in 1 .. Len(new)
                        /\ r[3] \in 1 .. Len(new)
                        /\ r[1] + r[3] <= Len(old) + 1 /\ r[2] + r[3] <= Len(new) + 1
    BY DEF Runs
  <2>2. best \in runs
    <3> HIDE DEF runs
    <3>1. PICK run \in runs : TRUE
      BY <1>6
    <3>2. \A r \in runs : /\ r[1] \in Nat /\ r[2] \in Nat /\ r[3] \in Nat
                          /\ r[3] <= Len(new)
      <4> HIDE DEF old, new
      <4> QED
        BY <1>3, <1>4, <2>1
    <3>3. \E r \in runs : FirstLongest(r, runs)
      BY <1>4, <3>1, <3>2, FirstLongestExists
    <3> QED
      BY <3>3
  <2>3. /\ best[1] \in 1 .. Len(old) /\ best[2] \in 1 .. Len(new)
        /\ best[3] \in 1 .. Len(new)
        /\ best[1] + best[3] <= Len(old) + 1 /\ best[2] + best[3] <= Len(new) + 1
    <3> HIDE DEF runs, best
    <3> QED
      BY <2>1, <2>2
  <2>4. ASSUME NEW k \in 1 .. best[3]
        PROVE  <<old[best[1] + k - 1], new[best[2] + k - 1]>> \in P
    <3> HIDE DEF runs, best
    <3>1. best[1] + k - 1 \in 1 .. Len(old) /\ best[2] + k - 1 \in 1 .. Len(new)
      <4> HIDE DEF old, new
      <4>0. Len(old) \in Nat /\ Len(new) \in Nat
        BY <1>3, <1>4
      <4>1. /\ best[1] \in Nat /\ best[2] \in Nat /\ best[3] \in Nat
            /\ 1 <= best[1] /\ 1 <= best[2]
        BY <2>3, <4>0, Position
      <4>2. best[1] + k - 1 \in 1 .. Len(old)
        BY <2>3, <4>0, <4>1, RunInside
      <4>3. best[2] + k - 1 \in 1 .. Len(new)
        BY <2>3, <4>0, <4>1, RunInside
      <4> QED
        BY <4>2, <4>3
    <3>2. old[best[1] + k - 1] \in O /\ new[best[2] + k - 1] \in N
      BY <1>3, <1>4, <3>1
    <3> HIDE DEF old, new
    <3>3. SeamAt(<<old[best[1] + k - 1], new[best[2] + k - 1]>>, previous, incoming, start)
      BY <3>2 DEF SeamAt
    <3>4. old[best[1] + k - 1] \in Nat /\ new[best[2] + k - 1] \in Nat
      BY <1>1, <3>2
    <3> QED
      BY <3>3, <3>4
  <2>5. found \in Seq(P)
    <3> HIDE DEF runs, best, old, new, P
    <3>1. best[3] \in Nat
      BY <1>4, <2>3
    <3> QED
      BY <2>4, <3>1
  <2> QED
    BY <1>2, <1>6, <2>5
<1> QED
  BY <1>5, <1>6

\* A concatenation, position by position.
LEMMA ConcatAt ==
    ASSUME NEW P, NEW s \in Seq(P), NEW t \in Seq(P)
    PROVE  /\ Len(s \o t) = Len(s) + Len(t)
           /\ \A k \in 1 .. Len(s) + Len(t) :
                 (s \o t)[k] = IF k <= Len(s) THEN s[k] ELSE t[k - Len(s)]
  OBVIOUS

\* What is in a concatenation is in one of its parts.
LEMMA ConcatRange ==
    ASSUME NEW P, NEW s \in Seq(P), NEW t \in Seq(P)
    PROVE  s \o t \in Seq(P) /\ Range(s \o t) \subseteq Range(s) \cup Range(t)
<1> SUFFICES ASSUME NEW k \in DOMAIN (s \o t)
             PROVE  (s \o t)[k] \in Range(s) \cup Range(t)
  BY DEF Range
<1>1. Len(s) \in Nat /\ Len(t) \in Nat /\ k \in 1 .. Len(s) + Len(t)
  OBVIOUS
<1>2. CASE k <= Len(s)
  <2>1. k \in DOMAIN s /\ (s \o t)[k] = s[k]
    BY <1>1, <1>2
  <2> QED
    BY <2>1 DEF Range
<1>3. CASE k > Len(s)
  <2>1. k - Len(s) \in DOMAIN t /\ (s \o t)[k] = t[k - Len(s)]
    BY <1>1, <1>3
  <2> QED
    BY <2>1 DEF Range
<1> QED
  BY <1>1, <1>2, <1>3

\* A part of a list has its members and its length.
LEMMA SubSeqRange ==
    ASSUME NEW P, NEW s \in Seq(P), NEW a \in 1 .. Len(s) + 1, NEW b \in 0 .. Len(s),
           a <= b + 1
    PROVE  /\ SubSeq(s, a, b) \in Seq(P) /\ Len(SubSeq(s, a, b)) = b - a + 1
           /\ Range(SubSeq(s, a, b)) \subseteq Range(s)
<1>1. SubSeq(s, a, b) = [k \in 1 .. b - a + 1 |-> s[k + a - 1]]
  OBVIOUS
<1>2. \A k \in 1 .. b - a + 1 : k + a - 1 \in DOMAIN s
  OBVIOUS
<1>3. SubSeq(s, a, b) \in Seq(P) /\ Len(SubSeq(s, a, b)) = b - a + 1
  BY <1>1, <1>2
<1>4. Range(SubSeq(s, a, b)) \subseteq Range(s)
  BY <1>1, <1>2 DEF Range
<1> QED
  BY <1>3, <1>4

\* The seams that are tried are matches.
LEMMA CandidatesAre ==
    ASSUME NEW P, NEW matches \in Seq(P)
    PROVE  /\ Candidates(matches) \in Seq(P)
           /\ Range(Candidates(matches)) \subseteq Range(matches)
<1> DEFINE n == Len(matches)
           center == n \div 2 + 1
           middle == <<matches[center]>>
           before == SubSeq(matches, 1, center - 1)
           after == SubSeq(matches, center + 1, n)
<1>1. n \in Nat /\ DOMAIN matches = 1 .. n
  OBVIOUS
<1>2. CASE matches = << >>
  <2>1. Candidates(matches) = << >>
    BY <1>2 DEF Candidates
  <2> QED
    BY <1>2, <2>1
<1>3. CASE matches # << >>
  <2>1. n # 0
    BY <1>1, <1>3
  <2>2. center \in 1 .. n
    BY <1>1, <2>1
  <2>3. Candidates(matches) = (middle \o before) \o after
    BY <1>3 DEF Candidates
  <2> HIDE DEF center
  <2>4. middle \in Seq(P) /\ Range(middle) \subseteq Range(matches)
    BY <1>1, <2>2 DEF Range
  <2>5. before \in Seq(P) /\ Range(before) \subseteq Range(matches)
    <3>1. center - 1 \in 0 .. n /\ 1 \in 1 .. n + 1 /\ 1 <= center - 1 + 1
      BY <1>1, <2>2
    <3> QED
      BY <3>1, SubSeqRange
  <2>6. after \in Seq(P) /\ Range(after) \subseteq Range(matches)
    <3>1. center + 1 \in 1 .. n + 1 /\ n \in 0 .. n /\ center + 1 <= n + 1
      BY <1>1, <2>2
    <3> QED
      BY <3>1, SubSeqRange
  <2> HIDE DEF middle, before, after
  <2>7. /\ middle \o before \in Seq(P)
        /\ Range(middle \o before) \subseteq Range(middle) \cup Range(before)
    BY <2>4, <2>5, ConcatRange
  <2>8. /\ (middle \o before) \o after \in Seq(P)
        /\ Range((middle \o before) \o after)
              \subseteq Range(middle \o before) \cup Range(after)
    BY <2>6, <2>7, ConcatRange
  <2> QED
    BY <2>3, <2>4, <2>5, <2>6, <2>7, <2>8
<1> QED
  BY <1>2, <1>3

\* A seam that is tried may lie where it does.
LEMMA TriesAt ==
    ASSUME NEW previous, NEW incoming, Timed(previous), Timed(incoming), NEW start,
           NEW k \in DOMAIN Candidates(Matches(previous, incoming, start))
    PROVE  LET p == Candidates(Matches(previous, incoming, start))[k]
           IN  /\ SeamAt(p, previous, incoming, start)
               /\ \E l \in DOMAIN Matches(previous, incoming, start) :
                     p = Matches(previous, incoming, start)[l]
<1> DEFINE P == {p \in Nat \X Nat : SeamAt(p, previous, incoming, start)}
           matches == Matches(previous, incoming, start)
           tries == Candidates(matches)
<1>1. matches \in Seq(P)
  BY MatchesAt DEF Timed
<1> HIDE DEF P, matches
<1>2. tries \in Seq(P) /\ Range(tries) \subseteq Range(matches)
  BY <1>1, CandidatesAre
<1>3. k \in DOMAIN tries
  BY DEF matches
<1> HIDE DEF tries
<1>4. tries[k] \in P /\ tries[k] \in Range(matches)
  BY <1>2, <1>3 DEF Range
<1>5. \E l \in DOMAIN matches : tries[k] = matches[l]
  BY <1>4 DEF Range
<1> QED
  BY <1>4, <1>5 DEF P, matches, tries

\* A result that is used is Seamed and in order.
Good(result, previous, incoming, start) ==
    Seamed(result, previous, incoming, start) /\ Ordered(result)

\* What is tried at a seam is a beginning of the old words and an end of the new.
LEMMA JoinSeamed ==
    ASSUME NEW previous, NEW incoming, Timed(previous), Timed(incoming),
           NEW start \in Int, incoming # << >>, start <= incoming[1].start
    PROVE  LET join == Join(previous, incoming, start)
           IN  /\ join.seam \in {"clean", "recovered", "fallback", "failed"}
               /\ join.seam # "failed" => Good(join.words, previous, incoming, start)
               /\ join.seam = "recovered" =>
                     /\ join.words = Filled(previous, incoming)
                     /\ \E k \in DOMAIN Matches(previous, incoming, start) :
                           /\ SeamAt(Matches(previous, incoming, start)[k],
                                     previous, incoming, start)
                           /\ HeardMore(previous,
                                        Matches(previous, incoming, start)[k], start)
<1> DEFINE matches == Matches(previous, incoming, start)
           tries == Candidates(matches)
           usable == {k \in DOMAIN tries : Usable(previous, incoming, tries[k], start)}
           split == Split(previous, incoming, start)
           least == CHOOSE k \in usable : \A l \in usable : k <= l
           p == tries[least]
           join == Join(previous, incoming, start)
<1>1. join = IF usable # {}
             THEN IF Recovers(previous, incoming, p, start)
                  THEN Joined(Filled(previous, incoming), "recovered")
                  ELSE Joined(Cut(previous, incoming, p), "clean")
             ELSE IF Ordered(split) THEN Joined(split, "fallback")
             ELSE Joined(previous, "failed")
  BY DEF Join
<1>2. CASE usable = {} /\ Ordered(split)
  <2>1. join = Joined(split, "fallback")
    BY <1>1, <1>2
  <2>2. Seamed(split, previous, incoming, start)
    BY SplitSeamed
  <2> HIDE DEF join, split
  <2>3. join.seam = "fallback" /\ join.words = split
    BY <2>1 DEF Joined
  <2> QED
    BY <1>2, <2>2, <2>3 DEF Good, join
<1>3. CASE usable = {} /\ ~Ordered(split)
  <2>1. join = Joined(previous, "failed")
    BY <1>1, <1>3
  <2> HIDE DEF join
  <2>2. join.seam = "failed"
    BY <2>1 DEF Joined
  <2> QED
    BY <2>2 DEF join
<1>4. CASE usable # {}
  <2>1. least \in usable
    <3>1. DOMAIN tries \subseteq Nat
      <4> DEFINE P == {q \in Nat \X Nat : SeamAt(q, previous, incoming, start)}
      <4>1. matches \in Seq(P)
        BY MatchesAt DEF Timed
      <4> HIDE DEF P, matches
      <4>2. tries \in Seq(P)
        BY <4>1, CandidatesAre
      <4> HIDE DEF tries
      <4> QED
        BY <4>2
    <3>2. usable \in SUBSET Nat
      BY <3>1
    <3> HIDE DEF usable
    <3>3. PICK k \in usable : TRUE
      BY <1>4
    <3>4. \E m \in usable : \A l \in usable : m <= l
      BY <3>2, <3>3, Least
    <3> QED
      BY <3>4
  <2> HIDE DEF least
  <2>2. least \in DOMAIN tries /\ Usable(previous, incoming, p, start)
    BY <2>1
  <2>3. SeamAt(p, previous, incoming, start) /\ \E l \in DOMAIN matches : p = matches[l]
    BY <2>2, TriesAt
  <2> HIDE DEF p, matches, join
  <2>4. CASE Recovers(previous, incoming, p, start)
    <3>1. join = Joined(Filled(previous, incoming), "recovered")
      BY <1>1, <1>4, <2>4 DEF p, tries
    <3>2. join.seam = "recovered" /\ join.words = Filled(previous, incoming)
      BY <3>1 DEF Joined
    <3>3. Seamed(Filled(previous, incoming), previous, incoming, start)
      BY FilledSeamed
    <3>4. HeardMore(previous, p, start) /\ Ordered(Filled(previous, incoming))
      BY <2>4 DEF Recovers
    <3>5. \E l \in DOMAIN matches : /\ SeamAt(matches[l], previous, incoming, start)
                                    /\ HeardMore(previous, matches[l], start)
      BY <2>3, <3>4
    <3> QED
      BY <3>2, <3>3, <3>4, <3>5 DEF Good, join, matches
  <2>5. CASE ~Recovers(previous, incoming, p, start)
    <3>1. join = Joined(Cut(previous, incoming, p), "clean")
      BY <1>1, <1>4, <2>5 DEF p, tries
    <3>2. join.seam = "clean" /\ join.words = Cut(previous, incoming, p)
      BY <3>1 DEF Joined
    <3>3. Seamed(Cut(previous, incoming, p), previous, incoming, start)
      BY <2>3, CutSeamed DEF SeamAt
    <3>4. Ordered(Cut(previous, incoming, p))
      BY <2>2, <2>5 DEF Usable
    <3> QED
      BY <3>2, <3>3, <3>4 DEF Good, join
  <2> QED
    BY <2>4, <2>5
<1> QED
  BY <1>2, <1>3, <1>4

\* Words that follow each other in time stay in order.
LEMMA ConcatOrdered ==
    ASSUME NEW s, NEW t, Timed(s), Timed(t), s # << >>, t # << >>,
           s[Len(s)].end <= t[1].start
    PROVE  Ordered(s \o t)
<1>1. /\ s \in Seq(Word) /\ t \in Seq(Word) /\ Ordered(s) /\ Ordered(t)
      /\ Len(s) \in Nat /\ Len(t) \in Nat
  BY DEF Timed
<1>2. Len(s) # 0 /\ Len(t) # 0
  BY <1>1
<1> SUFFICES ASSUME NEW i \in 1 .. Len(s \o t) - 1
             PROVE  /\ (s \o t)[i].start <= (s \o t)[i + 1].start
                    /\ (s \o t)[i].end <= (s \o t)[i + 1].end
  BY DEF Ordered
<1>3. i \in Nat /\ 1 <= i /\ i <= Len(s) + Len(t) - 1
  BY <1>1
<1>4. CASE i < Len(s)
  <2>1. (s \o t)[i] = s[i] /\ (s \o t)[i + 1] = s[i + 1] /\ i \in 1 .. Len(s) - 1
    BY <1>1, <1>3, <1>4
  <2> QED
    BY <1>1, <2>1 DEF Ordered
<1>5. CASE i = Len(s)
  <2>1. (s \o t)[i] = s[Len(s)] /\ (s \o t)[i + 1] = t[1]
    BY <1>1, <1>2, <1>3, <1>5
  <2>2. Len(s) \in DOMAIN s /\ 1 \in DOMAIN t
    BY <1>1, <1>2
  <2>3. s[Len(s)].start <= s[Len(s)].end /\ t[1].start <= t[1].end
    BY <2>2 DEF Timed
  <2>4. s[Len(s)] \in Word /\ t[1] \in Word
    BY <1>1, <2>2
  <2>5. /\ s[Len(s)].start \in Nat /\ s[Len(s)].end \in Nat
        /\ t[1].start \in Nat /\ t[1].end \in Nat
    BY <2>4 DEF Word
  <2> QED
    BY <2>1, <2>3, <2>5, SMTT(30)
<1>6. CASE i > Len(s)
  <2>1. /\ (s \o t)[i] = t[i - Len(s)] /\ (s \o t)[i + 1] = t[i - Len(s) + 1]
        /\ i - Len(s) \in 1 .. Len(t) - 1
    BY <1>1, <1>3, <1>6
  <2> QED
    BY <1>1, <2>1 DEF Ordered
<1> QED
  BY <1>1, <1>3, <1>4, <1>5, <1>6

\* And so is what Merge makes of them, in order.
LEMMA MergeSeamed ==
    ASSUME NEW previous, NEW incoming, Timed(previous), Timed(incoming),
           NEW start \in Int, incoming # << >> => start <= incoming[1].start
    PROVE  LET merged == Merge(previous, incoming, start)
           IN  /\ merged.seam \in {"clean", "recovered", "fallback", "failed"}
               /\ merged.seam # "failed" => Good(merged.words, previous, incoming, start)
               /\ merged.seam = "recovered" =>
                     /\ incoming # << >>
                     /\ merged.words = Filled(previous, incoming)
                     /\ \E k \in DOMAIN Matches(previous, incoming, start) :
                           /\ SeamAt(Matches(previous, incoming, start)[k],
                                     previous, incoming, start)
                           /\ HeardMore(previous,
                                        Matches(previous, incoming, start)[k], start)
<1> DEFINE merged == Merge(previous, incoming, start)
<1>1. /\ previous \in Seq(Word) /\ incoming \in Seq(Word)
      /\ Ordered(previous) /\ Ordered(incoming)
      /\ Len(previous) \in Nat /\ Len(incoming) \in Nat
      /\ DOMAIN previous = 1 .. Len(previous) /\ DOMAIN incoming = 1 .. Len(incoming)
  BY DEF Timed
<1>2. CASE previous = << >>
  <2>1. merged = Joined(incoming, "clean")
    BY <1>2 DEF Merge
  <2> HIDE DEF merged
  <2>2. merged.seam = "clean" /\ merged.words = incoming
    BY <2>1 DEF Joined
  <2>3. incoming = SubSeq(previous, 1, 0) \o SubSeq(incoming, 1, Len(incoming))
    BY <1>1
  <2>4. Seamed(incoming, previous, incoming, start)
    <3>1. /\ 0 \in 0 .. Len(previous) /\ 1 \in 1 .. Len(incoming) + 1
          /\ \A i \in DOMAIN previous : previous[i].end < start => i <= 0
          /\ \A j \in DOMAIN incoming : incoming[j].start > start + Overlap => 1 <= j
      BY <1>1, <1>2
    <3> QED
      BY <2>3, <3>1 DEF Seamed
  <2> QED
    BY <1>1, <2>2, <2>4 DEF Good, merged
<1>3. CASE previous # << >> /\ incoming = << >>
  <2>1. merged = Joined(previous, "clean")
    BY <1>3 DEF Merge
  <2> HIDE DEF merged
  <2>2. merged.seam = "clean" /\ merged.words = previous
    BY <2>1 DEF Joined
  <2>3. previous = SubSeq(previous, 1, Len(previous)) \o SubSeq(incoming, 1, Len(incoming))
    <3>1. SubSeq(previous, 1, Len(previous)) = previous
      BY <1>1
    <3>2. SubSeq(incoming, 1, Len(incoming)) = << >>
      BY <1>1, <1>3
    <3>3. previous \o << >> = previous
      BY <1>1
    <3> QED
      BY <3>1, <3>2, <3>3
  <2>4. Seamed(previous, previous, incoming, start)
    <3>1. /\ Len(previous) \in 0 .. Len(previous) /\ 1 \in 1 .. Len(incoming) + 1
          /\ \A i \in DOMAIN previous : i <= Len(previous)
          /\ \A j \in DOMAIN incoming : 1 <= j
      BY <1>1
    <3> QED
      BY <2>3, <3>1 DEF Seamed
  <2> QED
    BY <1>1, <2>2, <2>4 DEF Good, merged
<1>4. CASE /\ previous # << >> /\ incoming # << >>
           /\ previous[Len(previous)].end <= incoming[1].start
  <2>1. merged = Joined(previous \o incoming, "clean")
    BY <1>4 DEF Merge
  <2> HIDE DEF merged
  <2>2. merged.seam = "clean" /\ merged.words = previous \o incoming
    BY <2>1 DEF Joined
  <2>3. /\ SubSeq(previous, 1, Len(previous)) = previous
        /\ SubSeq(incoming, 1, Len(incoming)) = incoming
    BY <1>1
  <2>4. Seamed(previous \o incoming, previous, incoming, start)
    <3>1. /\ Len(previous) \in 0 .. Len(previous) /\ 1 \in 1 .. Len(incoming) + 1
          /\ \A i \in DOMAIN previous : i <= Len(previous)
          /\ \A j \in DOMAIN incoming : 1 <= j
      BY <1>1
    <3> QED
      BY <2>3, <3>1 DEF Seamed
  <2>5. Ordered(previous \o incoming)
    BY <1>4, ConcatOrdered
  <2> QED
    BY <2>2, <2>4, <2>5 DEF Good, merged
<1>5. CASE /\ previous # << >> /\ incoming # << >>
           /\ ~(previous[Len(previous)].end <= incoming[1].start)
  <2>1. merged = Join(previous, incoming, start)
    BY <1>5 DEF Merge
  <2> QED
    BY <1>5, <2>1, JoinSeamed
<1> QED
  BY <1>2, <1>3, <1>4, <1>5

\* The words that begin after some time are an end.
LEMMA After ==
    ASSUME NEW list, Timed(list), NEW t \in Int
    PROVE  \E m \in 1 .. Len(list) + 1 :
              /\ \A i \in DOMAIN list : list[i].start > t <=> m <= i
              /\ Chosen(list, {i \in DOMAIN list : list[i].start > t})
                    = SubSeq(list, m, Len(list))
<1> DEFINE S == {i \in DOMAIN list : list[i].start > t}
           E == {i \in DOMAIN list : ~(list[i].start > t)}
           n == Len(list)
<1>1. list \in Seq(Word) /\ Ordered(list) /\ n \in Nat /\ DOMAIN list = 1 .. n
  BY DEF Timed
<1>2. \A i \in 1 .. n : i \in E => \A j \in 1 .. n : j <= i => j \in E
  <2> SUFFICES ASSUME NEW i \in 1 .. n, i \in E, NEW j \in 1 .. n, j <= i
               PROVE  j \in E
    OBVIOUS
  <2>1. list[j].start <= list[i].start
    BY <1>1, OrderedAll
  <2>2. list[j] \in Word /\ list[i] \in Word
    BY <1>1
  <2>3. list[j].start \in Nat /\ list[i].start \in Nat
    BY <2>2 DEF Word
  <2> QED
    BY <1>1, <2>1, <2>3
<1>3. PICK m \in 0 .. n : \A i \in 1 .. n : i \in E <=> i <= m
  <2> HIDE DEF E, n
  <2> QED
    BY <1>1, <1>2, Beginning
<1>4. /\ m + 1 \in 1 .. n + 1 /\ \A i \in S : i \in 1 .. n
      /\ \A i \in 1 .. n : i \in S <=> m + 1 <= i
  <2>1. \A i \in 1 .. n : i \in S <=> i \notin E
    BY <1>1
  <2>2. \A i \in S : i \in 1 .. n
    BY <1>1
  <2> HIDE DEF S, E, n
  <2> QED
    BY <1>1, <1>3, <2>1, <2>2
<1>5. Chosen(list, S) = SubSeq(list, m + 1, n)
  <2> HIDE DEF S
  <2> QED
    BY <1>1, <1>4, ChosenEnd
<1> QED
  BY <1>1, <1>4, <1>5

\* What OverlapOnly says of a seam.
Keeps(result, previous, incoming, start) ==
    LET kept == Chosen(previous, {i \in DOMAIN previous : previous[i].end < start})
        new == Chosen(incoming, {j \in DOMAIN incoming : incoming[j].start > start + Overlap})
        n == Len(result)
    IN  /\ Len(kept) <= n /\ SubSeq(result, 1, Len(kept)) = kept
        /\ Len(new) <= n /\ SubSeq(result, n - Len(new) + 1, n) = new
        /\ \A i \in 1 .. n :
              \/ \E k \in DOMAIN previous : result[i] = previous[k]
              \/ \E k \in DOMAIN incoming : result[i] = incoming[k]

\* Such a list keeps the words outside of the overlap.
LEMMA SeamedKeeps ==
    ASSUME NEW previous, NEW incoming, Timed(previous), Timed(incoming),
           NEW start \in Int, NEW result, Seamed(result, previous, incoming, start)
    PROVE  /\ result \in Seq(Word)
           /\ Range(result) \subseteq Range(previous) \cup Range(incoming)
           /\ Keeps(result, previous, incoming, start)
<1> DEFINE o == Len(previous)
           l == Len(incoming)
           kept == Chosen(previous, {i \in DOMAIN previous : previous[i].end < start})
           new == Chosen(incoming,
                         {j \in DOMAIN incoming : incoming[j].start > start + Overlap})
           n == Len(result)
<1>1. /\ previous \in Seq(Word) /\ incoming \in Seq(Word)
      /\ o \in Nat /\ l \in Nat
      /\ DOMAIN previous = 1 .. o /\ DOMAIN incoming = 1 .. l
  BY DEF Timed
<1>2. PICK a \in 0 .. o, b \in 1 .. l + 1 :
         /\ result = SubSeq(previous, 1, a) \o SubSeq(incoming, b, l)
         /\ \A i \in DOMAIN previous : previous[i].end < start => i <= a
         /\ \A j \in DOMAIN incoming : incoming[j].start > start + Overlap => b <= j
  BY DEF Seamed
<1>3. PICK m \in 0 .. o : /\ \A i \in DOMAIN previous : previous[i].end <= start - 1 <=> i <= m
                          /\ kept = SubSeq(previous, 1, m)
  <2>1. {i \in DOMAIN previous : previous[i].end < start}
           = {i \in DOMAIN previous : previous[i].end <= start - 1}
    <3> SUFFICES ASSUME NEW i \in DOMAIN previous
                 PROVE  previous[i].end < start <=> previous[i].end <= start - 1
      OBVIOUS
    <3>1. previous[i] \in Word
      BY <1>1
    <3>2. previous[i].end \in Nat
      BY <3>1 DEF Word
    <3> QED
      BY <3>2
  <2>2. PICK m \in 0 .. o :
           /\ \A i \in DOMAIN previous : previous[i].end <= start - 1 <=> i <= m
           /\ Chosen(previous, {i \in DOMAIN previous : previous[i].end <= start - 1})
                 = SubSeq(previous, 1, m)
    <3> DEFINE t == start - 1
    <3>1. t \in Int
      OBVIOUS
    <3> HIDE DEF t
    <3>2. \E m \in 0 .. o :
             /\ \A i \in DOMAIN previous : previous[i].end <= t <=> i <= m
             /\ Chosen(previous, {i \in DOMAIN previous : previous[i].end <= t})
                   = SubSeq(previous, 1, m)
      BY <3>1, UpTo
    <3> QED
      BY <3>2 DEF t
  <2> QED
    BY <2>1, <2>2
<1>4. PICK c \in 1 .. l + 1 :
         /\ \A j \in DOMAIN incoming : incoming[j].start > start + Overlap <=> c <= j
         /\ new = SubSeq(incoming, c, l)
  <2>1. start + Overlap \in Int
    BY SeamsAssumption
  <2> QED
    BY <2>1, After
<1>5. m <= a
  <2>1. CASE m = 0
    BY <1>2, <2>1
  <2>2. CASE m # 0
    <3>1. m \in DOMAIN previous
      BY <1>1, <1>3, <2>2
    <3>2. previous[m] \in Word /\ previous[m].end <= start - 1
      BY <1>1, <1>3, <3>1
    <3>3. previous[m].end \in Nat
      BY <3>2 DEF Word
    <3> QED
      BY <1>2, <3>1, <3>2, <3>3
  <2> QED
    BY <2>1, <2>2
<1>6. b <= c
  <2>1. CASE c = l + 1
    BY <1>1, <1>2, <2>1
  <2>2. CASE c # l + 1
    <3>1. c \in DOMAIN incoming
      BY <1>1, <1>4, <2>2
    <3> QED
      BY <1>2, <1>4, <3>1
  <2> QED
    BY <2>1, <2>2
<1> DEFINE x == SubSeq(previous, 1, a)
           y == SubSeq(incoming, b, l)
<1>7. /\ x \in Seq(Word) /\ Len(x) = a /\ Range(x) \subseteq Range(previous)
      /\ \A k \in 1 .. a : x[k] = previous[k]
  <2>1. 1 \in 1 .. o + 1 /\ a \in 0 .. o /\ 1 <= a + 1 /\ a - 1 + 1 = a
    BY <1>1
  <2>2. x \in Seq(Word) /\ Len(x) = a - 1 + 1 /\ Range(x) \subseteq Range(previous)
    BY <1>1, <2>1, SubSeqRange
  <2>3. \A k \in 1 .. a : x[k] = previous[k]
    BY <1>1
  <2> QED
    BY <2>1, <2>2, <2>3
<1>8. /\ y \in Seq(Word) /\ Len(y) = l - b + 1 /\ Range(y) \subseteq Range(incoming)
      /\ \A k \in 1 .. l - b + 1 : y[k] = incoming[k + b - 1]
  <2>1. b \in 1 .. l + 1 /\ l \in 0 .. l /\ b <= l + 1
    BY <1>1
  <2>2. y \in Seq(Word) /\ Len(y) = l - b + 1 /\ Range(y) \subseteq Range(incoming)
    BY <1>1, <2>1, SubSeqRange
  <2>3. \A k \in 1 .. l - b + 1 : y[k] = incoming[k + b - 1]
    BY <1>1
  <2> QED
    BY <2>2, <2>3
<1>9. Len(kept) = m /\ \A k \in 1 .. m : kept[k] = previous[k]
  BY <1>1, <1>3
<1>10. Len(new) = l - c + 1 /\ \A k \in 1 .. l - c + 1 : new[k] = incoming[k + c - 1]
  <2> DEFINE z == SubSeq(incoming, c, l)
  <2>1. c \in 1 .. l + 1 /\ l \in 0 .. l /\ c <= l + 1
    BY <1>1
  <2>2. Len(z) = l - c + 1
    BY <1>1, <2>1, SubSeqRange
  <2>3. \A k \in 1 .. l - c + 1 : z[k] = incoming[k + c - 1]
    BY <1>1
  <2>4. new = z
    BY <1>4
  <2> HIDE DEF new, z
  <2> QED
    BY <2>2, <2>3, <2>4
<1>11. result = x \o y
  BY <1>2
<1> HIDE DEF x, y, o, l, kept, new
<1>12. /\ result \in Seq(Word) /\ Range(result) \subseteq Range(previous) \cup Range(incoming)
  BY <1>7, <1>8, <1>11, ConcatRange
<1>13. /\ n = a + (l - b + 1) /\ n \in Nat
       /\ \A k \in 1 .. a : result[k] = previous[k]
       /\ \A k \in a + 1 .. n : result[k] = incoming[k - a + b - 1]
  <2>0. l - b + 1 \in Nat /\ a \in Nat
    BY <1>1
  <2>4. Len(x \o y) = Len(x) + Len(y)
    BY <1>7, <1>8, ConcatAt
  <2>1. n = a + (l - b + 1) /\ n \in Nat /\ l - b + 1 \in Nat /\ a \in Nat
    BY <1>7, <1>8, <1>11, <2>0, <2>4
  <2>2. \A k \in 1 .. a : result[k] = x[k]
    BY <1>7, <1>8, <1>11
  <2>3. ASSUME NEW k \in a + 1 .. n PROVE result[k] = incoming[k - a + b - 1]
    <3>1. k - a \in 1 .. l - b + 1
      BY <2>1
    <3>2. result[k] = y[k - a]
      <4>1. k \in 1 .. Len(x) + Len(y) /\ ~(k <= Len(x)) /\ Len(x) = a
        BY <1>7, <1>8, <2>1
      <4>2. (x \o y)[k] = y[k - Len(x)]
        BY <1>7, <1>8, <4>1, ConcatAt
      <4> QED
        BY <1>11, <4>1, <4>2
    <3> QED
      BY <1>8, <3>1, <3>2
  <2> QED
    BY <1>7, <2>1, <2>2, <2>3
<1> HIDE DEF n
<1>14. m <= n /\ SubSeq(result, 1, m) = kept
  <2>1. m \in Nat /\ m <= n
    BY <1>1, <1>5, <1>13
  <2>2. SubSeq(result, 1, m) = [k \in 1 .. m |-> result[k]]
    BY <1>12, <2>1 DEF n
  <2>3. \A k \in 1 .. m : result[k] = kept[k]
    BY <1>5, <1>9, <1>13, <2>1
  <2>4. kept = [k \in 1 .. m |-> kept[k]]
    BY <1>1, <1>3 DEF o
  <2> QED
    BY <2>1, <2>2, <2>3, <2>4
<1>15. l - c + 1 <= n /\ SubSeq(result, n - (l - c + 1) + 1, n) = new
  <2> DEFINE d == n - (l - c + 1) + 1
  <2>1. /\ l - c + 1 \in Nat /\ l - c + 1 <= n
        /\ d \in 1 .. n + 1 /\ n - d + 1 = l - c + 1 /\ d = a + 1 + (c - b)
    BY <1>1, <1>6, <1>13
  <2>2. SubSeq(result, d, n) = [k \in 1 .. n - d + 1 |-> result[k + d - 1]]
    <3> HIDE DEF d
    <3> QED
      BY <1>12, <1>13, <2>1 DEF n
  <2>3. ASSUME NEW k \in 1 .. l - c + 1 PROVE result[k + d - 1] = new[k]
    <3>1. /\ k + d - 1 \in a + 1 .. n
          /\ (k + d - 1) - a + b - 1 = k + c - 1
      BY <1>1, <1>6, <1>13, <2>1
    <3>2. result[k + d - 1] = incoming[(k + d - 1) - a + b - 1]
      <4> HIDE DEF d
      <4> QED
        BY <1>13, <3>1
    <3> QED
      BY <1>10, <3>1, <3>2
  <2>4. new = [k \in 1 .. l - c + 1 |-> new[k]]
    BY <1>1, <1>4, SMTT(30) DEF l
  <2> HIDE DEF d
  <2>5. SubSeq(result, d, n) = new
    BY <2>1, <2>2, <2>3, <2>4
  <2> QED
    BY <2>1, <2>5 DEF d
<1>16. ASSUME NEW i \in 1 .. n
       PROVE  \/ \E k \in DOMAIN previous : result[i] = previous[k]
              \/ \E k \in DOMAIN incoming : result[i] = incoming[k]
  <2>1. i \in DOMAIN result
    BY <1>12 DEF n
  <2>2. result[i] \in Range(previous) \cup Range(incoming)
    BY <1>12, <2>1 DEF Range
  <2> QED
    BY <2>2 DEF Range
<1>17. Keeps(result, previous, incoming, start)
  BY <1>9, <1>10, <1>14, <1>15, <1>16 DEF Keeps, kept, new, n
<1> QED
  BY <1>12, <1>17

\* A recovered passage is longer than what a cut would have left.
LEMMA RecoveredGains ==
    ASSUME NEW previous, NEW incoming, Timed(previous), Timed(incoming),
           NEW start \in Int, incoming # << >>, start <= incoming[1].start,
           NEW p, SeamAt(p, previous, incoming, start), HeardMore(previous, p, start)
    PROVE  Len(Filled(previous, incoming)) >= Len(Cut(previous, incoming, p)) + Margin
<1> DEFINE o == Len(previous)
           l == Len(incoming)
           later == {i \in 1 .. p[1] - 1 : previous[i].end > start}
<1>1. /\ previous \in Seq(Word) /\ incoming \in Seq(Word)
      /\ o \in Nat /\ l \in Nat
      /\ DOMAIN previous = 1 .. o /\ DOMAIN incoming = 1 .. l
  BY DEF Timed
<1>2. p[1] \in 1 .. o /\ p[2] \in 1 .. l
  BY <1>1 DEF SeamAt
<1>3. incoming[1].start \in Int
  <2>1. incoming[1] \in Word
    BY <1>1
  <2> QED
    BY <2>1 DEF Word
<1>4. PICK f \in 0 .. o :
         /\ \A i \in DOMAIN previous : previous[i].end <= incoming[1].start <=> i <= f
         /\ Chosen(previous, {i \in DOMAIN previous :
                                 previous[i].end <= incoming[1].start})
               = SubSeq(previous, 1, f)
  BY <1>3, UpTo
<1>5. PICK m \in 0 .. o : \A i \in DOMAIN previous : previous[i].end <= start <=> i <= m
  BY UpTo
<1>6. m <= f
  <2>1. CASE m = 0
    BY <1>4, <2>1
  <2>2. CASE m # 0
    <3>1. m \in DOMAIN previous
      BY <1>1, <1>5, <2>2
    <3>2. previous[m] \in Word /\ previous[m].end <= start
      BY <1>1, <1>5, <3>1
    <3>3. previous[m].end \in Nat
      BY <3>2 DEF Word
    <3> QED
      BY <1>3, <1>4, <3>1, <3>2, <3>3
  <2> QED
    BY <2>1, <2>2
<1>7. Cardinality(later) \in Nat /\ Cardinality(later) >= p[1] - 1 - m
  <2>1. later = m + 1 .. p[1] - 1
    <3> SUFFICES ASSUME NEW i \in 1 .. p[1] - 1
                 PROVE  previous[i].end > start <=> m + 1 <= i
      BY <1>1, <1>2
    <3>1. i \in DOMAIN previous
      BY <1>1, <1>2
    <3>2. previous[i] \in Word
      BY <1>1, <3>1
    <3>3. previous[i].end \in Nat
      BY <3>2 DEF Word
    <3>4. previous[i].end <= start <=> i <= m
      BY <1>5, <3>1
    <3> QED
      BY <1>1, <1>2, <3>3, <3>4
  <2> HIDE DEF later
  <2>2. m + 1 \in Int /\ p[1] - 1 \in Int
    BY <1>1, <1>2
  <2>3. Cardinality(later) = IF m + 1 > p[1] - 1 THEN 0 ELSE (p[1] - 1) - (m + 1) + 1
    BY <2>1, <2>2, FS_Interval
  <2> QED
    BY <1>1, <1>2, <2>3, SMTT(30)
<1>8. p[2] - 1 >= Cardinality(later) + Margin
  BY DEF HeardMore
<1>9. Len(Filled(previous, incoming)) = f + l
  <2>1. Filled(previous, incoming) = SubSeq(previous, 1, f) \o incoming
    BY <1>4 DEF Filled
  <2>2. SubSeq(previous, 1, f) \in Seq(Word) /\ Len(SubSeq(previous, 1, f)) = f
    BY <1>1
  <2> HIDE DEF l
  <2> QED
    BY <1>1, <2>1, <2>2 DEF l
<1>10. Len(Cut(previous, incoming, p)) = p[1] - 1 + (l - p[2] + 1)
  <2>1. Cut(previous, incoming, p)
           = SubSeq(previous, 1, p[1] - 1) \o SubSeq(incoming, p[2], l)
    BY DEF Cut
  <2>2. /\ SubSeq(previous, 1, p[1] - 1) \in Seq(Word)
        /\ Len(SubSeq(previous, 1, p[1] - 1)) = p[1] - 1
    BY <1>1, <1>2
  <2>3. SubSeq(incoming, p[2], l) \in Seq(Word) /\ Len(SubSeq(incoming, p[2], l)) = l - p[2] + 1
    BY <1>1, <1>2
  <2> QED
    BY <2>1, <2>2, <2>3
<1>11. Margin \in Nat
  BY SeamsAssumption
<1> DEFINE i == p[1]
           j == p[2]
<1> HIDE DEF later, o, l
<1>12. i \in Nat /\ j \in Nat /\ m \in Nat /\ f \in Nat
  BY <1>1, <1>2
<1>13. j - 1 >= i - 1 - m + Margin
  <2> HIDE DEF i, j
  <2>1. Cardinality(later) >= i - 1 - m /\ j - 1 >= Cardinality(later) + Margin
    BY <1>7, <1>8 DEF i, j
  <2> QED
    BY <1>7, <1>11, <1>12, <2>1
<1>14. f + l >= i - 1 + (l - j + 1) + Margin
  <2> HIDE DEF i, j
  <2> QED
    BY <1>1, <1>6, <1>11, <1>12, <1>13
<1> QED
  BY <1>9, <1>10, <1>14

-----------------------------------------------------------------------------
(* The windows *)

\* The samples of a window, of the part it shares with the next, and of the
\* step from one to the next.
Long == Size * Rate
Shared == Overlap * Rate
Step == Stride * Rate

\* The step is the window without the shared part, and it goes forward.
LEMMA StepsForward ==
    /\ Long \in Nat /\ Shared \in Nat /\ Step \in Nat
    /\ Step = Long - Shared /\ 0 < Step
<1>. USE SeamsAssumption, WindowAssumption
<1>1. Stride \in Nat \ {0} /\ Rate \in Nat \ {0}
  BY DEF Stride
<1>2. Long \in Nat /\ Shared \in Nat /\ Step \in Nat
  BY <1>1 DEF Long, Shared, Step
<1>3. Step = Long - Shared
  BY <1>1 DEF Long, Shared, Step, Stride
<1>4. 0 < Step
  BY <1>1 DEF Step
<1>. QED BY <1>2, <1>3, <1>4

\* The current window is the n-th, and begins inside the audio.
Window(n) ==
    /\ first = n * Step /\ first < count
    /\ last = Minimum(first + Long, count)

\* Where transcribe is, in terms of the windows joined so far.
Progress ==
    /\ count \in Nat /\ chunks \in Nat /\ first \in Nat /\ last \in Nat
    /\ pc = "decoding" => chunks = 0 /\ last = 0
    /\ pc = "window" => /\ 0 < count
                        /\ chunks = 0 => last = 0
                        /\ chunks # 0 => Window(chunks - 1)
    /\ pc = "merge" => 0 < count /\ Window(chunks)
    /\ pc = "returned" => chunks # 0 /\ Window(chunks - 1) /\ last = count

\* No window has been heard at first.
LEMMA InitProgress == TranscribeInit => Progress
  BY WindowAssumption DEF TranscribeInit, Progress

\* The window that Recognize opens, and where it lies.
LEMMA NextWindow ==
    ASSUME Progress, Recognize
    PROVE  /\ first' \in Nat /\ last' \in Nat
           /\ first' = chunks * Step /\ first' < count
           /\ last' = Minimum(first' + Long, count)
           /\ last < last'
           /\ first' = IF chunks = 0 THEN 0 ELSE last - Shared
<1>. USE StepsForward
<1>1. /\ pc = "window" /\ ~LastWindow
      /\ first' = chunks * Stride * Rate
      /\ last' = Minimum(first' + Size * Rate, count)
  BY DEF Recognize
<1>2. /\ count \in Nat /\ chunks \in Nat /\ first \in Nat /\ last \in Nat
      /\ 0 < count
      /\ chunks = 0 => last = 0
      /\ chunks # 0 => Window(chunks - 1)
  BY <1>1 DEF Progress
<1>3. first' = chunks * Step /\ last' = Minimum(first' + Long, count)
  <2>1. Stride \in Nat /\ Rate \in Nat
    BY SeamsAssumption, WindowAssumption DEF Stride
  <2>2. chunks * Stride * Rate = chunks * (Stride * Rate)
    BY <1>2, <2>1
  <2>. QED BY <1>1, <2>2 DEF Step, Long
<1>4. CASE chunks = 0
  <2>1. first' = 0
    BY <1>2, <1>3, <1>4
  <2>2. last' = Minimum(Long, count) /\ 0 < Long
    BY <1>2, <1>3, <2>1
  <2>. QED BY <1>2, <1>3, <1>4, <2>1, <2>2 DEF Minimum
<1>5. CASE chunks # 0
  <2>1. first = (chunks - 1) * Step /\ first < count
        /\ last = Minimum(first + Long, count)
    BY <1>2, <1>5 DEF Window
  <2>2. last # count
    BY <1>1, <1>2, <1>5 DEF LastWindow
  <2>3. last = first + Long /\ last < count
    BY <1>2, <2>1, <2>2 DEF Minimum
  <2>4. chunks * Step = (chunks - 1) * Step + Step
    BY <1>2
  <2>5. first' = first + Step
    BY <1>3, <2>1, <2>4
  <2>6. first' = last - Shared /\ first' < count
    BY <1>2, <2>3, <2>5
  <2>7. last' = Minimum(last + Step, count)
    BY <1>2, <1>3, <2>3, <2>5
  <2>8. last < last' /\ last' \in Nat
    BY <1>2, <2>3, <2>7 DEF Minimum
  <2>. QED BY <1>2, <1>3, <1>5, <2>5, <2>6, <2>8
<1>. QED BY <1>4, <1>5

\* Every step keeps Progress.
LEMMA StepProgress == Progress /\ [TranscribeNext]_transcribeVars => Progress'
<1>. SUFFICES ASSUME Progress, [TranscribeNext]_transcribeVars PROVE Progress'
  OBVIOUS
<1>. USE DEF Progress, Window
<1>1. CASE Decode
  BY <1>1, WindowAssumption DEF Decode
<1>2. CASE Halt
  BY <1>2 DEF Halt
<1>3. CASE Recognize
  <2>1. count' = count /\ chunks' = chunks /\ pc = "window" /\ pc' = "merge"
    BY <1>3 DEF Recognize
  <2>2. /\ first' \in Nat /\ last' \in Nat
        /\ first' = chunks * Step /\ first' < count
        /\ last' = Minimum(first' + Long, count)
    BY <1>3, NextWindow
  <2>3. Window(chunks)'
    BY <2>1, <2>2 DEF Step, Stride, Long, Minimum
  <2>. QED BY <2>1, <2>2, <2>3
<1>4. CASE MergeWords
  <2>1. /\ pc = "merge" /\ pc' \in {"failed", "window"}
        /\ count' = count /\ first' = first /\ last' = last
        /\ chunks' = IF pc' = "window" THEN chunks + 1 ELSE chunks'
        /\ chunks' \in {chunks, chunks + 1}
    BY <1>4 DEF MergeWords
  <2>2. CASE pc' = "window"
    <3>1. chunks' = chunks + 1 /\ chunks' # 0 /\ chunks' - 1 = chunks
      BY <2>1, <2>2
    <3>2. Window(chunks)
      BY <2>1
    <3>3. (Window(chunks - 1))'
      BY <2>1, <3>1, <3>2 DEF Step, Stride, Long, Minimum
    <3>. QED BY <2>1, <2>2, <3>1, <3>3
  <2>3. CASE pc' = "failed"
    BY <2>1, <2>3
  <2>. QED BY <2>1, <2>2, <2>3
<1>5. CASE Return
  <2>1. /\ pc = "window" /\ chunks > 0 /\ last = count
        /\ pc' \in {"returned", "invalid"}
        /\ UNCHANGED <<count, first, last, chunks>>
    BY <1>5 DEF Return, LastWindow
  <2>2. (Window(chunks - 1))'
    BY <2>1 DEF Step, Stride, Long, Minimum
  <2>. QED BY <2>1, <2>2
<1>6. CASE UNCHANGED transcribeVars
  BY <1>6 DEF transcribeVars, Step, Stride, Long, Minimum
<1>. QED BY <1>1, <1>2, <1>3, <1>4, <1>5, <1>6 DEF TranscribeNext

\* The windows of an inference overlap by exactly Overlap, each reaches further
\* than the one before, and a result is made of all of the audio (windows).
THEOREM WindowsAlwaysCover == TranscribeSpec => WindowsCover
<1>1. Progress /\ [TranscribeNext]_transcribeVars
      => [pc' = "merge" =>
             /\ last < last'
             /\ first' = IF chunks = 0 THEN 0 ELSE last - Overlap * Rate]_transcribeVars
  <2>. SUFFICES ASSUME Progress, TranscribeNext, pc' = "merge"
                PROVE  /\ last < last'
                       /\ first' = IF chunks = 0 THEN 0 ELSE last - Overlap * Rate
    BY DEF transcribeVars
  <2>1. Recognize
    BY DEF TranscribeNext, Decode, Halt, MergeWords, Return
  <2>. QED BY <2>1, NextWindow DEF Shared
<1>2. Progress => (pc = "returned" =>
                      first = (chunks - 1) * Stride * Rate /\ last = count)
  <2>. SUFFICES ASSUME Progress, pc = "returned"
                PROVE  first = (chunks - 1) * Stride * Rate /\ last = count
    OBVIOUS
  <2>1. chunks \in Nat /\ first = (chunks - 1) * (Stride * Rate) /\ last = count
    BY DEF Progress, Window, Step
  <2>2. Stride \in Nat /\ Rate \in Nat
    BY SeamsAssumption, WindowAssumption DEF Stride
  <2>. QED BY <2>1, <2>2
<1>. QED BY <1>1, <1>2, InitProgress, StepProgress, PTL
         DEF TranscribeSpec, WindowsCover

-----------------------------------------------------------------------------
(* Milliseconds *)

\* A quotient and a remainder are the only ones.
LEMMA Division ==
    ASSUME NEW n \in Nat, NEW q \in Nat, NEW r \in Nat, r < Rate, n = q * Rate + r
    PROVE  n \div Rate = q /\ n % Rate = r
<1>1. Rate \in Nat /\ 0 < Rate
  BY WindowAssumption
<1> DEFINE d == n \div Rate
           m == n % Rate
<1>2. d \in Nat /\ m \in Nat /\ m < Rate /\ n = d * Rate + m
  BY <1>1
<1> HIDE DEF d, m
<1>3. ASSUME NEW a \in Nat, NEW b \in Nat, a < b PROVE a * Rate + Rate <= b * Rate
  <2>1. (a + 1) * Rate <= b * Rate
    BY <1>1, <1>3
  <2>2. (a + 1) * Rate = a * Rate + Rate
    BY <1>1
  <2> QED
    BY <2>1, <2>2
<1>4. d * Rate \in Nat /\ q * Rate \in Nat
  BY <1>1, <1>2
<1>5. ~(d < q)
  <2> SUFFICES ASSUME d < q PROVE FALSE
    OBVIOUS
  <2>1. d * Rate + Rate <= q * Rate
    BY <1>2, <1>3
  <2> QED
    BY <1>1, <1>2, <1>4, <2>1
<1>6. ~(q < d)
  <2> SUFFICES ASSUME q < d PROVE FALSE
    OBVIOUS
  <2>1. q * Rate + Rate <= d * Rate
    BY <1>2, <1>3
  <2> QED
    BY <1>1, <1>2, <1>4, <2>1
<1>7. d = q
  BY <1>2, <1>5, <1>6
<1>8. m = r
  BY <1>2, <1>4, <1>7
<1> QED
  BY <1>7, <1>8 DEF d, m

\* Rounding adds half a millisecond at most, and keeps whole ones.
LEMMA RoundingFacts ==
    ASSUME NEW n \in Nat
    PROVE  /\ n \div Rate \in Nat /\ n % Rate \in Nat /\ n % Rate < Rate
           /\ Milliseconds(n) \in Nat
           /\ n \div Rate <= Milliseconds(n) /\ Milliseconds(n) <= n \div Rate + 1
<1>1. Rate \in Nat /\ 0 < Rate
  BY WindowAssumption
<1>2. n \div Rate \in Nat /\ n % Rate \in Nat /\ n % Rate < Rate
  BY <1>1
<1>3. Milliseconds(n) = n \div Rate \/ Milliseconds(n) = n \div Rate + 1
  BY DEF Milliseconds
<1> QED
  BY <1>2, <1>3

\* More samples never last less.
LEMMA RoundingGrows ==
    ASSUME NEW n \in Nat, NEW m \in Nat, n <= m
    PROVE  Milliseconds(n) <= Milliseconds(m)
<1> DEFINE q == n \div Rate
           r == n % Rate
           p == m \div Rate
           s == m % Rate
<1>1. Rate \in Nat /\ 0 < Rate
  BY WindowAssumption
<1>2. /\ q \in Nat /\ r \in Nat /\ r < Rate /\ n = q * Rate + r
      /\ p \in Nat /\ s \in Nat /\ s < Rate /\ m = p * Rate + s
  <2>1. q \in Nat /\ r \in Nat /\ r < Rate /\ n = q * Rate + r
    BY <1>1
  <2>2. p \in Nat /\ s \in Nat /\ s < Rate /\ m = p * Rate + s
    BY <1>1
  <2> QED
    BY <2>1, <2>2
<1>3. /\ Milliseconds(n) \in Nat /\ Milliseconds(m) \in Nat
      /\ Milliseconds(n) <= q + 1 /\ p <= Milliseconds(m)
  BY RoundingFacts
<1>4. /\ Milliseconds(n) = IF 2 * r < Rate \/ (2 * r = Rate /\ q % 2 = 0) THEN q ELSE q + 1
      /\ Milliseconds(m) = IF 2 * s < Rate \/ (2 * s = Rate /\ p % 2 = 0) THEN p ELSE p + 1
  BY DEF Milliseconds
<1> HIDE DEF q, r, p, s
<1>5. ~(p < q)
  <2> SUFFICES ASSUME p < q PROVE FALSE
    OBVIOUS
  <2>1. (p + 1) * Rate <= q * Rate
    BY <1>1, <1>2
  <2>2. (p + 1) * Rate = p * Rate + Rate /\ p * Rate \in Nat /\ q * Rate \in Nat
    BY <1>1, <1>2
  <2> QED
    BY <1>1, <1>2, <2>1, <2>2
<1>6. CASE q < p
  BY <1>2, <1>3, <1>6
<1>7. CASE q = p
  <2>1. q * Rate \in Nat
    BY <1>1, <1>2
  <2>2. r <= s
    BY <1>2, <1>7, <2>1
  <2> QED
    BY <1>1, <1>2, <1>4, <1>7, <2>2
<1> QED
  BY <1>2, <1>5, <1>6, <1>7

\* An even number of milliseconds more is that much more.
LEMMA RoundingShifts ==
    ASSUME NEW n \in Nat, NEW e \in Nat, e % 2 = 0
    PROVE  Milliseconds(n + e * Rate) = Milliseconds(n) + e
<1> DEFINE q == n \div Rate
           r == n % Rate
           m == n + e * Rate
<1>1. Rate \in Nat /\ 0 < Rate
  BY WindowAssumption
<1>2. q \in Nat /\ r \in Nat /\ r < Rate /\ n = q * Rate + r
  BY <1>1
<1>3. Milliseconds(n) = IF 2 * r < Rate \/ (2 * r = Rate /\ q % 2 = 0) THEN q ELSE q + 1
  BY DEF Milliseconds
<1>4. m \in Nat /\ m = (q + e) * Rate + r
  <2> HIDE DEF q, r
  <2>1. (q + e) * Rate = q * Rate + e * Rate /\ q * Rate \in Nat /\ e * Rate \in Nat
    BY <1>1, <1>2
  <2> QED
    BY <1>2, <2>1
<1>5. m \div Rate = q + e /\ m % Rate = r
  <2> HIDE DEF q, r, m
  <2> QED
    BY <1>2, <1>4, Division
<1>6. Milliseconds(m) = IF 2 * r < Rate \/ (2 * r = Rate /\ (q + e) % 2 = 0)
                        THEN q + e ELSE q + e + 1
  <2> HIDE DEF q, r, m
  <2> QED
    BY <1>5 DEF Milliseconds
<1>7. (q + e) % 2 = 0 <=> q % 2 = 0
  <2> HIDE DEF q
  <2> QED
    BY <1>2
<1> HIDE DEF q, r
<1> QED
  BY <1>1, <1>2, <1>3, <1>6, <1>7

\* Whole milliseconds are not rounded.
LEMMA RoundingWhole ==
    ASSUME NEW n \in Nat
    PROVE  Milliseconds(n * Rate) = n
<1>1. Rate \in Nat /\ 0 < Rate
  BY WindowAssumption
<1>2. n * Rate \in Nat /\ n * Rate = n * Rate + 0
  BY <1>1
<1>3. (n * Rate) \div Rate = n /\ (n * Rate) % Rate = 0
  BY <1>1, <1>2, Division
<1> QED
  BY <1>1, <1>3 DEF Milliseconds

-----------------------------------------------------------------------------
(* The words of a window *)

Reported(duration) == [text : Text, start : 0 .. duration, end : 0 .. duration + 1]

Placed(w, duration, offset) == Shifted(Aligned(w, duration), offset)

\* Where a word is placed in a window.
LEMMA PlacedAt ==
    ASSUME NEW duration \in Nat, NEW offset \in Nat, NEW w \in Reported(duration)
    PROVE  LET v == Placed(w, duration, offset)
               from == Maximum(0, Minimum(duration - 1, w.start))
           IN  /\ v \in Word
               /\ v.start = from + offset
               /\ v.end = Minimum(duration, Maximum(from + 1, w.end)) + offset
               /\ offset <= v.start /\ v.start <= v.end /\ v.end <= offset + duration
               /\ 0 < duration => v.start < v.end
<1> DEFINE from == Maximum(0, Minimum(duration - 1, w.start))
           to == Minimum(duration, Maximum(from + 1, w.end))
           a == Aligned(w, duration)
           v == Placed(w, duration, offset)
<1>1. w \in [text : Text, start : Int, end : Int]
  BY DEF Reported
<1>2. w.start \in 0 .. duration /\ w.end \in 0 .. duration + 1
  BY DEF Reported
<1>3. from \in Nat /\ from <= duration /\ (0 < duration => from < duration)
  BY <1>2 DEF Maximum, Minimum
<1>4. to \in Nat /\ to <= duration /\ from <= to /\ (0 < duration => from < to)
  <2> HIDE DEF from
  <2> QED
    BY <1>2, <1>3 DEF Maximum, Minimum
<1>5. a = [w EXCEPT !.start = from, !.end = to]
  BY DEF Aligned
<1> HIDE DEF from, to, a
<1>6. a \in [text : Text, start : Nat, end : Nat] /\ a.start = from /\ a.end = to
  BY <1>1, <1>3, <1>4, <1>5
<1>7. v = [a EXCEPT !.start = a.start + offset, !.end = a.end + offset]
  BY DEF Placed, Shifted, a
<1> HIDE DEF v
<1>8. v \in Word /\ v.start = from + offset /\ v.end = to + offset
  <2> DEFINE b == from + offset
             e == to + offset
  <2>1. b \in Nat /\ e \in Nat
    BY <1>3, <1>4
  <2>2. v = [a EXCEPT !.start = b, !.end = e]
    BY <1>6, <1>7
  <2> HIDE DEF b, e
  <2>3. v \in [text : Text, start : Nat, end : Nat] /\ v.start = b /\ v.end = e
    BY <1>6, <2>1, <2>2
  <2> QED
    BY <2>3 DEF b, e, Word
<1> QED
  BY <1>3, <1>4, <1>8 DEF v, from, to

\* Words that are in order are placed in order.
LEMMA PlacedInOrder ==
    ASSUME NEW duration \in Nat, NEW offset \in Nat,
           NEW w \in Reported(duration), NEW x \in Reported(duration),
           w.start <= x.start, w.end <= x.end
    PROVE  /\ Placed(w, duration, offset).start <= Placed(x, duration, offset).start
           /\ Placed(w, duration, offset).end <= Placed(x, duration, offset).end
<1>1. /\ w.start \in 0 .. duration /\ w.end \in 0 .. duration + 1
      /\ x.start \in 0 .. duration /\ x.end \in 0 .. duration + 1
  BY DEF Reported
<1> DEFINE from(u) == Maximum(0, Minimum(duration - 1, u.start))
           to(u) == Minimum(duration, Maximum(from(u) + 1, u.end))
<1>2. from(w) \in Nat /\ from(x) \in Nat /\ from(w) <= from(x)
  BY <1>1 DEF Maximum, Minimum
<1>3. to(w) \in Int /\ to(x) \in Int /\ to(w) <= to(x)
  <2> HIDE DEF from
  <2> QED
    BY <1>1, <1>2 DEF Maximum, Minimum
<1>4. /\ Placed(w, duration, offset).start = from(w) + offset
      /\ Placed(w, duration, offset).end = to(w) + offset
  BY PlacedAt
<1>5. /\ Placed(x, duration, offset).start = from(x) + offset
      /\ Placed(x, duration, offset).end = to(x) + offset
  BY PlacedAt
<1> HIDE DEF from, to
<1> QED
  BY <1>2, <1>3, <1>4, <1>5

\* All words of a window.
LEMMA HeardFacts ==
    ASSUME NEW duration \in Nat, NEW offset \in Nat, NEW s \in Heard(duration),
           NEW list, list = [i \in DOMAIN s |-> Shifted(Aligned(s[i], duration), offset)]
    PROVE  /\ Timed(list)
           /\ \A i \in DOMAIN list :
                 /\ offset <= list[i].start /\ list[i].end <= offset + duration
                 /\ 0 < duration => list[i].start < list[i].end
<1>1. PICK n \in Nat : s \in Seq(Reported(duration)) /\ Len(s) = n /\ Ordered(s)
  <2> DEFINE timed == {w \in Reported(duration) : w.end - w.start \in Extent}
  <2>1. PICK n \in 0 .. Spoken : s \in [1 .. n -> timed] /\ Ordered(s)
    BY DEF Heard, Reported
  <2> QED
    BY <2>1
<1>2. list = [i \in 1 .. n |-> Placed(s[i], duration, offset)]
  BY <1>1 DEF Placed
<1>3. \A i \in 1 .. n : s[i] \in Reported(duration)
  BY <1>1
<1>4. ASSUME NEW i \in 1 .. n
      PROVE  /\ list[i] \in Word
             /\ offset <= list[i].start /\ list[i].end <= offset + duration
             /\ list[i].start <= list[i].end
             /\ 0 < duration => list[i].start < list[i].end
  <2>1. list[i] = Placed(s[i], duration, offset)
    BY <1>2
  <2> QED
    BY <1>3, <2>1, PlacedAt
<1>5. list \in Seq(Word) /\ Len(list) = n /\ DOMAIN list = 1 .. n
  BY <1>1, <1>2, <1>4
<1>6. Ordered(list)
  <2> SUFFICES ASSUME NEW i \in 1 .. n - 1
               PROVE  list[i].start <= list[i + 1].start /\ list[i].end <= list[i + 1].end
    BY <1>5 DEF Ordered
  <2>1. i \in 1 .. n /\ i + 1 \in 1 .. n
    BY <1>1
  <2>2. s[i].start <= s[i + 1].start /\ s[i].end <= s[i + 1].end
    BY <1>1 DEF Ordered
  <2>3. /\ list[i] = Placed(s[i], duration, offset)
        /\ list[i + 1] = Placed(s[i + 1], duration, offset)
    BY <1>2, <2>1
  <2> QED
    BY <1>3, <2>1, <2>2, <2>3, PlacedInOrder
<1> QED
  BY <1>4, <1>5, <1>6 DEF Timed

\* A window of f to l, of c samples, is within the audio also in milliseconds,
\* and lasts for some, unless all of the audio lasts for none.
LEMMA WindowTimes ==
    ASSUME NEW n \in Nat, NEW f \in Nat, NEW l \in Nat, NEW c \in Nat,
           f = n * Step, f < c, l = Minimum(f + Long, c),
           n # 0 => f + Shared <= l
    PROVE  /\ f \div Rate \in Nat /\ Milliseconds(l - f) \in Nat
           /\ f \div Rate + Milliseconds(l - f) <= Milliseconds(c)
           /\ Milliseconds(c) # 0 => 0 < Milliseconds(l - f)
<1>1. /\ Rate \in Nat /\ 0 < Rate /\ Size \in Nat /\ 0 < Size
      /\ Overlap \in Nat /\ 0 < Overlap /\ Stride \in Nat /\ 0 < Stride
  BY SeamsAssumption, WindowAssumption DEF Stride
<1>2. f <= l /\ l <= c /\ l - f \in Nat
  BY StepsForward DEF Minimum
<1> DEFINE e == n * Stride
<1>3. e \in Nat /\ f = e * Rate
  <2>1. n * (Stride * Rate) = (n * Stride) * Rate /\ n * Stride \in Nat
    BY <1>1
  <2> QED
    BY <2>1 DEF Step
<1>4. e % 2 = 0
  <2>1. Stride % 2 = 0
    BY StrideAssumption DEF Stride
  <2>2. PICK h \in Nat : Stride = 2 * h
    <3>1. Stride = 2 * (Stride \div 2) /\ Stride \div 2 \in Nat
      BY <1>1, <2>1
    <3> QED
      BY <3>1
  <2>3. n * Stride = 2 * (n * h) /\ n * h \in Nat
    BY <2>2
  <2> QED
    BY <2>3
<1> HIDE DEF e
<1>5. f \div Rate = e
  <2>1. f = e * Rate + 0
    BY <1>3
  <2> QED
    BY <1>1, <1>3, <2>1, Division
<1>6. Milliseconds(l) = Milliseconds(l - f) + e
  <2> DEFINE d == l - f
  <2>1. d \in Nat /\ l = d + e * Rate
    BY <1>2, <1>3
  <2> HIDE DEF d
  <2>2. Milliseconds(d + e * Rate) = Milliseconds(d) + e
    BY <1>3, <1>4, <2>1, RoundingShifts
  <2> QED
    BY <2>1, <2>2 DEF d
<1>7. /\ Milliseconds(l - f) \in Nat /\ Milliseconds(l) <= Milliseconds(c)
      /\ Milliseconds(c) \in Nat
  BY <1>2, RoundingFacts, RoundingGrows
<1>8. ASSUME Milliseconds(c) # 0 PROVE 0 < Milliseconds(l - f)
  <2>1. CASE n = 0
    <3>1. f = 0 /\ l - f = l
      BY <2>1, StepsForward
    <3>2. CASE l = c
      BY <1>7, <1>8, <3>1, <3>2
    <3>3. CASE l # c
      <4>1. l = Size * Rate
        BY <3>1, <3>3, StepsForward DEF Minimum, Long
      <4>2. Milliseconds(l) = Size
        BY <1>1, <4>1, RoundingWhole
      <4> QED
        BY <1>1, <3>1, <4>2
    <3> QED
      BY <3>2, <3>3
  <2>2. CASE n # 0
    <3>1. Shared <= l - f
      BY <1>2, <2>2, StepsForward
    <3>2. Milliseconds(Shared) = Overlap
      BY <1>1, RoundingWhole DEF Shared
    <3>3. Milliseconds(Shared) <= Milliseconds(l - f)
      BY <1>2, <3>1, StepsForward, RoundingGrows
    <3> QED
      BY <1>1, <1>7, <3>2, <3>3
  <2> QED
    BY <2>1, <2>2
<1> QED
  BY <1>3, <1>5, <1>6, <1>7, <1>8

-----------------------------------------------------------------------------
(* The transcript *)

\* The words of list are in the audio, if it lasts at all.
Inside(list) ==
    Milliseconds(count) # 0 =>
        \A i \in DOMAIN list :
            list[i].start < list[i].end /\ list[i].end <= Milliseconds(count)

\* The words that Recognize got, and begin in the current window.
Fresh ==
    /\ Timed(words) /\ Inside(words)
    /\ \A i \in DOMAIN words : first \div Rate <= words[i].start

Transcript ==
    /\ Progress
    /\ seams \in [fallback : Nat, recovered : Nat]
    /\ Timed(combined) /\ Inside(combined)
    /\ pc = "merge" => Fresh
    /\ pc \in {"decoding", "window", "merge"} => Len(combined) <= WordLimit
    /\ pc \in {"window", "merge"} => count <= MaxAudio * Rate
    /\ pc = "returned" => Valid

\* There are no words at first.
LEMMA InitTranscript == TranscribeInit => Transcript
<1> SUFFICES ASSUME TranscribeInit PROVE Transcript
  OBVIOUS
<1>1. /\ pc = "decoding" /\ combined = << >>
      /\ seams = [fallback |-> 0, recovered |-> 0]
  BY DEF TranscribeInit
<1>2. Timed(combined) /\ Inside(combined)
  BY <1>1 DEF Timed, Inside, Ordered
<1>3. Len(combined) <= WordLimit
  BY <1>1, WindowAssumption
<1> QED
  BY <1>1, <1>2, <1>3, InitProgress DEF Transcript

\* What is recognized is in the window.
LEMMA RecognizeFresh ==
    ASSUME Transcript, Recognize
    PROVE  Fresh'
<1>1. /\ Progress /\ first' \in Nat /\ last' \in Nat
      /\ first' = chunks * Step /\ first' < count
      /\ last' = Minimum(first' + Long, count)
      /\ last < last'
      /\ first' = IF chunks = 0 THEN 0 ELSE last - Shared
  BY NextWindow DEF Transcript
<1>2. chunks \in Nat /\ count \in Nat /\ last \in Nat
  BY <1>1 DEF Progress
<1> DEFINE duration == Milliseconds(last' - first')
           offset == first' \div Rate
<1>3. chunks # 0 => first' + Shared <= last'
  BY <1>1, <1>2, StepsForward
<1>4. /\ offset \in Nat /\ duration \in Nat
      /\ offset + duration <= Milliseconds(count)
      /\ Milliseconds(count) # 0 => 0 < duration
  BY <1>1, <1>2, <1>3, WindowTimes
<1>5. PICK s \in Heard(duration) :
         words' = [i \in DOMAIN s |-> Shifted(Aligned(s[i], duration), offset)]
  BY DEF Recognize
<1>6. count' = count
  BY DEF Recognize
<1> HIDE DEF duration
<1>7. /\ Timed(words')
      /\ \A i \in DOMAIN words' :
            /\ offset <= words'[i].start /\ words'[i].end <= offset + duration
            /\ 0 < duration => words'[i].start < words'[i].end
  <2> DEFINE o == offset
             list == words'
  <2>1. o \in Nat /\ list = [i \in DOMAIN s |-> Shifted(Aligned(s[i], duration), o)]
    BY <1>4, <1>5
  <2> HIDE DEF o, list
  <2>2. /\ Timed(list)
        /\ \A i \in DOMAIN list :
              /\ o <= list[i].start /\ list[i].end <= o + duration
              /\ 0 < duration => list[i].start < list[i].end
    BY <1>4, <2>1, HeardFacts
  <2> QED
    BY <2>2 DEF o, list
<1>8. ASSUME Milliseconds(count) # 0, NEW i \in DOMAIN words'
      PROVE  /\ words'[i].start < words'[i].end
             /\ words'[i].end <= Milliseconds(count)
  <2>1. words'[i] \in Word
    BY <1>7 DEF Timed
  <2>2. words'[i].end \in Nat
    BY <2>1 DEF Word
  <2>3. Milliseconds(count) \in Nat
    BY <1>2, RoundingFacts
  <2> HIDE DEF offset
  <2> QED
    BY <1>4, <1>7, <1>8, <2>2, <2>3
<1>9. Timed(words)' /\ Inside(words)'
  BY <1>6, <1>7, <1>8 DEF Inside
<1> QED
  BY <1>7, <1>9 DEF Fresh

\* What a merge makes of the transcript and the words of a window.
LEMMA MergeFacts ==
    ASSUME Transcript, MergeWords
    PROVE  LET start == first \div Rate
               merged == Merge(combined, words, start)
           IN  /\ pc = "merge" /\ start \in Nat /\ Fresh
               /\ merged.seam \in {"clean", "recovered", "fallback", "failed"}
               /\ merged.seam # "failed" =>
                     Good(merged.words, combined, words, start)
               /\ merged.seam = "recovered" =>
                     /\ words # << >> /\ start <= words[1].start
                     /\ merged.words = Filled(combined, words)
                     /\ \E k \in DOMAIN Matches(combined, words, start) :
                           /\ SeamAt(Matches(combined, words, start)[k],
                                     combined, words, start)
                           /\ HeardMore(combined,
                                        Matches(combined, words, start)[k], start)
<1> DEFINE start == first \div Rate
<1>1. pc = "merge" /\ Fresh /\ Timed(combined)
  BY DEF MergeWords, Transcript
<1>2. start \in Nat
  <2>1. first \in Nat
    BY DEF Transcript, Progress
  <2> QED
    BY <2>1, RoundingFacts
<1>3. Timed(words) /\ (words # << >> => start <= words[1].start)
  <2>1. Timed(words) /\ \A i \in DOMAIN words : start <= words[i].start
    BY <1>1 DEF Fresh
  <2>2. words # << >> => 1 \in DOMAIN words
    BY <2>1 DEF Timed
  <2> QED
    BY <2>1, <2>2
<1> HIDE DEF start
<1>4. start \in Int
  BY <1>2
<1> QED
  BY <1>1, <1>2, <1>3, <1>4, MergeSeamed DEF start

\* Words of a transcript and a window that are inside the audio.
LEMMA GoodInside ==
    ASSUME Timed(combined), Timed(words), Inside(combined), Inside(words),
           NEW start \in Int, NEW result, Good(result, combined, words, start)
    PROVE  Timed(result) /\ Inside(result)
<1>1. /\ result \in Seq(Word) /\ Ordered(result)
      /\ Range(result) \subseteq Range(combined) \cup Range(words)
  BY SeamedKeeps DEF Good
<1>2. ASSUME NEW i \in DOMAIN result
      PROVE  \/ \E k \in DOMAIN combined : result[i] = combined[k]
             \/ \E k \in DOMAIN words : result[i] = words[k]
  BY <1>1 DEF Range
<1>3. ASSUME NEW i \in DOMAIN result PROVE result[i].start <= result[i].end
  BY <1>2 DEF Timed
<1>4. Inside(result)
  BY <1>2 DEF Inside
<1> QED
  BY <1>1, <1>3, <1>4 DEF Timed

\* The words of the transcript stay valid when a window is joined to it.
LEMMA MergeTranscript ==
    ASSUME Transcript, MergeWords, Progress'
    PROVE  Transcript'
<1> DEFINE start == first \div Rate
           merged == Merge(combined, words, start)
<1>1. /\ start \in Nat /\ Fresh
      /\ merged.seam \in {"clean", "recovered", "fallback", "failed"}
      /\ merged.seam # "failed" => Good(merged.words, combined, words, start)
  BY MergeFacts
<1>2. /\ Timed(combined) /\ Inside(combined)
      /\ seams \in [fallback : Nat, recovered : Nat]
      /\ count <= MaxAudio * Rate
  BY DEF Transcript, MergeWords
<1>3. /\ IF merged.seam = "failed"
         THEN pc' = "failed" /\ UNCHANGED <<combined, chunks, seams>>
         ELSE /\ pc' = IF Len(merged.words) > WordLimit THEN "failed" ELSE "window"
              /\ combined' = merged.words
              /\ chunks' = chunks + 1
              /\ seams' = IF merged.seam = "clean" THEN seams
                          ELSE [seams EXCEPT ![merged.seam] = @ + 1]
      /\ count' = count
  BY DEF MergeWords
<1> HIDE DEF merged, start
<1>4. CASE merged.seam = "failed"
  <2>1. pc' = "failed" /\ combined' = combined /\ seams' = seams /\ count' = count
    BY <1>3, <1>4
  <2>2. Timed(combined)' /\ Inside(combined)'
    BY <1>2, <2>1 DEF Inside
  <2> QED
    BY <1>2, <2>1, <2>2 DEF Transcript
<1>5. CASE merged.seam # "failed"
  <2>1. /\ pc' = IF Len(merged.words) > WordLimit THEN "failed" ELSE "window"
        /\ combined' = merged.words
        /\ seams' = IF merged.seam = "clean" THEN seams
                    ELSE [seams EXCEPT ![merged.seam] = seams[merged.seam] + 1]
        /\ count' = count
    BY <1>3, <1>5
  <2>2. seams' \in [fallback : Nat, recovered : Nat]
    <3>1. CASE merged.seam = "clean"
      BY <1>2, <2>1, <3>1
    <3>2. CASE merged.seam = "recovered"
      BY <1>2, <2>1, <3>2
    <3>3. CASE merged.seam = "fallback"
      BY <1>2, <2>1, <3>3
    <3> QED
      BY <1>1, <1>5, <3>1, <3>2, <3>3
  <2>3. Timed(merged.words) /\ Inside(merged.words)
    BY <1>1, <1>2, <1>5, GoodInside DEF Fresh
  <2>4. Timed(combined)' /\ Inside(combined)'
    BY <2>1, <2>3 DEF Inside
  <2>5. pc' = "window" => Len(combined') <= WordLimit
    <3>1. Len(merged.words) \in Nat
      BY <2>3 DEF Timed
    <3> QED
      BY <2>1, <3>1, WindowAssumption
  <2> QED
    BY <1>2, <2>1, <2>2, <2>4, <2>5 DEF Transcript
<1> QED
  BY <1>4, <1>5

\* What is valid of a transcript of all of the audio.
LEMMA WholeIsValid ==
    ASSUME Transcript, pc = "window", LastWindow,
           Milliseconds(count) # 0, HasRoom(combined)
    PROVE  Valid
<1>1. /\ Timed(combined) /\ Inside(combined)
      /\ count <= MaxAudio * Rate /\ Len(combined) <= WordLimit
      /\ seams \in [fallback : Nat, recovered : Nat]
      /\ chunks \in Nat /\ chunks > 0 /\ count \in Nat
  BY DEF Transcript, Progress, LastWindow
<1>2. Milliseconds(count) <= MaxAudio
  <2>1. MaxAudio \in Nat /\ MaxAudio * Rate \in Nat
    BY WindowAssumption
  <2>2. Milliseconds(MaxAudio * Rate) = MaxAudio
    BY <2>1, RoundingWhole
  <2> QED
    BY <1>1, <2>1, <2>2, RoundingGrows
<1>3. Milliseconds(count) \in Nat
  BY <1>1, RoundingFacts
<1>4. ASSUME NEW i \in DOMAIN combined
      PROVE  /\ 0 <= combined[i].start /\ combined[i].start < combined[i].end
             /\ combined[i].end <= Milliseconds(count)
  <2>1. combined[i] \in Word
    BY <1>1 DEF Timed
  <2>2. combined[i].start \in Nat
    BY <2>1 DEF Word
  <2> QED
    BY <1>1, <2>2 DEF Inside
<1> QED
  BY <1>1, <1>2, <1>3, <1>4 DEF Valid, Timed

\* Every step keeps the transcript valid.
LEMMA StepTranscript ==
    Transcript /\ [TranscribeNext]_transcribeVars => Transcript'
<1> SUFFICES ASSUME Transcript, [TranscribeNext]_transcribeVars PROVE Transcript'
  OBVIOUS
<1>1. Progress'
  BY StepProgress DEF Transcript
<1>2. ASSUME UNCHANGED <<count, combined, seams>>,
             pc' \in {"merge"} => Fresh',
             pc' \in {"decoding", "window", "merge"} => Len(combined) <= WordLimit,
             pc' \in {"window", "merge"} => count <= MaxAudio * Rate,
             pc' = "returned" => Valid'
      PROVE  Transcript'
  <2>1. Timed(combined)' /\ Inside(combined)'
    BY <1>2 DEF Transcript, Inside
  <2> QED
    BY <1>1, <1>2, <2>1 DEF Transcript
<1>3. CASE Decode
  <2>1. /\ pc = "decoding" /\ pc' \in {"window", "failed"}
        /\ pc' = "window" => count <= MaxAudio * Rate
        /\ UNCHANGED <<count, combined, seams>>
    BY <1>3 DEF Decode
  <2>2. Len(combined) <= WordLimit
    BY <2>1 DEF Transcript
  <2> QED
    BY <1>2, <2>1, <2>2
<1>4. CASE Halt
  BY <1>2, <1>4 DEF Halt
<1>5. CASE Recognize
  <2>1. Fresh'
    BY <1>5, RecognizeFresh
  <2>2. count <= MaxAudio * Rate /\ Len(combined) <= WordLimit
    BY <1>5 DEF Transcript, Recognize
  <2>3. UNCHANGED <<count, combined, seams>> /\ pc' = "merge"
    BY <1>5 DEF Recognize
  <2> QED
    BY <1>2, <2>1, <2>2, <2>3
<1>6. CASE MergeWords
  BY <1>1, <1>6, MergeTranscript
<1>7. CASE Return
  <2>1. /\ pc' = IF Valid THEN "returned" ELSE "invalid"
        /\ UNCHANGED <<count, first, last, words, combined, chunks, seams>>
    BY <1>7 DEF Return
  <2>2. Valid => Valid'
    BY <2>1 DEF Valid
  <2> QED
    BY <1>2, <2>1, <2>2
<1>8. CASE UNCHANGED transcribeVars
  <2>1. UNCHANGED <<pc, count, first, last, words, combined, chunks, seams>>
    BY <1>8 DEF transcribeVars
  <2>2. pc' = "merge" => Fresh'
    BY <2>1 DEF Transcript, Fresh, Inside
  <2>3. pc' = "returned" => Valid'
    BY <2>1 DEF Transcript, Valid
  <2>4. pc' \in {"decoding", "window", "merge"} => Len(combined) <= WordLimit
    BY <2>1 DEF Transcript
  <2>5. pc' \in {"window", "merge"} => count <= MaxAudio * Rate
    BY <2>1 DEF Transcript
  <2> QED
    BY <1>2, <2>1, <2>2, <2>3, <2>4, <2>5
<1> QED
  BY <1>3, <1>4, <1>5, <1>6, <1>7, <1>8 DEF TranscribeNext

-----------------------------------------------------------------------------
(* Theorems *)

\* What merging makes of the words passes the validation of the result, for any
\* windows and any reports of the recognizer: Result is refused only for audio of
\* less than half a millisecond, and for words that have no room in it (transcribe,
\* Result.aligned).
THEOREM JoinedWordsAreValid == TranscribeSpec => []NeverInvalid
<1> DEFINE Inv == Transcript /\ NeverInvalid
<1>1. TranscribeInit => Inv
  BY InitTranscript DEF TranscribeInit, NeverInvalid
<1>2. Inv /\ [TranscribeNext]_transcribeVars => Inv'
  <2> SUFFICES ASSUME Transcript, NeverInvalid, [TranscribeNext]_transcribeVars
               PROVE  NeverInvalid'
    BY StepTranscript
  <2>1. CASE Return
    <3>1. /\ pc = "window" /\ LastWindow
          /\ pc' = IF Valid THEN "returned" ELSE "invalid"
          /\ count' = count /\ combined' = combined
      BY <2>1 DEF Return
    <3>2. Valid \/ Milliseconds(count) = 0 \/ ~HasRoom(combined)
      BY <3>1, WholeIsValid
    <3> QED
      BY <3>1, <3>2 DEF NeverInvalid
  <2>2. CASE UNCHANGED transcribeVars
    BY <2>2 DEF transcribeVars, NeverInvalid
  <2>3. CASE Decode \/ Halt \/ Recognize \/ MergeWords
    <3>1. pc' # "invalid"
      BY <2>3 DEF Decode, Halt, Recognize, MergeWords
    <3> QED
      BY <3>1 DEF NeverInvalid
  <2> QED
    BY <2>1, <2>2, <2>3 DEF TranscribeNext
<1>3. Inv => NeverInvalid
  OBVIOUS
<1> QED
  BY <1>1, <1>2, <1>3, PTL DEF TranscribeSpec

\* A seam touches nothing but the overlap, for any words (merge_words).
THEOREM SeamsTouchOverlapOnly == TranscribeSpec => OverlapOnly
<1>1. Transcript /\ [TranscribeNext]_transcribeVars =>
         [chunks' = chunks + 1 =>
            Keeps(combined', combined, words, first \div Rate)]_transcribeVars
  <2> SUFFICES ASSUME Transcript, TranscribeNext, chunks' = chunks + 1
               PROVE  Keeps(combined', combined, words, first \div Rate)
    BY DEF transcribeVars
  <2>1. chunks \in Nat
    BY DEF Transcript, Progress
  <2>2. MergeWords
    BY <2>1 DEF TranscribeNext, Decode, Halt, Recognize, Return
  <2> DEFINE start == first \div Rate
             merged == Merge(combined, words, start)
  <2>3. /\ start \in Nat /\ Fresh
        /\ merged.seam # "failed" => Good(merged.words, combined, words, start)
    BY <2>2, MergeFacts
  <2>4. merged.seam # "failed" /\ combined' = merged.words
    BY <2>1, <2>2 DEF MergeWords
  <2> HIDE DEF merged, start
  <2>5. Seamed(combined', combined, words, start)
    BY <2>3, <2>4 DEF Good
  <2>6. Timed(combined) /\ Timed(words) /\ start \in Int
    BY <2>3 DEF Transcript, Fresh
  <2>7. Keeps(combined', combined, words, start)
    BY <2>5, <2>6, SeamedKeeps
  <2> QED
    BY <2>7 DEF start
<1>2. [][chunks' = chunks + 1 =>
           Keeps(combined', combined, words, first \div Rate)]_transcribeVars
      => OverlapOnly
  BY DEF OverlapOnly, Keeps
<1> QED
  BY <1>1, <1>2, InitTranscript, StepTranscript, PTL DEF TranscribeSpec

\* A recovered passage is longer than the cut it replaces, for any words (recovered).
THEOREM RecoveriesGain == TranscribeSpec => RecoveryGains
<1>1. Transcript /\ [TranscribeNext]_transcribeVars =>
         [seams'.recovered > seams.recovered =>
            \E k \in DOMAIN Matches(combined, words, first \div Rate) :
               Len(combined') >=
                  Len(Cut(combined, words, Matches(combined, words, first \div Rate)[k]))
                  + Margin]_transcribeVars
  <2> SUFFICES ASSUME Transcript, TranscribeNext, seams'.recovered > seams.recovered
               PROVE  \E k \in DOMAIN Matches(combined, words, first \div Rate) :
                         Len(combined') >=
                            Len(Cut(combined, words,
                                    Matches(combined, words, first \div Rate)[k]))
                            + Margin
    BY DEF transcribeVars
  <2>1. seams \in [fallback : Nat, recovered : Nat]
    BY DEF Transcript
  <2>2. MergeWords
    BY <2>1 DEF TranscribeNext, Decode, Halt, Recognize, Return
  <2> DEFINE start == first \div Rate
             merged == Merge(combined, words, start)
             matches == Matches(combined, words, start)
  <2>3. /\ start \in Nat /\ Fresh
        /\ merged.seam \in {"clean", "recovered", "fallback", "failed"}
        /\ merged.seam = "recovered" =>
              /\ words # << >> /\ start <= words[1].start
              /\ merged.words = Filled(combined, words)
              /\ \E k \in DOMAIN matches :
                    /\ SeamAt(matches[k], combined, words, start)
                    /\ HeardMore(combined, matches[k], start)
    BY <2>2, MergeFacts
  <2>4. /\ merged.seam = "failed" => seams' = seams
        /\ merged.seam # "failed" =>
              /\ combined' = merged.words
              /\ seams' = IF merged.seam = "clean" THEN seams
                          ELSE [seams EXCEPT ![merged.seam] = seams[merged.seam] + 1]
    BY <2>2 DEF MergeWords
  <2> HIDE DEF merged, start, matches
  <2>5. merged.seam = "recovered"
    <3>1. merged.seam # "failed" /\ merged.seam # "clean"
      BY <2>1, <2>4
    <3>2. merged.seam # "fallback"
      BY <2>1, <2>4
    <3> QED
      BY <2>3, <3>1, <3>2
  <2>6. Timed(combined) /\ Timed(words) /\ start \in Int
    BY <2>3 DEF Transcript, Fresh
  <2>7. PICK k \in DOMAIN matches : /\ SeamAt(matches[k], combined, words, start)
                                    /\ HeardMore(combined, matches[k], start)
    BY <2>3, <2>5
  <2>8. Len(Filled(combined, words)) >= Len(Cut(combined, words, matches[k])) + Margin
    BY <2>3, <2>5, <2>6, <2>7, RecoveredGains
  <2>9. combined' = Filled(combined, words)
    BY <2>3, <2>4, <2>5
  <2> QED
    BY <2>8, <2>9 DEF start, matches
<1> QED
  BY <1>1, InitTranscript, StepTranscript, PTL DEF TranscribeSpec, RecoveryGains

-----------------------------------------------------------------------------
(* Loops over a list *)

\* Steps from X to X.
Closed(step, X, n) == \A k \in 1 .. n : \A x \in X : step[k][x] \in X

\* The values after each step.
Iterates(f, X, base, step, n) ==
    /\ f \in [0 .. n -> X]
    /\ f[0] = base /\ \A k \in 1 .. n : f[k] = step[k][f[k - 1]]

\* A function may be defined from its value before.
LEMMA Recursion ==
    ASSUME NEW X, NEW base \in X, NEW n \in Nat, NEW step, Closed(step, X, n)
    PROVE  \E f : Iterates(f, X, base, step, n)
<1> DEFINE Follows(f, m) == f[0] = base /\ \A k \in 1 .. m : f[k] = step[k][f[k - 1]]
           S == {m \in Nat : m <= n => \E f \in [0 .. m -> X] : Follows(f, m)}
<1>1. 0 \in S
  <2> DEFINE f == [k \in 0 .. 0 |-> base]
  <2>1. f \in [0 .. 0 -> X] /\ Follows(f, 0)
    OBVIOUS
  <2> QED
    BY <2>1
<1>2. ASSUME NEW m \in Nat, m \in S PROVE m + 1 \in S
  <2> SUFFICES ASSUME m + 1 <= n
               PROVE  \E f \in [0 .. m + 1 -> X] : Follows(f, m + 1)
    OBVIOUS
  <2>1. PICK f \in [0 .. m -> X] : Follows(f, m)
    BY <1>2
  <2> DEFINE g == [k \in 0 .. m + 1 |-> IF k <= m THEN f[k] ELSE step[m + 1][f[m]]]
  <2>2. step[m + 1][f[m]] \in X
    <3>1. m + 1 \in 1 .. n /\ m \in 0 .. m
      OBVIOUS
    <3> QED
      BY <2>1, <3>1 DEF Closed
  <2>3. g \in [0 .. m + 1 -> X]
    BY <2>1, <2>2
  <2>4. g[0] = base
    BY <2>1
  <2>5. ASSUME NEW k \in 1 .. m + 1 PROVE g[k] = step[k][g[k - 1]]
    <3>1. CASE k <= m
      <4>1. k \in 1 .. m /\ g[k] = f[k] /\ g[k - 1] = f[k - 1]
        BY <3>1
      <4> QED
        BY <2>1, <4>1
    <3>2. CASE k = m + 1
      BY <3>2
    <3> QED
      BY <3>1, <3>2
  <2> HIDE DEF g
  <2> QED
    BY <2>3, <2>4, <2>5
<1>3. n \in S
  <2> HIDE DEF S
  <2> QED
    BY <1>1, <1>2, Induction
<1> QED
  BY <1>3 DEF Iterates

\* The loop of Group, after each of the words.
Loop(list, after) ==
    /\ after[0] = [groups |-> << >>, chars |-> 0]
    /\ \A k \in 1 .. Len(list) : after[k] = AddWord(after[k - 1], list[k])

Accumulated == [groups : Seq(Seq(Word)), chars : Nat]

\* A turn of the loop makes captions of words.
LEMMA AddWordType ==
    ASSUME NEW acc \in Accumulated, NEW w \in Word
    PROVE  AddWord(acc, w) \in Accumulated
<1> DEFINE g == acc.groups
           n == Chars[w.text]
<1>1. g \in Seq(Seq(Word)) /\ acc.chars \in Nat
  BY DEF Accumulated
<1>2. n \in Nat
  BY TextAssumption DEF Word
<1> HIDE DEF n, g
<1>3. AddWord(acc, w) =
         IF g = << >> THEN [groups |-> << <<w>> >>, chars |-> n]
         ELSE IF Exceeds(Last(g), acc.chars, w)
         THEN [groups |-> Append(g, <<w>>), chars |-> n]
         ELSE [groups |-> Append(Front(g), Append(Last(g), w)),
               chars |-> acc.chars + 1 + n]
  BY DEF AddWord, Restarted, n, g
<1>4. <<w>> \in Seq(Word) /\ << <<w>> >> \in Seq(Seq(Word))
  OBVIOUS
<1>5. Append(g, <<w>>) \in Seq(Seq(Word))
  BY <1>1, <1>4
<1>6. ASSUME g # << >> PROVE Append(Front(g), Append(Last(g), w)) \in Seq(Seq(Word))
  <2>1. Len(g) \in 1 .. Len(g) /\ Len(g) \in Nat
    BY <1>1, <1>6
  <2>2. Last(g) \in Seq(Word) /\ Front(g) \in Seq(Seq(Word))
    BY <1>1, <2>1 DEF Last, Front
  <2> QED
    BY <2>2
<1> QED
  BY <1>1, <1>2, <1>3, <1>4, <1>5, <1>6 DEF Accumulated

\* Group runs through the loop.
LEMMA GroupLoops ==
    ASSUME NEW list \in Seq(Word)
    PROVE  \E after : Loop(list, after) /\ Group(list) = after[Len(list)].groups
<1> DEFINE n == Len(list)
           start == [groups |-> << >>, chars |-> 0]
           step == [k \in 1 .. n |-> [x \in Accumulated |-> AddWord(x, list[k])]]
           Def(f) == [k \in 0 .. n |-> IF k = 0 THEN start ELSE AddWord(f[k - 1], list[k])]
           after == CHOOSE f : f = Def(f)
<1>1. n \in Nat /\ \A k \in 1 .. n : list[k] \in Word
  OBVIOUS
<1>2. start \in Accumulated
  BY DEF Accumulated
<1>3. ASSUME NEW k \in 1 .. n, NEW x \in Accumulated
      PROVE  step[k][x] = AddWord(x, list[k]) /\ step[k][x] \in Accumulated
  BY <1>1, AddWordType
<1>4. PICK f : /\ f \in [0 .. n -> Accumulated]
               /\ f[0] = start /\ \A k \in 1 .. n : f[k] = step[k][f[k - 1]]
  <2> HIDE DEF step, start, n
  <2>1. n \in Nat /\ Closed(step, Accumulated, n)
    BY <1>1, <1>3 DEF Closed
  <2>2. \E f : Iterates(f, Accumulated, start, step, n)
    BY <1>2, <2>1, Recursion
  <2> QED
    BY <2>2 DEF Iterates
<1>5. f = Def(f)
  <2>1. ASSUME NEW k \in 1 .. n PROVE f[k] = AddWord(f[k - 1], list[k])
    <3>1. f[k - 1] \in Accumulated
      BY <1>1, <1>4
    <3> HIDE DEF step
    <3> QED
      BY <1>3, <1>4, <3>1
  <2>2. \A k \in 0 .. n : f[k] = IF k = 0 THEN start ELSE AddWord(f[k - 1], list[k])
    BY <1>1, <1>4, <2>1
  <2> QED
    BY <1>4, <2>2
<1>6. after = Def(after)
  <2> HIDE DEF Def
  <2> QED
    BY <1>5
<1>7. Group(list) = after[n].groups
  BY DEF Group
<1>8. Loop(list, after)
  <2> HIDE DEF after
  <2>1. \A k \in 0 .. n :
           after[k] = IF k = 0 THEN start ELSE AddWord(after[k - 1], list[k])
    BY <1>6
  <2>2. after[0] = start
    BY <1>1, <2>1
  <2>3. \A k \in 1 .. n : after[k] = AddWord(after[k - 1], list[k])
    BY <1>1, <2>1
  <2> QED
    BY <2>2, <2>3 DEF Loop
<1> HIDE DEF after
<1> QED
  BY <1>7, <1>8

-----------------------------------------------------------------------------
(* The length of a text *)

Width(size, list, k) == (IF k = 1 THEN 0 ELSE 1) + size[list[k].text]

\* The length up to each of the words.
Counts(upTo, size, list) ==
    /\ upTo[0] = 0
    /\ \A k \in 1 .. Len(list) : upTo[k] = upTo[k - 1] + Width(size, list, k)

\* A word and the space before it have a length.
LEMMA WidthType ==
    ASSUME NEW size \in [Text -> Nat], NEW list \in Seq(Word), NEW k \in 1 .. Len(list)
    PROVE  Width(size, list, k) \in Nat
<1>1. list[k] \in Word
  OBVIOUS
<1>2. size[list[k].text] \in Nat
  BY <1>1 DEF Word
<1> QED
  BY <1>2 DEF Width

\* The length of a text is counted word by word.
LEMMA TextCounts ==
    ASSUME NEW size \in [Text -> Nat], NEW list \in Seq(Word)
    PROVE  \E upTo : Counts(upTo, size, list) /\ JoinedLength(size, list) = upTo[Len(list)]
<1> DEFINE n == Len(list)
           step == [k \in 1 .. n |-> [x \in Nat |-> x + Width(size, list, k)]]
           Def(f) == [k \in 0 .. n |->
                         IF k = 0 THEN 0
                         ELSE f[k - 1] + (IF k = 1 THEN 0 ELSE 1) + size[list[k].text]]
           upTo == CHOOSE f : f = Def(f)
<1>1. n \in Nat /\ 0 \in Nat
  OBVIOUS
<1>2. ASSUME NEW k \in 1 .. n, NEW x \in Nat
      PROVE  /\ step[k][x] = x + Width(size, list, k) /\ step[k][x] \in Nat
             /\ x + Width(size, list, k)
                   = x + (IF k = 1 THEN 0 ELSE 1) + size[list[k].text]
  <2>1. list[k] \in Word
    OBVIOUS
  <2>2. size[list[k].text] \in Nat
    BY <2>1 DEF Word
  <2>3. Width(size, list, k) \in Nat
    BY WidthType
  <2>4. step[k][x] = x + Width(size, list, k)
    OBVIOUS
  <2>5. x + Width(size, list, k) = x + (IF k = 1 THEN 0 ELSE 1) + size[list[k].text]
    BY <2>2 DEF Width
  <2> HIDE DEF step
  <2> QED
    BY <2>3, <2>4, <2>5
<1>3. PICK f : /\ f \in [0 .. n -> Nat]
               /\ f[0] = 0 /\ \A k \in 1 .. n : f[k] = step[k][f[k - 1]]
  <2> HIDE DEF step, n
  <2>1. Closed(step, Nat, n)
    BY <1>2 DEF Closed
  <2>2. \E f : Iterates(f, Nat, 0, step, n)
    BY <1>1, <2>1, Recursion
  <2> QED
    BY <2>2 DEF Iterates
<1>4. f = Def(f)
  <2>1. ASSUME NEW k \in 1 .. n
        PROVE  f[k] = f[k - 1] + (IF k = 1 THEN 0 ELSE 1) + size[list[k].text]
    <3>1. f[k - 1] \in Nat
      BY <1>1, <1>3
    <3> HIDE DEF step
    <3>2. f[k] = step[k][f[k - 1]]
      BY <1>3
    <3>3. step[k][f[k - 1]] = f[k - 1] + Width(size, list, k)
      BY <1>2, <3>1
    <3>4. f[k - 1] + Width(size, list, k)
             = f[k - 1] + (IF k = 1 THEN 0 ELSE 1) + size[list[k].text]
      BY <1>2, <3>1
    <3> QED
      BY <3>2, <3>3, <3>4
  <2>2. \A k \in 0 .. n :
           f[k] = IF k = 0 THEN 0
                  ELSE f[k - 1] + (IF k = 1 THEN 0 ELSE 1) + size[list[k].text]
    BY <1>1, <1>3, <2>1
  <2> QED
    BY <1>3, <2>2
<1>5. upTo = Def(upTo)
  <2> HIDE DEF Def
  <2> QED
    BY <1>4
<1>6. JoinedLength(size, list) = upTo[n]
  BY DEF JoinedLength
<1> HIDE DEF upTo
<1>7. \A k \in 0 .. n :
         upTo[k] = IF k = 0 THEN 0
                   ELSE upTo[k - 1] + (IF k = 1 THEN 0 ELSE 1) + size[list[k].text]
  BY <1>5
<1>8. upTo[0] = 0
  BY <1>1, <1>7
<1>9. \A k \in 0 .. n : upTo[k] \in Nat
  <2> DEFINE S == {k \in Nat : k <= n => upTo[k] \in Nat}
  <2>1. 0 \in S
    BY <1>8
  <2>2. ASSUME NEW k \in Nat, k \in S PROVE k + 1 \in S
    <3> SUFFICES ASSUME k + 1 <= n PROVE upTo[k + 1] \in Nat
      OBVIOUS
    <3>1. upTo[k] \in Nat /\ k + 1 \in 1 .. n /\ k + 1 - 1 = k
      BY <1>1, <2>2
    <3>2. upTo[k + 1] = upTo[k] + (IF k + 1 = 1 THEN 0 ELSE 1) + size[list[k + 1].text]
      BY <1>1, <1>7, <3>1
    <3>3. list[k + 1] \in Word
      BY <3>1
    <3>4. size[list[k + 1].text] \in Nat
      BY <3>3 DEF Word
    <3> QED
      BY <3>1, <3>2, <3>4
  <2>3. Nat \subseteq S
    <3> HIDE DEF S
    <3> QED
      BY <2>1, <2>2, Induction
  <2> QED
    BY <1>1, <2>3
<1>10. ASSUME NEW k \in 1 .. n PROVE upTo[k] = upTo[k - 1] + Width(size, list, k)
  <2>1. upTo[k - 1] \in Nat
    BY <1>1, <1>9
  <2>2. upTo[k] = upTo[k - 1] + (IF k = 1 THEN 0 ELSE 1) + size[list[k].text]
    BY <1>1, <1>7
  <2> QED
    BY <1>2, <2>1, <2>2
<1> QED
  BY <1>6, <1>8, <1>10 DEF Counts

\* The counts of the words that two lists begin with are the same.
LEMMA CountsAgree ==
    ASSUME NEW size \in [Text -> Nat],
           NEW a \in Seq(Word), NEW b \in Seq(Word), NEW n \in Nat,
           n <= Len(a), n <= Len(b), \A k \in 1 .. n : a[k] = b[k],
           NEW u, NEW v, Counts(u, size, a), Counts(v, size, b)
    PROVE  u[n] = v[n] /\ u[n] \in Nat
<1> DEFINE S == {k \in Nat : k <= n => u[k] = v[k] /\ u[k] \in Nat}
<1>1. 0 \in S
  BY DEF Counts
<1>2. ASSUME NEW k \in Nat, k \in S PROVE k + 1 \in S
  <2> SUFFICES ASSUME k + 1 <= n PROVE u[k + 1] = v[k + 1] /\ u[k + 1] \in Nat
    OBVIOUS
  <2>1. /\ u[k] = v[k] /\ u[k] \in Nat /\ k + 1 \in 1 .. n /\ k + 1 - 1 = k
        /\ k + 1 \in 1 .. Len(a) /\ k + 1 \in 1 .. Len(b)
    BY <1>2
  <2>2. u[k + 1] = u[k] + Width(size, a, k + 1) /\ v[k + 1] = v[k] + Width(size, b, k + 1)
    BY <2>1 DEF Counts
  <2>3. Width(size, a, k + 1) = Width(size, b, k + 1)
    BY <2>1 DEF Width
  <2>4. Width(size, a, k + 1) \in Nat
    BY <2>1, WidthType
  <2> QED
    BY <2>1, <2>2, <2>3, <2>4
<1>3. Nat \subseteq S
  <2> HIDE DEF S
  <2> QED
    BY <1>1, <1>2, Induction
<1> QED
  BY <1>3

\* A word more is its length and a space more.
LEMMA JoinedAppend ==
    ASSUME NEW size \in [Text -> Nat], NEW list \in Seq(Word), NEW w \in Word
    PROVE  /\ JoinedLength(size, list) \in Nat
           /\ JoinedLength(size, Append(list, w))
                 = JoinedLength(size, list) + (IF list = << >> THEN 0 ELSE 1) + size[w.text]
<1> DEFINE n == Len(list)
           b == Append(list, w)
<1>1. /\ n \in Nat /\ b \in Seq(Word) /\ Len(b) = n + 1
      /\ \A k \in 1 .. n : list[k] = b[k]
      /\ b[n + 1] = w
  OBVIOUS
<1>2. PICK u : Counts(u, size, list) /\ JoinedLength(size, list) = u[n]
  BY TextCounts
<1> HIDE DEF b
<1>3. PICK v : Counts(v, size, b) /\ JoinedLength(size, b) = v[n + 1]
  BY <1>1, TextCounts
<1>4. u[n] = v[n] /\ u[n] \in Nat
  <2>1. n \in Nat /\ n <= Len(list) /\ n <= Len(b)
    BY <1>1
  <2>2. b \in Seq(Word) /\ \A k \in 1 .. n : list[k] = b[k]
    BY <1>1
  <2>3. Counts(u, size, list) /\ Counts(v, size, b)
    BY <1>2, <1>3
  <2> HIDE DEF n
  <2> QED
    BY <2>1, <2>2, <2>3, CountsAgree
<1>5. v[n + 1] = v[n] + Width(size, b, n + 1)
  BY <1>1, <1>3 DEF Counts
<1>6. Width(size, b, n + 1) = (IF list = << >> THEN 0 ELSE 1) + size[w.text]
  <2>1. n + 1 = 1 <=> list = << >>
    BY <1>1
  <2> QED
    BY <1>1, <2>1 DEF Width
<1>7. size[w.text] \in Nat
  BY DEF Word
<1> QED
  BY <1>2, <1>3, <1>4, <1>5, <1>6, <1>7 DEF b

LEMMA TextCharsAppend ==
    ASSUME NEW list \in Seq(Word), NEW w \in Word
    PROVE  /\ TextChars(list) \in Nat
           /\ TextChars(Append(list, w))
                 = TextChars(list) + (IF list = << >> THEN 0 ELSE 1) + Chars[w.text]
<1>1. Chars \in [Text -> Nat]
  BY TextAssumption
<1> QED
  BY <1>1, JoinedAppend DEF TextChars

\* A word is as long as its text.
LEMMA TextCharsOne ==
    ASSUME NEW w \in Word
    PROVE  TextChars(<<w>>) = Chars[w.text]
<1>1. << >> \in Seq(Word) /\ Append(<< >>, w) = <<w>>
  OBVIOUS
<1>2. PICK u : Counts(u, Chars, << >>) /\ TextChars(<< >>) = u[Len(<< >>)]
  <2>1. Chars \in [Text -> Nat]
    BY TextAssumption
  <2> QED
    BY <1>1, <2>1, TextCounts DEF TextChars
<1>3. TextChars(<< >>) = 0
  BY <1>2 DEF Counts
<1>4. Chars[w.text] \in Nat
  BY TextAssumption DEF Word
<1>5. TextChars(Append(<< >>, w)) = TextChars(<< >>) + 0 + Chars[w.text]
  BY <1>1, TextCharsAppend
<1> QED
  BY <1>1, <1>3, <1>4, <1>5

\* A text has at most CharBytes bytes for each of its characters.
LEMMA BytesOfText ==
    ASSUME NEW list \in Seq(Word)
    PROVE  /\ TextChars(list) \in Nat /\ JoinedLength(Bytes, list) \in Nat
           /\ JoinedLength(Bytes, list) <= CharBytes * TextChars(list)
<1>1. /\ Chars \in [Text -> Nat] /\ Bytes \in [Text -> Nat]
      /\ CharBytes \in Nat /\ CharBytes >= 1
  BY TextAssumption, BodyAssumption
<1>2. PICK u : Counts(u, Chars, list) /\ TextChars(list) = u[Len(list)]
  BY <1>1, TextCounts DEF TextChars
<1>3. PICK v : Counts(v, Bytes, list) /\ JoinedLength(Bytes, list) = v[Len(list)]
  BY <1>1, TextCounts
<1> DEFINE S == {k \in Nat : k <= Len(list) =>
                    u[k] \in Nat /\ v[k] \in Nat /\ v[k] <= CharBytes * u[k]}
<1>4. 0 \in S
  BY <1>1, <1>2, <1>3 DEF Counts
<1>5. ASSUME NEW k \in Nat, k \in S PROVE k + 1 \in S
  <2> SUFFICES ASSUME k + 1 <= Len(list)
               PROVE  /\ u[k + 1] \in Nat /\ v[k + 1] \in Nat
                      /\ v[k + 1] <= CharBytes * u[k + 1]
    OBVIOUS
  <2>1. /\ u[k] \in Nat /\ v[k] \in Nat /\ v[k] <= CharBytes * u[k]
        /\ k + 1 \in 1 .. Len(list) /\ k + 1 - 1 = k
    BY <1>5
  <2> HIDE DEF S
  <2>2. /\ u[k + 1] = u[k] + Width(Chars, list, k + 1)
        /\ v[k + 1] = v[k] + Width(Bytes, list, k + 1)
    BY <1>2, <1>3, <2>1 DEF Counts
  <2>3. /\ Width(Chars, list, k + 1) \in Nat /\ Width(Bytes, list, k + 1) \in Nat
        /\ Width(Bytes, list, k + 1) <= CharBytes * Width(Chars, list, k + 1)
    <3> DEFINE x == list[k + 1].text
    <3>1. x \in Text
      <4>1. list[k + 1] \in Word
        BY <2>1
      <4> QED
        BY <4>1 DEF Word
    <3>2. Chars[x] \in Nat /\ Bytes[x] \in Nat /\ Bytes[x] <= CharBytes * Chars[x]
      BY <1>1, <3>1, BodyAssumption
    <3>3. /\ Width(Chars, list, k + 1) = (IF k + 1 = 1 THEN 0 ELSE 1) + Chars[x]
          /\ Width(Bytes, list, k + 1) = (IF k + 1 = 1 THEN 0 ELSE 1) + Bytes[x]
      BY DEF Width
    <3> HIDE DEF x
    <3>4. CharBytes * (1 + Chars[x]) = CharBytes + CharBytes * Chars[x]
      BY <1>1, <3>2
    <3> QED
      BY <1>1, <3>2, <3>3, <3>4
  <2> DEFINE a == Width(Chars, list, k + 1)
             b == Width(Bytes, list, k + 1)
  <2>4. a \in Nat /\ b \in Nat /\ b <= CharBytes * a
    BY <2>3
  <2>5. u[k + 1] = u[k] + a /\ v[k + 1] = v[k] + b
    BY <2>2
  <2> HIDE DEF a, b
  <2>6. CharBytes * (u[k] + a) = CharBytes * u[k] + CharBytes * a
    BY <1>1, <2>1, <2>4
  <2>7. CharBytes * u[k] \in Nat /\ CharBytes * a \in Nat
    BY <1>1, <2>1, <2>4
  <2>8. v[k] + b <= CharBytes * u[k] + CharBytes * a
    BY <2>1, <2>4, <2>7
  <2> QED
    BY <2>1, <2>4, <2>5, <2>6, <2>8
<1>6. Nat \subseteq S
  <2> HIDE DEF S
  <2> QED
    BY <1>4, <1>5, Induction
<1>7. Len(list) \in S
  BY <1>6
<1> QED
  BY <1>2, <1>3, <1>7

\* The API refuses a result that the worker returns for the length of the request
\* only: its validator agrees with that of the worker on everything that transcribe
\* can make, and so few words and characters as Modest says are short enough in any
\* writing (ServeHTTP, valid).
THEOREM ApiRefusesForSizeOnly == TranscribeSpec => []RefusedForSizeOnly
<1>1. Transcript => RefusedForSizeOnly
  <2> SUFFICES ASSUME Transcript, pc = "returned"
               PROVE  /\ ResultValid(combined, Milliseconds(count))
                      /\ Modest(combined) => Admitted(combined)
    BY DEF RefusedForSizeOnly
  <2>1. Valid /\ Timed(combined)
    BY DEF Transcript
  <2>2. combined \in Seq(Word) /\ Ordered(combined)
    BY <2>1 DEF Timed
  <2>3. ASSUME NEW i \in DOMAIN combined, i > 1
        PROVE  InOrder(combined[i - 1], combined[i])
    <3>1. i - 1 \in 1 .. Len(combined) - 1 /\ (i - 1) + 1 = i
      BY <2>2, <2>3
    <3>2. /\ combined[i - 1].start <= combined[i].start
          /\ combined[i - 1].end <= combined[i].end
      BY <2>2, <3>1 DEF Ordered
    <3>3. combined[i - 1] \in Word /\ combined[i] \in Word
      BY <2>2, <3>1
    <3>4. /\ combined[i - 1].start \in Nat /\ combined[i - 1].end \in Nat
          /\ combined[i].start \in Nat /\ combined[i].end \in Nat
      BY <3>3 DEF Word
    <3> QED
      BY <3>2, <3>4 DEF InOrder
  <2>4. ResultValid(combined, Milliseconds(count))
    BY <2>1, <2>3 DEF ResultValid, Valid, HasRoom
  <2>5. ASSUME Modest(combined) PROVE Admitted(combined)
    <3> DEFINE n == Len(combined) * WordBytes
               c == TextChars(combined)
               b == JoinedLength(Bytes, combined)
    <3>1. /\ n \in Nat /\ Envelope \in Nat /\ BodyLimit \in Nat
          /\ CharBytes \in Nat
      BY <2>2, BodyAssumption
    <3>2. c \in Nat /\ b \in Nat /\ b <= CharBytes * c
      BY <2>2, BytesOfText
    <3>3. Envelope + n + 2 * CharBytes * c <= BodyLimit
      BY <2>5 DEF Modest
    <3> HIDE DEF n, b, c
    <3>4. 2 * CharBytes * c = 2 * (CharBytes * c) /\ CharBytes * c \in Nat
      BY <3>1, <3>2
    <3>5. Envelope + n + 2 * b <= BodyLimit
      BY <3>1, <3>2, <3>3, <3>4
    <3> QED
      BY <3>5 DEF Admitted, BodyBytes, n, b
  <2> QED
    BY <2>4, <2>5
<1> QED
  BY <1>1, InitTranscript, StepTranscript, PTL DEF TranscribeSpec

-----------------------------------------------------------------------------
(* The captions *)

\* A caption that a word may not join would not fit with it, and one that it may
\* join does.
LEMMA FitsOrExceeds ==
    ASSUME NEW c \in Seq(Word), c # << >>, NEW w \in Word, Len(c) > 1 => Fits(c)
    PROVE  Exceeds(c, TextChars(c), w) <=> ~Fits(Append(c, w))
<1> DEFINE n == Len(c)
           b == Append(c, w)
<1>1. /\ n \in Nat /\ n # 0 /\ b \in Seq(Word) /\ Len(b) = n + 1
      /\ \A k \in 1 .. n : b[k] = c[k]
      /\ b[n + 1] = w
  OBVIOUS
<1>2. /\ Head(b) = Head(c) /\ Last(b) = w /\ Last(c) = c[n]
  <2>1. Head(b) = b[1] /\ Head(c) = c[1]
    BY <1>1
  <2>2. b[1] = c[1]
    BY <1>1
  <2> HIDE DEF b
  <2> QED
    BY <1>1, <2>1, <2>2 DEF Last
<1>3. TextChars(b) = TextChars(c) + 1 + Chars[w.text]
  BY TextCharsAppend
<1> HIDE DEF b
<1>4. Fits(b) <=> /\ TextChars(c) + 1 + Chars[w.text] <= MaxChars
                  /\ w.end - Head(c).start <= MaxSegment
                  /\ \A i \in 1 .. n : b[i + 1].start - b[i].end <= MaxGap
  BY <1>1, <1>2, <1>3 DEF Fits
<1>5. (\A i \in 1 .. n : b[i + 1].start - b[i].end <= MaxGap)
         <=> w.start - c[n].end <= MaxGap
  <2>1. b[n + 1].start - b[n].end = w.start - c[n].end /\ n \in 1 .. n
    BY <1>1
  <2>2. ASSUME NEW i \in 1 .. n, i # n PROVE b[i + 1].start - b[i].end <= MaxGap
    <3>1. /\ i \in 1 .. n - 1 /\ i + 1 \in 1 .. n /\ n > 1
      BY <1>1, <2>2
    <3>2. c[i + 1].start - c[i].end <= MaxGap
      BY <3>1 DEF Fits
    <3> QED
      BY <1>1, <3>1, <3>2
  <2> QED
    BY <2>1, <2>2
<1>6. /\ TextChars(c) \in Nat /\ Chars[w.text] \in Nat
      /\ MaxChars \in Nat /\ MaxSegment \in Nat /\ MaxGap \in Nat
  BY TextCharsAppend, TextAssumption, CaptionsAssumption DEF Word
<1>7. w.start \in Nat /\ w.end \in Nat
  BY DEF Word
<1>8. Head(c).start \in Nat /\ c[n].end \in Nat
  <2>1. Head(c) \in Word /\ c[n] \in Word
    BY <1>1
  <2> QED
    BY <2>1 DEF Word
<1>9. Exceeds(c, TextChars(c), w) <=> \/ TextChars(c) + 1 + Chars[w.text] > MaxChars
                                      \/ w.end - Head(c).start > MaxSegment
                                      \/ w.start - c[n].end > MaxGap
  BY <1>2 DEF Exceeds
<1>10. TextChars(c) + 1 + Chars[w.text] > MaxChars
          <=> ~(TextChars(c) + 1 + Chars[w.text] <= MaxChars)
  BY <1>6
<1>11. w.end - Head(c).start > MaxSegment <=> ~(w.end - Head(c).start <= MaxSegment)
  BY <1>6, <1>7, <1>8
<1>12. w.start - c[n].end > MaxGap <=> ~(w.start - c[n].end <= MaxGap)
  BY <1>6, <1>7, <1>8
<1>13. Exceeds(c, TextChars(c), w) <=> ~Fits(b)
  BY <1>4, <1>5, <1>9, <1>10, <1>11, <1>12
<1> QED
  BY <1>13 DEF b

\* The captions are cut from the first k words at these ends.
Cuts(ends, g, list, k) ==
    /\ ends \in [0 .. Len(g) -> 0 .. k]
    /\ ends[0] = 0 /\ ends[Len(g)] = k
    /\ \A i \in 1 .. Len(g) :
          ends[i - 1] < ends[i] /\ g[i] = SubSeq(list, ends[i - 1] + 1, ends[i])

\* What is so of the captions after k words, and of the count of characters.
Grouped(acc, list, k) ==
    /\ acc.groups \in Seq(Seq(Word))
    /\ \E ends : Cuts(ends, acc.groups, list, k)
    /\ acc.groups # << >> => acc.chars = TextChars(Last(acc.groups))
    /\ \A i \in 1 .. Len(acc.groups) :
          Len(acc.groups[i]) > 1 => Fits(acc.groups[i])
    /\ \A i \in 1 .. Len(acc.groups) - 1 :
          ~Fits(Append(acc.groups[i], Head(acc.groups[i + 1])))

\* There are no captions at first.
LEMMA GroupedStart ==
    ASSUME NEW list \in Seq(Word)
    PROVE  Grouped([groups |-> << >>, chars |-> 0], list, 0)
<1> DEFINE g == << >>
           ends == [i \in 0 .. 0 |-> 0]
<1>1. Cuts(ends, g, list, 0)
  BY DEF Cuts
<1>2. g \in Seq(Seq(Word)) /\ Len(g) = 0
  OBVIOUS
<1> QED
  BY <1>1, <1>2 DEF Grouped

\* The words of c are those of list after the first a.
Part(c, list, a) == \A j \in 1 .. Len(c) : c[j] = list[a + j]

\* A caption is not empty, and made of the words of the list.
LEMMA CutsFacts ==
    ASSUME NEW list \in Seq(Word), NEW k \in 0 .. Len(list), NEW g \in Seq(Seq(Word)),
           NEW ends, Cuts(ends, g, list, k), NEW i \in 1 .. Len(g)
    PROVE  /\ ends[i - 1] \in 0 .. k /\ ends[i] \in 0 .. k /\ ends[i - 1] < ends[i]
           /\ g[i] \in Seq(Word) /\ g[i] # << >> /\ Len(g[i]) = ends[i] - ends[i - 1]
           /\ Part(g[i], list, ends[i - 1])
           /\ g[i] = SubSeq(list, ends[i - 1] + 1, ends[i])
<1> DEFINE a == ends[i - 1]
           e == ends[i]
           m == Len(list)
<1>1. /\ ends \in [0 .. Len(g) -> 0 .. k]
      /\ ends[i - 1] < ends[i] /\ g[i] = SubSeq(list, ends[i - 1] + 1, ends[i])
  BY DEF Cuts
<1>2. a \in 0 .. k /\ e \in 0 .. k /\ a < e
  <2>1. Len(g) \in Nat /\ i - 1 \in 0 .. Len(g) /\ i \in 0 .. Len(g)
    OBVIOUS
  <2> QED
    BY <1>1, <2>1
<1>3. g[i] = SubSeq(list, a + 1, e)
  BY <1>1
<1> HIDE DEF a, e
<1>4. /\ m \in Nat /\ a \in Nat /\ e \in Nat /\ e <= m
  BY <1>2
<1>5. SubSeq(list, a + 1, e) \in Seq(Word) /\ Len(SubSeq(list, a + 1, e)) = e - a
  <2>1. a + 1 \in 1 .. m + 1 /\ e \in 0 .. m /\ a + 1 <= e + 1 /\ e - (a + 1) + 1 = e - a
    BY <1>2, <1>4
  <2> QED
    BY <2>1, SubSeqRange
<1>6. \A j \in 1 .. e - a : SubSeq(list, a + 1, e)[j] = list[a + j]
  BY <1>2, <1>4
<1>7. g[i] # << >>
  <2>1. Len(g[i]) # 0
    BY <1>2, <1>3, <1>5
  <2>2. Len(<< >>) = 0
    OBVIOUS
  <2> QED
    BY <2>1, <2>2
<1> QED
  BY <1>2, <1>3, <1>5, <1>6, <1>7 DEF a, e, Part

\* What is where in a list with one more member.
LEMMA AppendAt ==
    ASSUME NEW X, NEW s \in Seq(X), NEW x \in X
    PROVE  /\ Append(s, x) \in Seq(X) /\ Len(Append(s, x)) = Len(s) + 1
           /\ Append(s, x)[Len(s) + 1] = x
           /\ \A k \in 1 .. Len(s) : Append(s, x)[k] = s[k]
           /\ s # << >> => Head(Append(s, x)) = Head(s)
<1>1. /\ Append(s, x) \in Seq(X) /\ Len(Append(s, x)) = Len(s) + 1
      /\ Append(s, x)[Len(s) + 1] = x
      /\ \A k \in 1 .. Len(s) : Append(s, x)[k] = s[k]
  OBVIOUS
<1>2. ASSUME s # << >> PROVE Head(Append(s, x)) = Head(s)
  <2>1. 1 \in 1 .. Len(s) /\ Head(s) = s[1]
    BY <1>2
  <2>2. Append(s, x)[1] = s[1]
    BY <1>1, <2>1
  <2>3. Head(Append(s, x)) = Append(s, x)[1]
    OBVIOUS
  <2> QED
    BY <2>1, <2>2, <2>3
<1> QED
  BY <1>1, <1>2

\* A part of a list grows by the member after it.
LEMMA SubSeqAppend ==
    ASSUME NEW X, NEW list \in Seq(X), NEW k \in 0 .. Len(list) - 1, NEW a \in 0 .. k
    PROVE  Append(SubSeq(list, a + 1, k), list[k + 1]) = SubSeq(list, a + 1, k + 1)
<1> DEFINE s == SubSeq(list, a + 1, k)
           t == SubSeq(list, a + 1, k + 1)
           m == k - a
<1>1. /\ k \in Nat /\ a \in Nat /\ Len(list) \in Nat /\ m \in Nat
      /\ list[k + 1] \in X
  OBVIOUS
<1>2. s = [j \in 1 .. m |-> list[a + j]] /\ s \in Seq(X) /\ Len(s) = m
  <2>1. a + 1 \in 1 .. Len(list) + 1 /\ k \in 0 .. Len(list) /\ a + 1 <= k + 1
        /\ k - (a + 1) + 1 = m
    BY <1>1
  <2>2. s \in Seq(X) /\ Len(s) = m
    BY <2>1, SubSeqRange
  <2>3. \A j \in 1 .. m : s[j] = list[a + j]
    BY <1>1
  <2> HIDE DEF s, m
  <2> QED
    BY <1>1, <2>2, <2>3
<1>3. t = [j \in 1 .. m + 1 |-> list[a + j]]
  <2>1. a + 1 \in 1 .. Len(list) + 1 /\ k + 1 \in 0 .. Len(list) /\ a + 1 <= k + 1 + 1
        /\ k + 1 - (a + 1) + 1 = m + 1
    BY <1>1
  <2>2. t \in Seq(X) /\ Len(t) = m + 1
    BY <2>1, SubSeqRange
  <2>3. \A j \in 1 .. m + 1 : t[j] = list[a + j]
    BY <1>1
  <2> HIDE DEF t, m
  <2> QED
    BY <1>1, <2>2, <2>3
<1> DEFINE u == Append(s, list[k + 1])
<1>4. /\ u \in Seq(X) /\ Len(u) = m + 1 /\ u[m + 1] = list[k + 1]
      /\ \A j \in 1 .. m : u[j] = s[j]
  <2> HIDE DEF s
  <2> QED
    BY <1>1, <1>2, AppendAt
<1>5. a + (m + 1) = k + 1
  BY <1>1
<1> HIDE DEF s, t, u, m
<1>6. \A j \in 1 .. m + 1 : u[j] = list[a + j]
  <2> SUFFICES ASSUME NEW j \in 1 .. m + 1 PROVE u[j] = list[a + j]
    OBVIOUS
  <2>1. CASE j = m + 1
    BY <1>4, <1>5, <2>1
  <2>2. CASE j # m + 1
    <3>1. j \in 1 .. m
      BY <1>1, <2>2
    <3> QED
      BY <1>2, <1>4, <3>1
  <2> QED
    BY <2>1, <2>2
<1>7. u = [j \in 1 .. m + 1 |-> list[a + j]]
  BY <1>1, <1>4, <1>6
<1> QED
  BY <1>3, <1>7 DEF s, t, u

\* A part that is one member long.
LEMMA SubSeqOne ==
    ASSUME NEW X, NEW list \in Seq(X), NEW k \in 1 .. Len(list)
    PROVE  SubSeq(list, k, k) = <<list[k]>>
<1>1. SubSeq(list, k, k) = [j \in 1 .. 1 |-> list[k]]
  OBVIOUS
<1>2. <<list[k]>> = [j \in 1 .. 1 |-> list[k]]
  OBVIOUS
<1> QED
  BY <1>1, <1>2

\* A word that begins a caption.
LEMMA GroupedBegin ==
    ASSUME NEW list \in Seq(Word), NEW k \in 0 .. Len(list) - 1, NEW acc,
           Grouped(acc, list, k),
           acc.groups # << >> => Exceeds(Last(acc.groups), acc.chars, list[k + 1]),
           NEW new, new = [groups |-> Append(acc.groups, <<list[k + 1]>>),
                           chars |-> Chars[list[k + 1].text]]
    PROVE  Grouped(new, list, k + 1)
<1> DEFINE g == acc.groups
           w == list[k + 1]
           h == Append(g, <<w>>)
           n == Len(g)
<1>1. /\ k \in Nat /\ k + 1 \in 1 .. Len(list) /\ k \in 0 .. Len(list)
      /\ Len(list) \in Nat /\ w \in Word
  OBVIOUS
<1>2. g \in Seq(Seq(Word)) /\ n \in Nat
  BY DEF Grouped
<1>3. PICK ends : Cuts(ends, g, list, k)
  BY DEF Grouped
<1>4. ends \in [0 .. n -> 0 .. k] /\ ends[0] = 0 /\ ends[n] = k
  BY <1>3 DEF Cuts
<1>5. new.groups = h /\ new.chars = Chars[w.text]
  OBVIOUS
<1> HIDE DEF w
<1>6. <<w>> \in Seq(Word) /\ Len(<<w>>) = 1 /\ Head(<<w>>) = w /\ <<w>>[1] = w
  BY <1>1
<1>7. /\ h \in Seq(Seq(Word)) /\ Len(h) = n + 1 /\ h[n + 1] = <<w>>
      /\ \A i \in 1 .. n : h[i] = g[i]
  BY <1>2, <1>6
<1> HIDE DEF g, h, n
<1> DEFINE more == [i \in 0 .. n + 1 |-> IF i <= n THEN ends[i] ELSE k + 1]
<1>8. Cuts(more, h, list, k + 1)
  <2>1. more \in [0 .. n + 1 -> 0 .. k + 1]
    <3>1. \A i \in 0 .. n + 1 : i <= n => ends[i] \in 0 .. k
      BY <1>2, <1>4
    <3>2. 0 .. k \subseteq 0 .. k + 1 /\ k + 1 \in 0 .. k + 1
      BY <1>1
    <3> QED
      BY <3>1, <3>2
  <2>2. more[0] = 0 /\ more[n + 1] = k + 1 /\ more[n] = k
    BY <1>1, <1>2, <1>4
  <2>3. ASSUME NEW i \in 1 .. n
        PROVE  more[i - 1] < more[i] /\ h[i] = SubSeq(list, more[i - 1] + 1, more[i])
    <3>1. more[i - 1] = ends[i - 1] /\ more[i] = ends[i]
      BY <1>2
    <3>2. ends[i - 1] < ends[i] /\ g[i] = SubSeq(list, ends[i - 1] + 1, ends[i])
      BY <1>3 DEF Cuts, n
    <3> HIDE DEF more
    <3> QED
      BY <1>7, <3>1, <3>2
  <2>4. SubSeq(list, k + 1, k + 1) = <<w>>
    BY <1>1, SubSeqOne DEF w
  <2> HIDE DEF more
  <2>5. ASSUME NEW i \in Nat, i = n + 1
        PROVE  more[i - 1] < more[i] /\ h[i] = SubSeq(list, more[i - 1] + 1, more[i])
    <3>1. i - 1 = n
      BY <1>2, <2>5
    <3>2. more[i - 1] = k /\ more[i] = k + 1
      BY <2>2, <2>5, <3>1
    <3>3. h[i] = SubSeq(list, k + 1, k + 1)
      BY <1>7, <2>4, <2>5
    <3> QED
      BY <1>1, <3>2, <3>3
  <2>6. \A i \in 1 .. n + 1 :
           more[i - 1] < more[i] /\ h[i] = SubSeq(list, more[i - 1] + 1, more[i])
    <3> SUFFICES ASSUME NEW i \in 1 .. n + 1
                 PROVE  /\ more[i - 1] < more[i]
                        /\ h[i] = SubSeq(list, more[i - 1] + 1, more[i])
      OBVIOUS
    <3>1. CASE i \in 1 .. n
      BY <2>3, <3>1
    <3>2. CASE i = n + 1
      BY <2>5, <3>2
    <3> QED
      BY <1>2, <3>1, <3>2
  <2> QED
    BY <1>7, <2>1, <2>2, <2>6 DEF Cuts
<1> HIDE DEF more
<1>9. new.chars = TextChars(Last(h))
  <2>1. Last(h) = <<w>>
    BY <1>7 DEF Last
  <2> QED
    BY <1>1, <1>5, <2>1, TextCharsOne
<1>10. \A i \in 1 .. n + 1 : Len(h[i]) > 1 => Fits(h[i])
  <2> SUFFICES ASSUME NEW i \in 1 .. n + 1, Len(h[i]) > 1 PROVE Fits(h[i])
    OBVIOUS
  <2>1. i \in 1 .. n \/ i = n + 1
    BY <1>2
  <2>2. i # n + 1
    <3> SUFFICES ASSUME i = n + 1 PROVE FALSE
      OBVIOUS
    <3>1. h[i] = <<w>>
      BY <1>7
    <3> QED
      BY <1>6, <3>1
  <2>3. i \in 1 .. n /\ Len(g[i]) > 1
    BY <1>7, <2>1, <2>2
  <2>4. Fits(g[i])
    BY <2>3 DEF Grouped, g, n
  <2> QED
    BY <1>7, <2>3, <2>4
<1>11. \A i \in 1 .. n : ~Fits(Append(h[i], Head(h[i + 1])))
  <2> SUFFICES ASSUME NEW i \in 1 .. n PROVE ~Fits(Append(h[i], Head(h[i + 1])))
    OBVIOUS
  <2>1. CASE i = n
    <3>1. n # 0 /\ n \in 1 .. n /\ g # << >>
      BY <1>2, <2>1 DEF n
    <3>2. Last(g) = g[n]
      BY DEF Last, n
    <3>3. g[n] \in Seq(Word) /\ g[n] # << >>
      BY <1>1, <1>2, <1>3, <3>1, CutsFacts DEF n
    <3>4. Len(g[n]) > 1 => Fits(g[n])
      BY <3>1 DEF Grouped, g, n
    <3>5. Exceeds(g[n], TextChars(g[n]), w)
      BY <3>1, <3>2 DEF Grouped, g, w
    <3>6. ~Fits(Append(g[n], w))
      BY <1>1, <3>3, <3>4, <3>5, FitsOrExceeds
    <3>7. h[i] = g[n] /\ Head(h[i + 1]) = w
      BY <1>6, <1>7, <2>1, <3>1
    <3> QED
      BY <3>6, <3>7
  <2>2. CASE i # n
    <3>1. i \in 1 .. n - 1 /\ i + 1 \in 1 .. n
      BY <1>2, <2>2
    <3>2. ~Fits(Append(g[i], Head(g[i + 1])))
      BY <3>1 DEF Grouped, g, n
    <3> QED
      BY <1>7, <3>1, <3>2
  <2> QED
    BY <2>1, <2>2
<1>12. Len(h) - 1 = n
  BY <1>2, <1>7
<1> QED
  BY <1>5, <1>7, <1>8, <1>9, <1>10, <1>11, <1>12 DEF Grouped

\* All but the last element of a sequence.
LEMMA FrontIs ==
    ASSUME NEW X, NEW s \in Seq(X), s # << >>
    PROVE  /\ Front(s) \in Seq(X) /\ Len(Front(s)) = Len(s) - 1
           /\ \A i \in 1 .. Len(s) - 1 : Front(s)[i] = s[i]
<1> DEFINE m == Len(s) - 1
<1>1. /\ m \in 0 .. Len(s) /\ 1 \in 1 .. Len(s) + 1 /\ 1 <= m + 1
      /\ m - 1 + 1 = m /\ Len(s) \in Nat
  OBVIOUS
<1>2. Front(s) = SubSeq(s, 1, m)
  BY DEF Front
<1>3. SubSeq(s, 1, m) \in Seq(X) /\ Len(SubSeq(s, 1, m)) = m
  <2> HIDE DEF m
  <2> QED
    BY <1>1, SubSeqRange
<1>4. \A i \in 1 .. m : SubSeq(s, 1, m)[i] = s[i]
  BY <1>1
<1> QED
  BY <1>2, <1>3, <1>4

\* A word that joins a caption.
LEMMA GroupedJoin ==
    ASSUME NEW list \in Seq(Word), NEW k \in 0 .. Len(list) - 1, NEW acc,
           Grouped(acc, list, k),
           acc.groups # << >>, ~Exceeds(Last(acc.groups), acc.chars, list[k + 1]),
           NEW new, new = [groups |-> Append(Front(acc.groups),
                                             Append(Last(acc.groups), list[k + 1])),
                           chars |-> acc.chars + 1 + Chars[list[k + 1].text]]
    PROVE  Grouped(new, list, k + 1)
<1> DEFINE g == acc.groups
           w == list[k + 1]
           n == Len(g)
           c == Append(g[n], w)
           h == Append(Front(g), c)
<1>1. /\ k \in Nat /\ k + 1 \in 1 .. Len(list) /\ k \in 0 .. Len(list)
      /\ Len(list) \in Nat /\ w \in Word
  OBVIOUS
<1>2. g \in Seq(Seq(Word)) /\ n \in Nat /\ n # 0 /\ n \in 1 .. n /\ g # << >>
  BY DEF Grouped
<1>3. PICK ends : Cuts(ends, g, list, k)
  BY DEF Grouped
<1>4. ends \in [0 .. n -> 0 .. k] /\ ends[0] = 0 /\ ends[n] = k
  BY <1>3 DEF Cuts
<1>5. /\ new.groups = h /\ new.chars = acc.chars + 1 + Chars[w.text]
      /\ Last(g) = g[n]
  BY DEF Last
<1>6. acc.chars = TextChars(g[n]) /\ ~Exceeds(g[n], acc.chars, w)
  BY <1>2, <1>5 DEF Grouped
<1>7. Len(g[n]) > 1 => Fits(g[n])
  BY <1>2 DEF Grouped
<1>8. Front(g) \in Seq(Seq(Word)) /\ Len(Front(g)) = n - 1
      /\ \A i \in 1 .. n - 1 : Front(g)[i] = g[i]
  <2> HIDE DEF g
  <2> QED
    BY <1>2, FrontIs DEF n
<1> HIDE DEF w, n, g
<1>9. /\ g[n] \in Seq(Word) /\ g[n] # << >> /\ ends[n - 1] \in 0 .. k /\ ends[n - 1] < ends[n]
      /\ g[n] = SubSeq(list, ends[n - 1] + 1, ends[n])
  BY <1>1, <1>2, <1>3, CutsFacts DEF n
<1>10. /\ c \in Seq(Word) /\ Fits(c) /\ Head(c) = Head(g[n])
       /\ TextChars(c) = acc.chars + 1 + Chars[w.text]
  <2>1. c \in Seq(Word) /\ Head(c) = Head(g[n])
    BY <1>1, <1>9, AppendAt
  <2>2. Fits(c)
    BY <1>1, <1>6, <1>7, <1>9, FitsOrExceeds
  <2>3. TextChars(c) = acc.chars + 1 + Chars[w.text]
    BY <1>1, <1>6, <1>9, TextCharsAppend
  <2> QED
    BY <2>1, <2>2, <2>3
<1> HIDE DEF c
<1>11. /\ h \in Seq(Seq(Word)) /\ Len(h) = n /\ h[n] = c
       /\ \A i \in 1 .. n - 1 : h[i] = g[i]
  <2>1. /\ h \in Seq(Seq(Word)) /\ Len(h) = n - 1 + 1 /\ h[n - 1 + 1] = c
        /\ \A i \in 1 .. n - 1 : h[i] = Front(g)[i]
    BY <1>8, <1>10, AppendAt
  <2>2. n - 1 + 1 = n
    BY <1>2
  <2> HIDE DEF h
  <2> QED
    BY <1>8, <2>1, <2>2
<1> HIDE DEF h
<1> DEFINE more == [i \in 0 .. n |-> IF i < n THEN ends[i] ELSE k + 1]
<1>12. Cuts(more, h, list, k + 1)
  <2>1. more \in [0 .. n -> 0 .. k + 1]
    <3>1. \A i \in 0 .. n : ends[i] \in 0 .. k
      BY <1>4
    <3>2. 0 .. k \subseteq 0 .. k + 1 /\ k + 1 \in 0 .. k + 1
      BY <1>1
    <3> QED
      BY <3>1, <3>2
  <2>2. more[0] = 0 /\ more[n] = k + 1 /\ more[n - 1] = ends[n - 1]
    BY <1>1, <1>2, <1>4
  <2>3. ASSUME NEW i \in 1 .. n - 1
        PROVE  more[i - 1] < more[i] /\ h[i] = SubSeq(list, more[i - 1] + 1, more[i])
    <3>1. more[i - 1] = ends[i - 1] /\ more[i] = ends[i] /\ i \in 1 .. n
      BY <1>2
    <3>2. ends[i - 1] < ends[i] /\ g[i] = SubSeq(list, ends[i - 1] + 1, ends[i])
      BY <1>3, <3>1 DEF Cuts, n
    <3> HIDE DEF more
    <3> QED
      BY <1>11, <3>1, <3>2
  <2> HIDE DEF more
  <2>4. more[n - 1] < more[n] /\ h[n] = SubSeq(list, more[n - 1] + 1, more[n])
    <3>1. more[n - 1] < more[n]
      BY <1>1, <1>9, <2>2
    <3>2. c = SubSeq(list, ends[n - 1] + 1, k + 1)
      <4> DEFINE a == ends[n - 1]
      <4>1. a \in 0 .. k /\ g[n] = SubSeq(list, a + 1, k)
        BY <1>4, <1>9
      <4> HIDE DEF a
      <4>2. Append(SubSeq(list, a + 1, k), list[k + 1]) = SubSeq(list, a + 1, k + 1)
        BY <1>1, <4>1, SubSeqAppend
      <4> QED
        BY <4>1, <4>2 DEF a, c, w
    <3> QED
      BY <1>11, <2>2, <3>1, <3>2
  <2>5. \A i \in 1 .. n :
           more[i - 1] < more[i] /\ h[i] = SubSeq(list, more[i - 1] + 1, more[i])
    <3> SUFFICES ASSUME NEW i \in 1 .. n
                 PROVE  /\ more[i - 1] < more[i]
                        /\ h[i] = SubSeq(list, more[i - 1] + 1, more[i])
      OBVIOUS
    <3>1. i \in 1 .. n - 1 \/ i = n
      BY <1>2
    <3> QED
      BY <2>3, <2>4, <3>1
  <2> QED
    BY <1>11, <2>1, <2>2, <2>5 DEF Cuts
<1> HIDE DEF more
<1>13. new.chars = TextChars(Last(h))
  BY <1>5, <1>10, <1>11 DEF Last
<1>14. \A i \in 1 .. n : Len(h[i]) > 1 => Fits(h[i])
  <2> SUFFICES ASSUME NEW i \in 1 .. n, Len(h[i]) > 1 PROVE Fits(h[i])
    OBVIOUS
  <2>1. CASE i = n
    BY <1>10, <1>11, <2>1
  <2>2. CASE i # n
    <3>1. i \in 1 .. n - 1
      BY <1>2, <2>2
    <3>2. h[i] = g[i]
      BY <1>11, <3>1
    <3>3. Fits(g[i])
      BY <3>2 DEF Grouped, g, n
    <3> QED
      BY <3>2, <3>3
  <2> QED
    BY <2>1, <2>2
<1>15. \A i \in 1 .. n - 1 : ~Fits(Append(h[i], Head(h[i + 1])))
  <2> SUFFICES ASSUME NEW i \in 1 .. n - 1 PROVE ~Fits(Append(h[i], Head(h[i + 1])))
    OBVIOUS
  <2>1. ~Fits(Append(g[i], Head(g[i + 1])))
    BY DEF Grouped, g, n
  <2>2. h[i] = g[i]
    BY <1>11
  <2>3. Head(h[i + 1]) = Head(g[i + 1])
    <3>1. i + 1 = n \/ i + 1 \in 1 .. n - 1
      BY <1>2
    <3> QED
      BY <1>10, <1>11, <3>1
  <2> QED
    BY <2>1, <2>2, <2>3
<1> QED
  BY <1>5, <1>11, <1>12, <1>13, <1>14, <1>15 DEF Grouped

\* Group keeps what is so of the captions in each turn of its loop.
LEMMA AddWordGrouped ==
    ASSUME NEW list \in Seq(Word), NEW k \in 0 .. Len(list) - 1, NEW acc,
           Grouped(acc, list, k)
    PROVE  Grouped(AddWord(acc, list[k + 1]), list, k + 1)
<1> DEFINE w == list[k + 1]
           new == AddWord(acc, w)
<1>1. CASE acc.groups = << >>
  <2>1. new = [groups |-> Append(acc.groups, <<w>>), chars |-> Chars[w.text]]
    <3>1. Append(acc.groups, <<w>>) = << <<w>> >>
      BY <1>1
    <3> QED
      BY <1>1, <3>1 DEF AddWord
  <2> HIDE DEF new
  <2>2. Grouped(new, list, k + 1)
    BY <1>1, <2>1, GroupedBegin
  <2> QED
    BY <2>2 DEF new
<1>2. CASE acc.groups # << >> /\ Exceeds(Last(acc.groups), acc.chars, w)
  <2>1. new = [groups |-> Append(acc.groups, <<w>>), chars |-> Chars[w.text]]
    BY <1>2 DEF AddWord, Restarted
  <2> HIDE DEF new
  <2>2. Grouped(new, list, k + 1)
    BY <1>2, <2>1, GroupedBegin
  <2> QED
    BY <2>2 DEF new
<1>3. CASE acc.groups # << >> /\ ~Exceeds(Last(acc.groups), acc.chars, w)
  <2>1. new = [groups |-> Append(Front(acc.groups), Append(Last(acc.groups), w)),
               chars |-> acc.chars + 1 + Chars[w.text]]
    BY <1>3 DEF AddWord
  <2> HIDE DEF new
  <2>2. Grouped(new, list, k + 1)
    BY <1>3, <2>1, GroupedJoin
  <2> QED
    BY <2>2 DEF new
<1> QED
  BY <1>1, <1>2, <1>3

\* The captions of a list are cut from all of it.
LEMMA GroupIsGrouped ==
    ASSUME NEW list \in Seq(Word)
    PROVE  \E acc : Grouped(acc, list, Len(list)) /\ acc.groups = Group(list)
<1> DEFINE n == Len(list)
<1>1. PICK after : Loop(list, after) /\ Group(list) = after[n].groups
  BY GroupLoops
<1> DEFINE S == {k \in Nat : k <= n => Grouped(after[k], list, k)}
<1>2. 0 \in S
  BY <1>1, GroupedStart DEF Loop
<1>3. ASSUME NEW k \in Nat, k \in S PROVE k + 1 \in S
  <2> SUFFICES ASSUME k + 1 <= n PROVE Grouped(after[k + 1], list, k + 1)
    OBVIOUS
  <2>1. /\ k \in 0 .. n - 1 /\ k + 1 \in 1 .. n /\ k + 1 - 1 = k
        /\ Grouped(after[k], list, k)
    BY <1>3
  <2>2. after[k + 1] = AddWord(after[k], list[k + 1])
    BY <1>1, <2>1 DEF Loop
  <2>3. Grouped(AddWord(after[k], list[k + 1]), list, k + 1)
    BY <2>1, AddWordGrouped
  <2> QED
    BY <2>2, <2>3
<1>4. n \in S
  <2>1. Nat \subseteq S
    <3> HIDE DEF S
    <3> QED
      BY <1>2, <1>3, Induction
  <2> HIDE DEF S
  <2> QED
    BY <2>1
<1> QED
  BY <1>1, <1>4

\* The words of the captions, one caption after another.
LEMMA Flattening ==
    ASSUME NEW g \in Seq(Seq(Word)), g # << >>
    PROVE  \E f : /\ f[1] = g[1]
                  /\ \A i \in 2 .. Len(g) : f[i] = f[i - 1] \o g[i]
                  /\ FlattenSeq(g) = f[Len(g)]
<1> DEFINE n == Len(g)
           step == [k \in 1 .. n |-> [x \in Seq(Word) |-> IF k = 1 THEN g[k] ELSE x \o g[k]]]
           Def(f) == [i \in 1 .. n |-> IF i = 1 THEN g[i] ELSE f[i - 1] \o g[i]]
           flatten == CHOOSE f : f = Def(f)
<1>1. n \in Nat /\ n # 0 /\ 1 \in 1 .. n /\ << >> \in Seq(Word)
      /\ \A k \in 1 .. n : g[k] \in Seq(Word)
  OBVIOUS
<1>2. ASSUME NEW k \in 1 .. n, NEW x \in Seq(Word)
      PROVE  /\ step[k][x] = IF k = 1 THEN g[k] ELSE x \o g[k]
             /\ step[k][x] \in Seq(Word)
  <2>1. step[k][x] = IF k = 1 THEN g[k] ELSE x \o g[k]
    OBVIOUS
  <2>2. g[k] \in Seq(Word)
    BY <1>1
  <2>3. x \o g[k] \in Seq(Word)
    BY <2>2
  <2> HIDE DEF step
  <2> QED
    BY <2>1, <2>2, <2>3
<1>3. PICK h : /\ h \in [0 .. n -> Seq(Word)]
               /\ h[0] = << >> /\ \A k \in 1 .. n : h[k] = step[k][h[k - 1]]
  <2> HIDE DEF step, n
  <2>1. Closed(step, Seq(Word), n)
    BY <1>2 DEF Closed
  <2>2. \E f : Iterates(f, Seq(Word), << >>, step, n)
    BY <1>1, <2>1, Recursion
  <2> QED
    BY <2>2 DEF Iterates
<1> DEFINE r == [i \in 1 .. n |-> h[i]]
<1>4. r = Def(r)
  <2>1. ASSUME NEW i \in 1 .. n
        PROVE  r[i] = IF i = 1 THEN g[i] ELSE r[i - 1] \o g[i]
    <3>1. i - 1 \in 0 .. n /\ h[i - 1] \in Seq(Word)
      <4>1. i - 1 \in 0 .. n
        BY <1>1
      <4> HIDE DEF n
      <4> QED
        BY <1>3, <4>1
    <3>2. h[i] = IF i = 1 THEN g[i] ELSE h[i - 1] \o g[i]
      <4> HIDE DEF step
      <4> QED
        BY <1>2, <1>3, <3>1
    <3>3. i # 1 => i - 1 \in 1 .. n
      BY <1>1
    <3> QED
      BY <3>2, <3>3
  <2> HIDE DEF n
  <2>2. r = [i \in 1 .. n |-> r[i]]
    OBVIOUS
  <2> HIDE DEF r
  <2>3. [i \in 1 .. n |-> r[i]] = [i \in 1 .. n |-> IF i = 1 THEN g[i] ELSE r[i - 1] \o g[i]]
    BY <2>1
  <2> QED
    BY <2>2, <2>3
<1>5. flatten = Def(flatten)
  <2> HIDE DEF Def
  <2> QED
    BY <1>4
<1>6. FlattenSeq(g) = flatten[n]
  BY <1>1 DEF FlattenSeq
<1> HIDE DEF flatten
<1>7. \A i \in 1 .. n : flatten[i] = IF i = 1 THEN g[i] ELSE flatten[i - 1] \o g[i]
  BY <1>5
<1>8. flatten[1] = g[1]
  BY <1>1, <1>7
<1>9. ASSUME NEW i \in 2 .. n PROVE flatten[i] = flatten[i - 1] \o g[i]
  <2>1. i \in 1 .. n /\ i # 1
    OBVIOUS
  <2> QED
    BY <1>7, <2>1
<1> QED
  BY <1>6, <1>8, <1>9

\* Two neighbouring parts of a list.
LEMMA SubSeqConcat ==
    ASSUME NEW X, NEW list \in Seq(X), NEW a \in 0 .. Len(list), NEW b \in a .. Len(list)
    PROVE  SubSeq(list, 1, a) \o SubSeq(list, a + 1, b) = SubSeq(list, 1, b)
<1> DEFINE s == SubSeq(list, 1, a)
           t == SubSeq(list, a + 1, b)
           u == SubSeq(list, 1, b)
<1>1. a \in Nat /\ b \in Nat /\ Len(list) \in Nat /\ b - a \in Nat
  OBVIOUS
<1>2. /\ s \in Seq(X) /\ Len(s) = a /\ \A j \in 1 .. a : s[j] = list[j]
  <2>1. 1 \in 1 .. Len(list) + 1 /\ a \in 0 .. Len(list) /\ 1 <= a + 1 /\ a - 1 + 1 = a
    BY <1>1
  <2>2. s \in Seq(X) /\ Len(s) = a
    BY <2>1, SubSeqRange
  <2>3. \A j \in 1 .. a : s[j] = list[j]
    BY <1>1
  <2> QED
    BY <2>2, <2>3
<1>3. /\ t \in Seq(X) /\ Len(t) = b - a /\ \A j \in 1 .. b - a : t[j] = list[a + j]
  <2>1. a + 1 \in 1 .. Len(list) + 1 /\ b \in 0 .. Len(list) /\ a + 1 <= b + 1
        /\ b - (a + 1) + 1 = b - a
    BY <1>1
  <2>2. t \in Seq(X) /\ Len(t) = b - a
    BY <2>1, SubSeqRange
  <2>3. \A j \in 1 .. b - a : t[j] = list[a + j]
    BY <1>1
  <2> QED
    BY <2>2, <2>3
<1>4. /\ u \in Seq(X) /\ Len(u) = b /\ \A j \in 1 .. b : u[j] = list[j]
  <2>1. 1 \in 1 .. Len(list) + 1 /\ b \in 0 .. Len(list) /\ 1 <= b + 1 /\ b - 1 + 1 = b
    BY <1>1
  <2>2. u \in Seq(X) /\ Len(u) = b
    BY <2>1, SubSeqRange
  <2>3. \A j \in 1 .. b : u[j] = list[j]
    BY <1>1
  <2> QED
    BY <2>2, <2>3
<1> HIDE DEF s, t, u
<1> DEFINE v == s \o t
<1>5. v \in Seq(X) /\ Len(v) = b
  <2>1. v \in Seq(X) /\ Len(v) = Len(s) + Len(t)
    <3>1. s \in Seq(X) /\ t \in Seq(X)
      BY <1>2, <1>3
    <3> QED
      BY <3>1
  <2>2. a + (b - a) = b
    BY <1>1
  <2> QED
    BY <1>2, <1>3, <2>1, <2>2
<1>6. ASSUME NEW j \in 1 .. b PROVE v[j] = list[j]
  <2>1. CASE j <= a
    <3>1. v[j] = s[j] /\ j \in 1 .. a
      BY <1>1, <1>2, <1>3, <2>1
    <3> QED
      BY <1>2, <3>1
  <2>2. CASE ~(j <= a)
    <3>1. v[j] = t[j - a] /\ j - a \in 1 .. b - a /\ a + (j - a) = j
      BY <1>1, <1>2, <1>3, <2>2
    <3> QED
      BY <1>3, <3>1
  <2> QED
    BY <2>1, <2>2
<1> HIDE DEF v
<1>7. v = [j \in 1 .. b |-> list[j]]
  BY <1>1, <1>5, <1>6
<1>8. u = [j \in 1 .. b |-> list[j]]
  BY <1>1, <1>4
<1> QED
  BY <1>7, <1>8 DEF v, s, t, u

\* The captions of a list are its words, in their order.
LEMMA CutsFlatten ==
    ASSUME NEW list \in Seq(Word), NEW g \in Seq(Seq(Word)),
           NEW ends, Cuts(ends, g, list, Len(list))
    PROVE  FlattenSeq(g) = list
<1> DEFINE n == Len(g)
           m == Len(list)
<1>1. n \in Nat /\ m \in Nat /\ m \in 0 .. m
  OBVIOUS
<1>2. ends \in [0 .. n -> 0 .. m] /\ ends[0] = 0 /\ ends[n] = m
  BY DEF Cuts
<1>3. CASE g = << >>
  <2>1. n = 0
    BY <1>3
  <2>2. m = 0
    BY <1>2, <2>1
  <2>3. list = << >>
    BY <2>2
  <2>4. FlattenSeq(g) = g
    BY <2>1 DEF FlattenSeq
  <2> QED
    BY <1>3, <2>3, <2>4
<1>4. CASE g # << >>
  <2>1. PICK f : /\ f[1] = g[1]
                 /\ \A i \in 2 .. n : f[i] = f[i - 1] \o g[i]
                 /\ FlattenSeq(g) = f[n]
    BY <1>4, Flattening
  <2>2. n # 0
    BY <1>4
  <2> HIDE DEF n, m
  <2>3. ASSUME NEW i \in 1 .. n
        PROVE  /\ ends[i - 1] \in 0 .. m /\ ends[i] \in ends[i - 1] .. m
               /\ g[i] = SubSeq(list, ends[i - 1] + 1, ends[i])
    <3>1. /\ ends[i - 1] \in 0 .. m /\ ends[i] \in 0 .. m /\ ends[i - 1] < ends[i]
          /\ g[i] = SubSeq(list, ends[i - 1] + 1, ends[i])
      BY <1>1, CutsFacts DEF n, m
    <3> QED
      BY <1>1, <3>1
  <2> DEFINE S == {k \in Nat : k + 1 <= n => f[k + 1] = SubSeq(list, 1, ends[k + 1])}
  <2>4. 0 \in S
    <3>1. 0 + 1 = 1 /\ 1 \in 1 .. n /\ 1 - 1 = 0
      BY <1>1, <2>2
    <3>2. g[1] = SubSeq(list, ends[0] + 1, ends[1])
      BY <2>3, <3>1
    <3>3. f[1] = SubSeq(list, 1, ends[1])
      BY <1>2, <2>1, <3>1, <3>2
    <3> QED
      BY <3>1, <3>3
  <2>5. ASSUME NEW k \in Nat, k \in S PROVE k + 1 \in S
    <3> SUFFICES ASSUME k + 1 + 1 <= n
                 PROVE  f[k + 1 + 1] = SubSeq(list, 1, ends[k + 1 + 1])
      OBVIOUS
    <3>1. /\ f[k + 1] = SubSeq(list, 1, ends[k + 1])
          /\ k + 1 + 1 \in 2 .. n /\ k + 1 + 1 - 1 = k + 1
          /\ k + 1 + 1 \in 1 .. n
      BY <1>1, <2>5
    <3>2. f[k + 1 + 1] = f[k + 1] \o g[k + 1 + 1]
      <4>1. \A i \in 2 .. n : f[i] = f[i - 1] \o g[i]
        BY <2>1
      <4>2. PICK i \in 2 .. n : i = k + 1 + 1 /\ i - 1 = k + 1
        BY <3>1
      <4>3. f[i] = f[i - 1] \o g[i]
        BY <4>1
      <4> QED
        BY <4>2, <4>3
    <3>3. /\ ends[k + 1] \in 0 .. m /\ ends[k + 1 + 1] \in ends[k + 1] .. m
          /\ g[k + 1 + 1] = SubSeq(list, ends[k + 1] + 1, ends[k + 1 + 1])
      BY <2>3, <3>1
    <3>4. SubSeq(list, 1, ends[k + 1]) \o SubSeq(list, ends[k + 1] + 1, ends[k + 1 + 1])
             = SubSeq(list, 1, ends[k + 1 + 1])
      BY <3>3, SubSeqConcat DEF m
    <3> QED
      BY <3>1, <3>2, <3>3, <3>4
  <2>6. n - 1 \in S
    <3>1. Nat \subseteq S
      <4> HIDE DEF S
      <4> QED
        BY <2>4, <2>5, Induction
    <3> HIDE DEF S
    <3> QED
      BY <1>1, <2>2, <3>1
  <2>7. f[n] = SubSeq(list, 1, m)
    <3>1. n - 1 + 1 = n
      BY <1>1
    <3> QED
      BY <1>1, <1>2, <2>6, <3>1
  <2>8. SubSeq(list, 1, m) = list
    BY DEF m
  <2> QED
    BY <2>1, <2>7, <2>8
<1> QED
  BY <1>3, <1>4

\* The words of c are among those of list after the first a, up to the e-th.
Within(c, list, a, e) ==
    \A k \in DOMAIN c :
        /\ a + k \in DOMAIN list /\ a + 1 <= a + k /\ a + k <= e
        /\ c[k] = list[a + k]

\* The cue of a caption begins with its first word and ends with its last one.
LEMMA CueAt ==
    ASSUME NEW list \in Seq(Word), NEW g \in Seq(Seq(Word)),
           NEW m \in 0 .. Len(list), NEW ends, Cuts(ends, g, list, m),
           NEW i \in 1 .. Len(g)
    PROVE  /\ ends[i - 1] \in 0 .. Len(list) /\ ends[i] \in 0 .. Len(list)
           /\ ends[i - 1] < ends[i]
           /\ ends[i - 1] + 1 \in DOMAIN list /\ ends[i] \in DOMAIN list
           /\ Cue(g[i]).start = list[ends[i - 1] + 1].start
           /\ Cue(g[i]).end = list[ends[i]].end
           /\ Within(g[i], list, ends[i - 1], ends[i])
<1> DEFINE a == ends[i - 1]
           e == ends[i]
           c == g[i]
<1>1. Len(list) \in 0 .. Len(list) /\ Len(list) \in Nat
  OBVIOUS
<1>2. /\ a \in 0 .. Len(list) /\ e \in 0 .. Len(list) /\ a < e
      /\ c \in Seq(Word) /\ c # << >> /\ Len(c) = e - a
      /\ Part(c, list, a)
  <2>1. /\ ends[i - 1] \in 0 .. m /\ ends[i] \in 0 .. m /\ ends[i - 1] < ends[i]
        /\ g[i] \in Seq(Word) /\ g[i] # << >> /\ Len(g[i]) = ends[i] - ends[i - 1]
        /\ Part(g[i], list, ends[i - 1])
    BY CutsFacts
  <2> QED
    BY <2>1
<1> HIDE DEF a, e, c
<1>3. /\ DOMAIN list = 1 .. Len(list) /\ DOMAIN c = 1 .. Len(c)
      /\ a \in Nat /\ e \in Nat
  BY <1>2
<1>4. a + 1 \in DOMAIN list /\ e \in DOMAIN list
  BY <1>1, <1>2, <1>3
<1>5. ASSUME NEW k \in DOMAIN c
      PROVE  /\ a + k \in DOMAIN list /\ a + 1 <= a + k /\ a + k <= e
             /\ c[k] = list[a + k]
  BY <1>1, <1>2, <1>3 DEF Part
<1>6. Head(c) = list[a + 1] /\ Last(c) = list[e]
  <2>1. 1 \in 1 .. Len(c) /\ Len(c) \in 1 .. Len(c) /\ a + Len(c) = e
    BY <1>2, <1>3
  <2>2. c[1] = list[a + 1] /\ c[Len(c)] = list[e]
    BY <1>2, <2>1 DEF Part
  <2> QED
    BY <1>2, <2>2 DEF Last
<1>7. Cue(c).start = list[a + 1].start /\ Cue(c).end = list[e].end
  BY <1>6 DEF Cue
<1> QED
  BY <1>2, <1>4, <1>5, <1>7 DEF a, e, c, Within

-----------------------------------------------------------------------------
(* Captions *)

\* Captions show every word once and in order; a caption of several words keeps
\* every limit, and none ends before a word that it could take, for any words and
\* any limits (Group).
THEOREM CaptionsAreFaithful == TranscribeSpec => []CaptionsFaithful
<1>1. Transcript => CaptionsFaithful
  <2> SUFFICES ASSUME Transcript, pc = "returned" PROVE CaptionsFaithful
    BY DEF CaptionsFaithful
  <2> DEFINE g == Group(combined)
  <2>1. combined \in Seq(Word)
    BY DEF Transcript, Timed
  <2>2. PICK acc : Grouped(acc, combined, Len(combined)) /\ acc.groups = g
    BY <2>1, GroupIsGrouped
  <2> HIDE DEF g
  <2>3. /\ g \in Seq(Seq(Word))
        /\ \A i \in 1 .. Len(g) : Len(g[i]) > 1 => Fits(g[i])
        /\ \A i \in 1 .. Len(g) - 1 : ~Fits(Append(g[i], Head(g[i + 1])))
    BY <2>2 DEF Grouped
  <2>4. PICK ends : Cuts(ends, g, combined, Len(combined))
    BY <2>2 DEF Grouped
  <2>5. FlattenSeq(g) = combined
    BY <2>1, <2>3, <2>4, CutsFlatten
  <2>6. \A i \in 1 .. Len(g) : g[i] # << >>
    <3>1. Len(combined) \in 0 .. Len(combined)
      BY <2>1
    <3> QED
      BY <2>1, <2>3, <2>4, <3>1, CutsFacts
  <2>7. DOMAIN g = 1 .. Len(g)
    BY <2>3
  <2> QED
    BY <2>3, <2>5, <2>6, <2>7 DEF CaptionsFaithful, g
<1> QED
  BY <1>1, InitTranscript, StepTranscript, PTL DEF TranscribeSpec

\* Every word is spoken while its caption is shown, the captions never go back in
\* time, and none outlasts the audio, for any words and any limits (Captions).
THEOREM CaptionsAreTimed == TranscribeSpec => []CaptionsTimed
<1>1. Transcript => CaptionsTimed
  <2> SUFFICES ASSUME Transcript, pc = "returned" PROVE CaptionsTimed
    BY DEF CaptionsTimed
  <2> DEFINE list == combined
             g == Group(list)
             cues == Cues(list)
             n == Len(g)
  <2>1. list \in Seq(Word) /\ Ordered(list) /\ Len(list) \in 0 .. Len(list)
        /\ \A i \in DOMAIN list : list[i].end <= Milliseconds(count)
    BY DEF Transcript, Timed, Valid
  <2>2. PICK acc : Grouped(acc, list, Len(list)) /\ acc.groups = g
    BY <2>1, GroupIsGrouped
  <2>3. cues = [i \in DOMAIN g |-> Cue(g[i])]
    BY DEF Cues
  <2> HIDE DEF g, list, cues
  <2>4. g \in Seq(Seq(Word)) /\ n \in Nat /\ DOMAIN g = 1 .. n
    BY <2>2 DEF Grouped
  <2>5. PICK ends : Cuts(ends, g, list, Len(list))
    BY <2>2 DEF Grouped
  <2>6. ASSUME NEW i \in 1 .. n
        PROVE  /\ ends[i - 1] \in 0 .. Len(list) /\ ends[i] \in 0 .. Len(list)
               /\ ends[i - 1] < ends[i]
               /\ ends[i - 1] + 1 \in DOMAIN list /\ ends[i] \in DOMAIN list
               /\ cues[i].start = list[ends[i - 1] + 1].start
               /\ cues[i].end = list[ends[i]].end
               /\ Within(g[i], list, ends[i - 1], ends[i])
    <3>1. cues[i] = Cue(g[i])
      BY <2>3, <2>4
    <3> DEFINE m == Len(list)
    <3>2. m \in 0 .. Len(list) /\ Cuts(ends, g, list, m)
      BY <2>1, <2>5
    <3> HIDE DEF m
    <3>3. /\ ends[i - 1] \in 0 .. Len(list) /\ ends[i] \in 0 .. Len(list)
          /\ ends[i - 1] < ends[i]
          /\ ends[i - 1] + 1 \in DOMAIN list /\ ends[i] \in DOMAIN list
          /\ Cue(g[i]).start = list[ends[i - 1] + 1].start
          /\ Cue(g[i]).end = list[ends[i]].end
          /\ Within(g[i], list, ends[i - 1], ends[i])
      BY <2>1, <2>4, <3>2, CueAt
    <3> QED
      BY <3>1, <3>3
  <2> HIDE DEF n
  <2>7. ASSUME NEW i \in DOMAIN g, NEW k \in DOMAIN g[i]
        PROVE  cues[i].start <= g[i][k].start /\ g[i][k].end <= cues[i].end
    <3>1. i \in 1 .. n
      BY <2>4
    <3> DEFINE a == ends[i - 1] + 1
               b == ends[i - 1] + k
               e == ends[i]
    <3>2. /\ a \in DOMAIN list /\ e \in DOMAIN list /\ b \in DOMAIN list
          /\ a <= b /\ b <= e /\ g[i][k] = list[b]
          /\ cues[i].start = list[a].start /\ cues[i].end = list[e].end
      BY <2>6, <3>1 DEF Within
    <3> HIDE DEF a, b, e
    <3>3. list[a].start <= list[b].start
      BY <2>1, <3>2, OrderedAll
    <3>4. list[b].end <= list[e].end
      BY <2>1, <3>2, OrderedAll
    <3> QED
      BY <3>2, <3>3, <3>4
  <2>8. Ordered(cues)
    <3>1. cues \in Seq([start : Nat, end : Nat]) /\ Len(cues) = n
      <4>1. ASSUME NEW i \in 1 .. n PROVE Cue(g[i]) \in [start : Nat, end : Nat]
        <5>1. /\ ends[i - 1] + 1 \in DOMAIN list /\ ends[i] \in DOMAIN list
              /\ cues[i].start = list[ends[i - 1] + 1].start
              /\ cues[i].end = list[ends[i]].end
          BY <2>6
        <5>2. list[ends[i - 1] + 1] \in Word /\ list[ends[i]] \in Word
          BY <2>1, <5>1
        <5>3. cues[i].start \in Nat /\ cues[i].end \in Nat
          BY <5>1, <5>2 DEF Word
        <5>4. cues[i] = Cue(g[i])
          BY <2>3, <2>4
        <5> QED
          BY <5>3, <5>4 DEF Cue
      <4> QED
        BY <2>3, <2>4, <4>1
    <3>2. ASSUME NEW i \in 1 .. n - 1
          PROVE  cues[i].start <= cues[i + 1].start /\ cues[i].end <= cues[i + 1].end
      <4>1. i \in 1 .. n /\ i + 1 \in 1 .. n /\ i + 1 - 1 = i
        BY <2>4
      <4> DEFINE a == ends[i - 1] + 1
                 b == ends[i] + 1
                 e == ends[i]
                 z == ends[i + 1]
      <4>2. /\ a \in DOMAIN list /\ e \in DOMAIN list
            /\ cues[i].start = list[a].start /\ cues[i].end = list[e].end
        BY <2>6, <4>1
      <4>3. /\ b \in DOMAIN list /\ z \in DOMAIN list
            /\ cues[i + 1].start = list[b].start /\ cues[i + 1].end = list[z].end
        BY <2>6, <4>1
      <4>4. a <= b /\ e <= z
        <5>1. ends[i - 1] \in 0 .. Len(list) /\ e \in 0 .. Len(list) /\ ends[i - 1] < e
          BY <2>6, <4>1
        <5>2. z \in 0 .. Len(list) /\ e < z
          <6>1. \A j \in 1 .. n : ends[j] \in 0 .. Len(list) /\ ends[j - 1] < ends[j]
            BY <2>6
          <6>2. ends[i + 1] \in 0 .. Len(list) /\ ends[i + 1 - 1] < ends[i + 1]
            <7> HIDE DEF z, e
            <7> QED
              BY <4>1, <6>1
          <6> QED
            BY <4>1, <6>2
        <5> QED
          BY <2>1, <5>1, <5>2
      <4> HIDE DEF a, b, e, z
      <4>5. list[a].start <= list[b].start
        BY <2>1, <4>2, <4>3, <4>4, OrderedAll
      <4>6. list[e].end <= list[z].end
        BY <2>1, <4>2, <4>3, <4>4, OrderedAll
      <4> QED
        BY <4>2, <4>3, <4>5, <4>6
    <3> QED
      BY <3>1, <3>2 DEF Ordered
  <2>9. ASSUME NEW i \in DOMAIN g PROVE cues[i].end <= Milliseconds(count)
    <3>1. i \in 1 .. n
      BY <2>4
    <3>2. ends[i] \in DOMAIN list /\ cues[i].end = list[ends[i]].end
      BY <2>6, <3>1
    <3> QED
      BY <2>1, <3>2
  <2> QED
    BY <2>7, <2>8, <2>9 DEF CaptionsTimed, g, cues, list
<1> QED
  BY <1>1, InitTranscript, StepTranscript, PTL DEF TranscribeSpec
=============================================================================
