--------------------------- MODULE EfiBootProofs ----------------------------
(***************************************************************************)
(* Theorems about EfiBoot, for any range of Boot#### numbers, any images,  *)
(* any number of deploys and a BootOrder of any length, duplicates         *)
(* included: the entry written is the deploy's own, entries do not pile    *)
(* up, and BootOrder is rewritten safely and only once.                    *)
(*                                                                         *)
(* The first lemmas are about subsequences: Kept numbers the positions it  *)
(* keeps by their rank, so what it returns follows from counting.          *)
(***************************************************************************)
EXTENDS EfiBoot, FiniteSetTheorems, NaturalLemmas

-----------------------------------------------------------------------------
(* Ranks and subsequences.                                                  *)

\* Sets of positions are finite, and so are their initial parts.
LEMMA RankIsNatural ==
  ASSUME NEW N \in Nat, NEW K \in SUBSET (1 .. N), NEW i
  PROVE  /\ IsFiniteSet(K) /\ Cardinality(K) \in Nat
         /\ IsFiniteSet({j \in K : j <= i}) /\ Rank(K, i) \in Nat
<1>1. IsFiniteSet(1 .. N)
  BY FS_Interval
<1>2. IsFiniteSet(K)
  BY <1>1, FS_Subset
<1>3. IsFiniteSet({j \in K : j <= i})
  BY <1>2, FS_Subset
<1> QED
  BY <1>2, <1>3, FS_CardinalityType DEF Rank

\* The rank grows by one at the positions of K and nowhere else.
LEMMA RankStep ==
  ASSUME NEW N \in Nat, NEW K \in SUBSET (1 .. N), NEW i \in Nat \ {0}
  PROVE  Rank(K, i) = IF i \in K THEN Rank(K, i - 1) + 1 ELSE Rank(K, i - 1)
<1>0. \A j \in K : j \in Nat /\ 1 <= j /\ j <= N
  OBVIOUS
<1> DEFINE Before == {j \in K : j <= i - 1}
<1>1. IsFiniteSet(Before)
  BY RankIsNatural
<1>2. CASE i \in K
  <2>1. \A j \in K : j <= i <=> j <= i - 1 \/ j = i
    BY <1>0
  <2>2. {j \in K : j <= i} = Before \cup {i}
    BY <1>0, <1>2, <2>1
  <2>3. i \notin Before
    OBVIOUS
  <2> QED
    BY <1>1, <1>2, <2>2, <2>3, FS_AddElement DEF Rank
<1>3. CASE i \notin K
  <2>1. \A j \in K : j <= i <=> j <= i - 1
    BY <1>0, <1>3
  <2>2. {j \in K : j <= i} = Before
    BY <2>1
  <2> QED
    BY <1>3, <2>2 DEF Rank
<1> QED
  BY <1>2, <1>3

\* No position ranks at 0, and the last ranks at the number of them.
LEMMA RankEnds ==
  ASSUME NEW N \in Nat, NEW K \in SUBSET (1 .. N)
  PROVE  Rank(K, 0) = 0 /\ Rank(K, N) = Cardinality(K)
<1>0. \A j \in K : j \in Nat /\ 1 <= j /\ j <= N
  OBVIOUS
<1>1. \A j \in K : ~(j <= 0) /\ j <= N
  BY <1>0
<1>2. {j \in K : j <= 0} = {} /\ {j \in K : j <= N} = K
  BY <1>1
<1> QED
  BY <1>2, FS_EmptySet DEF Rank

\* Of two positions the later one ranks higher.
LEMMA RankGrows ==
  ASSUME NEW N \in Nat, NEW K \in SUBSET (1 .. N), NEW i \in K, NEW j \in K, i < j
  PROVE  Rank(K, i) < Rank(K, j)
<1>0. \A m \in K : m \in Nat /\ 1 <= m /\ m <= N
  OBVIOUS
<1>1. Rank(K, i) <= Rank(K, j - 1)
  <2>1. \A m \in K : m <= i => m <= j - 1
    BY <1>0
  <2>2. {m \in K : m <= i} \in SUBSET {m \in K : m <= j - 1}
    BY <2>1
  <2> QED
    BY <2>2, RankIsNatural, FS_Subset DEF Rank
<1>2. Rank(K, j) = Rank(K, j - 1) + 1
  BY <1>0, RankStep
<1>3. Rank(K, i) \in Nat /\ Rank(K, j - 1) \in Nat
  BY RankIsNatural
<1> QED
  BY <1>1, <1>2, <1>3

\* A position of K ranks between 1 and the number of them.
LEMMA RankBounds ==
  ASSUME NEW N \in Nat, NEW K \in SUBSET (1 .. N), NEW i \in K
  PROVE  Rank(K, i) \in 1 .. Cardinality(K)
<1>0. \A j \in K : j \in Nat /\ 1 <= j /\ j <= N
  OBVIOUS
<1>1. Rank(K, i) <= Cardinality(K)
  BY RankIsNatural, FS_Subset DEF Rank
<1>2. Rank(K, i) = Rank(K, i - 1) + 1
  BY <1>0, RankStep
<1>3. Rank(K, i - 1) \in Nat /\ Rank(K, i) \in Nat /\ Cardinality(K) \in Nat
  BY RankIsNatural
<1> QED
  BY <1>1, <1>2, <1>3

\* Every rank up to the number of positions is that of one position.
LEMMA RankIsTaken ==
  ASSUME NEW N \in Nat, NEW K \in SUBSET (1 .. N), NEW k \in 1 .. Cardinality(K)
  PROVE  \E i \in K : Rank(K, i) = k
<1> DEFINE Reached == {i \in Nat : k <= Rank(K, i)}
<1>1. N \in Reached
  BY RankEnds
<1>2. PICK i \in Reached : \A j \in Reached : i <= j
  <2>1. Reached \subseteq Nat /\ Reached # {}
    BY <1>1
  <2> HIDE DEF Reached
  <2> QED
    BY <2>1, NatLeast
<1>3. i # 0
  BY <1>2, RankEnds
<1>4. i - 1 \notin Reached /\ i - 1 \in Nat
  BY <1>2, <1>3
<1>5. Rank(K, i - 1) \in Nat /\ Rank(K, i) \in Nat /\ Cardinality(K) \in Nat
  BY RankIsNatural
<1>6. Rank(K, i - 1) < k
  BY <1>4, <1>5
<1>7. Rank(K, i) = IF i \in K THEN Rank(K, i - 1) + 1 ELSE Rank(K, i - 1)
  BY <1>2, <1>3, RankStep
<1> QED
  BY <1>2, <1>5, <1>6, <1>7

\* What Kept returns: the k-th element is the one at the position that ranks k-th, and
\* every position kept is there.
LEMMA KeptElements ==
  ASSUME NEW S, NEW s \in Seq(S), NEW K \in SUBSET (1 .. Len(s))
  PROVE  /\ Cardinality(K) \in Nat
         /\ Kept(s, K) \in Seq(S)
         /\ Len(Kept(s, K)) = Cardinality(K)
         /\ \A k \in 1 .. Cardinality(K) :
              \E i \in K : Rank(K, i) = k /\ Kept(s, K)[k] = s[i]
         /\ \A i \in K : /\ Rank(K, i) \in 1 .. Cardinality(K)
                         /\ Kept(s, K)[Rank(K, i)] = s[i]
<1> DEFINE N == Len(s)
           at(k) == CHOOSE i \in K : Rank(K, i) = k
<1>1. N \in Nat /\ \A i \in K : i \in Nat /\ s[i] \in S
  OBVIOUS
<1>2. Cardinality(K) \in Nat
  BY <1>1, RankIsNatural
<1>3. ASSUME NEW k \in 1 .. Cardinality(K) PROVE at(k) \in K /\ Rank(K, at(k)) = k
  <2>1. \E i \in K : Rank(K, i) = k
    BY <1>1, RankIsTaken
  <2> QED
    BY <2>1
<1>4. ASSUME NEW i \in K
      PROVE  Rank(K, i) \in 1 .. Cardinality(K) /\ at(Rank(K, i)) = i
  <2>1. Rank(K, i) \in 1 .. Cardinality(K)
    BY <1>1, RankBounds
  <2>2. at(Rank(K, i)) \in K /\ Rank(K, at(Rank(K, i))) = Rank(K, i)
    BY <1>3, <2>1
  <2>3. ASSUME NEW a \in K, Rank(K, a) = Rank(K, i) PROVE a = i
    <3>1. a \in Nat /\ i \in Nat /\ Rank(K, a) \in Nat
      BY <1>1, RankIsNatural
    <3>2. a < i => Rank(K, a) < Rank(K, i)
      BY <1>1, RankGrows
    <3>3. i < a => Rank(K, i) < Rank(K, a)
      BY <1>1, RankGrows
    <3> QED
      BY <2>3, <3>1, <3>2, <3>3
  <2> QED
    BY <2>1, <2>2, <2>3
<1>5. Kept(s, K) = [k \in 1 .. Cardinality(K) |-> s[at(k)]]
  BY DEF Kept
<1> HIDE DEF at
<1>6. \A k \in 1 .. Cardinality(K) : s[at(k)] \in S
  BY <1>1, <1>3
<1>7. Kept(s, K) \in Seq(S) /\ Len(Kept(s, K)) = Cardinality(K)
  BY <1>2, <1>5, <1>6
<1> QED
  BY <1>2, <1>3, <1>4, <1>5, <1>7

-----------------------------------------------------------------------------
(* BootOrder: taking a number out and putting it in.                        *)

\* The least number of a non-empty set of numbers.
LEMMA LowestIsLeast ==
  ASSUME NEW S, S \subseteq Nat, S # {}
  PROVE  Lowest(S) \in S /\ \A m \in S : Lowest(S) <= m
<1>1. \E n \in S : \A m \in S : n <= m
  BY NatLeast
<1> QED
  BY <1>1 DEF Lowest

\* The greatest number of a non-empty set of bounded numbers.
LEMMA HighestIsGreatest ==
  ASSUME NEW N \in Nat, NEW S, S \subseteq 1 .. N, S # {}
  PROVE  Highest(S) \in S /\ \A m \in S : m <= Highest(S)
<1> DEFINE Above == {b \in Nat : \A m \in S : m <= b}
<1>0. \A m \in S : m \in Nat /\ 1 <= m /\ m <= N
  OBVIOUS
<1>1. N \in Above
  BY <1>0
<1>2. PICK b \in Above : \A c \in Above : b <= c
  <2>1. Above \subseteq Nat /\ Above # {}
    BY <1>1
  <2> HIDE DEF Above
  <2> QED
    BY <2>1, NatLeast
<1>3. b \in S
  <2> SUFFICES ASSUME b \notin S PROVE FALSE
    OBVIOUS
  <2>1. \A m \in S : m <= b - 1
    BY <1>0, <1>2
  <2>2. b # 0
    <3>1. PICK m \in S : TRUE
      OBVIOUS
    <3> QED
      BY <1>0, <1>2, <3>1
  <2>3. b - 1 \in Above
    BY <2>1, <2>2
  <2> QED
    BY <1>2, <2>3
<1>4. \E n \in S : \A m \in S : m <= n
  BY <1>2, <1>3
<1> QED
  BY <1>4 DEF Highest

\* The elements of two sequences one after the other.
LEMMA JoinElements ==
  ASSUME NEW S, NEW u \in Seq(S), NEW v \in Seq(S)
  PROVE  /\ u \o v \in Seq(S)
         /\ Len(u \o v) = Len(u) + Len(v)
         /\ \A i \in 1 .. Len(u) : (u \o v)[i] = u[i]
         /\ \A i \in 1 .. Len(v) : (u \o v)[Len(u) + i] = v[i]
OBVIOUS

\* t is the sequence s over S with n put in at the position at.
IsInserted(S, t, s, at, n) ==
  /\ t \in Seq(S)
  /\ Len(t) = Len(s) + 1
  /\ \A i \in 1 .. (Len(s) + 1) :
       t[i] = IF i < at THEN s[i] ELSE IF i = at THEN n ELSE s[i - 1]

\* What Inserted returns.
LEMMA InsertedElements ==
  ASSUME NEW S, NEW s \in Seq(S), NEW n \in S, NEW at \in 1 .. (Len(s) + 1)
  PROVE  IsInserted(S, Inserted(s, at, n), s, at, n)
<1> DEFINE front == SubSeq(s, 1, at - 1)
           back  == SubSeq(s, at, Len(s))
<1>1. /\ front \in Seq(S) /\ Len(front) = at - 1
      /\ \A i \in 1 .. (at - 1) : front[i] = s[i]
  OBVIOUS
<1>2. /\ back \in Seq(S) /\ Len(back) = Len(s) + 1 - at
      /\ \A i \in 1 .. (Len(s) + 1 - at) : back[i] = s[at + i - 1]
  OBVIOUS
<1>3. Inserted(s, at, n) = front \o <<n>> \o back
  BY DEF Inserted
<1> HIDE DEF front, back
<1> DEFINE head == front \o <<n>>
<1>4. /\ head \in Seq(S) /\ Len(head) = at
      /\ \A i \in 1 .. at : head[i] = IF i < at THEN s[i] ELSE n
  BY <1>1
<1> HIDE DEF head
<1>5. /\ head \o back \in Seq(S) /\ Len(head \o back) = Len(s) + 1
      /\ \A i \in 1 .. at : (head \o back)[i] = head[i]
      /\ \A i \in 1 .. (Len(s) + 1 - at) : (head \o back)[at + i] = back[i]
  <2>1. /\ head \o back \in Seq(S) /\ Len(head \o back) = Len(head) + Len(back)
        /\ \A i \in 1 .. Len(head) : (head \o back)[i] = head[i]
        /\ \A i \in 1 .. Len(back) : (head \o back)[Len(head) + i] = back[i]
    BY <1>2, <1>4, JoinElements
  <2> QED
    BY <1>2, <1>4, <2>1
<1>6. ASSUME NEW i \in 1 .. (Len(s) + 1)
      PROVE  (head \o back)[i] = IF i < at THEN s[i] ELSE IF i = at THEN n ELSE s[i - 1]
  <2>1. CASE i <= at
    BY <1>4, <1>5, <2>1
  <2>2. CASE at < i
    <3>1. /\ i - at \in 1 .. (Len(s) + 1 - at)
          /\ at + (i - at) = i /\ at + (i - at) - 1 = i - 1
      BY <2>2
    <3>2. back[i - at] = s[i - 1]
      BY <1>2, <3>1
    <3>3. (head \o back)[i] = back[i - at]
      BY <1>5, <3>1
    <3> QED
      BY <2>2, <3>2, <3>3
  <2>3. i <= at \/ at < i
    OBVIOUS
  <2> QED
    BY <2>1, <2>2, <2>3
<1> QED
  BY <1>3, <1>5, <1>6 DEF head, IsInserted

\* What Without returns: the number is gone.
LEMMA WithoutElements ==
  ASSUME NEW S, NEW s \in Seq(S), NEW n
  PROVE  /\ Without(s, n) \in Seq(S)
         /\ \A k \in 1 .. Len(Without(s, n)) : Without(s, n)[k] # n
<1> DEFINE K == {i \in 1 .. Len(s) : s[i] # n}
<1>1. K \in SUBSET (1 .. Len(s)) /\ \A i \in K : s[i] # n
  OBVIOUS
<1>2. Without(s, n) = Kept(s, K)
  BY DEF Without
<1> HIDE DEF K
<1> QED
  BY <1>1, <1>2, KeptElements

\* Taking out the number that was put in gives back the sequence it was put into.
LEMMA WithoutInserted ==
  ASSUME NEW S, NEW s \in Seq(S), NEW n \in S, NEW at \in 1 .. (Len(s) + 1),
         \A k \in 1 .. Len(s) : s[k] # n
  PROVE  Without(Inserted(s, at, n), n) = s
<1> DEFINE t == Inserted(s, at, n)
<1> DEFINE K == {i \in 1 .. Len(t) : t[i] # n}
<1>1. /\ t \in Seq(S) /\ Len(t) = Len(s) + 1
      /\ \A i \in 1 .. (Len(s) + 1) :
           t[i] = IF i < at THEN s[i] ELSE IF i = at THEN n ELSE s[i - 1]
  <2>1. IsInserted(S, t, s, at, n)
    BY InsertedElements
  <2> HIDE DEF t
  <2> QED
    BY <2>1 DEF IsInserted
<1>2. Without(t, n) = Kept(t, K)
  BY DEF Without
<1> HIDE DEF t
<1>3. K = (1 .. (Len(s) + 1)) \ {at}
  BY <1>1
<1> HIDE DEF K
<1>4. Cardinality(K) = Len(s)
  <2> DEFINE I == 1 .. (Len(s) + 1)
  <2>1. IsFiniteSet(I) /\ Cardinality(I) = Len(s) + 1
    BY FS_Interval
  <2>2. at \in I /\ K = I \ {at}
    BY <1>3
  <2> HIDE DEF I
  <2>3. Cardinality(K) = Cardinality(I) - 1
    BY <2>1, <2>2, FS_RemoveElement
  <2> QED
    BY <2>1, <2>3
<1>5. ASSUME NEW i \in K PROVE Rank(K, i) = IF i < at THEN i ELSE i - 1
  <2> DEFINE I == 1 .. i
  <2>1. IsFiniteSet(I) /\ Cardinality(I) = i
    BY <1>3, FS_Interval
  <2>2. {j \in K : j <= i} = I \ {at}
    BY <1>3
  <2>3. at \in I <=> ~(i < at)
    BY <1>3
  <2> HIDE DEF I
  <2>4. Cardinality(I \ {at}) = IF at \in I THEN Cardinality(I) - 1 ELSE Cardinality(I)
    BY <2>1, FS_RemoveElement
  <2> QED
    BY <2>1, <2>2, <2>3, <2>4 DEF Rank
<1>6. /\ Kept(t, K) \in Seq(S) /\ Len(Kept(t, K)) = Len(s)
      /\ \A k \in 1 .. Len(s) : \E i \in K : Rank(K, i) = k /\ Kept(t, K)[k] = t[i]
  <2>1. K \in SUBSET (1 .. Len(t))
    BY <1>1, <1>3
  <2> QED
    BY <1>1, <1>4, <2>1, KeptElements
<1>7. ASSUME NEW k \in 1 .. Len(s) PROVE Kept(t, K)[k] = s[k]
  <2>1. PICK i \in K : Rank(K, i) = k /\ Kept(t, K)[k] = t[i]
    BY <1>6
  <2> QED
    BY <1>1, <1>3, <1>5, <2>1
<1> QED
  BY <1>2, <1>6, <1>7 DEF t

\* The slot for the disk: no other entry the firmware boots on its own comes before it,
\* and every network entry that leads the order does.
LEMMA SlotFits ==
  ASSUME NEW S, NEW s \in Seq(S)
  PROVE  /\ Slot(s) \in 1 .. (Len(s) + 1)
         /\ \A i \in 1 .. (Slot(s) - 1) : i \notin Others(s)
         /\ \A i \in Leading(s) : i < Slot(s)
<1> DEFINE first == Lowest(Others(s) \cup {Len(s) + 1})
           nets  == {i \in 1 .. (first - 1) : IsAutoBootable(s[i]) /\ IsNetwork(s[i])}
<1>1. Others(s) \subseteq 1 .. Len(s) /\ Len(s) \in Nat
  BY DEF Others
<1>2. /\ first \in Others(s) \cup {Len(s) + 1}
      /\ \A m \in Others(s) \cup {Len(s) + 1} : first <= m
  <2>1. Others(s) \cup {Len(s) + 1} \subseteq Nat
    BY <1>1
  <2> QED
    BY <2>1, LowestIsLeast
<1>3. Slot(s) = IF nets = {} THEN first ELSE Highest(nets) + 1
  BY DEF Slot
<1> HIDE DEF first
<1>4. first \in 1 .. (Len(s) + 1) /\ \A i \in 1 .. (first - 1) : i \notin Others(s)
  BY <1>1, <1>2
<1>5. nets # {} => /\ Highest(nets) \in nets /\ Highest(nets) \in Nat
                   /\ \A i \in nets : i \in Nat /\ i <= Highest(nets)
  <2>1. /\ first - 1 \in Nat /\ nets \subseteq 1 .. (first - 1)
        /\ \A i \in nets : i \in Nat
    BY <1>4
  <2> HIDE DEF nets
  <2>2. nets # {} => Highest(nets) \in nets /\ \A i \in nets : i <= Highest(nets)
    BY <2>1, HighestIsGreatest
  <2> QED
    BY <2>1, <2>2
<1>6. Slot(s) \in 1 .. first
  BY <1>3, <1>4, <1>5
<1>7. ASSUME NEW i \in Leading(s) PROVE i < Slot(s)
  <2>1. i \in 1 .. Len(s) /\ IsAutoBootable(s[i]) /\ \A j \in 1 .. i : j \notin Others(s)
    BY DEF Leading
  <2>2. i < first
    <3>1. first \in 1 .. i => first \in Others(s)
      BY <1>2, <2>1
    <3> QED
      BY <1>4, <2>1, <3>1
  <2>3. IsNetwork(s[i])
    BY <2>1 DEF Others
  <2>4. i \in nets
    BY <1>4, <2>1, <2>2, <2>3
  <2> HIDE DEF nets
  <2> QED
    BY <1>3, <1>4, <1>5, <1>6, <2>1, <2>4
<1> QED
  BY <1>4, <1>6, <1>7

\* What PlaceAfterNetwork returns: the order it was given with the number out, the number
\* at its slot, and nothing to move when it is run again.
LEMMA PlacementIsStable ==
  ASSUME NEW S, NEW s \in Seq(S), NEW n \in S
  PROVE  /\ Without(s, n) \in Seq(S)
         /\ Slot(Without(s, n)) \in 1 .. (Len(Without(s, n)) + 1)
         /\ PlaceAfterNetwork(s, n) = Inserted(Without(s, n), Slot(Without(s, n)), n)
         /\ Without(PlaceAfterNetwork(s, n), n) = Without(s, n)
         /\ PlaceAfterNetwork(PlaceAfterNetwork(s, n), n) = PlaceAfterNetwork(s, n)
<1> DEFINE rest == Without(s, n)
<1>1. rest \in Seq(S) /\ \A k \in 1 .. Len(rest) : rest[k] # n
  BY WithoutElements
<1>2. PlaceAfterNetwork(s, n) = Inserted(rest, Slot(rest), n)
  BY DEF PlaceAfterNetwork
<1> HIDE DEF rest
<1>3. Slot(rest) \in 1 .. (Len(rest) + 1)
  BY <1>1, SlotFits
<1>4. Without(Inserted(rest, Slot(rest), n), n) = rest
  BY <1>1, <1>3, WithoutInserted
<1>5. PlaceAfterNetwork(Inserted(rest, Slot(rest), n), n) = Inserted(rest, Slot(rest), n)
  BY <1>4 DEF PlaceAfterNetwork
<1> QED
  BY <1>1, <1>2, <1>3, <1>4, <1>5 DEF rest

-----------------------------------------------------------------------------
(* The inductive invariant.                                                 *)

\* Between two writes: the number a run holds is its own to write.  Before the entry is
\* written nothing starts this disk and no other entry is described beskar7; when the
\* order comes, the entry is in place.
RunFits ==
  /\ pc # "idle" => result = "none"
  /\ pc = "entry" => /\ Existing(image) = {}
                     /\ \A m \in Described : m = number
                     /\ ~Used(number) \/ number \in Described
  /\ pc = "order" => /\ Existing(image) # {}
                     /\ number = Lowest(Existing(image))

IInv == TypeOK /\ NoPileUp /\ RunFits /\ FinishedIsStable /\ NothingBeforeDiskButNetwork

\* The numbers a run may choose from, and the least of them is one of them.
LEMMA NumbersChosen ==
  ASSUME TypeOK
  PROVE  /\ Existing(image) \subseteq Numbers /\ Described \subseteq Numbers
         /\ Free \subseteq Numbers /\ Numbers \subseteq Nat
         /\ \A S \in SUBSET Numbers : S # {} => Lowest(S) \in S
<1>1. Numbers \subseteq Nat
  BY NumberAssumption DEF Numbers
<1>2. ASSUME NEW S \in SUBSET Numbers, S # {} PROVE Lowest(S) \in S
  BY <1>1, <1>2, LowestIsLeast
<1> QED
  BY <1>1, <1>2 DEF Existing, Described, Free

\* The start of a run.
LEMMA ChooseKeepsInvariant ==
  ASSUME IInv, NEW im \in Images, Choose(im)
  PROVE  TypeOK' /\ NoPileUp' /\ RunFits' /\ result' # "ok"
<1> USE DEF IInv, TypeOK
<1>1. entries' = entries /\ order' = order /\ oddOrder' = oddOrder /\ image' = im
  BY DEF Choose, nvram
<1>2. Existing(im)' = Existing(im) /\ Described' = Described /\ Free' = Free
  BY <1>1 DEF Existing, Described, Free, Parses, Used
<1>3. deploys' \in 0 .. MaxDeploys
  BY DeploysAssumption DEF Choose
<1>4. NoPileUp'
  BY <1>2 DEF NoPileUp
<1>5. CASE End("failed") /\ UNCHANGED number
  BY <1>1, <1>3, <1>4, <1>5 DEF RunFits, End
<1>6. CASE /\ Existing(im) # {} /\ number' = Lowest(Existing(im))
           /\ pc' = "order" /\ result' = "none"
  <2>1. number' \in Numbers
    BY <1>6, NumbersChosen DEF Existing
  <2>2. RunFits'
    BY <1>1, <1>2, <1>6 DEF RunFits
  <2> QED
    BY <1>1, <1>3, <1>4, <1>6, <2>1, <2>2
<1>7. CASE /\ Existing(im) = {} /\ Described # {} /\ number' = Lowest(Described)
           /\ pc' = "entry" /\ result' = "none"
  <2>1. number' \in Described /\ number' \in Numbers
    BY <1>7, NumbersChosen
  <2>2. RunFits'
    BY <1>1, <1>2, <1>7, <2>1 DEF RunFits, NoPileUp
  <2> QED
    BY <1>1, <1>3, <1>4, <1>7, <2>1, <2>2
<1>8. CASE /\ Existing(im) = {} /\ Described = {} /\ Free # {} /\ number' = Lowest(Free)
           /\ pc' = "entry" /\ result' = "none"
  <2>1. number' \in Free /\ number' \in Numbers
    BY <1>8, NumbersChosen
  <2>2. ~Used(number)'
    BY <1>1, <2>1 DEF Free, Used
  <2>3. RunFits'
    BY <1>1, <1>2, <1>8, <2>2 DEF RunFits
  <2> QED
    BY <1>1, <1>3, <1>4, <1>8, <2>1, <2>3
<1> QED
  BY <1>5, <1>6, <1>7, <1>8 DEF Choose

\* The Boot#### write.
LEMMA WriteEntryKeepsInvariant ==
  ASSUME IInv, WriteEntry
  PROVE  TypeOK' /\ NoPileUp' /\ RunFits' /\ result' # "ok"
<1> USE DEF IInv, TypeOK
<1>1. /\ order' = order /\ oddOrder' = oddOrder /\ image' = image /\ number' = number
      /\ deploys' = deploys /\ pc = "entry" /\ result = "none"
  BY DEF WriteEntry, RunFits
<1>2. CASE End("failed") /\ UNCHANGED entries
  <2>1. Described' = Described
    BY <1>2 DEF Described, Parses
  <2> QED
    BY <1>1, <1>2, <2>1 DEF NoPileUp, RunFits, End
<1>3. CASE /\ entries' = [entries EXCEPT ![number] = EntryFor(image)]
           /\ pc' = "order" /\ UNCHANGED result
  <2>1. /\ EntryFor(image) \in Options /\ EntryFor(image).active
        /\ EntryFor(image).beskar7 /\ EntryFor(image).starts = image
    BY DEF EntryFor, Options
  <2>2. /\ entries' \in [Numbers -> Options \cup {Unset, Malformed}]
        /\ entries'[number] = EntryFor(image)
        /\ \A m \in Numbers : m # number => entries'[m] = entries[m]
    BY <1>3, <2>1
  <2>3. Described' = {number}
    <3>1. \A m \in Described : m = number
      BY <1>1 DEF RunFits
    <3> QED
      BY <2>1, <2>2, <3>1 DEF Described, Parses
  <2>4. Existing(image)' = {number}
    <3>1. Existing(image) = {}
      BY <1>1 DEF RunFits
    <3> QED
      BY <1>1, <2>1, <2>2, <3>1 DEF Existing, Parses
  <2>5. number = Lowest({number})
    <3>1. {number} \subseteq Nat /\ {number} # {}
      BY NumberAssumption DEF Numbers
    <3> QED
      BY <3>1, LowestIsLeast
  <2>6. RunFits'
    BY <1>1, <1>3, <2>4, <2>5 DEF RunFits
  <2> QED
    BY <1>1, <1>3, <2>2, <2>3, <2>6 DEF NoPileUp
<1> QED
  BY <1>2, <1>3 DEF WriteEntry

\* Where an order puts a number depends on the entries alone.
LEMMA SameNvram ==
  ASSUME entries' = entries
  PROVE  \A s, n : PlaceAfterNetwork(s, n)' = PlaceAfterNetwork(s, n)
BY DEF PlaceAfterNetwork, Slot, Others, IsAutoBootable, IsNetwork, Has, Parses

\* The BootOrder write: what FinishedIsStable and NothingBeforeDiskButNetwork say of it.
LEMMA WriteOrderKeepsInvariant ==
  ASSUME IInv, WriteOrder
  PROVE  IInv'
<1> DEFINE rest == Without(order, number)
           new  == PlaceAfterNetwork(order, number)
<1> USE DEF IInv
<1>1. /\ entries' = entries /\ oddOrder' = oddOrder /\ image' = image
      /\ number' = number /\ deploys' = deploys /\ pc = "order"
      /\ pc' = "idle"
      /\ (order' = new /\ result' = "ok") \/ (order' = order /\ result' = "failed")
  BY DEF WriteOrder, End
<1>2. /\ rest \in Seq(Numbers) /\ Slot(rest) \in 1 .. (Len(rest) + 1)
      /\ new = Inserted(rest, Slot(rest), number)
      /\ PlaceAfterNetwork(new, number) = new
  <2>1. order \in Seq(Numbers) /\ number \in Numbers
    BY DEF TypeOK
  <2> QED
    BY <2>1, PlacementIsStable
<1> HIDE DEF rest, new
<1>3. /\ new \in Seq(Numbers) /\ Len(new) = Len(rest) + 1
      /\ \A i \in 1 .. (Len(rest) + 1) :
           new[i] = IF i < Slot(rest) THEN rest[i]
                    ELSE IF i = Slot(rest) THEN number ELSE rest[i - 1]
  <2>1. number \in Numbers
    BY DEF TypeOK
  <2>2. IsInserted(Numbers, new, rest, Slot(rest), number)
    BY <1>2, <2>1, InsertedElements
  <2> QED
    BY <2>2 DEF IsInserted
<1>4. TypeOK'
  BY <1>1, <1>3 DEF TypeOK
<1>5. NoPileUp' /\ RunFits'
  BY <1>1 DEF NoPileUp, RunFits, Described, Parses
<1>6. FinishedIsStable'
  <2>1. Existing(image)' = Existing(image)
    BY <1>1 DEF Existing, Parses
  <2>2. number = Lowest(Existing(image))
    BY <1>1 DEF RunFits
  <2>3. \A s, n : PlaceAfterNetwork(s, n)' = PlaceAfterNetwork(s, n)
    BY <1>1, SameNvram
  <2> QED
    BY <1>1, <1>2, <2>1, <2>2, <2>3 DEF FinishedIsStable
<1>7. NothingBeforeDiskButNetwork'
  <2> SUFFICES ASSUME result' = "ok" PROVE NothingBeforeDiskButNetwork'
    BY DEF NothingBeforeDiskButNetwork
  <2>1. order' = new
    BY <1>1
  <2>2. Slot(rest) \in 1 .. Len(new) /\ new[Slot(rest)] = number
    BY <1>2, <1>3
  <2>3. ASSUME NEW j \in 1 .. (Slot(rest) - 1), IsAutoBootable(new[j])
        PROVE  IsNetwork(new[j])
    <3>1. new[j] = rest[j] /\ j \in 1 .. Len(rest)
      BY <1>2, <1>3
    <3>2. j \notin Others(rest)
      BY <1>2, SlotFits
    <3> QED
      BY <2>3, <3>1, <3>2 DEF Others
  <2>4. \A n : IsAutoBootable(n)' = IsAutoBootable(n) /\ IsNetwork(n)' = IsNetwork(n)
    BY <1>1 DEF IsAutoBootable, IsNetwork, Has, Parses
  <2> QED
    BY <1>1, <2>1, <2>2, <2>3, <2>4 DEF NothingBeforeDiskButNetwork
<1> QED
  BY <1>4, <1>5, <1>6, <1>7

\* The firmware rewrites BootOrder: the numbers it lists stay numbers.
LEMMA FirmwareKeepsType ==
  ASSUME TypeOK, FirmwareRebuildsOrder
  PROVE  TypeOK'
<1>1. PICK n \in Numbers : order' = Without(order, n) \/ order' = <<n>> \o Without(order, n)
  BY DEF FirmwareRebuildsOrder
<1>2. Without(order, n) \in Seq(Numbers)
  BY WithoutElements DEF TypeOK
<1>3. order' \in Seq(Numbers)
  BY <1>1, <1>2
<1> QED
  BY <1>3 DEF FirmwareRebuildsOrder, TypeOK

\* Every step preserves the invariant.
LEMMA NextKeepsInvariant ==
  ASSUME IInv, [Next]_vars
  PROVE  IInv'
<1>0. result' # "ok" => FinishedIsStable' /\ NothingBeforeDiskButNetwork'
  BY DEF FinishedIsStable, NothingBeforeDiskButNetwork
<1>1. ASSUME NEW im \in Images, Choose(im) PROVE IInv'
  BY <1>0, <1>1, ChooseKeepsInvariant DEF IInv
<1>2. CASE WriteEntry
  BY <1>0, <1>2, WriteEntryKeepsInvariant DEF IInv
<1>3. CASE WriteOrder
  BY <1>3, WriteOrderKeepsInvariant
<1>4. CASE PowerLoss
  <2>1. result' # "ok" /\ UNCHANGED <<nvram, image, number, deploys>> /\ pc' = "idle"
    BY <1>4 DEF PowerLoss, End
  <2>2. TypeOK' /\ NoPileUp' /\ RunFits'
    BY <1>4, <2>1 DEF PowerLoss, End, IInv, TypeOK, NoPileUp, RunFits, Described, Parses,
       nvram
  <2> QED
    BY <1>0, <2>1, <2>2 DEF IInv
<1>5. CASE FirmwareRebuildsOrder
  <2>1. /\ result' # "ok" /\ pc' = "idle" /\ entries' = entries
    BY <1>5 DEF FirmwareRebuildsOrder
  <2>2. NoPileUp' /\ RunFits'
    BY <2>1 DEF IInv, NoPileUp, RunFits, Described, Parses
  <2>3. TypeOK'
    BY <1>5, FirmwareKeepsType DEF IInv
  <2> QED
    BY <1>0, <2>1, <2>2, <2>3 DEF IInv
<1>6. CASE UNCHANGED vars
  <2>1. UNCHANGED <<entries, order, oddOrder, pc, image, number, result, deploys>>
    BY <1>6 DEF vars, nvram
  <2>2. TypeOK' /\ NoPileUp' /\ RunFits'
    BY <2>1 DEF IInv, TypeOK, NoPileUp, RunFits, Described, Existing, Parses, Used
  <2>3. FinishedIsStable'
    <3>1. \A s, n : PlaceAfterNetwork(s, n)' = PlaceAfterNetwork(s, n)
      BY <2>1, SameNvram
    <3>2. Existing(image)' = Existing(image)
      BY <2>1 DEF Existing, Parses
    <3> QED
      BY <2>1, <3>1, <3>2 DEF IInv, FinishedIsStable
  <2>4. NothingBeforeDiskButNetwork'
    BY <2>1 DEF IInv, NothingBeforeDiskButNetwork, IsAutoBootable, IsNetwork, Has, Parses
  <2> QED
    BY <2>2, <2>3, <2>4 DEF IInv
<1> QED
  BY <1>1, <1>2, <1>3, <1>4, <1>5, <1>6 DEF Next

-----------------------------------------------------------------------------
(* The theorems.                                                            *)

\* The invariant holds in every state of every behaviour, for every range of Boot####
\* numbers, every set of images and every number of deploys (efiboot.rs:271-354).
THEOREM EfiBootInductive == Spec => []IInv
<1>1. Init => IInv
  BY DeploysAssumption DEF Init, IInv, TypeOK, NoPileUp, RunFits, FinishedIsStable,
     NothingBeforeDiskButNetwork
<1>2. IInv /\ [Next]_vars => IInv'
  BY NextKeepsInvariant
<1> QED
  BY <1>1, <1>2, PTL DEF Spec

\* NVRAM always holds load options and numbers, and the number a run writes is one.
THEOREM EfiBootTypeCorrect == Spec => []TypeOK
<1>1. IInv => TypeOK
  BY DEF IInv
<1> QED
  BY <1>1, EfiBootInductive, PTL

\* However many runs there are, for however many images and wherever they are cut short,
\* no more than one entry is described beskar7 (efiboot.rs:15-19).
THEOREM EntriesDoNotPileUp == Spec => []NoPileUp
<1>1. IInv => NoPileUp
  BY DEF IInv
<1> QED
  BY <1>1, EfiBootInductive, PTL

\* A run that finished would choose the same entry and the same order again
\* (efiboot.rs:6-14).
THEOREM FinishedRunsAreStable == Spec => []FinishedIsStable
<1>1. IInv => FinishedIsStable
  BY DEF IInv
<1> QED
  BY <1>1, EfiBootInductive, PTL

\* Once a run finished, what the firmware would boot before the disk is network
\* (efiboot.rs:20-27, place_after_network).
THEOREM DiskComesAfterNetworkOnly == Spec => []NothingBeforeDiskButNetwork
<1>1. IInv => NothingBeforeDiskButNetwork
  BY DEF IInv
<1> QED
  BY <1>1, EfiBootInductive, PTL

\* A run writes over no entry but one that was unset or an earlier deploy's that no longer
\* fits (pick_existing, previous_entry, free_boot_number).
THEOREM ForeignEntriesAreKept == Spec => ForeignEntriesSurvive
<1> DEFINE Kind == \A n \in Numbers : entries'[n] # entries[n] =>
                     ~Used(n) \/ (n \in Described /\ n \notin Existing(image))
<1>1. IInv /\ [Next]_vars => [Kind]_vars
  <2> SUFFICES ASSUME IInv, Next PROVE Kind
    BY DEF vars
  <2>1. CASE entries' = entries
    BY <2>1
  <2>2. CASE WriteEntry /\ entries' # entries
    <3>1. entries' = [entries EXCEPT ![number] = EntryFor(image)] /\ pc = "entry"
      BY <2>2 DEF WriteEntry
    <3>2. \A n \in Numbers : entries'[n] # entries[n] => n = number
      BY <3>1 DEF IInv, TypeOK
    <3>3. Existing(image) = {} /\ (~Used(number) \/ number \in Described)
      BY <3>1 DEF IInv, RunFits
    <3> QED
      BY <3>2, <3>3
  <2>3. entries' = entries \/ WriteEntry
    BY DEF Next, Choose, WriteOrder, PowerLoss, FirmwareRebuildsOrder, nvram
  <2> QED
    BY <2>1, <2>2, <2>3
<1> QED
  BY <1>1, EfiBootInductive, PTL DEF Spec, ForeignEntriesSurvive

\* BootOrder changes only once the entry it will name is in place, keeps every other
\* number where it was, and keeps what the firmware booted from the network first before
\* the disk (ensure_in, place_after_network).
THEOREM OrderWritesAreSafe == Spec => OrderWriteIsSafe
<1> DEFINE rest == Without(order, number)
           Safe == pc = "order" =>
                     /\ order' # order => number \in Existing(image)
                     /\ Without(order', number) = rest
                     /\ result' = "ok" =>
                          \E i \in 1 .. Len(order') :
                            /\ order'[i] = number
                            /\ {rest[j] : j \in Leading(rest)} \subseteq
                                 {order'[j] : j \in 1 .. (i - 1)}
<1>1. IInv /\ [Next]_vars => [Safe]_vars
  <2> SUFFICES ASSUME IInv, Next, pc = "order" PROVE Safe
    BY DEF vars
  <2>1. number \in Existing(image)
    BY NumbersChosen DEF IInv, RunFits
  <2>2. WriteOrder \/ PowerLoss
    BY DEF Next, Choose, WriteEntry, FirmwareRebuildsOrder
  <2>3. CASE order' = order /\ result' = "failed"
    BY <2>1, <2>3
  <2>4. CASE order' = PlaceAfterNetwork(order, number)
    <3>1. order \in Seq(Numbers) /\ number \in Numbers
      BY DEF IInv, TypeOK
    <3>2. /\ rest \in Seq(Numbers) /\ Slot(rest) \in 1 .. (Len(rest) + 1)
          /\ order' = Inserted(rest, Slot(rest), number)
          /\ Without(order', number) = rest
      BY <2>4, <3>1, PlacementIsStable
    <3> HIDE DEF rest
    <3>3. /\ Len(order') = Len(rest) + 1
          /\ \A i \in 1 .. (Len(rest) + 1) :
               order'[i] = IF i < Slot(rest) THEN rest[i]
                           ELSE IF i = Slot(rest) THEN number ELSE rest[i - 1]
      <4>1. IsInserted(Numbers, order', rest, Slot(rest), number)
        BY <3>1, <3>2, InsertedElements
      <4> QED
        BY <4>1 DEF IsInserted
    <3>4. Slot(rest) \in 1 .. Len(order') /\ order'[Slot(rest)] = number
      BY <3>2, <3>3
    <3>5. ASSUME NEW j \in Leading(rest)
          PROVE  j \in 1 .. (Slot(rest) - 1) /\ order'[j] = rest[j]
      <4>1. j \in 1 .. Len(rest)
        BY DEF Leading
      <4>2. j < Slot(rest)
        BY <3>2, SlotFits
      <4> QED
        BY <3>2, <3>3, <4>1, <4>2
    <3> QED
      BY <2>1, <3>2, <3>4, <3>5 DEF rest
  <2> QED
    BY <2>2, <2>3, <2>4 DEF WriteOrder, PowerLoss, End, nvram
<1> QED
  BY <1>1, EfiBootInductive, PTL DEF Spec, OrderWriteIsSafe
=============================================================================
