-------------------------- MODULE TargetDiskProofs --------------------------
(***************************************************************************)
(* What TargetDisk promises for any number of disks, aggregates, units and *)
(* mounts: a pin leads to the pinned disk or to none, the disk written has  *)
(* the number of the one classified, no disk of the running system is       *)
(* opened, and selection finds exactly what it follows.                     *)
(***************************************************************************)
EXTENDS TargetDisk, FiniteSetTheorems, NaturalLemmas

-----------------------------------------------------------------------------
(* What lies below a set of nodes.                                          *)

\* One level more.
Deeper(X, below) == X \cup UNION {below[n] : n \in X}

\* The levels are what their recursion says.
LEMMA LevelsUnfold ==
  ASSUME NEW S, NEW below
  PROVE  \A k \in 0 .. 2 * LastWhole :
           Levels(S, below)[k] =
             IF k = 0 THEN S ELSE Deeper(Levels(S, below)[k - 1], below)
<1> DEFINE IsReach(f, N) == f = [k \in 0 .. N |-> IF k = 0 THEN S ELSE Deeper(f[k - 1], below)]
           Missing == {N \in Nat : ~\E f : IsReach(f, N)}
<1>1. Missing = {}
  <2> SUFFICES ASSUME Missing # {} PROVE FALSE
    OBVIOUS
  <2>1. PICK N \in Missing : \A m \in Missing : N <= m
    <3>1. Missing \subseteq Nat
      OBVIOUS
    <3> HIDE DEF Missing
    <3> QED
      BY <3>1, NatLeast
  <2>2. CASE N = 0
    <3>1. IsReach([k \in 0 .. 0 |-> S], 0)
      OBVIOUS
    <3> HIDE DEF IsReach
    <3> QED
      BY <2>1, <2>2, <3>1
  <2>3. CASE N # 0
    <3>1. N \in Nat /\ N - 1 \in Nat /\ N - 1 \notin Missing
      <4>1. N \in Nat
        BY <2>1
      <4> HIDE DEF Missing
      <4> QED
        BY <2>1, <2>3, <4>1
    <3>2. PICK f : IsReach(f, N - 1)
      <4> HIDE DEF IsReach
      <4> QED
        BY <3>1
    <3> DEFINE g == [k \in 0 .. N |-> IF k = N THEN Deeper(f[N - 1], below) ELSE f[k]]
    <3>3. \A k \in 0 .. N : k # N => g[k] = IF k = 0 THEN S ELSE Deeper(g[k - 1], below)
      BY <3>1, <3>2
    <3>4. g[N] = Deeper(g[N - 1], below)
      BY <3>1
    <3>5. IsReach(g, N)
      BY <2>3, <3>3, <3>4
    <3> HIDE DEF IsReach
    <3> QED
      BY <2>1, <3>5
  <2> QED
    BY <2>2, <2>3
<1>2. \E f : IsReach(f, 2 * LastWhole)
  <2> HIDE DEF IsReach
  <2>1. 2 * LastWhole \in Nat
    BY DevicesAssumption
  <2> QED
    BY <1>1, <2>1
<1>3. IsReach(Levels(S, below), 2 * LastWhole)
  BY <1>2 DEF Levels, Deeper
<1> QED
  BY <1>3

\* Going deeper finds no less.
LEMMA LevelsGrow ==
  ASSUME NEW S, NEW below, NEW k \in 0 .. 2 * LastWhole, NEW m \in k .. 2 * LastWhole
  PROVE  Levels(S, below)[k] \subseteq Levels(S, below)[m]
<1> DEFINE L == Levels(S, below)
           Lost == {j \in Nat : j \in k .. 2 * LastWhole /\ ~(L[k] \subseteq L[j])}
<1>0. k \in Nat /\ m \in Nat /\ LastWhole \in Nat
  BY DevicesAssumption
<1>1. \A j \in 1 .. 2 * LastWhole : L[j - 1] \subseteq L[j]
  <2>1. \A j \in 1 .. 2 * LastWhole : L[j] = Deeper(L[j - 1], below)
    BY <1>0, LevelsUnfold
  <2> HIDE DEF L
  <2> QED
    BY <2>1 DEF Deeper
<1> HIDE DEF L
<1>2. Lost = {}
  <2> SUFFICES ASSUME Lost # {} PROVE FALSE
    OBVIOUS
  <2>1. PICK j \in Lost : \A i \in Lost : j <= i
    <3>1. Lost \subseteq Nat
      OBVIOUS
    <3> HIDE DEF Lost
    <3> QED
      BY <3>1, NatLeast
  <2>2. j \in Nat /\ k <= j /\ j <= 2 * LastWhole /\ ~(L[k] \subseteq L[j]) /\ j # k
    BY <1>0, <2>1
  <2>3. j - 1 \in k .. 2 * LastWhole /\ j - 1 \in Nat /\ j - 1 \notin Lost
    BY <1>0, <2>1, <2>2
  <2>4. L[k] \subseteq L[j - 1] /\ L[j - 1] \subseteq L[j]
    BY <1>0, <1>1, <2>2, <2>3
  <2> QED
    BY <2>2, <2>4
<1> QED
  BY <1>0, <1>2 DEF L

\* A set that holds S and what is below its own members holds all that is under S.
LEMMA UnderStaysWithin ==
  ASSUME NEW S, NEW below, NEW C, S \subseteq C, \A n \in C : below[n] \subseteq C
  PROVE  Under(S, below) \subseteq C
<1> DEFINE L == Levels(S, below)
           Out == {j \in Nat : j \in 0 .. 2 * LastWhole /\ ~(L[j] \subseteq C)}
<1>0. LastWhole \in Nat
  BY DevicesAssumption
<1>1. \A j \in 0 .. 2 * LastWhole :
        L[j] = IF j = 0 THEN S ELSE Deeper(L[j - 1], below)
  BY LevelsUnfold
<1> HIDE DEF L
<1>2. Out = {}
  <2> SUFFICES ASSUME Out # {} PROVE FALSE
    OBVIOUS
  <2>1. PICK j \in Out : \A i \in Out : j <= i
    <3>1. Out \subseteq Nat
      OBVIOUS
    <3> HIDE DEF Out
    <3> QED
      BY <3>1, NatLeast
  <2>2. j \in Nat /\ j <= 2 * LastWhole /\ ~(L[j] \subseteq C) /\ j # 0
    BY <1>0, <1>1, <2>1
  <2>3. L[j - 1] \subseteq C
    BY <1>0, <2>1, <2>2
  <2>4. L[j] = Deeper(L[j - 1], below)
    BY <1>0, <1>1, <2>2
  <2>5. Deeper(L[j - 1], below) \subseteq C
    BY <2>3 DEF Deeper
  <2> QED
    BY <2>2, <2>4, <2>5
<1>3. 2 * LastWhole \in Nat /\ 2 * LastWhole \notin Out
  BY <1>0, <1>2
<1> QED
  BY <1>0, <1>3 DEF Under, L

\* What is one level below a node that is found before the last level is under S.
LEMMA UnderGoesDown ==
  ASSUME NEW S, NEW below, NEW k \in 0 .. 2 * LastWhole - 1, NEW n \in Levels(S, below)[k]
  PROVE  below[n] \subseteq Levels(S, below)[k + 1]
<1>0. LastWhole \in Nat /\ k + 1 \in 1 .. 2 * LastWhole
  BY DevicesAssumption
<1> DEFINE L == Levels(S, below)
<1>1. \A j \in 0 .. 2 * LastWhole :
        L[j] = IF j = 0 THEN S ELSE Deeper(L[j - 1], below)
  BY LevelsUnfold
<1> HIDE DEF L
<1>2. k + 1 \in 0 .. 2 * LastWhole /\ k + 1 # 0 /\ k + 1 - 1 = k
  BY <1>0
<1>3. L[k + 1] = Deeper(L[k], below)
  BY <1>1, <1>2
<1>4. n \in L[k]
  BY DEF L
<1> QED
  BY <1>3, <1>4 DEF L, Deeper

\* What is found at a level is under S, S first.
LEMMA LevelsAreUnder ==
  ASSUME NEW S, NEW below, NEW k \in 0 .. 2 * LastWhole
  PROVE  /\ Levels(S, below)[k] \subseteq Under(S, below)
         /\ Levels(S, below)[0] = S
<1> DEFINE M == 2 * LastWhole
<1>1. M \in k .. M /\ 0 \in 0 .. M
  BY DevicesAssumption
<1>2. Levels(S, below)[0] = S
  BY <1>1, LevelsUnfold
<1>3. Levels(S, below)[k] \subseteq Levels(S, below)[M]
  BY <1>1, LevelsGrow
<1> QED
  BY <1>2, <1>3 DEF Under

\* More nodes have no less under them.
LEMMA UnderGrows ==
  ASSUME NEW S, NEW T, S \subseteq T, NEW below
  PROVE  Under(S, below) \subseteq Under(T, below)
<1> DEFINE L == Levels(S, below)
           R == Levels(T, below)
           Less == {j \in Nat : j \in 0 .. 2 * LastWhole /\ ~(L[j] \subseteq R[j])}
<1>0. LastWhole \in Nat
  BY DevicesAssumption
<1>1. \A j \in 0 .. 2 * LastWhole :
        /\ L[j] = IF j = 0 THEN S ELSE Deeper(L[j - 1], below)
        /\ R[j] = IF j = 0 THEN T ELSE Deeper(R[j - 1], below)
  BY LevelsUnfold
<1> HIDE DEF L, R
<1>2. Less = {}
  <2> SUFFICES ASSUME Less # {} PROVE FALSE
    OBVIOUS
  <2>1. PICK j \in Less : \A i \in Less : j <= i
    <3>1. Less \subseteq Nat
      OBVIOUS
    <3> HIDE DEF Less
    <3> QED
      BY <3>1, NatLeast
  <2>2. j \in Nat /\ j <= 2 * LastWhole /\ ~(L[j] \subseteq R[j])
    BY <2>1
  <2>3. j # 0
    BY <1>0, <1>1, <2>2
  <2>4. L[j - 1] \subseteq R[j - 1]
    BY <1>0, <2>3, <2>1, <2>2
  <2>5. L[j] = Deeper(L[j - 1], below) /\ R[j] = Deeper(R[j - 1], below)
    BY <1>0, <1>1, <2>3, <2>2
  <2> QED
    BY <2>2, <2>4, <2>5 DEF Deeper
<1>3. 2 * LastWhole \in Nat /\ 2 * LastWhole \notin Less
  BY <1>0, <1>2
<1> QED
  BY <1>0, <1>3 DEF Under, L, R

-----------------------------------------------------------------------------
(* The number of the disk written.                                          *)

\* A name holds nothing, or a unit with its number.
DevsTyped == devs \in [Disks -> [unit : Nat, number : Nat]]

\* Until a disk is selected each name holds the unit it is classified for.
NothingPluggedYet ==
  pc \in {"resolve", "collect"} =>
    /\ result = "none"
    /\ \A d \in Disks : devs[d].unit = d /\ devs[d].number = d

\* What is selected is a whole disk, the pin if there is one, and is recorded
\* with the number it had.
SelectionFits ==
  pc = "open" =>
    /\ result = "none"
    /\ target.kname \in Disks
    /\ target.number = IF attr[target.kname].numbered THEN target.kname ELSE 0
    /\ pin # NoPin => target.kname = pin

IInv == DevsTyped /\ NothingPluggedYet /\ SelectionFits /\ WrittenHasSelectedNumber

\* The invariant holds when select begins.
LEMMA InitFits == Init => IInv
  BY DevicesAssumption DEF Init, IInv, Disks, DevsTyped, NothingPluggedYet,
     SelectionFits, WrittenHasSelectedNumber

\* It is kept by every step: only Select chooses a disk, only OpenTarget opens
\* one, and nothing is plugged in before or after.
LEMMA StepKeeps == IInv /\ [Next]_vars => IInv'
<1> SUFFICES ASSUME IInv, [Next]_vars PROVE IInv'
  OBVIOUS
<1> USE DevicesAssumption DEF IInv, Disks, host, walk, DevsTyped,
        NothingPluggedYet, SelectionFits, WrittenHasSelectedNumber
<1>1. CASE ResolvePin
  BY <1>1 DEF ResolvePin, End
<1>2. CASE NextSource
  BY <1>2 DEF NextSource
<1>3. CASE CollectPhysical
  BY <1>3 DEF CollectPhysical
<1>4. CASE Select
  <2>1. UNCHANGED <<attr, devs, pin>> /\ pc = "collect" /\ result = "none"
    BY <1>4 DEF Select
  <2>2. \/ \E d \in Disks : Take(d) /\ (pin # NoPin => d = pin)
        \/ \E r \in {"PinIneligible", "PinNotWholeDisk", "PinNotBlockDevice",
                     "NoEligibleDisk"} : Refuse(r)
    BY <1>4 DEF Select, AutoSelect, UsePin, Eligible
  <2>3. ASSUME NEW d \in Disks, Take(d), pin # NoPin => d = pin PROVE IInv'
    <3>1. /\ target' = [kname |-> d, number |-> IF attr[d].numbered THEN d ELSE 0]
          /\ pc' = "open" /\ result' = "none"
      BY <2>1, <2>3 DEF Take
    <3> QED
      BY <2>1, <2>3, <3>1
  <2>4. ASSUME NEW r \in {"PinIneligible", "PinNotWholeDisk", "PinNotBlockDevice",
                          "NoEligibleDisk"}, Refuse(r)
        PROVE IInv'
    BY <2>1, <2>4 DEF Refuse, End
  <2> QED
    BY <2>2, <2>3, <2>4
<1>5. CASE OpenTarget
  BY <1>5 DEF OpenTarget, End
<1>6. ASSUME NEW d \in Disks, Unplug(d) PROVE IInv'
  BY <1>6 DEF Unplug, NoDisk
<1>7. ASSUME NEW d \in Disks, NEW u \in 1 .. LastUnit, NEW n \in 1 .. LastUnit, Plug(d, u, n)
      PROVE IInv'
  BY <1>7 DEF Plug
<1>8. CASE UNCHANGED vars
  BY <1>8 DEF vars
<1> QED
  BY <1>1, <1>2, <1>3, <1>4, <1>5, <1>6, <1>7, <1>8 DEF Next

\* The invariant holds in every reachable state.
THEOREM Inductive == Spec => []IInv
  BY InitFits, StepKeeps, PTL DEF Spec

\* A pin that cannot be used never leads to another disk (select_core), on any
\* host.
THEOREM PinsAreExact == Spec => []PinOrNothing
<1>1. IInv => PinOrNothing
  BY DEF IInv, PinOrNothing, SelectionFits
<1> QED
  BY <1>1, Inductive, PTL

\* Whatever is plugged, unplugged or renamed between selection and the open, the disk
\* that verify_node_identity lets pass has the number that was read of the one that
\* was classified.
THEOREM OpensTheNumbered == Spec => []WrittenHasSelectedNumber
<1>1. IInv => WrittenHasSelectedNumber
  BY DEF IInv
<1> QED
  BY <1>1, Inductive, PTL

-----------------------------------------------------------------------------
(* Sequences of calls.                                                      *)

\* The elements of two sequences one after the other, and of what Tail leaves.
LEMMA JoinedElements ==
  ASSUME NEW X, NEW u \in Seq(X), NEW v \in Seq(X)
  PROVE  u \o v \in Seq(X) /\ ToSet(u \o v) = ToSet(u) \cup ToSet(v)
<1>1. /\ u \o v \in Seq(X) /\ Len(u \o v) = Len(u) + Len(v)
      /\ Len(u) \in Nat /\ Len(v) \in Nat
      /\ \A i \in 1 .. Len(u) : (u \o v)[i] = u[i]
      /\ \A i \in 1 .. Len(v) : (u \o v)[Len(u) + i] = v[i]
  OBVIOUS
<1>2. /\ DOMAIN u = 1 .. Len(u) /\ DOMAIN v = 1 .. Len(v)
      /\ DOMAIN (u \o v) = 1 .. Len(u \o v)
  BY <1>1
<1> DEFINE w == u \o v
<1> HIDE DEF w
<1>3. ASSUME NEW x \in ToSet(w) PROVE x \in ToSet(u) \cup ToSet(v)
  <2>1. PICK i \in 1 .. (Len(u) + Len(v)) : x = w[i]
    BY <1>1, <1>2 DEF ToSet, w
  <2>2. CASE i <= Len(u)
    BY <1>1, <1>2, <2>1, <2>2 DEF ToSet, w
  <2>3. CASE ~(i <= Len(u))
    <3>1. i - Len(u) \in 1 .. Len(v) /\ Len(u) + (i - Len(u)) = i
      BY <1>1, <2>3
    <3>2. x = v[i - Len(u)]
      BY <1>1, <2>1, <3>1 DEF w
    <3> QED
      BY <1>2, <3>1, <3>2 DEF ToSet
  <2> QED
    BY <2>2, <2>3
<1>4. ToSet(u) \subseteq ToSet(w)
  BY <1>1, <1>2 DEF ToSet, w
<1>5. ToSet(v) \subseteq ToSet(w)
  <2> SUFFICES ASSUME NEW i \in 1 .. Len(v) PROVE v[i] \in ToSet(w)
    BY <1>2 DEF ToSet
  <2>1. Len(u) + i \in 1 .. Len(w) /\ w[Len(u) + i] = v[i]
    BY <1>1 DEF w
  <2> QED
    BY <1>2, <2>1 DEF ToSet, w
<1> QED
  BY <1>1, <1>3, <1>4, <1>5 DEF w

LEMMA TailElements ==
  ASSUME NEW X, NEW s \in Seq(X), s # <<>>
  PROVE  /\ Head(s) \in X /\ Tail(s) \in Seq(X)
         /\ ToSet(s) = {Head(s)} \cup ToSet(Tail(s))
<1>1. /\ Head(s) = s[1] /\ Head(s) \in X /\ Tail(s) \in Seq(X)
      /\ Len(s) \in Nat /\ Len(s) >= 1 /\ Len(Tail(s)) = Len(s) - 1
      /\ \A i \in 1 .. (Len(s) - 1) : Tail(s)[i] = s[i + 1]
      /\ DOMAIN s = 1 .. Len(s) /\ DOMAIN Tail(s) = 1 .. (Len(s) - 1)
  OBVIOUS
<1> DEFINE t == Tail(s)
           h == Head(s)
<1> HIDE DEF t, h
<1>2. ASSUME NEW i \in 1 .. Len(s) PROVE s[i] \in {h} \cup ToSet(t)
  <2>1. CASE i = 1
    BY <1>1, <2>1 DEF h
  <2>2. CASE i # 1
    <3>1. i - 1 \in 1 .. (Len(s) - 1) /\ t[i - 1] = s[i]
      BY <1>1, <2>2 DEF t
    <3> QED
      BY <1>1, <3>1 DEF ToSet, t
  <2> QED
    BY <2>1, <2>2
<1>3. ASSUME NEW i \in 1 .. (Len(s) - 1) PROVE t[i] \in ToSet(s)
  BY <1>1 DEF ToSet, t
<1>4. h \in ToSet(s)
  BY <1>1 DEF ToSet, h
<1> QED
  BY <1>1, <1>2, <1>3, <1>4 DEF ToSet, t, h

LEMMA WiderElements ==
  ASSUME NEW X, NEW Y, X \subseteq Y, NEW s \in Seq(X)
  PROVE  s \in Seq(Y)
<1>1. Len(s) \in Nat /\ s = [i \in 1 .. Len(s) |-> s[i]] /\ \A i \in 1 .. Len(s) : s[i] \in X
  OBVIOUS
<1>2. \A i \in 1 .. Len(s) : s[i] \in Y
  BY <1>1
<1> QED
  BY <1>1, <1>2

\* The nodes that calls of one depth are for.
LEMMA LeavesOfCalls ==
  ASSUME NEW S, NEW d
  PROVE  {call.leaf : call \in [leaf : S, depth : {d}]} = S
<1>1. ASSUME NEW n \in S PROVE \E call \in [leaf : S, depth : {d}] : call.leaf = n
  <2> WITNESS [leaf |-> n, depth |-> d] \in [leaf : S, depth : {d}]
  <2> QED
    OBVIOUS
<1> QED
  BY <1>1

\* The calls for the slaves of w: one for each slave, whatever the order.
LEMMA CallsCoverSlaves ==
  ASSUME NEW w, NEW d, NEW calls \in CallsFor(w, d), Slaves(w) \subseteq Nodes
  PROVE  /\ calls \in Seq([leaf : Slaves(w), depth : {d}])
         /\ ToSet(calls) = [leaf : Slaves(w), depth : {d}]
<1> DEFINE S == Slaves(w)
           c == Cardinality(S)
<1>1. PICK order \in SetToSeqs(S) :
        calls = [i \in DOMAIN order |-> [leaf |-> order[i], depth |-> d]]
  BY DEF CallsFor
<1>2. IsFiniteSet(S)
  <2>1. IsFiniteSet(Nodes)
    BY FS_Interval, DevicesAssumption DEF Nodes
  <2> QED
    BY <2>1, FS_Subset
<1>3. c \in Nat /\ IsFiniteSet(1 .. c) /\ Cardinality(1 .. c) = c
  <2>1. c \in Nat
    BY <1>2, FS_CardinalityType
  <2> HIDE DEF c
  <2> QED
    BY <2>1, FS_Interval
<1>4. order \in [1 .. c -> S] /\ IsInjective(order)
  BY <1>1 DEF SetToSeqs, IsInjective
<1> HIDE DEF S
<1>5. order \in Injection(1 .. c, S)
  BY <1>4 DEF Injection
<1>6. order \in Surjection(1 .. c, S)
  BY <1>2, <1>3, <1>5, FS_Injection
<1>7. \A x \in S : \E i \in 1 .. c : order[i] = x
  BY <1>6 DEF Surjection
<1> HIDE DEF c
<1>8. calls = [i \in 1 .. c |-> [leaf |-> order[i], depth |-> d]]
  BY <1>1, <1>4
<1>9. calls \in Seq([leaf : S, depth : {d}]) /\ DOMAIN calls = 1 .. c
  BY <1>3, <1>4, <1>8
<1>10. ASSUME NEW f \in [leaf : S, depth : {d}] PROVE f \in ToSet(calls)
  <2>1. PICK i \in 1 .. c : order[i] = f.leaf
    BY <1>7
  <2>2. calls[i] = f
    BY <1>8, <2>1
  <2> QED
    BY <1>9, <2>2 DEF ToSet
<1>11. ToSet(calls) \subseteq [leaf : S, depth : {d}]
  BY <1>4, <1>8, <1>9 DEF ToSet
<1> QED
  BY <1>9, <1>10, <1>11 DEF S

-----------------------------------------------------------------------------
(* Type correctness, and the disks of the running system.                   *)

\* Nothing is opened before the end, and then no disk the kernel holds.
OpenFits ==
  /\ pc # "end" => result = "none"
  /\ pc = "open" => target.kname \in Disks
  /\ result = "opened" => devs[target.kname].unit \notin Claimed

TypeInv == TypeOK /\ OpenFits

\* The nodes of the host, as they are when select begins.
LEMMA NodesFit ==
  /\ Disks \subseteq Wholes /\ Wholes \subseteq Nodes /\ Partitions \subseteq Nodes
  /\ Wholes \cap Partitions = {} /\ Alias \in Nodes /\ Alias \notin Wholes \cup Partitions
  /\ Aggregates \subseteq Wholes /\ \A w \in Partitions : -w \in Wholes
  /\ \A n \in Nodes : n \in Wholes \/ n \in Partitions \/ n = Alias
BY DevicesAssumption DEF Disks, Wholes, Nodes, Partitions, Alias, Aggregates

LEMMA SlavesAreNodes ==
  ASSUME layout \in Layouts
  PROVE  \A n : Slaves(n) \subseteq Nodes
BY LayoutsAssumption DEF Slaves

\* What the host is does not change.
LEMMA HostStays ==
  ASSUME [Next]_vars
  PROVE  /\ UNCHANGED <<attr, layout, mounted, root, pin>>
         /\ Claimed' = Claimed /\ Followed' = Followed
<1>1. UNCHANGED <<attr, layout, mounted, root, pin>>
  BY DEF Next, vars, host, ResolvePin, NextSource, CollectPhysical, Select, OpenTarget,
     Unplug, Plug
<1>2. Below' = Below /\ BelowFollowed' = BelowFollowed
  BY <1>1 DEF Below, BelowFollowed, Slaves
<1> QED
  BY <1>1, <1>2 DEF Claimed, Followed

LEMMA TypeInvInit ==
  ASSUME Init
  PROVE  TypeInv
<1>1. /\ attr \in [Disks -> Attributes] /\ layout \in Layouts /\ mounted \in Mounts
      /\ pin \in Pins /\ pc = "resolve" /\ result = "none"
      /\ left = {} /\ stack = <<>> /\ visited = {} /\ own = {}
  BY DEF Init
<1>2. root \in Nodes
  BY NodesFit DEF Init
<1>3. devs \in [Disks -> [unit : 0 .. LastUnit, number : 0 .. LastUnit]]
  BY DevicesAssumption DEF Init, Disks
<1>4. target \in [kname : Disks \cup {0}, number : 0 .. LastUnit]
  BY DevicesAssumption DEF Init
<1> QED
  BY <1>1, <1>2, <1>3, <1>4 DEF TypeInv, TypeOK, OpenFits

\* A call of collect_physical leaves calls for nodes.
LEMMA CollectKeepsType ==
  ASSUME TypeInv, CollectPhysical
  PROVE  TypeInv'
<1> DEFINE Call == [leaf : Nodes, depth : 0 .. MaxDepth]
           leaf == Head(stack).leaf
           depth == Head(stack).depth
<1>1. /\ pc = "collect" /\ stack # <<>> /\ stack \in Seq(Call) /\ result = "none"
      /\ visited \subseteq Nodes /\ own \subseteq Nodes \ Partitions /\ layout \in Layouts
      /\ UNCHANGED <<attr, layout, mounted, root, pin, devs, pc, left, target, result>>
  BY DEF CollectPhysical, TypeInv, TypeOK, OpenFits, host
<1>2. Head(stack) \in Call /\ Tail(stack) \in Seq(Call)
  BY <1>1, TailElements
<1>3. leaf \in Nodes /\ depth \in 0 .. MaxDepth
  BY <1>2
<1> HIDE DEF Call
<1>4. visited' \subseteq Nodes
  BY <1>1, <1>3 DEF CollectPhysical
<1>5. own' \subseteq Nodes \ Partitions
  <2>1. Physical(leaf) \in Nodes \ Partitions
    BY <1>3, NodesFit DEF Physical
  <2> QED
    BY <1>1, <2>1 DEF CollectPhysical
<1>6. stack' \in Seq(Call)
  <2>1. CASE stack' = Tail(stack)
    BY <1>2, <2>1
  <2>2. ASSUME depth > 0, NEW calls \in CallsFor(leaf, depth - 1),
               stack' = calls \o Tail(stack)
        PROVE  stack' \in Seq(Call)
    <3>1. depth - 1 \in 0 .. MaxDepth
      BY <1>3, <2>2, BoundsAssumption
    <3>2. calls \in Seq([leaf : Slaves(leaf), depth : {depth - 1}])
      BY <1>1, CallsCoverSlaves, SlavesAreNodes
    <3>3. [leaf : Slaves(leaf), depth : {depth - 1}] \subseteq Call
      BY <1>1, <3>1, SlavesAreNodes DEF Call
    <3>4. calls \in Seq(Call)
      BY <3>2, <3>3, WiderElements
    <3> QED
      BY <1>2, <2>2, <3>4, JoinedElements
  <2> QED
    BY <2>1, <2>2 DEF CollectPhysical
<1> QED
  BY <1>1, <1>4, <1>5, <1>6 DEF TypeInv, TypeOK, OpenFits, Call

\* A disk is selected with the number it has, or none is.
LEMMA SelectKeepsType ==
  ASSUME TypeInv, Select
  PROVE  TypeInv'
<1>1. /\ UNCHANGED <<attr, layout, mounted, root, pin, devs, left, stack, visited, own>>
      /\ pc = "collect" /\ result = "none"
  BY DEF Select, TypeInv, OpenFits, host, walk
<1>2. \/ \E d \in Disks : Take(d)
      \/ \E r \in {"PinIneligible", "PinNotWholeDisk", "PinNotBlockDevice",
                   "NoEligibleDisk"} : Refuse(r)
  BY DEF Select, AutoSelect, UsePin, Eligible
<1>3. ASSUME NEW d \in Disks, Take(d) PROVE TypeInv'
  <2>1. devs[d].number \in 0 .. LastUnit
    BY DEF TypeInv, TypeOK
  <2>2. target' \in [kname : Disks \cup {0}, number : 0 .. LastUnit] /\ target'.kname = d
    BY <1>3, <2>1, DevicesAssumption DEF Take
  <2>3. pc' = "open" /\ result' = "none"
    BY <1>1, <1>3 DEF Take
  <2> QED
    BY <1>1, <2>2, <2>3 DEF TypeInv, TypeOK, OpenFits
<1>4. ASSUME NEW r \in {"PinIneligible", "PinNotWholeDisk", "PinNotBlockDevice",
                        "NoEligibleDisk"}, Refuse(r)
      PROVE  TypeInv'
  BY <1>1, <1>4 DEF Refuse, End, TypeInv, TypeOK, OpenFits
<1> QED
  BY <1>2, <1>3, <1>4

\* Every step keeps the types; what is opened is not held by the kernel.
LEMMA TypeInvKept == TypeInv /\ [Next]_vars => TypeInv'
<1> SUFFICES ASSUME TypeInv, [Next]_vars PROVE TypeInv'
  OBVIOUS
<1>0. UNCHANGED <<attr, layout, mounted, root, pin>> /\ Claimed' = Claimed
  BY HostStays
<1>1. CASE ResolvePin
  BY <1>0, <1>1 DEF ResolvePin, End, TypeInv, TypeOK, OpenFits
<1>2. CASE NextSource
  <2>1. PICK n \in left : stack' = <<[leaf |-> n, depth |-> MaxDepth]>> /\ left' = left \ {n}
    BY <1>2 DEF NextSource
  <2>2. [leaf |-> n, depth |-> MaxDepth] \in [leaf : Nodes, depth : 0 .. MaxDepth]
    BY SourcesAssumption, BoundsAssumption DEF TypeInv, TypeOK
  <2>3. stack' \in Seq([leaf : Nodes, depth : 0 .. MaxDepth])
    BY <2>1, <2>2
  <2> QED
    BY <1>0, <1>2, <2>1, <2>3 DEF NextSource, TypeInv, TypeOK, OpenFits
<1>3. CASE CollectPhysical
  BY <1>3, CollectKeepsType
<1>4. CASE Select
  BY <1>4, SelectKeepsType
<1>5. CASE OpenTarget
  <2>1. UNCHANGED <<devs, left, stack, visited, own, target>> /\ pc' = "end"
    BY <1>5 DEF OpenTarget, End, walk
  <2>2. result' \in {"opened", "refused", "OpenTarget"}
    BY <1>5 DEF OpenTarget, End
  <2>3. result' = "opened" => devs[target.kname].unit \notin Claimed
    BY <1>5 DEF OpenTarget, End
  <2> QED
    BY <1>0, <2>1, <2>2, <2>3 DEF TypeInv, TypeOK, OpenFits
<1>6. ASSUME NEW d \in Disks, Unplug(d) PROVE TypeInv'
  <2>1. /\ UNCHANGED <<pc, left, stack, visited, own, target, result>>
        /\ pc = "open" /\ devs' = [devs EXCEPT ![d] = NoDisk]
    BY <1>6 DEF Unplug, walk
  <2>2. NoDisk \in [unit : 0 .. LastUnit, number : 0 .. LastUnit]
    BY DevicesAssumption DEF NoDisk
  <2>3. devs' \in [Disks -> [unit : 0 .. LastUnit, number : 0 .. LastUnit]]
    BY <2>1, <2>2 DEF TypeInv, TypeOK
  <2> QED
    BY <1>0, <2>1, <2>3 DEF TypeInv, TypeOK, OpenFits
<1>7. ASSUME NEW d \in Disks, NEW u \in 1 .. LastUnit, NEW n \in 1 .. LastUnit, Plug(d, u, n)
      PROVE  TypeInv'
  <2>1. /\ UNCHANGED <<pc, left, stack, visited, own, target, result>>
        /\ pc = "open" /\ devs' = [devs EXCEPT ![d] = [unit |-> u, number |-> n]]
    BY <1>7 DEF Plug, walk
  <2>2. [unit |-> u, number |-> n] \in [unit : 0 .. LastUnit, number : 0 .. LastUnit]
    BY DevicesAssumption
  <2>3. devs' \in [Disks -> [unit : 0 .. LastUnit, number : 0 .. LastUnit]]
    BY <2>1, <2>2 DEF TypeInv, TypeOK
  <2> QED
    BY <1>0, <2>1, <2>3 DEF TypeInv, TypeOK, OpenFits
<1>8. CASE UNCHANGED vars
  BY <1>0, <1>8 DEF vars, walk, TypeInv, TypeOK, OpenFits
<1> QED
  BY <1>1, <1>2, <1>3, <1>4, <1>5, <1>6, <1>7, <1>8 DEF Next

\* The types and what may be opened hold in every reachable state.
THEOREM TypeInductive == Spec => []TypeInv
  BY TypeInvInit, TypeInvKept, PTL DEF Spec

\* Every variable has its type in every reachable state, whatever the layout of
\* the host.
THEOREM TargetTypeCorrect == Spec => []TypeOK
<1>1. TypeInv => TypeOK
  BY DEF TypeInv
<1> QED
  BY <1>1, TypeInductive, PTL

\* What write_image opens is never a disk the running system lies on, not even
\* behind a layout that the walk through slaves/ does not follow: the kernel
\* refuses the exclusive open of all of them.
THEOREM OwnDisksAreSpared == Spec => []WrittenSparesOwn
<1>1. Backing \subseteq Claimed
  <2>1. mounted \subseteq mounted \cup Aggregates
    OBVIOUS
  <2> QED
    BY <2>1, UnderGrows DEF Backing, Claimed
<1>2. TypeInv => WrittenSparesOwn
  BY <1>1 DEF TypeInv, OpenFits, WrittenSparesOwn
<1> QED
  BY <1>2, TypeInductive, PTL

-----------------------------------------------------------------------------
(* Selection is exact.  The walk finds what is followed below the sources:  *)
(* no more, as each call is for a node below one, and no less, as each node *)
(* it leaves behind has its slaves behind it too, or calls for them.        *)

\* Everything followed below a mount or a swap area.
Reached == Under(mounted, BelowFollowed)

\* How many aggregates there can be from n down: each is made of earlier ones.
Height(n) == IF n \in Aggregates THEN n - LastDisk ELSE 0

\* The nodes that calls are waiting for.
Waiting == {call.leaf : call \in ToSet(stack)}

\* Every call is for a node below a source, with enough depth for what is below
\* it, and only disks below a source were added.
WalkIsSound ==
  /\ pc = "collect" => \A call \in ToSet(stack) : /\ call.leaf \in Reached
                                                  /\ Height(call.leaf) < call.depth
  /\ own \cap Disks \subseteq Reached

\* The nodes of C are done: a call waits for each of their slaves that is not,
\* and those that have no slaves were added.
AreDone(C) ==
  /\ visited \subseteq C /\ mounted \ left \subseteq C \cup Waiting
  /\ \A n \in C : /\ Slaves(n) \subseteq C \cup Waiting
                  /\ Slaves(n) = {} => Physical(n) \in own

WalkIsComplete ==
  /\ pc = "resolve" => stack = <<>> /\ visited = {} /\ own = {}
  /\ pc = "collect" => \E C \in SUBSET Nodes : AreDone(C)

WalkInv ==
  /\ WalkIsSound /\ WalkIsComplete
  /\ pc # "collect" => SelectionIsExact

\* What each node of the code's walk leads to.
LEMMA FollowedBelow ==
  ASSUME layout \in Layouts, NEW n \in Nodes
  PROVE  /\ n \in Partitions => BelowFollowed[n] = {-n} \cap Disks
         /\ n \in Aggregates => BelowFollowed[n] = Slaves(n)
         /\ n \notin Partitions \cup Aggregates => BelowFollowed[n] = {}
         /\ n \notin Aggregates => Slaves(n) = {}
         /\ BelowFollowed[n] \subseteq Nodes
<1>1. n \in Partitions => n # Alias /\ n \notin Aggregates
  BY NodesFit
<1>2. n \in Aggregates => n # Alias
  BY NodesFit
<1>3. Disks \subseteq Nodes /\ Slaves(n) \subseteq Nodes
  BY NodesFit, SlavesAreNodes
<1> QED
  BY <1>1, <1>2, <1>3 DEF BelowFollowed, Slaves

\* Where each level weighs less than the one above, as many levels as there are weigh
\* all that is below S.
LEMMA UnderIsClosed ==
  ASSUME NEW S, S \subseteq Nodes, NEW below, \A n \in Nodes : below[n] \subseteq Nodes,
         NEW weight \in [Nodes -> 0 .. 2 * LastWhole],
         \A n \in Nodes : \A m \in below[n] : m = n \/ weight[m] < weight[n]
  PROVE  /\ S \subseteq Under(S, below) /\ Under(S, below) \subseteq Nodes
         /\ \A n \in Under(S, below) : below[n] \subseteq Under(S, below)
<1> DEFINE M == 2 * LastWhole
           L == Levels(S, below)
           U == Under(S, below)
           C == {n \in Nodes : \E k \in 0 .. M : n \in L[k] /\ k + weight[n] <= M}
<1>0. M \in Nat
  BY DevicesAssumption
<1>1. L[0] = S /\ \A k \in 0 .. M : L[k] \subseteq U
  BY <1>0, LevelsAreUnder
<1>2. \A k \in 0 .. M - 1 : \A n \in L[k] : below[n] \subseteq L[k + 1]
  BY UnderGoesDown
<1>3. \A n \in Nodes : weight[n] \in 0 .. M
  OBVIOUS
<1> HIDE DEF L, M
<1>4. S \subseteq C
  BY <1>0, <1>1, <1>3
<1>5. \A n \in C : below[n] \subseteq C \cap U
  <2> SUFFICES ASSUME NEW n \in C, NEW m \in below[n], m # n
               PROVE  m \in C /\ m \in U
    BY <1>1
  <2>1. PICK k \in 0 .. M : n \in L[k] /\ k + weight[n] <= M
    OBVIOUS
  <2>2. n \in Nodes /\ m \in Nodes /\ weight[m] < weight[n]
    OBVIOUS
  <2>3. weight[m] \in Nat /\ weight[n] \in Nat
    BY <1>0, <1>3, <2>2
  <2>4. k \in 0 .. M - 1 /\ k + 1 \in 0 .. M /\ k + 1 + weight[m] <= M
    BY <1>0, <2>1, <2>2, <2>3
  <2>5. m \in L[k + 1]
    BY <1>2, <2>1, <2>4
  <2> QED
    BY <1>1, <2>2, <2>4, <2>5
<1> HIDE DEF C
<1>6. U \subseteq C
  BY <1>4, <1>5, UnderStaysWithin
<1>7. S \subseteq U /\ C \subseteq Nodes
  BY <1>0, <1>1 DEF C
<1> QED
  BY <1>5, <1>6, <1>7

\* How far down a node can lead: a partition to its whole device, an aggregate to its
\* members, an alias to any of them.
Weight == [n \in Nodes |-> IF n > 0 THEN 2 * n - 2
                           ELSE IF n < 0 THEN 2 * (-n) - 1 ELSE 2 * LastWhole]

LEMMA WeightFits ==
  ASSUME layout \in Layouts
  PROVE  /\ Weight \in [Nodes -> 0 .. 2 * LastWhole]
         /\ \A n \in Partitions : -n \in Nodes /\ Weight[-n] < Weight[n]
         /\ \A n : \A m \in Slaves(n) : n \in Nodes /\ m \in Nodes /\ Weight[m] < Weight[n]
         /\ \A n \in Wholes \cup Partitions : Weight[n] < Weight[Alias]
<1>1. LastWhole \in Nat /\ LastDisk \in Nat
  BY DevicesAssumption
<1>2. Weight \in [Nodes -> 0 .. 2 * LastWhole]
  BY <1>1 DEF Weight, Nodes
<1>3. ASSUME NEW n \in Partitions PROVE -n \in Nodes /\ Weight[-n] < Weight[n]
  BY <1>1 DEF Weight, Nodes, Partitions, Wholes
<1>4. ASSUME NEW n, NEW m \in Slaves(n)
      PROVE  n \in Nodes /\ m \in Nodes /\ Weight[m] < Weight[n]
  <2>1. n \in Aggregates /\ m \in layout[n]
    BY DEF Slaves
  <2>2. m # Alias /\ m \in (1 - n) .. (n - 1) /\ n \in 1 .. LastWhole
    BY <2>1, LayoutsAssumption DEF Aggregates, Wholes
  <2> QED
    BY <1>1, <2>2 DEF Weight, Nodes, Alias
<1>5. ASSUME NEW n \in Wholes \cup Partitions PROVE Weight[n] < Weight[Alias]
  BY <1>1 DEF Weight, Nodes, Partitions, Wholes, Alias
<1> QED
  BY <1>2, <1>3, <1>4, <1>5

\* All that is below a node reached is reached.
LEMMA ReachedIsClosed ==
  ASSUME layout \in Layouts, mounted \subseteq Nodes
  PROVE  /\ mounted \subseteq Reached /\ Reached \subseteq Nodes
         /\ \A n \in Reached : BelowFollowed[n] \subseteq Reached
<1>1. \A n \in Nodes : BelowFollowed[n] \subseteq Nodes
  BY FollowedBelow
<1>2. \A n \in Nodes : \A m \in BelowFollowed[n] : m = n \/ Weight[m] < Weight[n]
  BY FollowedBelow, WeightFits
<1>3. Weight \in [Nodes -> 0 .. 2 * LastWhole]
  BY WeightFits
<1> QED
  BY <1>1, <1>2, <1>3, UnderIsClosed DEF Reached

\* When no call waits and no source is left, the walk has found what it should.
LEMMA WalkEnds ==
  ASSUME TypeOK, WalkInv, pc = "collect", left = {}, stack = <<>>
  PROVE  own \cap Disks = Followed
<1>1. Waiting = {}
  BY DEF Waiting, ToSet
<1>2. PICK C \in SUBSET Nodes : AreDone(C)
  BY DEF WalkInv, WalkIsComplete
<1>3. /\ layout \in Layouts /\ mounted \subseteq C /\ own \subseteq Nodes \ Partitions
      /\ \A n \in C : Slaves(n) \subseteq C /\ (Slaves(n) = {} => Physical(n) \in own)
  BY <1>1, <1>2 DEF AreDone, TypeOK
<1> DEFINE D == C \cup (own \cap Disks)
<1>4. ASSUME NEW n \in D PROVE BelowFollowed[n] \subseteq D
  <2>1. n \in Nodes
    BY <1>3
  <2>2. CASE n \in Partitions
    <3>1. n \in C /\ n \notin Aggregates
      BY <1>3, <2>2, NodesFit
    <3>2. -n \in own
      BY <1>3, <2>1, <2>2, <3>1, FollowedBelow DEF Physical
    <3> QED
      BY <1>3, <2>1, <2>2, <3>2, FollowedBelow
  <2>3. CASE n \in Aggregates
    <3>1. n \in C
      BY <2>3 DEF Aggregates
    <3> QED
      BY <1>3, <2>1, <2>3, <3>1, FollowedBelow
  <2> QED
    BY <1>3, <2>1, <2>2, <2>3, FollowedBelow
<1>5. Reached \subseteq D
  BY <1>3, <1>4, UnderStaysWithin DEF Reached
<1>6. ASSUME NEW d \in Disks, d \in C PROVE d \in own
  <2>1. d \in Nodes /\ d \notin Aggregates /\ d \notin Partitions
    BY NodesFit DEF Aggregates
  <2> QED
    BY <1>3, <1>6, <2>1, FollowedBelow DEF Physical
<1>7. Followed = Disks \cap Reached
  BY DEF Followed, Reached
<1> QED
  BY <1>5, <1>6, <1>7 DEF WalkInv, WalkIsSound

LEMMA WalkInvInit ==
  ASSUME Init
  PROVE  WalkInv
<1>1. pc = "resolve" /\ stack = <<>> /\ visited = {} /\ own = {} /\ result = "none"
  BY DEF Init
<1> QED
  BY <1>1 DEF WalkInv, WalkIsSound, WalkIsComplete, SelectionIsExact

\* A call keeps the walk sound and complete, if it has depth for the aggregates
\* there are.
LEMMA CollectKeepsWalk ==
  ASSUME LastWhole - LastDisk < MaxDepth, TypeInv, WalkInv, CollectPhysical,
         Reached' = Reached, \A n : Slaves(n)' = Slaves(n)
  PROVE  WalkIsSound' /\ WalkIsComplete'
<1> DEFINE Call == [leaf : Nodes, depth : 0 .. MaxDepth]
           leaf == Head(stack).leaf
           depth == Head(stack).depth
           Rest == ToSet(Tail(stack))
           New(d) == [leaf : Slaves(leaf), depth : {d}]
<1>0. /\ pc = "collect" /\ pc' = "collect" /\ stack # <<>> /\ stack \in Seq(Call)
      /\ UNCHANGED <<mounted, left>> /\ mounted \subseteq Nodes /\ layout \in Layouts
  BY SourcesAssumption DEF CollectPhysical, host, TypeInv, TypeOK
<1>1. /\ Head(stack) \in Call /\ Tail(stack) \in Seq(Call)
      /\ ToSet(stack) = {Head(stack)} \cup Rest
  BY <1>0, TailElements
<1>2. leaf \in Nodes /\ depth \in 0 .. MaxDepth /\ leaf \in Reached /\ Height(leaf) < depth
  BY <1>0, <1>1 DEF WalkInv, WalkIsSound
<1>3. /\ Height(leaf) \in Nat /\ depth > 0
  <2>1. Height(leaf) \in Nat
    BY DevicesAssumption DEF Height, Aggregates, Wholes, Disks
  <2> QED
    BY <1>2, <2>1
<1>4. \A call \in Rest : call.leaf \in Reached /\ Height(call.leaf) < call.depth
  BY <1>0, <1>1 DEF WalkInv, WalkIsSound
<1>5. PICK C \in SUBSET Nodes : AreDone(C)
  BY <1>0 DEF WalkInv, WalkIsComplete
<1>6. Waiting = {leaf} \cup {call.leaf : call \in Rest}
  BY <1>1 DEF Waiting
<1>7. \A n \in Reached : BelowFollowed[n] \subseteq Reached
  BY <1>0, ReachedIsClosed
<1> HIDE DEF Call
<1>8. CASE leaf \in visited /\ stack' = Tail(stack) /\ UNCHANGED <<visited, own>>
  <2>1. WalkIsSound'
    BY <1>0, <1>4, <1>8 DEF WalkInv, WalkIsSound, Height
  <2>2. leaf \in C /\ Waiting \subseteq Waiting' \cup {leaf}
    BY <1>5, <1>6, <1>8 DEF AreDone, Waiting
  <2>3. AreDone(C)'
    BY <1>0, <1>5, <1>8, <2>2 DEF AreDone, Physical
  <2> QED
    BY <1>0, <1>5, <2>1, <2>3 DEF WalkIsComplete
<1>9. ASSUME Slaves(leaf) # {}, NEW calls \in CallsFor(leaf, depth - 1),
             stack' = calls \o Tail(stack), visited' = visited \cup {leaf}, own' = own
      PROVE  WalkIsSound' /\ WalkIsComplete'
  <2>1. leaf \in Aggregates /\ BelowFollowed[leaf] = Slaves(leaf) /\ Slaves(leaf) \subseteq Nodes
    BY <1>0, <1>2, <1>9, FollowedBelow
  <2>2. calls \in Seq(New(depth - 1)) /\ ToSet(calls) = New(depth - 1)
    BY <2>1, CallsCoverSlaves
  <2>3. New(depth - 1) \subseteq Call
    BY <1>2, <1>3, <2>1, BoundsAssumption DEF Call
  <2>4. ToSet(stack') = New(depth - 1) \cup Rest
    <3>1. calls \in Seq(Call)
      BY <2>2, <2>3, WiderElements
    <3>2. ToSet(calls \o Tail(stack)) = ToSet(calls) \cup Rest
      <4>1. Tail(stack) \in Seq(Call)
        BY <1>1
      <4> QED
        BY <3>1, <4>1, JoinedElements, Zenon
    <3>3. ToSet(stack') = ToSet(calls \o Tail(stack))
      BY <1>9
    <3> QED
      BY <2>2, <3>2, <3>3
  <2>5. \A n \in Slaves(leaf) : n \in Reached /\ Height(n) < depth - 1
    <3> SUFFICES ASSUME NEW n \in Slaves(leaf) PROVE n \in Reached /\ Height(n) < depth - 1
      OBVIOUS
    <3>1. n \in (1 - leaf) .. (leaf - 1)
      BY <1>0, <2>1, LayoutsAssumption DEF Slaves
    <3>2. leaf \in Int /\ leaf - LastDisk < depth /\ leaf > LastDisk
      BY <1>2, <2>1, DevicesAssumption DEF Height, Aggregates, Wholes, Disks
    <3>3. Height(n) < depth - 1
      BY <1>2, <3>1, <3>2, DevicesAssumption DEF Height
    <3> QED
      BY <1>2, <1>7, <2>1, <3>3
  <2>6. WalkIsSound'
    <3>1. \A call \in New(depth - 1) : call.leaf \in Reached /\ Height(call.leaf) < call.depth
      BY <2>5
    <3> QED
      BY <1>0, <1>4, <1>9, <2>4, <3>1 DEF WalkInv, WalkIsSound, Height
  <2>7. Waiting' = Slaves(leaf) \cup {call.leaf : call \in Rest}
    <3>1. {call.leaf : call \in New(depth - 1)} = Slaves(leaf)
      BY LeavesOfCalls
    <3> QED
      BY <2>4, <3>1 DEF Waiting
  <2>8. PICK E \in SUBSET Nodes : E = C \cup {leaf}
    BY <1>2
  <2>9. AreDone(E)'
    <3>1. visited' \subseteq E /\ (mounted \ left)' \subseteq E \cup Waiting'
      BY <1>0, <1>5, <1>6, <1>9, <2>7, <2>8 DEF AreDone
    <3>2. ASSUME NEW n \in E
          PROVE  /\ Slaves(n)' \subseteq E \cup Waiting'
                 /\ Slaves(n)' = {} => Physical(n)' \in own'
      <4>1. CASE n = leaf
        BY <1>9, <2>7, <4>1
      <4>2. CASE n \in C
        BY <1>5, <1>6, <1>9, <2>7, <2>8, <4>2 DEF AreDone, Physical
      <4> QED
        BY <2>8, <4>1, <4>2
    <3> QED
      BY <3>1, <3>2 DEF AreDone
  <2> QED
    BY <1>0, <2>6, <2>9 DEF WalkIsComplete
<1>10. CASE /\ Slaves(leaf) = {} /\ stack' = Tail(stack) /\ visited' = visited \cup {leaf}
            /\ own' = own \cup {Physical(leaf)}
  <2>1. Physical(leaf) \in Disks => Physical(leaf) \in Reached
    <3>1. CASE leaf \in Partitions
      BY <1>0, <1>2, <1>7, <3>1, FollowedBelow DEF Physical
    <3> QED
      BY <1>2, <3>1 DEF Physical
  <2>2. WalkIsSound'
    BY <1>0, <1>4, <1>10, <2>1 DEF WalkInv, WalkIsSound, Height
  <2>3. Waiting \subseteq Waiting' \cup {leaf}
    BY <1>6, <1>10 DEF Waiting
  <2>4. PICK E \in SUBSET Nodes : E = C \cup {leaf}
    BY <1>2
  <2>5. AreDone(E)'
    BY <1>0, <1>5, <1>10, <2>3, <2>4 DEF AreDone, Physical
  <2> QED
    BY <1>0, <2>2, <2>5 DEF WalkIsComplete
<1> QED
  BY <1>3, <1>8, <1>9, <1>10 DEF CollectPhysical

\* What select takes is the first of the usable spare disks.
LEMMA SelectIsExact ==
  ASSUME TypeInv, WalkInv, Select
  PROVE  WalkInv'
<1>1. /\ UNCHANGED <<attr, layout, mounted, pin, left, stack, visited, own>>
      /\ pc = "collect" /\ result = "none" /\ left = {} /\ stack = <<>>
  BY DEF Select, host, walk, TypeInv, OpenFits
<1>2. own \cap Disks = Followed
  BY <1>1, WalkEnds DEF TypeInv
<1>3. BelowFollowed' = BelowFollowed
  BY <1>1 DEF BelowFollowed, Slaves
<1>4. Followed' = Followed /\ Reached' = Reached
  BY <1>1, <1>3 DEF Followed, Reached
<1>5. pc' \in {"open", "end"}
  BY DEF Select, AutoSelect, UsePin, Take, Refuse, End
<1>6. WalkIsSound' /\ WalkIsComplete'
  BY <1>1, <1>4, <1>5 DEF WalkInv, WalkIsSound, WalkIsComplete
<1>7. \A d \in Disks : Eligible(d) <=> Usable(d) /\ d \notin Followed
  BY <1>2 DEF Eligible
<1>8. \A d, e : Usable(d)' = Usable(d) /\ Before(d, e)' = Before(d, e)
  BY <1>1 DEF Usable, Before
<1>9. SelectionIsExact'
  <2>1. CASE pin # NoPin
    BY <1>1, <1>2, <1>4, <1>5, <2>1 DEF SelectionIsExact
  <2>2. ASSUME pin = NoPin, NEW d \in Disks, Eligible(d),
               \A e \in Disks \ {d} : Eligible(e) => Before(d, e), Take(d)
        PROVE  SelectionIsExact'
    BY <1>1, <1>2, <1>4, <1>7, <1>8, <2>2 DEF Take, SelectionIsExact
  <2>3. CASE pin = NoPin /\ (\A d \in Disks : ~Eligible(d)) /\ Refuse("NoEligibleDisk")
    BY <1>4, <1>7, <1>8, <2>3 DEF Refuse, End, SelectionIsExact
  <2> QED
    BY <2>1, <2>2, <2>3 DEF Select, AutoSelect
<1> QED
  BY <1>6, <1>9 DEF WalkInv

\* Every step keeps the walk's invariant.
LEMMA WalkInvKept ==
  ASSUME LastWhole - LastDisk < MaxDepth, TypeInv, WalkInv, [Next]_vars
  PROVE  WalkInv'
<1>0. /\ UNCHANGED <<attr, layout, mounted, root, pin>> /\ Followed' = Followed
      /\ BelowFollowed' = BelowFollowed /\ \A n : Slaves(n)' = Slaves(n)
      /\ \A d, e : Usable(d)' = Usable(d) /\ Before(d, e)' = Before(d, e)
  BY HostStays DEF BelowFollowed, Slaves, Usable, Before
<1>1. Reached' = Reached /\ layout \in Layouts /\ mounted \subseteq Nodes
  BY <1>0, SourcesAssumption DEF Reached, TypeInv, TypeOK
<1>2. CASE ResolvePin
  <2>1. /\ stack' = <<>> /\ visited' = {} /\ own' = {} /\ pc' \in {"collect", "end"}
        /\ pc' = "collect" => left' = mounted
        /\ result' \in {"none", "PinNotFound"}
    BY <1>2 DEF ResolvePin, End, TypeInv, OpenFits, WalkInv, WalkIsComplete
  <2>2. pc' = "collect" => AreDone({})'
    BY <1>0, <2>1 DEF AreDone
  <2>3. WalkIsSound' /\ WalkIsComplete'
    BY <2>1, <2>2 DEF WalkIsSound, WalkIsComplete, ToSet
  <2>4. pc' # "collect" => SelectionIsExact'
    BY <1>2, <2>1 DEF ResolvePin, End, SelectionIsExact
  <2> QED
    BY <2>3, <2>4 DEF WalkInv
<1>3. CASE NextSource
  <2>1. PICK n \in left : stack' = <<[leaf |-> n, depth |-> MaxDepth]>> /\ left' = left \ {n}
    BY <1>3 DEF NextSource
  <2>2. /\ pc = "collect" /\ pc' = "collect" /\ stack = <<>> /\ visited' = {} /\ own' = own
        /\ result' = "none" /\ n \in mounted
    BY <1>3 DEF NextSource, TypeInv, TypeOK, OpenFits
  <2>3. ToSet(stack') = {[leaf |-> n, depth |-> MaxDepth]} /\ stack' # <<>>
    BY <2>1 DEF ToSet
  <2>4. Waiting' = {n} /\ Waiting = {}
    <3>1. ToSet(stack) = {}
      BY <2>2 DEF ToSet
    <3>2. \A x : x \in {call.leaf : call \in {[leaf |-> n, depth |-> MaxDepth]}} <=> x = n
      OBVIOUS
    <3> QED
      BY <2>3, <3>1, <3>2 DEF Waiting
  <2>5. Height(n) < MaxDepth /\ n \in Reached
    <3>1. n \in Nodes /\ n \in Reached
      BY <1>1, <2>2, ReachedIsClosed
    <3>2. n <= LastWhole
      BY <3>1, DevicesAssumption DEF Nodes
    <3> QED
      BY <3>1, <3>2, DevicesAssumption, BoundsAssumption DEF Height, Nodes
  <2>6. WalkIsSound'
    BY <1>1, <2>2, <2>3, <2>5 DEF WalkInv, WalkIsSound, Height
  <2>7. PICK C \in SUBSET Nodes : AreDone(C)
    BY <2>2 DEF WalkInv, WalkIsComplete
  <2>8. AreDone(C)'
    BY <1>0, <2>1, <2>2, <2>4, <2>7 DEF AreDone, Physical
  <2> QED
    BY <2>2, <2>6, <2>7, <2>8 DEF WalkInv, WalkIsComplete
<1>4. CASE CollectPhysical
  <2>1. WalkIsSound' /\ WalkIsComplete'
    BY <1>0, <1>1, <1>4, CollectKeepsWalk
  <2>2. pc' = "collect"
    BY <1>4 DEF CollectPhysical
  <2> QED
    BY <2>1, <2>2 DEF WalkInv
<1>5. CASE Select
  BY <1>5, SelectIsExact
<1>6. CASE OpenTarget
  BY <1>0, <1>1, <1>6 DEF OpenTarget, End, walk, WalkInv, WalkIsSound, WalkIsComplete,
     SelectionIsExact
<1>7. CASE UNCHANGED <<pc, walk, target, result>>
  BY <1>0, <1>1, <1>7 DEF walk, WalkInv, WalkIsSound, WalkIsComplete, AreDone, Waiting,
     Physical, Height, SelectionIsExact
<1> QED
  BY <1>2, <1>3, <1>4, <1>5, <1>6, <1>7 DEF Next, Unplug, Plug, vars
\* The walk's invariant holds in every reachable state of a host with fewer
\* aggregates than MAX_SLAVE_DEPTH.
THEOREM WalkInductive ==
  ASSUME LastWhole - LastDisk < MaxDepth
  PROVE  Spec => [](TypeInv /\ WalkInv)
<1>1. Init => WalkInv
  BY WalkInvInit
<1>2. TypeInv /\ WalkInv /\ [Next]_vars => WalkInv'
  BY WalkInvKept
<1> QED
  BY <1>1, <1>2, TypeInductive, PTL DEF Spec

\* On such a host, however its disks are stacked and whatever the order of the
\* walk, the disks excluded are exactly those followed below the sources, and
\* without a pin the smallest usable disk that is spare is selected, the first of
\* equals; select fails only if there is none.  The bound is needed: a disk below
\* a chain of MAX_SLAVE_DEPTH aggregates is not found.
THEOREM SelectionFindsAll ==
  ASSUME LastWhole - LastDisk < MaxDepth
  PROVE  Spec => []SelectionIsExact
<1>1. ASSUME TypeInv, WalkInv PROVE SelectionIsExact
  <2>1. CASE pc = "collect"
    <3>1. result = "none"
      BY <1>1, <2>1 DEF TypeInv, OpenFits
    <3>2. left = {} /\ stack = <<>> => own \cap Disks = Followed
      BY <1>1, <2>1, WalkEnds DEF TypeInv
    <3> QED
      BY <2>1, <3>1, <3>2 DEF SelectionIsExact
  <2> QED
    BY <1>1, <2>1 DEF WalkInv
<1> QED
  BY <1>1, WalkInductive, PTL
-----------------------------------------------------------------------------
(* The reference is complete: the levels it takes reach all there is.       *)

\* A set of nodes with all that really lies below them.
HoldsAllBelow(S) == \A n \in S : Below[n] \subseteq S

\* Backing and Claimed leave out no disk that a mount or an aggregate lies on, however
\* long the way there is.
THEOREM NothingBelowIsMissed ==
  Spec => [](/\ HoldsAllBelow(Under(mounted, Below))
             /\ HoldsAllBelow(Under(mounted \cup Aggregates, Below)))
<1>1. ASSUME TypeOK
      PROVE  /\ HoldsAllBelow(Under(mounted, Below))
             /\ HoldsAllBelow(Under(mounted \cup Aggregates, Below))
  <2>1. layout \in Layouts /\ mounted \subseteq Nodes /\ root \in Nodes
    BY <1>1, SourcesAssumption DEF TypeOK
  <2>2. mounted \cup Aggregates \subseteq Nodes
    BY <2>1, NodesFit
  <2>3. ASSUME NEW n \in Nodes, NEW m \in Below[n]
        PROVE  m \in Nodes /\ (m = n \/ Weight[m] < Weight[n])
    <3>1. CASE n \in Partitions
      BY <2>1, <2>3, <3>1, WeightFits DEF Below
    <3>2. CASE n = Alias
      <4>1. m = root
        BY <2>3, <3>2, NodesFit DEF Below
      <4> QED
        BY <2>1, <3>2, <4>1, NodesFit, WeightFits
    <3>3. CASE n \notin Partitions /\ n # Alias
      BY <2>1, <2>3, <3>3, WeightFits DEF Below
    <3> QED
      BY <3>1, <3>2, <3>3
  <2>4. Weight \in [Nodes -> 0 .. 2 * LastWhole]
    BY <2>1, WeightFits
  <2> QED
    BY <2>1, <2>2, <2>3, <2>4, UnderIsClosed DEF HoldsAllBelow
<1> QED
  BY <1>1, TargetTypeCorrect, PTL
=============================================================================
