---------------------------- MODULE MCTargetDisk ----------------------------
(* Instances of TargetDisk: hosts with many kinds of disks and no aggregate, *)
(* and hosts with like disks below two aggregates.                           *)
EXTENDS TargetDisk, FiniteSets

Attribute(removable, readOnly, numbered, size) ==
  [removable |-> removable, readOnly |-> readOnly, numbered |-> numbered, size |-> size]

Plain   == Attribute(FALSE, FALSE, TRUE, 1)
Kinds   == {Attribute(FALSE, FALSE, TRUE, s) : s \in 0 .. 2} \cup
             {Attribute(TRUE, FALSE, TRUE, 1), Attribute(FALSE, TRUE, TRUE, 1),
              Attribute(FALSE, FALSE, FALSE, 1)}

\* Aggregate 4 over disk 1 and a partition of disk 2; aggregate 5 over up to two
\* of aggregate 4, a partition of it, disk 1 and partitions of disks 1 and 2.
Over(a)   == IF a = 4 THEN SUBSET {1, -2}
                      ELSE {S \in SUBSET {4, -4, 1, -1, -2} : Cardinality(S) <= 2}
AnyStack  == {f \in [{4, 5} -> Over(4) \cup Over(5)] : \A a \in {4, 5} : f[a] \in Over(a)}
Bare      == [a \in Aggregates |-> {}]
Hosts     == AnyStack \cup {Bare}

TwoMounts == {S \in SUBSET Nodes : Cardinality(S) <= 2}
NoAlias   == {S \in TwoMounts : Alias \notin S}
AllPins   == Nodes \cup {NoPin, Dangling}

KindsInit ==
  /\ attr \in [Disks -> Kinds]
  /\ layout = Bare
  /\ mounted \in {{}, {1}, {-2}}
  /\ root = Alias
  /\ pin \in {NoPin, Dangling, Alias, 1, 2, 5, -1}

StacksInit ==
  /\ attr = [d \in Disks |-> Plain]
  /\ layout \in AnyStack
  /\ mounted \in Mounts
  /\ root \in IF Alias \in mounted THEN {1, -2, 4} ELSE {Alias}
  /\ pin = NoPin

MCInit ==
  /\ KindsInit \/ StacksInit
  /\ devs = [d \in Disks |-> [unit |-> d, number |-> d]]
  /\ pc = "resolve" /\ result = "none"
  /\ left = {} /\ stack = <<>> /\ visited = {} /\ own = {}
  /\ target = [kname |-> 0, number |-> 0]

MCSpec == MCInit /\ [][Next]_vars

\* target_disk.rs:28-33: the sources of /proc/mounts are resolved to the whole
\* disks underneath, through LVM, LUKS and md RAID, and the inspector "must
\* never overwrite itself": no disk of the running system is selected.  (The
\* run has no sources that resolve to no device.)
ExcludesOwnDisks == pc = "open" => target.kname \notin Backing

\* target_disk.rs:95-99 on the number checked at the open: "so a `/dev` node repointed
\* between selection and open (udev re-enumeration, hot-plug) cannot redirect the
\* write — the device validated here is provably the device written."  The unit
\* opened is the one that was classified.
WrittenIsSelected == result = "opened" => devs[target.kname].unit = target.kname
=============================================================================
