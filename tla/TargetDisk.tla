----------------------------- MODULE TargetDisk -----------------------------
(***************************************************************************)
(* Which disk is written: select (target_disk.rs) in Phase 1, and the open *)
(* and identity check of write_image (deploy.rs) that come minutes or      *)
(* hours later, with disks plugged, unplugged and renamed in between.      *)
(*                                                                         *)
(* Whole block devices are 1 .. LastDisk (disks) and, up to LastWhole,     *)
(* dm and md aggregates, in the order of their kernel names; -w is a       *)
(* partition of whole device w.  Alias is a /dev name that resolves to no  *)
(* device, as the /dev/root of /proc/mounts.  A disk's name and number are *)
(* the kernel's; the piece of hardware behind them is its unit.            *)
(***************************************************************************)
EXTENDS Integers, Sequences, SequencesExt

CONSTANTS
  LastDisk,     \* disks are 1 .. LastDisk
  LastWhole,    \* aggregates are LastDisk + 1 .. LastWhole
  LastUnit,     \* units LastDisk + 1 .. LastUnit may be plugged in later
  Attributes,   \* what sysfs may say of a disk
  Layouts,      \* the slaves aggregates may have
  Mounts,       \* the sets of /dev sources that may be mounted or swapped on
  Pins,         \* the values of beskar7.disk
  MinBytes,     \* the size floor: run() passes 0
  MaxDepth      \* MAX_SLAVE_DEPTH

Disks      == 1 .. LastDisk
Wholes     == 1 .. LastWhole
Aggregates == Wholes \ Disks
Partitions == {-w : w \in Wholes}
Alias      == 0
Nodes      == -LastWhole .. LastWhole
NoPin      == LastWhole + 1   \* beskar7.disk is absent
Dangling   == LastWhole + 2   \* a path that canonicalize cannot resolve
NoDisk     == [unit |-> 0, number |-> 0]

ASSUME DevicesAssumption ==
  /\ LastDisk \in Nat /\ LastWhole \in Nat /\ LastUnit \in Nat
  /\ LastDisk <= LastWhole /\ LastDisk <= LastUnit
ASSUME BoundsAssumption == MinBytes \in Nat /\ MaxDepth \in Nat
ASSUME AttributesAssumption ==
  Attributes \subseteq [removable : BOOLEAN, readOnly : BOOLEAN, numbered : BOOLEAN, size : Nat]
\* An aggregate is built of what was there before it.
ASSUME LayoutsAssumption ==
  /\ Layouts \subseteq [Aggregates -> SUBSET Nodes]
  /\ \A slaves \in Layouts : \A a \in Aggregates : \A n \in slaves[a] :
       n # Alias /\ n \in (1 - a) .. (a - 1)
ASSUME SourcesAssumption ==
  /\ Mounts \subseteq SUBSET Nodes
  /\ Pins \subseteq Nodes \cup {NoPin, Dangling}

VARIABLES
  attr,      \* the attributes of each disk when it is selected
  layout,    \* sysfs: /sys/block/<aggregate>/slaves
  mounted,   \* the sources in /proc/mounts and /proc/swaps
  root,      \* the device Alias stands for
  pin,       \* beskar7.disk
  devs,      \* the unit and the number behind each disk name
  pc,        \* "resolve", "collect", "open" or "end"
  left,      \* the sources backing_whole_disks has not begun
  stack,     \* calls of collect_physical not made yet, with their depth
  visited,
  own,       \* ramdisk: the names found to back the running system
  target,    \* the TargetDisk selected
  result     \* "none", "opened" or the error

host == <<attr, layout, mounted, root, pin>>
walk == <<left, stack, visited, own>>
vars == <<host, devs, pc, walk, target, result>>

Slaves(w) == IF w \in Aggregates THEN layout[w] ELSE {}

-----------------------------------------------------------------------------
(* The reference: what a mount or a swap area really lies on.              *)

\* What is at most k levels below the nodes of S, where below[n] is one level.
Levels(S, below) ==
  LET reach[k \in 0 .. 2 * LastWhole] ==
        IF k = 0 THEN S
        ELSE LET above == reach[k - 1] IN above \cup UNION {below[n] : n \in above}
  IN  reach

\* All there is below them.
Under(S, below) == Levels(S, below)[2 * LastWhole]

\* A partition lies on its whole device, an aggregate on its members.
Below == [n \in Nodes |-> CASE n \in Partitions -> {-n}
                            [] n = Alias        -> {root}
                            [] OTHER            -> Slaves(n)]

Backing == Disks \cap Under(mounted, Below)

\* What the kernel holds open exclusively: the disks below a mount, and the
\* members of every aggregate.
Claimed == Disks \cap Under(mounted \cup Aggregates, Below)

\* Backing without the two layouts the code does not follow: through a
\* partition of an aggregate, and through an alias.
BelowFollowed == [n \in Nodes |-> CASE n \in Partitions -> {-n} \cap Disks
                                    [] n = Alias        -> {}
                                    [] OTHER            -> Slaves(n)]

Followed == Disks \cap Under(mounted, BelowFollowed)

-----------------------------------------------------------------------------
Init ==
  /\ attr \in [Disks -> Attributes]
  /\ layout \in Layouts
  /\ mounted \in Mounts
  /\ root \in IF Alias \in mounted THEN Wholes \cup Partitions ELSE {Alias}
  /\ pin \in Pins
  /\ devs = [d \in Disks |-> [unit |-> d, number |-> d]]
  /\ pc = "resolve" /\ result = "none"
  /\ left = {} /\ stack = <<>> /\ visited = {} /\ own = {}
  /\ target = [kname |-> 0, number |-> 0]

End(r) == pc' = "end" /\ result' = r

\* resolve_pin_to_kname, and the sources ramdisk_backing_knames reads.
ResolvePin ==
  /\ pc = "resolve"
  /\ \/ pin = Dangling /\ End("PinNotFound") /\ UNCHANGED left
     \/ pin # Dangling /\ pc' = "collect" /\ left' = mounted /\ UNCHANGED result
  /\ UNCHANGED <<host, devs, stack, visited, own, target>>

\* backing_whole_disks: the next source, with a visited set of its own.
NextSource ==
  /\ pc = "collect" /\ stack = <<>>
  /\ \E n \in left :
       /\ stack' = <<[leaf |-> n, depth |-> MaxDepth]>>
       /\ left' = left \ {n}
  /\ visited' = {}
  /\ UNCHANGED <<host, devs, pc, own, target, result>>

\* Mutant: only the first slave is followed.
FirstCallFor(w, depth) == {<<[leaf |-> n, depth |-> depth]>> : n \in Slaves(w)}

\* The slaves of w in the order of read_dir, which is any.
CallsFor(w, depth) ==
  {[i \in DOMAIN order |-> [leaf |-> order[i], depth |-> depth]] :
     order \in SetToSeqs(Slaves(w))}

\* Mutant: the partition is added in place of its disk.
PartitionItself(n) == n

\* What collect_physical adds for a leaf that is no aggregate: the disk
\* itself, the parent of a partition, or the name left of an unknown one.
\* A partition of an aggregate adds the aggregate.
Physical(n) == IF n \in Partitions THEN -n ELSE n

\* One call of collect_physical.
CollectPhysical ==
  /\ pc = "collect" /\ stack # <<>>
  /\ LET leaf  == Head(stack).leaf
         depth == Head(stack).depth
     IN  \/ /\ depth = 0 \/ leaf \in visited
            /\ stack' = Tail(stack)
            /\ UNCHANGED <<visited, own>>
         \/ /\ depth > 0 /\ leaf \notin visited
            /\ visited' = visited \cup {leaf}
            /\ \/ /\ Slaves(leaf) # {}
                  /\ \E calls \in CallsFor(leaf, depth - 1) : stack' = calls \o Tail(stack)
                  /\ UNCHANGED own
               \/ /\ Slaves(leaf) = {}
                  /\ stack' = Tail(stack)
                  /\ own' = own \cup {Physical(leaf)}
  /\ UNCHANGED <<host, devs, pc, left, target, result>>

-----------------------------------------------------------------------------
Usable(d) == ~attr[d].removable /\ ~attr[d].readOnly
               /\ attr[d].size > 0 /\ attr[d].size >= MinBytes

\* classify: an aggregate has no device link.
Eligible(w) == w \in Disks /\ w \notin own /\ Usable(w)

\* The order min_by_key puts candidates sorted by name in.
Before(d, e) == attr[d].size < attr[e].size \/ (attr[d].size = attr[e].size /\ d < e)

Take(d) ==
  /\ target' = [kname |-> d, number |-> IF attr[d].numbered THEN devs[d].number ELSE 0]
  /\ pc' = "open" /\ UNCHANGED result

Refuse(r) == End(r) /\ UNCHANGED target

\* Mutant: the smallest disk first, whether or not it is eligible.
AutoSelectUnfiltered ==
  \/ \E d \in Disks : /\ \A e \in Disks \ {d} : Before(d, e)
                      /\ IF Eligible(d) THEN Take(d) ELSE Refuse("NoEligibleDisk")
  \/ Disks = {} /\ Refuse("NoEligibleDisk")

\* auto_select.
AutoSelect ==
  \/ \E d \in Disks : /\ Eligible(d)
                      /\ \A e \in Disks \ {d} : Eligible(e) => Before(d, e)
                      /\ Take(d)
  \/ (\A d \in Disks : ~Eligible(d)) /\ Refuse("NoEligibleDisk")

\* Mutant: a pin that cannot be used is given up for another disk.
UsePinOrAuto ==
  \/ pin \in Wholes /\ Eligible(pin) /\ Take(pin)
  \/ ~(pin \in Wholes /\ Eligible(pin)) /\ AutoSelect

\* The pinned half of select_core.
UsePin ==
  \/ pin \in Wholes /\ Eligible(pin) /\ Take(pin)
  \/ pin \in Wholes /\ ~Eligible(pin) /\ Refuse("PinIneligible")
  \/ pin \in Partitions /\ Refuse("PinNotWholeDisk")
  \/ pin = Alias /\ Refuse("PinNotBlockDevice")

\* select_core.
Select ==
  /\ pc = "collect" /\ stack = <<>> /\ left = {}
  /\ IF pin = NoPin THEN AutoSelect ELSE UsePin
  /\ UNCHANGED <<host, devs, walk>>

\* Mutant: the number is not compared.
OpenByName ==
  /\ pc = "open"
  /\ \/ End("OpenTarget")
     \/ devs[target.kname] # NoDisk /\ devs[target.kname].unit \notin Claimed /\ End("opened")
  /\ UNCHANGED <<host, devs, walk, target>>

\* Mutant: the open is not exclusive.
OpenShared ==
  /\ pc = "open"
  /\ LET found == devs[target.kname]
     IN  \/ End("OpenTarget")
         \/ /\ found # NoDisk
            /\ End(IF target.number # 0 /\ found.number = target.number
                   THEN "opened" ELSE "refused")
  /\ UNCHANGED <<host, devs, walk, target>>

\* write_image: the exclusive open and verify_node_identity, which refuses an
\* empty number.
OpenTarget ==
  /\ pc = "open"
  /\ LET found == devs[target.kname]
     IN  \/ End("OpenTarget")
         \/ /\ found # NoDisk /\ found.unit \notin Claimed
            /\ End(IF target.number # 0 /\ found.number = target.number
                   THEN "opened" ELSE "refused")
  /\ UNCHANGED <<host, devs, walk, target>>

-----------------------------------------------------------------------------
(* External: between selection and open disks come and go, those that back *)
(* the running system excepted.                                            *)

Unplug(d) ==
  /\ pc = "open" /\ devs[d] # NoDisk /\ devs[d].unit \notin Claimed
  /\ devs' = [devs EXCEPT ![d] = NoDisk]
  /\ UNCHANGED <<host, pc, walk, target, result>>

\* A unit gets a free name and a number no disk has.  Freed numbers are given again: the
\* sd and vd drivers make the name and the number of the same index, and nvme takes
\* the lowest free number.
Plug(d, u, n) ==
  /\ pc = "open" /\ devs[d] = NoDisk
  /\ \A e \in Disks : devs[e].unit # u /\ devs[e].number # n
  /\ devs' = [devs EXCEPT ![d] = [unit |-> u, number |-> n]]
  /\ UNCHANGED <<host, pc, walk, target, result>>

Next ==
  \/ ResolvePin \/ NextSource \/ CollectPhysical \/ Select \/ OpenTarget
  \/ \E d \in Disks : Unplug(d)
  \/ \E d \in Disks, u, n \in 1 .. LastUnit : Plug(d, u, n)

Spec == Init /\ [][Next]_vars

-----------------------------------------------------------------------------
TypeOK ==
  /\ attr \in [Disks -> Attributes] /\ layout \in Layouts /\ mounted \in Mounts
  /\ root \in Nodes /\ pin \in Pins
  /\ devs \in [Disks -> [unit : 0 .. LastUnit, number : 0 .. LastUnit]]
  /\ pc \in {"resolve", "collect", "open", "end"}
  /\ left \subseteq mounted /\ visited \subseteq Nodes /\ own \subseteq Nodes \ Partitions
  /\ stack \in Seq([leaf : Nodes, depth : 0 .. MaxDepth])
  /\ target \in [kname : Disks \cup {0}, number : 0 .. LastUnit]
  /\ result \in {"none", "opened", "refused", "OpenTarget", "PinNotFound", "PinIneligible",
                 "PinNotWholeDisk", "PinNotBlockDevice", "NoEligibleDisk"}

\* Selection is exact.  The walk through slaves/ finds exactly the disks below the
\* sources: a disk behind two aggregates is not lost to the visited set or the depth,
\* and no spare disk is excluded (target_disk.rs 413-480).  Without a pin the smallest
\* usable disk that is spare is taken, the first of equals, and the run fails only if
\* there is none (auto_select).
SelectionIsExact ==
  LET spare == {d \in Disks : Usable(d) /\ d \notin Followed} IN
  /\ (pc = "collect" /\ left = {} /\ stack = <<>>) \/ pc = "open" => own \cap Disks = Followed
  /\ pin = NoPin =>
       /\ pc = "open" => /\ target.kname \in spare
                         /\ \A d \in spare \ {target.kname} : Before(target.kname, d)
       /\ result = "NoEligibleDisk" => spare = {}

\* A pin that cannot be used never leads to another disk, a partition never to
\* its parent.  (select_core)
PinOrNothing == pin # NoPin /\ pc = "open" => target.kname = pin

\* The disk opened has the number that the classified one had, whatever was plugged,
\* unplugged and renamed in between; a disk whose number could not be read is not
\* opened.  (verify_node_identity.  This is all it can tell: another unit may have
\* been given that number.)
WrittenHasSelectedNumber ==
  result = "opened" => /\ devs[target.kname].number = target.kname
                       /\ attr[target.kname].numbered

\* No disk that the running system lies on is opened for writing, not even
\* where selection does not see it.  (the exclusive open of write_image)
WrittenSparesOwn == result = "opened" => devs[target.kname].unit \notin Backing
=============================================================================
