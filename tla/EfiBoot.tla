------------------------------ MODULE EfiBoot -------------------------------
(***************************************************************************)
(* ensure_in (efiboot.rs): the UEFI boot entry for the disk, over NVRAM    *)
(* that outlives every deploy.  The firmware may have entries of its own   *)
(* and rewrites BootOrder as it likes between boots; SetVariable may be    *)
(* refused; the host may be power-cycled between the two writes.           *)
(*                                                                         *)
(* A Boot#### variable is abstracted to what the code reads from it:       *)
(* whether it parses, is active, is of category APP, has a network path,   *)
(* is described "beskar7", and which disk's ESP loader it starts.          *)
(***************************************************************************)
EXTENDS Naturals, Sequences, FiniteSets

CONSTANTS
  LastNumber,   \* Boot#### numbers are 0 .. LastNumber (u16::MAX in the code)
  Images,       \* the images deployed: each has an ESP GUID of its own
  MaxDeploys    \* bound: how often the step runs

ASSUME NumberAssumption == LastNumber \in Nat
ASSUME DeploysAssumption == MaxDeploys \in Nat

Numbers == 0 .. LastNumber

\* starts: the image whose ESP the HD() node names and whose loader is
\* ESP_LOADER_PATH or absent; "elsewhere" for every other path.
Options == [active : BOOLEAN, app : BOOLEAN, net : BOOLEAN, beskar7 : BOOLEAN,
            starts : Images \cup {"elsewhere"}]

Unset     == [parses |-> FALSE, used |-> FALSE]   \* no such variable
Malformed == [parses |-> FALSE, used |-> TRUE]    \* parse_load_option: None

VARIABLES
  entries,   \* NVRAM: the Boot#### variables
  order,     \* NVRAM: BootOrder, empty when it is unset
  oddOrder,  \* NVRAM: BootOrder has an odd length
  pc,        \* "idle", "entry" or "order": the next write of ensure_in
  image,     \* the image of the present deploy
  number,    \* the Boot#### number chosen
  result,    \* how the last run ended: "none", "ok" or "failed"
  deploys    \* how many runs there were

nvram == <<entries, order, oddOrder>>
vars  == <<nvram, pc, image, number, result, deploys>>

Parses(n) == entries[n] \in Options
Used(n)   == entries[n] # Unset

\* A number in BootOrder may have no Boot####.
Has(n) == n \in Numbers /\ Parses(n)

IsAutoBootable(n) == Has(n) /\ entries[n].active /\ ~entries[n].app
IsNetwork(n)      == Has(n) /\ entries[n].net

\* The minimum of a non-empty set of numbers, the maximum likewise.
Lowest(S)  == CHOOSE n \in S : \A m \in S : n <= m
Highest(S) == CHOOSE n \in S : \A m \in S : m <= n

-----------------------------------------------------------------------------
\* pick_existing: the active entries that start the loader on the ESP of im.
Existing(im) == {n \in Numbers : Parses(n) /\ entries[n].active
                                           /\ entries[n].starts = im}

\* previous_entry: those an earlier deploy wrote.
Described == {n \in Numbers : Parses(n) /\ entries[n].beskar7}

\* Mutant: a number whose entry does not parse is free.
FreeOrMalformed == {n \in Numbers : ~Parses(n)}

\* Mutant: the range of numbers is one too long.
FreeAndOneMore == {n \in Numbers : ~Used(n)} \cup {LastNumber + 1}

\* free_boot_number: a malformed entry is in use as well.
Free == {n \in Numbers : ~Used(n)}

\* The entry ensure_in writes.
EntryFor(im) == [active |-> TRUE, app |-> FALSE, net |-> FALSE,
                 beskar7 |-> TRUE, starts |-> im]

\* The elements of s at the positions K, in their order: the one at i is the Rank-th.
Rank(K, i) == Cardinality({j \in K : j <= i})
Kept(s, K) == [k \in 1 .. Cardinality(K) |-> s[CHOOSE i \in K : Rank(K, i) = k]]

\* The order without a number, wherever it is listed (filter).
Without(s, n) == Kept(s, {i \in 1 .. Len(s) : s[i] # n})

Inserted(s, at, n) == SubSeq(s, 1, at - 1) \o <<n>> \o SubSeq(s, at, Len(s))

\* The positions of the entries the firmware boots on its own: from elsewhere than the
\* network, and from the network before any of those.
Others(s)  == {i \in 1 .. Len(s) : IsAutoBootable(s[i]) /\ ~IsNetwork(s[i])}
Leading(s) == {i \in 1 .. Len(s) : /\ IsAutoBootable(s[i])
                                   /\ \A j \in 1 .. i : j \notin Others(s)}

\* Mutant: the disk goes last.
PlaceLast(old, n) == Append(Without(old, n), n)

\* Mutant: every network entry goes before the disk, wherever it was.
PlaceAfterAllNetwork(old, n) ==
  LET rest == Without(old, n)
      nets == {i \in 1 .. Len(rest) : IsNetwork(rest[i])}
  IN  Kept(rest, nets) \o <<n>> \o Kept(rest, (1 .. Len(rest)) \ nets)

\* Mutant: the number is not taken out of the order first.
PlaceAgain(old, n) == Inserted(old, Lowest(Others(old) \cup {Len(old) + 1}), n)

\* place_after_network: after the last network entry that comes before any other the
\* firmware boots, else before the first of those, else last.  The code looks entries
\* up as it read them before it wrote number n, and n itself is taken out first, so
\* the present ones will do.
Slot(rest) ==
  LET first == Lowest(Others(rest) \cup {Len(rest) + 1})
      nets  == {i \in 1 .. (first - 1) : IsAutoBootable(rest[i]) /\ IsNetwork(rest[i])}
  IN  IF nets = {} THEN first ELSE Highest(nets) + 1

PlaceAfterNetwork(old, n) == Inserted(Without(old, n), Slot(Without(old, n)), n)

-----------------------------------------------------------------------------
End(r) == pc' = "idle" /\ result' = r

\* Mutant: an entry of an earlier deploy is not looked for.
ChooseFreeOnly(im) ==
  /\ pc = "idle"
  /\ deploys < MaxDeploys
  /\ deploys' = deploys + 1
  /\ image' = im
  /\ \/ End("failed") /\ UNCHANGED number
     \/ /\ ~oddOrder
        /\ Existing(im) # {}
        /\ number' = Lowest(Existing(im))
        /\ pc' = "order" /\ result' = "none"
     \/ /\ ~oddOrder
        /\ Existing(im) = {} /\ Free # {}
        /\ number' = Lowest(Free)
        /\ pc' = "entry" /\ result' = "none"
  /\ UNCHANGED nvram

\* The step starts: it lists and reads every Boot#### and BootOrder, any of which
\* can fail, and picks the entry to reuse, else to replace, else to create.
Choose(im) ==
  /\ pc = "idle"
  /\ deploys < MaxDeploys
  /\ deploys' = deploys + 1
  /\ image' = im
  /\ \/ End("failed") /\ UNCHANGED number          \* mount, list or read error
     \/ /\ ~oddOrder
        /\ Existing(im) # {}
        /\ number' = Lowest(Existing(im))
        /\ pc' = "order" /\ result' = "none"
     \/ /\ ~oddOrder
        /\ Existing(im) = {}
        /\ Described # {}
        /\ number' = Lowest(Described)
        /\ pc' = "entry" /\ result' = "none"
     \/ /\ ~oddOrder
        /\ Existing(im) = {} /\ Described = {} /\ Free # {}
        /\ number' = Lowest(Free)
        /\ pc' = "entry" /\ result' = "none"
  /\ UNCHANGED nvram

\* Mutant: BootOrder is written although the entry was refused.
WriteEntryOrNot ==
  /\ pc = "entry"
  /\ pc' = "order"
  /\ entries' \in {entries, [entries EXCEPT ![number] = EntryFor(image)]}
  /\ UNCHANGED <<result, order, oddOrder, image, number, deploys>>

\* The Boot#### write, accepted or refused by the firmware.
WriteEntry ==
  /\ pc = "entry"
  /\ \/ /\ entries' = [entries EXCEPT ![number] = EntryFor(image)]
        /\ pc' = "order" /\ UNCHANGED result
     \/ End("failed") /\ UNCHANGED entries
  /\ UNCHANGED <<order, oddOrder, image, number, deploys>>

\* The BootOrder write, made only if the order changes.
WriteOrder ==
  /\ pc = "order"
  /\ LET new == PlaceAfterNetwork(order, number)
     IN  \/ order' = new /\ End("ok")
         \/ new # order /\ End("failed") /\ UNCHANGED order
  /\ UNCHANGED <<entries, oddOrder, image, number, deploys>>

\* The host is power-cycled between two writes.
PowerLoss ==
  /\ pc # "idle"
  /\ End("failed")
  /\ UNCHANGED <<nvram, image, number, deploys>>

\* External: the firmware rebuilds BootOrder at POST from its own priorities, by
\* dropping a number or putting one first.
FirmwareRebuildsOrder ==
  /\ pc = "idle"
  /\ \E n \in Numbers :
       \/ order' = Without(order, n)
       \/ order' = <<n>> \o Without(order, n)
  /\ result' = "none"
  /\ UNCHANGED <<entries, oddOrder, pc, image, number, deploys>>

\* The first deploy finds any NVRAM in which at most one entry is described beskar7.
Init ==
  /\ entries \in [Numbers -> Options \cup {Unset, Malformed}]
  /\ order \in Seq(Numbers)
  /\ oddOrder \in BOOLEAN
  /\ pc = "idle" /\ result = "none" /\ deploys = 0
  /\ image \in Images
  /\ number \in Numbers
  /\ \A m, n \in Described : m = n

Next == \/ \E im \in Images : Choose(im)
        \/ WriteEntry \/ WriteOrder \/ PowerLoss
        \/ FirmwareRebuildsOrder

Spec == Init /\ [][Next]_vars

-----------------------------------------------------------------------------
\* Type correctness: NVRAM holds load options and numbers.
TypeOK ==
  /\ entries \in [Numbers -> Options \cup {Unset, Malformed}]
  /\ order \in Seq(Numbers)
  /\ oddOrder \in BOOLEAN
  /\ pc \in {"idle", "entry", "order"}
  /\ image \in Images
  /\ number \in Numbers
  /\ result \in {"none", "ok", "failed"}
  /\ deploys \in 0 .. MaxDeploys

\* No pile-up: however many deploys of however many images, and wherever they
\* were interrupted, NVRAM never holds two beskar7 entries if it did not come
\* with two (efiboot.rs:15-19).
NoPileUp == \A m, n \in Described : m = n

\* A finished run is a fixed point: unless the firmware interferes, running again
\* for the same image reuses the entry and leaves BootOrder as it is, and that
\* entry is an active one for this disk (efiboot.rs:6-14).
FinishedIsStable ==
  result = "ok" =>
    /\ number = Lowest(Existing(image))
    /\ PlaceAfterNetwork(order, number) = order

\* After a finished run the entry comes before everything else the firmware would
\* boot on its own, except the network entries that came before any of that
\* (efiboot.rs:20-27).
NothingBeforeDiskButNetwork ==
  result = "ok" =>
    \E i \in 1 .. Len(order) :
      /\ order[i] = number
      /\ \A j \in 1 .. (i - 1) : IsAutoBootable(order[j]) => IsNetwork(order[j])

\* No run writes over a Boot#### that is not its own: what changes was unset, or a
\* beskar7 entry that no longer matches; a malformed one is never touched.
ForeignEntriesSurvive ==
  [][\A n \in Numbers : entries'[n] # entries[n] =>
       ~Used(n) \/ (n \in Described /\ n \notin Existing(image))]_vars

\* What a run writes to BootOrder is safe.  It changes only once its entry is in place:
\* no crash leaves an order naming an entry that does not start the disk.  PXE keeps the
\* priority it had and nothing else moves (efiboot.rs:20-27): with the disk's entry
\* taken out, the write leaves the sequence it found; and what the firmware booted from
\* the network before anything else, it still boots before the disk.
OrderWriteIsSafe ==
  [][pc = "order" =>
       LET rest == Without(order, number)
       IN  /\ order' # order => number \in Existing(image)
           /\ Without(order', number) = rest
           /\ result' = "ok" =>
                \E i \in 1 .. Len(order') :
                  /\ order'[i] = number
                  /\ {rest[j] : j \in Leading(rest)} \subseteq
                       {order'[j] : j \in 1 .. (i - 1)}]_vars
=============================================================================
