----------------------------- MODULE Partitions -----------------------------
(***************************************************************************)
(* From the written image to the injected configuration: the partition     *)
(* table is read again, the ESP is looked up in the GPT and in /sys        *)
(* (esp.rs), prepared and named by a boot entry, COS_OEM is looked up in   *)
(* /sys and by its label (oem.rs), and the configuration is injected.      *)
(* Where the code goes by name, by device number and by an open descriptor *)
(* is kept apart, because the disk may go away and another may get its     *)
(* name, with or without its numbers: a disk's number and those of its     *)
(* partitions are given again together.                                    *)
(***************************************************************************)
EXTENDS StreamVerify

CONSTANTS
  Numbers,    \* partition numbers
  NameRank,   \* NameRank[n]: the place of the name of partition n among the sorted names
  Tables,     \* what an image may hold: [size, header, parts]
  OtherTable  \* what another disk holds

ASSUME NumbersAssumption == Numbers \subseteq Nat \ {0} /\ NameRank \in [Numbers -> Nat]
ASSUME PartsAssumption   == /\ \A t \in Tables : DOMAIN t.parts \subseteq Numbers
                            /\ DOMAIN OtherTable.parts \subseteq Numbers

DefaultSize == 512     \* DEFAULT_BLOCK_SIZE

\* A partition of a unit, and its device number: that of its disk and its place there.
Device == [unit : {"target", "other"}, part : Numbers]
NoDevice == [unit |-> "none", part |-> 0]
Number == [disk : {"target", "other"}, part : Numbers]
NoNumber == [disk |-> "none", part |-> 0]

VARIABLES
  named,     \* the unit the name of the target stands for: "target", "other" or "none"
  reused,    \* the disk that got the name got the numbers of the target too
  sectors,   \* the logical block size of the target
  table,     \* the table of the image
  visible,   \* the partitions of the target the kernel exposes
  step,      \* the step of run_deploy_steps, "failed" or "done"
  opened,    \* the unit behind the descriptor the GPT is read from
  entries,   \* the ESP entries read from the GPT
  listed,    \* the partitions last listed under the name
  found,     \* the number of the partition found
  device,    \* the device number recorded for it
  how,       \* what became of the ESP step: "none", "bios", "absent" or "mounted"
  esp, oem,  \* the devices mounted as the ESP and as COS_OEM
  entry      \* the partition whose GUID the boot entry names

disks == <<named, reused, sectors, table, visible>>
lookup == <<opened, entries, listed, found, device>>
outcome == <<how, esp, oem, entry>>
vars == <<streaming, disks, step, lookup, outcome>>

-----------------------------------------------------------------------------
LeastBy(f(_), S) == CHOOSE n \in S : \A m \in S : f(n) <= f(m)

InGptOrder(n) == n
InNameOrder(n) == NameRank[n]

\* The partitions now under the name, and what they are.
PartsNow == CASE named = "target" -> table.parts
              [] named = "other"  -> OtherTable.parts
              [] OTHER            -> <<>>

VisibleNow == IF named = "target" THEN visible ELSE DOMAIN PartsNow

Goto(s) == step' = s

Fails == Goto("failed") /\ UNCHANGED <<lookup, outcome>>

Absent == Goto("listOem") /\ how' = "absent" /\ UNCHANGED <<lookup, esp, oem, entry>>

\* The number of the disk that has the name now.
NumberNow == IF named = "other" /\ reused THEN "target" ELSE named

\* dev, read by name: that of whatever disk has the name now, or nothing.
RecordDevice ==
  device' \in {NoNumber} \cup
                {[disk |-> NumberNow, part |-> p] : p \in VisibleNow \cap {found}}

\* mknod with the recorded number and mount: whatever partition has that number now.
Mountable == device.disk = NumberNow /\ device.part \in VisibleNow

Mounted == [unit |-> named, part |-> device.part]

\* verify_node_identity: the whole disk, opened by name, has the number selected.
SameNumber == NumberNow = "target"

-----------------------------------------------------------------------------
\* reread_partition_table: what the image holds shows in /sys now.  The kernel exposes
\* what it accepts of a table, and nothing of a GPT for other blocks than the disk's.
Reread ==
  /\ stream = "ok" /\ step = "reread"
  /\ \/ /\ named = "target"
        /\ sectors' \in {512, 4096}
        /\ table' \in Tables
        /\ visible' \in SUBSET DOMAIN table'.parts
        /\ table'.header # "none" /\ table'.size # sectors' => visible' = {}
        /\ Goto("openDisk")
     \/ /\ named = "other" /\ SameNumber
        /\ Goto("openDisk") /\ UNCHANGED <<sectors, table, visible>>
     \/ Goto("failed") /\ UNCHANGED <<sectors, table, visible>>
  /\ UNCHANGED <<streaming, named, reused, lookup, outcome>>

\* No /sys/firmware/efi: the ESP step is skipped.
SkipOnBios ==
  /\ step = "openDisk"
  /\ Goto("listOem") /\ how' = "bios"
  /\ UNCHANGED <<streaming, disks, lookup, esp, oem, entry>>

\* find_esp_partition opens the disk and verifies its number.
OpenDisk ==
  /\ step = "openDisk"
  /\ \/ /\ SameNumber /\ opened' = named
        /\ Goto("readGpt") /\ UNCHANGED <<entries, listed, found, device, outcome>>
     \/ Fails
  /\ UNCHANGED <<streaming, disks>>

\* The table of the disk opened, and its block size.
TableRead == IF opened = "target" THEN table ELSE OtherTable
BlocksRead == IF opened = "target" THEN sectors ELSE OtherTable.size

EspsOf(t) == {n \in DOMAIN t.parts : t.parts[n] = "esp"}

\* Mutant: a bad header and a failed read are an absence, too.
ReadGptAbsent ==
  /\ step = "readGpt"
  /\ \/ /\ opened = named /\ TableRead.header = "ok"
        /\ entries' = EspsOf(TableRead)
        /\ Goto("listEsp")
        /\ UNCHANGED <<opened, listed, found, device, outcome>>
     \/ Absent
  /\ UNCHANGED <<streaming, disks>>

\* The header is looked for where the block size says, or its default if /sys reports
\* none; without one there is no ESP, with a bad one or a read error the run fails.
ReadGpt ==
  /\ step = "readGpt"
  /\ \/ /\ opened = named
        /\ \E size \in {BlocksRead, DefaultSize} :
             IF TableRead.header = "none" \/ TableRead.size # size THEN Absent
             ELSE /\ TableRead.header = "ok"
                  /\ entries' = EspsOf(TableRead)
                  /\ Goto("listEsp")
                  /\ UNCHANGED <<opened, listed, found, device, outcome>>
     \/ Fails
  /\ UNCHANGED <<streaming, disks>>

\* Mutant: the first partition listed that is an ESP, by name.
FirstByName == LeastBy(InNameOrder, entries \cap listed')

\* The first ESP entry, by number, that is among the partitions listed.
FirstEsp == LeastBy(InGptOrder, entries \cap listed')

\* find_esp_in: the partitions under the name whose number can be read.
ListEsp ==
  /\ step = "listEsp"
  /\ listed' \in SUBSET VisibleNow
  /\ IF entries \cap listed' = {}
     THEN Goto("listOem") /\ how' = "absent" /\ UNCHANGED <<found, esp, oem, entry>>
     ELSE found' = FirstEsp /\ Goto("espNumber") /\ UNCHANGED outcome
  /\ UNCHANGED <<streaming, disks, opened, entries, device>>

EspNumber ==
  /\ step = "espNumber"
  /\ RecordDevice /\ Goto("mountEsp")
  /\ UNCHANGED <<streaming, disks, opened, entries, listed, found, outcome>>

\* register_boot_entry: the ESP is mounted and prepared, or the run fails.  The boot entry
\* carries the GUID, start and size that the GPT read gives; that it cannot be written
\* does not matter.
MountEsp ==
  /\ step = "mountEsp"
  /\ \/ /\ Mountable
        /\ how' = "mounted" /\ esp' = Mounted
        /\ entry' \in {NoDevice, [unit |-> opened, part |-> found]}
        /\ Goto("listOem") /\ UNCHANGED <<lookup, oem>>
     \/ Fails
  /\ UNCHANGED <<streaming, disks>>

-----------------------------------------------------------------------------
\* find_oem_in: by name, without a look at the number of the disk.
ListOem ==
  /\ step = "listOem"
  /\ listed' = VisibleNow
  /\ Goto(IF listed' = {} THEN "failed" ELSE "labels")
  /\ UNCHANGED <<streaming, disks, opened, entries, found, device, outcome>>

\* The labels, by name; one that cannot be read is none.  The first is taken.
ReadLabels ==
  /\ step = "labels"
  /\ \E readable \in SUBSET (listed \cap VisibleNow) :
       LET labelled == {n \in readable : PartsNow[n] = "oem"} IN
       IF labelled = {} THEN Fails
       ELSE /\ found' = LeastBy(InNameOrder, labelled)
            /\ Goto("oemNumber") /\ UNCHANGED <<opened, entries, listed, device, outcome>>
  /\ UNCHANGED <<streaming, disks>>

OemNumber ==
  /\ step = "oemNumber"
  /\ RecordDevice /\ Goto("inject")
  /\ UNCHANGED <<streaming, disks, opened, entries, listed, found, outcome>>

\* Mutant: the partition is mounted by its name.
InjectByName ==
  /\ step = "inject"
  /\ \/ /\ device # NoNumber /\ found \in VisibleNow
        /\ oem' = [unit |-> named, part |-> found]
        /\ Goto("done") /\ UNCHANGED <<lookup, how, esp, entry>>
     \/ Fails
  /\ UNCHANGED <<streaming, disks>>

\* inject_oem_config
Inject ==
  /\ step = "inject"
  /\ \/ /\ Mountable /\ oem' = Mounted
        /\ Goto("done") /\ UNCHANGED <<lookup, how, esp, entry>>
     \/ Fails
  /\ UNCHANGED <<streaming, disks>>

-----------------------------------------------------------------------------
\* The disk goes away after the write, and another one gets its name and, unless the
\* kernel has given them to a third, its numbers.
Unplug == named = "target" /\ named' = "none" /\ UNCHANGED reused

Plug == named = "none" /\ named' = "other" /\ reused' \in BOOLEAN

Replace ==
  /\ stream = "ok" /\ step \notin {"failed", "done"}
  /\ Unplug \/ Plug
  /\ UNCHANGED <<streaming, sectors, table, visible, step, lookup, outcome>>

Init ==
  /\ StreamInit
  /\ named = "target" /\ reused = FALSE /\ sectors = DefaultSize
  /\ table = [size |-> DefaultSize, header |-> "none", parts |-> <<>>] /\ visible = {}
  /\ step = "reread"
  /\ opened = "none" /\ entries = {} /\ listed = {} /\ found = 0 /\ device = NoNumber
  /\ how = "none" /\ esp = NoDevice /\ oem = NoDevice /\ entry = NoDevice

EspStep == SkipOnBios \/ OpenDisk \/ ReadGpt \/ ListEsp \/ EspNumber \/ MountEsp

OemStep == ListOem \/ ReadLabels \/ OemNumber \/ Inject

Next == \/ StreamStep /\ UNCHANGED <<disks, step, lookup, outcome>>
        \/ Reread \/ EspStep \/ OemStep
        \/ Replace

Spec == Init /\ [][Next]_vars

-----------------------------------------------------------------------------
\* Type correctness, that of the stream included.
TypeOK ==
  /\ StreamTypeOK
  /\ {named, opened} \subseteq {"target", "other", "none"} /\ reused \in BOOLEAN
  /\ sectors \in {512, 4096}
  /\ visible \subseteq DOMAIN table.parts /\ entries \subseteq Numbers
  /\ listed \subseteq Numbers /\ found \in Numbers \cup {0}
  /\ device \in Number \cup {NoNumber} /\ {esp, oem, entry} \subseteq Device \cup {NoDevice}
  /\ how \in {"none", "bios", "absent", "mounted"}
  /\ step \in {"reread", "openDisk", "readGpt", "listEsp", "espNumber", "mountEsp",
               "listOem", "labels", "oemNumber", "inject", "failed", "done"}

\* The ESP step does what its skips and its choice promise, as long as the target is in
\* its place.  The partition whose loader is checked is on the written image, the first
\* ESP entry of its GPT that was exposed with its number, and the boot entry, if one is
\* written, names that partition.  "No ESP" is said of a GPT for the blocks of the disk
\* only if it was read, all its ESP entries were looked for and none was exposed so: a
\* bad header or a failed read is never taken for an absence.  (run.rs:299-323,
\* esp.rs:342-370; for disks with the default blocks, since the size that /sys does not
\* report is taken for the default.)
EspStepIsRight ==
  named = "target" =>
    /\ how = "mounted" =>
         /\ esp.unit = "target" /\ table.parts[esp.part] = "esp"
         /\ step = "listOem" => \A n \in listed : n < esp.part => table.parts[n] # "esp"
         /\ entry \in {NoDevice, esp}
    /\ how = "absent" /\ table.size = DefaultSize /\ sectors = DefaultSize =>
         \/ table.header = "none"
         \/ /\ table.header = "ok" /\ entries = EspsOf(table)
            /\ step = "listOem" => \A n \in listed : table.parts[n] # "esp"

\* The join secret goes to the disk only after all of the verified image is on it and the
\* ESP step is over; while the target is in its place, to a COS_OEM partition of the
\* written image; and, unless the kernel gave the numbers again, never to a disk that
\* got the name after the number of the partition was recorded (run.rs:252-288,
\* oem.rs:15-22, 130-150).
OemStepIsRight ==
  oem # NoDevice =>
    /\ stream = "ok" /\ written = ImageLength /\ how # "none"
    /\ named = "target" => oem.unit = "target" /\ table.parts[oem.part] = "oem"
    /\ ~reused => device = [disk |-> oem.unit, part |-> oem.part]
=============================================================================
