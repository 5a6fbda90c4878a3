-------------------------- MODULE PartitionsProofs --------------------------
(***************************************************************************)
(* Theorems about the image on its way to the disk (StreamVerify) and the  *)
(* way from the written image to the injected configuration (Partitions),  *)
(* for bodies, images, bounds and disks of any length, chunks of any size, *)
(* any tables and any order of the names.                                  *)
(***************************************************************************)
EXTENDS Partitions, NaturalLemmas

-----------------------------------------------------------------------------
(* The stream.                                                              *)

\* The disk holds what was written of the body and below that what it held before;
\* nothing is written past what was read, nor past the bound.
DiskFits ==
  /\ disk \in Seq({"old", "image", "wrong"}) /\ body \in Seq({"image", "wrong"})
  /\ reported \in {0, Len(disk)}
  /\ total \in Nat /\ written \in Nat
  /\ written <= total /\ written <= Cap /\ written <= Len(disk) /\ total <= Limited
  /\ \A i \in 1 .. Len(disk) : disk[i] = IF i <= written THEN body[i] ELSE "old"

\* What the state of the stream says of the counts; at its end, of the body.
CountsFit ==
  /\ stream \in {"connect", "read", "ok"} => written = total /\ total <= Cap
  /\ stream = "write" => total <= Cap
  /\ stream = "ok" => Len(body) = total /\ IsImage(body)
  /\ stream = "mismatch" => Len(body) <= Cap /\ ~IsImage(body)
  /\ stream = "tooLarge" => Cap < Len(body)

StreamInv == StreamTypeOK /\ DiskFits /\ CountsFit

\* The bound is a natural number, and what may be read is at most one block past it.
LEMMA CapIsNatural ==
  ASSUME DiskFits
  PROVE  /\ Cap \in Nat /\ Limited \in Nat /\ Len(body) \in Nat
         /\ Limited <= Len(body) /\ Limited <= Cap + 1
         /\ Limited <= Cap => Limited = Len(body)
BY StreamAssumption DEF DiskFits, Cap, Limited, Shorter

\* The bound depends on what was reported alone.
LEMMA SameCap ==
  ASSUME reported' = reported, body' = body
  PROVE  Cap' = Cap /\ Limited' = Limited
BY DEF Cap, Limited, Shorter

LEMMA StreamStarts ==
  ASSUME StreamInit
  PROVE  StreamInv
<1>1. PICK c \in Capacities : disk = [i \in 1 .. c |-> "old"] /\ reported \in {0, c}
  BY DEF StreamInit
<1>2. c \in Nat
  BY StreamAssumption
<1>3. disk \in Seq({"old", "image", "wrong"}) /\ Len(disk) = c
  BY <1>1, <1>2
<1>4. body \in Bodies /\ body \in Seq({"image", "wrong"}) /\ Len(body) \in Nat
  BY StreamAssumption DEF StreamInit
<1>5. Cap \in Nat /\ 0 <= Limited
  BY <1>1, <1>2, <1>4, StreamAssumption DEF Cap, Limited, Shorter
<1>6. total = 0 /\ written = 0 /\ stream = "connect"
  BY DEF StreamInit
<1>7. DiskFits
  <2>1. \A i \in 1 .. Len(disk) : disk[i] = "old" /\ ~(i <= 0)
    BY <1>1, <1>2, <1>3
  <2> QED
    BY <1>1, <1>3, <1>4, <1>5, <1>6, <2>1, <1>2 DEF DiskFits
<1>8. StreamTypeOK /\ CountsFit
  BY <1>2, <1>3, <1>4, <1>5, <1>6 DEF StreamTypeOK, CountsFit
<1> QED
  BY <1>7, <1>8 DEF StreamInv

\* Nothing of it depends on more than the stream.
LEMMA StreamStays ==
  ASSUME StreamInv, UNCHANGED streaming
  PROVE  StreamInv'
BY DEF streaming, StreamInv, StreamTypeOK, DiskFits, CountsFit, Cap, Limited, Shorter, IsImage

\* Every step of the stream.
LEMMA StreamKeepsInvariant ==
  ASSUME StreamInv, StreamStep
  PROVE  StreamInv'
<1> USE DEF StreamInv
<1>1. Cap' = Cap /\ Limited' = Limited /\ IsImage(body)' = IsImage(body)
  BY SameCap DEF StreamStep, Connect, ReadChunk, ReadFails, WriteChunk, EndOfBody, Return,
     IsImage
<1>2. /\ Cap \in Nat /\ Limited \in Nat /\ Len(body) \in Nat
      /\ Limited <= Len(body) /\ Limited <= Cap + 1
      /\ Limited <= Cap => Limited = Len(body)
  BY CapIsNatural
<1>3. CASE Connect
  BY <1>1, <1>3 DEF Connect, Return, StreamTypeOK, DiskFits, CountsFit
<1>4. CASE ReadChunk
  <2>1. PICK n \in 1 .. MaxRead :
          /\ total + n <= Limited
          /\ total' = total + n
          /\ stream' = IF total + n > Cap THEN "tooLarge" ELSE "write"
    BY <1>4 DEF ReadChunk
  <2>2. n \in Nat /\ UNCHANGED <<body, reported, disk, written>> /\ stream = "read"
    BY <1>4, StreamAssumption DEF ReadChunk
  <2>3. DiskFits'
    BY <1>1, <1>2, <2>1, <2>2 DEF DiskFits
  <2>4. CountsFit'
    BY <1>1, <1>2, <2>1, <2>2 DEF DiskFits, CountsFit
  <2>5. StreamTypeOK'
    BY <1>1, <1>2, <2>1, <2>2 DEF DiskFits, StreamTypeOK
  <2> QED
    BY <2>3, <2>4, <2>5
<1>5. CASE ReadFails
  BY <1>1, <1>5 DEF ReadFails, Return, StreamTypeOK, DiskFits, CountsFit
<1>6. CASE WriteChunk
  <2>1. PICK upto \in written .. total :
          /\ upto <= Len(disk)
          /\ disk' = [i \in DOMAIN disk |-> IF i \in written + 1 .. upto THEN body[i]
                                                                         ELSE disk[i]]
          /\ written' = upto
          /\ stream' = IF upto = total THEN "read" ELSE "writeFailed"
    BY <1>6 DEF WriteChunk
  <2>2. UNCHANGED <<body, reported, total>> /\ stream = "write"
    BY <1>6 DEF WriteChunk
  <2>3. upto \in Nat /\ upto <= total /\ written <= upto /\ upto <= Len(body)
    BY <1>2, <2>1 DEF DiskFits
  <2>4. \A i \in 1 .. Len(disk) : i <= upto => body[i] \in {"image", "wrong"}
    BY <1>2, <2>3 DEF DiskFits
  <2>5. /\ disk' \in Seq({"old", "image", "wrong"}) /\ Len(disk') = Len(disk)
        /\ \A i \in 1 .. Len(disk) : disk'[i] = IF i <= upto THEN body[i] ELSE "old"
    <3>1. disk' = [i \in 1 .. Len(disk) |-> IF i <= upto THEN body[i] ELSE "old"]
      BY <2>1, <2>3 DEF DiskFits
    <3>2. Len(disk) \in Nat
      BY DEF DiskFits
    <3> QED
      BY <2>4, <3>1, <3>2
  <2>6. total \in Nat /\ total <= Cap /\ total <= Limited
    BY <2>2 DEF CountsFit, DiskFits
  <2>7. DiskFits'
    <3>1. /\ body' \in Seq({"image", "wrong"}) /\ reported' \in {0, Len(disk')}
          /\ total' \in Nat /\ total' <= Limited'
      BY <1>1, <2>2, <2>5, <2>6 DEF DiskFits
    <3>2. /\ written' \in Nat /\ written' <= total'
          /\ written' <= Cap' /\ written' <= Len(disk')
      BY <1>1, <1>2, <2>1, <2>2, <2>3, <2>5, <2>6
    <3>3. \A i \in 1 .. Len(disk') : disk'[i] = IF i <= written' THEN body'[i] ELSE "old"
      BY <2>1, <2>2, <2>5
    <3> QED
      BY <2>5, <3>1, <3>2, <3>3 DEF DiskFits
  <2>8. stream' \in {"read", "writeFailed"} /\ (stream' = "read" => written' = total)
    BY <2>1
  <2>9. CountsFit'
    BY <1>1, <2>2, <2>6, <2>8 DEF CountsFit
  <2>10. StreamTypeOK'
    BY <1>1, <1>2, <2>1, <2>2, <2>3, <2>5, <2>6, <2>8 DEF StreamTypeOK
  <2> QED
    BY <2>7, <2>9, <2>10
<1>7. CASE EndOfBody
  <2>1. /\ UNCHANGED <<body, reported, disk, total, written>>
        /\ stream = "read" /\ total = Limited
        /\ IF IsImage(SubSeq(body, 1, total)) THEN stream' \in {"ok", "syncFailed"}
                                              ELSE stream' = "mismatch"
    BY <1>7 DEF EndOfBody, Return
  <2>2. total <= Cap /\ total = Len(body) /\ written = total
    BY <1>2, <2>1 DEF CountsFit
  <2>3. SubSeq(body, 1, total) = body
    BY <2>2 DEF DiskFits
  <2> QED
    BY <1>1, <1>2, <2>1, <2>2, <2>3 DEF StreamTypeOK, DiskFits, CountsFit
<1> QED
  BY <1>3, <1>4, <1>5, <1>6, <1>7 DEF StreamStep

\* The invariant says what StreamIsExact promises.
LEMMA StreamInvIsExact ==
  ASSUME StreamInv
  PROVE  StreamIsExact /\ (stream = "ok" => written = ImageLength)
<1> USE DEF StreamInv
<1>1. Cap \in Nat
  BY CapIsNatural
<1>2. stream = "ok" => /\ IsImage(body) /\ written = ImageLength
                       /\ \A i \in 1 .. ImageLength : body[i] = "image"
  BY DEF CountsFit, IsImage, DiskFits
<1>3. DOMAIN disk = 1 .. Len(disk) /\ Len(disk) \in Nat
  BY DEF DiskFits
<1>4. \A i \in DOMAIN disk : i > Cap => disk[i] = "old"
  <2> SUFFICES ASSUME NEW i \in 1 .. Len(disk), i > Cap PROVE disk[i] = "old"
    BY <1>3
  <2>1. ~(i <= written)
    BY <1>1 DEF DiskFits
  <2> QED
    BY <2>1 DEF DiskFits
<1>5. stream = "ok" =>
        \A i \in DOMAIN disk : disk[i] = IF i <= ImageLength THEN "image" ELSE "old"
  <2> SUFFICES ASSUME stream = "ok", NEW i \in 1 .. Len(disk)
               PROVE  disk[i] = IF i <= ImageLength THEN "image" ELSE "old"
    BY <1>3
  <2>1. disk[i] = IF i <= ImageLength THEN body[i] ELSE "old"
    BY <1>2 DEF DiskFits
  <2>2. i <= ImageLength => i \in 1 .. ImageLength
    BY StreamAssumption
  <2> QED
    BY <1>2, <2>1, <2>2
<1> QED
  BY <1>1, <1>2, <1>4, <1>5 DEF StreamIsExact, CountsFit, DiskFits

-----------------------------------------------------------------------------
(* The least of a set by number or by name.                                 *)

LEMMA LeastInGptOrder ==
  ASSUME NEW S, S \subseteq Numbers, S # {}
  PROVE  /\ LeastBy(InGptOrder, S) \in S
         /\ \A n \in S : LeastBy(InGptOrder, S) <= n
<1>1. \E n \in S : \A m \in S : n <= m
  BY NatLeast, NumbersAssumption
<1> QED
  BY <1>1 DEF LeastBy, InGptOrder

LEMMA LeastInNameOrder ==
  ASSUME NEW S, S \subseteq Numbers, S # {}
  PROVE  LeastBy(InNameOrder, S) \in S
<1> DEFINE Ranks == {NameRank[n] : n \in S}
<1>1. Ranks \subseteq Nat /\ Ranks # {}
  BY NumbersAssumption
<1>2. PICK r \in Ranks : \A q \in Ranks : r <= q
  <2> HIDE DEF Ranks
  <2> QED
    BY <1>1, NatLeast
<1>3. \E n \in S : \A m \in S : NameRank[n] <= NameRank[m]
  BY <1>2
<1> QED
  BY <1>3 DEF LeastBy, InNameOrder

-----------------------------------------------------------------------------
(* The lookups.                                                             *)

BeforeEspIsOver == {"reread", "openDisk", "readGpt", "listEsp", "espNumber", "mountEsp"}

\* The partitions of the tables are numbered, and a run comes to them after the write.
TablesFit ==
  /\ DOMAIN table.parts \subseteq Numbers
  /\ step # "reread" => stream = "ok"
  /\ step = "reread" => entry = NoDevice
  /\ step \in {"reread", "openDisk", "readGpt"} => listed = {}
  /\ named = "target" => listed \subseteq DOMAIN table.parts /\ opened # "other"
  /\ step \in {"reread", "openDisk"} => opened = "none"
  /\ step \in {"readGpt", "listEsp", "espNumber", "mountEsp"} => opened # "none"

\* The ESP found is among the entries of the GPT and the least of those listed.
EspFits ==
  /\ step \in BeforeEspIsOver => how = "none" /\ entry = NoDevice /\ esp = NoDevice
  /\ step \in {"listOem", "labels", "oemNumber", "inject", "done"} => how # "none"
  /\ step \in {"listEsp", "espNumber", "mountEsp"} =>
       /\ entries = EspsOf(TableRead)
       /\ opened = "target" => table.header = "ok"
  /\ step \in {"espNumber", "mountEsp"} =>
       /\ found \in entries \cap listed
       /\ \A n \in entries \cap listed : found <= n
  /\ step = "mountEsp" /\ device # NoNumber => device.part = found

\* The COS_OEM found is one of the image unless the disk was replaced, and only the
\* device recorded for it is mounted, last.
OemFits ==
  /\ step # "done" => oem = NoDevice
  /\ step \in {"oemNumber", "inject"} /\ named = "target" =>
       found \in DOMAIN table.parts /\ table.parts[found] = "oem"
  /\ step = "inject" /\ device # NoNumber => device.part = found

LookupInv == TypeOK /\ TablesFit /\ EspFits /\ OemFits /\ EspStepIsRight /\ OemStepIsRight

IInv == StreamInv /\ LookupInv

\* What is seen under the name of the target: partitions that have a number, those of the
\* image as long as no other disk has the name, and none when no disk has it.
LEMMA SeenByName ==
  ASSUME TypeOK, TablesFit
  PROVE  /\ VisibleNow \subseteq Numbers
         /\ named = "target" => /\ VisibleNow \subseteq DOMAIN table.parts
                                /\ PartsNow = table.parts
         /\ named = "none" => VisibleNow = {}
<1>1. CASE named = "target"
  BY <1>1 DEF TypeOK, TablesFit, VisibleNow, PartsNow
<1>2. CASE named = "other"
  BY <1>2, PartsAssumption DEF VisibleNow, PartsNow
<1>3. CASE named = "none"
  BY <1>3 DEF VisibleNow, PartsNow
<1> QED
  BY <1>1, <1>2, <1>3 DEF TypeOK

\* The number recorded is that of the partition found, if there is one.
LEMMA RecordedDevice ==
  ASSUME TypeOK, TablesFit, RecordDevice
  PROVE  /\ device' \in Number \cup {NoNumber}
         /\ device' # NoNumber => device'.part = found
<1>1. CASE device' = NoNumber
  BY <1>1
<1>2. ASSUME NEW p \in VisibleNow \cap {found}, device' = [disk |-> NumberNow, part |-> p]
      PROVE  device' \in Number /\ device'.part = found
  <2>1. p \in Numbers /\ p = found /\ named \in {"target", "other"}
    BY <1>2, SeenByName DEF TypeOK
  <2> QED
    BY <1>2, <2>1 DEF Number, NumberNow
<1> QED
  BY <1>1, <1>2 DEF RecordDevice

\* What is mounted has the recorded number: it is a partition of the disk that has the
\* name now, with the place that was recorded.
LEMMA MountedDevice ==
  ASSUME TypeOK, TablesFit, Mountable
  PROVE  /\ device # NoNumber /\ device \in Number
         /\ Mounted \in Device /\ Mounted # NoDevice /\ Mounted.unit = named
         /\ Mounted.part = device.part
         /\ ~reused => device = [disk |-> Mounted.unit, part |-> Mounted.part]
<1>1. named # "none" /\ device.part \in Numbers /\ named \in {"target", "other"}
  BY SeenByName DEF Mountable, TypeOK
<1>2. device.disk \in {"target", "other"} /\ (~reused => device.disk = named)
  BY <1>1 DEF Mountable, NumberNow
<1>3. device # NoNumber /\ device \in Number
  BY <1>2 DEF NoNumber, TypeOK
<1> QED
  BY <1>1, <1>2, <1>3 DEF Mounted, Device, NoDevice, Number

\* A run that fails keeps what it has.
LEMMA FailureKeepsInvariant ==
  ASSUME StreamInv, LookupInv, step \notin {"reread", "done"}, Fails,
         UNCHANGED <<streaming, disks>>
  PROVE  LookupInv'
<1>1. /\ UNCHANGED <<named, reused, sectors, table, visible, opened, entries, listed, found,
                    device>>
      /\ UNCHANGED <<how, esp, oem, entry>> /\ UNCHANGED streaming /\ step' = "failed"
  BY DEF Fails, Goto, lookup, outcome, disks
<1>2. StreamTypeOK' /\ stream' = stream
  BY <1>1 DEF LookupInv, TypeOK, StreamTypeOK, streaming, Cap
<1>3. oem = NoDevice
  BY DEF LookupInv, OemFits
<1>4. TypeOK'
  BY <1>1, <1>2 DEF LookupInv, TypeOK
<1> QED
  BY <1>1, <1>2, <1>3, <1>4 DEF LookupInv, TablesFit, EspFits, OemFits, EspStepIsRight,
     OemStepIsRight, BeforeEspIsOver, TableRead

\* The partition table is read again.
LEMMA RereadKeepsInvariant ==
  ASSUME StreamInv, LookupInv, Reread
  PROVE  LookupInv'
<1>1. /\ step = "reread" /\ stream = "ok"
      /\ UNCHANGED <<named, reused, opened, entries, listed, found, device>>
      /\ UNCHANGED <<how, esp, oem, entry>> /\ UNCHANGED streaming /\ stream' = stream
      /\ step' \in {"openDisk", "failed"}
  BY DEF Reread, Goto, lookup, outcome, streaming
<1>2. StreamTypeOK'
  BY <1>1 DEF LookupInv, TypeOK, StreamTypeOK, streaming, Cap
<1>3. /\ sectors' \in {512, 4096} /\ visible' \subseteq DOMAIN table'.parts
      /\ DOMAIN table'.parts \subseteq Numbers
  BY PartsAssumption DEF Reread, LookupInv, TypeOK, TablesFit
<1>4. /\ how = "none" /\ entry = NoDevice /\ esp = NoDevice /\ oem = NoDevice /\ listed = {}
  BY <1>1 DEF LookupInv, TablesFit, EspFits, OemFits, BeforeEspIsOver
<1>5. TypeOK'
  BY <1>1, <1>2, <1>3 DEF LookupInv, TypeOK
<1> QED
  BY <1>1, <1>3, <1>4, <1>5 DEF LookupInv, TablesFit, EspFits, OemFits, EspStepIsRight,
     OemStepIsRight, BeforeEspIsOver, TableRead

\* The steps of the lookup of the ESP.
LEMMA EspStepKeepsInvariant ==
  ASSUME StreamInv, LookupInv, EspStep
  PROVE  LookupInv'
<1>0. /\ UNCHANGED <<streaming, named, reused, sectors, table, visible>>
      /\ step \notin {"reread", "done"} /\ step \in BeforeEspIsOver
  BY DEF EspStep, SkipOnBios, OpenDisk, ReadGpt, ListEsp, EspNumber, MountEsp, disks,
     BeforeEspIsOver
<1>1. /\ stream = "ok" /\ stream' = "ok" /\ how = "none" /\ entry = NoDevice
      /\ esp = NoDevice /\ oem = NoDevice
  BY <1>0 DEF streaming, LookupInv, TablesFit, EspFits, OemFits, BeforeEspIsOver
<1>2. StreamTypeOK'
  BY <1>0 DEF LookupInv, TypeOK, StreamTypeOK, streaming, Cap
<1>14. ASSUME named = "target", step \in {"readGpt", "listEsp", "espNumber", "mountEsp"}
       PROVE  opened = "target" /\ TableRead = table /\ BlocksRead = sectors
  BY <1>14 DEF LookupInv, TypeOK, TablesFit, TableRead, BlocksRead
<1>3. CASE Fails
  BY <1>0, <1>3, FailureKeepsInvariant DEF disks
<1>4. CASE /\ UNCHANGED <<opened, entries, listed, found, device, esp, oem, entry>>
           /\ step \in {"openDisk", "readGpt"}
           /\ step' = "listOem" /\ how' \in {"bios", "absent"}
           /\ how' = "absent" /\ named = "target" =>
                \/ table.header = "none"
                \/ ~(table.size = DefaultSize /\ sectors = DefaultSize)
  BY <1>0, <1>1, <1>2, <1>4
     DEF LookupInv, TypeOK, TablesFit, EspFits, OemFits, EspStepIsRight,
     OemStepIsRight, BeforeEspIsOver, TableRead
<1>5. CASE OpenDisk /\ step' = "readGpt"
  <2>1. /\ step = "openDisk" /\ opened' = named /\ SameNumber
        /\ UNCHANGED <<entries, listed, found, device, how, esp, oem, entry>>
    BY <1>5 DEF OpenDisk, Fails, Goto, lookup, outcome
  <2>2. named \in {"target", "other"}
    BY <2>1 DEF SameNumber, NumberNow, LookupInv, TypeOK
  <2> QED
    BY <1>0, <1>1, <1>2, <1>5, <2>1, <2>2
       DEF LookupInv, TypeOK, TablesFit, EspFits, OemFits, EspStepIsRight,
       OemStepIsRight, BeforeEspIsOver, TableRead
<1>6. CASE ReadGpt /\ step' = "listEsp"
  <2>1. /\ step = "readGpt" /\ UNCHANGED <<listed, found, device, how, esp, oem, entry>>
        /\ entries' = EspsOf(TableRead) /\ TableRead.header = "ok" /\ opened' = opened
    BY <1>6 DEF ReadGpt, Fails, Absent, Goto, outcome
  <2>2. entries' \subseteq Numbers
    BY <2>1, PartsAssumption DEF LookupInv, TablesFit, TableRead, EspsOf
  <2> QED
    BY <1>0, <1>1, <1>2, <1>6, <2>1, <2>2
       DEF LookupInv, TypeOK, TablesFit, EspFits, OemFits, EspStepIsRight,
       OemStepIsRight, BeforeEspIsOver, TableRead
<1>7. CASE ListEsp
  <2>1. /\ step = "listEsp" /\ UNCHANGED <<opened, entries, device, esp, oem, entry>>
        /\ listed' \subseteq Numbers
        /\ named = "target" => listed' \subseteq DOMAIN table.parts
        /\ entries = EspsOf(TableRead)
        /\ entries \subseteq Numbers
    BY <1>7, SeenByName DEF ListEsp, outcome, LookupInv, EspFits, TypeOK
  <2>2. CASE entries \cap listed' = {}
    <3>1. step' = "listOem" /\ how' = "absent" /\ found' = found
      BY <1>7, <2>2 DEF ListEsp, Goto
    <3>2. named = "target" => /\ table.header = "ok" /\ entries = EspsOf(table)
                              /\ \A n \in listed' : table.parts[n] # "esp"
      BY <1>14, <2>1, <2>2 DEF LookupInv, EspFits, EspsOf
    <3> QED
      BY <1>0, <1>1, <1>2, <2>1, <2>2, <3>1, <3>2
         DEF LookupInv, TypeOK, TablesFit, EspFits, OemFits, EspStepIsRight,
         OemStepIsRight, BeforeEspIsOver, TableRead
  <2>3. CASE entries \cap listed' # {}
    <3>1. step' = "espNumber" /\ how' = how /\ found' = LeastBy(InGptOrder, entries \cap listed')
      BY <1>7, <2>3 DEF ListEsp, Goto, FirstEsp, outcome
    <3>2. found' \in entries \cap listed' /\ \A n \in entries \cap listed' : found' <= n
      BY <2>1, <2>3, <3>1, LeastInGptOrder
    <3> QED
      BY <1>0, <1>1, <1>2, <2>1, <3>1, <3>2
         DEF LookupInv, TypeOK, TablesFit, EspFits, OemFits, EspStepIsRight,
         OemStepIsRight, BeforeEspIsOver, TableRead
  <2> QED
    BY <2>2, <2>3
<1>8. CASE EspNumber
  <2>1. /\ step = "espNumber" /\ UNCHANGED <<opened, entries, listed, found, how, esp, oem, entry>>
        /\ step' = "mountEsp"
    BY <1>8 DEF EspNumber, Goto, outcome
  <2>2. device' \in Number \cup {NoNumber} /\ (device' # NoNumber => device'.part = found)
    BY <1>8, RecordedDevice DEF EspNumber, LookupInv
  <2> QED
    BY <1>0, <1>1, <1>2, <2>1, <2>2
       DEF LookupInv, TypeOK, TablesFit, EspFits, OemFits, EspStepIsRight,
       OemStepIsRight, BeforeEspIsOver, TableRead
<1>9. CASE MountEsp /\ how' = "mounted"
  <2>1. /\ step = "mountEsp" /\ UNCHANGED <<opened, entries, listed, found, device, oem>>
        /\ step' = "listOem" /\ esp' = Mounted /\ Mountable
        /\ entry' \in {NoDevice, [unit |-> opened, part |-> found]}
    BY <1>1, <1>9 DEF MountEsp, Fails, Goto, lookup, outcome
  <2>2. /\ device # NoNumber /\ device \in Number
        /\ Mounted \in Device /\ Mounted # NoDevice /\ Mounted.unit = named
        /\ Mounted.part = device.part
        /\ ~reused => device = [disk |-> Mounted.unit, part |-> Mounted.part]
    BY <2>1, MountedDevice DEF LookupInv
  <2>3. /\ device.part = found /\ found \in entries \cap listed
        /\ \A n \in entries \cap listed : found <= n
        /\ entries = EspsOf(TableRead)
    BY <2>1, <2>2 DEF LookupInv, EspFits
  <2>4. found \in Numbers /\ listed \subseteq Numbers
        /\ (named = "target" => listed \subseteq DOMAIN table.parts)
    BY <2>3 DEF LookupInv, TypeOK, TablesFit
  <2>5. ASSUME named = "target"
        PROVE  /\ opened = "target" /\ table.parts[found] = "esp"
               /\ \A n \in listed : n < found => table.parts[n] # "esp"
    <3>1. opened = "target" /\ entries = EspsOf(table)
      BY <1>14, <2>1, <2>3, <2>5
    <3>2. ASSUME NEW n \in listed, n < found, table.parts[n] = "esp"
          PROVE  FALSE
      <4>1. n \in Nat /\ found \in Nat
        BY <2>4, NumbersAssumption
      <4>2. n \in entries
        BY <2>4, <2>5, <3>1, <3>2 DEF EspsOf
      <4> QED
        BY <2>3, <3>2, <4>1, <4>2
    <3> QED
      BY <2>3, <3>1, <3>2 DEF EspsOf
  <2>6. /\ entry' \in Device \cup {NoDevice}
        /\ named = "target" => entry' \in {NoDevice, esp'}
    <3>1. opened \in {"target", "other"}
      BY <2>1 DEF LookupInv, TypeOK, TablesFit
    <3> QED
      BY <2>1, <2>3, <2>4, <2>5, <3>1 DEF Device, Mounted
  <2>7. EspStepIsRight'
    BY <1>0, <1>9, <2>1, <2>2, <2>3, <2>5, <2>6 DEF EspStepIsRight
  <2>8. TypeOK'
    BY <1>0, <1>2, <2>1, <2>2, <2>6, <1>9 DEF LookupInv, TypeOK
  <2>9. TablesFit' /\ EspFits' /\ OemFits' /\ OemStepIsRight'
    BY <1>0, <1>1, <1>9, <2>1
       DEF LookupInv, TablesFit, EspFits, OemFits, OemStepIsRight, BeforeEspIsOver
  <2> QED
    BY <2>7, <2>8, <2>9 DEF LookupInv
<1>10. CASE SkipOnBios
  BY <1>4, <1>10 DEF SkipOnBios, Goto, lookup
<1>11. CASE OpenDisk
  BY <1>3, <1>5, <1>11 DEF OpenDisk, Goto
<1>12. CASE ReadGpt
  <2>1. CASE ~Fails /\ step' # "listEsp"
    <3>1. /\ Absent /\ opened = named /\ step = "readGpt"
          /\ TableRead.header = "none" \/ TableRead.size # BlocksRead
               \/ TableRead.size # DefaultSize
      BY <1>12, <2>1 DEF ReadGpt, Goto
    <3>2. /\ UNCHANGED <<opened, entries, listed, found, device, esp, oem, entry>>
          /\ step' = "listOem" /\ how' = "absent"
      BY <3>1 DEF Absent, Goto, lookup
    <3>3. named = "target" => TableRead = table /\ BlocksRead = sectors
      BY <1>14, <3>1
    <3> QED
      BY <1>4, <3>1, <3>2, <3>3
  <2>2. CASE Fails \/ step' = "listEsp"
    BY <1>3, <1>6, <1>12, <2>2
  <2> QED
    BY <2>1, <2>2
<1>13. CASE MountEsp
  BY <1>3, <1>9, <1>13 DEF MountEsp
<1> QED
  BY <1>7, <1>8, <1>10, <1>11, <1>12, <1>13 DEF EspStep

\* The steps of the lookup of COS_OEM, and the injection.
LEMMA OemStepKeepsInvariant ==
  ASSUME StreamInv, LookupInv, OemStep
  PROVE  LookupInv'
<1>0. /\ UNCHANGED <<streaming, named, reused, sectors, table, visible>>
      /\ step \in {"listOem", "labels", "oemNumber", "inject"}
  BY DEF OemStep, ListOem, ReadLabels, OemNumber, Inject, disks
<1>1. /\ stream = "ok" /\ stream' = "ok" /\ how # "none" /\ oem = NoDevice
  BY <1>0 DEF streaming, LookupInv, TablesFit, EspFits, OemFits
<1>2. StreamTypeOK'
  BY <1>0 DEF LookupInv, TypeOK, StreamTypeOK, streaming, Cap
<1>3. CASE Fails
  BY <1>0, <1>3, FailureKeepsInvariant DEF disks
<1>4. CASE ListOem
  <2>1. /\ UNCHANGED <<opened, entries, found, device, how, esp, oem, entry>>
        /\ step' \in {"failed", "labels"} /\ listed' = VisibleNow
    BY <1>4 DEF ListOem, Goto, outcome
  <2>2. listed' \subseteq Numbers /\ (named = "target" => listed' \subseteq DOMAIN table.parts)
    BY <2>1, SeenByName DEF LookupInv
  <2> QED
    BY <1>0, <1>1, <1>2, <2>1, <2>2
       DEF LookupInv, TypeOK, TablesFit, EspFits, OemFits, EspStepIsRight,
       OemStepIsRight, BeforeEspIsOver, TableRead
<1>5. CASE ReadLabels /\ ~Fails
  <2>1. PICK readable \in SUBSET (listed \cap VisibleNow) :
          LET labelled == {n \in readable : PartsNow[n] = "oem"}
          IN  /\ labelled # {}
              /\ found' = LeastBy(InNameOrder, labelled)
              /\ step' = "oemNumber" /\ UNCHANGED <<opened, entries, listed, device, outcome>>
    BY <1>5 DEF ReadLabels, Goto
  <2> DEFINE labelled == {n \in readable : PartsNow[n] = "oem"}
  <2>2. labelled \subseteq Numbers /\ labelled # {} /\ labelled \subseteq VisibleNow
    BY <2>1, SeenByName DEF LookupInv
  <2>3. found' \in labelled
    <3> HIDE DEF labelled
    <3>1. found' = LeastBy(InNameOrder, labelled)
      BY <2>1 DEF labelled
    <3> QED
      BY <2>2, <3>1, LeastInNameOrder
  <2>4. found' \in Numbers /\ (named = "target" => /\ found' \in DOMAIN table.parts
                                                   /\ table.parts[found'] = "oem")
    BY <2>2, <2>3, SeenByName DEF LookupInv
  <2>5. /\ UNCHANGED <<opened, entries, listed, device, how, esp, oem, entry>>
        /\ step' = "oemNumber"
    BY <2>1 DEF outcome
  <2> QED
    BY <1>0, <1>1, <1>2, <2>4, <2>5
       DEF LookupInv, TypeOK, TablesFit, EspFits, OemFits, EspStepIsRight,
       OemStepIsRight, BeforeEspIsOver, TableRead
<1>6. CASE OemNumber
  <2>1. /\ step = "oemNumber" /\ UNCHANGED <<opened, entries, listed, found, how, esp, oem, entry>>
        /\ step' = "inject"
    BY <1>6 DEF OemNumber, Goto, outcome
  <2>2. device' \in Number \cup {NoNumber} /\ (device' # NoNumber => device'.part = found)
    BY <1>6, RecordedDevice DEF OemNumber, LookupInv
  <2> QED
    BY <1>0, <1>1, <1>2, <2>1, <2>2
       DEF LookupInv, TypeOK, TablesFit, EspFits, OemFits, EspStepIsRight,
       OemStepIsRight, BeforeEspIsOver, TableRead
<1>7. CASE Inject /\ ~Fails
  <2>1. /\ step = "inject" /\ UNCHANGED <<opened, entries, listed, found, device, how, esp, entry>>
        /\ step' = "done" /\ oem' = Mounted /\ Mountable
    BY <1>7 DEF Inject, Goto, lookup
  <2>2. /\ device # NoNumber /\ device \in Number
        /\ Mounted \in Device /\ Mounted # NoDevice /\ Mounted.unit = named
        /\ Mounted.part = device.part
        /\ ~reused => device = [disk |-> Mounted.unit, part |-> Mounted.part]
    BY <2>1, MountedDevice DEF LookupInv
  <2>3. device.part = found
    BY <2>1, <2>2 DEF LookupInv, OemFits
  <2>4. named = "target" => table.parts[found] = "oem"
    BY <2>1 DEF LookupInv, OemFits
  <2>5. stream' = "ok" /\ written' = ImageLength
    BY <1>0, <1>1, StreamInvIsExact DEF streaming
  <2> QED
    BY <1>0, <1>1, <1>2, <2>1, <2>2, <2>3, <2>4, <2>5
       DEF LookupInv, TypeOK, TablesFit, EspFits, OemFits, EspStepIsRight,
       OemStepIsRight, BeforeEspIsOver, TableRead
<1> QED
  BY <1>3, <1>4, <1>5, <1>6, <1>7 DEF OemStep

\* The disk goes away, or another gets its name: never the target again.
LEMMA ReplaceKeepsInvariant ==
  ASSUME StreamInv, LookupInv, Replace
  PROVE  LookupInv'
<1>1. /\ UNCHANGED <<streaming, sectors, table, visible, step, opened, entries, listed, found,
                    device>>
      /\ UNCHANGED <<how, esp, oem, entry>> /\ named' \in {"none", "other"}
      /\ stream' = stream /\ written' = written /\ oem = NoDevice /\ reused' \in BOOLEAN
  BY DEF LookupInv, OemFits, TypeOK, Replace, Unplug, Plug, lookup, outcome, streaming
<1>2. StreamTypeOK'
  BY <1>1 DEF LookupInv, TypeOK, StreamTypeOK, streaming, Cap
<1> QED
  BY <1>1, <1>2 DEF LookupInv, TypeOK, TablesFit, EspFits, OemFits, EspStepIsRight,
     OemStepIsRight, BeforeEspIsOver, TableRead

\* The stream is over before anything is looked up.
LEMMA StreamStepKeepsLookup ==
  ASSUME StreamInv, LookupInv, StreamStep, UNCHANGED <<disks, step, lookup, outcome>>
  PROVE  LookupInv'
<1>1. stream # "ok"
  BY DEF StreamStep, Connect, ReadChunk, ReadFails, WriteChunk, EndOfBody
<1>2. step = "reread" /\ oem = NoDevice
  BY <1>1 DEF LookupInv, TablesFit, OemFits
<1>3. /\ UNCHANGED <<named, reused, sectors, table, visible, step, opened, entries, listed, found,
                    device>>
      /\ UNCHANGED <<how, esp, oem, entry>>
  BY DEF disks, lookup, outcome
<1>4. StreamTypeOK'
  BY StreamKeepsInvariant DEF StreamInv
<1> QED
  BY <1>2, <1>3, <1>4 DEF LookupInv, TypeOK, TablesFit, EspFits, OemFits, EspStepIsRight,
     OemStepIsRight, BeforeEspIsOver, TableRead

\* A run starts with nothing looked up.
LEMMA LookupStarts ==
  ASSUME Init
  PROVE  IInv
<1>1. StreamInv
  BY StreamStarts DEF Init
<1>2. /\ DOMAIN table.parts = {} /\ visible = {} /\ named = "target" /\ sectors = 512
      /\ reused = FALSE /\ opened = "none"
      /\ entries = {} /\ listed = {} /\ found = 0 /\ device = NoNumber
      /\ how = "none" /\ esp = NoDevice /\ oem = NoDevice /\ entry = NoDevice /\ step = "reread"
  BY DEF Init, DefaultSize
<1>3. TypeOK
  BY <1>1, <1>2 DEF TypeOK, StreamInv
<1> QED
  BY <1>1, <1>2, <1>3 DEF IInv, LookupInv, TablesFit, EspFits, OemFits, EspStepIsRight,
     OemStepIsRight, BeforeEspIsOver, TableRead

\* Every step preserves the invariant.
LEMMA NextKeepsInvariant ==
  ASSUME IInv, [Next]_vars
  PROVE  IInv'
<1> USE DEF IInv
<1>1. CASE StreamStep /\ UNCHANGED <<disks, step, lookup, outcome>>
  BY <1>1, StreamKeepsInvariant, StreamStepKeepsLookup
<1>2. CASE Reread
  BY <1>2, RereadKeepsInvariant, StreamStays DEF Reread
<1>3. CASE EspStep
  <2>1. UNCHANGED streaming
    BY <1>3 DEF EspStep, SkipOnBios, OpenDisk, ReadGpt, ListEsp, EspNumber, MountEsp
  <2> QED
    BY <1>3, <2>1, EspStepKeepsInvariant, StreamStays
<1>4. CASE OemStep
  <2>1. UNCHANGED streaming
    BY <1>4 DEF OemStep, ListOem, ReadLabels, OemNumber, Inject
  <2> QED
    BY <1>4, <2>1, OemStepKeepsInvariant, StreamStays
<1>5. CASE Replace
  BY <1>5, ReplaceKeepsInvariant, StreamStays DEF Replace
<1>6. CASE UNCHANGED vars
  <2>1. UNCHANGED <<streaming, disks, step, lookup, outcome>>
    BY <1>6 DEF vars
  <2>2. StreamInv'
    BY <2>1, StreamStays
  <2>3. LookupInv'
    BY <2>1, <2>2 DEF StreamInv, streaming, disks, lookup, outcome, LookupInv, TypeOK,
       TablesFit, EspFits, OemFits, EspStepIsRight, OemStepIsRight, BeforeEspIsOver,
       TableRead
  <2> QED
    BY <2>2, <2>3
<1> QED
  BY <1>1, <1>2, <1>3, <1>4, <1>5, <1>6 DEF Next

-----------------------------------------------------------------------------
(* The theorems.                                                            *)

\* The invariant holds in every state of every behaviour.
THEOREM PartitionsInductive == Spec => []IInv
<1>1. Init => IInv
  BY LookupStarts
<1>2. IInv /\ [Next]_vars => IInv'
  BY NextKeepsInvariant
<1> QED
  BY <1>1, <1>2, PTL DEF Spec

\* Type correctness, that of the stream included: never more than one block past the bound
\* is read (image.rs:264-266).
THEOREM PartitionsTypeCorrect == Spec => []TypeOK
<1>1. IInv => TypeOK
  BY DEF IInv, LookupInv
<1> QED
  BY <1>1, PartitionsInductive, PTL

\* A write that succeeded is the image, all of it and nothing else; a body too long is told
\* from a wrong one, and nothing goes past the bound (image.rs:250-293).
THEOREM StreamsAreExact == Spec => []StreamIsExact
<1>1. IInv => StreamIsExact
  BY StreamInvIsExact DEF IInv
<1> QED
  BY <1>1, PartitionsInductive, PTL

\* As long as the disk is not replaced, the ESP whose loader is checked is the first in
\* the written image's GPT that the kernel exposes, the boot entry names that one, and
\* of a GPT for the disk's blocks an absence is said only if it was read and none of its
\* ESP entries is exposed (esp.rs:342-370).
THEOREM EspStepsAreRight == Spec => []EspStepIsRight
<1>1. IInv => EspStepIsRight
  BY DEF IInv, LookupInv
<1> QED
  BY <1>1, PartitionsInductive, PTL

\* The secret goes to the disk after the verified image and the ESP step, to a COS_OEM of
\* the image unless the disk was replaced, and then to the device recorded unless its
\* number was given again (oem.rs:130-150).
THEOREM OemStepsAreRight == Spec => []OemStepIsRight
<1>1. IInv => OemStepIsRight
  BY DEF IInv, LookupInv
<1> QED
  BY <1>1, PartitionsInductive, PTL
=============================================================================
