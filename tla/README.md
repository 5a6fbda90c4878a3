# Verification of beskar7-inspector

TLA+ models of the inspector (`src/`, Rust), TLC runs on small instances, and
TLAPS proofs. The inspector is PID 1 of a netbooted ramdisk: it inventories the
host, reports to the beskar7 controller, waits for the bootstrap data, writes the
image to the target disk, injects the join secret, tells the controller, reboots.

The host itself is one thread (only the DHCP race starts more). What makes it
hard to get right is around it: every step can fail; the controller may
power-cycle the host between any two steps; the disk and the NVRAM outlive a boot,
memory and mounts do not; and callbacks are lost, delayed, or accepted although
the host saw an error.

## Inventory

| Part (`src/src/`) | State | Operations | Must be true |
|---|---|---|---|
| Pipeline, PID 1 (`run.rs`, `main.rs`) | step, error, target, user_data | Phase 1, report, poll, deploy steps, verdict callbacks, reboot, park | a verdict is true and final; reboot only when confirmed; nothing destroyed unauthorised; every boot ends |
| Callback client (`client.rs`) | attempt counter | submit_report, fetch_bootstrap, provisioned, provision_failed over run_with_retries | bounded; 4xx never retried; a late or lost answer never confuses host and controller |
| Image fetch (`image.rs`) | hash, byte count | fetch_to, stream_verify | only the whole image is Ok; no byte past the bound is written; too large is not taken for a wrong digest |
| Disk write, mounts, injection (`deploy.rs`) | the disk, COS_OEM files, one private mount | write_image, reread_partition_table, prepare_esp, inject_oem_config, reboot_now | never left mounted, no partial configuration left |
| startup.nsh fallback (`deploy.rs` 832-1003) | files on the ESP | write_esp_files, fallback_outcome | marker and script belong together wherever it stops, and on the disk once it has flushed it |
| UEFI boot entry (`efiboot.rs`) | NVRAM: Boot####, BootOrder | ensure_in | no pile-up, foreign entries survive, PXE keeps its priority |
| DHCP race (`net.rs`, `net/dhcp.rs`) | threads, links, leases | bring_up_race, acquire, choose_lease, apply_lease | one addressed link, the right one; it ends |
| NIC selection, static address (`net.rs`) | none; the kernel's links and addresses | select_nics, bring_up_one, bring_up_static | the BOOTIF NIC or none; never two addressed; no lease asked for with a static address |
| Target disk (`target_disk.rs`, open in `deploy.rs`) | the disk selected, minutes before it is opened | select_core, classify, collect_physical, verify_node_identity | never a disk the running system lies on; a pin or nothing; what is opened has the number that was selected |
| Drivers, settle (`modules.rs`) | previous counts, stable polls | load_drivers, Settle::observe, device_counts_in | ends; "settled" means that NIC selection will find its interface |
| Command line (`cmdline.rs`) | one optional value per key | BootParams::parse | each key ends with the last word that may set it; no run without all required keys |
| GPT, ESP and COS_OEM lookup (`esp.rs`, `oem.rs`) | the number recorded of a partition | find_esp_partition, find_esp_in, find_oem_in | the partitions of the written image, the right one of several; absent is not broken |
| Netlink (`net/netlink.rs`) | one socket per request | link_up, link_down, add_address, add_default_route | (outcomes only) an error may leave the change made |
| Probe, SMBIOS, report, Secret | none | reading, formatting | (not modelled) |

Interactions: the pipeline calls every other part in turn. Client, image fetch and
DHCP talk to the outside (controller, image host, DHCP servers); the disk write,
the ESP step and the injection leave state on the disk that later boots find; the
boot entry leaves state in the NVRAM, which the firmware changes as well. The
controller's only handle on a host that does not answer is the power cycle.

The hard behaviours, at the lines where they bite, are the `hazards` of
`PROJECT.json`; each names the properties that would catch it.

## Modules

**Callback** is the client. `Exchange(k, a)` is one HTTP exchange for a request of
kind `k` answered `a`: the closure of one of the four methods, `classify_status`,
`read_capped` and one turn of `run_with_retries`. A request carries its boot, since
the controller renders a token per boot. `sent`, `late`, `heard` are the requests
that left the host, are still under way after the host gave up on them, and were
accepted. `Fate` is the controller and the network: with a 5xx, no answer or a body
that broke off, the host cannot tell whether the request was accepted.

**Provision** extends it with the pipeline, one action per step:

| Action | Code |
|---|---|
| StartUp, SubmitReport | `run.rs` 117-185 (the dry-run exit and require_target are part of SubmitReport) |
| PollBootstrap | `poll_bootstrap`, `classify_poll` |
| OpenTarget | `write_image` up to the fetch: digest, exclusive open, node identity |
| ImageHostAnswers, WriteChunk, StreamFails, StreamEnds | `fetch_to`, `stream_verify` |
| SyncImage | `write_image` after the fetch (`sync_all`) |
| RereadPartitionTable, LocateEsp, RegisterBootEntry, FindOemPartition | `run_deploy_steps` |
| MountPartition, PrepareEsp, WriteConfig, WriteProviderId, RemovePartials, Unmount | `with_private_mount` around `prepare_esp` and `inject_oem_config` |
| ZeroSecret, ReportProvisioned, RebootNow | `run.rs` 200-216 |
| ReportFailure | `report_provision_failure` |
| PowerCycle, Arrival | external: the controller and the network |

`err` is the RunError a boot ends with; `Reported` are those of the deploy steps,
which go through `report_provision_failure`, `Silent` the others. The disk is
"foreign", "torn" (being written) or the verified "image", which it is only once
`SyncImage` flushed it: until then, and if the flush fails, any block of the
configuration files an earlier boot left may still be there (`Overwritten`). Of those
files only none, partial or full matters. A step that can fail has the failure as a
disjunct. WriteConfig may fail with the whole file in place, because the last
`fsync` can fail. MNT_DETACH is taken to succeed: its result is not looked at in
the code (`deploy.rs:685`) and the mount it detaches is known to be there.

**DeployVerdict** is what the pipeline promises, without saying how: it works on a
disk, announces at most one verdict per boot, "provisioned" only of a ready disk,
leaves the disk alone from then on, and enters the target OS only after the
controller learned it. `Provision!KeepsPromise` maps the pipeline onto it.

**EspFallback** is `write_esp_files`, one file operation per step, started on any
layout of scripts and markers an image can bring (one captured from a host this
inspector provisioned has ours). `FailsWith` distinguishes the failures the code
and the kernel do: full (allocating operations only), read-only (from then on
everything), I/O error (anything). `scripts` and `markers` are the directories as the
file system shows them and the unmount writes them out; `onDisk` and `safe` are what
a power loss may find instead: the contents a script may have on the disk, and the
markers that are there for certain. A rename or a removal widens the first or narrows
the second at once, since the kernel may write a directory back at any time, and only
the flush of that directory settles it. `sync_dirs` flushes the root, `\EFI` and the
marker directory, in that order (`SyncRoot`, `SyncMarkers`); `\EFI\BOOT` and
`\EFI\tools` it does not. The contents of a file are on the disk before its rename,
by `write_synced`.

**EfiBoot** is `ensure_in` over an NVRAM kept through several deploys, with a power
loss between the two writes, refused writes, and a firmware that rebuilds BootOrder
between deploys. A Boot#### is abstracted to the five things the code reads from it.

**DhcpRace** is `bring_up_race` with a thread per NIC. `replies` grows only, so a
reply can be received late, twice and out of order; all rounds share a transaction
id, as in `acquire`. `committed` is external: which server holds an address for
the NIC. `Refused` is a netlink request that returns an error: nothing was changed,
or it was and only the acknowledgement did not come.

**Network** extends it with what comes before the exchanges: `LoadDrivers`, the
settle wait (`CountDevices` and `Observe`, because one observation reads the
directory twice), `Select` (`select_nics` and the branch on `beskar7.ip`) and
`bring_up_static` (`StaticLinkUp`, `StaticAddress`). `Register` is the kernel, in its
own time. `Race` is where one hands over to the other.

**Cmdline** is `BootParams::parse`, one word per step; **PollBudget** extends it with
`poll_budget_iterations` and `poll_bootstrap` in seconds. A poll is a whole
`run_with_retries`, so it may take any of `PollTimes`.

**StreamVerify** is `write_image` from the digest to the sync, in blocks: `Limited` is
`take(max_bytes + 1)`, a chunk that exceeds the bound is not written, the digest is
compared after the last write. **Partitions** extends it with the rest of the deploy
as far as it is about finding partitions: `Reread`, the ESP step (`SkipOnBios`,
`OpenDisk`, `ReadGpt`, `ListEsp`, `EspNumber`, `MountEsp`) and the COS_OEM step
(`ListOem`, `ReadLabels`, `OemNumber`, `Inject`). What goes by name (`PartsNow`,
`VisibleNow`, `RecordDevice`) sees whatever disk has the name now; what goes by
number (`SameNumber`, `Mountable`) sees whatever disk has that number now, and the
GPT is read from the disk opened (`opened`). A disk that gets the target's name gets
its own numbers or, if `reused`, the target's. The boot entry (`entry`) is a partition
of the disk whose GPT was read, as it carries that GPT's GUID, start and size. `Provision` has the same steps with their
outcomes left open.

**TargetDisk** is `select` and the open of `write_image`, which come minutes or
hours apart. `ResolvePin`, `NextSource`, `CollectPhysical` (one call of
collect_physical; `stack` holds the calls its recursion has still to make, in any
order of read_dir) and `Select` are the code of `target_disk.rs`; `OpenTarget` is
the exclusive open with `verify_node_identity`; `Unplug` and `Plug` are external.
`Below` is the reference for what a mount really lies on, `Followed` the same for
the layouts the code follows. Kernel names are integers in their sort order, `-w` a
partition of `w`. Disks the running system or an aggregate holds stay plugged in. A
unit plugged in gets any free name and any number that no disk has, freed ones
included.

**MCProvision, MCEspFallback, MCEfiBoot, MCNetwork, MCPollBudget, MCPartitions,
MCTargetDisk** add the instances, and the
statements of the documentation that the violation runs check. **ProvisionProofs,
TargetDiskProofs, EspFallbackProofs, EfiBootProofs, NetworkProofs** (with
DhcpRace), **PartitionsProofs** (with StreamVerify) and **PollBudgetProofs** (with
Cmdline) hold the proofs, **NaturalLemmas** what several of them share. Definitions marked "Mutant" are plausible bugs, one for every
property: put in the place of the definition they mutate, the property fails.

## Runs

| Run | Shows | Bounds |
|---|---|---|
| provision | 7 invariants, 2 action properties, refinement of DeployVerdict, `BootEnds` under fairness | 2 boots, 2 attempts per call, 2 polls |
| esp_fallback | 5 invariants | 2 old markers; every combination of failures |
| efi_boot | 4 invariants, 2 action properties | 3 boot numbers with 9 kinds of entries, 2 images, 2 deploys, BootOrder of up to 3 numbers with duplicates |
| network_bring_up | 6 invariants, `BringUpEnds` under fairness | 3 NICs (two of them may lack an address, two share one), 2 servers, 2 rounds, a settle wait of 4 polls with 2 stable ones |
| image_partitions | 4 invariants | bodies of up to 4 blocks, an image of 2, bounds of 1, 2 and 3, reads of up to 2; 8 tables over partitions 1, 2, 10, block sizes 512 and 4096 |
| command_line | 2 invariants | the two required keys and up to 3 more words, or up to 3 words for those; polls of 0 or 7 s every 5 s, u32::MAX = 4 |
| target_disk | 5 invariants | 3 disks of 6 kinds with 7 pins; 2 stacked aggregates over 3 like disks, 2 mounts; 4 units |
| own_disk_below_partitioned_array, target_disk_replug, failed_inject_keeps_secret, esp_skips_fallback, oem_of_another_disk | disagreements of a comment with the code | below |

Why the bounds are enough: two boots give every situation in which a boot meets
what an earlier one left (disk, NVRAM, late requests); a third meets the same disk
states. Two attempts have a first, a middle-less retry and an exhausted call, and
nothing in the code looks at the attempt number but the comparison with the
maximum; the same holds for polls. The proofs lift these bounds for what they
cover. Three boot numbers allow one network, one foreign and one own entry, and an
exhausted NVRAM. Three NICs have a winner that is not first and losers on both
sides, and with one address on two of them a pin that fits both (a bond has the
address of its first port). Four polls allow two that differ before two that are
stable, and the timeout in the same poll as the last. A body of four blocks lies one
block below, at and above each bound, and the image below, at and above it; a chunk
of two crosses every boundary from both sides. Partition 10 sorts before 2, so name
order and table order differ. Two of the eight required keys stand for all, since
the code treats them alike; three words give a value, its duplicate and a word
between or after. Three disks have a winner, an equal and an excluded one; two
aggregates on disks and partitions have shapes in which a device is reached on two
paths and at different depths, at most five levels deep against a `MAX_SLAVE_DEPTH`
of 16. Deadlock checking is off: a boot, a function and a race really end.

### Disagreements found

* `FailedInjectLeavesNoSecret`: `deploy.rs:70-72` removes the partial
  configuration; the result of the removal is dropped, so it may stay.
* `NotWrittenSkipsFallback`: `deploy.rs:520-521` says that the ESP was left as it
  was; after a read-only remount in step 4 the new pair is in place. Likewise
  "both written or neither" (`deploy.rs:882-884`) fails when the ESP turns read-only
  between the two renames, because the undo cannot remove anything (no run of its own).
* `ExcludesOwnDisks`: `target_disk.rs:28-35` promises that no disk below
  the running system is selected, through md RAID as well, and to over-exclude when
  in doubt. From a mounted partition of an array the code gets to the array and not
  to its members (line 459), and a source such as /dev/root, which resolves to no
  device, excludes nothing (line 408; `Alias` in the model, not in this run). The exclusive open then refuses to write,
  which `WrittenSparesOwn` checks, but the deploy fails although a spare disk may be
  there.
* `WrittenIsSelected`: `target_disk.rs:95-99` and the source's `README.md:196-197` call
  the disk validated "provably the device written", because its number is compared at
  the open. The kernel gives freed numbers again, for sd and vd together with the
  name: a disk plugged in where the selected one was passes. `WrittenHasSelectedNumber`
  states what holds.
* `InjectsOnlyIntoTarget`: `oem.rs:10-22` takes the name of the target for the target.
  The ESP step and the write check the number of the disk they open;
  `find_oem_partition` opens nothing and checks nothing but the number it has just
  read itself. A disk that gets the name in between is given the join secret.
  `OemStepIsRight` states what holds.

Noted in passing, without runs:

* `cmdline.rs:117-118` says that of a duplicate key the last occurrence wins. An empty
  `beskar7.ip` or `beskar7.timeout` does not take an earlier one away, and a malformed
  one ends the run although a good one follows (lines 152-162). `ParsesToTheLast`
  states what the code does.
* `deploy.rs:525-526` says that the check of the loader keeps the boot entry from
  pointing at a missing file. The entry names a partition of the GPT read from the
  disk verified; the loader checked is on the device whose number is read by name
  afterwards (`esp.rs:357-364`). If another disk has the name by then, its loader is
  checked for the target's entry; `EspStepIsRight` speaks of a target in its place.
* `deploy.rs:994-995` calls the renames and removals durable after `sync_dirs`. It is
  not given the directories from which scripts of ours outside the root are removed
  (lines 911 and 958): until the unmount, a power loss may bring back an old script, one
  that the Shell prefers to the root's (`onDisk` holds it).
* `main.rs:30-31` parks "so the controller observes a provisioning timeout", but a host
  also parks after the controller accepted the provisioned callback (`reboot(2)`
  failed, or the answers were lost).
* `cmdline.rs:81` calls `beskar7.timeout` an overall timeout; it bounds the sleep
  between bootstrap polls, and `PollsFitTheTimeout` says by how much the clock may
  exceed it.
* An active APP-category entry for the loader is reused (`efiboot.rs:397-411`)
  although the firmware may not boot it on its own.

## Fairness

`Provision!FairSpec` has weak fairness of `HostStep`: PID 1 keeps running, every
call of the client is bounded by CALL_TIMEOUT, the image body by RECV_BODY_TIMEOUT,
and the rest is local. `ImageHostAnswers` has its own, because the fetcher bounds
the connect and the body but not the wait for the response headers
(`image.rs:205-208`): that the image host answers or drops the connection is an
assumption about it, and without it a boot can wait for ever. Nothing is assumed of
the controller, of late requests or of power cycles. In `Network` PID 1 keeps
running, through the settle wait as well, which is bounded by its timeout whatever
registers; in `DhcpRace` the main thread and each thread's own steps are
fair, the timeout of a receive among them; that a reply arrives or a socket fails is
not assumed.

## Proofs

Every invariant and action property that a passing run checks, and the refinement,
is a theorem for every value of the constants. Only the liveness properties `BootEnds`
and `BringUpEnds` stay with TLC: fairness and ENABLED are out of the prover's
reach. Each module has the same shape: the invariant as named parts, a lemma per
action or group of actions, an inductive theorem, and the properties that follow
from it. Each inductive invariant was checked by TLC before it was proved.

| Module | Any | From |
|---|---|---|
| ProvisionProofs | boots, attempts, polls | the three are positive (`BootsAssumption`, `AttemptsAssumption`, `PollsAssumption`) |
| EspFallbackProofs | old markers, failures of the ESP | the new marker is not an old one, `FailuresAssumption`, `MarkersAssumption` |
| EfiBootProofs | Boot#### numbers, images, deploys, length of BootOrder | `NumberAssumption`, `DeploysAssumption` |
| NetworkProofs | interfaces, addresses, servers, rounds, settle times | `NicAssumption`, `ServerAssumption`, `RoundAssumption`, `MacAssumption`, `SettleAssumption` |
| PartitionsProofs | bodies, images, bounds, chunks, tables, name orders | partitions are numbered from 1 (`NumbersAssumption`, `PartsAssumption`), `StreamAssumption` |
| TargetDiskProofs | disks, aggregates, units, attributes, layouts, mounts, pins | an aggregate is made of what was there before it (`LayoutsAssumption`) and the types of the constants |
| PollBudgetProofs | command lines, timeouts, interval, poll durations | `KeyAssumption`, `SpecAssumption`, `LinesAssumption`, `IntervalAssumption`, and that a poll has a longest duration (`PollTimesAssumption`: its exchanges are counted and have a timeout each) |

One theorem has a hypothesis beyond these: `SelectionFindsAll` that there are fewer
aggregates than `MAX_SLAVE_DEPTH`.

**ProvisionProofs.** What the properties say of a verdict that was sent is not
inductive: it holds because of where the host is. `IInv` therefore ties everything
to `pc`: what was told to the controller (`VerdictFitsStep`), the disk and the files
(`DiskFitsStep`), the mount (`MountFitsStep`), the secret (`SecretFitsStep`), the
error (`ErrorFitsStep`), dry run and polls; and `OnlyPastBootsSpoke`, because a
power cycle must start a boot that has said nothing. `LocalKeeps` treats the steps
that exchange nothing, after `QuietKeepsWire`; the four callbacks and the poll rest
on `ExchangeKeepsWire`. `EarlyFailuresLeaveNoSecret` needs `ConfigFitsStep` besides
(from the flushed image to the injection there is no configuration; a boot whose
flush fails may leave an earlier one, and the property excepts it), and
`DestroysOnlyWhenAuthorised` needs `GrantFitsStep` (what a boot was granted before
the step it is at).

*Refinement.* `PipelineKeepsPromise` proves that `Provision` implements
`DeployVerdict`: `PhaseOf`, `VerdictOf` of every boot, `Installed` and the boots
whose verdict was heard are the promise's state. `InitIsPromised` maps the
initial states; then one lemma per group of steps says which step of the promise it
is: steps without a call are `Work` (or `EnterTargetOS` or `Stop` at the reboot), Phase 1
and the poll are stutters or `Stop`, the two callbacks are `Announce`, a power cycle is
`Restart`, and a late arrival is `Learn` or, of any other request, a stutter. `IInv` is
used for what the promise's guards ask: a verdict is announced once, of a complete
deploy, and the target OS is entered only after it was heard.

**EspFallbackProofs.** A result is a statement about the whole ESP, decided many
file operations earlier. `IInv` compares scripts, markers and temporary files at
each step with what the image came with (`start`), so that the undo and the failures
at any step can be followed to the result. `DiskInv` says at each step how far the disk
is behind: until the first change of the image's pair it is not, and the flush makes
up for the rest, so `PowerLossLeavesPairs` holds before and after. In between it
does not, and no property says so: the root, with the new script, is flushed before the
marker directory, and a power loss then can leave the script without its marker. The
next deploy finds it as a script of ours and replaces it.

**EfiBootProofs.** `RunFits` says what is known between the two writes of a run: before
the entry is written nothing starts this disk and no other entry is described
beskar7; at the order, the entry is in place. The rest is about `PlaceAfterNetwork`. The
subsequences it takes are defined by rank (`Kept` puts the k-th position that is
kept at k), because then what they contain and in which order follows from
cardinalities (`FiniteSetTheorems`), where a fold would need induction over the
sequence. From that: taking a number out twice changes nothing, `Slot` is where the
last leading network entry ends, and inserting there a number that was taken out
gives back the same rest.

**NetworkProofs.** The main thread's decision depends on what each thread found;
`IInv` follows every interface (`ThreadFits`, `LinkFits`), then says which one the
main thread may have addressed (`AddressFits`), that the winner is the one
`choose_lease` finds (`WinnerIsChosen`), that the pin reached everything that was
chosen (`ChoiceFits`), and that the settle wait settles only on a host it could
select from (`SettleFits`).

**PartitionsProofs.** `DiskFits` is the disk block by block: the body as far as it was
written, the old content behind. `CountsFit` ties the counts to the state of the stream,
which gives `StreamsAreExact` without any bound on lengths. `TablesFit`, `EspFits` and
`OemFits` say what was listed and found at each step as long as the name still
means the target, and that the entries are those of the GPT of the disk opened,
which is what makes an absence true (`EspStepsAreRight`).

**TargetDiskProofs.** Three invariants. `IInv`: names hold
their first units until a disk is selected, the disk selected is recorded with its
number and is the pin if there is one, and what is opened has that number. `TypeInv`: types, and that nothing the
kernel holds is opened; `OwnDisksAreSpared` follows because what lies below fewer
nodes is less (`UnderGrows`). `WalkInv`, for the exactness of the selection:
`WalkIsSound` (each call waiting is for a node below a source, with more depth left
than there are aggregates below it) and `WalkIsComplete` (there is a set of nodes that
are done: a call is waiting for each slave that is not in it, and those without
slaves were added). The second is why a node that is dropped because it is in
the visited set loses nothing: it is in the set already. With no call waiting the set is
closed, so all that is followed is in it. The bound on aggregates is needed: with as
many as `MAX_SLAVE_DEPTH` TLC finds a chain whose disk the walk does not reach. (The code has
16, so such a host is far from usual.)

What lies below is defined by levels. That they are well defined and what they hold
is proved by a least counterexample (`NatLeast`), since the library's induction
theorems cannot be instantiated here; `UnderIsClosed` shows with a weight that as
many levels as are taken reach all there is, so `NothingBelowIsMissed`: the
reference `Backing` leaves out nothing.

**PollBudgetProofs.** `ReadSoFar` is `ParsesToTheLast` for the words read so far:
each word extends the set of words that may set its key by itself, which is then the
last. `PollInv` says that the time slept is an interval for each poll but the last
and that the clock is past it by at most the longest poll for each poll;
`IterationsFit` is the arithmetic of `poll_budget_iterations`, its clamps included.

## Not modelled

SMBIOS, probes, the report and `Secret` read or format; they have no state that a
later step depends on. Of netlink, DHCP, GPT, load options, device paths and the ext
superblock the byte encodings; of the client TLS, URLs and bodies, and its backoff,
which counts only as part of how long a poll may take. Writing `/etc/resolv.conf`
and the warning about other disks with the same partition GUID
(`other_disks_with_guid`) are best effort and decide nothing. Which kernel modules
load shows only in the devices that register. A panic aborts PID 1 and with it the
host; it is not distinguished from a power cycle.

## Plan

1. Done: every component that decides something, as listed under Modules; as theorems,
   every safety and action property that the runs check and the refinement of
   DeployVerdict.
2. Next models: a composition of the pipeline with EspFallback and EfiBoot over
   several boots.
3. Next theorems: with an abstract specification of the DHCP race (each interface
   leases, then at most one keeps its address), that DhcpRace implements it; the hypothesis
   of `SelectionFindsAll` in terms of the longest chain of a layout instead of the
   number of aggregates.
