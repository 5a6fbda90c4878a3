----------------------------- MODULE Provision ------------------------------
(***************************************************************************)
(* One host under the inspector: the pipeline of run.rs, PID 1 of the      *)
(* ramdisk, with the callbacks of client.rs, the image write of image.rs   *)
(* and deploy.rs, and the private-mount life cycle of deploy.rs.           *)
(*                                                                         *)
(* The host is sequential.  What makes it hard is everything around it:    *)
(* each step can fail, the controller can power-cycle the host between any *)
(* two steps, the disk outlives the boot and the memory does not, and the  *)
(* controller hears what the host says late, or not at all, or although    *)
(* the host saw an error.                                                  *)
(***************************************************************************)
EXTENDS Callback

CONSTANT MaxPolls   \* poll_budget_iterations: fetch_bootstrap calls per boot

ASSUME PollsAssumption == MaxPolls \in Nat \ {0}

VARIABLES
  pc,         \* the step of run() the host is at
  err,        \* the RunError the boot ends with, "none" while it goes well
  dryRun,     \* --dry-run: Phase 1 only, not PID 1
  target,     \* target_disk::select found a disk in this boot
  polls,      \* fetch_bootstrap calls made in this boot
  secret,     \* user_data (the join secret) is in memory
  part,       \* the partition with_private_mount works on
  mnt,        \* what is mounted: "none", a partition, or lazily "detached"
  disk,       \* what is on the target disk for good: "foreign", "torn" or the "image"
  config,     \* on it, COS_OEM/99_beskar7.yaml, which holds the join secret
  providerId  \* on it, COS_OEM/beskar7/provider-id

memory  == <<dryRun, target, polls, secret>>
mounts  == <<part, mnt>>
storage == <<disk, config, providerId>>
vars    == <<boot, wire, pc, err, memory, mounts, storage>>

\* Errors of a Phase 2 step that run reports through provision_failed.
Reported == {"noTarget", "image", "reread", "gpt", "esp", "espUnmount",
             "noOem", "inject", "oemUnmount"}

\* Errors that end the run without that callback.
Silent == {"boot", "report", "aborted", "timeout", "provisioned", "reboot"}

Steps == {"boot", "report", "poll", "open", "fetch", "stream", "sync", "reread",
          "esp", "mount", "body", "providerId", "remove", "umount", "bootEntry",
          "findOem", "zero", "provisioned", "reboot", "provisionFailed"}

\* main(): rebooted into the target OS, PID 1 parked, or --dry-run exited.
Ends == {"rebooted", "parked", "exited"}

FileStates == {"none", "partial", "full"}

-----------------------------------------------------------------------------
\* How a step of run() ends.

\* run() returns: its locals are dropped (user_data is zeroed) and main() parks
\* PID 1, or exits under --dry-run.
Return(e) ==
  /\ pc' = IF dryRun THEN "exited" ELSE "parked"
  /\ err' = e
  /\ secret' = FALSE

\* A Phase 2 failure goes through report_provision_failure first.
Fail(e) ==
  /\ pc' = "provisionFailed"
  /\ err' = e
  /\ UNCHANGED secret

Goto(step) ==
  /\ pc' = step
  /\ UNCHANGED <<err, secret>>

Quiet == UNCHANGED <<boot, wire, dryRun, target, polls>>

-----------------------------------------------------------------------------
\* Phase 1.

\* Pseudo-filesystems, command line, drivers, network, probe, target selection
\* and the TLS client.  Any of the fatal ones may fail; without a target disk
\* Phase 1 goes on.
StartUp ==
  /\ pc = "boot"
  /\ \/ Return("boot") /\ UNCHANGED target
     \/ Goto("report") /\ target' \in BOOLEAN
  /\ UNCHANGED <<boot, wire, dryRun, polls, mounts, storage>>

\* Mutant: the report is best effort, like the provision-failed callback.
SubmitReportBestEffort ==
  /\ pc = "report"
  /\ \E a \in Answers :
       /\ Exchange("inspection", a)
       /\ \/ Again(a) /\ Goto("report")
          \/ ~Again(a) /\ dryRun /\ Goto("exited")
          \/ ~Again(a) /\ ~dryRun /\ target /\ Goto("poll")
          \/ ~Again(a) /\ ~dryRun /\ ~target /\ Fail("noTarget")
  /\ UNCHANGED <<boot, dryRun, target, polls, mounts, storage>>

\* submit_report, then the dry-run exit, then require_target.
SubmitReport ==
  /\ pc = "report"
  /\ \E a \in Answers :
       /\ Exchange("inspection", a)
       /\ \/ Again(a) /\ Goto("report")
          \/ GaveUp(a) /\ Return("report")
          \/ /\ a = "accepted"
             /\ \/ dryRun /\ Goto("exited")
                \/ ~dryRun /\ target /\ Goto("poll")
                \/ ~dryRun /\ ~target /\ Fail("noTarget")
  /\ UNCHANGED <<boot, dryRun, target, polls, mounts, storage>>

-----------------------------------------------------------------------------
\* Phase 2: poll_bootstrap.

\* classify_poll on an error fetch_bootstrap returned: 404 and everything the
\* client retried in vain mean not ready.
NotReady(a) == a \in Transient \cup {"notFound"}

\* Mutant: a call that says not ready does not use up the budget.
PollBootstrapForever ==
  /\ pc = "poll"
  /\ \E a \in Answers :
       /\ Exchange("bootstrap", a)
       /\ \/ Again(a) /\ Goto("poll")
          \/ /\ a = "accepted"
             /\ pc' = "open" /\ secret' = TRUE
             /\ UNCHANGED err
          \/ GaveUp(a) /\ ~NotReady(a) /\ Return("aborted")
          \/ GaveUp(a) /\ NotReady(a) /\ Goto("poll")
  /\ UNCHANGED <<boot, dryRun, target, polls, mounts, storage>>

\* One exchange of one fetch_bootstrap call.  The Phase 2 aborts return without
\* a callback.
PollBootstrap ==
  /\ pc = "poll"
  /\ \E a \in Answers :
       /\ Exchange("bootstrap", a)
       /\ \/ /\ Again(a)
             /\ Goto("poll") /\ UNCHANGED polls
          \/ /\ a = "accepted"
             /\ pc' = "open" /\ secret' = TRUE
             /\ UNCHANGED <<err, polls>>
          \/ /\ GaveUp(a) /\ ~NotReady(a)
             /\ Return("aborted") /\ UNCHANGED polls
          \/ /\ GaveUp(a) /\ NotReady(a)
             /\ polls' = polls + 1
             /\ \/ polls + 1 < MaxPolls /\ Goto("poll")
                \/ polls + 1 >= MaxPolls /\ Return("timeout")
  /\ UNCHANGED <<boot, dryRun, target, mounts, storage>>

-----------------------------------------------------------------------------
\* Phase 2: write_image and reread_partition_table.

\* The digest, the exclusive open and the identity of the opened node are
\* checked before anything is fetched.
OpenTarget ==
  /\ pc = "open"
  /\ Goto("fetch") \/ Fail("image")
  /\ Quiet /\ UNCHANGED <<mounts, storage>>

\* The image host sends its response headers, or the connection fails.  The
\* fetcher bounds the connect and the body but not the wait for the headers, so
\* this step is up to the image host alone.
ImageHostAnswers ==
  /\ pc = "fetch"
  /\ Goto("stream") \/ Fail("image")
  /\ Quiet /\ UNCHANGED <<mounts, storage>>

\* What an earlier deploy left in COS_OEM, once blocks of the image have gone to the
\* disk: still there, or overwritten.
Overwritten ==
  /\ config' \in {config, "none"}
  /\ providerId' \in {providerId, "none"}

\* Chunks of the body go to the block device.  Until sync_all the kernel writes them
\* out when it likes, at the latest when a failing write_image closes the device.
WriteChunk ==
  /\ pc = "stream"
  /\ disk' = "torn" /\ Overwritten
  /\ Quiet /\ UNCHANGED <<pc, err, secret, mounts>>

\* A short read, a write error, too many bytes, the body timeout.
StreamFails ==
  /\ pc = "stream"
  /\ Fail("image")
  /\ Quiet /\ UNCHANGED <<mounts, storage>>

\* The end of the body: the digest over what was read is the pinned one or not.
StreamEnds ==
  /\ pc = "stream"
  /\ disk = "torn"
  /\ Goto("sync") \/ Fail("image")
  /\ Quiet /\ UNCHANGED <<mounts, storage>>

\* Mutant: the error of the sync is dropped.
SyncImageBestEffort ==
  /\ pc = "sync"
  /\ Goto("reread")
  /\ \/ disk' = "image" /\ config' = "none" /\ providerId' = "none"
     \/ Overwritten /\ UNCHANGED disk
  /\ Quiet /\ UNCHANGED mounts

\* file.sync_all: only now is the whole image on the disk, with its partitions in
\* place of what was there.  If it fails, any block may not have got there.
SyncImage ==
  /\ pc = "sync"
  /\ \/ /\ Goto("reread")
        /\ disk' = "image" /\ config' = "none" /\ providerId' = "none"
     \/ /\ Fail("image")
        /\ Overwritten /\ UNCHANGED disk
  /\ Quiet /\ UNCHANGED mounts

\* BLKRRPART, after the disk is opened and its identity checked again.
RereadPartitionTable ==
  /\ pc = "reread"
  /\ Goto("esp") \/ Fail("reread")
  /\ Quiet /\ UNCHANGED <<mounts, storage>>

-----------------------------------------------------------------------------
\* Phase 2: the ESP step, the NVRAM entry, and the search for COS_OEM.

\* esp_boot_entry_step: a legacy boot and an image without an ESP skip it, a GPT
\* read error fails; prepare_esp fails before the mount without a marker.
LocateEsp ==
  /\ pc = "esp"
  /\ \/ Goto("findOem") /\ UNCHANGED part
     \/ Fail("gpt") /\ UNCHANGED part
     \/ Fail("esp") /\ UNCHANGED part
     \/ Goto("mount") /\ part' = "esp"
  /\ Quiet /\ UNCHANGED <<mnt, storage>>

\* ensure_disk_boot_entry: whatever it does to the NVRAM, a failure is logged.
RegisterBootEntry ==
  /\ pc = "bootEntry"
  /\ Goto("findOem")
  /\ Quiet /\ UNCHANGED <<mounts, storage>>

\* Mutant: an image without COS_OEM ends the run without the callback.
FindOemOrReturn ==
  /\ pc = "findOem"
  /\ \/ Goto("mount") /\ part' = "oem"
     \/ Return("noOem") /\ UNCHANGED part
  /\ Quiet /\ UNCHANGED <<mnt, storage>>

FindOemPartition ==
  /\ pc = "findOem"
  /\ \/ Goto("mount") /\ part' = "oem"
     \/ Fail("noOem") /\ UNCHANGED part
  /\ Quiet /\ UNCHANGED <<mnt, storage>>

-----------------------------------------------------------------------------
\* Phase 2: with_private_mount around prepare_esp and inject_oem_config.

\* The error of a mount that could not be made, and of one that would not go.
MountError(p)   == IF p = "esp" THEN "esp" ELSE "inject"
UnmountError(p) == IF p = "esp" THEN "espUnmount" ELSE "oemUnmount"

\* The device number, the private node, the mountpoint and mount(2).
MountPartition ==
  /\ pc = "mount"
  /\ \/ Goto("body") /\ mnt' = part
     \/ Fail(MountError(part)) /\ UNCHANGED mnt
  /\ Quiet /\ UNCHANGED <<part, storage>>

\* check_loader and write_esp_fallback; its error is kept for after the unmount.
PrepareEsp ==
  /\ pc = "body" /\ part = "esp"
  /\ pc' = "umount"
  /\ err' \in {"none", "esp"}
  /\ Quiet /\ UNCHANGED <<secret, mounts, storage>>

\* write_and_sync_config: created, written and synced, or failed on the way (the
\* last sync can fail with the whole file in place).
WriteConfig ==
  /\ pc = "body" /\ part = "oem"
  /\ \/ /\ config' = "full"
        /\ pc' = "providerId" /\ UNCHANGED err
     \/ /\ config' \in FileStates
        /\ pc' = "remove" /\ err' = "inject"
  /\ Quiet /\ UNCHANGED <<secret, mounts, disk, providerId>>

\* Mutant: the provider id is optional, and its failure only logged.
WriteProviderIdBestEffort ==
  /\ pc = "providerId"
  /\ providerId' \in FileStates
  /\ pc' = "umount"
  /\ Quiet /\ UNCHANGED <<err, secret, mounts, disk, config>>

\* write_and_sync_provider_id, in the same mount session.
WriteProviderId ==
  /\ pc = "providerId"
  /\ \/ /\ providerId' = "full"
        /\ pc' = "umount" /\ UNCHANGED err
     \/ /\ providerId' \in FileStates
        /\ pc' = "remove" /\ err' = "inject"
  /\ Quiet /\ UNCHANGED <<secret, mounts, disk, config>>

\* After a failed write both artifacts are removed before the unmount.  The
\* results of the two removals are not looked at.
RemovePartials ==
  /\ pc = "remove"
  /\ config' \in {config, "none"}
  /\ providerId' \in {providerId, "none"}
  /\ pc' = "umount"
  /\ Quiet /\ UNCHANGED <<err, secret, mounts, disk>>

\* Mutant: the result of the write is lost when the unmount works.
UnmountForgetsError ==
  /\ pc = "umount"
  /\ \/ /\ mnt' = "none"
        /\ pc' = IF part = "esp" THEN "bootEntry" ELSE "zero"
        /\ err' = "none"
        /\ UNCHANGED secret
     \/ /\ mnt' = "detached"
        /\ Fail(IF err = "none" THEN UnmountError(part) ELSE err)
  /\ Quiet /\ UNCHANGED <<part, storage>>

\* Mutant: there is no lazy unmount after a failed eager one.
UnmountEagerly ==
  /\ pc = "umount"
  /\ \/ /\ mnt' = "none"
        /\ IF err = "none"
             THEN Goto(IF part = "esp" THEN "bootEntry" ELSE "zero")
             ELSE Fail(err)
     \/ /\ Fail(IF err = "none" THEN UnmountError(part) ELSE err)
        /\ UNCHANGED mnt
  /\ Quiet /\ UNCHANGED <<part, storage>>

\* The eager unmount, or else the lazy one; the write error goes first, then the
\* eager unmount's.
Unmount ==
  /\ pc = "umount"
  /\ \/ /\ mnt' = "none"
        /\ IF err = "none"
             THEN Goto(IF part = "esp" THEN "bootEntry" ELSE "zero")
             ELSE Fail(err)
     \/ /\ mnt' = "detached"
        /\ Fail(IF err = "none" THEN UnmountError(part) ELSE err)
  /\ Quiet /\ UNCHANGED <<part, storage>>

-----------------------------------------------------------------------------
\* The end of a boot.

\* drop(user_data).
ZeroSecret ==
  /\ pc = "zero"
  /\ pc' = "provisioned"
  /\ secret' = FALSE
  /\ Quiet /\ UNCHANGED <<err, mounts, storage>>

\* Mutant: an exhausted callback is reported like a failed deploy step.
ReportProvisionedOrFail ==
  /\ pc = "provisioned"
  /\ \E a \in Answers :
       /\ Exchange("provisioned", a)
       /\ \/ Again(a) /\ Goto("provisioned")
          \/ a = "accepted" /\ Goto("reboot")
          \/ GaveUp(a) /\ Fail("provisioned")
  /\ UNCHANGED <<boot, dryRun, target, polls, mounts, storage>>

\* Mutant: the callback is best effort, and the host reboots anyway.
ReportProvisionedBestEffort ==
  /\ pc = "provisioned"
  /\ \E a \in Answers :
       /\ Exchange("provisioned", a)
       /\ Goto(IF Again(a) THEN "provisioned" ELSE "reboot")
  /\ UNCHANGED <<boot, dryRun, target, polls, mounts, storage>>

\* client.provisioned()?: a failure propagates, it neither reboots nor reports.
ReportProvisioned ==
  /\ pc = "provisioned"
  /\ \E a \in Answers :
       /\ Exchange("provisioned", a)
       /\ \/ Again(a) /\ Goto("provisioned")
          \/ a = "accepted" /\ Goto("reboot")
          \/ GaveUp(a) /\ Return("provisioned")
  /\ UNCHANGED <<boot, dryRun, target, polls, mounts, storage>>

\* reboot_now returns only when reboot(2) fails.
RebootNow ==
  /\ pc = "reboot"
  /\ Goto("rebooted") \/ Return("reboot")
  /\ Quiet /\ UNCHANGED <<mounts, storage>>

\* Mutant: after the report the deploy is tried again.
ReportFailureAndRetry ==
  /\ pc = "provisionFailed"
  /\ \E a \in Answers :
       /\ Exchange("provisionFailed", a)
       /\ pc' = IF Again(a) THEN "provisionFailed" ELSE "open"
  /\ UNCHANGED <<boot, err, secret, dryRun, target, polls, mounts, storage>>

\* report_provision_failure: best effort, the original error is returned.
ReportFailure ==
  /\ pc = "provisionFailed"
  /\ \E a \in Answers :
       /\ Exchange("provisionFailed", a)
       /\ IF Again(a) THEN Goto("provisionFailed") ELSE Return(err)
  /\ UNCHANGED <<boot, dryRun, target, polls, mounts, storage>>

\* The controller re-drives the host, whatever it is doing: a new boot with a new
\* token.  Memory, mounts and the present call are gone; the disk stays.
PowerCycle ==
  /\ ~dryRun
  /\ boot < MaxBoots
  /\ boot' = boot + 1
  /\ pc' = "boot"
  /\ err' = "none"
  /\ target' = FALSE
  /\ polls' = 0
  /\ secret' = FALSE
  /\ part' = "esp"
  /\ mnt' = "none"
  /\ attempt' = 0
  /\ UNCHANGED <<sent, late, heard, dryRun, storage>>

Arrival == LateArrival /\ UNCHANGED <<pc, err, memory, mounts, storage>>

-----------------------------------------------------------------------------
Init ==
  /\ boot = 1
  /\ WireInit
  /\ pc = "boot"
  /\ err = "none"
  /\ dryRun \in BOOLEAN
  /\ target = FALSE
  /\ polls = 0
  /\ secret = FALSE
  /\ part = "esp"
  /\ mnt = "none"
  /\ disk = "foreign"
  /\ config = "none"
  /\ providerId = "none"

\* The steps of PID 1: local work, and calls bounded by a timeout.
HostStep ==
  \/ StartUp \/ SubmitReport \/ PollBootstrap
  \/ OpenTarget \/ WriteChunk \/ StreamFails \/ StreamEnds \/ SyncImage
  \/ RereadPartitionTable \/ LocateEsp \/ RegisterBootEntry \/ FindOemPartition
  \/ MountPartition \/ PrepareEsp \/ WriteConfig \/ WriteProviderId
  \/ RemovePartials \/ Unmount
  \/ ZeroSecret \/ ReportProvisioned \/ RebootNow \/ ReportFailure

Next == HostStep \/ ImageHostAnswers \/ PowerCycle \/ Arrival

Spec == Init /\ [][Next]_vars

\* PID 1 runs on, and the image host eventually answers or drops the connection.
\* Nothing is assumed of the controller or of late requests.
FairSpec == Spec /\ WF_vars(HostStep) /\ WF_vars(ImageHostAnswers)

-----------------------------------------------------------------------------
\* Type correctness: every variable of the host and of the wire keeps its kind.
TypeOK ==
  /\ WireTypeOK
  /\ pc \in Steps \cup Ends
  /\ err \in Reported \cup Silent \cup {"none"}
  /\ dryRun \in BOOLEAN /\ target \in BOOLEAN /\ secret \in BOOLEAN
  /\ polls \in 0 .. MaxPolls
  /\ part \in {"esp", "oem"}
  /\ mnt \in {"none", "esp", "oem", "detached"}
  /\ disk \in {"foreign", "torn", "image"}
  /\ config \in FileStates /\ providerId \in FileStates

\* The disk holds the verified image with the whole per-host configuration.
Installed == disk = "image" /\ config = "full" /\ providerId = "full"

\* The deploy of this boot is complete, and nothing is mounted any more.
Deployed == Installed /\ mnt = "none"

\* Once the provisioned callback of this boot has left the host (run.rs:211),
\* heard or not, the disk is completely deployed, nothing is mounted and the
\* join secret is out of memory, for as long as the boot lasts.
ProvisionedMeansDeployed ==
  Request("provisioned") \in sent => Deployed /\ ~secret

\* A boot never sends both verdicts: after an exhausted provisioned callback the
\* host must not fall into report_provision_failure, and a failed deploy must
\* never reach provisioned, in whatever order late requests arrive.
OneVerdictPerBoot ==
  \A b \in Boots : ~ {[boot |-> b, kind |-> "provisioned"],
                       [boot |-> b, kind |-> "provisionFailed"]} \subseteq sent

\* The host hands over to the firmware only when the controller accepted the
\* provisioned callback of this very boot (run.rs:205-211, D-015), a complete
\* deploy is on the disk, and the secret is gone from memory.
RebootIsConfirmed ==
  pc = "rebooted" =>
    /\ Request("provisioned") \in heard
    /\ Deployed /\ ~secret

\* A boot that stopped holds neither the secret in memory nor a partition
\* mounted, whichever of the many returns of run() it took (deploy.rs:64-76).
StoppedHoldsNothing ==
  pc \in Ends => ~secret /\ mnt \notin {"esp", "oem"}

\* The ESP step runs before the injection so that its failure leaves no join
\* secret on the disk (run.rs:250-251): nor does any failure between the flushed
\* image (sync_all, deploy.rs:411) and the injection, even if an earlier boot had
\* injected one.  A failed sync is no such failure: the old secret may be there.
EarlyFailureLeavesNoSecret ==
  err \in {"reread", "gpt", "esp", "espUnmount", "noOem"} => config = "none"

\* A host that parked on a Phase 2 failure told the controller, at least once
\* and under the token of that boot (run.rs:194-198, 220-244).
FailureWasReported ==
  pc = "parked" /\ err \in Reported => Request("provisionFailed") \in sent

\* A verdict is final.  Once a boot has sent one, retries and late arrivals
\* included, no step of that boot touches the disk or the mounts again.
VerdictIsFinal ==
  [][ {Request("provisioned"), Request("provisionFailed")} \cap sent # {}
        => boot' # boot \/ UNCHANGED <<mounts, storage>> ]_vars

\* The disk is touched only by a boot whose report the controller accepted and
\* that was given the bootstrap data (§9.1: destroy nothing before it is known
\* what to install), and only with a target; and --dry-run stops after Phase 1
\* (run.rs:112-116): whatever the controller answers, it sends nothing but the report
\* and touches nothing.
DestroyOnlyWhenAuthorised ==
  [][ /\ disk' # disk => /\ {Request("inspection"), Request("bootstrap")} \subseteq heard
                         /\ secret /\ target
      /\ dryRun => /\ \A m \in sent' \ sent : m.kind = "inspection"
                   /\ UNCHANGED <<mounts, storage>> ]_vars

\* What the controller is promised, seen in the state of the host.
PhaseOf == CASE pc = "rebooted" -> "inTargetOS"
             [] pc \in {"parked", "exited"} -> "stopped"
             [] OTHER -> "working"

VerdictOf(b) ==
  CASE [boot |-> b, kind |-> "provisioned"] \in sent -> "provisioned"
    [] [boot |-> b, kind |-> "provisionFailed"] \in sent -> "provisionFailed"
    [] OTHER -> "none"

Promise == INSTANCE DeployVerdict
  WITH phase   <- PhaseOf,
       ready   <- Installed,
       verdict <- [b \in Boots |-> VerdictOf(b)],
       learned <- {m.boot : m \in {r \in heard : r.kind \in {"provisioned", "provisionFailed"}}}

\* The pipeline implements the promise: every step of the host and of the network
\* is a step of DeployVerdict or leaves its state alone.
KeepsPromise == Promise!Spec

\* Every boot comes to an end: no loop of attempts, polls or cleanups runs for
\* ever, whatever the controller answers (MAX_ATTEMPTS, the poll budget).
BootEnds == []<>(pc \in Ends)
=============================================================================
