-------------------------- MODULE ProvisionProofs ---------------------------
(***************************************************************************)
(* Proofs about Provision, for every number of boots, attempts and polls.  *)
(*                                                                         *)
(* What the properties say of a verdict that was sent is not inductive:    *)
(* it holds because of where the host is when it sends it.  IInv ties what *)
(* was sent, what is on the disk, what is mounted and what is in memory to *)
(* the step of run() the host is at.                                       *)
(***************************************************************************)
EXTENDS Provision, TLAPS

Told(k) == Request(k) \in sent

\* The steps that follow a complete deploy, and the end of a boot that failed at
\* one of them.
Confirming == {"provisioned", "reboot", "rebooted"}

GivenUpConfirming == pc = "parked" /\ err \in {"provisioned", "reboot"}

\* The steps during which a partition is mounted, and those after a failure.
InMount == {"body", "providerId", "remove", "umount"}
Failed  == {"provisionFailed", "parked", "exited"}

\* No boot to come has sent anything.
OnlyPastBootsSpoke == \A m \in sent : m.boot <= boot

\* A dry run gets no further than the report.
DryRunFitsStep == dryRun => pc \in {"boot", "report", "exited"}

\* A boot polls only while it has polls left.
PollsFitStep == /\ pc \in {"boot", "report"} => polls = 0
                /\ pc = "poll" => polls < MaxPolls

ErrorFitsStep ==
  /\ pc \notin {"remove", "umount"} \cup Failed => err = "none"
  /\ pc = "remove" => err = "inject"
  /\ pc = "umount" => err \in Reported \cup {"none"}
  /\ pc = "provisionFailed" => err \in Reported

VerdictFitsStep ==
  /\ Told("provisioned") => pc \in Confirming \/ GivenUpConfirming
  /\ Told("provisionFailed") => pc \in {"provisionFailed", "parked"} /\ err \in Reported
  /\ pc \in {"reboot", "rebooted"} => Request("provisioned") \in heard

\* The disk holds the image from sync_all on, and the configuration once
\* its write has returned.
DiskFitsStep ==
  /\ pc \in {"reread", "esp", "bootEntry", "findOem", "mount"} \cup InMount => disk = "image"
  /\ pc = "providerId" => config = "full"
  /\ pc = "umount" /\ part = "oem" /\ err = "none" => Installed
  /\ pc \in {"zero"} \cup Confirming \/ GivenUpConfirming => Installed

MountFitsStep ==
  /\ pc \in InMount => mnt = part
  /\ pc \in {"providerId", "remove"} => part = "oem"
  /\ pc \in Failed => mnt \in {"none", "detached"}
  /\ pc \notin InMount \cup Failed \/ GivenUpConfirming => mnt = "none"

\* The secret is in memory neither before it was fetched nor after it was dropped.
SecretFitsStep ==
  pc \in {"boot", "report", "poll"} \cup Confirming \cup Ends => ~secret

\* The inductive invariant.
IInv == /\ TypeOK
        /\ OnlyPastBootsSpoke
        /\ OneVerdictPerBoot
        /\ DryRunFitsStep
        /\ PollsFitStep
        /\ ErrorFitsStep
        /\ VerdictFitsStep
        /\ DiskFitsStep
        /\ MountFitsStep
        /\ SecretFitsStep
        /\ FailureWasReported

-----------------------------------------------------------------------------
\* One exchange keeps the wire well typed, sends its request and nothing else, and
\* an accepted request has been heard.
LEMMA ExchangeSends ==
  ASSUME WireTypeOK, boot' = boot,
         NEW k \in Kinds, NEW a \in Answers, Exchange(k, a)
  PROVE  /\ WireTypeOK'
         /\ sent' = sent \cup {Request(k)}
         /\ a = "accepted" => Request(k) \in heard'
<1>1. Request(k) \in Requests
  BY DEF WireTypeOK, Request, Requests
<1>2. sent' = sent \cup {Request(k)}
  BY DEF Exchange
<1>3. heard' \subseteq sent' /\ late' \subseteq sent'
  BY <1>2 DEF Exchange, Fate, WireTypeOK
<1>4. a = "accepted" => Request(k) \in heard'
  BY DEF Exchange, Fate, BodyErrors
<1>5. attempt' \in 0 .. (MaxAttempts - 1)
  BY AttemptsAssumption DEF Exchange, Again, WireTypeOK
<1> QED
  BY <1>1, <1>2, <1>3, <1>4, <1>5 DEF WireTypeOK

\* A late arrival keeps the wire well typed and sends nothing.
LEMMA LateArrivalKeepsSent ==
  ASSUME WireTypeOK, LateArrival
  PROVE  WireTypeOK' /\ sent' = sent /\ heard \subseteq heard'
BY DEF WireTypeOK, LateArrival, Boots, Requests

\* The invariant holds when the first boot starts.
LEMMA InitIInv == Init => IInv
<1> SUFFICES ASSUME Init PROVE IInv
  OBVIOUS
<1>1. TypeOK
  <2>1. WireTypeOK
    BY BootsAssumption, AttemptsAssumption DEF Init, WireInit, WireTypeOK, Boots
  <2>2. polls \in 0 .. MaxPolls
    BY PollsAssumption DEF Init
  <2> QED
    BY <2>1, <2>2 DEF Init, TypeOK, Steps, FileStates
<1>2. OneVerdictPerBoot /\ OnlyPastBootsSpoke
  BY DEF Init, WireInit, OneVerdictPerBoot, OnlyPastBootsSpoke
<1>3. VerdictFitsStep
  BY DEF Init, WireInit, VerdictFitsStep, Told
<1>4. MountFitsStep /\ DiskFitsStep /\ SecretFitsStep
  BY DEF Init, MountFitsStep, DiskFitsStep, SecretFitsStep, Confirming,
         GivenUpConfirming, InMount, Failed, Ends
<1>5. DryRunFitsStep /\ PollsFitStep /\ ErrorFitsStep /\ FailureWasReported
  BY DEF Init, DryRunFitsStep, PollsFitStep, ErrorFitsStep, FailureWasReported, Failed
<1> QED
  BY <1>1, <1>2, <1>3, <1>4, <1>5 DEF IInv
-----------------------------------------------------------------------------
\* The steps of Phase 2 that exchange nothing with the controller.
LocalStep ==
  \/ OpenTarget \/ ImageHostAnswers \/ WriteChunk \/ StreamFails \/ StreamEnds \/ SyncImage
  \/ RereadPartitionTable \/ LocateEsp \/ RegisterBootEntry \/ FindOemPartition
  \/ MountPartition \/ PrepareEsp \/ WriteConfig \/ WriteProviderId
  \/ RemovePartials \/ Unmount \/ ZeroSecret \/ RebootNow

\* They leave the wire as it is, and so what was said and heard.
LEMMA QuietKeepsWire ==
  ASSUME IInv, Quiet
  PROVE  /\ WireTypeOK' /\ OnlyPastBootsSpoke' /\ OneVerdictPerBoot'
         /\ \A k \in Kinds : Told(k)' <=> Told(k)
         /\ heard' = heard /\ Request("provisioned")' = Request("provisioned")
BY DEF IInv, TypeOK, WireTypeOK, Quiet, wire, OnlyPastBootsSpoke, OneVerdictPerBoot,
       Told, Request

\* They keep every variable of its type.
LEMMA LocalTypeOK == IInv /\ LocalStep => TypeOK'
<1> SUFFICES ASSUME IInv, LocalStep PROVE TypeOK'
  OBVIOUS
<1> USE QuietKeepsWire DEF IInv, TypeOK, Quiet, Goto, Fail, Return, mounts, storage,
        Steps, Ends, Reported, Silent, FileStates
<1>1. CASE OpenTarget
  BY <1>1 DEF OpenTarget
<1>2. CASE ImageHostAnswers
  BY <1>2 DEF ImageHostAnswers
<1>3. CASE WriteChunk
  BY <1>3 DEF WriteChunk, Overwritten
<1>4. CASE StreamFails
  BY <1>4 DEF StreamFails
<1>5. CASE StreamEnds
  BY <1>5 DEF StreamEnds
<1>6. CASE RereadPartitionTable
  BY <1>6 DEF RereadPartitionTable
<1>7. CASE LocateEsp
  BY <1>7 DEF LocateEsp
<1>8. CASE RegisterBootEntry
  BY <1>8 DEF RegisterBootEntry
<1>9. CASE FindOemPartition
  BY <1>9 DEF FindOemPartition
<1>10. CASE MountPartition
  BY <1>10 DEF MountPartition, MountError
<1>11. CASE PrepareEsp
  BY <1>11 DEF PrepareEsp
<1>12. CASE WriteConfig
  BY <1>12 DEF WriteConfig
<1>13. CASE WriteProviderId
  BY <1>13 DEF WriteProviderId
<1>14. CASE RemovePartials
  BY <1>14 DEF RemovePartials
<1>15. CASE Unmount
  BY <1>15 DEF Unmount, UnmountError
<1>16. CASE ZeroSecret
  <2>1. secret' \in BOOLEAN /\ pc' \in Steps
    BY <1>16 DEF ZeroSecret
  <2> QED
    BY <1>16, <2>1 DEF ZeroSecret
<1>17. CASE RebootNow
  <2>1. secret' \in BOOLEAN
    BY <1>17 DEF RebootNow
  <2>2. pc' \in Steps \cup Ends /\ err' \in Reported \cup Silent \cup {"none"}
    BY <1>17 DEF RebootNow
  <2> QED
    BY <1>17, <2>1, <2>2 DEF RebootNow
<1>18. CASE SyncImage
  BY <1>18 DEF SyncImage, Overwritten
<1> QED
  BY <1>1, <1>2, <1>3, <1>4, <1>5, <1>6, <1>7, <1>8, <1>9, <1>10, <1>11, <1>12,
     <1>13, <1>14, <1>15, <1>16, <1>17, <1>18 DEF LocalStep

\* They keep what the invariant says of the step the host is at.
LEMMA LocalKeeps == IInv /\ LocalStep => IInv'
<1> SUFFICES ASSUME IInv, LocalStep PROVE IInv'
  OBVIOUS
<1>0. TypeOK'
  BY LocalTypeOK
<1> USE <1>0, QuietKeepsWire
    DEF IInv, TypeOK, Quiet, Goto, Fail, Return, mounts, storage, DryRunFitsStep,
        PollsFitStep, ErrorFitsStep, VerdictFitsStep, DiskFitsStep, MountFitsStep,
        SecretFitsStep, FailureWasReported, Told, Kinds, Confirming, GivenUpConfirming,
        InMount, Failed, Ends, Reported, Installed
<1>1. CASE OpenTarget
  BY <1>1 DEF OpenTarget
<1>2. CASE ImageHostAnswers
  BY <1>2 DEF ImageHostAnswers
<1>3. CASE WriteChunk
  BY <1>3 DEF WriteChunk, Overwritten
<1>4. CASE StreamFails
  BY <1>4 DEF StreamFails
<1>5. CASE StreamEnds
  BY <1>5 DEF StreamEnds
<1>6. CASE RereadPartitionTable
  BY <1>6 DEF RereadPartitionTable
<1>7. CASE LocateEsp
  BY <1>7 DEF LocateEsp
<1>8. CASE RegisterBootEntry
  BY <1>8 DEF RegisterBootEntry
<1>9. CASE FindOemPartition
  BY <1>9 DEF FindOemPartition
<1>10. CASE MountPartition
  BY <1>10 DEF MountPartition, MountError
<1>11. CASE PrepareEsp
  BY <1>11 DEF PrepareEsp
<1>12. CASE WriteConfig
  BY <1>12 DEF WriteConfig
<1>13. CASE WriteProviderId
  BY <1>13 DEF WriteProviderId
<1>14. CASE RemovePartials
  BY <1>14 DEF RemovePartials
<1>15. CASE Unmount
  BY <1>15 DEF Unmount, UnmountError
<1>16. CASE ZeroSecret
  BY <1>16 DEF ZeroSecret
<1>17. CASE RebootNow
  BY <1>17 DEF RebootNow
<1>18. CASE SyncImage
  BY <1>18 DEF SyncImage, Overwritten
<1> QED
  BY <1>1, <1>2, <1>3, <1>4, <1>5, <1>6, <1>7, <1>8, <1>9, <1>10, <1>11, <1>12,
     <1>13, <1>14, <1>15, <1>16, <1>17, <1>18 DEF LocalStep

-----------------------------------------------------------------------------
\* One exchange with the controller keeps what the invariant says of the wire, and
\* tells it nothing but its own request.
LEMMA ExchangeKeepsWire ==
  ASSUME IInv, boot' = boot,
         NEW k \in Kinds, NEW a \in Answers, Exchange(k, a),
         k = "provisioned" => ~Told("provisionFailed"),
         k = "provisionFailed" => ~Told("provisioned")
  PROVE  /\ WireTypeOK' /\ OnlyPastBootsSpoke' /\ OneVerdictPerBoot'
         /\ \A j \in Kinds : Told(j)' <=> Told(j) \/ j = k
<1> USE DEF IInv, TypeOK
<1>1. WireTypeOK' /\ sent' = sent \cup {Request(k)}
  BY ExchangeSends
<1>2. \A j \in Kinds : Request(j)' = Request(j)
  BY DEF Request
<1>3. \A j \in Kinds : Told(j)' <=> Told(j) \/ j = k
  BY <1>1, <1>2 DEF Told, Request
<1>4. OnlyPastBootsSpoke'
  BY <1>1 DEF OnlyPastBootsSpoke, Request, WireTypeOK, Boots
<1>5. OneVerdictPerBoot'
  BY <1>1 DEF OneVerdictPerBoot, Request, Told
<1> QED
  BY <1>1, <1>2, <1>3, <1>4, <1>5

\* Phase 1: starting up says nothing.
LEMMA StartUpKeeps == IInv /\ StartUp => IInv'
<1> SUFFICES ASSUME IInv, StartUp PROVE IInv'
  OBVIOUS
<1> USE DEF IInv, StartUp, Goto, Return, mounts, storage
<1>1. WireTypeOK' /\ OnlyPastBootsSpoke' /\ OneVerdictPerBoot'
  BY DEF TypeOK, wire, WireTypeOK, OnlyPastBootsSpoke, OneVerdictPerBoot
<1>2. TypeOK'
  BY <1>1 DEF TypeOK, Steps, Ends, Reported, Silent
<1>3. ~Told("provisioned") /\ ~Told("provisionFailed")
  BY DEF VerdictFitsStep, Confirming, GivenUpConfirming
<1>4. VerdictFitsStep' /\ FailureWasReported'
  BY <1>3 DEF VerdictFitsStep, FailureWasReported, Told, Request, wire, Reported
<1>5. DryRunFitsStep' /\ PollsFitStep' /\ ErrorFitsStep'
  BY DEF DryRunFitsStep, PollsFitStep, ErrorFitsStep, Failed
<1>6. DiskFitsStep' /\ MountFitsStep' /\ SecretFitsStep'
  BY DEF DiskFitsStep, MountFitsStep, SecretFitsStep, TypeOK, Confirming,
         GivenUpConfirming, InMount, Failed, Ends
<1> QED
  BY <1>1, <1>2, <1>4, <1>5, <1>6

\* submit_report, answered a: the host goes on only with an accepted report.
LEMMA SubmitReportKeeps == IInv /\ SubmitReport => IInv'
<1> SUFFICES ASSUME IInv, SubmitReport PROVE IInv'
  OBVIOUS
<1> PICK a \in Answers :
      /\ Exchange("inspection", a)
      /\ \/ Again(a) /\ Goto("report")
         \/ GaveUp(a) /\ Return("report")
         \/ /\ a = "accepted"
            /\ \/ dryRun /\ Goto("exited")
               \/ ~dryRun /\ target /\ Goto("poll")
               \/ ~dryRun /\ ~target /\ Fail("noTarget")
  BY DEF SubmitReport
<1> USE DEF IInv, SubmitReport, Goto, Fail, Return, mounts, storage
<1>1. /\ WireTypeOK' /\ OnlyPastBootsSpoke' /\ OneVerdictPerBoot'
      /\ \A j \in Kinds : Told(j)' <=> Told(j) \/ j = "inspection"
  BY ExchangeKeepsWire DEF Kinds
<1>2. TypeOK'
  BY <1>1 DEF TypeOK, Steps, Ends, Reported, Silent
<1>3. VerdictFitsStep' /\ FailureWasReported'
  BY <1>1 DEF VerdictFitsStep, FailureWasReported, Told, Kinds, Confirming,
              GivenUpConfirming, Reported
<1>4. DryRunFitsStep' /\ PollsFitStep' /\ ErrorFitsStep'
  BY PollsAssumption DEF DryRunFitsStep, PollsFitStep, ErrorFitsStep, Failed, Reported
<1>5. /\ pc' \in {"report", "poll", "provisionFailed", "parked", "exited"}
      /\ pc' = "parked" => err' = "report"
  BY DEF ErrorFitsStep
<1>6. DiskFitsStep' /\ MountFitsStep'
  BY <1>5 DEF DiskFitsStep, MountFitsStep, Confirming, GivenUpConfirming, InMount, Failed
<1>7. SecretFitsStep'
  BY DEF SecretFitsStep, Confirming, Ends
<1> QED
  BY <1>1, <1>2, <1>3, <1>4, <1>6, <1>7

\* poll_bootstrap, answered a: the host polls on, aborts, or has the secret.
LEMMA PollBootstrapKeeps == IInv /\ PollBootstrap => IInv'
<1> SUFFICES ASSUME IInv, PollBootstrap PROVE IInv'
  OBVIOUS
<1> PICK a \in Answers :
      /\ Exchange("bootstrap", a)
      /\ \/ Again(a) /\ Goto("poll") /\ UNCHANGED polls
         \/ /\ a = "accepted"
            /\ pc' = "open" /\ secret' = TRUE
            /\ UNCHANGED <<err, polls>>
         \/ GaveUp(a) /\ ~NotReady(a) /\ Return("aborted") /\ UNCHANGED polls
         \/ /\ GaveUp(a) /\ NotReady(a)
            /\ polls' = polls + 1
            /\ \/ polls + 1 < MaxPolls /\ Goto("poll")
               \/ polls + 1 >= MaxPolls /\ Return("timeout")
  BY DEF PollBootstrap
<1> USE DEF IInv, PollBootstrap, Goto, Return, mounts, storage
<1>1. /\ WireTypeOK' /\ OnlyPastBootsSpoke' /\ OneVerdictPerBoot'
      /\ \A j \in Kinds : Told(j)' <=> Told(j) \/ j = "bootstrap"
  BY ExchangeKeepsWire DEF Kinds
<1>2. /\ pc' \in {"poll", "open", "parked", "exited"}
      /\ pc' # "parked" => err' = "none" \/ pc' = "exited"
      /\ pc' = "parked" => err' \in {"aborted", "timeout"}
      /\ err' \in {"none", "aborted", "timeout"}
  BY DEF ErrorFitsStep, Failed
<1>3. polls' \in 0 .. MaxPolls /\ (pc' = "poll" => polls' < MaxPolls)
  BY PollsAssumption DEF TypeOK, PollsFitStep
<1>4. secret' \in BOOLEAN /\ (pc' # "open" => ~secret')
  <2>1. ~secret
    BY DEF SecretFitsStep
  <2>2. pc' # "open" => ~secret'
    BY <2>1
  <2>3. secret' \in BOOLEAN
    BY DEF TypeOK
  <2> QED
    BY <2>2, <2>3
<1>5. TypeOK'
  BY <1>1, <1>2, <1>3, <1>4 DEF TypeOK, Steps, Ends, Silent
<1>6. VerdictFitsStep' /\ FailureWasReported'
  BY <1>1, <1>2 DEF VerdictFitsStep, FailureWasReported, Told, Kinds, Confirming,
                    GivenUpConfirming, Reported
<1>7. DryRunFitsStep' /\ PollsFitStep' /\ ErrorFitsStep' /\ SecretFitsStep'
  BY <1>2, <1>3, <1>4
     DEF DryRunFitsStep, PollsFitStep, ErrorFitsStep, SecretFitsStep, Confirming, Ends, Failed
<1>8. DiskFitsStep' /\ MountFitsStep'
  BY <1>2 DEF DiskFitsStep, MountFitsStep, Confirming, GivenUpConfirming, InMount, Failed
<1> QED
  BY <1>1, <1>5, <1>6, <1>7, <1>8

\* The provisioned callback, answered a.  Only here does a boot say so, and it has
\* said nothing else before.
LEMMA ReportProvisionedKeeps == IInv /\ ReportProvisioned => IInv'
<1> SUFFICES ASSUME IInv, ReportProvisioned PROVE IInv'
  OBVIOUS
<1> PICK a \in Answers :
      /\ Exchange("provisioned", a)
      /\ \/ Again(a) /\ Goto("provisioned")
         \/ a = "accepted" /\ Goto("reboot")
         \/ GaveUp(a) /\ Return("provisioned")
  BY DEF ReportProvisioned
<1> USE DEF IInv, ReportProvisioned, Goto, Return, mounts, storage
<1>1. ~Told("provisionFailed") /\ ~dryRun /\ ~secret /\ Installed /\ mnt = "none"
  BY DEF VerdictFitsStep, DryRunFitsStep, SecretFitsStep, DiskFitsStep, MountFitsStep,
         Confirming, InMount, Failed
<1>2. /\ WireTypeOK' /\ OnlyPastBootsSpoke' /\ OneVerdictPerBoot'
      /\ \A j \in Kinds : Told(j)' <=> Told(j) \/ j = "provisioned"
      /\ a = "accepted" => Request("provisioned")' \in heard'
  <2>1. /\ WireTypeOK' /\ OnlyPastBootsSpoke' /\ OneVerdictPerBoot'
        /\ \A j \in Kinds : Told(j)' <=> Told(j) \/ j = "provisioned"
    BY <1>1, ExchangeKeepsWire DEF Kinds
  <2>2. a = "accepted" => Request("provisioned") \in heard'
    BY ExchangeSends DEF Kinds, TypeOK
  <2> QED
    BY <2>1, <2>2 DEF Request
<1>3. \/ pc' = "provisioned" /\ err' = "none"
      \/ pc' = "reboot" /\ err' = "none" /\ a = "accepted"
      \/ pc' = "parked" /\ err' = "provisioned"
  BY <1>1 DEF ErrorFitsStep, Failed
<1>4. ~secret'
  BY <1>1
<1>5. TypeOK'
  BY <1>2, <1>3, <1>4 DEF TypeOK, Steps, Ends, Silent
<1>6. VerdictFitsStep' /\ FailureWasReported'
  BY <1>1, <1>2, <1>3 DEF VerdictFitsStep, FailureWasReported, Told, Kinds, Confirming,
                          GivenUpConfirming, Reported
<1>7. DryRunFitsStep' /\ PollsFitStep' /\ ErrorFitsStep' /\ SecretFitsStep'
  BY <1>1, <1>3, <1>4
     DEF DryRunFitsStep, PollsFitStep, ErrorFitsStep, SecretFitsStep, Failed
<1>8. DiskFitsStep' /\ MountFitsStep'
  BY <1>1, <1>3 DEF DiskFitsStep, MountFitsStep, Installed, Confirming,
                    GivenUpConfirming, InMount, Failed
<1> QED
  BY <1>2, <1>5, <1>6, <1>7, <1>8

\* The provision-failed callback, answered a: what was sent explains why the host
\* parks.
LEMMA ReportFailureKeeps == IInv /\ ReportFailure => IInv'
<1> SUFFICES ASSUME IInv, ReportFailure PROVE IInv'
  OBVIOUS
<1> PICK a \in Answers :
      /\ Exchange("provisionFailed", a)
      /\ IF Again(a) THEN Goto("provisionFailed") ELSE Return(err)
  BY DEF ReportFailure
<1> USE DEF IInv, ReportFailure, Goto, Return, mounts, storage
<1>1. ~Told("provisioned") /\ ~dryRun /\ err \in Reported /\ mnt \in {"none", "detached"}
  BY DEF VerdictFitsStep, DryRunFitsStep, ErrorFitsStep, MountFitsStep, Confirming,
         GivenUpConfirming, Failed
<1>2. /\ WireTypeOK' /\ OnlyPastBootsSpoke' /\ OneVerdictPerBoot'
      /\ \A j \in Kinds : Told(j)' <=> Told(j) \/ j = "provisionFailed"
  BY <1>1, ExchangeKeepsWire DEF Kinds
<1>3. pc' \in {"provisionFailed", "parked"} /\ err' = err
  BY <1>1
<1>4. secret' \in BOOLEAN /\ (pc' = "parked" => ~secret')
  BY DEF TypeOK
<1>5. TypeOK'
  BY <1>2, <1>3, <1>4 DEF TypeOK, Steps, Ends
<1>6. VerdictFitsStep' /\ FailureWasReported'
  BY <1>1, <1>2, <1>3 DEF VerdictFitsStep, FailureWasReported, Told, Kinds
<1>7. DryRunFitsStep' /\ PollsFitStep' /\ ErrorFitsStep' /\ SecretFitsStep'
  BY <1>1, <1>3, <1>4 DEF DryRunFitsStep, PollsFitStep, ErrorFitsStep, SecretFitsStep,
                          Confirming, Ends, Failed
<1>8. DiskFitsStep' /\ MountFitsStep'
  BY <1>1, <1>3 DEF DiskFitsStep, MountFitsStep, Confirming, GivenUpConfirming,
                    InMount, Failed, Reported
<1> QED
  BY <1>2, <1>5, <1>6, <1>7, <1>8

\* A power cycle starts a boot that has said nothing, and keeps the disk.
LEMMA PowerCycleKeeps == IInv /\ PowerCycle => IInv'
<1> SUFFICES ASSUME IInv, PowerCycle PROVE IInv'
  OBVIOUS
<1> USE DEF IInv, PowerCycle, storage
<1>1. boot \in Nat /\ boot' \in Boots
  BY BootsAssumption DEF TypeOK, WireTypeOK, Boots
<1>2. WireTypeOK'
  BY <1>1, AttemptsAssumption DEF TypeOK, WireTypeOK, Boots
<1>3. TypeOK'
  <2>1. secret' \in BOOLEAN
    OBVIOUS
  <2>2. target' \in BOOLEAN
    OBVIOUS
  <2>3. polls' \in 0 .. MaxPolls
    BY PollsAssumption
  <2> QED
    BY <1>2, <2>1, <2>2, <2>3 DEF TypeOK, Steps
<1>4. \A m \in sent : m.boot \in Nat
  BY BootsAssumption DEF TypeOK, WireTypeOK, Requests, Boots
<1>5. OnlyPastBootsSpoke'
  BY <1>1, <1>4 DEF OnlyPastBootsSpoke
<1>6. \A k : ~Told(k)'
  BY <1>1, <1>4 DEF OnlyPastBootsSpoke, Told, Request
<1>7. OneVerdictPerBoot'
  BY DEF OneVerdictPerBoot
<1>8. VerdictFitsStep' /\ FailureWasReported'
  BY <1>6 DEF VerdictFitsStep, FailureWasReported, Told
<1>9. DryRunFitsStep' /\ PollsFitStep' /\ ErrorFitsStep' /\ SecretFitsStep'
  BY DEF DryRunFitsStep, PollsFitStep, ErrorFitsStep, SecretFitsStep, Failed
<1>10. DiskFitsStep' /\ MountFitsStep'
  BY DEF DiskFitsStep, MountFitsStep, Confirming, GivenUpConfirming, InMount, Failed
<1> QED
  BY <1>3, <1>5, <1>7, <1>8, <1>9, <1>10

\* A late arrival adds to what was heard, and only what was sent.
LEMMA ArrivalKeeps == IInv /\ Arrival => IInv'
<1> SUFFICES ASSUME IInv, Arrival PROVE IInv'
  OBVIOUS
<1> USE DEF IInv, Arrival, memory, mounts, storage
<1>1. WireTypeOK' /\ sent' = sent /\ heard \subseteq heard' /\ boot' = boot
  BY LateArrivalKeepsSent DEF TypeOK, LateArrival
<1>2. TypeOK'
  BY <1>1 DEF TypeOK
<1>3. OnlyPastBootsSpoke' /\ OneVerdictPerBoot'
  BY <1>1 DEF OnlyPastBootsSpoke, OneVerdictPerBoot
<1>4. VerdictFitsStep' /\ FailureWasReported'
  BY <1>1 DEF VerdictFitsStep, FailureWasReported, Told, Request, GivenUpConfirming
<1>5. DryRunFitsStep' /\ PollsFitStep' /\ ErrorFitsStep' /\ SecretFitsStep'
  BY DEF DryRunFitsStep, PollsFitStep, ErrorFitsStep, SecretFitsStep
<1>6. DiskFitsStep' /\ MountFitsStep'
  BY DEF DiskFitsStep, MountFitsStep, GivenUpConfirming, Installed
<1> QED
  BY <1>2, <1>3, <1>4, <1>5, <1>6

\* A step that changes nothing keeps the invariant.
LEMMA StutterKeeps == IInv /\ UNCHANGED vars => IInv'
BY DEF vars, wire, memory, mounts, storage, IInv, TypeOK, WireTypeOK, OnlyPastBootsSpoke,
       OneVerdictPerBoot, DryRunFitsStep, PollsFitStep, ErrorFitsStep, VerdictFitsStep,
       DiskFitsStep, MountFitsStep, SecretFitsStep, FailureWasReported, Told, Request,
       GivenUpConfirming, Installed

-----------------------------------------------------------------------------
\* Whatever the host, the image host, the network and the controller do, what was
\* said to the controller fits the step of run() the host is at, and so do the
\* disk, the mounts and the secret.
THEOREM Inductive == Spec => []IInv
<1>1. Init => IInv
  BY InitIInv
<1>2. IInv /\ [Next]_vars => IInv'
  BY LocalKeeps, StartUpKeeps, SubmitReportKeeps, PollBootstrapKeeps,
     ReportProvisionedKeeps, ReportFailureKeeps, PowerCycleKeeps, ArrivalKeeps,
     StutterKeeps
     DEF Next, HostStep, LocalStep
<1> QED
  BY <1>1, <1>2, PTL DEF Spec

\* Type correctness of the host and of the wire.
THEOREM TypeCorrect == Spec => []TypeOK
<1>1. IInv => TypeOK
  BY DEF IInv
<1> QED
  BY <1>1, Inductive, PTL

\* The provisioned callback (run.rs:211) leaves the host only after a complete
\* deploy, with nothing mounted and the secret gone.
THEOREM ProvisionedIsDeployed == Spec => []ProvisionedMeansDeployed
<1>1. IInv => ProvisionedMeansDeployed
  BY DEF IInv, ProvisionedMeansDeployed, VerdictFitsStep, DiskFitsStep, MountFitsStep,
         SecretFitsStep, Told, Deployed, Confirming, GivenUpConfirming, InMount, Failed, Ends
<1> QED
  BY <1>1, Inductive, PTL

\* No boot sends both callbacks (run.rs:189-212), for any number of boots.
THEOREM NoBootSendsBothVerdicts == Spec => []OneVerdictPerBoot
<1>1. IInv => OneVerdictPerBoot
  BY DEF IInv
<1> QED
  BY <1>1, Inductive, PTL

\* The host reboots into the target OS only when the controller has accepted the
\* provisioned callback of this boot (run.rs:205-215).
THEOREM RebootsOnlyConfirmed == Spec => []RebootIsConfirmed
<1>1. IInv => RebootIsConfirmed
  BY DEF IInv, RebootIsConfirmed, VerdictFitsStep, DiskFitsStep, MountFitsStep,
         SecretFitsStep, Deployed, Confirming, InMount, Failed
<1> QED
  BY <1>1, Inductive, PTL

\* Every return of run() drops the secret and leaves nothing mounted.
THEOREM StopsClean == Spec => []StoppedHoldsNothing
<1>1. IInv => StoppedHoldsNothing
  BY DEF IInv, StoppedHoldsNothing, MountFitsStep, SecretFitsStep, Confirming,
         InMount, Failed, Ends
<1> QED
  BY <1>1, Inductive, PTL

\* A host that parked on a deploy failure has sent the provision-failed callback
\* (run.rs:194-198, 234-244).
THEOREM FailuresAreReported == Spec => []FailureWasReported
<1>1. IInv => FailureWasReported
  BY DEF IInv
<1> QED
  BY <1>1, Inductive, PTL

\* After the first verdict of a boot, nothing that boot does touches the disk or
\* the mounts.
THEOREM VerdictsAreFinal == Spec => VerdictIsFinal
<1> DEFINE Final ==
      {Request("provisioned"), Request("provisionFailed")} \cap sent # {}
        => boot' # boot \/ UNCHANGED <<mounts, storage>>
<1>1. IInv /\ [Next]_vars => [Final]_vars
  <2> SUFFICES ASSUME IInv, Next, Told("provisioned") \/ Told("provisionFailed")
               PROVE  boot' # boot \/ UNCHANGED <<mounts, storage>>
    BY DEF Told
  <2>1. pc \in {"provisioned", "reboot", "rebooted", "provisionFailed", "parked"}
    BY DEF IInv, VerdictFitsStep, Confirming, GivenUpConfirming
  <2>2. CASE PowerCycle
    BY <2>2, BootsAssumption DEF PowerCycle, IInv, TypeOK, WireTypeOK, Boots
  <2>3. CASE Arrival
    BY <2>3 DEF Arrival
  <2>4. CASE ReportProvisioned \/ RebootNow \/ ReportFailure
    BY <2>4 DEF ReportProvisioned, RebootNow, ReportFailure
  <2>5. ~(Next /\ ~(PowerCycle \/ Arrival \/ ReportProvisioned \/ RebootNow \/ ReportFailure))
    BY <2>1 DEF Next, HostStep, StartUp, SubmitReport, PollBootstrap, OpenTarget,
           ImageHostAnswers, WriteChunk, StreamFails, StreamEnds, SyncImage, RereadPartitionTable,
           LocateEsp, RegisterBootEntry, FindOemPartition, MountPartition, PrepareEsp,
           WriteConfig, WriteProviderId, RemovePartials, Unmount, ZeroSecret
  <2> QED
    BY <2>2, <2>3, <2>4, <2>5
<1> QED
  BY <1>1, Inductive, PTL DEF Spec, VerdictIsFinal

-----------------------------------------------------------------------------
\* The join secret on the disk.  From the flushed image to the write of the
\* configuration there is none, and none appears after one of the failures that
\* come before that write.
ConfigFitsStep ==
  \/ pc \in {"reread", "esp", "bootEntry", "findOem", "mount", "body"}
  \/ pc = "umount" /\ part = "esp"
  => config = "none"

NoEarlySecret == ConfigFitsStep /\ EarlyFailureLeavesNoSecret

\* The steps of a boot that has its bootstrap data but has not written it, and the
\* write itself.
LEMMA LocalKeepsNoEarlySecret == IInv /\ NoEarlySecret /\ LocalStep => NoEarlySecret'
<1> SUFFICES ASSUME IInv, NoEarlySecret, LocalStep PROVE NoEarlySecret'
  OBVIOUS
<1> USE DEF NoEarlySecret, ConfigFitsStep, EarlyFailureLeavesNoSecret, Goto, Fail, Return,
        storage, mounts
<1>1. /\ pc \notin {"remove", "umount"} \cup Failed => err = "none"
      /\ pc = "remove" => err = "inject"
      /\ pc \in {"providerId", "remove"} => part = "oem"
      /\ part \in {"esp", "oem"}
  BY DEF IInv, TypeOK, ErrorFitsStep, MountFitsStep
<1>2. CASE WriteChunk \/ StreamFails \/ StreamEnds \/ SyncImage \/ OpenTarget \/ ImageHostAnswers
  BY <1>1, <1>2
     DEF WriteChunk, StreamFails, StreamEnds, SyncImage, OpenTarget, ImageHostAnswers, Failed
<1>3. CASE RereadPartitionTable \/ LocateEsp \/ RegisterBootEntry \/ FindOemPartition
  BY <1>1, <1>3
     DEF RereadPartitionTable, LocateEsp, RegisterBootEntry, FindOemPartition, Failed
<1>4. CASE MountPartition \/ PrepareEsp
  BY <1>1, <1>4 DEF MountPartition, PrepareEsp, MountError, Failed
<1>5. CASE WriteConfig \/ WriteProviderId \/ RemovePartials
  BY <1>1, <1>5 DEF WriteConfig, WriteProviderId, RemovePartials, Failed
<1>6. CASE Unmount
  BY <1>1, <1>6 DEF Unmount, UnmountError
<1>7. CASE ZeroSecret \/ RebootNow
  BY <1>1, <1>7 DEF ZeroSecret, RebootNow, Failed
<1> QED
  BY <1>2, <1>3, <1>4, <1>5, <1>6, <1>7 DEF LocalStep

\* Neither the calls to the controller nor what happens outside the host write it.
LEMMA NextKeepsNoEarlySecret == IInv /\ NoEarlySecret /\ [Next]_vars => NoEarlySecret'
<1> SUFFICES ASSUME IInv, NoEarlySecret, [Next]_vars PROVE NoEarlySecret'
  OBVIOUS
<1> USE DEF NoEarlySecret, ConfigFitsStep, EarlyFailureLeavesNoSecret, Goto, Fail, Return,
        storage, mounts
<1>1. CASE LocalStep
  BY <1>1, LocalKeepsNoEarlySecret
<1>2. CASE StartUp \/ SubmitReport \/ PollBootstrap \/ ReportProvisioned
  BY <1>2 DEF StartUp, SubmitReport, PollBootstrap, ReportProvisioned, IInv, ErrorFitsStep,
              Failed
<1>3. CASE ReportFailure
  BY <1>3 DEF ReportFailure
<1>4. CASE PowerCycle
  BY <1>4 DEF PowerCycle
<1>5. CASE Arrival \/ UNCHANGED vars
  BY <1>5 DEF Arrival, vars
<1> QED
  BY <1>1, <1>2, <1>3, <1>4, <1>5 DEF Next, HostStep, LocalStep

\* A failure between the flushed image (sync_all, deploy.rs:411) and the injection leaves
\* no join secret on the disk (run.rs:250-251), whatever an earlier boot had injected.
THEOREM EarlyFailuresLeaveNoSecret == Spec => []EarlyFailureLeavesNoSecret
<1>1. Init => NoEarlySecret
  BY DEF Init, NoEarlySecret, ConfigFitsStep, EarlyFailureLeavesNoSecret
<1>2. IInv /\ NoEarlySecret /\ [Next]_vars => NoEarlySecret'
  BY NextKeepsNoEarlySecret
<1>3. NoEarlySecret => EarlyFailureLeavesNoSecret
  BY DEF NoEarlySecret
<1> QED
  BY <1>1, <1>2, <1>3, Inductive, PTL DEF Spec

-----------------------------------------------------------------------------
\* What a boot has been granted at each step up to the image write: the controller
\* took its report, there is a target, and the bootstrap data came.
GrantFitsStep ==
  /\ pc \in {"poll", "open", "fetch", "stream", "sync"} =>
       target /\ Request("inspection") \in heard
  /\ pc \in {"open", "fetch", "stream", "sync"} =>
       secret /\ Request("bootstrap") \in heard

\* A step without a call grants nothing and takes nothing back.
LEMMA LocalKeepsGrant == IInv /\ GrantFitsStep /\ LocalStep => GrantFitsStep'
<1> SUFFICES ASSUME IInv, GrantFitsStep, LocalStep PROVE GrantFitsStep'
  OBVIOUS
<1>1. /\ heard' = heard /\ target' = target
      /\ \A k : Request(k)' = Request(k)
  <2>1. Quiet
    BY DEF LocalStep, OpenTarget, ImageHostAnswers, WriteChunk, StreamFails, StreamEnds, SyncImage,
           RereadPartitionTable, LocateEsp, RegisterBootEntry, FindOemPartition,
           MountPartition, PrepareEsp, WriteConfig, WriteProviderId, RemovePartials,
           Unmount, ZeroSecret, RebootNow
  <2> QED
    BY <2>1 DEF Quiet, wire, Request
<1>2. pc' \in {"poll", "open", "fetch", "stream", "sync"} =>
        /\ pc \in {"open", "fetch", "stream", "sync"}
        /\ pc' \in {"fetch", "stream", "sync"} /\ secret' = secret
  BY DEF LocalStep, OpenTarget, ImageHostAnswers, WriteChunk, StreamFails, StreamEnds,
         SyncImage, RereadPartitionTable, LocateEsp, RegisterBootEntry, FindOemPartition,
         MountPartition, PrepareEsp, WriteConfig, WriteProviderId, RemovePartials,
         Unmount, ZeroSecret, RebootNow, Goto, Fail, Return, MountError, UnmountError
<1> QED
  BY <1>1, <1>2 DEF GrantFitsStep

\* Only an accepted report and an accepted fetch take the host on.
LEMMA NextKeepsGrant == IInv /\ GrantFitsStep /\ [Next]_vars => GrantFitsStep'
<1> SUFFICES ASSUME IInv, GrantFitsStep, [Next]_vars PROVE GrantFitsStep'
  OBVIOUS
<1> USE DEF GrantFitsStep, Goto, Fail, Return
<1>1. CASE LocalStep
  BY <1>1, LocalKeepsGrant
<1>2. CASE SubmitReport
  <2>1. PICK a \in Answers :
          /\ Exchange("inspection", a)
          /\ pc' = "poll" => a = "accepted" /\ target
          /\ pc' \notin {"open", "fetch", "stream", "sync"}
    BY <1>2 DEF SubmitReport
  <2>2. a = "accepted" => Request("inspection") \in heard'
    BY <1>2, <2>1, ExchangeSends DEF IInv, TypeOK, Kinds, SubmitReport
  <2> QED
    BY <1>2, <2>1, <2>2 DEF SubmitReport, Request
<1>3. CASE PollBootstrap
  <2>1. PICK a \in Answers :
          /\ Exchange("bootstrap", a)
          /\ pc' = "open" => a = "accepted" /\ secret'
          /\ pc' \notin {"fetch", "stream", "sync"}
    BY <1>3 DEF PollBootstrap
  <2>2. a = "accepted" => Request("bootstrap") \in heard'
    BY <1>3, <2>1, ExchangeSends DEF IInv, TypeOK, Kinds, PollBootstrap
  <2>3. heard \subseteq heard'
    BY <2>1 DEF Exchange, Fate
  <2> QED
    BY <1>3, <2>1, <2>2, <2>3 DEF PollBootstrap, Request
<1>4. CASE StartUp \/ ReportProvisioned \/ ReportFailure \/ PowerCycle
  BY <1>4 DEF StartUp, ReportProvisioned, ReportFailure, PowerCycle
<1>5. CASE Arrival
  BY <1>5 DEF Arrival, LateArrival, memory, Request
<1>6. CASE UNCHANGED vars
  BY <1>6 DEF vars, wire, memory, Request
<1> QED
  BY <1>1, <1>2, <1>3, <1>4, <1>5, <1>6 DEF Next, HostStep, LocalStep

\* The disk is written only by a boot that has a target, whose report the controller took
\* and that was given the bootstrap data; a dry run sends its report and touches nothing
\* (run.rs:112-116).
THEOREM DestroysOnlyWhenAuthorised == Spec => DestroyOnlyWhenAuthorised
<1> DEFINE Authorised ==
      /\ disk' # disk => /\ {Request("inspection"), Request("bootstrap")} \subseteq heard
                         /\ secret /\ target
      /\ dryRun => /\ \A m \in sent' \ sent : m.kind = "inspection"
                   /\ UNCHANGED <<mounts, storage>>
<1>1. Init => GrantFitsStep
  BY DEF Init, GrantFitsStep
<1>2. IInv /\ GrantFitsStep /\ [Next]_vars => GrantFitsStep'
  BY NextKeepsGrant
<1>3. IInv /\ GrantFitsStep /\ [Next]_vars => [Authorised]_vars
  <2> SUFFICES ASSUME IInv, GrantFitsStep, Next PROVE Authorised
    OBVIOUS
  <2>1. ASSUME disk' # disk PROVE pc \in {"stream", "sync"}
    BY <2>1 DEF Next, HostStep, StartUp, SubmitReport, PollBootstrap, OpenTarget,
           ImageHostAnswers, WriteChunk, StreamFails, StreamEnds, SyncImage, RereadPartitionTable,
           LocateEsp, RegisterBootEntry, FindOemPartition, MountPartition, PrepareEsp,
           WriteConfig, WriteProviderId, RemovePartials, Unmount, ZeroSecret,
           ReportProvisioned, RebootNow, ReportFailure, PowerCycle, Arrival, storage
  <2>2. ASSUME dryRun PROVE StartUp \/ SubmitReport \/ Arrival
    BY <2>2 DEF Next, HostStep, PollBootstrap, OpenTarget, ImageHostAnswers, WriteChunk,
           StreamFails, StreamEnds, SyncImage, RereadPartitionTable, LocateEsp, RegisterBootEntry,
           FindOemPartition, MountPartition, PrepareEsp, WriteConfig, WriteProviderId,
           RemovePartials, Unmount, ZeroSecret, ReportProvisioned, RebootNow,
           ReportFailure, PowerCycle, IInv, DryRunFitsStep
  <2>3. disk' # disk => /\ {Request("inspection"), Request("bootstrap")} \subseteq heard
                        /\ secret /\ target
    BY <2>1 DEF GrantFitsStep
  <2>4. dryRun => /\ \A m \in sent' \ sent : m.kind = "inspection"
                  /\ UNCHANGED <<mounts, storage>>
    <3> SUFFICES ASSUME dryRun
                 PROVE  /\ \A m \in sent' \ sent : m.kind = "inspection"
                        /\ UNCHANGED <<mounts, storage>>
      OBVIOUS
    <3>1. CASE SubmitReport
      BY <3>1 DEF SubmitReport, Exchange, Request
    <3>2. CASE StartUp \/ Arrival
      BY <3>2 DEF StartUp, Arrival, LateArrival, wire
    <3> QED
      BY <2>2, <3>1, <3>2
  <2> QED
    BY <2>3, <2>4
<1> QED
  BY <1>1, <1>2, <1>3, Inductive, PTL DEF Spec, DestroyOnlyWhenAuthorised

-----------------------------------------------------------------------------
(* The pipeline implements DeployVerdict: the state of the host, read as the *)
(* state of the promise, starts where the promise starts, and every step of  *)
(* Provision.Next is a step of the promise or changes nothing it tells apart.*)

\* What the promise sees of a state, by name.
VerdictKinds == {"provisioned", "provisionFailed"}
Verdict      == [b \in Boots |-> VerdictOf(b)]
Learned      == {m.boot : m \in {r \in heard : r.kind \in VerdictKinds}}

-----------------------------------------------------------------------------
\* Which boots have announced a verdict, and that a boot that has announced one has not
\* announced the other.
LEMMA VerdictOfTold ==
  ASSUME IInv
  PROVE  /\ VerdictOf(boot) = "provisioned" <=> Told("provisioned")
         /\ VerdictOf(boot) = "provisionFailed" <=> Told("provisionFailed")
         /\ VerdictOf(boot) = "none" <=> ~Told("provisioned") /\ ~Told("provisionFailed")
         /\ boot \in Boots
         /\ Told("provisioned") => Verdict[boot] = "provisioned"
         /\ Told("provisionFailed") => Verdict[boot] = "provisionFailed"
<1>1. boot \in Boots
  BY DEF IInv, TypeOK, WireTypeOK
<1>2. ~(Told("provisioned") /\ Told("provisionFailed"))
  BY <1>1 DEF IInv, OneVerdictPerBoot, Told, Request
<1> QED
  BY <1>1, <1>2 DEF VerdictOf, Told, Request, Verdict

\* A step that sends nothing leaves every announced verdict as it is.
LEMMA SameSentSameVerdict ==
  ASSUME sent' = sent
  PROVE  Verdict' = Verdict
BY DEF Verdict, VerdictOf

\* A request of Phase 1 or of the poll is not an announcement.
LEMMA OtherKindsAnnounceNothing ==
  ASSUME IInv, boot' = boot, NEW k \in Kinds \ VerdictKinds, NEW a \in Answers,
         Exchange(k, a)
  PROVE  Verdict' = Verdict /\ Learned' = Learned
<1>1. sent' = sent \cup {Request(k)} /\ Request(k).kind = k
  BY DEF Exchange, Request
<1>2. heard' = heard \/ heard' = heard \cup {Request(k)}
  BY DEF Exchange, Fate
<1>3. ASSUME NEW b \in Boots PROVE VerdictOf(b)' = VerdictOf(b)
  BY <1>1 DEF VerdictOf, VerdictKinds, Request
<1> QED
  BY <1>1, <1>2, <1>3 DEF Verdict, Learned, VerdictKinds

\* The exchange of a verdict announces it for this boot and no other, and may tell the
\* controller at once.
LEMMA VerdictExchangeAnnounces ==
  ASSUME IInv, boot' = boot, NEW v \in VerdictKinds, NEW a \in Answers, Exchange(v, a),
         \A k \in VerdictKinds : Told(k) => k = v
  PROVE  /\ Verdict[boot] \in {"none", v}
         /\ Verdict' = [Verdict EXCEPT ![boot] = v]
         /\ Learned' \in {Learned, Learned \cup {boot}}
<1>1. sent' = sent \cup {Request(v)} /\ Request(v) = [boot |-> boot, kind |-> v]
  BY DEF Exchange, Request
<1>2. heard' = heard \/ heard' = heard \cup {Request(v)}
  BY DEF Exchange, Fate
<1>3. Learned' \in {Learned, Learned \cup {boot}}
  BY <1>1, <1>2 DEF Learned
<1>4. Verdict[boot] \in {"none", v}
  BY VerdictOfTold DEF VerdictKinds, Verdict, VerdictOf, Told, Request
<1>5. VerdictOf(boot)' = v
  <2>1. \A k \in VerdictKinds : [boot |-> boot, kind |-> k] \in sent' <=> k = v
    BY <1>1 DEF Told, Request, VerdictKinds
  <2> QED
    BY <2>1 DEF VerdictOf, VerdictKinds
<1>6. ASSUME NEW b \in Boots \ {boot} PROVE VerdictOf(b)' = VerdictOf(b)
  BY <1>1 DEF VerdictOf
<1> QED
  BY <1>3, <1>4, <1>5, <1>6 DEF Verdict

-----------------------------------------------------------------------------
\* The first boot starts as the promise does.
LEMMA InitIsPromised == Init => Promise!Init
BY DEF Init, WireInit, Promise!Init, PhaseOf, VerdictOf, Installed

\* A step of Phase 2 without a call: the deploy goes on, before any verdict, or the host
\* reboots or, if reboot(2) fails, stops.
LEMMA LocalIsPromised == IInv /\ LocalStep => [Promise!Next]_(Promise!vars)
<1> SUFFICES ASSUME IInv, LocalStep PROVE [Promise!Next]_(Promise!vars)
  OBVIOUS
<1>1. Quiet
  BY DEF LocalStep, OpenTarget, ImageHostAnswers, WriteChunk, StreamFails, StreamEnds,
         SyncImage, RereadPartitionTable, LocateEsp, RegisterBootEntry, FindOemPartition,
         MountPartition, PrepareEsp, WriteConfig, WriteProviderId, RemovePartials,
         Unmount, ZeroSecret, RebootNow
<1>2. boot' = boot /\ Verdict' = Verdict /\ Learned' = Learned /\ heard' = heard
  BY <1>1, SameSentSameVerdict DEF Quiet, wire, Learned
<1>3. CASE ~RebootNow
  <2>1. /\ pc \in {"open", "fetch", "stream", "sync", "reread", "esp", "mount", "body",
                   "providerId", "remove", "umount", "bootEntry", "findOem", "zero"}
        /\ pc' \notin {"rebooted", "parked", "exited"}
    BY <1>3 DEF LocalStep, OpenTarget, ImageHostAnswers, WriteChunk, StreamFails, StreamEnds,
         SyncImage, RereadPartitionTable, LocateEsp, RegisterBootEntry, FindOemPartition,
         MountPartition, PrepareEsp, WriteConfig, WriteProviderId, RemovePartials,
         Unmount, ZeroSecret, Goto, Fail
  <2>2. PhaseOf = "working" /\ PhaseOf' = "working"
    BY <2>1 DEF PhaseOf
  <2>3. Verdict[boot] = "none"
    BY <2>1, VerdictOfTold
       DEF IInv, VerdictFitsStep, Confirming, GivenUpConfirming, Verdict
  <2> QED
    BY <1>2, <2>2, <2>3
       DEF Promise!Next, Promise!Work, Promise!vars, Verdict, Learned, VerdictKinds, Installed
<1>4. CASE RebootNow
  <2>1. /\ PhaseOf = "working"
        /\ \/ PhaseOf' = "inTargetOS"
           \/ PhaseOf' = "stopped"
        /\ Installed' = Installed
    BY <1>4 DEF RebootNow, Goto, Return, PhaseOf, Installed, storage
  <2>2. Request("provisioned") \in heard /\ Told("provisioned")
    BY <1>4 DEF RebootNow, IInv, VerdictFitsStep, TypeOK, WireTypeOK, Told
  <2>3. Verdict[boot] = "provisioned" /\ boot \in Learned
    BY <2>2, VerdictOfTold DEF Learned, VerdictKinds, Request
  <2> QED
    BY <1>2, <2>1, <2>3
       DEF Promise!Next, Promise!EnterTargetOS, Promise!Stop, Verdict, Learned, VerdictKinds
<1> QED
  BY <1>3, <1>4

\* Phase 1 and the poll announce nothing: the host works on, or stops.
LEMMA PhaseOneIsPromised ==
  IInv /\ (StartUp \/ SubmitReport \/ PollBootstrap) => [Promise!Next]_(Promise!vars)
<1> SUFFICES ASSUME IInv, StartUp \/ SubmitReport \/ PollBootstrap
             PROVE  [Promise!Next]_(Promise!vars)
  OBVIOUS
<1>1. Verdict' = Verdict /\ Learned' = Learned /\ boot' = boot
  <2>1. CASE StartUp
    BY <2>1, SameSentSameVerdict DEF StartUp, wire, Learned
  <2>2. CASE SubmitReport
    BY <2>2, OtherKindsAnnounceNothing DEF SubmitReport, Kinds, VerdictKinds
  <2>3. CASE PollBootstrap
    BY <2>3, OtherKindsAnnounceNothing DEF PollBootstrap, Kinds, VerdictKinds
  <2> QED
    BY <2>1, <2>2, <2>3
<1>2. Installed' = Installed
  BY DEF StartUp, SubmitReport, PollBootstrap, Installed, storage
<1>3. PhaseOf = "working" /\ PhaseOf' \in {"working", "stopped"}
  BY DEF StartUp, SubmitReport, PollBootstrap, PhaseOf, Goto, Fail, Return
<1> QED
  BY <1>1, <1>2, <1>3
     DEF Promise!Next, Promise!Stop, Promise!vars, Verdict, Learned, VerdictKinds

\* The two callbacks announce their verdict, provisioned only of a complete deploy.
LEMMA ReportsArePromised ==
  IInv /\ (ReportProvisioned \/ ReportFailure) => Promise!Next
<1> SUFFICES ASSUME IInv, ReportProvisioned \/ ReportFailure PROVE Promise!Next
  OBVIOUS
<1>1. CASE ReportProvisioned
  <2>1. /\ PhaseOf = "working" /\ PhaseOf' \in {"working", "stopped"}
        /\ Installed' = Installed /\ boot' = boot
    BY <1>1 DEF ReportProvisioned, PhaseOf, Goto, Return, Installed, storage
  <2>2. Installed /\ ~Told("provisionFailed")
    BY <1>1 DEF ReportProvisioned, IInv, DiskFitsStep, VerdictFitsStep, Confirming
  <2>3. /\ Verdict[boot] \in {"none", "provisioned"}
        /\ Verdict' = [Verdict EXCEPT ![boot] = "provisioned"]
        /\ Learned' \in {Learned, Learned \cup {boot}}
    BY <1>1, <2>1, <2>2, VerdictExchangeAnnounces DEF ReportProvisioned, VerdictKinds
  <2> QED
    BY <2>1, <2>2, <2>3
       DEF Promise!Next, Promise!Announce, Promise!Verdicts, Verdict, Learned, VerdictKinds
<1>2. CASE ReportFailure
  <2>1. /\ PhaseOf = "working" /\ PhaseOf' \in {"working", "stopped"}
        /\ Installed' = Installed /\ boot' = boot
    BY <1>2 DEF ReportFailure, PhaseOf, Goto, Return, Installed, storage
  <2>2. ~Told("provisioned")
    BY <1>2 DEF ReportFailure, IInv, VerdictFitsStep, Confirming, GivenUpConfirming
  <2>3. /\ Verdict[boot] \in {"none", "provisionFailed"}
        /\ Verdict' = [Verdict EXCEPT ![boot] = "provisionFailed"]
        /\ Learned' \in {Learned, Learned \cup {boot}}
    BY <1>2, <2>1, <2>2, VerdictExchangeAnnounces DEF ReportFailure, VerdictKinds
  <2> QED
    BY <2>1, <2>3
       DEF Promise!Next, Promise!Announce, Promise!Verdicts, Verdict, Learned, VerdictKinds
<1> QED
  BY <1>1, <1>2

\* A power cycle restarts the promise at the next boot.
LEMMA PowerCycleIsPromised == IInv /\ PowerCycle => Promise!Next
<1> SUFFICES ASSUME IInv, PowerCycle PROVE Promise!Next
  OBVIOUS
<1>1. boot + 1 \in Boots
  BY BootsAssumption DEF PowerCycle, IInv, TypeOK, WireTypeOK, Boots
<1>2. Verdict' = Verdict /\ Learned' = Learned
  BY SameSentSameVerdict DEF PowerCycle, Learned
<1>3. Installed' = Installed /\ PhaseOf' = "working"
  BY DEF PowerCycle, Installed, storage, PhaseOf
<1> QED
  BY <1>1, <1>2, <1>3
     DEF PowerCycle, Promise!Next, Promise!Restart, Verdict, Learned, VerdictKinds

\* A late arrival of any boot tells the controller a verdict that boot has announced, or
\* nothing the promise knows of.
LEMMA ArrivalIsPromised == IInv /\ Arrival => [Promise!Next]_(Promise!vars)
<1> SUFFICES ASSUME IInv, Arrival PROVE [Promise!Next]_(Promise!vars)
  OBVIOUS
<1>1. PICK m \in late : heard' = heard \cup {m}
  BY DEF Arrival, LateArrival
<1>2. /\ boot' = boot /\ sent' = sent
      /\ PhaseOf' = PhaseOf /\ Installed' = Installed /\ Verdict' = Verdict
  BY SameSentSameVerdict DEF Arrival, LateArrival, PhaseOf, Installed, storage
<1>3. m \in sent /\ m \in Requests
  BY DEF IInv, TypeOK, WireTypeOK
<1>4. CASE m.kind \notin VerdictKinds
  <2>1. Learned' = Learned
    BY <1>1, <1>4 DEF Learned
  <2> QED
    BY <1>2, <2>1 DEF Promise!vars, Verdict, Learned, VerdictKinds
<1>5. CASE m.kind \in VerdictKinds
  <2>1. m = [boot |-> m.boot, kind |-> m.kind] /\ m.boot \in Boots
    BY <1>3 DEF Requests
  <2>2. VerdictOf(m.boot) # "none"
    BY <1>3, <1>5, <2>1 DEF VerdictOf, VerdictKinds
  <2>3. Learned' = Learned \cup {m.boot}
    BY <1>1, <1>5 DEF Learned
  <2> QED
    BY <1>2, <2>1, <2>2, <2>3
       DEF Promise!Next, Promise!Learn, Verdict, Learned, VerdictKinds
<1> QED
  BY <1>4, <1>5

-----------------------------------------------------------------------------
\* The pipeline keeps what DeployVerdict promises the controller, for every number of
\* boots, attempts and polls, and in whatever order late requests arrive.
THEOREM PipelineKeepsPromise == Spec => KeepsPromise
<1>1. Init => Promise!Init
  BY InitIsPromised
<1>2. IInv /\ [Next]_vars => [Promise!Next]_(Promise!vars)
  <2> SUFFICES ASSUME IInv, [Next]_vars PROVE [Promise!Next]_(Promise!vars)
    OBVIOUS
  <2>1. CASE Next
    BY <2>1, LocalIsPromised, PhaseOneIsPromised, ReportsArePromised,
       PowerCycleIsPromised, ArrivalIsPromised DEF Next, HostStep, LocalStep
  <2>2. CASE UNCHANGED vars
    BY <2>2 DEF vars, wire, storage, Promise!vars, PhaseOf, VerdictOf, Installed
  <2> QED
    BY <2>1, <2>2
<1> QED
  BY <1>1, <1>2, Inductive, PTL DEF Spec, KeepsPromise, Promise!Spec
=============================================================================
