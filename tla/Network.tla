------------------------------ MODULE Network -------------------------------
(***************************************************************************)
(* The way from the driver load to an addressed interface: load_drivers    *)
(* and the settle wait (modules.rs), select_nics, the static address and   *)
(* the hand-over to the DHCP exchanges (net.rs).  The kernel registers     *)
(* interfaces and block devices while all of this runs.                    *)
(***************************************************************************)
EXTENDS DhcpRace, FiniteSets

CONSTANTS
  Macs,            \* the addresses interfaces may have
  Mac,             \* Mac[n]: /sys/class/net/<n>/address
  Odd,             \* the interfaces whose address may be missing or not six bytes
  MaxBlocks,       \* bound: entries of /sys/block
  StablePolls,     \* SETTLE_STABLE_POLLS
  SettleTimeout    \* SETTLE_TIMEOUT, in polls of SETTLE_POLL

ASSUME MacAssumption    == /\ Mac \in [Nics -> Macs] /\ None \notin Macs
                           /\ Odd \subseteq Nics
ASSUME SettleAssumption == /\ MaxBlocks \in Nat
                           /\ StablePolls \in Nat \ {0}
                           /\ SettleTimeout \in Nat \ {0}

VARIABLES
  bootif,      \* BOOTIF of the command line, a MAC or None
  static,      \* beskar7.ip is set
  unreadable,  \* those of Odd whose address is so on this host
  present,     \* the interfaces registered so far
  blocks,      \* the entries of /sys/block so far
  phase,       \* "load", "sleep", "look", "select", "static", "addressing", "race"
  prev,        \* Settle.prev
  cur,         \* the observation being made
  stable,      \* Settle.stable
  elapsed,     \* the time since the wait began
  outcome,     \* how the wait ended: SettleOutcome, or "none" without a wait
  nic          \* the interface a static address goes to, 0 if there is none

kernel == <<present, blocks>>
settling == <<prev, cur, stable, elapsed, outcome>>
asked == <<bootif, static, unreadable>>
vars == <<raceVars, asked, kernel, phase, settling, nic>>

-----------------------------------------------------------------------------
\* candidate_interfaces is `present`; those among them that BOOTIF names.  What has no
\* six-byte address has another string there.
Named(S) == {n \in S \ unreadable : Mac[n] = bootif}

\* nic_selectable.
Selectable(S) == S # {} /\ (bootif = None \/ Named(S) # {})

\* select_nics, when it succeeds: the pinned interface, or all of them.
Chosen(S) == IF bootif # None THEN {First(Named(S))} ELSE S

Counts(S, b) == [block |-> b, nics |-> Cardinality(S), selectable |-> Selectable(S)]

NoCounts == [block |-> 0, nics |-> 0, selectable |-> FALSE]

\* The locals of settle are gone when it returns.
Return(out) ==
  /\ phase' = "select" /\ outcome' = out
  /\ prev' = NoCounts /\ cur' = NoCounts /\ stable' = 0 /\ elapsed' = 0

-----------------------------------------------------------------------------
\* Without a module list there is nothing to load and no wait.  Modules that do not
\* load are counted and passed over.
LoadDrivers ==
  /\ phase = "load"
  /\ \/ Return("none")
     \/ /\ phase' = "sleep" /\ prev' = Counts(present, blocks)
        /\ UNCHANGED <<cur, stable, elapsed, outcome>>
  /\ UNCHANGED <<raceVars, asked, kernel, nic>>

\* The sleep, which may take longer than one poll, and the counts of an observation.
CountDevices ==
  /\ phase = "sleep"
  /\ phase' = "look"
  /\ cur' = Counts(present, blocks)
  /\ elapsed' \in {elapsed + 1, SettleTimeout}
  /\ UNCHANGED <<raceVars, asked, kernel, prev, stable, outcome, nic>>

\* Mutant: stable counts settle, whatever they are.
ObserveCountsOnly ==
  /\ phase = "look"
  /\ LET seen == [block |-> cur.block, nics |-> cur.nics, selectable |-> Selectable(present)]
         held == IF seen = prev THEN stable + 1 ELSE 0 IN
     IF held >= StablePolls THEN Return("settled")
     ELSE IF elapsed >= SettleTimeout THEN Return("timedOut")
     ELSE /\ phase' = "sleep" /\ prev' = seen /\ stable' = held
          /\ UNCHANGED <<cur, elapsed, outcome>>
  /\ UNCHANGED <<raceVars, asked, kernel, nic>>

\* device_counts_in reads the directory again for `selectable`; then Settle::observe.
Observe ==
  /\ phase = "look"
  /\ LET seen == [block |-> cur.block, nics |-> cur.nics, selectable |-> Selectable(present)]
         held == IF seen = prev THEN stable + 1 ELSE 0 IN
     IF held >= StablePolls /\ seen.selectable THEN Return("settled")
     ELSE IF elapsed >= SettleTimeout THEN Return("timedOut")
     ELSE /\ phase' = "sleep" /\ prev' = seen /\ stable' = held
          /\ UNCHANGED <<cur, elapsed, outcome>>
  /\ UNCHANGED <<raceVars, asked, kernel, nic>>

-----------------------------------------------------------------------------
\* bring_up_provisioning_network returns without an exchange.
Refuse(error) ==
  /\ result' = error
  /\ UNCHANGED <<exchange, link, address, main, winner, phase, nic>>

\* bring_up_one wants the address of its interface; bring_up_race passes over the
\* candidates whose address it cannot read.
StartDhcp(S) ==
  IF S \subseteq unreadable
  THEN Refuse(IF Cardinality(S) = 1 THEN "sysRead" ELSE "noInterface")
  ELSE Race(S \ unreadable) /\ phase' = "race" /\ UNCHANGED nic

StartStatic(S) ==
  IF Cardinality(S) = 1
  THEN /\ nic' = First(S) /\ phase' = "static"
       /\ UNCHANGED raceVars
  ELSE Refuse("staticAmbiguous")

\* Mutant: the static address goes to the first interface.
SelectFirstForStatic ==
  /\ phase = "select" /\ result = "none"
  /\ IF ~Selectable(present)
     THEN Refuse(IF present = {} THEN "noInterface" ELSE "bootifNoMatch")
     ELSE IF static THEN StartStatic({First(present)}) ELSE StartDhcp(Chosen(present))
  /\ UNCHANGED <<asked, kernel, settling>>

\* select_nics, read once, and the branch on the static address.
Select ==
  /\ phase = "select" /\ result = "none"
  /\ IF ~Selectable(present)
     THEN Refuse(IF present = {} THEN "noInterface" ELSE "bootifNoMatch")
     ELSE IF static THEN StartStatic(Chosen(present)) ELSE StartDhcp(Chosen(present))
  /\ UNCHANGED <<asked, kernel, settling>>

\* bring_up_static: the link, or an error.
StaticLinkUp ==
  /\ phase = "static" /\ result = "none"
  /\ LET up == [link EXCEPT ![nic] = TRUE] IN
     \/ link' = up /\ phase' = "addressing" /\ UNCHANGED result
     \/ link' \in Refused(link, up) /\ result' = "linkFailed" /\ UNCHANGED phase
  /\ UNCHANGED <<exchange, address, main, winner, asked, kernel, settling, nic>>

\* The address and, if there is a gateway, the route; or an error of either.
StaticAddress ==
  /\ phase = "addressing" /\ result = "none"
  /\ LET given == [address EXCEPT ![nic] = TRUE] IN
     \/ address' = given /\ result' = "up"
     \/ address' \in Refused(address, given) /\ result' = "applyFailed"
  /\ UNCHANGED <<exchange, link, main, winner, asked, kernel, settling, phase, nic>>

\* The kernel registers an interface or a block device, in its own time.  Nothing reads
\* what it registers after the selection.
Register ==
  /\ phase \in {"load", "sleep", "look", "select"} /\ result = "none"
  /\ \/ \E n \in Nics \ present : present' = present \cup {n} /\ UNCHANGED blocks
     \/ blocks < MaxBlocks /\ blocks' = blocks + 1 /\ UNCHANGED present
  /\ UNCHANGED <<raceVars, asked, phase, settling, nic>>

-----------------------------------------------------------------------------
Init ==
  /\ RaceInit
  /\ bootif \in Macs \cup {None} /\ static \in BOOLEAN /\ unreadable \in SUBSET Odd
  /\ present \in SUBSET Nics /\ blocks = 0
  /\ phase = "load" /\ outcome = "none"
  /\ prev = NoCounts /\ cur = NoCounts /\ stable = 0 /\ elapsed = 0
  /\ nic = 0

HostStep == \/ LoadDrivers \/ CountDevices \/ Observe \/ Select
            \/ StaticLinkUp \/ StaticAddress

Next == HostStep \/ Register \/ (RaceStep /\ UNCHANGED <<asked, kernel, phase, settling, nic>>)

Spec == Init /\ [][Next]_vars

\* PID 1 runs; nothing is assumed of what the kernel registers.
FairSpec == Spec /\ WF_vars(HostStep) /\ RaceFairness

-----------------------------------------------------------------------------
\* Type correctness; the wait counts no further than its timeout.
TypeOK ==
  /\ RaceTypeOK
  /\ result \in {"none", "up", "noLease", "applyFailed", "linkFailed", "sysRead",
                 "noInterface", "bootifNoMatch", "staticAmbiguous"}
  /\ bootif \in Macs \cup {None} /\ static \in BOOLEAN /\ unreadable \subseteq Odd
  /\ present \subseteq Nics /\ blocks \in 0 .. MaxBlocks /\ nic \in Nics \cup {0}
  /\ {prev, cur} \subseteq [block : 0 .. MaxBlocks, nics : 0 .. LastNic, selectable : BOOLEAN]
  /\ phase \in {"load", "sleep", "look", "select", "static", "addressing", "race"}
  /\ stable \in 0 .. SettleTimeout /\ elapsed \in 0 .. SettleTimeout
  /\ outcome \in {"none", "settled", "timedOut"}

\* When the wait has settled, the interface NIC selection needs is there: the run does
\* not end for want of it, whatever registers in the middle of an observation.  Only
\* a timeout, or a host without a module list, leads there (modules.rs:199-217).
SettledIsSelectable ==
  outcome = "settled" => result \notin {"noInterface", "bootifNoMatch"}
                         \/ (result = "noInterface" /\ present \subseteq unreadable)

\* A pin is kept on every path: with BOOTIF no other interface is brought up, asks for
\* a lease or gets an address, and with a static address nothing asks for a lease and
\* no second interface is touched, whatever registers when (net.rs:176-190, 399-427).
PinIsHonoured ==
  LET touched == {n \in Nics : link[n] \/ address[n] \/ round[n] > 0} IN
  /\ bootif # None => \A n \in touched : Mac[n] = bootif
  /\ static => Cardinality(touched) <= 1 /\ \A n \in Nics : round[n] = 0

\* Bring-up returns: no wait for a device that never registers, no thread on a silent
\* network, and no join of a thread lasts for ever.
BringUpEnds == <>(result # "none")
=============================================================================
