---------------------------- MODULE NetworkProofs ----------------------------
(***************************************************************************)
(* Proofs about Network and DhcpRace, for every set of interfaces and of   *)
(* servers, whatever registers when and whichever thread runs.             *)
(*                                                                         *)
(* IInv follows one interface through the bring-up: what it was chosen     *)
(* for, what its thread heard, whether its link is up, and which interface *)
(* the main thread may have addressed.                                     *)
(***************************************************************************)
EXTENDS Network, FiniteSetTheorems, NaturalLemmas

\* The stages of the race before its links go down, and those after the join.
Racing == {"join", "apply", "teardown"}
Joined == {"apply", "teardown", "done"}

\* What the rounds and the replies of an exchange say of its thread; a server that is
\* alone on a network holds the address it acknowledged.
ThreadFits(n) ==
  /\ thread[n] \in {"idle", "start"} => round[n] = 0
  /\ thread[n] = "discover" => round[n] < MaxRounds
  /\ lease[n] # None => thread[n] = "done" /\ Reply("ack", lease[n]) \in replies[n]
  /\ \A r \in replies[n] : r.server \in Serves[n]
  /\ (\E s \in Servers : Serves[n] = {s}) =>
       \A r \in replies[n] : r.type = "ack" => r.server \in committed[n]

\* Only an interface with a thread, or the one of the static address, is set up; while
\* the race lasts the link of one that got as far as an exchange stays up.
LinkFits(n) ==
  /\ link[n] => thread[n] \notin {"idle", "start"} \/ n = nic
  /\ main \in Racing /\ (thread[n] \in {"discover", "offer", "ack"} \/ lease[n] # None)
       => link[n]

\* A race without a lease ends at once; otherwise its winner is the one choose_lease finds.
WinnerIsChosen ==
  /\ winner \in WithLease
  /\ WithGateway # {} => winner \in WithGateway /\ \A n \in WithGateway : winner <= n
  /\ WithGateway = {} => \A n \in WithLease : winner <= n

MainFits ==
  /\ phase = "race" <=> main # "off"
  /\ main = "off" => \A n \in Nics : thread[n] = "idle"
  /\ main \in {"off", "join"} => winner = 0
  /\ main \in Racing => result = "none"
  /\ main \in Joined => \A n \in Nics : thread[n] \in {"idle", "done"}
  /\ main \in {"apply", "teardown"} \/ (main = "done" /\ result # "noLease") => WinnerIsChosen
  /\ main = "done" => result \in {"noLease", "up", "applyFailed"}
  /\ result = "noLease" => main = "done" /\ WithLease = {} /\ winner = 0

\* The interface that may have an address: the winner, or the one of the static address.
Addressee == IF main = "off" THEN nic ELSE winner

AddressFits ==
  /\ \A n \in Nics : address[n] => n = Addressee
  /\ main = "teardown" => address[winner]
  /\ result = "up" => Addressee \in Nics /\ address[Addressee] /\ link[Addressee]

\* The pin reaches every interface that is chosen.
ChoiceFits ==
  /\ phase \in {"static", "addressing"} => nic \in Nics
  /\ phase \notin {"static", "addressing"} => nic = 0
  /\ phase = "addressing" => link[nic]
  /\ static => main = "off"
  /\ bootif # None => /\ nic # 0 => Mac[nic] = bootif
                      /\ \A n \in Nics : thread[n] # "idle" => Mac[n] = bootif

\* The wait counts time at least as fast as stable polls, settles only on a selectable
\* host, and comes before any result.
SettleFits ==
  /\ phase \in {"load", "sleep", "look"} => result = "none"
  /\ phase = "load" => stable = 0 /\ elapsed = 0
  /\ phase = "sleep" => stable <= elapsed /\ elapsed < SettleTimeout
  /\ phase = "look" => stable < elapsed
  /\ outcome = "settled" => phase \notin {"load", "sleep", "look"} /\ Selectable(present)

\* The inductive invariant.
IInv == /\ TypeOK
        /\ \A n \in Nics : ThreadFits(n) /\ LinkFits(n)
        /\ MainFits
        /\ AddressFits
        /\ ChoiceFits
        /\ SettleFits
        /\ SettledIsSelectable

-----------------------------------------------------------------------------
\* The operators the selection and the race are built from.

\* First finds the least interface of a set that has one.
LEMMA FirstIsLeast ==
  ASSUME NEW S, S \subseteq Nics, S # {}
  PROVE  First(S) \in S /\ \A n \in S : First(S) <= n
<1>1. S \subseteq Nat
  BY NicAssumption DEF Nics
<1>2. \E n \in S : \A m \in S : n <= m
  BY <1>1, NatLeast
<1> QED
  BY <1>2 DEF First

\* choose_lease finds nothing only when there is no lease, and otherwise a lease with a
\* gateway if there is one, the first of them, or else the first.
LEMMA ChooseLeaseIsRight ==
  ASSUME RaceTypeOK
  PROVE  /\ ChooseLease \in Nics \cup {0}
         /\ ChooseLease = 0 => WithLease = {}
         /\ ChooseLease # 0 =>
              /\ ChooseLease \in WithLease
              /\ WithGateway # {} => /\ ChooseLease \in WithGateway
                                     /\ \A n \in WithGateway : ChooseLease <= n
              /\ WithGateway = {} => \A n \in WithLease : ChooseLease <= n
<1>1. 0 \notin Nics /\ WithLease \subseteq Nics /\ WithGateway \subseteq Nics
  BY NicAssumption DEF Nics, WithLease, WithGateway
<1>2. WithGateway \subseteq WithLease
  BY ServerAssumption DEF WithGateway, WithLease
<1>3. CASE WithGateway # {}
  BY <1>1, <1>2, <1>3, FirstIsLeast DEF ChooseLease
<1>4. CASE WithGateway = {} /\ WithLease # {}
  BY <1>1, <1>4, FirstIsLeast DEF ChooseLease
<1>5. CASE WithGateway = {} /\ WithLease = {}
  BY <1>5 DEF ChooseLease
<1> QED
  BY <1>3, <1>4, <1>5

\* What select_nics chooses when it succeeds is present, and with a pin it is what the pin
\* names, with a readable address.
LEMMA ChosenIsPresent ==
  ASSUME present \subseteq Nics, Selectable(present)
  PROVE  /\ Chosen(present) # {} /\ Chosen(present) \subseteq present
         /\ bootif # None => \A n \in Chosen(present) : Mac[n] = bootif /\ n \notin unreadable
<1>1. CASE bootif = None
  BY <1>1 DEF Selectable, Chosen
<1>2. CASE bootif # None
  <2>1. Named(present) # {} /\ Named(present) \subseteq present
    BY <1>2 DEF Selectable, Named
  <2>2. First(Named(present)) \in Named(present)
    BY <2>1, FirstIsLeast
  <2> QED
    BY <1>2, <2>1, <2>2 DEF Chosen, Named
<1> QED
  BY <1>1, <1>2

\* An interface that registers does not make a selectable host unselectable.
LEMMA SelectableGrows ==
  ASSUME Selectable(present), present \subseteq present', bootif' = bootif,
         unreadable' = unreadable
  PROVE  Selectable(present')
<1>1. Named(present) \subseteq Named(present')
  BY DEF Named
<1> QED
  BY <1>1 DEF Selectable

-----------------------------------------------------------------------------
\* The invariant holds before the drivers are loaded.
LEMMA InitIInv == Init => IInv
<1> SUFFICES ASSUME Init PROVE IInv
  OBVIOUS
<1> USE DEF Init, RaceInit
<1>1. RaceTypeOK
  BY RoundAssumption DEF RaceTypeOK
<1>2. TypeOK
  BY <1>1, NicAssumption, MacAssumption, SettleAssumption DEF TypeOK, NoCounts
<1>3. ASSUME NEW n \in Nics PROVE ThreadFits(n) /\ LinkFits(n)
  BY <1>3 DEF ThreadFits, LinkFits, Racing
<1>4. MainFits
  BY DEF MainFits, Racing, Joined
<1>5. AddressFits /\ ChoiceFits /\ SettleFits /\ SettledIsSelectable
  BY DEF AddressFits, ChoiceFits, SettleFits, SettledIsSelectable
<1> QED
  BY <1>2, <1>3, <1>4, <1>5 DEF IInv

-----------------------------------------------------------------------------
\* The threads of the race.  While one runs, the main thread waits at the join and nothing
\* is addressed; a thread changes nothing but what belongs to its own interface.
RaceOnly == UNCHANGED <<asked, kernel, phase, settling, nic>>

LEMMA ThreadFrame ==
  ASSUME IInv, NEW n \in Nics, ThreadStep(n)
  PROVE  /\ main = "join" /\ UNCHANGED <<address, main, winner, result>>
         /\ thread[n] \notin {"idle", "done"} /\ thread'[n] \notin {"idle", "start"}
         /\ lease[n] = None
         /\ \A m \in Nics \ {n} :
              /\ thread'[m] = thread[m] /\ round'[m] = round[m] /\ replies'[m] = replies[m]
              /\ lease'[m] = lease[m] /\ committed'[m] = committed[m] /\ link'[m] = link[m]
<1> USE DEF ThreadStep, LinkUp, Discover, Request, Acknowledged, TimesOut, SocketError,
        NextRound, Outside, Refused
<1>1. RaceTypeOK
  BY DEF IInv, TypeOK
<1>2. thread[n] \in {"start", "discover", "offer", "ack"}
  OBVIOUS
<1>3. UNCHANGED <<address, main, winner, result>>
  OBVIOUS
<1>4. main = "join"
  BY <1>1, <1>2 DEF IInv, MainFits, Joined, RaceTypeOK
<1>5. thread'[n] \in {"discover", "offer", "ack", "done"}
  BY <1>1 DEF RaceTypeOK
<1>6. lease[n] = None
  BY <1>2 DEF IInv, ThreadFits
<1>7. ASSUME NEW m \in Nics \ {n}
      PROVE  /\ thread'[m] = thread[m] /\ round'[m] = round[m] /\ replies'[m] = replies[m]
             /\ lease'[m] = lease[m] /\ committed'[m] = committed[m] /\ link'[m] = link[m]
  BY <1>1 DEF RaceTypeOK
<1> QED
  BY <1>2, <1>3, <1>4, <1>5, <1>6, <1>7

\* What is left to show of a step of a thread: the types, and what concerns its interface.
LEMMA ThreadStepSuffices ==
  ASSUME IInv, NEW n \in Nics, ThreadStep(n), RaceOnly, RaceTypeOK', ThreadFits(n)',
         LinkFits(n)'
  PROVE  IInv'
<1> USE ThreadFrame DEF RaceOnly, asked, kernel, settling
<1>1. TypeOK'
  BY DEF IInv, TypeOK
<1>2. ASSUME NEW m \in Nics PROVE ThreadFits(m)' /\ LinkFits(m)'
  BY <1>2 DEF IInv, ThreadFits, LinkFits
<1>3. MainFits'
  BY DEF IInv, MainFits, Racing, Joined
<1>4. AddressFits' /\ SettleFits' /\ SettledIsSelectable'
  BY DEF IInv, AddressFits, Addressee, MainFits, SettleFits, SettledIsSelectable, Selectable,
         Named, Racing
<1>5. ChoiceFits'
  <2>1. main' = main /\ phase' = phase /\ nic' = nic /\ static' = static /\ bootif' = bootif
    OBVIOUS
  <2>2. ASSUME bootif # None, NEW m \in Nics, thread'[m] # "idle" PROVE Mac[m] = bootif
    BY <2>2 DEF IInv, ChoiceFits
  <2>3. phase \notin {"static", "addressing"}
    BY DEF IInv, MainFits
  <2> QED
    BY <2>1, <2>2, <2>3 DEF IInv, ChoiceFits
<1> QED
  BY <1>1, <1>2, <1>3, <1>4, <1>5 DEF IInv

\* dhcp_link: the link is up before the exchange begins, and may be after an error.
LEMMA LinkUpKeeps ==
  ASSUME IInv, NEW n \in Nics, LinkUp(n), RaceOnly
  PROVE  IInv'
<1> USE DEF LinkUp, Outside, Refused
<1>1. ThreadStep(n) /\ RaceTypeOK
  BY DEF ThreadStep, IInv, TypeOK
<1>2. thread'[n] \in {"discover", "done"} /\ (thread'[n] = "discover" => link'[n])
  BY <1>1 DEF RaceTypeOK
<1>3. RaceTypeOK'
  BY <1>1 DEF RaceTypeOK
<1>4. round[n] = 0 /\ lease[n] = None
  BY <1>1 DEF IInv, ThreadFits, RaceTypeOK
<1>5. ThreadFits(n)'
  BY <1>2, <1>4, RoundAssumption DEF IInv, ThreadFits
<1>6. LinkFits(n)'
  BY <1>2, <1>4 DEF LinkFits
<1> QED
  BY <1>1, <1>3, <1>5, <1>6, ThreadStepSuffices

\* A DISCOVER uses up a round; who offers is on the network of the interface.
LEMMA DiscoverKeeps ==
  ASSUME IInv, NEW n \in Nics, Discover(n), RaceOnly
  PROVE  IInv'
<1> USE DEF Discover, Outside
<1>1. ThreadStep(n) /\ RaceTypeOK /\ main = "join" /\ main' = main
  BY ThreadFrame DEF ThreadStep, IInv, TypeOK
<1>2. round[n] < MaxRounds /\ lease[n] = None /\ link[n]
  BY <1>1 DEF IInv, ThreadFits, LinkFits, Racing
<1>3. \/ round' = [round EXCEPT ![n] = @ + 1]
      \/ round' = round
  OBVIOUS
<1>4. round' \in [Nics -> 0 .. MaxRounds]
  BY <1>1, <1>2, <1>3, RoundAssumption DEF RaceTypeOK
<1>5. PICK heard \in SUBSET Serves[n] :
        replies' \in {replies, [replies EXCEPT ![n] = @ \cup {Reply("offer", s) : s \in heard}]}
  OBVIOUS
<1>6. heard \subseteq Servers
  BY ServerAssumption
<1>7. /\ replies' \in [Nics -> SUBSET [type : {"offer", "ack"}, server : Servers]]
      /\ replies'[n] \subseteq replies[n] \cup {Reply("offer", s) : s \in heard}
  BY <1>1, <1>5, <1>6 DEF RaceTypeOK, Reply
<1>8. thread'[n] \in {"offer", "done"} /\ RaceTypeOK'
  BY <1>1, <1>4, <1>7 DEF RaceTypeOK
<1>9. \A r \in replies'[n] : r \in replies[n] \/ (r.type = "offer" /\ r.server \in Serves[n])
  BY <1>7 DEF Reply
<1>10. ThreadFits(n)'
  BY <1>2, <1>8, <1>9 DEF IInv, ThreadFits
<1>11. LinkFits(n)'
  BY <1>2, <1>8 DEF LinkFits
<1> QED
  BY <1>1, <1>8, <1>10, <1>11, ThreadStepSuffices

\* A REQUEST is heard by some servers of the network; only the one it names commits and
\* acknowledges, and with one server on the network none lets its address go.
LEMMA RequestKeeps ==
  ASSUME IInv, NEW n \in Nics, Request(n), RaceOnly
  PROVE  IInv'
<1>1. /\ ThreadStep(n) /\ RaceTypeOK /\ main = "join" /\ main' = main
      /\ lease[n] = None /\ thread[n] = "offer"
  BY ThreadFrame DEF ThreadStep, IInv, TypeOK, Request
<1>2. PICK s \in Servers, heard \in SUBSET Serves[n] :
        /\ Receives(n, "offer", s)
        /\ committed' = [committed EXCEPT ![n] = (@ \ (heard \ {s})) \cup (heard \cap {s})]
        /\ replies' = [replies EXCEPT ![n] = @ \cup {Reply("ack", t) : t \in heard \cap {s}}]
  BY DEF Request
<1>3. thread' = [thread EXCEPT ![n] = "ack"] /\ UNCHANGED <<round, lease, link>>
  BY DEF Request
<1>4. s \in Serves[n]
  BY <1>2 DEF IInv, ThreadFits, Receives, Reply
<1>5. /\ replies'[n] = replies[n] \cup {Reply("ack", t) : t \in heard \cap {s}}
      /\ committed'[n] = (committed[n] \ (heard \ {s})) \cup (heard \cap {s})
      /\ thread'[n] = "ack"
  BY <1>1, <1>2, <1>3 DEF RaceTypeOK
<1>6. RaceTypeOK'
  <2>1. heard \cap {s} \subseteq Servers
    OBVIOUS
  <2>2. {Reply("ack", t) : t \in heard \cap {s}} \subseteq [type : {"offer", "ack"}, server : Servers]
    BY <2>1 DEF Reply
  <2>3. replies' \in [Nics -> SUBSET [type : {"offer", "ack"}, server : Servers]]
    BY <1>1, <1>2, <2>2 DEF RaceTypeOK
  <2>4. committed' \in [Nics -> SUBSET Servers]
    BY <1>1, <1>2, <2>1 DEF RaceTypeOK
  <2> QED
    BY <1>1, <1>3, <2>3, <2>4, ThreadFrame DEF RaceTypeOK
<1>7. ASSUME NEW r \in replies'[n], r \notin replies[n]
      PROVE  r.type = "ack" /\ r.server = s /\ s \in heard
  BY <1>5, <1>7 DEF Reply
<1>8. ASSUME NEW t \in Servers, Serves[n] = {t} PROVE committed[n] \cup heard \subseteq committed'[n]
  BY <1>4, <1>5, <1>8
<1>9. ThreadFits(n)'
  <2>1. lease'[n] = None /\ thread'[n] = "ack"
    BY <1>1, <1>3, <1>5
  <2>2. \A r \in replies'[n] : r.server \in Serves[n]
    BY <1>4, <1>7 DEF IInv, ThreadFits
  <2>3. ASSUME NEW t \in Servers, Serves[n] = {t}, NEW r \in replies'[n], r.type = "ack"
        PROVE  r.server \in committed'[n]
    BY <1>7, <1>8, <2>3 DEF IInv, ThreadFits
  <2> QED
    BY <2>1, <2>2, <2>3 DEF ThreadFits
<1>10. LinkFits(n)'
  BY <1>1, <1>3, <1>5 DEF IInv, LinkFits, Racing
<1> QED
  BY <1>1, <1>6, <1>9, <1>10, ThreadStepSuffices

\* The lease a thread returns is that of an ACK it received.
LEMMA AcknowledgedKeeps ==
  ASSUME IInv, NEW n \in Nics, Acknowledged(n), RaceOnly
  PROVE  IInv'
<1>1. /\ ThreadStep(n) /\ RaceTypeOK /\ main = "join" /\ main' = main /\ thread[n] = "ack"
  BY ThreadFrame DEF ThreadStep, IInv, TypeOK, Acknowledged
<1>2. PICK s \in Servers : Reply("ack", s) \in replies[n] /\ lease' = [lease EXCEPT ![n] = s]
  BY DEF Acknowledged, Receives
<1>3. thread' = [thread EXCEPT ![n] = "done"] /\ UNCHANGED <<round, replies, committed, link>>
  BY DEF Acknowledged
<1>4. lease'[n] = s /\ thread'[n] = "done"
  BY <1>1, <1>2, <1>3 DEF RaceTypeOK
<1>5. RaceTypeOK'
  BY <1>1, <1>2, <1>3, ThreadFrame DEF RaceTypeOK
<1>6. ThreadFits(n)'
  BY <1>2, <1>3, <1>4 DEF IInv, ThreadFits
<1>7. LinkFits(n)'
  BY <1>1, <1>3, <1>4 DEF IInv, LinkFits, Racing
<1> QED
  BY <1>1, <1>5, <1>6, <1>7, ThreadStepSuffices

\* A timeout starts the next round if there is one left; a socket error ends the thread.
LEMMA GivingUpKeeps ==
  ASSUME IInv, NEW n \in Nics, TimesOut(n) \/ SocketError(n), RaceOnly
  PROVE  IInv'
<1> USE DEF TimesOut, SocketError, NextRound, Outside
<1>1. /\ ThreadStep(n) /\ RaceTypeOK /\ main = "join" /\ main' = main
      /\ lease[n] = None /\ thread[n] \in {"offer", "ack"}
  BY ThreadFrame DEF ThreadStep, IInv, TypeOK
<1>2. /\ thread'[n] \in {"discover", "done"}
      /\ thread'[n] = "discover" => round[n] < MaxRounds
      /\ UNCHANGED <<round, replies, lease, committed, link>>
  BY <1>1 DEF RaceTypeOK
<1>3. RaceTypeOK'
  BY <1>1 DEF RaceTypeOK
<1>4. ThreadFits(n)'
  BY <1>1, <1>2 DEF IInv, ThreadFits
<1>5. LinkFits(n)'
  BY <1>1, <1>2 DEF IInv, LinkFits, Racing
<1> QED
  BY <1>1, <1>3, <1>4, <1>5, ThreadStepSuffices

-----------------------------------------------------------------------------
\* The main thread.  At the join every thread has ended, and choose_lease reads leases that
\* do not change any more.
LEMMA JoinAllKeeps == IInv /\ JoinAll /\ RaceOnly => IInv'
<1> SUFFICES ASSUME IInv, JoinAll, RaceOnly PROVE IInv'
  OBVIOUS
<1> USE DEF JoinAll, RaceOnly, exchange, asked, kernel, settling
<1>1. /\ RaceTypeOK /\ winner = 0 /\ Addressee = 0 /\ result = "none" /\ phase = "race"
      /\ static' = static
  BY DEF IInv, TypeOK, MainFits, Racing, Addressee
<1>2. /\ winner' \in Nics \cup {0}
      /\ winner' = 0 => WithLease = {} /\ main' = "done" /\ result' = "noLease"
      /\ winner' # 0 => /\ main' = "apply" /\ result' = "none"
                        /\ winner' \in WithLease
                        /\ WithGateway # {} => winner' \in WithGateway
                                               /\ \A n \in WithGateway : winner' <= n
                        /\ WithGateway = {} => \A n \in WithLease : winner' <= n
  BY <1>1, ChooseLeaseIsRight
<1>3. TypeOK'
  BY <1>1, <1>2 DEF IInv, TypeOK, RaceTypeOK
<1>4. \A n \in Nics : ThreadFits(n)' /\ LinkFits(n)'
  BY <1>1, <1>2 DEF IInv, ThreadFits, LinkFits, Racing
<1>5. WithLease' = WithLease /\ WithGateway' = WithGateway
  BY DEF WithLease, WithGateway
<1>6. MainFits'
  BY <1>1, <1>2, <1>5 DEF IInv, MainFits, WinnerIsChosen, Racing, Joined
<1>7. \A n \in Nics : ~address'[n]
  BY <1>1, NicAssumption DEF IInv, AddressFits, Nics
<1>8. AddressFits' /\ SettleFits' /\ SettledIsSelectable'
  BY <1>1, <1>2, <1>7 DEF IInv, AddressFits, SettleFits, SettledIsSelectable, Selectable, Named
<1>9. ChoiceFits'
  <2>1. main' # "off" /\ main # "off" /\ phase' = phase /\ phase = "race"
    BY <1>2 DEF IInv, MainFits
  <2> QED
    BY <1>1, <2>1 DEF IInv, ChoiceFits
<1> QED
  BY <1>3, <1>4, <1>6, <1>8, <1>9 DEF IInv

\* Only the winner is given an address.
LEMMA ApplyLeaseKeeps == IInv /\ ApplyLease /\ RaceOnly => IInv'
<1> SUFFICES ASSUME IInv, ApplyLease, RaceOnly PROVE IInv'
  OBVIOUS
<1> USE DEF ApplyLease, RaceOnly, exchange, asked, kernel, settling
<1>1. RaceTypeOK /\ result = "none" /\ WinnerIsChosen /\ phase = "race"
  BY DEF IInv, TypeOK, MainFits, Racing
<1>2. winner \in Nics /\ winner' = winner
  BY <1>1 DEF WinnerIsChosen, WithLease
<1>3. /\ address' \in [Nics -> BOOLEAN]
      /\ \A n \in Nics : address'[n] => n = winner
      /\ \/ main' = "teardown" /\ result' = "none" /\ address'[winner]
         \/ main' = "done" /\ result' = "applyFailed"
  BY <1>1, <1>2 DEF IInv, AddressFits, Addressee, RaceTypeOK, Refused
<1>4. TypeOK'
  BY <1>1, <1>3 DEF IInv, TypeOK, RaceTypeOK
<1>5. \A n \in Nics : ThreadFits(n)' /\ LinkFits(n)'
  BY <1>3 DEF IInv, ThreadFits, LinkFits, Racing
<1>6. WinnerIsChosen'
  BY <1>1 DEF WinnerIsChosen, WithLease, WithGateway
<1>7. MainFits'
  BY <1>1, <1>3, <1>6 DEF IInv, MainFits, Racing, Joined
<1>8. AddressFits' /\ SettleFits' /\ SettledIsSelectable'
  BY <1>1, <1>2, <1>3 DEF IInv, AddressFits, Addressee, SettleFits, SettledIsSelectable,
                          Selectable, Named
<1>9. ChoiceFits'
  <2>1. main' # "off" /\ main # "off" /\ phase' = phase /\ phase = "race"
    BY <1>3 DEF IInv, MainFits
  <2> QED
    BY <2>1 DEF IInv, ChoiceFits
<1> QED
  BY <1>4, <1>5, <1>7, <1>8, <1>9 DEF IInv

\* The teardown spares the winner, whose link is up.
LEMMA TearDownKeeps == IInv /\ TearDown /\ RaceOnly => IInv'
<1> SUFFICES ASSUME IInv, TearDown, RaceOnly PROVE IInv'
  OBVIOUS
<1> USE DEF TearDown, RaceOnly, exchange, asked, kernel, settling
<1>1. /\ RaceTypeOK /\ WinnerIsChosen /\ phase = "race"
      /\ main' = "done" /\ result' = "up" /\ winner' = winner
  BY DEF IInv, TypeOK, MainFits
<1>2. winner \in Nics /\ address[winner] /\ link[winner]
  BY <1>1 DEF IInv, WinnerIsChosen, WithLease, AddressFits, LinkFits, Racing
<1>3. link' \in [Nics -> BOOLEAN] /\ link'[winner] /\ \A n \in Nics : link'[n] => link[n]
  BY <1>1, <1>2 DEF RaceTypeOK
<1>4. TypeOK'
  BY <1>1, <1>3 DEF IInv, TypeOK, RaceTypeOK
<1>5. \A n \in Nics : ThreadFits(n)' /\ LinkFits(n)'
  BY <1>1, <1>3 DEF IInv, ThreadFits, LinkFits, Racing
<1>6. WinnerIsChosen'
  BY <1>1 DEF WinnerIsChosen, WithLease, WithGateway
<1>7. MainFits'
  BY <1>1, <1>6 DEF IInv, MainFits, Racing, Joined
<1>8. AddressFits' /\ SettleFits' /\ SettledIsSelectable'
  BY <1>1, <1>2, <1>3 DEF IInv, AddressFits, Addressee, SettleFits, SettledIsSelectable,
                          Selectable, Named
<1>9. ChoiceFits'
  <2>1. main' # "off" /\ main # "off" /\ phase' = phase /\ phase = "race"
    BY <1>1 DEF IInv, MainFits
  <2> QED
    BY <2>1 DEF IInv, ChoiceFits
<1> QED
  BY <1>4, <1>5, <1>7, <1>8, <1>9 DEF IInv

-----------------------------------------------------------------------------
\* The wait for the devices.

\* There are finitely many interfaces, so that those present can be counted.
LEMMA PresentIsCounted ==
  ASSUME TypeOK
  PROVE  Counts(present, blocks) \in
           [block : 0 .. MaxBlocks, nics : 0 .. LastNic, selectable : BOOLEAN]
<1>1. IsFiniteSet(Nics) /\ Cardinality(Nics) = LastNic
  BY NicAssumption, FS_Interval DEF Nics
<1>2. Cardinality(present) \in Nat /\ Cardinality(present) <= LastNic
  BY <1>1, FS_Subset, FS_CardinalityType DEF TypeOK
<1>3. Selectable(present) \in BOOLEAN
  BY DEF Selectable
<1> QED
  BY <1>2, <1>3, NicAssumption DEF Counts, TypeOK

\* A step of the wait starts nothing: only what it counts can change.
LEMMA SettleStepSuffices ==
  ASSUME IInv, phase \in {"load", "sleep", "look"},
         UNCHANGED <<raceVars, asked, kernel, nic>>,
         phase' \in {"sleep", "look", "select"}, outcome' \in {"none", "settled", "timedOut"},
         stable' \in 0 .. SettleTimeout, elapsed' \in 0 .. SettleTimeout,
         {prev', cur'} \subseteq
           [block : 0 .. MaxBlocks, nics : 0 .. LastNic, selectable : BOOLEAN],
         SettleFits'
  PROVE  IInv'
<1> USE DEF raceVars, exchange, asked, kernel
<1>1. TypeOK'
  BY DEF IInv, TypeOK, RaceTypeOK
<1>2. \A n \in Nics : ThreadFits(n)' /\ LinkFits(n)'
  BY DEF IInv, ThreadFits, LinkFits
<1>3. MainFits'
  <2>1. WinnerIsChosen' <=> WinnerIsChosen
    BY DEF WinnerIsChosen, WithLease, WithGateway
  <2>2. WithLease' = WithLease
    BY DEF WithLease
  <2> QED
    BY <2>1, <2>2 DEF IInv, MainFits
<1>4. AddressFits' /\ ChoiceFits'
  BY DEF IInv, AddressFits, Addressee, ChoiceFits
<1>5. SettledIsSelectable'
  BY DEF IInv, SettleFits, SettledIsSelectable
<1> QED
  BY <1>1, <1>2, <1>3, <1>4, <1>5 DEF IInv

\* The counts before the first sleep, or no wait.
LEMMA LoadDriversKeeps == IInv /\ LoadDrivers => IInv'
<1> SUFFICES ASSUME IInv, LoadDrivers PROVE IInv'
  OBVIOUS
<1>1. /\ phase = "load" /\ UNCHANGED <<raceVars, asked, kernel, nic>>
      /\ result' = "none" /\ stable \in Nat /\ TypeOK
  BY DEF IInv, LoadDrivers, SettleFits, TypeOK, raceVars
<1>2. CASE Return("none")
  <2>1. SettleFits'
    BY <1>1, <1>2 DEF Return, SettleFits
  <2>2. NoCounts \in [block : 0 .. MaxBlocks, nics : 0 .. LastNic, selectable : BOOLEAN]
    BY NicAssumption, SettleAssumption DEF NoCounts
  <2> QED
    BY <1>1, <1>2, <2>1, <2>2, SettleAssumption, SettleStepSuffices DEF Return
<1>3. CASE /\ phase' = "sleep" /\ prev' = Counts(present, blocks)
           /\ UNCHANGED <<cur, stable, elapsed, outcome>>
  <2>1. stable = 0 /\ elapsed = 0 /\ outcome # "settled"
    BY <1>1 DEF IInv, SettleFits
  <2>2. SettleFits'
    BY <1>1, <1>3, <2>1, SettleAssumption DEF SettleFits
  <2> QED
    BY <1>1, <1>3, <2>2, PresentIsCounted, SettleStepSuffices DEF TypeOK
<1> QED
  BY <1>2, <1>3 DEF LoadDrivers

\* One observation is counted while devices go on to register.
LEMMA CountDevicesKeeps == IInv /\ CountDevices => IInv'
<1> SUFFICES ASSUME IInv, CountDevices PROVE IInv'
  OBVIOUS
<1>1. /\ phase = "sleep" /\ phase' = "look" /\ UNCHANGED <<raceVars, asked, kernel, nic>>
      /\ UNCHANGED <<prev, stable, outcome>>
      /\ cur' = Counts(present, blocks) /\ elapsed' \in {elapsed + 1, SettleTimeout}
      /\ result' = "none" /\ outcome # "settled" /\ TypeOK
      /\ stable <= elapsed /\ elapsed < SettleTimeout
  BY DEF IInv, CountDevices, SettleFits, raceVars
<1>2. elapsed' \in 0 .. SettleTimeout /\ stable < elapsed'
  BY <1>1, SettleAssumption DEF TypeOK
<1>3. SettleFits'
  BY <1>1, <1>2 DEF SettleFits
<1> QED
  BY <1>1, <1>2, <1>3, PresentIsCounted, SettleStepSuffices DEF TypeOK

\* Settle::observe: the wait ends settled only on a selectable host.
LEMMA ObserveKeeps == IInv /\ Observe => IInv'
<1> SUFFICES ASSUME IInv, Observe PROVE IInv'
  OBVIOUS
<1> DEFINE seen == [block |-> cur.block, nics |-> cur.nics, selectable |-> Selectable(present)]
           held == IF seen = prev THEN stable + 1 ELSE 0
<1>1. /\ phase = "look" /\ UNCHANGED <<raceVars, asked, kernel, nic>>
      /\ result' = "none" /\ outcome # "settled" /\ TypeOK /\ stable < elapsed
  BY DEF IInv, Observe, SettleFits, raceVars
<1>2. \/ held >= StablePolls /\ seen.selectable /\ Return("settled")
      \/ Return("timedOut")
      \/ /\ elapsed < SettleTimeout
         /\ phase' = "sleep" /\ prev' = seen /\ stable' = held
         /\ UNCHANGED <<cur, elapsed, outcome>>
  <2>1. IF held >= StablePolls /\ seen.selectable THEN Return("settled")
        ELSE IF elapsed >= SettleTimeout THEN Return("timedOut")
        ELSE /\ phase' = "sleep" /\ prev' = seen /\ stable' = held
             /\ UNCHANGED <<cur, elapsed, outcome>>
    BY Zenon DEF Observe
  <2>2. ~(elapsed >= SettleTimeout) => elapsed < SettleTimeout
    BY <1>1, SettleAssumption DEF TypeOK
  <2> HIDE DEF seen, held
  <2> QED
    BY <2>1, <2>2
<1>3. /\ seen \in [block : 0 .. MaxBlocks, nics : 0 .. LastNic, selectable : BOOLEAN]
      /\ seen.selectable = Selectable(present)
      /\ held \in 0 .. elapsed
  BY <1>1 DEF TypeOK, Selectable
<1>4. UNCHANGED <<bootif, unreadable, present>> /\ (Selectable(present)' <=> Selectable(present))
  BY <1>1 DEF asked, kernel, Selectable, Named
<1> HIDE DEF seen, held
<1>5. CASE Return("settled") \/ Return("timedOut")
  <2>1. SettleFits'
    BY <1>1, <1>2, <1>3, <1>4, <1>5 DEF Return, SettleFits
  <2>2. NoCounts \in [block : 0 .. MaxBlocks, nics : 0 .. LastNic, selectable : BOOLEAN]
    BY NicAssumption, SettleAssumption DEF NoCounts
  <2> QED
    BY <1>1, <1>5, <2>1, <2>2, SettleAssumption, SettleStepSuffices DEF Return
<1>6. CASE /\ elapsed < SettleTimeout
           /\ phase' = "sleep" /\ prev' = seen /\ stable' = held
           /\ UNCHANGED <<cur, elapsed, outcome>>
  <2>1. SettleFits'
    BY <1>1, <1>3, <1>6 DEF SettleFits, TypeOK
  <2>2. held \in 0 .. SettleTimeout
    BY <1>1, <1>3, SettleAssumption DEF TypeOK
  <2> QED
    BY <1>1, <1>3, <1>6, <2>1, <2>2, SettleStepSuffices DEF TypeOK
<1> QED
  BY <1>2, <1>5, <1>6

-----------------------------------------------------------------------------
\* The selection.

\* Until it is made, nothing is set up.
LEMMA NothingYet ==
  ASSUME IInv, phase \in {"load", "sleep", "look", "select"}
  PROVE  /\ main = "off" /\ nic = 0 /\ winner = 0
         /\ \A n \in Nics : /\ thread[n] = "idle" /\ lease[n] = None /\ round[n] = 0
                            /\ ~link[n] /\ ~address[n]
<1>1. main = "off" /\ nic = 0 /\ winner = 0 /\ \A n \in Nics : thread[n] = "idle" /\ n # 0
  BY NicAssumption DEF IInv, MainFits, ChoiceFits, Nics
<1> QED
  BY <1>1 DEF IInv, ThreadFits, LinkFits, AddressFits, Addressee

\* An error returned by the selection starts nothing.
LEMMA RefuseKeeps ==
  ASSUME IInv, phase = "select", UNCHANGED <<asked, kernel, settling>>,
         NEW error \in {"noInterface", "bootifNoMatch", "sysRead", "staticAmbiguous"},
         Refuse(error),
         outcome = "settled" => /\ error # "bootifNoMatch"
                                /\ error = "noInterface" => present \subseteq unreadable
  PROVE  IInv'
<1> USE NothingYet DEF Refuse, exchange, asked, kernel, settling
<1>1. TypeOK'
  BY DEF IInv, TypeOK, RaceTypeOK
<1>2. \A n \in Nics : ThreadFits(n)' /\ LinkFits(n)'
  BY DEF IInv, ThreadFits, LinkFits
<1>3. MainFits'
  BY DEF IInv, MainFits, Racing, Joined
<1>4. AddressFits' /\ ChoiceFits'
  BY DEF IInv, AddressFits, Addressee, ChoiceFits
<1>5. SettleFits' /\ SettledIsSelectable'
  BY DEF IInv, SettleFits, SettledIsSelectable, Selectable, Named
<1> QED
  BY <1>1, <1>2, <1>3, <1>4, <1>5 DEF IInv

\* The one interface chosen for the static address.
LEMMA StartStaticKeeps ==
  ASSUME IInv, phase = "select", UNCHANGED <<asked, kernel, settling>>, result = "none",
         Selectable(present), StartStatic(Chosen(present))
  PROVE  IInv'
<1>1. CASE Refuse("staticAmbiguous")
  BY <1>1, RefuseKeeps
<1>2. CASE nic' = First(Chosen(present)) /\ phase' = "static" /\ UNCHANGED raceVars
  <2> USE <1>2, NothingYet DEF raceVars, exchange, asked, kernel, settling
  <2>1. /\ nic' \in Nics /\ nic' \in present
        /\ bootif # None => Mac[nic'] = bootif
    <3>1. Chosen(present) # {} /\ Chosen(present) \subseteq Nics /\ Chosen(present) \subseteq present
      BY ChosenIsPresent DEF IInv, TypeOK
    <3> QED
      BY <3>1, FirstIsLeast, ChosenIsPresent DEF IInv, TypeOK
  <2>2. TypeOK'
    BY <2>1 DEF IInv, TypeOK, RaceTypeOK
  <2>3. \A n \in Nics : ThreadFits(n)' /\ LinkFits(n)'
    BY DEF IInv, ThreadFits, LinkFits
  <2>4. MainFits'
    BY DEF IInv, MainFits, Racing, Joined
  <2>5. AddressFits' /\ ChoiceFits'
    BY <2>1 DEF IInv, AddressFits, Addressee, ChoiceFits
  <2>6. SettleFits' /\ SettledIsSelectable'
    BY DEF IInv, SettleFits, SettledIsSelectable, Selectable, Named
  <2> QED
    BY <2>2, <2>3, <2>4, <2>5, <2>6 DEF IInv
<1> QED
  BY <1>1, <1>2 DEF StartStatic

\* A thread for each candidate whose address can be read.
LEMMA StartDhcpKeeps ==
  ASSUME IInv, phase = "select", UNCHANGED <<asked, kernel, settling>>, result = "none",
         Selectable(present), ~static, StartDhcp(Chosen(present))
  PROVE  IInv'
<1>1. /\ Chosen(present) # {} /\ Chosen(present) \subseteq present /\ present \subseteq Nics
      /\ bootif # None => \A n \in Chosen(present) : Mac[n] = bootif /\ n \notin unreadable
      /\ bootif = None => Chosen(present) = present
  BY ChosenIsPresent DEF IInv, TypeOK, Chosen
<1>2. CASE Chosen(present) \subseteq unreadable
  <2>1. present \subseteq unreadable
    BY <1>1, <1>2
  <2> QED
    BY <1>2, <2>1, RefuseKeeps DEF StartDhcp
<1>3. CASE ~(Chosen(present) \subseteq unreadable)
  <2> USE NothingYet DEF exchange, asked, kernel, settling
  <2>1. Race(Chosen(present) \ unreadable) /\ phase' = "race" /\ nic' = nic
    BY <1>3 DEF StartDhcp
  <2>2. /\ main' = "join"
        /\ UNCHANGED <<round, replies, lease, committed, link, address, winner, result>>
        /\ thread' \in [Nics -> {"idle", "start"}]
        /\ \A n \in Nics : thread'[n] # "idle" => n \in Chosen(present)
    BY <2>1 DEF Race
  <2> HIDE DEF exchange
  <2>3. TypeOK'
    BY <2>1, <2>2 DEF IInv, TypeOK, RaceTypeOK
  <2>4. \A n \in Nics : ThreadFits(n)' /\ LinkFits(n)'
    BY <2>1, <2>2 DEF IInv, ThreadFits, LinkFits
  <2>5. MainFits'
    BY <2>1, <2>2 DEF IInv, MainFits, Racing, Joined
  <2>6. AddressFits'
    BY <2>1, <2>2 DEF IInv, AddressFits, Addressee
  <2>7. ChoiceFits'
    BY <1>1, <2>1, <2>2 DEF IInv, ChoiceFits
  <2>8. SettleFits' /\ SettledIsSelectable'
    BY <2>1, <2>2 DEF IInv, SettleFits, SettledIsSelectable, Selectable, Named
  <2> QED
    BY <2>3, <2>4, <2>5, <2>6, <2>7, <2>8 DEF IInv
<1> QED
  BY <1>2, <1>3

\* select_nics and the branch on the static address.
LEMMA SelectKeeps == IInv /\ Select => IInv'
<1> SUFFICES ASSUME IInv, Select PROVE IInv'
  OBVIOUS
<1>1. CASE ~Selectable(present)
  <2>1. outcome # "settled"
    BY <1>1 DEF IInv, SettleFits
  <2> QED
    BY <1>1, <2>1, RefuseKeeps DEF Select
<1>2. CASE Selectable(present) /\ static
  BY <1>2, StartStaticKeeps DEF Select
<1>3. CASE Selectable(present) /\ ~static
  BY <1>3, StartDhcpKeeps DEF Select
<1> QED
  BY <1>1, <1>2, <1>3

-----------------------------------------------------------------------------
\* bring_up_static sets up the chosen interface and no other.
LEMMA StaticKeeps == IInv /\ (StaticLinkUp \/ StaticAddress) => IInv'
<1> SUFFICES ASSUME IInv, StaticLinkUp \/ StaticAddress PROVE IInv'
  OBVIOUS
<1> USE DEF exchange, asked, kernel, settling
<1>1. /\ main = "off" /\ main' = "off" /\ nic' = nic /\ nic \in Nics /\ winner = 0
      /\ RaceTypeOK /\ phase \in {"static", "addressing"}
      /\ UNCHANGED <<thread, round, replies, lease, committed, winner, asked, kernel, settling>>
  BY DEF StaticLinkUp, StaticAddress, IInv, TypeOK, MainFits, ChoiceFits
<1>2. /\ link' \in [Nics -> BOOLEAN] /\ address' \in [Nics -> BOOLEAN]
      /\ \A n \in Nics \ {nic} : link'[n] = link[n] /\ address'[n] = address[n]
      /\ link[nic] => link'[nic]
  BY <1>1 DEF StaticLinkUp, StaticAddress, RaceTypeOK, Refused
<1>3. \/ /\ phase' = "addressing" /\ link'[nic] /\ result' = "none"
      \/ /\ phase' = phase /\ phase = "addressing" /\ link'[nic]
         /\ \/ result' = "up" /\ address'[nic]
            \/ result' = "applyFailed"
      \/ phase' = phase /\ phase = "static" /\ result' = "linkFailed"
  BY <1>1 DEF StaticLinkUp, StaticAddress, IInv, ChoiceFits, RaceTypeOK
<1>4. TypeOK'
  BY <1>1, <1>2, <1>3 DEF IInv, TypeOK, RaceTypeOK
<1>5. \A n \in Nics : ThreadFits(n)' /\ LinkFits(n)'
  BY <1>1, <1>2 DEF IInv, ThreadFits, LinkFits, Racing
<1>6. MainFits'
  BY <1>1, <1>3 DEF IInv, MainFits, Racing, Joined
<1>7. AddressFits'
  BY <1>1, <1>2, <1>3 DEF IInv, AddressFits, Addressee
<1>8. ChoiceFits'
  BY <1>1, <1>3 DEF IInv, ChoiceFits
<1>9. SettleFits' /\ SettledIsSelectable'
  BY <1>1, <1>3 DEF IInv, SettleFits, SettledIsSelectable, Selectable, Named
<1> QED
  BY <1>4, <1>5, <1>6, <1>7, <1>8, <1>9 DEF IInv

\* A device that registers takes nothing away from what was counted.
LEMMA RegisterKeeps == IInv /\ Register => IInv'
<1> SUFFICES ASSUME IInv, Register PROVE IInv'
  OBVIOUS
<1> USE DEF raceVars, exchange, asked, settling
<1>1. /\ UNCHANGED <<raceVars, asked, phase, settling, nic>> /\ result = "none"
      /\ present \subseteq present' /\ present' \subseteq Nics /\ blocks' \in 0 .. MaxBlocks
  BY SettleAssumption DEF Register, IInv, TypeOK
<1>2. TypeOK'
  BY <1>1 DEF IInv, TypeOK, RaceTypeOK
<1>3. \A n \in Nics : ThreadFits(n)' /\ LinkFits(n)'
  BY <1>1 DEF IInv, ThreadFits, LinkFits
<1>4. MainFits'
  <2>1. (WinnerIsChosen' <=> WinnerIsChosen) /\ WithLease' = WithLease
    BY <1>1 DEF WinnerIsChosen, WithLease, WithGateway
  <2> QED
    BY <1>1, <2>1 DEF IInv, MainFits
<1>5. AddressFits' /\ ChoiceFits'
  BY <1>1 DEF IInv, AddressFits, Addressee, ChoiceFits
<1>6. outcome = "settled" => Selectable(present)'
  <2>1. Selectable(present') => Selectable(present)'
    BY <1>1 DEF Selectable, Named
  <2> QED
    BY <1>1, <2>1, SelectableGrows DEF IInv, SettleFits
<1>7. SettleFits' /\ SettledIsSelectable'
  BY <1>1, <1>6 DEF IInv, SettleFits, SettledIsSelectable
<1> QED
  BY <1>2, <1>3, <1>4, <1>5, <1>7 DEF IInv

\* A step that changes nothing keeps the invariant.
LEMMA StutterKeeps == IInv /\ UNCHANGED vars => IInv'
<1> SUFFICES ASSUME IInv, UNCHANGED vars PROVE IInv'
  OBVIOUS
<1> USE DEF vars, raceVars, exchange, asked, kernel, settling
<1>1. TypeOK'
  BY DEF IInv, TypeOK, RaceTypeOK
<1>2. \A n \in Nics : ThreadFits(n)' /\ LinkFits(n)'
  BY DEF IInv, ThreadFits, LinkFits
<1>3. MainFits'
  <2>1. (WinnerIsChosen' <=> WinnerIsChosen) /\ WithLease' = WithLease
    BY DEF WinnerIsChosen, WithLease, WithGateway
  <2> QED
    BY <2>1 DEF IInv, MainFits
<1>4. AddressFits' /\ ChoiceFits'
  BY DEF IInv, AddressFits, Addressee, ChoiceFits
<1>5. SettleFits' /\ SettledIsSelectable'
  BY DEF IInv, SettleFits, SettledIsSelectable, Selectable, Named
<1> QED
  BY <1>1, <1>2, <1>3, <1>4, <1>5 DEF IInv

-----------------------------------------------------------------------------
\* For every host, network and schedule, each interface is where its thread and the main
\* thread say it is.
THEOREM NetworkInductive == Spec => []IInv
<1>1. Init => IInv
  BY InitIInv
<1>2. IInv /\ [Next]_vars => IInv'
  <2> SUFFICES ASSUME IInv, [Next]_vars PROVE IInv'
    OBVIOUS
  <2>1. CASE HostStep
    BY <2>1, LoadDriversKeeps, CountDevicesKeeps, ObserveKeeps, SelectKeeps, StaticKeeps
       DEF HostStep
  <2>2. CASE RaceStep /\ RaceOnly
    BY <2>2, JoinAllKeeps, ApplyLeaseKeeps, TearDownKeeps, LinkUpKeeps, DiscoverKeeps,
       RequestKeeps, AcknowledgedKeeps, GivingUpKeeps DEF RaceStep, MainStep, ThreadStep
  <2> QED
    BY <2>1, <2>2, RegisterKeeps, StutterKeeps DEF Next, RaceOnly
<1> QED
  BY <1>1, <1>2, PTL DEF Spec

\* Type correctness; the wait counts no further than its timeout.
THEOREM NetworkTypeCorrect == Spec => []TypeOK
<1>1. IInv => TypeOK
  BY DEF IInv
<1> QED
  BY <1>1, NetworkInductive, PTL

\* At most one interface is addressed, with a lease of its own network after a race, and
\* bring-up succeeds only with an addressed interface whose link is up (net.rs:292-295).
THEOREM OneLinkIsAddressed == Spec => []OneAddressedLink
<1>1. IInv => OneAddressedLink
  <2> SUFFICES ASSUME IInv PROVE OneAddressedLink
    OBVIOUS
  <2>1. ASSUME NEW n \in Nics, address[n], main # "off" PROVE lease[n] \in Serves[n]
    <3>1. n = winner /\ winner # 0
      BY <2>1, NicAssumption DEF IInv, AddressFits, Addressee, Nics
    <3>2. winner \in WithLease
      BY <2>1, <3>1 DEF IInv, TypeOK, RaceTypeOK, MainFits, WinnerIsChosen
    <3> QED
      BY <3>1, <3>2 DEF WithLease, IInv, ThreadFits, Reply
  <2> QED
    BY <2>1 DEF IInv, AddressFits, OneAddressedLink
<1> QED
  BY <1>1, NetworkInductive, PTL

\* The interface that is brought up after a race is the first that leased from a server
\* with a router, or the first that leased if none has one; there is no winner only if
\* there is no lease (net.rs:348-358).
THEOREM WinnersHaveTheRoute == Spec => []WinnerHasTheRoute
<1>1. IInv => WinnerHasTheRoute
  <2> SUFFICES ASSUME IInv PROVE WinnerHasTheRoute
    OBVIOUS
  <2>1. result = "noLease" => WithLease = {}
    BY DEF IInv, MainFits
  <2>2. result = "up" /\ main # "off" => WinnerIsChosen
    BY DEF IInv, TypeOK, RaceTypeOK, MainFits, Racing
  <2> QED
    BY <2>1, <2>2 DEF WinnerHasTheRoute, WinnerIsChosen
<1> QED
  BY <1>1, NetworkInductive, PTL

\* With one server on its network, the lease of a thread is one that server holds
\* (net/dhcp.rs:70-94).
THEOREM LeasesAreCommitted == Spec => []LeaseIsCommitted
<1>1. IInv => LeaseIsCommitted
  BY DEF IInv, ThreadFits, LeaseIsCommitted, Reply
<1> QED
  BY <1>1, NetworkInductive, PTL

\* A wait that settled does not end in the want of an interface (modules.rs:199-217).
THEOREM SettledHostsAreSelectable == Spec => []SettledIsSelectable
<1>1. IInv => SettledIsSelectable
  BY DEF IInv
<1> QED
  BY <1>1, NetworkInductive, PTL

\* With BOOTIF no other interface is touched, and with a static address nothing asks for a
\* lease and at most one interface is touched (net.rs:176-190, 399-427).
THEOREM PinsAreHonoured == Spec => []PinIsHonoured
<1>1. IInv => PinIsHonoured
  <2> SUFFICES ASSUME IInv PROVE PinIsHonoured
    OBVIOUS
  <2> DEFINE touched == {n \in Nics : link[n] \/ address[n] \/ round[n] > 0}
  <2>1. ASSUME NEW n \in touched PROVE thread[n] # "idle" \/ n = nic
    <3>1. round[n] > 0 => thread[n] # "idle"
      BY <2>1 DEF IInv, ThreadFits
    <3>2. address[n] => n = nic \/ (main # "off" /\ n = winner)
      BY <2>1 DEF IInv, AddressFits, Addressee
    <3>3. ASSUME address[n], main # "off" PROVE thread[n] # "idle"
      <4>1. n = winner /\ winner # 0
        BY <2>1, <3>3, NicAssumption DEF IInv, AddressFits, Addressee, Nics
      <4>2. winner \in WithLease
        BY <3>3, <4>1 DEF IInv, TypeOK, RaceTypeOK, MainFits, WinnerIsChosen
      <4> QED
        BY <4>1, <4>2 DEF WithLease, IInv, ThreadFits
    <3> QED
      BY <2>1, <3>1, <3>2, <3>3 DEF IInv, LinkFits
  <2>2. bootif # None => \A n \in touched : Mac[n] = bootif
    BY <2>1, NicAssumption DEF IInv, ChoiceFits, Nics
  <2>3. ASSUME static PROVE Cardinality(touched) <= 1 /\ \A n \in Nics : round[n] = 0
    <3>1. \A n \in Nics : thread[n] = "idle"
      BY <2>3 DEF IInv, ChoiceFits, MainFits
    <3>2. touched \in SUBSET {nic}
      BY <2>1, <3>1
    <3>3. IsFiniteSet({nic}) /\ Cardinality({nic}) = 1
      BY FS_Singleton
    <3>4. Cardinality(touched) <= 1
      BY <3>2, <3>3, FS_Subset
    <3> QED
      BY <3>1, <3>4 DEF IInv, ThreadFits
  <2> QED
    BY <2>2, <2>3 DEF PinIsHonoured
<1> QED
  BY <1>1, NetworkInductive, PTL
=============================================================================
