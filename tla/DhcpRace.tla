------------------------------ MODULE DhcpRace ------------------------------
(***************************************************************************)
(* bring_up_race (net.rs) over dhcp::acquire (net/dhcp.rs): one thread per *)
(* candidate NIC runs its own DHCP exchange, the main thread joins them    *)
(* all, applies one lease and takes the other links down.  bring_up_one is *)
(* the same with a single candidate and no links to take down.  Network    *)
(* chooses the candidates and starts the exchanges.                        *)
(*                                                                         *)
(* The network of a NIC loses, delays, reorders and duplicates replies: a  *)
(* reply once sent may be received at any later time, any number of times. *)
(* All rounds of one exchange use the same transaction id, so a reply to   *)
(* an earlier round is as good as one to the present round.                *)
(***************************************************************************)
EXTENDS Naturals

CONSTANTS
  LastNic,       \* candidates are 1 .. LastNic, in interface-name order
  Servers,       \* the DHCP servers
  Routers,       \* those whose leases carry a default gateway
  Serves,        \* Serves[n]: the servers on the network of NIC n
  MaxRounds      \* MAX_ROUNDS of acquire

Nics == 1 .. LastNic

None == "none"

ASSUME NicAssumption    == LastNic \in Nat
ASSUME ServerAssumption == /\ Routers \subseteq Servers
                           /\ Serves \in [Nics -> SUBSET Servers]
                           /\ None \notin Servers
ASSUME RoundAssumption  == MaxRounds \in Nat \ {0}

VARIABLES
  thread,    \* per NIC: where its thread is, "idle" if it has none
  round,     \* per NIC: the rounds of acquire begun
  replies,   \* per NIC: the replies its servers ever sent
  lease,     \* per NIC: the server whose ACK the thread returned, or None
  committed, \* per NIC: the servers that hold an address for it
  link,      \* per NIC: administratively up
  address,   \* per NIC: it was given an address
  main,      \* where the main thread is: "off", "join", "apply", "teardown", "done"
  winner,    \* the NIC chosen, 0 before and if there is none
  result     \* what bring-up returned: "none" before, "up", or the NetError

exchange == <<thread, round, replies, lease, committed>>
raceVars == <<exchange, link, address, main, winner, result>>

Reply(type, s) == [type |-> type, server |-> s]

\* The reply of that type from s reaches the socket of n in this round.
Receives(n, type, s) == Reply(type, s) \in replies[n]

\* Mutant: the rounds are not counted.
NextRoundForever(n) ==
  /\ thread' = [thread EXCEPT ![n] = "discover"]
  /\ UNCHANGED <<round, replies, lease, committed>>

\* The next round, if there is one left: `continue` in acquire.
NextRound(n) ==
  /\ thread' = [thread EXCEPT ![n] = IF round[n] < MaxRounds THEN "discover" ELSE "done"]
  /\ UNCHANGED <<round, replies, lease, committed>>

Outside == UNCHANGED <<address, main, winner, result>>

-----------------------------------------------------------------------------
\* send_and_ack: its error leaves the configuration as it was if the kernel refused the
\* request, changed if only the acknowledgement did not come within five seconds.
Refused(before, after) == {before, after}

\* dhcp_link: the link goes up, or the thread ends with the error; carrier or not,
\* wait_for_link returns.
LinkUp(n) ==
  /\ thread[n] = "start"
  /\ LET up == [link EXCEPT ![n] = TRUE] IN
     \/ link' = up /\ thread' = [thread EXCEPT ![n] = "discover"]
     \/ link' \in Refused(link, up) /\ thread' = [thread EXCEPT ![n] = "done"]
  /\ UNCHANGED <<round, replies, lease, committed>> /\ Outside

\* A DISCOVER is broadcast; any of the servers may hear it and offer.  A socket
\* error ends the thread.
Discover(n) ==
  /\ thread[n] = "discover"
  /\ \/ /\ thread' = [thread EXCEPT ![n] = "offer"]
        /\ round' = [round EXCEPT ![n] = @ + 1]
        /\ \E heard \in SUBSET Serves[n] :
             replies' = [replies EXCEPT ![n] = @ \cup {Reply("offer", s) : s \in heard}]
     \/ /\ thread' = [thread EXCEPT ![n] = "done"]
        /\ UNCHANGED <<round, replies>>
  /\ UNCHANGED <<lease, committed, link>> /\ Outside

\* recv_reply for an OFFER, then the REQUEST to its server.  A server that hears
\* it commits the address and acknowledges; any other that hears it lets its own
\* go (RFC 2131, 4.3.1).
Request(n) ==
  /\ thread[n] = "offer"
  /\ \E s \in Servers, heard \in SUBSET Serves[n] :
       /\ Receives(n, "offer", s)
       /\ committed' = [committed EXCEPT ![n] = (@ \ (heard \ {s})) \cup (heard \cap {s})]
       /\ replies' = [replies EXCEPT ![n] = @ \cup {Reply("ack", t) : t \in heard \cap {s}}]
  /\ thread' = [thread EXCEPT ![n] = "ack"]
  /\ UNCHANGED <<round, lease, link>> /\ Outside

\* Mutant: the message type of the reply is not looked at.
AcknowledgedByAny(n) ==
  /\ thread[n] = "ack"
  /\ \E s \in Servers, type \in {"offer", "ack"} :
       Receives(n, type, s) /\ lease' = [lease EXCEPT ![n] = s]
  /\ thread' = [thread EXCEPT ![n] = "done"]
  /\ UNCHANGED <<round, replies, committed, link>> /\ Outside

\* recv_reply for an ACK.  The lease is what the ACK says, whichever server sent it.
Acknowledged(n) ==
  /\ thread[n] = "ack"
  /\ \E s \in Servers : Receives(n, "ack", s) /\ lease' = [lease EXCEPT ![n] = s]
  /\ thread' = [thread EXCEPT ![n] = "done"]
  /\ UNCHANGED <<round, replies, committed, link>> /\ Outside

\* Mutant: the wait for the ACK has no timeout.
TimesOutOnOffer(n) ==
  /\ thread[n] = "offer"
  /\ NextRound(n)
  /\ UNCHANGED link /\ Outside

\* recv_reply times out, for the OFFER or for the ACK.
TimesOut(n) ==
  /\ thread[n] \in {"offer", "ack"}
  /\ NextRound(n)
  /\ UNCHANGED link /\ Outside

\* A hard socket error from recv or sendto.
SocketError(n) ==
  /\ thread[n] \in {"offer", "ack"}
  /\ thread' = [thread EXCEPT ![n] = "done"]
  /\ UNCHANGED <<round, replies, lease, committed, link>> /\ Outside

-----------------------------------------------------------------------------
\* choose_lease: the first lease with a gateway, otherwise the first lease.
WithGateway == {n \in Nics : lease[n] \in Routers}
WithLease   == {n \in Nics : lease[n] # None}

First(S) == CHOOSE n \in S : \A m \in S : n <= m

\* Mutant: the first lease, gateway or not.
ChooseFirst == IF WithLease # {} THEN First(WithLease) ELSE 0

ChooseLease == IF WithGateway # {} THEN First(WithGateway)
               ELSE IF WithLease # {} THEN First(WithLease) ELSE 0

\* The scope ends when every thread is joined.
JoinAll ==
  /\ main = "join"
  /\ \A n \in Nics : thread[n] \in {"idle", "done"}
  /\ winner' = ChooseLease
  /\ IF winner' = 0 THEN main' = "done" /\ result' = "noLease"
                    ELSE main' = "apply" /\ UNCHANGED result
  /\ UNCHANGED <<exchange, link, address>>

\* Mutant: after a failure the next lease is tried, and the address stays.
ApplyNextLease ==
  /\ main = "apply"
  /\ \/ /\ address' = [address EXCEPT ![winner] = TRUE]
        /\ main' = "teardown" /\ UNCHANGED <<winner, result>>
     \/ /\ address' = [address EXCEPT ![winner] = TRUE]
        /\ winner' \in WithLease \ {winner}
        /\ UNCHANGED <<main, result>>
  /\ UNCHANGED <<exchange, link>>

\* apply_lease: the address, then the route; an error returns before the teardown.
ApplyLease ==
  /\ main = "apply"
  /\ LET given == [address EXCEPT ![winner] = TRUE] IN
     \/ address' = given /\ main' = "teardown" /\ UNCHANGED result
     \/ address' \in Refused(address, given) /\ main' = "done" /\ result' = "applyFailed"
  /\ UNCHANGED <<exchange, link, winner>>

\* The other links go down, each as well as it will.
TearDown ==
  /\ main = "teardown"
  /\ \E stuck \in SUBSET (Nics \ {winner}) :
       link' = [n \in Nics |-> link[n] /\ (n = winner \/ n \in stuck)]
  /\ main' = "done" /\ result' = "up"
  /\ UNCHANGED <<exchange, address, winner>>

-----------------------------------------------------------------------------
\* No exchange runs yet.
RaceInit ==
  /\ thread = [n \in Nics |-> "idle"]
  /\ round = [n \in Nics |-> 0]
  /\ replies = [n \in Nics |-> {}]
  /\ lease = [n \in Nics |-> None]
  /\ committed = [n \in Nics |-> {}]
  /\ link = [n \in Nics |-> FALSE]
  /\ address = [n \in Nics |-> FALSE]
  /\ main = "off"
  /\ winner = 0
  /\ result = "none"

\* One thread for each candidate.
Race(candidates) ==
  /\ thread' = [n \in Nics |-> IF n \in candidates THEN "start" ELSE "idle"]
  /\ main' = "join"
  /\ UNCHANGED <<round, replies, lease, committed, link, address, winner, result>>

ThreadStep(n) == \/ LinkUp(n) \/ Discover(n) \/ Request(n) \/ Acknowledged(n)
                 \/ TimesOut(n) \/ SocketError(n)

MainStep == JoinAll \/ ApplyLease \/ TearDown

RaceStep == MainStep \/ \E n \in Nics : ThreadStep(n)

\* Every thread is scheduled, and a receive that gets nothing ends by RECV_TIMEOUT.
\* That anything is received, or that a socket fails, is not assumed.
RaceFairness == /\ WF_raceVars(MainStep)
                /\ \A n \in Nics : WF_raceVars(LinkUp(n) \/ Discover(n) \/ TimesOut(n))

-----------------------------------------------------------------------------
\* Type correctness of the threads and of the main thread.
RaceTypeOK ==
  /\ thread \in [Nics -> {"idle", "start", "discover", "offer", "ack", "done"}]
  /\ round \in [Nics -> 0 .. MaxRounds]
  /\ replies \in [Nics -> SUBSET [type : {"offer", "ack"}, server : Servers]]
  /\ lease \in [Nics -> Servers \cup {None}]
  /\ committed \in [Nics -> SUBSET Servers]
  /\ link \in [Nics -> BOOLEAN] /\ address \in [Nics -> BOOLEAN]
  /\ main \in {"off", "join", "apply", "teardown", "done"}
  /\ winner \in Nics \cup {0}

\* At most one interface is ever addressed, whatever order the threads finish in
\* and whatever fails; after a race it holds a lease of its own network, and bring-up
\* succeeds only with an addressed interface whose link is up (net.rs:292-295).
OneAddressedLink ==
  /\ \A n \in Nics : address[n] =>
       /\ \A m \in Nics : address[m] => m = n
       /\ main # "off" => lease[n] \in Serves[n]
  /\ result = "up" => \E n \in Nics : address[n] /\ link[n]

\* The preference survives the race: the interface brought up is the first in the order
\* of their names that leased from a server with a router, or, if none did, the first
\* that leased at all; the race ends without a lease only if no NIC has one
\* (net.rs:348-358).
WinnerHasTheRoute ==
  /\ result = "up" /\ main # "off" =>
       LET preferred == IF WithGateway # {} THEN WithGateway ELSE WithLease
       IN  winner \in preferred /\ \A n \in preferred : winner <= n
  /\ result = "noLease" => WithLease = {}

\* On a network with one server, the lease a thread returns is one that server
\* holds for it, however late, often or out of order its replies came: the ACK
\* need not answer the last REQUEST (net/dhcp.rs:70-94).
LeaseIsCommitted ==
  \A n \in Nics : lease[n] # None /\ (\E s \in Servers : Serves[n] = {s})
                    => lease[n] \in committed[n]
=============================================================================
