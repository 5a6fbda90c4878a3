------------------------------ MODULE Callback ------------------------------
(***************************************************************************)
(* The callback client (client.rs): every exchange of the inspector with   *)
(* the controller is one call of run_with_retries, a loop of at most       *)
(* MaxAttempts HTTP exchanges.  The host is one thread, so at most one     *)
(* call runs at a time and one attempt counter is enough.                  *)
(*                                                                         *)
(* A request names its boot because the controller renders a new bearer    *)
(* token for every boot.  Requests are kept as sets: a message in sent     *)
(* left the host at least once, a message in late left it, got no answer   *)
(* in time and may still reach the controller, a message in heard was      *)
(* accepted by the controller at least once.                               *)
(***************************************************************************)
EXTENDS Naturals

CONSTANTS
  MaxBoots,     \* bound: how often the host is booted into the inspector
  MaxAttempts   \* MAX_ATTEMPTS, the exchanges of one run_with_retries call

ASSUME BootsAssumption    == MaxBoots \in Nat \ {0}
ASSUME AttemptsAssumption == MaxAttempts \in Nat \ {0}

VARIABLES
  boot,      \* the boot the host is in; its token authenticates the requests
  attempt,   \* the 0-based index of the exchange to make next in this call
  sent,      \* the requests that left the host
  late,      \* the requests abandoned by the host that the network still holds
  heard      \* the requests the controller accepted

wire == <<attempt, sent, late, heard>>

Boots == 1 .. MaxBoots
Kinds == {"inspection", "bootstrap", "provisioned", "provisionFailed"}
Requests == [boot : Boots, kind : Kinds]

\* The request of kind k under the token of the present boot.
Request(k) == [boot |-> boot, kind |-> k]

\* What one exchange can end with, as classify_status and read_capped see it:
\* a 2xx, 401/403, 404, 408/429, 5xx, any other status, no status at all
\* (connect, TLS, timeout, reset), and for the GET, whose body is read after a
\* 2xx, a body that breaks off or exceeds MAX_BOOTSTRAP_BYTES.
Answers == {"accepted", "unauthorized", "notFound", "busy", "serverError",
            "refused", "noAnswer", "cutShort", "tooLarge"}

BodyErrors == {"cutShort", "tooLarge"}

AnswersTo(k) == IF k = "bootstrap" THEN Answers ELSE Answers \ BodyErrors

\* Attempt::Retry: is_transient, a transport error, a body that broke off.
Transient == {"busy", "serverError", "noAnswer", "cutShort"}

\* Mutant: the attempts are not counted.
AgainForever(a) == a \in Transient

\* run_with_retries makes another exchange after this answer.
Again(a) == a \in Transient /\ attempt + 1 < MaxAttempts

\* run_with_retries returns an error after this answer: Attempt::Fatal, or
\* RetriesExhausted.
GaveUp(a) == a # "accepted" /\ ~Again(a)

\* What becomes of a request at the controller.  A 2xx means it was accepted.
\* With a 5xx or no answer the host cannot know: it was accepted, or lost, or
\* (no answer) is still under way.
Fate(m, a) ==
  \/ /\ a \in {"accepted", "serverError", "noAnswer"} \cup BodyErrors
     /\ heard' = heard \cup {m}
     /\ UNCHANGED late
  \/ /\ a = "noAnswer"
     /\ late' = late \cup {m}
     /\ UNCHANGED heard
  \/ /\ a \notin {"accepted"} \cup BodyErrors
     /\ UNCHANGED <<late, heard>>

\* One exchange of the call for a request of kind k, answered a.
Exchange(k, a) ==
  /\ a \in AnswersTo(k)
  /\ sent' = sent \cup {Request(k)}
  /\ Fate(Request(k), a)
  /\ attempt' = IF Again(a) THEN attempt + 1 ELSE 0

\* A request the host gave up waiting for reaches the controller after all.
LateArrival ==
  /\ \E m \in late : /\ late' = late \ {m}
                     /\ heard' = heard \cup {m}
  /\ UNCHANGED <<boot, attempt, sent>>

WireInit == /\ attempt = 0
            /\ sent = {}
            /\ late = {}
            /\ heard = {}

WireTypeOK == /\ boot \in Boots
              /\ attempt \in 0 .. (MaxAttempts - 1)
              /\ sent \subseteq Requests
              /\ late \subseteq sent
              /\ heard \subseteq sent
=============================================================================
