--------------------------- MODULE DeployVerdict ----------------------------
(***************************************************************************)
(* What the inspector promises the controller, without saying how.  In     *)
(* each boot a host works on its disk, may announce one verdict, and then  *)
(* leaves the disk alone.  "provisioned" is announced only of a disk that  *)
(* is ready to boot, and a host enters the target OS only after its        *)
(* controller learned that verdict.  An announcement may be learned at     *)
(* once, later, or never, and the host may be restarted at any time.       *)
(***************************************************************************)
EXTENDS Naturals

CONSTANT Boots      \* the numbers of the boots, in order

VARIABLES
  boot,      \* the present boot
  phase,     \* "working", "inTargetOS" or "stopped"
  ready,     \* the disk holds a complete, verified deploy
  verdict,   \* for every boot, the verdict it announced, or "none"
  learned    \* the boots whose verdict the controller learned

vars == <<boot, phase, ready, verdict, learned>>

Verdicts == {"provisioned", "provisionFailed"}

Init == /\ boot = 1
        /\ phase = "working"
        /\ ready = FALSE
        /\ verdict = [b \in Boots |-> "none"]
        /\ learned = {}

\* The deploy goes on, or is undone by the next one.
Work == /\ phase = "working"
        /\ verdict[boot] = "none"
        /\ ready' \in BOOLEAN
        /\ UNCHANGED <<boot, phase, verdict, learned>>

\* The first announcement of this boot's verdict; repeating it changes nothing
\* but what the controller knows.  A failure may be given up on right away.
Announce(v) ==
  /\ phase = "working"
  /\ verdict[boot] \in {"none", v}
  /\ v = "provisioned" => ready
  /\ verdict' = [verdict EXCEPT ![boot] = v]
  /\ learned' \in {learned, learned \cup {boot}}
  /\ phase' \in {"working", "stopped"}
  /\ UNCHANGED <<boot, ready>>

\* An announcement of any boot so far reaches the controller after all.
Learn(b) == /\ verdict[b] # "none"
            /\ learned' = learned \cup {b}
            /\ UNCHANGED <<boot, phase, ready, verdict>>

EnterTargetOS == /\ phase = "working"
                 /\ verdict[boot] = "provisioned"
                 /\ boot \in learned
                 /\ phase' = "inTargetOS"
                 /\ UNCHANGED <<boot, ready, verdict, learned>>

Stop == /\ phase = "working"
        /\ phase' = "stopped"
        /\ UNCHANGED <<boot, ready, verdict, learned>>

Restart == /\ boot + 1 \in Boots
           /\ boot' = boot + 1
           /\ phase' = "working"
           /\ UNCHANGED <<ready, verdict, learned>>

Next == \/ Work \/ EnterTargetOS \/ Stop \/ Restart
        \/ \E v \in Verdicts : Announce(v)
        \/ \E b \in Boots : Learn(b)

Spec == Init /\ [][Next]_vars
=============================================================================
