----------------------------- MODULE MCEfiBoot ------------------------------
(* Instances of EfiBoot: the NVRAM a deploy may find.                        *)
EXTENDS EfiBoot

CONSTANT Found   \* the kinds of Boot#### the first deploy finds

Opt(active, app, net, beskar7, starts) ==
  [active |-> active, app |-> app, net |-> net, beskar7 |-> beskar7, starts |-> starts]

Content(kind, im) ==
  CASE kind = "unset"       -> Unset
    [] kind = "malformed"   -> Malformed
    [] kind = "network"     -> Opt(TRUE, FALSE, TRUE, FALSE, "elsewhere")
    [] kind = "networkOff"  -> Opt(FALSE, FALSE, TRUE, FALSE, "elsewhere")
    [] kind = "otherDisk"   -> Opt(TRUE, FALSE, FALSE, FALSE, "elsewhere")
    [] kind = "shellApp"    -> Opt(TRUE, TRUE, FALSE, FALSE, "elsewhere")
    [] kind = "firmwares"   -> Opt(TRUE, FALSE, FALSE, FALSE, im)
    [] kind = "firmwareApp" -> Opt(TRUE, TRUE, FALSE, FALSE, im)
    [] kind = "earlier"     -> Opt(TRUE, FALSE, FALSE, TRUE, im)
    [] kind = "earlierOff"  -> Opt(FALSE, FALSE, FALSE, TRUE, im)
    [] OTHER                -> Opt(TRUE, FALSE, FALSE, TRUE, "elsewhere")

\* BootOrder as found: up to three numbers, duplicates included.
FoundOrders == UNION {[1 .. k -> Numbers] : k \in 0 .. 3}

\* A finite set of the states Init allows, which TLC can enumerate.
MCInit ==
  /\ \E kinds \in [Numbers -> Found], im \in Images :
       entries = [n \in Numbers |-> Content(kinds[n], im)]
  /\ order \in FoundOrders
  /\ oddOrder \in BOOLEAN
  /\ oddOrder => order = <<>>
  /\ pc = "idle" /\ result = "none" /\ deploys = 0
  /\ image \in Images
  /\ number = 0
  /\ NoPileUp

MCSpec == MCInit /\ [][Next]_vars
=============================================================================
