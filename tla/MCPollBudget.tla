---------------------------- MODULE MCPollBudget ----------------------------
(* Every sequence of up to three words after the two required keys, and every *)
(* sequence of up to three words for those.  Two of the eight required keys    *)
(* stand for all: the code treats them alike.                                  *)
EXTENDS PollBudget, SequencesExt, TLC

Is(k, v) == [key |-> k, value |-> v]

Timeouts == ("0" :> 0) @@ ("9" :> 9) @@ ("15" :> 15) @@ ("huge" :> 1000)

RequiredWords == {Is("beskar7.api", v) : v \in {"a", "b", ""}} \cup {Is("beskar7.token", "t")}

OtherWords ==
  {Is("quiet", "")} \cup {Is("BOOTIF", v) : v \in {"mac", ""}}
    \cup {Is("beskar7.ip", v) : v \in {"ip1", "ip2", "bad", ""}}
    \cup {Is("beskar7.timeout", v) : v \in {"soon", ""} \cup DOMAIN Timeouts}

SmallLines ==
  {<<Is("beskar7.api", "a"), Is("beskar7.token", "t")>> \o words :
      words \in BoundedSeq(RequiredWords \cup OtherWords, 3)}
    \cup BoundedSeq(RequiredWords, 3)
=============================================================================
