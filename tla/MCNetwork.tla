----------------------------- MODULE MCNetwork ------------------------------
(* Three interfaces: on a network without a router, on one with a router, and *)
(* on one with both servers.  The third has the address of the first, as a    *)
(* bond over it does.                                                         *)
EXTENDS Network, TLC

ThreeNetworks == (1 :> {"plain"}) @@ (2 :> {"routed"}) @@ (3 :> {"plain", "routed"})

TwoMacs == (1 :> "mac1") @@ (2 :> "mac2") @@ (3 :> "mac1")
=============================================================================
