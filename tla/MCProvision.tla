---------------------------- MODULE MCProvision -----------------------------
(* Small instances of Provision for TLC; the bounds are in the .cfg files.   *)
EXTENDS Provision

\* deploy.rs:70-72: "On an inject failure it first removes the partial
\* 99_beskar7.yaml (which may hold the join secret) [...] and then unmounts".  So
\* a boot parked on a failed injection leaves no file with the join secret.
FailedInjectLeavesNoSecret ==
  pc = "parked" /\ err = "inject" => config = "none"
=============================================================================
