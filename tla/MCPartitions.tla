---------------------------- MODULE MCPartitions ----------------------------
(* Bodies of up to four blocks against an image of two, with bounds below, at *)
(* and above both lengths; and partitions 1, 2 and 10, whose names sort as    *)
(* 1, 10, 2.  The other disk holds another image, with two ESPs.              *)
EXTENDS Partitions, SequencesExt, TLC

SmallBodies == BoundedSeq({"image", "wrong"}, 4)

ThreeNames == (1 :> 1) @@ (2 :> 3) @@ (10 :> 2)

Layout(size, header, parts) == [size |-> size, header |-> header, parts |-> parts]

Standard == (1 :> "esp") @@ (2 :> "oem")
TwoEsps  == (1 :> "oem") @@ (2 :> "esp") @@ (10 :> "esp")
TwoOems  == (1 :> "esp") @@ (2 :> "oem") @@ (10 :> "oem")
NoEsp    == (1 :> "data") @@ (2 :> "oem")
NoOem    == (1 :> "esp") @@ (2 :> "data")

AnotherDisk == Layout(512, "ok", TwoEsps)

SomeTables ==
  {Layout(512, "ok", p) : p \in {Standard, TwoEsps, TwoOems, NoEsp, NoOem}}
    \cup {Layout(4096, "ok", Standard), Layout(512, "bad", Standard), Layout(512, "none", NoEsp)}

\* What the documentation says of the search: the COS_OEM located is a partition of the
\* target, and the mount is bound to it (oem.rs:11-22); and that a COS_OEM on a different
\* disk must not be mounted (oem.rs:104).
InjectsOnlyIntoTarget == oem # NoDevice => oem.unit = "target"
=============================================================================
