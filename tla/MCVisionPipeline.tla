--------------------------- MODULE MCVisionPipeline ---------------------------
(* Instances of VisionPipeline for TLC. *)
EXTENDS VisionPipeline

\* A full bundle of the arm, one of the rod, which has no A and B, and a bundle of a
\* path without depth camera.
MixedRequests ==
  {[cam |-> "arm", use |-> Channel],
   [cam |-> "rod", use |-> {"mech", "smart"}],
   [cam |-> "arm", use |-> Cxp]}
================================================================================
