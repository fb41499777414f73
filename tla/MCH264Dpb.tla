----------------------------- MODULE MCH264Dpb -----------------------------
(* The reference lists of longer streams, by themselves.                    *)
EXTENDS H264Dpb

Spec == DpbInit /\ [][DpbNext]_dpbVars
=============================================================================
