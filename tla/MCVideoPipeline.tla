-------------------------- MODULE MCVideoPipeline --------------------------
(* Small instances of VideoPipeline. *)
EXTENDS VideoPipeline
=============================================================================
