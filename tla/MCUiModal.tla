----------------------------- MODULE MCUiModal -----------------------------
(* Small instances of UiModal: the values are in the cfg file. *)
EXTENDS UiModal
=============================================================================
