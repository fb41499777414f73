---------------------------- MODULE MCPrtsTimer ----------------------------
(***************************************************************************)
(* Small instances of PrtsTimer.  The free numbers are a stack: with two   *)
(* slots and two uses the second use may get the slot of the first, while  *)
(* expirations of that are still on their way, or the other one.           *)
(***************************************************************************)
EXTENDS PrtsTimer

OnceTwiceForever == {1, 2, -1}
=============================================================================
