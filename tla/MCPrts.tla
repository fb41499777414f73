------------------------------- MODULE MCPrts -------------------------------
EXTENDS Prts
CONSTANTS A, B

\* A has everything, B the least.
MCOps == {A, B}
MCTables == {<<A, B>>, <<B>>}
MCHasIntro == {A}
MCTransitionIn == (A :> "swipe") @@ (B :> "none")
MCTransitionLoop == (A :> "timed") @@ (B :> "swipe")
MCOpinfo == (A :> "engine") @@ (B :> "ark")
=============================================================================
