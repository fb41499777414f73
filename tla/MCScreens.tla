------------------------------ MODULE MCScreens ------------------------------
(* What the user sees, in one run: the screens that take each other's place, the
   lists that scroll, and the planes they and the video are put on. They share no
   state here, so a behaviour is one of the three.                               *)
EXTENDS Screens, Lists, Display

VARIABLE layer

MCPanelY == [spinner |-> 640, mainmenu |-> 190, oplist |-> 250, displayimg |-> 0, warning |-> 565]

Names == <<"a", "b", "c", "d", "e", "f">>
MCTables == {[i \in 0 .. n - 1 |-> Names[i + 1]] : n \in {0, 2, 6}}
MCBelow == [op |-> <<"refresh", "menu">>, app |-> <<"back">>]

\* How often each layer of the display asks. That of the UI is not faded, and moved as
\* the others are.
MCMaxWishes == [l \in Layers |-> IF l = Ui THEN 0 ELSE 2]

vars == <<layer, screensVars, listVars, displayVars>>

NoScreens == ScreensInit /\ boot = FALSE
NoLists ==
    /\ list = "op" /\ table = [i \in {} |-> "a"] /\ saved = TRUE /\ now = 0
    /\ open = FALSE /\ marked = TRUE /\ view = Created(table)
    /\ picked = None /\ lit = {} /\ key = "none" /\ carried = 0 /\ scans = 0

Init ==
  /\ DisplayInit
  /\ \/ layer = "screens" /\ ScreensInit /\ NoLists
     \/ layer = "lists" /\ NoScreens /\ ListsInit /\ now \in {0, Count - 1}
     \/ layer = "planes" /\ NoScreens /\ NoLists

Next ==
    /\ UNCHANGED layer
    /\ \/ layer = "screens" /\ ScreensNext /\ UNCHANGED <<listVars, displayVars>>
       \/ layer = "lists" /\ ListsNext /\ UNCHANGED <<screensVars, displayVars>>
       \/ layer = "planes" /\ DisplayNext /\ UNCHANGED <<screensVars, listVars>>

Fairness == layer = "screens" => ScreensFairness
Spec == Init /\ [][Next]_vars /\ Fairness
==============================================================================
