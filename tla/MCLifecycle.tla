----------------------------- MODULE MCLifecycle -----------------------------
EXTENDS Lifecycle, TLC
CONSTANTS A, B, D, E, C1, C2

\* A and D run in the background, D is on the card, B is for the foreground; E has
\* no program.
Entry(u, t, e, x) == [readable |-> TRUE, version |-> Version, uuid |-> u, executable |-> x,
                      type |-> t, screens |-> {Screen}, exts |-> e]
MCConfig == (A :> Entry("a", "bg", <<"log">>, TRUE)) @@ (B :> Entry("b", "fg", <<"LOG", "txt">>, TRUE))
            @@ (D :> Entry("d", "bg", <<"txt", "dat">>, TRUE)) @@ (E :> Entry("e", "bg", <<"dat">>, FALSE))
MCLower == ("log" :> "log") @@ ("LOG" :> "log") @@ ("txt" :> "txt") @@ ("dat" :> "dat")
MCApps == [nand |-> <<E, A>>, sd |-> <<D, B>>, files |-> {"log"}]
\* without A, D is the first
MCAppsLess == [nand |-> <<E>>, sd |-> <<D, B>>, files |-> {"log"}]
MCForeground == [nand |-> <<>>, sd |-> <<B>>, files |-> {None}]
MCNothing == [nand |-> <<>>, sd |-> <<>>, files |-> {}]
MCDisks == {MCApps, MCAppsLess, MCForeground, MCNothing}
R(t, s) == [type |-> t, size |-> s, valid |-> TRUE]
MCSet == <<R("reload_assets", "bare")>>
MCLong == <<R("get_status", "huge"), R("uix_usb", "wrong"), R("exit", "data")>>
MCScripts == {<<>>, MCSet, MCLong}
MCEarlier == {<<>>, <<"reload_list">>}

\* Applications to watch and a list to reload; or one that takes the screen; or two
\* clients; or one with more to say.
MCInit ==
  /\ Init /\ card /\ disk # MCAppsLess
  /\ CASE disk = MCApps ->
            worker = "draw" /\ helperq # <<>> /\ \A c \in Clients : client[c].todo = <<>>
       [] disk = MCForeground ->
            worker = "draw" /\ helperq = <<>> /\ \A c \in Clients : client[c].todo = <<>>
       [] disk = MCNothing ->
            /\ worker = "wait" /\ helperq = <<>>
            /\ \/ \A c \in Clients : client[c].todo = MCSet
               \/ client[C1].todo = MCLong /\ client[C2].todo = <<>>
MCSpec == MCInit /\ [][Next]_vars /\ Fairness
=============================================================================
