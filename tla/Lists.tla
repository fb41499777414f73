--------------------------------- MODULE Lists ---------------------------------
(* The lists of operators and of apps (screen_oplist.c, screen_applist.c): a few
   slots that are bound to other entries as the focus moves, so that the list costs
   the same however long it is. Binding a slot tells LVGL to move the focus, and
   LVGL calls back when the focus moves: each operator below is the whole of what
   one call does, with the calls back that it causes.                            *)
EXTENDS Integers, Sequences, FiniteSets

CONSTANTS
    Slots,       \* UI_OPLIST_VISIBLE_SLOTS, UI_APP_VISIBLE_SLOTS
    Tables,      \* the tables that a scan of the disk may leave
    Below,     \* of a list: the buttons under it, in their order
    MaxCarried,  \* moves of operators that are picked up
    MaxScans     \* reloads while the list is built

\* What may have the focus: a slot by its number, then the buttons
Slot == 0 .. Slots - 1
None == -1
ButtonIds(list) == [i \in DOMAIN Below[list] |-> Slots + i - 1]

ASSUME ListsAssumption ==
    /\ Slots \in Nat \ {0}
    /\ \A t \in Tables : /\ IsFiniteSet(DOMAIN t)
                         /\ t = [i \in 0 .. Cardinality(DOMAIN t) - 1 |-> t[i]]
    /\ Below \in [{"op", "app"} -> Seq(STRING)]

VARIABLES
    list,     \* which of the two: "op" or "app"
    table,    \* operators or apps, from 0
    now,      \* operator_index
    saved,    \* is the order of the table the one on disk
    open,     \* is the list the screen that is loaded
    marked,   \* rebuild_pending, or not built yet
    view,     \* total, visible_start, slots; the group, and what has the focus
    picked,   \* s_reorder_op, None when s_reorder_active is not set
    lit,      \* the slots in LV_STATE_USER_1
    key,      \* the key that was handled last
    carried, scans

listVars == <<list, table, now, saved, open, marked, view, picked, lit, key, carried, scans>>

Count == Cardinality(DOMAIN table)
Least(a, b) == IF a < b THEN a ELSE b
Most(a, b)  == IF a > b THEN a ELSE b

------------------------------------------------------------------------------
(* Slots *)

Unbound(shown) == [idx |-> None, shown |-> shown]

\* update_slot_content: an entry that is not there any more leaves the slot bound
\* to the one it had.
Bound(slot, t, k) == IF k \in DOMAIN t THEN [idx |-> k, shown |-> t[k]] ELSE slot

\* Mutant: the first entry may be the last.
ClampedNot(total, start) == Most(0, Least(start, total - 1))

Clamped(total, start) == Most(0, Least(start, total - Slots))

\* update_visible_range
Window(v, t, new) ==
    LET first == Clamped(v.total, new)
    IN  [v EXCEPT !.start = first,
                  !.slots = [i \in Slot |-> IF first + i < v.total THEN Bound(v.slots[i], t, first + i)
                                            ELSE Unbound(v.slots[i].shown)]]

------------------------------------------------------------------------------
(* The group of LVGL, and its call back *)

In(obj, g) == \E i \in DOMAIN g : g[i] = obj

\* refocus_op while the call back is guarded: nothing happens when the entry is in
\* no slot, or its button not in the group.
Follow(v, idx) ==
    LET at == {i \in Slot : v.slots[i].idx = idx}
    IN  IF at = {} THEN v
        ELSE LET s == CHOOSE i \in at : \A j \in at : i <= j
             IN  IF In(s, v.group) THEN [v EXCEPT !.focus = s] ELSE v

\* Mutant: the entry is read after the window has moved.
SlotFocusedLate(v, t) ==
    LET s == v.focus
    IN  IF s \notin Slot \/ v.slots[s].idx < 0 THEN v
        ELSE IF s <= 1 /\ v.start > 0
             THEN LET w == Window(v, t, v.start - 1) IN Follow(w, w.slots[s].idx)
        ELSE IF s >= Slots - 2 /\ v.start + Slots < v.total
             THEN LET w == Window(v, t, v.start + 1) IN Follow(w, w.slots[s].idx)
        ELSE v

\* slot_focus_cb: near an end of the window, the window moves by one entry, and the
\* focus stays with the entry it is on.
SlotFocused(v, t) ==
    LET s == v.focus
    IN  IF s \notin Slot \/ v.slots[s].idx < 0 THEN v
        ELSE IF s <= 1 /\ v.start > 0
             THEN Follow(Window(v, t, v.start - 1), v.slots[s].idx)
        ELSE IF s >= Slots - 2 /\ v.start + Slots < v.total
             THEN Follow(Window(v, t, v.start + 1), v.slots[s].idx)
        ELSE v

\* lv_group_focus_obj
Focus(v, t, obj) == IF In(obj, v.group) THEN SlotFocused([v EXCEPT !.focus = obj], t) ELSE v

\* refocus_op, refocus_app
Refocus(v, t, idx) ==
    LET at == {i \in Slot : v.slots[i].idx = idx}
    IN  IF at = {} THEN v ELSE Focus(v, t, CHOOSE i \in at : \A j \in at : i <= j)

\* lv_group_remove_all_objs, then lv_group_add_obj of each: the first has the focus
\* at once.
Group(v, t, objs) ==
    LET first == SlotFocused([v EXCEPT !.group = <<objs[1]>>, !.focus = objs[1]], t)
    IN  [first EXCEPT !.group = objs]

\* Slots that are bound, in their order
BoundSlots(v) ==
    LET bound == {i \in Slot : v.slots[i].idx >= 0}
    IN  [n \in 1 .. Cardinality(bound) |-> CHOOSE i \in bound : Cardinality({j \in bound : j < i}) = n - 1]

\* build_group
BuildGroup(v, t, idx) ==
    LET w == IF idx \notin v.start .. v.start + Slots - 1 THEN Window(v, t, idx) ELSE v
    IN  Refocus(Group(w, t, BoundSlots(w) \o ButtonIds("op")), t, idx)

\* on_load_start of the apps
BuildApps(v, t) ==
    LET g == Group(v, t, (IF v.total = 0 THEN <<>> ELSE BoundSlots(v)) \o ButtonIds("app"))
    IN  IF v.total > 0 THEN Focus(g, t, 0) ELSE g

\* screen_oplist_create, screen_applist_create; the slots of an empty list, which only
\* that of the apps can be, are not made.
Created(t) ==
    LET n == Cardinality(DOMAIN t)
        none == [total |-> n, start |-> 0, group |-> <<>>, focus |-> None,
                 slots |-> [i \in Slot |-> [idx |-> IF n = 0 THEN 0 ELSE None, shown |-> "nothing"]]]
    IN  IF n = 0 THEN none ELSE Window(none, t, 0)

------------------------------------------------------------------------------
ListsInit ==
    /\ list \in {"op", "app"}
    /\ table \in Tables /\ (list = "op" => Count > 0) /\ saved = TRUE /\ now \in DOMAIN table \cup {0}
    /\ open = FALSE /\ marked = TRUE /\ view = Created(table)
    /\ picked = None /\ lit = {} /\ key = "none" /\ carried = 0 /\ scans = 0

\* load_now, and on_load_start: no operator is picked up.
Load ==
    /\ ~open
    /\ open' = TRUE
    /\ marked' = FALSE
    /\ LET v == IF marked THEN Created(table) ELSE view
       IN  view' = IF list = "op" THEN BuildGroup(v, table, now) ELSE BuildApps(v, table)
    /\ lit' = IF marked THEN {} ELSE lit
    /\ picked' = None /\ key' = "none"
    /\ UNCHANGED <<list, table, now, saved, carried, scans>>

\* Another screen is loaded: a warning, or a client's question.
Interrupted ==
    /\ open
    /\ open' = FALSE
    /\ key' = "none"
    /\ UNCHANGED <<list, table, now, saved, marked, view, picked, lit, carried, scans>>

Of(name, t) == {i \in DOMAIN t : t[i] = name}

\* The table is scanned anew, the operator shown found again or the first taken, and
\* the screen marked (prts_reload_assets).
Rescanned ==
    /\ scans < MaxScans /\ table \in Tables
    /\ scans' = scans + 1
    /\ table' \in Tables \ {table} /\ (list = "op" => DOMAIN table' # {})
    /\ now' = IF now \in DOMAIN table /\ Of(table[now], table') # {} THEN CHOOSE i \in Of(table[now], table') : TRUE ELSE 0
    /\ saved' = TRUE
    /\ marked' = TRUE
    /\ key' = "none"
    /\ UNCHANGED <<list, open, view, picked, lit, carried>>

------------------------------------------------------------------------------
(* Keys *)

Place(v) == CHOOSE i \in DOMAIN v.group : v.group[i] = v.focus

\* Left and right move the focus in the group, which does not wrap.
MoveFocus(k) ==
    /\ open /\ picked = None /\ view.focus \in Slot \cup {Slots, Slots + 1}
    /\ LET to == Place(view) + (IF k = "right" THEN 1 ELSE -1)
       IN  view' = IF to \in DOMAIN view.group THEN Focus(view, table, view.group[to]) ELSE view
    /\ key' = k
    /\ UNCHANGED <<list, table, now, saved, open, marked, picked, lit, carried, scans>>

\* reorder_focus_picked: the group holds nothing but the slot of the operator that
\* is picked up. The call back runs unless it is guarded.
Alone(v, t, op, guarded) ==
    LET at == {i \in Slot : v.slots[i].idx = op}
        s  == CHOOSE i \in at : \A j \in at : i <= j
        g  == [v EXCEPT !.group = <<s>>, !.focus = s]
    IN  IF at = {} THEN [v EXCEPT !.group = <<>>, !.focus = None]
        ELSE IF guarded THEN g ELSE Focus(Group(v, t, <<s>>), t, s)
LitFor(v, op) == LET at == {i \in Slot : v.slots[i].idx = op}
                 IN  {i \in at : \A j \in at : i <= j}

\* slot_longpress_cb, reorder_enter
PickUp ==
    /\ open /\ list = "op" /\ picked = None
    /\ view.focus \in Slot /\ view.slots[view.focus].idx >= 0
    /\ picked' = view.slots[view.focus].idx
    /\ view' = Alone(view, table, picked', FALSE)
    /\ lit' = LitFor(view, picked')
    /\ key' = "none"
    /\ UNCHANGED <<list, table, now, saved, open, marked, carried, scans>>

\* prts_move_operator (Move of Prts is the same, as the switches of operators see it)
Moved(t, from, to) ==
    [i \in DOMAIN t |-> CASE i = to -> t[from]
                          [] from < to /\ i \in from .. to - 1 -> t[i + 1]
                          [] to < from /\ i \in to + 1 .. from -> t[i - 1]
                          [] OTHER -> t[i]]
NowAfter(from, to) ==
    CASE now = from                -> to
      [] from < now /\ now <= to -> now - 1
      [] to <= now /\ now < from -> now + 1
      [] OTHER                     -> now

\* Mutant: the slots keep what they show when the window stays.
WindowForKeeps(v, t, to) ==
    IF to < v.start THEN Window(v, t, to)
    ELSE IF to >= v.start + Slots THEN Window(v, t, to - Slots + 1)
    ELSE v

WindowFor(v, t, to) ==
    IF to < v.start THEN Window(v, t, to)
    ELSE IF to >= v.start + Slots THEN Window(v, t, to - Slots + 1)
    ELSE Window(v, t, v.start)

\* screen_oplist_reorder_move
MovePicked(k) ==
    /\ open /\ picked # None /\ carried < MaxCarried
    /\ LET to == picked + (IF k = "right" THEN 1 ELSE -1)
       IN  IF to \notin 0 .. view.total - 1 THEN UNCHANGED <<table, now, saved, picked, view, lit>>
           ELSE /\ IF {picked, to} \subseteq DOMAIN table
                   THEN table' = Moved(table, picked, to) /\ now' = NowAfter(picked, to) /\ saved' = FALSE
                   ELSE UNCHANGED <<table, now, saved>>
                /\ picked' = to
                /\ LET w == WindowFor(view, table', to)
                   IN  view' = Alone(w, table', to, TRUE) /\ lit' = LitFor(w, to)
    /\ carried' = carried + 1 /\ key' = k
    /\ UNCHANGED <<list, open, marked, scans>>

\* reorder_exit(true): by ESC, or by the key that selects
PutDown ==
    /\ open /\ picked # None
    /\ view' = BuildGroup(view, table, picked)
    /\ lit' = {} /\ picked' = None
    /\ saved' = TRUE
    /\ key' = "none"
    /\ UNCHANGED <<list, table, now, open, marked, carried, scans>>

\* slot_click_cb and the buttons: the list makes room for another screen; the
\* operator asked for is the one of the slot, by its index (the switch itself, which
\* comes later, is in Prts).
Leave ==
    /\ open /\ picked = None
    /\ open' = FALSE
    /\ IF list = "op" /\ view.focus \in Slot /\ view.slots[view.focus].idx \in DOMAIN table
       THEN now' = view.slots[view.focus].idx ELSE UNCHANGED now
    /\ key' = "none"
    /\ UNCHANGED <<list, table, saved, marked, view, picked, lit, carried, scans>>

ListsNext ==
    \/ Load \/ Interrupted \/ Rescanned \/ PickUp \/ PutDown \/ Leave
    \/ \E k \in {"left", "right"} : MoveFocus(k) \/ MovePicked(k)

ListSpec == ListsInit /\ [][ListsNext]_listVars

------------------------------------------------------------------------------
(* What the lists promise, as long as the table is the one they were built of *)

\* Each slot shows the entry it selects, the window has no gap, and the focus, when
\* the list has entries, is on something in view: however the focus, the window and
\* the operator that is picked up have moved.
WhatIsSeenIsSelected ==
    open /\ ~marked /\ Count > 0 =>
        /\ \A i \in Slot : LET k == view.start + i
                           IN  view.slots[i].idx = (IF k < Count THEN k ELSE None)
                               /\ (k < Count => view.slots[i].shown = table[k])
        /\ In(view.focus, view.group)
        /\ \A i \in DOMAIN view.group : view.group[i] \in Slot => view.slots[view.group[i]].idx >= 0

\* Where the focus is: the entry, or the button behind the last entry
Focused == IF view.focus \in Slot THEN view.slots[view.focus].idx ELSE view.total + view.focus - Slots

\* The window has moved ahead of the focus.
Ahead == view.focus \in Slot => /\ view.focus <= 1 => view.start = 0
                                /\ view.focus >= Slots - 2 => view.start + Slots >= view.total

\* From a window that is ahead of the focus, one key moves the focus by one entry,
\* not by two as when the window moves under it, stops at the ends, and leaves the
\* window ahead; while an operator is picked up it moves that by one, and the
\* operator stays in view, lit and in its place among the others.
OneByOne == [][
    (key' \in {"left", "right"} /\ ~marked /\ view.total > 0) =>
        LET step == IF key' = "right" THEN 1 ELSE -1
            last == Count + Len(Below[list]) - 1
        IN  IF picked = None THEN Ahead => Focused' = Most(0, Least(last, Focused + step)) /\ Ahead'
            ELSE LET to == picked + step
                 IN  to \in 0 .. Count - 1 =>
                     /\ picked' = to /\ Focused' = to /\ lit' = {view'.focus}
                     /\ table'[to] = table[picked] /\ table'[picked] = table[to]]_listVars

\* "the navigation is built again, the focus on the operator that was put down" (in
\* Chinese, screen_oplist.c at reorder_exit; at build_group: "focus the operator")
\* It does not hold: README, section 6.
FocusComesBack == [][
    open' /\ ~marked' /\ list = "op" /\ picked # None /\ picked' = None =>
        Focused' = picked]_listVars
==============================================================================
