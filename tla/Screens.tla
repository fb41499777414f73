------------------------------- MODULE Screens -------------------------------
(* How one screen of the user interface takes the place of another, and what the
   keys do meanwhile (screen_manager.c, key_enc_evdev.c, lvgl_drm_warp.c,
   layer_animation.c).

   The interface has one buffer that is drawn while it is scanned out. So that
   nobody sees that, the plane dips until only a curtain is left on the screen,
   the content is changed behind it, the plane rises again and the curtain is
   lifted. The LVGL thread changes the content and lifts the curtain by timers of
   its own; the plane is moved by the steps of a timer of another thread. Keys are
   muted from the first to the last. A tick is 50 ms.                           *)
EXTENDS Integers, Sequences, FiniteSets

CONSTANTS
    PanelY,       \* where the plane stands for each screen
    Intro,        \* UI_SPINNER_INTRO_Y: only the curtain is visible
    DipTime, RiseTime, RetractTime,   \* UI_TRANSITION_*, in ticks
    Late,         \* ticks a timer of LVGL may be late
    Requested,    \* the screens that are asked for by timers of the LVGL thread
    MaxRequests,  \* how often they are
    Rebuilt,      \* the screens whose lists are refreshed
    Devices,      \* input devices with keys
    Keys,         \* keys that are pressed
    MaxPresses    \* how often they are

ScreenIds == DOMAIN PanelY
Spinner == "spinner"       \* the empty screen: the plane stands below the display
ASSUME ScreensAssumption ==
    /\ {Spinner, "mainmenu", "oplist", "displayimg"} \cup Requested \subseteq ScreenIds
    /\ "none" \notin ScreenIds
    /\ {DipTime, RiseTime} \subseteq Nat \ {0} /\ {RetractTime, Late} \subseteq Nat
NoSwap == [to |-> "none", left |-> 0]
Hidden == [at |-> "hidden", left |-> 0]
Down   == [at |-> "down", left |-> 0]
Between == -1              \* somewhere on the way

VARIABLES
    current,   \* s_current
    loaded,    \* the screen LVGL has loaded
    built,     \* screens whose object exists
    stale,     \* rebuild_pending
    swap,      \* s_swap_timer: where to, and in how many ticks
    curtain,   \* the curtain: hidden, down, or lifting with ticks left
    muted,     \* s_muted of key_enc_evdev.c
    parked,    \* s_parked
    spinning,  \* is the object of the spinner animated
    moves,     \* the timers that move the plane: where to, and ticks left
    plane,     \* CRTC_Y of the plane
    asked,     \* requests so far
    queue,     \* events of each device nobody has read
    held,      \* keys that are down
    pressed,   \* presses so far
    cache,     \* last_key and last_state of the read callback
    boot       \* is the boot animation running

screenVars == <<current, loaded, built, stale, swap, curtain, parked, spinning, moves, plane>>
keyVars == <<queue, held, pressed, cache, boot>>
screensVars == <<screenVars, muted, asked, keyVars>>

------------------------------------------------------------------------------
(* screens_init: the empty screen is loaded, and parked. *)

Released == [key |-> "none", state |-> "released"]

ScreensInit ==
    /\ current = Spinner /\ loaded = Spinner
    /\ built = {Spinner} /\ stale = {Spinner} /\ parked = TRUE /\ spinning = FALSE
    /\ swap = NoSwap /\ curtain = Hidden /\ muted = FALSE
    /\ moves = {} /\ plane = PanelY[Spinner] /\ asked = 0
    /\ queue = [d \in Devices |-> <<>>] /\ held = {} /\ pressed = 0
    /\ cache = Released /\ boot \in BOOLEAN

------------------------------------------------------------------------------
(* Changing the screen *)

\* ui_plane_move: one timer, whose record holds the coordinates of all steps
PlaneMove(y, time) == moves \cup {[to |-> y, left |-> time]}

\* Mutant: a curtain that is being lifted goes on.
CurtainShowKeeps ==
    /\ curtain' = IF curtain = Hidden THEN Down ELSE curtain
    /\ muted' = TRUE

\* curtain_show: the animation that lifts it is deleted, with its callback.
CurtainShow ==
    /\ curtain' = Down
    /\ muted' = TRUE

\* Mutant: a transition on its way keeps where it goes.
RetargetNot(id) == UNCHANGED <<swap, moves>>

\* While the plane dips the destination is changed, and nothing more.
Retarget(id) ==
    /\ swap' = [swap EXCEPT !.to = id]
    /\ UNCHANGED moves

Dip(id) ==
    /\ swap' = [to |-> id, left |-> DipTime]
    /\ moves' = PlaneMove(Intro, DipTime)

\* screen_show
ScreenShow(id) ==
    IF id = current THEN UNCHANGED <<current, built, parked, spinning, curtain, muted, swap, moves>>
    ELSE /\ built' = built \cup {id}
         /\ spinning' = (spinning \/ (id = Spinner /\ Spinner \notin built))
         /\ parked' = FALSE
         /\ CurtainShow
         /\ IF swap = NoSwap THEN Dip(id) ELSE Retarget(id)
         /\ current' = id

\* load_now: a screen that was marked is built anew before it is loaded.
LoadNow(id) ==
    /\ loaded' = id
    /\ stale' = stale \ {id}
    /\ spinning' = (spinning \/ (id = Spinner /\ id \in stale))
    /\ UNCHANGED built

\* curtain_retract: after the rise, and then for its own time
CurtainRetract == curtain' = [at |-> "lifting", left |-> RiseTime + RetractTime]

\* swap_cb: the content is changed and drawn at once, and the plane rises.
SwapCb ==
    /\ swap # NoSwap /\ swap.left <= 0
    /\ swap' = NoSwap
    /\ LoadNow(swap.to)
    /\ moves' = PlaneMove(PanelY[swap.to], RiseTime)
    /\ CurtainRetract
    /\ UNCHANGED <<current, muted, parked, plane, asked, keyVars>>

\* plane_park: the spinner's animation is stopped, and cannot be started again.
PlanePark ==
    /\ parked' = TRUE
    /\ IF parked THEN UNCHANGED <<stale, spinning>>
       ELSE stale' = stale \cup {Spinner} /\ spinning' = FALSE

\* Mutant: the keys are given back where the plane does not park.
RetractDoneMuted ==
    /\ curtain.at = "lifting" /\ curtain.left <= 0
    /\ curtain' = Hidden
    /\ IF current = Spinner THEN PlanePark /\ UNCHANGED muted
       ELSE UNCHANGED <<parked, stale, spinning>> /\ muted' = FALSE
    /\ UNCHANGED <<current, loaded, built, swap, moves, plane, asked, keyVars>>

\* curtain_retract_done_cb
RetractDone ==
    /\ curtain.at = "lifting" /\ curtain.left <= 0
    /\ curtain' = Hidden
    /\ muted' = FALSE
    /\ IF current = Spinner THEN PlanePark ELSE UNCHANGED <<parked, stale, spinning>>
    /\ UNCHANGED <<current, loaded, built, swap, moves, plane, asked, keyVars>>

\* screens_rebuild only marks the screen.
ScreensRebuild(id) ==
    /\ id \in built /\ id \notin stale
    /\ stale' = stale \cup {id}
    /\ UNCHANGED <<current, loaded, built, swap, curtain, muted, parked, spinning, moves, plane, asked, keyVars>>

\* A warning, a question or a client's request, from a timer of the LVGL thread:
\* the keys are muted then, but the timers are not.
Request(id) ==
    /\ asked < MaxRequests
    /\ asked' = asked + 1
    /\ ScreenShow(id)
    /\ UNCHANGED <<loaded, stale, plane, keyVars>>

------------------------------------------------------------------------------
(* Time. In every tick each timer of the plane makes its steps, in either order;
   the last coordinate stays. A timer of LVGL comes late, but not for ever.     *)

\* layer_animation_move_cb: the last step is where the movement goes.
Steps == {IF m.left = 1 THEN m.to ELSE Between : m \in moves}

Older(m) == [m EXCEPT !.left = @ - 1]
Waits(timer) == timer.left > -Late

Tick ==
    /\ moves # {} \/ swap # NoSwap \/ curtain.at = "lifting"
    /\ swap # NoSwap => Waits(swap)
    /\ curtain.at = "lifting" => Waits(curtain)
    /\ moves' = {Older(m) : m \in {m \in moves : m.left > 1}}
    /\ IF moves = {} THEN UNCHANGED plane ELSE plane' \in Steps
    /\ swap' = IF swap = NoSwap THEN swap ELSE Older(swap)
    /\ curtain' = IF curtain.at = "lifting" THEN Older(curtain) ELSE curtain
    /\ UNCHANGED <<current, loaded, built, stale, parked, spinning, muted, asked, keyVars>>

------------------------------------------------------------------------------
(* Keys *)

\* The user presses and releases; keys without a meaning are events as well.
Press(d, k) ==
    /\ pressed < MaxPresses /\ <<d, k>> \notin held
    /\ pressed' = pressed + 1
    /\ held' = held \cup {<<d, k>>}
    /\ queue' = [queue EXCEPT ![d] = Append(@, [key |-> k, value |-> 1])]
    /\ UNCHANGED <<screenVars, muted, asked, cache, boot>>

Release(d, k) ==
    /\ <<d, k>> \in held
    /\ held' = held \ {<<d, k>>}
    /\ queue' = [queue EXCEPT ![d] = Append(@, [key |-> k, value |-> 0])]
    /\ UNCHANGED <<screenVars, muted, asked, pressed, cache, boot>>

\* screens_handle_key, where it shows a screen. The others keep what is in front.
Leads(key) ==
    CASE current = "displayimg" /\ key \in {"esc", "enter"} -> {Spinner}
      [] current = "mainmenu" /\ key = "esc"               -> {Spinner}
      [] current = "oplist" /\ key = "esc"                 -> {Spinner, current}
      [] current = "filemanager" /\ key = "esc"            -> {"mainmenu"}
      [] current = "confirm" /\ key = "esc"                 -> {Spinner}
      [] current \in {"settings", "applist", "sysinfo", "warning", "usbselect"} /\ key = "esc" -> {"mainmenu", current}
      [] current = Spinner /\ key \in {"left", "right"}     -> {"oplist"}
      [] current = Spinner /\ key = "enter"                 -> {"displayimg"}
      [] current = Spinner /\ key = "esc"                   -> {"mainmenu"}
      [] OTHER                                              -> {current}

\* The buttons of the screen that is loaded, when the key is the one that presses
Buttons(key) ==
    IF key # "enter" \/ loaded # current THEN {}
    ELSE CASE loaded = "mainmenu"                     -> {"oplist", "displayimg", "settings"}
           [] loaded = "oplist"                       -> {"mainmenu", Spinner}
           [] loaded \in {"settings", "applist", "sysinfo"} -> {"mainmenu"}
           [] loaded \in {"confirm", "warning"}       -> {Spinner}
           [] OTHER                                   -> {}

\* screen_key_event_cb, and the button that LVGL presses after it: a change of
\* screen resets the input device, so only one of the two leads anywhere.
HandleKey(key) ==
    IF boot THEN /\ boot' = FALSE
                 /\ UNCHANGED <<current, built, parked, spinning, curtain, muted, swap, moves>>
    ELSE /\ UNCHANGED boot
         /\ \E id \in Leads(key) : \/ ScreenShow(id)
                                   \/ id = current /\ \E b \in Buttons(key) \cap ScreenIds : ScreenShow(b)

\* Mutant: what is thrown away leaves the state as it is.
ReadMutedKeeps ==
    /\ muted
    /\ queue' = [d \in Devices |-> <<>>]
    /\ UNCHANGED <<screenVars, muted, asked, held, pressed, cache, boot>>

\* key_enc_evdev_read_cb while muted: all is read and thrown away, and what comes
\* after starts from a key that is up.
ReadMuted ==
    /\ muted
    /\ queue' = [d \in Devices |-> <<>>]
    /\ cache' = Released
    /\ UNCHANGED <<screenVars, muted, asked, held, pressed, boot>>

\* One event per call, from the first device that has one
ReadKey(d) ==
    /\ ~muted /\ queue[d] # <<>> /\ \A e \in Devices : e < d => queue[e] = <<>>
    /\ queue' = [queue EXCEPT ![d] = Tail(@)]
    /\ LET e == Head(queue[d])
       IN  IF e.value = 1
           THEN HandleKey(e.key) /\ cache' = [key |-> e.key, state |-> "pressed"]
           ELSE /\ cache' = [cache EXCEPT !.state = "released"]
                /\ UNCHANGED <<current, built, parked, spinning, curtain, muted, swap, moves, boot>>
    /\ UNCHANGED <<loaded, stale, plane, asked, held, pressed>>

\* The boot animation ends by itself, too.
BootEnds ==
    /\ boot
    /\ boot' = FALSE
    /\ UNCHANGED <<screenVars, muted, asked, queue, held, pressed, cache>>

ScreensNext ==
    \/ SwapCb \/ RetractDone \/ Tick \/ ReadMuted \/ BootEnds
    \/ \E id \in Rebuilt : ScreensRebuild(id)
    \/ \E id \in Requested : Request(id)
    \/ \E d \in Devices, k \in Keys : Press(d, k)
    \/ \E d \in Devices, k \in Keys : Release(d, k)
    \/ \E d \in Devices : ReadKey(d)

ScreensSpec == ScreensInit /\ [][ScreensNext]_screensVars

\* The LVGL thread handles its timers, and time goes on.
ScreensFairness == WF_screensVars(SwapCb) /\ WF_screensVars(RetractDone) /\ WF_screensVars(Tick)

------------------------------------------------------------------------------
(* What the transitions promise *)

\* Nothing moves and no curtain is in the way.
Settled == swap = NoSwap /\ curtain = Hidden /\ moves = {}

\* However requests and keys cut into a transition, keys are muted and the plane is
\* not parked as long as one is on its way, the content is changed behind a curtain
\* that is down, and when all has come to rest, the screen asked for last is loaded,
\* the plane stands where it belongs, the keys are back, and an object of the spinner
\* that was stopped is built anew before it is seen (screen_show, swap_cb, retract).
TransitionsEnd ==
    /\ swap # NoSwap => muted /\ curtain = Down /\ ~parked
    /\ curtain # Hidden => muted
    /\ Settled => /\ loaded = current /\ plane = PanelY[current]
                  /\ ~muted /\ (parked <=> current = Spinner)
    /\ ~spinning => parked \/ Spinner \in stale

\* Muted keys come back, whatever was asked meanwhile (curtain_retract_done_cb: a
\* curtain that comes down again deletes the animation that would have done it).
InputReturns == muted ~> ~muted

\* When every key is up and all events are read, LVGL is not told of a key that is
\* down: a release that was thrown away with the mute would leave it pressed for
\* ever, which is a long press (key_enc_evdev_read_cb).
NoKeyStuck ==
    held = {} /\ (\A d \in Devices : queue[d] = <<>>) => cache.state = "released"

\* "dip has arrived: the content is changed behind the curtain and drawn to the end"
\* (screen_manager.c, at swap_cb): the plane is down whenever the content changes.
\* It does not hold: README, section 6.
SwapIsHidden == [][swap # NoSwap /\ swap' = NoSwap => plane >= Intro]_screensVars

\* Whatever cut into a transition, it ends, and no key stays pressed over it.
ScreensRest == TransitionsEnd /\ NoKeyStuck
==============================================================================
