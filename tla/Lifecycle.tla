----------------------------- MODULE Lifecycle -----------------------------
(***************************************************************************)
(* main.c around the applications and the IPC server: the loop that waits  *)
(* for children, and the order in which everything is stopped.  The timers *)
(* go first, so that nothing takes requests from the queue of the PRTS     *)
(* tick while the IPC thread is still serving; the LVGL thread serves its  *)
(* queue until it is joined.                                               *)
(***************************************************************************)
EXTENDS Apps, IpcServer

VARIABLES
  main,    \* the main thread
  timers,  \* the timers exist
  lvgl,    \* the LVGL thread: "on", "stop" (running is 0), "off"
  worker,  \* the overlay worker
  pending, \* its pending flag
  wrun     \* its running flag

lifeVars == <<main, timers, lvgl, worker, pending, wrun>>
vars == <<appsVars, ipcVars, lifeVars>>

Init ==
  /\ AppsInit /\ IpcInit
  /\ main = [pc |-> "run"] /\ timers = TRUE /\ lvgl = "on"
  /\ worker \in {"wait", "draw"} /\ pending = FALSE /\ wrun = TRUE

Leaving == ~running \/ exitAsked

----------------------------------------------------------------------------
\* The overlay worker, as far as its end is concerned (Overlay has the rest).

\* overlay_worker_schedule from a timer of an effect; a busy worker drops it.
Schedule ==
  /\ timers /\ worker # "draw" /\ ~pending /\ main.pc # "run"
  /\ pending' = TRUE
  /\ worker' = IF worker = "wait" THEN "woken" ELSE worker
  /\ UNCHANGED <<appsVars, ipcVars, main, timers, lvgl, wrun>>

\* The head of the loop, up to the lock.
WorkerTop ==
  /\ worker = "top"
  /\ worker' = IF wrun THEN "locked" ELSE "ended"
  /\ UNCHANGED <<appsVars, ipcVars, main, timers, lvgl, pending, wrun>>

\* With the lock: wait, or take the work.
WorkerTakes ==
  /\ worker = "locked"
  /\ worker' = IF pending THEN "draw" ELSE "wait"
  /\ pending' = FALSE
  /\ UNCHANGED <<appsVars, ipcVars, main, timers, lvgl, wrun>>

\* After pthread_cond_wait.  It leaves with the mutex locked.
WorkerWoken ==
  /\ worker = "woken"
  /\ worker' = IF wrun THEN "locked" ELSE "ended"
  /\ UNCHANGED <<appsVars, ipcVars, main, timers, lvgl, pending, wrun>>

WorkerDrawn ==
  /\ worker = "draw" /\ worker' = "top"
  /\ UNCHANGED <<appsVars, ipcVars, main, timers, lvgl, pending, wrun>>

\* Nobody else sees what the worker does before the program leaves: until then it
\* rests in the state it happens to be in.
WorkerGoesOn == main.pc # "run" /\ (WorkerTop \/ WorkerTakes \/ WorkerWoken \/ WorkerDrawn)

----------------------------------------------------------------------------
\* The main thread.

Goto(pc) == main' = [pc |-> pc]

MainReaps ==
  /\ main.pc = "run" /\ ReapAll(proc) # proc
  /\ proc' = ReapAll(proc)
  /\ UNCHANGED <<disk, card, tableVars, lv, check, of, exitVars, armed, lost, count, ipcVars, lifeVars>>

MainLeaves ==
  /\ main.pc = "run" /\ Leaving
  /\ Goto("timers")
  /\ UNCHANGED <<appsVars, ipcVars, timers, lvgl, worker, pending, wrun>>

\* prts_timer_destroy, and the cancel in apps_destroy.
TimersEnd ==
  /\ main.pc = "timers"
  /\ timers' = FALSE /\ armed' = FALSE
  /\ main' = [pc |-> "each", at |-> 1]
  /\ UNCHANGED <<disk, card, tableVars, lv, check, procVars, exitVars, lost, count,
                 ipcVars, lvgl, worker, pending, wrun>>

\* apps_destroy: every background application in the table, which the LVGL thread
\* may be rebuilding.
EachApp ==
  /\ main.pc = "each"
  /\ IF main.at > Len(table) THEN Goto("sleep") /\ UNCHANGED proc
     ELSE LET e == table[main.at]
          IN IF Type(e.dir) = "bg" /\ e.pid # None
             THEN /\ Terminate(e.pid)
                  /\ main' = [pc |-> "kill", pid |-> e.pid, polls |-> KillPolls, at |-> main.at]
             ELSE main' = [main EXCEPT !.at = @ + 1] /\ UNCHANGED proc
  /\ UNCHANGED <<disk, card, tableVars, lv, check, of, exitVars, armed, lost, count,
                 ipcVars, timers, lvgl, worker, pending, wrun>>

\* kill_app_background again.  Nobody reaps now, so it always lasts until SIGKILL.
MainKills ==
  /\ main.pc = "kill"
  /\ \/ (KillReturns(main) \/ KillForces(main)) /\ main' = [pc |-> "each", at |-> main.at + 1]
     \/ KillWaits(main) /\ main' = [main EXCEPT !.polls = @ - 1]
  /\ UNCHANGED <<disk, card, tableVars, lv, check, of, exitVars, armed, lost, count,
                 ipcVars, timers, lvgl, worker, pending, wrun>>

\* Mutant: without the second's sleep.
SleepNot ==
  /\ main.pc = "sleep"
  /\ proc' = ReapAll(proc)
  /\ ipcRunning' = FALSE
  /\ Goto("join_ipc")
  /\ UNCHANGED <<disk, card, tableVars, lv, check, of, exitVars, armed, lost, count, client, backlog,
                 fd, inbox, ipc, helperq, prtsq, exitAsked, timers, lvgl, worker, pending, wrun>>

\* usleep(1 s), the last waitpid, ipc_running = 0.  Assumed of time: in this second
\* the worker draws what it has and goes to sleep.
Slept == worker = "wait"
SleepOver ==
  /\ main.pc = "sleep" /\ Slept
  /\ proc' = ReapAll(proc)
  /\ ipcRunning' = FALSE
  /\ Goto("join_ipc")
  /\ UNCHANGED <<disk, card, tableVars, lv, check, of, exitVars, armed, lost, count, client, backlog,
                 fd, inbox, ipc, helperq, prtsq, exitAsked, timers, lvgl, worker, pending, wrun>>

\* lvgl_drm_warp_destroy: running = 0, join.
IpcJoined ==
  /\ main.pc = "join_ipc" /\ ipc.pc = "ended"
  /\ Goto("join_lvgl") /\ lvgl' = "stop"
  /\ UNCHANGED <<appsVars, ipcVars, timers, worker, pending, wrun>>

\* The LVGL thread leaves its loop between two calls of lv_timer_handler.
LvglEnds ==
  /\ lvgl = "stop" /\ lv = Idle /\ lvgl' = "off"
  /\ UNCHANGED <<appsVars, ipcVars, main, timers, worker, pending, wrun>>

\* overlay_destroy: running = 0, one signal without the mutex, join.
LvglJoined ==
  /\ main.pc = "join_lvgl" /\ lvgl = "off"
  /\ wrun' = FALSE /\ Goto("signal")
  /\ UNCHANGED <<appsVars, ipcVars, timers, lvgl, worker, pending>>

SignalWorker ==
  /\ main.pc = "signal" /\ Goto("join_worker")
  /\ worker' = IF worker = "wait" THEN "woken" ELSE worker
  /\ UNCHANGED <<appsVars, ipcVars, timers, lvgl, pending, wrun>>

\* mediaplayer_stop, the display thread and the settings follow (VideoPipeline).
MainDone ==
  /\ main.pc = "join_worker" /\ worker = "ended" /\ Goto("done")
  /\ UNCHANGED <<appsVars, ipcVars, timers, lvgl, worker, pending, wrun>>

MainGoesOn ==
  \/ MainLeaves \/ TimersEnd \/ EachApp \/ MainKills \/ SleepOver
  \/ IpcJoined \/ LvglJoined \/ SignalWorker \/ MainDone

----------------------------------------------------------------------------

\* The LVGL thread takes a request of a client: a reload of the list, or one of
\* another module.
LvglServes ==
  /\ lvgl # "off" /\ lv = Idle
  /\ HelperPops
  /\ IF Head(helperq) = "reload_list" THEN Reload ELSE UNCHANGED appsVars
  /\ UNCHANGED lifeVars

LvglWorks == (lvgl # "off" /\ LvglGoesOn /\ UNCHANGED <<ipcVars, lifeVars>>) \/ LvglServes \/ LvglEnds
TickServes == timers /\ PrtsPops /\ UNCHANGED <<appsVars, lifeVars>>
ChecksGoOn == (CheckFinds \/ CheckClear) /\ UNCHANGED <<ipcVars, lifeVars>>
IpcWorks == IpcGoesOn /\ UNCHANGED <<appsVars, lifeVars>>

Environment ==
  \/ lvgl # "off" /\ UserActs /\ UNCHANGED <<ipcVars, lifeVars>>
  \/ ClientActs /\ UNCHANGED <<appsVars, lifeVars>>
  \/ (SwapCard \/ ChangeDirs \/ Signal \/ \E p \in Pids : ProcessEnds(p)) /\ UNCHANGED <<ipcVars, lifeVars>>
  \/ Schedule

Next ==
  \/ Environment \/ LvglWorks \/ TickServes \/ ChecksGoOn \/ IpcWorks
  \/ WorkerGoesOn \/ MainReaps \/ MainGoesOn

Spec == Init /\ [][Next]_vars

\* Threads run and timers expire; no user, client or application must do anything.
\* One call of lv_timer_handler serves a bounded number of events, so that the loop of
\* the LVGL thread comes to its test again and again, however busy the user is.
Fairness ==
  /\ WF_vars(LvglWorks) /\ SF_vars(LvglEnds) /\ WF_vars(TickServes)
  /\ WF_vars(ChecksGoOn) /\ WF_vars(IpcWorks)
  /\ WF_vars(WorkerGoesOn) /\ WF_vars(MainReaps) /\ WF_vars(MainGoesOn)
FairSpec == Spec /\ Fairness

----------------------------------------------------------------------------
\* Properties.

Ended == {p \in Pids : proc[p] \in {"zombie", "gone"}}
HasLeft == main.pc = "done" \/ (~timers /\ Len(prtsq) = PrtsCap)

\* Once asked to leave, the program does: every join of the shutdown comes back,
\* whatever clients, users and applications do meanwhile. The exception is a client
\* that goes on asking for more than the queue of the PRTS tick takes when that tick
\* is no more. And an application that has ended can be started again: its entry is
\* cleared, unless the program is leaving. It takes the main thread (a zombie answers
\* kill) and the check timer. (One formula, as who leaves never comes back.)
EndsAreReached ==
  (Leaving \/ Ended \cap Tracked # {}) ~> (HasLeft \/ (~Leaving /\ Ended \cap Tracked = {}))

\* When the program has left, no background application runs on, but for those
\* that had slipped away before ("kill all background apps", apps/apps.c:136).
\* It does not hold: README, section 6.
KilledAtExit == main.pc = "done" => \A p \in Pids : Live(p) => p \in lost
=============================================================================
