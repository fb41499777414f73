-------------------------------- MODULE Apps --------------------------------
(***************************************************************************)
(* The application table of apps/apps.c: scanning the two application      *)
(* directories (apps/apps_cfg_parse.c), the map from file extensions to    *)
(* entries (apps/extmap.c), starting and killing applications, and the     *)
(* timer that notices that a background application has ended.             *)
(*                                                                         *)
(* Reloads, launches and kills all run in the LVGL thread (the IPC request *)
(* RELOAD_LIST is sent there); the check timer runs in a thread of its     *)
(* own; only the main thread waits for children.                           *)
(***************************************************************************)
EXTENDS Integers, Sequences, FiniteSets, SequencesExt

CONSTANTS
  Dirs,       \* application directories
  Config,     \* what appconfig.json of a directory says
  Disks,      \* what may be on the disks: application directories in NAND and on the
              \* card, in readdir order, and the extensions of the files a user may open
  Lower,      \* ext_lower_with_check of every extension, or None if it fails
  None,
  AppsMax, ExtmapMax, KillPolls,
  MaxPids,    \* bound: processes ever started
  MaxSwaps    \* bound: changes of the card and of the directories

Version == 1
Screen == "screen"   \* the one of USE_360_640_SCREEN etc. that is defined

Pids == 1..MaxPids

ASSUME AppsAssumption ==
  /\ \A d \in Disks : {d.nand, d.sd} \subseteq Seq(Dirs) /\ IsInjective(d.nand) /\ IsInjective(d.sd)
  /\ \A d, e \in Disks : \A i \in DOMAIN d.nand, j \in DOMAIN e.sd : d.nand[i] # e.sd[j]
  /\ \A d \in Disks : d.files \subseteq DOMAIN Lower \cup {None}
  /\ None \notin Dirs \cup Pids
  /\ \A d \in Dirs : Config[d].exts \in Seq(DOMAIN Lower)
  /\ {AppsMax, ExtmapMax, KillPolls, MaxPids, MaxSwaps} \subseteq Nat

VARIABLES
  disk,      \* what is on the disks
  card,      \* the card is in
  table,     \* apps[0..app_count-1]
  extmap,    \* extmap[0..extmap_count-1]
  lv,        \* what the LVGL thread is doing
  check,     \* what the check timer is doing
  proc,      \* state of every process, as the kernel sees it
  of,        \* the directory a process was started from
  running,   \* g_running
  exitcode,  \* g_exitcode
  armed,     \* the check timer has not been cancelled
  lost,      \* history: processes whose application a reload did not find again, and
             \* those a late store of the check timer hit
  count      \* what the bounds count

tableVars == <<table, extmap>>
procVars == <<proc, of>>
exitVars == <<running, exitcode>>
appsVars == <<disk, card, table, extmap, lv, check, proc, of, running, exitcode, armed, lost, count>>

Idle == [pc |-> "idle"]
Quiet == [pc |-> "idle"]

Live(p) == proc[p] \in {"running", "told"}
\* kill(pid, 0) succeeds for a zombie too.
Exists(p) == proc[p] \in {"running", "told", "zombie"}

AppsTypeOK ==
  /\ card \in BOOLEAN /\ running \in BOOLEAN /\ armed \in BOOLEAN
  /\ Len(table) <= AppsMax /\ Len(extmap) <= ExtmapMax
  /\ \A i \in DOMAIN table : table[i].dir \in Dirs /\ table[i].pid \in Pids \cup {None}
  /\ proc \in [Pids -> {"none", "running", "told", "zombie", "gone"}]
  /\ of \in [Pids -> Dirs \cup {None}]
  /\ lost \subseteq Pids

----------------------------------------------------------------------------
\* Configuration files.

\* The fields cfg_try_load_inner insists on; name, description and icon have
\* defaults.
Complete(c) ==
  /\ c.readable /\ c.version = Version
  /\ c.uuid # None
  /\ c.executable
  /\ c.type \in {"bg", "fg", "fg_ext"}
FitsScreen(c) == Screen \in c.screens
Loads(d) == Complete(Config[d]) /\ FitsScreen(Config[d])

Type(d) == Config[d].type
Uuid(d) == Config[d].uuid

\* Mutant: the last declaration wins.
ExtAddLast(map, ext, i) ==
  IF Len(map) >= ExtmapMax \/ Lower[ext] = None
  THEN map
  ELSE <<[ext |-> Lower[ext], app |-> i]>> \o map

\* apps_extmap_add of one extension for the entry at i.
ExtAdd(map, ext, i) ==
  IF \/ Len(map) >= ExtmapMax
     \/ Lower[ext] = None
     \/ \E k \in DOMAIN map : map[k].ext = Lower[ext]
  THEN map
  ELSE Append(map, [ext |-> Lower[ext], app |-> i])

\* The loop over "extensions".
ExtAddAll(map, exts, i) ==
  LET after[k \in 0 .. Len(exts)] == IF k = 0 THEN map ELSE ExtAdd(after[k - 1], exts[k], i)
  IN  after[Len(exts)]

\* apps_extmap_get: the index of the application, 0 when there is none.
ExtGet(map, ext) ==
  LET hits == {k \in DOMAIN map : map[k].ext = Lower[ext]}
  IN IF Lower[ext] = None \/ hits = {} THEN 0
     ELSE map[CHOOSE k \in hits : \A j \in hits : k <= j].app

----------------------------------------------------------------------------
\* apps_reload.

DirsOf(source) == IF source = "sd" /\ ~card THEN <<>> ELSE disk[source]

Tracked == {table[i].pid : i \in DOMAIN table} \ {None}

\* The background applications that run, by their places.
Snapshot ==
  [i \in {j \in DOMAIN table : Type(table[j].dir) = "bg" /\ table[j].pid # None} |-> table[i]]

\* Mutant: without apps_extmap_init.
ReloadKeepsMap ==
  /\ lv = Idle
  /\ lv' = [pc |-> "scan", source |-> "nand", todo |-> DirsOf("nand"), old |-> Snapshot]
  /\ table' = <<>>
  /\ UNCHANGED <<extmap, disk, card, check, procVars, exitVars, armed, lost, count>>

\* The snapshot of pids, and everything forgotten.
Reload ==
  /\ lv = Idle
  /\ lv' = [pc |-> "scan", source |-> "nand", todo |-> DirsOf("nand"), old |-> Snapshot]
  /\ extmap' = <<>> /\ table' = <<>>
  /\ UNCHANGED <<disk, card, check, procVars, exitVars, armed, lost, count>>

\* One round of the loop of apps_cfg_scan; a full table ends it.
ScanOne ==
  /\ lv.pc = "scan" /\ lv.todo # <<>>
  /\ LET d == Head(lv.todo)
         full == Len(table) >= AppsMax
     IN /\ lv' = [lv EXCEPT !.todo = IF full THEN <<>> ELSE Tail(@)]
        /\ IF ~full /\ Loads(d)
           THEN /\ table' = Append(table, [dir |-> d, pid |-> None])
                /\ extmap' = ExtAddAll(extmap, Config[d].exts, Len(table) + 1)
           ELSE UNCHANGED tableVars
  /\ UNCHANGED <<disk, card, check, procVars, exitVars, armed, lost, count>>

ScanEnd ==
  /\ lv.pc = "scan" /\ lv.todo = <<>>
  /\ lv' = IF lv.source = "nand"
           THEN [lv EXCEPT !.source = "sd", !.todo = DirsOf("sd")]
           ELSE [pc |-> "fill", at |-> 1, old |-> lv.old]
  /\ UNCHANGED <<disk, card, tableVars, check, procVars, exitVars, armed, lost, count>>

\* The pid the snapshot has for a uuid; the first one, or None.
OldPid(old, uuid) ==
  LET hits == {j \in DOMAIN old : Uuid(old[j].dir) = uuid}
  IN IF hits = {} THEN None ELSE old[CHOOSE j \in hits : \A k \in hits : j <= k].pid

\* Mutant: the pids are not given back.
FillForgets ==
  /\ lv.pc = "fill" /\ lv.at <= Len(table)
  /\ lv' = [lv EXCEPT !.at = @ + 1]
  /\ UNCHANGED <<disk, card, tableVars, check, procVars, exitVars, armed, lost, count>>

\* One round of the loop that gives the pids back.
Fill ==
  /\ lv.pc = "fill" /\ lv.at <= Len(table)
  /\ lv' = [lv EXCEPT !.at = @ + 1]
  /\ LET p == OldPid(lv.old, Uuid(table[lv.at].dir))
     IN IF Type(table[lv.at].dir) = "bg" /\ p # None
        THEN table' = [table EXCEPT ![lv.at].pid = p]
        ELSE UNCHANGED table
  /\ UNCHANGED <<disk, card, extmap, check, procVars, exitVars, armed, lost, count>>

\* Of the applications in the snapshot, those the new table does not have.
Missing(old) ==
  {j \in DOMAIN old :
     ~\E i \in DOMAIN table : Type(table[i].dir) = "bg" /\ Uuid(table[i].dir) = Uuid(old[j].dir)}

\* The snapshot is freed, and with it the pids of the applications that are missing.
FillEnd ==
  /\ lv.pc = "fill" /\ lv.at > Len(table)
  /\ lv' = Idle
  /\ lost' = lost \cup {p \in {lv.old[j].pid : j \in Missing(lv.old)} : Live(p)}
  /\ UNCHANGED <<disk, card, tableVars, check, procVars, exitVars, armed, count>>

----------------------------------------------------------------------------
\* Starting and stopping.

\* launch_app_background and the assignment of its result: fork may fail.
LaunchBackground(i) ==
  \/ \E p \in Pids :
       /\ proc[p] = "none" /\ \A q \in Pids : q < p => proc[q] # "none"
       /\ proc' = [proc EXCEPT ![p] = "running"]
       /\ of' = [of EXCEPT ![p] = table[i].dir]
       /\ table' = [table EXCEPT ![i].pid = p]
  \/ UNCHANGED <<proc, of, table>>

\* launch_app_foreground: the start script is written, and the program leaves
\* with EXITCODE_APPSTART for the outer loop to run it.
LaunchForeground ==
  /\ running' = FALSE /\ exitcode' = "appstart"

\* kill_app_background: SIGTERM to the group.
Terminate(p) == proc' = [proc EXCEPT ![p] = IF @ = "running" THEN "told" ELSE @]

\* ui_backend_applist_select on the entry at i: apps_try_launch_by_index,
\* apps_toggle_bg_app_by_index or a warning.
Select(i) ==
  /\ lv = Idle
  /\ \/ Type(table[i].dir) = "fg_ext" /\ UNCHANGED <<lv, table, procVars, exitVars>>
     \/ Type(table[i].dir) = "fg" /\ LaunchForeground /\ UNCHANGED <<lv, table, procVars>>
     \/ /\ Type(table[i].dir) = "bg" /\ table[i].pid = None
        /\ LaunchBackground(i) /\ UNCHANGED <<lv, exitVars>>
     \/ /\ Type(table[i].dir) = "bg" /\ table[i].pid # None
        /\ Terminate(table[i].pid)
        /\ lv' = [pc |-> "kill", pid |-> table[i].pid, polls |-> KillPolls]
        /\ UNCHANGED <<of, table, exitVars>>
  /\ UNCHANGED <<disk, card, extmap, check, armed, lost, count>>

\* Mutant: without the question whether it already runs.
OpenFileTwice(ext) ==
  /\ lv = Idle
  /\ LET i == IF ext = None THEN 0 ELSE ExtGet(extmap, ext)
     IN IF i = 0 \/ Type(table[i].dir) # "bg"
        THEN LaunchForeground /\ UNCHANGED <<table, procVars>>
        ELSE LaunchBackground(i) /\ UNCHANGED exitVars
  /\ UNCHANGED <<disk, card, extmap, lv, check, armed, lost, count>>

\* apps_try_launch_by_file, called by the file manager and the log viewer: a file
\* without an extension, or of one nobody declared, is run itself.
OpenFile(ext) ==
  /\ lv = Idle
  /\ LET i == IF ext = None THEN 0 ELSE ExtGet(extmap, ext)
     IN IF i = 0 \/ Type(table[i].dir) # "bg"
        THEN LaunchForeground /\ UNCHANGED <<table, procVars>>
        ELSE /\ IF table[i].pid # None THEN UNCHANGED <<table, procVars>> ELSE LaunchBackground(i)
             /\ UNCHANGED exitVars
  /\ UNCHANGED <<disk, card, extmap, lv, check, armed, lost, count>>

\* The polling loop of kill_app_background on the record k of its caller: nobody
\* left, another 50 ms, or SIGKILL in the end.
KillReturns(k) == ~Exists(k.pid) /\ UNCHANGED proc
KillWaits(k) == Exists(k.pid) /\ k.polls > 0 /\ UNCHANGED proc
KillForces(k) ==
  /\ Exists(k.pid) /\ k.polls = 0
  /\ proc' = [proc EXCEPT ![k.pid] = "zombie"]

LvglKills ==
  /\ lv.pc = "kill"
  /\ \/ (KillReturns(lv) \/ KillForces(lv)) /\ lv' = Idle
     \/ KillWaits(lv) /\ lv' = [lv EXCEPT !.polls = @ - 1]
  /\ UNCHANGED <<disk, card, tableVars, check, of, exitVars, armed, lost, count>>

----------------------------------------------------------------------------
\* apps_bg_app_check_timer_cb.

\* Up to the kill(pid, 0) that fails, for any such entry: the rounds for the others
\* change nothing.
CheckFinds ==
  /\ armed /\ check = Quiet
  /\ \E i \in DOMAIN table :
       /\ Type(table[i].dir) = "bg" /\ table[i].pid # None /\ ~Exists(table[i].pid)
       /\ check' = [pc |-> "clear", at |-> i, found |-> table[i].pid]
  /\ UNCHANGED <<disk, card, tableVars, lv, procVars, exitVars, armed, lost, count>>

\* Mutant: nothing is ever cleared.
CheckClearNot ==
  /\ check.pc = "clear"
  /\ check' = Quiet
  /\ UNCHANGED <<disk, card, tableVars, lv, procVars, exitVars, armed, lost, count>>

\* The store, which may meet a table rebuilt in between: a live process it wipes out
\* then, another than the one that was found dead, is lost.
CheckClear ==
  /\ check.pc = "clear"
  /\ check' = Quiet
  /\ IF check.at > Len(table) THEN UNCHANGED <<table, lost>>
     ELSE /\ table' = [table EXCEPT ![check.at].pid = None]
          /\ lost' = lost \cup {p \in {table[check.at].pid} \ {None, check.found} : Live(p)}
  /\ UNCHANGED <<disk, card, extmap, lv, procVars, exitVars, armed, count>>

----------------------------------------------------------------------------
\* Processes, the card, and the rest of the world.

\* The application ends, by itself or because it was told to.
ProcessEnds(p) ==
  /\ Live(p)
  /\ proc' = [proc EXCEPT ![p] = "zombie"]
  /\ UNCHANGED <<disk, card, tableVars, lv, check, of, exitVars, armed, lost, count>>

\* waitpid in the loop of main.
ReapAll(pr) == [p \in Pids |-> IF pr[p] = "zombie" THEN "gone" ELSE pr[p]]

\* The card is inserted or pulled.
SwapCard ==
  /\ count.swaps < MaxSwaps /\ disk.sd # <<>>
  /\ count' = [count EXCEPT !.swaps = @ + 1]
  /\ card' = ~card
  /\ UNCHANGED <<disk, tableVars, lv, check, procVars, exitVars, armed, lost>>

\* Over USB or the network, applications are put on the disks or removed.
ChangeDirs ==
  /\ count.swaps < MaxSwaps
  /\ count' = [count EXCEPT !.swaps = @ + 1]
  /\ disk' \in {d \in Disks \ {disk} : d.files = disk.files}
  /\ UNCHANGED <<card, tableVars, lv, check, procVars, exitVars, armed, lost>>

\* A signal.
Signal ==
  /\ running' = FALSE /\ exitcode' = "none"
  /\ UNCHANGED <<disk, card, tableVars, lv, check, procVars, armed, lost, count>>

\* apps_init scans like a reload does, before any other thread exists.
ScanAll(dirs) ==
  LET after[k \in 0 .. Len(dirs)] ==
        IF k = 0 THEN <<>>
        ELSE IF Loads(dirs[k]) /\ Len(after[k - 1]) < AppsMax
        THEN Append(after[k - 1], [dir |-> dirs[k], pid |-> None])
        ELSE after[k - 1]
  IN  after[Len(dirs)]
\* The map it builds meanwhile.
ExtmapOf(t) ==
  LET after[k \in 0 .. Len(t)] ==
        IF k = 0 THEN <<>> ELSE ExtAddAll(after[k - 1], Config[t[k].dir].exts, k)
  IN  after[Len(t)]
AppsInit ==
  /\ disk \in Disks /\ card \in BOOLEAN
  /\ table = ScanAll(disk.nand \o DirsOf("sd"))
  /\ extmap = ExtmapOf(table)
  /\ lv = Idle /\ check = Quiet
  /\ proc = [p \in Pids |-> "none"] /\ of = [p \in Pids |-> None]
  /\ running = TRUE /\ exitcode = "none" /\ armed = TRUE
  /\ lost = {}
  /\ count = [swaps |-> 0]

\* What the LVGL thread does next in an operation it has begun.
LvglGoesOn == ScanOne \/ ScanEnd \/ Fill \/ FillEnd \/ LvglKills
UserActs ==
  \/ \E i \in DOMAIN table : Select(i)
  \/ \E ext \in disk.files : OpenFile(ext)

----------------------------------------------------------------------------
\* Properties.

\* A background application that runs is the one its entry names, so that it can
\* be stopped and is killed at exit, over any number of reloads that find its
\* application again; the processes that slip away are those whose application is
\* not in the new table (its card was pulled), and those a late store of the check
\* timer hits. (What the snapshot of apps_reload is for.)
RunningIsTracked ==
  lv.pc \notin {"scan", "fill"} =>
    \A p \in Pids : Live(p) /\ p \notin lost =>
      \E i \in DOMAIN table : table[i].pid = p /\ table[i].dir = of[p]

\* Between two reloads the extension map leads to the first application in the
\* table that declares the extension, however the table was rebuilt; its pointers
\* are into the array, so an old one would lead to another application.
ExtmapFresh ==
  lv.pc \notin {"scan"} => \A e \in DOMAIN Lower :
    LET declares(i) == \E k \in DOMAIN Config[table[i].dir].exts :
                         Lower[Config[table[i].dir].exts[k]] = Lower[e]
        i == ExtGet(extmap, e)
    IN IF i = 0 THEN Lower[e] = None \/ Len(extmap) = ExtmapMax \/ ~\E j \in DOMAIN table : declares(j)
       ELSE i \in DOMAIN table /\ declares(i) /\ \A j \in 1..(i - 1) : ~declares(j)

\* What a reload of the table leaves true.
TableIsTrue == AppsTypeOK /\ RunningIsTracked /\ ExtmapFresh
=============================================================================
