# Verification models for drm_app_neo

`drm_app_neo` is the C program of an "electronic pass" badge. It plays the video
of an *operator* on the video layer of the display controller, draws an overlay
and an LVGL user interface above it, and lets other programs drive it over a
UNIX socket. It is one process with a dozen threads and no garbage collector:
what is hard about it is which thread still holds what, and who wakes whom; and,
below the threads, what it makes of files and streams it did not write.

This directory holds TLA+ modules translated from the C sources (paths below
are relative to `src/src/`), configurations for TLC, and proofs for TLAPS.
`PROJECT.json` lists the components, the runs, which source lines each
definition stands for, the hazards of the code, the findings and the theorems.

    tlc -workers 2 -config MCSpscQueue.cfg MCSpscQueue     # model-check one run
    tlapm SpscQueueProofs.tla                              # check the proofs

## 1. Inventory

### Threads and how they talk

| thread | started by | what it does |
| --- | --- | --- |
| main | `main.c` | starts the parts in order, reaps children, stops the parts in order |
| LVGL | `render/lvgl_drm_warp.c` | all screens; LVGL timers poll the three UI queues and the UI session |
| IPC | `apps/ipc_server.c` | epoll loop, one request at a time, `ipc_handler.c` |
| timer threads | `utils/timer_backend_posix.c` | one *new* thread per expiration (SIGEV_THREAD): PRTS tick, transitions, overlay frames, layer animations, the check of background applications |
| overlay worker | `overlay/overlay.c` | draws one frame of an effect when asked; drops a request while it draws |
| decoder, pacer | `render/mediaplayer.c` | per session: demux, decode, reorder; hold a frame until it is due |
| display | `driver/drm_warpper.c` | takes what the layers queued, makes one commit of it, gives the old frame back |
| keys | `driver/key_enc_evdev.c` | read by LVGL; muted during transitions |

They talk through instances of one bounded queue (`utils/spsc_queue.c`; despite
its name it has several producers), through timers, and through plain fields
read and written without a lock.

### Components, their state and what makes them correct

| component | state | operations | hard behaviour | correct when |
| --- | --- | --- | --- | --- |
| spsc_queue | ring, head, tail, count, closed | push, pop, try_push, try_pop, close, init, destroy | two condition variables, one signal per operation, several threads a side | no wakeup is lost, close frees everybody, FIFO with the return codes of the header |
| prts_timer | slots with generation, free stack | create, cancel, expiration, destroy | threads of earlier uses of a slot, concurrent last fires, cancels of old handles | no slot lost or shared, the right callback, the budget, the last call is the last |
| ui_modal | session slot, three queues, current screen, dialog callbacks | start, poll, cancel, finish, timeout; warnings; local questions; keys | three threads compete for one screen with requests executed later | an answer belongs to the question on screen, a popup stays until answered, deadlines end |
| screen_manager | current screen, pending swap, curtain, moves of the plane, muted keys | show, swap, retract, rebuild, park, keys | requests that cut into a transition; two threads move one plane | it comes to rest where it was asked to, and keys come back |
| lists | window, bound slots, focus group, the operator picked up | focus, long press, move, leave, reload | a call back of LVGL rebinds the slot it is about | what is seen is what is selected; a key is one step |
| video_pipeline | DPB flags, ring, two queues, `curr_item`, `needs_full_mount`, counters | decode, pace, commit, recycle, play, stop | hand-over of buffers through five places, sessions that inherit each other's items | no buffer written while shown, none lost, no starvation |
| display | device, buffers, planes, a queue of requests per layer | bring-up, mount, coordinates, alpha, frames, commit, disable, destroy | one commit for all; the kernel takes it whole or not at all | each plane ends where it was asked to; a failed bring-up leaves nothing |
| h264 (bits, parser, DPB) | reader, parameter sets, slices, POC, reference lists | one access unit after the other | conditions of the syntax, wraps, boundaries | headers, order and references are those of the standard |
| mp4_demux | boxes, sample table | open, next sample, seek | tracks that are rejected half-way | samples are where the tables say |
| vdec_v4l2, sdrot, sessions | descriptors, buffers, maps, requests, framebuffers, threads | open, decode, flip, close | some thirty calls that may fail | nothing leaks; nothing is used while somebody has it |
| overlay | worker, `overlay_used`, `request_abort`, effects; elements, groups, two buffers | show, swipe, fade, move, abort; one frame | polling hand-shake; partial redraws | the screen is what drawing from scratch gives; the curtain covers the change |
| pictures, palette | index and palette files, pools, lookup tables | load, quantise, dither, store, show | files that are replaced or cut off; one palette for all | what is shown comes from the picture as it is, in colours of its palette |
| prts | operator table, index, state, request queue, suspension | tick, request, switch in two stages, reload, reorder, boot animation | a switch is a chain of timers and callbacks, none of which holds a lock | the chain ends, shows what is selected; reloads are honoured |
| operators | configs, entries, order file | scan, load, order, save, move, free | half-good configs, cards, power cuts | only what can be played is in the table; each once, in the user's order |
| apps, ipc_server, main | application table, pids, extension map; connections; who has been stopped | reload, start, kill, check; accept, serve, close; leave | `fork`, timers against reload, descriptors that are reused, joins in an order | running programs stay known, answers meet their requests, leaving ends |
| settings, battery, sysinfo, helpers | files | read, write | mostly sequential | see `PROJECT.json` |

`PROJECT.json` has every component with its sources, also those without a model
and why.

## 2. Modules

    BoundedFifo  <--- implements ---  SpscQueue  <- SpscQueueProofs     (MCSpscQueue)
    PrtsTimer  <- AssetProofs                                            (MCPrtsTimer)
    UiModal  <- UiModalProofs                                            (MCUiModal)
    Overlay  <- Prts  <- PrtsProofs                                      (MCPrts)
    VideoPipeline  <- VideoPipelineProofs                                (MCVideoPipeline)
    Apps, IpcServer  <- Lifecycle  <- LifecycleProofs                    (MCLifecycle)
    Screens | Lists | Display  <- ScreensProofs                          (MCScreens)
    RefMarking   <--- implements ---  H264Dpb                           (MCH264Dpb)
    H264Dpb | DecodeSession  <- DecodeProofs
    H264Parser  <- H264Stream
    BitReader | H264Stream | H264Dpb | Mp4Demux | DecodeSession          (MCDecode)
    Catalogue | Opinfo | Arknights | Transitions | Pictures  <- AssetProofs
    Catalogue | Opinfo | Arknights | Transitions | Pictures              (MCAssets)

`A <- B` means that B extends A. `A | B` stand beside each other in one run: they
share no state, a variable (`layer`, `part`) chosen in the initial state says
which of them a behaviour is about, and the others do not move. A property of
one is then trivially true in the behaviours of the others, and the state space
is the sum of theirs, not the product.

In the modules above the queue and the timers, the queue is used as what
`BoundedFifo` says (a push waits for room, a pop for an item), and a timer as
what `PrtsTimer` shows.

Most modules keep deliberately wrong versions of some definitions next to the
right ones, each marked "mutant": replacing the definition by it breaks a
property. `PROJECT.json` lists one for every property that a run checks; a
property that is a conjunction of named parts has more of them in its module,
one for each part that needs its own. They show that the properties depend on
the code, and are used by nothing else.

### SpscQueue (utils/spsc_queue.c) and BoundedFifo

Each critical section is one action; a wait is a pair of actions, because
`pthread_cond_wait` gives the mutex up: `CallPush` enters, `PushWait` sleeps,
`PushClosed` and `PushItem` leave, and the same for pop. `pc` says which
condition variable a thread sleeps on. `Signal` wakes any one waiter, or nobody;
`SpuriousWakeup` wakes one without a reason. `Close` broadcasts on both. `Destroy`
needs that nobody is inside, as the header says. `BoundedFifo` is the promise of
`spsc_queue.h`: no ring, no mutex, an accepted item is appended, a closed queue
is drained and then says EPIPE. The refinement mapping rebuilds the sequence
from the ring.

### PrtsTimer (utils/timer.c, timer_backend_posix.c)

A "use" is one call of `prts_timer_create` with its callback and userdata.
`Expire` is the kernel starting a thread that carries the slot number and 16
bits of the generation; `OnFire` / `Drop` is the part of `prts_timer_on_fire`
under the mutex; `CallCallback` and `CallbackReturns` come after the unlock, so a
cancel, an auto-free and a reuse of the slot fit in between. Generations wrap at
`GenMod`, tags at `TagMod`, and a tag is never 0. The variable `punctual` says
whether callers keep to the obligation of `timer.h` that a callback is shorter
than its interval; behaviours of both kinds are checked, and only `LastIsLast`
assumes it.

### UiModal (ui/uix_session.c, ui/ipc_helper.c, ui_services_device.c, screens)

The only session slot, the three queues to the LVGL thread (`helper`, `warn`,
`confirm`), the confirm screen with the session it shows and its callbacks, the
USB screen, `g_uix_shown_id`. IPC handlers and LVGL callbacks are atomic: each
takes at most one lock others compete for; a blocking push is a step of its
own, and its thread does nothing else until there is room. All other screens are
one "menu", and a screen is there at once. Time is two flags: the deadline
passed, the warning has rested.

### Screens (screen_manager.c, layer_animation.c, key_enc_evdev.c)

How a screen gets there. `ScreenShow` starts a dip of the plane and a timer; when
that fires, `SwapCb` changes the content behind the curtain and starts the rise
and the curtain's animation, whose end, `RetractDone`, lets the keys in again.
The interface draws into the buffer that is scanned out, which is why the
curtain exists. A request in the middle of this only changes the target
(`Retarget`). Each move of the plane is a list of steps with the time each is
due; several may run at once, since none is cancelled. `Tick` is 50 ms of the
LVGL thread. Keys come from several devices, one of which may hold one down
when the muting begins (`ReadMuted` lets go of it, `Released`). Fast and slow
machines are `Late`: a timer of the LVGL thread may be that much late.

### Lists (screen_oplist.c, screen_applist.c)

The slots (eight for operators, twelve for applications, five in the run) are
bound to the entries in view. Each operator is the whole of what
one call does, with the calls back of LVGL it causes: `Focus` moves the focus and
calls `SlotFocused`, which may slide the window, rebind the slots and move the
focus again. Moving a picked operator (`MovePicked`) rewrites the table of
`Prts`; a rescan (`Rescanned`) changes it from elsewhere.

### VideoPipeline (render/mediaplayer.c, vdec/h264_dpb.c, driver/drm_warpper.c)

A frame is the pair of its session and its slot, as in the `userdata` of an item
(`Hand`). The DPB is reduced to the flags that decide whether a slot is free;
which pictures remain references is nondeterministic within `MaxRef`. The display
thread is three steps, drain, commit and recycle: between them `curr_item` and
`needs_full_mount` are read and written by others. A stop is six steps, as in
`mediaplayer_stop`: request, join, settle, disable, remount, close.

### Display (driver/drm_warpper.c, overlay_init, lvgl_drm_warp_init)

The other side of the commit: three layers with their queues. `InitStep` is a
step of `drm_warpper_init` that works or fails, and what it gives back;
`NothingToDrive` is the failure after a list of resources without a CRTC or a
connector, which gives back the descriptor and not the list.
`StartLayer` creates a buffer (whose failure the callers do not look at) and
mounts a plane. `DisplayDrains` takes the last request of each kind of every
layer, `Commit` applies them if the kernel would (`Valid`: one plane that lets
another through, a frame for a plane that is on), `Refused` is the kernel's own
reason. `Disable` switches the video off beside the display thread.

### H264Dpb and RefMarking (vdec/h264_dpb.c, the loop of render/mediaplayer.c)

`H264Dpb` decodes any conforming stream of frames into slots: `BeginIdr` and
`BeginFrame` take one, `EndFrame` marks references (sliding window or MMCO),
`Output` hands the picture of lowest POC to the display, `OffScreen` brings one
back. What the stream may do is in guards marked "stream"; the encoder's side of
a list modification (`Encoded`) is the inverse of what the code decodes.
Every picture carries its true number among the references, `n`, which the code
does not have: the code has `frame_num`, `n` modulo `MaxFrameNum`. A slot is
`used` exactly while one of its three flags is set, so the flags are sets and
`used` is their union. Reference lists are functions of the state, because the
code keeps nothing of them. `RefMarking` says what marking means without slots
and without a number that wraps.

### BitReader, H264Parser, H264Stream (vdec/bitreader.c, nalu.c, h264_parser.c)

Two layers of one component. `BitReader` is about bits: the cache, the emulation
prevention bytes, `br_more`, and the splitting of an access unit, read in pieces of
any width and compared with the bits of the payload. `H264Parser` is about
syntax elements: an order of names, and for each the condition under which it is
read; a reader that asks for another element than comes next is out of step for
the rest of the unit. `H264Stream` is an encoder that writes the syntax tables
of the standard, `Send...`, hands each unit to the parser as `mp_decode_au` does,
and keeps what it meant: headers, picture order count, scaling lists.

### Mp4Demux (vdec/mp4_demux.c)

A box is its type, how its size is written, and its body; a table has the count
it declares and the rows that lie inside the box. `PickTrack` and `ParseTrak` keep
the code's order of writing into the demuxer, so that a track that is rejected
half-way leaves what it leaves. `ReadSample` with `PullCard`.

### DecodeSession (render/mediaplayer.c, vdec_v4l2.c, sdrot.c)

What a session owns. The steps of opening the demuxer, the decoder and the rotator
are three *ladders* of resources; opening fails after any step `k`, and
`VdecAfter` says what the code's error path has then given back. `held` is what
the process really holds, a context what its structure says; `wrong` counts the
descriptors a close took that were not its own. `Decode` and `FlipOutput` have
the outcomes of a picture, with what each leaves queued.

### Overlay and Prts (overlay/*.c, prts/prts.c)

`Overlay` has the worker, the abort hand-shake and the life of the effects; each
holds the index of a table entry and the ghost flag `live`, which `Rebuild`
clears when the entry is freed. `Prts` has the tick, a chain of program counters
because `overlay_abort` and `Stage2` come between; the one-shot timers of a switch as a
sequence of which any may expire; the boot animation; moves from the UI; and the
IPC transition, which aborts the overlay from another thread.

What it assumes of time, each at the action that needs it: a tick takes less
than 0.5 s and less than half its period (`TickStart`, `Stage2`), and a late
callback of an effect that has ended is over 0.5 s later (`NoneLate`).
`LateTicks` says which effects may have late callbacks at all; the swipe is
left out of it, because it has no guard against them (section 6).

The history variable `disturbed` becomes true when a switch is *disturbed*: a
second switch, a reload or a suspension begins before the second stage of the
first, two threads are inside `overlay_abort`, or the UI rearranges the table in
the middle of a switch. The code has no lock for these, and what then happens is
in section 6. With `GoOn = FALSE` behaviours end there, and the run says what
holds as long as it does not happen.

### Opinfo, Arknights, Transitions, Pictures (overlay/*.c, render/c8pal.c, fbdraw.c)

What the effects draw. In `Opinfo` a cell of the screen is a square of pixels and
holds the sequence of inks that were blended there since something opaque was
written, in the shadow buffer and in the one that is scanned; `Frame` is
`engine_compose`: every element takes its step (`Advance`), then each group with
a dirty member is cleared, redrawn and copied. `Arknights` is the fixed pass with
its counters. `Transitions` has fades and moves as sets of timers, each running
its callback up to `Late` after it is due, and the swipe as a worker that drops
requests while busy. `Pictures` goes from a picture's pixels to what is on the
screen: scaling, median cut, dithering, the two cache files (which a power cut
may separate, and a replaced picture makes old), the pool of colours of the
owner, the one palette of the plane and the lookup tables filled on demand.
A colour is alpha and one value.

### Catalogue (prts/operators.c, the table of prts/prts.c)

From a config to an entry: every parser of `operators.c` as an operator that
answers a result or a refusal, with the defaults. Then the table: `Reload` scans
flash and card, keeps the loadable, falls back when there is none, reads the
order file and applies it along the cycles of the permutation; `OrderSave` may be
cut short (`Torn`). An entry carries the operator that was parsed (`Accepted`).
The fallback that is installed (`spare`) becomes an entry also when its config is
refused, with what the refusal left in it (`Remains`), as in `prts.c:629`.
`heap` counts the element lists that are allocated for each directory: reading a config,
accepted or refused, adds what it leaves (`Leaves`, that is `Allocates` without
`Frees`), freeing an entry takes away what it owns.

### Apps, IpcServer, Lifecycle (apps/*.c, main.c)

`Apps` is the table with the scan, the reload and its old pids, the map of
extensions, starting and killing (a kill polls, then forces), the processes with
their zombies, and the check timer, which finds first and clears later. Directories
come and go with the card (`SwapCard`) and by other ways (`ChangeDirs`). The history
variable `lost` has the processes the program loses and the theorem excepts: at the end
of a reload those of the snapshot whose application is not in the new table
(`Missing`, told by the uuids alone and not by what `Fill` did), and those whose pid a late
store of the check timer wipes out.
`IpcServer` is the epoll loop over batches of events, the lowest free descriptor,
message sizes, and for each type of request what it may answer and into which
queue it blocks. `Lifecycle` adds the main thread: reap, look at the reasons to
leave, and stop timers, IPC, applications, LVGL thread and worker in the code's
order, each join waiting for its thread.

## 3. Runs

Every passing run finishes on its whole state space.

| run | instance | distinct states | result |
| --- | --- | --- | --- |
| `spsc_queue` | 1 producer, 2 consumers, 2 items, capacity 2 | 42 thousand | holds |
| `timer_slots` | 2 slots, 2 uses of 1, 2 or endless fires, 2 threads under way each, callbacks punctual or not, gen and tag mod 4, fair | 385 thousand | holds |
| `ui_modal` | 2 sessions, 1 warning, 1 power key, 1 forced screen, queues of 2, fair | 538 thousand | holds |
| `screens` | 5 screens, 2 requests, 2 presses on 2 devices, 1 tick late, fair; lists of 0, 2 and 6 entries in 5 slots, an operator carried 3 times, a rescan; 3 planes with 2 requests for each but that of the UI, a refusal, a stop | 764 thousand | holds |
| `video_direct` | 2 sessions, 3 slots, no pacer, faults, impatient stops | 811 thousand | holds |
| `video_live` | 2 sessions after an earlier one, 4 slots, pacer, fair | 348 thousand | holds |
| `prts_switch` | 2 operators, 2 tables, every kind of input, 4 inputs, fair | 118 thousand | holds |
| `decode_input` | access units of up to 5 bytes after the header; 5 parameter sets, up to 36 pictures; files of 1 or 2 tracks; 2 references, 2 long-term indices, frame_num mod 3, GOPs of 5; 2 sessions of 3 streams on 3 sizes of memory | 489 thousand | holds |
| `lifecycle` | 4 applications on flash and card, 2 processes, a card pulled once or the directories changed once, 2 clients with scripts, table of 2, fair | 478 thousand | holds |
| `assets` | over a thousand configs; 5 directories, a card, two fallbacks of which one is refused (without a card then), torn order files; 300 lists of 2 or 3 elements on 5 by 4 cells for 14 frames; the arknights pass; 3 transitions of 7 durations; 3 pictures in 2 versions, 4 owners, 10 palette entries | 36 thousand | holds |
| `dpb_move` | 3 references, nothing reordered | - | violation |
| `assets_leave` | as `assets` | - | violation |

What the passing runs show:

* `spsc_queue`: `NoLostWakeup`, with one signal per operation nobody sleeps next
  to an item or a free slot that has no awake taker; `CallsReturn`, every call
  returns after a close, and a call that can go on does; `ImplementsFifo`, the
  refinement. Two consumers and a try_pop are the smallest case in which a signal
  can reach the wrong thread; capacity 2 makes the ring wrap.
* `timer_slots`: `SlotPartition`, a slot is active or free, once; `StaysArmed`,
  no old handle, stale thread or failed create ends a timer; `CallbacksTrue`, a
  late thread never runs the next user's callback (`OwnExpiration`), and with
  punctual callbacks the one flagged last is alone, so it may free the userdata
  (`LastIsLast`); `FireBudget`, exactly the n-th callback is flagged last;
  `QuietAfterCancel`; `TimerCompletes`. Free numbers are a stack, so the second
  use gets the slot of the first while its threads are under way; with the
  modulus 4 generation and tag wrap in that second use.
* `ui_modal`: `AnswerMatchesPopup`, a session gets an answer only while its own
  popup was on screen; `PopupShown`, no request to show a session is swallowed by
  an earlier one, and warnings and queued questions never displace a popup;
  `QuestionsEnd`, deadlines end sessions and the shutdown question is asked.
  Queues of two fill up. Power keys and warnings stay below the capacity: beyond
  it the code deadlocks (section 6). Only sessions with deadlines are opened,
  without one a user may keep a popup for ever.
* `screens`: `ScreensRest`, keys are muted and the curtain is down as long as a
  change is on its way, and when all rests the screen asked for last is loaded,
  the plane where it belongs, the curtain up, the keys back, and no key that was
  let go meanwhile is taken for pressed; `InputReturns`. Two requests
  suffice for one to cut into the dip or the rise of the other, with a key that
  asks for a third. `WhatIsSeenIsSelected` and `OneByOne` for the lists: six
  entries are one more than the slots, so that the window slides; two leave slots
  empty. `PlanesAsAsked`: each plane but the video's is where, and as opaque as, its layer asked
  last, and the kernel refuses nothing for the program's fault except around a stop
  of the video; a display that failed to come up or was closed holds nothing, but for the
  list of resources of one that has nothing to drive (section 6).
* `video_direct`: `FramesAccounted`, a slot is held exactly as long as an item
  of this session carries it, wherever it is, and the counter the stop waits on
  is the number of items, over sessions.
* `video_live`: `ScreenKept`, the decoder never writes a buffer that is, or is to
  be, shown, and the display thread never waits for it; `FramesKeepComing`;
  `StopTerminates`. It starts after one session that was shown (`InitShown`):
  its left-over item and the remount flag make that the general case. Four slots
  are one reference, one being decoded, one in the pacer and one on screen; the
  code allocates more.
* `prts_switch`: `RequestsSettle`, the chain of timers, worker and callbacks never
  breaks, and reloads are honoured; `SwitchIsTrue`, when it is over, index, table
  and video agree, and nobody has used an entry of an old table. Operator A has an
  intro, a swipe and an engine opinfo, operator B as little as possible and an
  arknights opinfo, so that both arms of every condition are taken. Four inputs
  allow a move and a reload during a switch that a request started.
* `decode_input`: `InputRight`, that is `ReadsRight`, the bits and codes, and `StreamRight`, headers, POC of all three types
  (over wraps of their low bits, hence 36 pictures) and scaling lists with their
  fall-back; `FileRight`, each sample is at the place and of the size the tables
  of the accepted track say, and fits the buffer; `SessionClean`, whatever step
  fails, a closed session holds nothing, and no buffer or request is touched while
  the driver has it; `PicturesInOrder`, always a slot and output in display
  order; `RefListsRight`, lists in the order of decoding and of display, and moves
  that find the pictures the encoder meant; `ReferencesRight`, the refinement, and
  marking across the wrap of frame_num. GOPs of five with frame_num modulo three make a list straddle
  the wrap; slots still on screen make decoding order and slot order differ. A
  picture carries at most one MMCO here; the module allows longer lists.
* `lifecycle`: `TableIsTrue`, every background application that runs is the one its
  entry names, over reloads, and the map of extensions leads to entries that exist
  (except those in `lost`, section 6); the directories that change once move an
  application to another place of the table while it runs, which a reload has to follow;
  `AnswersInOrder`; `EndsAreReached`, leaving ends, and an entry whose process
  died can be started again. The instance is split: applications in the background
  and a card, where two entries have pids that a reload must not mix up and the
  table of two is full; an application that takes the screen; clients and no
  applications. Each has the main thread.
* `assets`: `CatalogueSound`, only what can be played is accepted and comes into the
  table, but for a fallback that is refused itself, and of the element lists that were
  allocated for configs, accepted or refused, exactly those are on the heap that entries own, once; `OrderHolds`, each loadable directory once, in the saved order as
  far as it is known, new ones behind; `ScreenIsReference`, partial redraws equal
  drawing from scratch; `EndsComplete`, a list that ended is on the screen in full;
  `PassIsWhole`, the same of the arknights pass; `ChangesHidden`, the video changes
  only while the plane covers all of it, and the effect ends with the plane out of
  view, for timers that are late by less than a step; `EffectsEnd`, a list without a loop and every transition come to their end
  (`PlaysToEnd`, `TransitionEnds`);
  `PicturesHold`, what is loaded is what the picture as it is now gives, the owner in
  view has his colours in the palette, and what was looked up is near in this
  palette, not in an earlier one. Lists of three make
  groups of three out of overlaps of two; durations around `StepTime`, `FrameTime`
  and their multiples make middle and end fall on and between the steps.

Deadlock is checked in `spsc_queue`; the other systems may come to rest, because
users, clients and players may stop.

### Fairness

Threads run: each has weak fairness for its own steps (`Push` and `Pop` in
SpscQueue, decoder, pacer, display and stop in VideoPipeline, worker, tick and
IPC handler in Prts, IPC, LVGL, main and worker in Lifecycle). It is weak, since
each step stays enabled until it is taken; the one exception is `LvglEnds`, which
is strongly fair: one call of `lv_timer_handler` serves a bounded number of
events, so that the loop comes to its test again and again, however busy the
user is. Armed timers expire and LVGL timers fire (`Tick`, `SwapCb`, `RetractDone`
in Screens, the transitions and frames in MCAssets), which the kernel and LVGL's
loop give. No user, client or input is ever fair; nobody need play, stop or
press. Mutex fairness is not needed: critical sections are single steps.

## 4. Findings

| run | what the code does | what is said of it |
| --- | --- | --- |
| `dpb_move` | the shift of `modify_list` drops the last entry of a full list before the duplicate: moving B of [C, B, A] to the front gives [B, C, B] | `vdec/h264_dpb.c:194`, `230`: 8.2.4.3, drop the later duplicate |
| `assets_leave` | the engine ends when all elements are done; one whose animation is over is done before its end frame, and stays on the screen | `overlay/opinfo.h:78`: from its end frame on the element is hidden |

Others of the same kind, for which there is a property but no run, are at the
head of section 6.

## 5. Proofs

TLAPS checks them for every value of the constants. Assumptions are the named
`ASSUME`s of the modules, which TLC evaluates in every run.

**SpscQueueProofs**, for any capacity and any finite sets of producers and
consumers:

* `TypeCorrect`: `Spec => []TypeOK`; in particular the indices stay in the ring.
* `ClosedWakesAllCorrect`: `Spec => []ClosedWakesAll`, nobody sleeps on a closed
  queue. Inductive as it stands: the loop conditions test `closed` in the critical
  section that goes to sleep. It is the safety half of `CallsReturn`.
* `NoLostWakeups`: `Spec => []NoLostWakeup`. It compares `count` with the
  number of awake threads in pop (and the free slots with those in push). It is
  inductive with `TypeOK`; each step needs the cardinalities of the sets it moves
  one thread between, which the lemmas on `Signal` provide.
* `NoMutualSleepCorrect`: sleepers on both sides leave somebody awake; from
  `NoLostWakeups` and `Capacity > 0`.
* `Refinement`: `Spec => ImplementsFifo`, every step is a step of `BoundedFifo` or
  stutters. The mapping rebuilds the sequence from the ring; `TailFollows` (the
  tail is `count` places behind the head, modulo the capacity) makes a store an
  append and a take the removal of the first; `Carrying` says that a thread in
  push still has the item it came with, also when a signal wakes it, and
  `DeadEmpty` that a queue that is initialised again starts empty.

**AssetProofs**, of the timers and of what they put on the screen. PrtsTimer, for any
number of slots and uses, any widths, and callbacks however late:

* The inductive invariant `IInv` is the types, `SlotPartition`, `KnownOnly` (only a
  created timer is armed, fires or is cancelled), `Owned` (an active slot names a
  use whose handle names the slot and its generation, and which nobody
  cancelled), `Owes` (what remains of a budget is what has not fired) and
  `FireBudget`. `SlotPartition` alone is inductive but for the overflow test of the
  free stack, which needs a pigeonhole argument (`RoomForOneMore`). `FireBudget`
  needs `Owes`, and `Owes` needs `Owned`: two uses must never own one slot.
* `SlotPartitionCorrect`, `FireBudgetCorrect`, `QuietAfterCancelCorrect` follow;
  none needs a bound on the generations.
* `StaysArmedCorrect` needs one: `NoWrap`, fewer than `GenMod / 3` timers in the
  life of the process (2^32 / 3 in the code). `GenBound` counts at most three
  increments per use; `GenOrder` says that a handle no longer in force has a
  generation of the past, so that a cancel of it matches nothing. The run
  `timer_slots` lets the generations wrap, and shows it for two uses without
  that assumption.
* `CallbacksTrueCorrect`: a callback is that of the timer whose expiration started
  its thread (`OwnExpiration`), and with punctual callers the one flagged last is
  alone (`LastIsLast`). `sival_int` carries 16 bits of the generation, so besides
  `NoWrap` it needs `TagsApart`: while a thread of a timer waits for the mutex, its
  slot is not given out so often that the tag comes round (`TagMod / 3` times,
  some 22 thousand in the code, within the time a thread takes to get a mutex).
  The theorem is `Spec /\ []TagsApart => []CallbacksTrue`. `Generations` says that
  the generation of a slot never falls behind that of a handle; `SameTag` that
  then equal tags are of equal generations; `OneAtATime` and `LastEnds` count
  expirations, threads and fires of a punctual timer.

The effects of the overlay:

* `PassIsWholeCorrect`: `ArkSpec => []PassIsWhole`, for any texts, and any table of the
  frames at which a part begins and how often it steps. `ArkInv` has for each part
  what is drawn after so many of its steps, and `OnTime`: a part that is not done has
  its next multiple still before it. So a part that is done by the last frame is
  whole, and none misses a step because the frames are counted and never skipped.
* `ChangesHiddenCorrect`: `TrSpec /\ EvenPicture => ChangesHidden /\ []CalledOnce`, if
  timers are late by less than a step and less than a frame (`TimersPunctual`), for any
  duration and width. In a fade or a move two animations of many timers and three
  callbacks run beside each other. `Steps` says of each animation that its last timer
  is on its way or the plane is where that one puts it, which it is only because every timer of
  the animation was due before it; `AnimationSteps` gives the due times, a
  count of `duration \div StepTime` which does not divide evenly. `Swiping` is that of the
  swipe, where a worker paints from where the frame before ended: all of the screen
  is painted when it is told to change what is behind. A picture of odd width
  breaks that (`EvenPicture`, section 6); TLC shows it with `ImageWidth = 3`.
* `EndsCompleteCorrect`: `EngineSpec(lists) => []EndsComplete`, for the lists the parser
  of Catalogue makes of any configs (`FromParser`), any screen, fonts and images. `EngineInv` has for every
  element without an end frame that what the animation did so far is within its
  range, and that an element is done only with its animation complete and the element
  seen (`Keeps`). Each of the twelve animations keeps it; `ParserAccepts` says that the
  parser gives those that need one a speed, without which they would never be
  done, or be done at once.

And what the directories hold:

* `CatalogueSoundCorrect`: `CatSpec => []CatalogueSound`, for any configs, any
  directories and limits. `TryLoadPlays` follows the parsers of `operators.c` from the
  parts of a config to the entry. The inductive invariant `CatInv` says that the table
  holds entries so made or the remains of the fallback (`Served`), and that the heap has
  the lists they own, one each (`ElementsOwned`). Of a config `LeavesIs` shows that reading it
  leaves a list exactly if it was accepted and its entry owns one, by way of each place
  where it can be refused after the allocation. So a load, which frees what the old table
  owned and adds what each directory it read left, comes to what the new table owns
  (`FoundLeaves`; of the directories that were read those that were accepted are in the
  table, `TriedIs`), and the room it reserves is enough (`FoundFits`). This is before the entries change places, and there the proof rests on
  `PermIs`: whatever lines the order file has, `prts_order_apply` makes a
  shuffle of the places (no place twice by `PlaceIs` and `CompletedIs`; as many as there
  are, by a count), and a shuffled table owns what it owned (`SameOwners`). What the
  three loops compute is not found by induction over data but from the set of numbers up to
  which it holds, which has everything in it because its complement would have a least
  member (`UpTo`), and by the same argument there is such a function (`StepByStep`).
* `OrderHoldsCorrect`: `CatSpec => OrderHolds`, both of its action properties. From `CatInv`
  the directories of flash and card are all different, so a scan finds each once (`LoadableOnce`)
  and a shuffle keeps the count. For the order, `TakenByLine`: what is placed after
  `k` lines was named by one of them; `PermExtends`: it keeps its place. So at the first line that
  names an operator whose identifier no other has, all that was named before is
  placed, the operator is not, and it comes behind (`BehindNamed`). There is room for it, as
  a full list would be the whole shuffle and have it.

And the pictures:

* `PicturesHoldCorrect`: `PicSpec(cast, writable) => []PicturesHold`, for any pictures
  and replacements of them, any owners, medium and size of the palette. `PicInv`
  says of the files that each that can be read holds what the picture of its version is
  cut down to (`FilesHold`): whatever a power cut leaves of a store keeps that
  (`StoredHold`), and a hit takes colours and indices of one version, so what is read is
  what would be computed (`NextLoaded`). Of an owner it says that pool and pixels are
  those of a fresh load of the same versions (`KeptTyped`), that the pool has grown from his own colours
  and is within its room, and that every visible pixel is in it (`InPool`); of the palette
  that the pool of the owner in view is in place, and of the tables that each entry is
  near in this palette (`InPlace`). Below it are lemmas about what `c8pal.c`
  computes: scaling picks pixels of the picture (`RescaleIs`), the cuts leave no box empty and
  the mean of each is a colour (`CutIs`, `MeanIs`), dithering gives every pixel an index of
  the palette (`DitheredIs`), and a pool keeps what it has and gets all that is offered
  unless it is full (`PooledIs`). A picture is scaled in one way wherever it is
  used, as the config of its directory has one size; with a size that changes twice
  the files can mix (section 6).

**VideoPipelineProofs**, for any number of slots, sessions and places in the
queues, with faults and stops that give up waiting, from a fresh start or after
a session that left its frame on screen. The argument is that of accounts: every
step moves frames between places, makes one of a slot that carries none, or
takes the free queue out of circulation.

* `FramesSafe`: `[]FramesAccounted`. The inductive invariant has besides
  `HeldWhileTravelling` and `CountsInFlight` (the two halves) `OnePlace` (an item is
  at one place of one queue, once), `Session` (where the decoder is, against the
  stop in progress), `NoneToCome` (no item of a session that has not begun),
  `Slotted` (a slot being decoded is held for nothing else) and `Shown` (the plane
  shows the item `curr_item` names, or will after this commit). `inFlight` is the cardinality of the set of
  items under way, so each step comes with the cardinality of what it adds or
  takes.
* `NoTearingSafe`: the decoder never decodes into a buffer that is shown or queued
  for the screen; from the same invariant.
* `ScreenSafe`: with `Roomy`, a free queue with one place more than a session has
  slots, and stops that wait for their frames, the display thread never waits for
  the decoder. `FewLeft` says that at most one frame of earlier sessions is
  around. `drm_warpper.c` gives the queue the largest number of buffers and four.
* `TypeCorrect`: in particular `items_in_flight` is never negative.

**UiModalProofs**, for queues of any capacity and any number of sessions, warnings
and keys:

* `AnswerMatchesPopupCorrect`: `Spec => AnswerMatchesPopup`, provided no client
  switches to the confirm screen (`NoForcedConfirm`). `IdsOld` says that ids are
  not given twice, and `ShownIsAsked` that a confirm screen with the callbacks of
  a session shows the session `g_uix_shown_id` names, and that it is a question.
  Without the assumption the invariant is not inductive, and the step that breaks
  it is one of the code: section 6, `ConfirmedByPicking`.
* `PopupShownCorrect`: a pending session is announced, and only the user or the
  client takes its popup away, provided the IPC thread has memory for its request
  (`EnoughMemory`; without it the session waits for its deadline, section 6).
  `ShownAgain` is the invariant: behind every request to dismiss a popup in the
  queue, or in the hand of the IPC thread, there is one to show the session that
  is pending by now. It needs that only the IPC thread puts requests into that
  queue (`HelperOnly`).
* `TypeCorrect`: in particular no queue grows over its capacity.

**PrtsProofs**, for any tables of operators, any transitions, inputs and numbers
of them:

* `TypeCorrect`: whatever is asked, moved, lost and reloaded, the index is one of
  the table, and a tick schedules no switch without an operator. It holds of
  disturbed switches, too.
* `SwitchIsTrueCorrect`: `Spec => []SwitchIsTrue`. The inductive invariant `UInv` says of
  an undisturbed program (`~disturbed`) that it is in one of four phases: the boot
  animation, an operator chosen and its second stage 0.5 s away, the timeline
  running, or at rest (`Phase`); that late requests for a frame are of the effect
  that runs, of an engine that ignores them, or will be dropped (`Late`); and that
  the worker draws the effect that runs, of an entry that was not freed
  (`Drawing`). Each of the timers, of the steps of the tick and of the worker, and
  every input is shown to lead from a phase to a phase, or to disturb. A first
  version, in which `request_abort` was down whenever no abort was going on, was
  refuted by TLC: a transition of type none leaves it up. The theorem assumes that
  no request of a swipe for a frame is late, since the swipe has nothing that
  stops it (`transitions.c:370`, section 6).

**LifecycleProofs**, for any number of clients, whatever they send, and queues of any
capacity; for any directories, cards, users and processes:

* `AnswersInOrderCorrect`: `Spec => []AnswersInOrder`. The inductive invariant has
  besides the types `OneConnection` (a client is in the backlog once, or behind one
  descriptor, or nowhere), `OwnEvents` (what is left of a batch is about descriptors
  that are still those of the clients it was reported for, each once, and a hang-up
  is of a client that left), `ServedRightly` and `Accounted` (what a client has sent
  is what was answered, what is being served and what it has in its socket, in this
  order). `OwnEvents` is what the reuse of descriptors could break: `accept4` gives
  the lowest free one (`LowestFreeIsFree`, by a pigeonhole argument), and a
  descriptor closed in the middle of a batch is free at once. It holds because the
  loop closes only the descriptor of the event it is at, and epoll reports each
  once. That no thread but the IPC thread touches a connection is
  `OthersStayOut`, over every action of the whole program.
* `TableIsTrueCorrect`: `Spec => []TableIsTrue`, provided no two applications have one
  uuid (`UuidsApart`: two would be given one pid, section 6). The inductive
  invariant `AInv` says of every entry that has a pid that it is a background
  application and that the process was started from its directory (`Own`), the same of
  the snapshot of a reload (`OldOwn`), that no two entries and no two of the snapshot have one
  pid (`Distinct`), and that a process that runs is in the
  snapshot during a reload and in the table otherwise, or is `lost` (`Kept`). What the
  loop that gives the pids back has done is `Filled`: each entry behind it has the pid
  of its uuid in the snapshot, so at the end a process that is in no entry can only be
  one of an application the table does not have.
  `MapOf` is the invariant of the extension map: each extension once, leading to the
  first of the entries that declares it, none missing unless the map is full.
  `EntryAppended` keeps it when the scan adds an entry with all it declares. The
  loops of the scan are recursive functions; `Loop` shows that their values exist and
  `Reached` is the induction over their rounds, on sets, since an induction theorem
  with an operator for a parameter cannot be used.

**ScreensProofs**, what the user sees:

* `ScreensRestCorrect`: `ScreensSpec => []ScreensRest`, for any times of the
  transitions, any screens and heights, any number of requests and keys, and
  timers however late. `Curtained` and `OnItsWay` say that the curtain is down and
  the keys are muted as long as the content waits to be changed. `Arrives` is about
  the timers that move the plane, which overlap: while a swap waits, each ends
  before a rise that starts after the swap would; afterwards the one of the last rise
  is the last to end. It holds because every timer on its way is of `RiseTime` at
  most, and a timer is counted down with all others. For the keys, `Followed` says
  of each press that nobody has read that its key is down or its release is behind
  it in the queue, and `ReleaseToCome` the same of a key LVGL takes for pressed:
  reading a queue dry while muted loses presses, but never a release of a press that
  was passed on.
* `WhatIsSeenIsSelectedCorrect`: `ListSpec => []WhatIsSeenIsSelected`, for any tables,
  any number of slots and keys. `Shows` says that the slots are those of a window in
  the table, `Grouped` that the focus is on something bound or on a button; both
  hold when the table is built anew or an operator is carried out of the window.
* `OneByOneCorrect`: one key moves the focus by one entry and the operator that is
  carried by one place, for any number of slots from five (`Slots >= 5`; the code
  has eight and twelve, the run five). `Navigation` says that the group is the bound
  slots and the buttons in order, and that the focus comes to the last slot only at
  the end of the table. The bound is needed: with four slots the focus can be near
  both ends of the window at once, and TLC finds a key that does not move it.
* `PlanesAsAskedCorrect`: `DisplaySpec => []PlanesAsAsked`, for any frames and places,
  queues of any size and any number of requests, refused commits and stops.
  `AsAsked` says where a plane will come to: to the last request of the kind in its
  queue, else to what the display thread has drained, else where it is; each of
  queueing, draining, committing and refusing moves a request from one of the three
  to the next. `OnePlace` has each frame free, queued, drained or on screen; `Mounting`
  that before the first stop a frame finds its plane mounted or mounts it, so that
  no commit is refused for that; `BroughtUp` what each step of the start has opened, and
  what is left of it where the start ended early.

**DecodeProofs**, about pictures for any numbers of references, of reordered pictures
and of places in display order, any `MaxFrameNum`, and lists of operations of any
length; about sessions for any streams, devices and numbers of buffers, and
whichever calls fail:

* `PicturesInOrderCorrect`: `DpbSpec => []PicturesInOrder`. Of the inductive invariant
  `DpbInv`, `Held` and `Behind` are about the order: when a picture left for the
  screen, more than `Reorder` pictures were known that come no earlier, so that a
  conforming stream sends none that belongs before it. `Referenced` (at most `MaxRef`
  references, each of another picture) and the fact that a picture is only begun
  when no more than `Reorder` are held back leave one of the
  `MaxRef + Reorder + 3` slots of `mediaplayer.c:792` beside two on screen (`SlotRemains`).
  `Counted` bounds the numbers by the pictures sent.
* `ReferencesRightCorrect`: `DpbSpec => ReferencesRight`, the refinement of `RefMarking` and
  that each step is the one the stream asked for. `Decoding` says that no short-term
  reference is `MaxFrameNum` or more behind; then, by the lemma `Unwrapped` on
  remainders, the PicNum the code computes is as far behind `frame_num` as the
  picture is (`PicNumIs`), and a difference names one slot (`NamedIs`). `Same`
  compares marks of slots with marks of numbers; each operation keeps it
  (`OperationKeeps`), and so does a list of them (`MarkedTheSame`). The last is not
  an induction over data: of the places where the two lists of results
  differ there would be a first one (`LeastNat`), and an operation that made it.
* `RefListsRightCorrect`: `DpbSpec => []RefListsRight`, for any number of entries and of
  moves. Besides `DpbInv` it needs `Apart`: references have places of their own in
  display order, and none has that of the picture being decoded. Sorting puts each
  slot behind as many as have a smaller key (`InOrder`, what the insertion sorts of
  `h264_dpb.c` come to); `InOrderSorts` shows that with different keys this is a
  list of each slot once, by a pigeonhole argument, and `JoinIs` that the lists of two
  parts make one of the whole. For moves, `PredictedIs` says that a number
  sent as a difference modulo `MaxFrameNum` from another is found again whatever the
  two are, `PicNumTells` that it names one reference, and `MovesOne` that a modification
  leaves what was put before it. The rounds of the loop are an induction by a
  first failure, as above.
* `SessionCleanCorrect`: `SessionSpec => []SessionClean`: when no session is open the
  process holds nothing of one, wherever the opening of one stopped. The inductive
  invariant `SInv` has as its core that what is held is exactly what the fields of
  the contexts name (`held = Owned`): no step drops the only name of something, and
  no field names what was given back. `Stages` says that every step of the opening
  finds empty what it fills, so that no name is written over; `Returnable` that
  `mp_close_session` finds what it relies on; `SlotsFree` that no slot is lent when
  its buffers go. A failed call leaves the opening in the middle of a loop over
  buffers: `LadderParts` and `VdecWhole` say that a count is stored before anything
  it counts is taken, so that `vdec_close` gives everything back wherever
  `vdec_open` stopped.

Three definitions are written for the prover: the last request of a kind is the one
with the largest index, the timers that move the plane are a set (two equal ones do
what one does), and the bound slots are enumerated by what is before them.

What a theorem assumes beyond the constants' types is in its statement. Among the
`ASSUME`s of the modules these are there for the proofs: a table of operators has
a longest (`PRTS_OPERATORS_MAX`), there are finitely many clients, `NoItem`
and `None` are no items and no effects, and those of Screens, Lists and Display,
which say that times are positive, that the screens that are asked for exist, that a
table is numbered from zero and that no buffer is `NoFrame`, and those of Apps, that
`None` is neither a directory nor a process and that it is known what an extension
that is declared is in lower case, those of Arknights, Transitions and Opinfo, by
which times, sizes and speeds are natural numbers and what steps or is divided by is not
zero, that of Pictures, by which a picture has pixels, the sizes of operators and
program are one or two and the palette has room for a ramp of the theme beside the
colours of the program, that of Catalogue, by which a number in a config is a number, no directory is
named `""`, none is in both sources and some fallback is installed, and that of DecodeSession, by which the limits on
capture buffers are at most `VDEC_MAX_CAP_BUFS` (5, 8 and 16 against 32). Every inductive invariant was first
checked by TLC on the instance of its run, and those of `StaysArmed` and
`CallbacksTrue` with sixteen generations in place of four, so that `NoWrap` holds.

Only model-checked: liveness and fairness (out of the prover's reach, like
`ENABLED`). `InputRight` and `FileRight` compare what recursive definitions read of an input with
what was written into it; BitReader and H264Parser declare `RECURSIVE` operators, which
the provers do not take. `ScreenIsReference` compares all drawing, group by group, with drawing
from scratch, and has no theorem.

## 6. Behaviours seen while modelling, without a run

### Stated as properties that do not hold

Each is a definition at the end of its module. To see the counterexample, replace
the `INVARIANT` and `PROPERTY` lines of the named configuration by it.

| property | configuration | what the code does | what is said of it |
| --- | --- | --- | --- |
| `NoStartAfterCancel` (PrtsTimer) | `MCPrtsTimer.cfg` | `timer.c:75` picks the callback under the mutex and calls it after: it may *start* after a cancel returned | `utils/timer.h:20`: a cancel only does not wait for a callback already running |
| `CloseOffScreen` (VideoPipeline) | `MCVideoPipelineDirect.cfg` | a first session stopped before its first commit: the queued frame counts as "the one on screen", and is committed after the plane was disabled (`mediaplayer.c:980`) | `render/mediaplayer.c:988`: RmFB does not touch the framebuffer on screen |
| `ConfirmedByPicking` (UiModal) | `MCUiModal.cfg`, `ForcedScreens = {"confirm"}`, `MaxWarnings = 0`, `MaxEndKeys = 0`, `Warners = {}` | a confirmation that ended by deadline or cancel leaves its callbacks in the screen (`screen_confirm.c:80`), and they answer for `g_uix_shown_id` (`ipc_helper.c:23`); a client that shows the confirm screen while a selection is pending lets its yes confirm the selection | `docs/ipc_reference.md:122`: confirmed is "yes" in a confirmation, or an item picked in a selection |
| `SuspendedIsSilent` (Prts) | `MCPrtsSwitch.cfg`, `GoOn = TRUE` | a reload restarts the operator, whose play is 0.5 s away; the same tick still sees `IDLE` and "source lost" and suspends again; the video plays while suspended (`prts.c:716`) | `prts/prts.c:694`, `696`, `715` |
| `NoStaleEntry` (Prts) | `MCPrtsSwitch.cfg`, `GoOn = TRUE` | `overlay_abort` returns at once when another thread is waiting in it (`overlay.c:169`); a reload then frees entries the worker draws from | `prts/prts.c:593`: stop the worker, or the free is a use after free |
| `KilledAtExit` (Lifecycle) | `MCLifecycle.cfg` | the LVGL thread is joined after the applications were killed: what it starts behind the loop's index lives on (`apps.c:137`) | `apps/apps.c:136`: kill all background apps |
| `ClosesOnlyItsOwn` (DecodeSession) | `MCDecode.cfg` | the context is zeroed by `calloc`, only `vdec_open` sets its descriptors to -1: a first session that fails before closes descriptor 0 (`mediaplayer.c:643`) | `render/mediaplayer.c:738`: from here on everything goes through close_session |
| `SwapIsHidden` (Screens) | `MCScreens.cfg` | a dip that starts during a rise ends before it; the rise's last step lifts the plane before the swap (`screen_manager.c:286`) | `ui_screens/screen_manager.c:150`: every change is behind the curtain |
| `FocusComesBack` (Lists) | `MCScreens.cfg` | rebuilding the group focuses slot 0 at once and slides the window by one; an operator in the last slot is out of view when it is to be focused (`screen_oplist.c:271`) | `screen_oplist.c:92`, `270`: the focus stays on the operator that was put down |
| `RoundTrip` (Pictures) | `MCAssets.cfg`, `MaxDraws = 2` | the lookup keys opaque colours by five bits: the second of two colours of one key gets the index of the first (`c8pal.c:53`) | `render/c8pal.h:46`: looked up again without a loss |

### Threads and queues

* Ten presses of the power key while a dialog is open block the LVGL thread for
  ever: it pushes into a queue of ten that only it drains
  (`ui_services_device.c:242`). An eleventh warning of a client likewise
  blocks the IPC thread until the user answers.
* The end of a session closes whatever confirm screen is in front
  (`ui/ipc_helper.c:33`), also the device's own shutdown or format question,
  without its answer; the comment two lines above says the user is not
  disturbed otherwise.
* A second session overwrites an answer its client has not polled
  (`uix_session.c:34` refuses only while one is pending;
  `docs/ipc_reference.md:50` says one session at a time). A start that finds no
  memory for its popup leaves the session pending without one until its deadline.
* `overlay_transition_*` of IPC clears `request_abort` (`transitions.c:40`)
  while a tick may wait in `overlay_abort`: a looping effect then never ends and
  the tick waits with the settings locked. A transition whose type is refused
  has aborted the overlay all the same.
* A swipe does not set `overlay_used`, so an abort does not interrupt it
  (`docs/ipc_reference.md:98` says it does), and unlike the engine it has no
  flag that stops a late request for a frame (`transitions.c:370`).
* Reordering the list while an opinfo is drawn makes it show another
  operator's text: the effect holds a pointer to a table entry. A reload grows the
  table without a lock against the UI's reads (`prts_operators_reserve`).
* The index of a `SET_OPERATOR` is checked against the table at the time of the
  request; `switch_operator` reads `operators[index]` after a reload that may
  have made the table shorter (`prts.c:419`). A `SET_OPERATOR` popped in the same
  tick before a reload that finds a switch running is dropped (`prts.c:691`); the
  reload is pushed back with the blocking push into the tick's own queue.
* `mediaplayer_stop` tests `running` and joins without a lock; the tick and an
  IPC request may both stop.
* Animations of one plane overlap and none is cancelled; `ui_plane_move` ignores a
  timer that could not be created (`layer_animation.c:98`).
* The drain of the display thread may take more than the queue holds while others
  push; a geometry set before the first frame overrides the coordinates of the
  same round.

### Leaving

* After `prts_timer_destroy` nobody takes PRTS requests: a client that sends more
  than ten blocks the IPC thread, which `apps_destroy` joins (`prts.c:776`,
  `apps.c:153`). `EndsAreReached` excepts it. `overlay_abort` waits without a
  limit for a timer handle that nobody clears any more (`overlay.c:191`).
* `lvgl_drm_warp_destroy` frees the buffers before it joins the thread that draws
  into them (`lvgl_drm_warp.c:151`). The overlay worker leaves with its mutex locked.
* The exit code is that of the last who asked; killing an application that does not
  want to end takes a second each.

### Applications and clients

* A card that is pulled while its application runs: the reload forgets the pid
  (`apps.c:103`; when the card comes back the application is taken for stopped). Two
  directories with one uuid share a pid after a reload. The check timer stores
  "gone" after it has looked, which may hit a rebuilt table (`apps.c:27`).
* A client that shuts its sending side down with requests pending loses them
  (`ipc_server.c:134`); one that never stops sending keeps the receive loop of
  its connection, and the others wait (`ipc_server.c:140`).

### Video

* A stream whose VUI promises `max_num_reorder_frames` R gets
  `max_dec_frame_buffering + 4` slots (`mediaplayer.c:797`). The code holds R
  pictures back also when all of them are disposable and every reference is in
  use, which takes up to `max_dec_frame_buffering + R + 2`: enough for R <= 2, as
  x264 has it. `AlwaysASlot` is about streams without that VUI. The number of
  capture buffers is cut to the memory there is (`mediaplayer.c:809`): a stream
  that needs more starves after a hundred tries.
* MMCO 6 does not end the picture that already holds the long-term index
  (`h264_dpb.c:487`); MMCO 3 does. MMCO 5 leaves frame_num and POC of the current
  picture as they were (`h264_dpb.c:478`).
* The scaling lists of a PPS fall back to the SPS that is known when the PPS is
  read, not when it is used (`h264_parser.c:377`).
* A track that is rejected leaves its largest sample behind in `max_sample_size`.
* A picture whose controls cannot be set returns its request without `REINIT`
  (`vdec_v4l2.c:578`), one whose wait times out leaves it queued.
* The generation of a frame is compared after a shift by eight bits: on a 32-bit
  device it wraps at 2^24 sessions (`mediaplayer.c:181`).
* A flip left in the queue when the video's plane is switched off makes the kernel
  refuse the commit; coordinates and alpha of the other planes go with it
  (`drm_warpper.c:253`). `PlanesAsAsked` excepts these layers (`lost`).
* `drm_warpper_init` leaks the list of resources when it has no CRTC or no connector:
  `drm_warpper.c:409` treats this as the case in which there is no list
  (`NothingToDrive`; `PlanesAsAsked` says what is held then).
* `drm_warpper_init` may fail and `main.c:156` goes on; `overlay_init` and
  `lvgl_drm_warp_init` clear a buffer they did not get. A buffer object that fails
  half-way keeps its handle.

### Overlays and pictures

* An element `corner_fade` without an animation is never drawn; a rotated bold text
  longer than its height is drawn outside its box; the first black state of the e-ink
  effect is left before it is drawn; sways of a speed under three stand still.
* Lines and bars of the arknights pass stop one column short (`PassIsWhole` says so).
* A swipe paints `image_w / 2` columns to either side of the middle, the end excluded
  (`transitions.c:395`): a picture of odd width loses its last column, which a fade
  and a move copy (`EvenPicture` in the proofs).
* A swipe shorter than a frame calls `middle_cb` never; one that finds no memory
  calls neither callback. Fades and moves shorter than a step show no curtain.
* The images of a transition of the operator in use are not freed by a reload
  (`operators.c:314`).
* A picture that finds one place left in the pool is kept as it is, and so is one
  of more than 32768 pixels of which none that the stride looks at is visible
  (`c8pal.c:247`): its pixels are no colours of the palette (`LoadedAsFresh` says when).
* Two changes of a scale around a power cut may join the indices of one with the
  colours of another in the cache files of a picture.

### Lists, operators, settings

* `prts.c:629` does not look at the result of loading the fallback and counts it: with a
  fallback whose config is refused the only entry of the table is one that cannot be
  played, with whatever was read before the refusal (`Remains`). `CatalogueSound` has the exception (`OnlyRemains`).
* A warning during reordering puts the operator down without saving the order.
  A list that is open during a reload keeps its labels until it is shown again.
* A card that is pulled loses its operators' places in the order file at the next
  save; a power cut while it is written loses the order.
* Settings are written in place: a crash between the `fopen` and the `fclose` leaves
  the defaults.

## 7. What the models leave out

Of the modelled parts: pixels within a cell, glyphs, blending, layout and wording;
logging; what the kernel, LVGL, the hardware decoder and the JSON parser compute.
Allocation failures except where what follows depends on them (`OutOfMemory` in
UiModal, `memory` in Catalogue, the ladders of DecodeSession). In Prts:
`prts_destroy`, the decode-error warning, transitions with a video from IPC;
putting a reload back is atomic with finding the system busy. In H264Dpb: MMCO 5,
an MMCO 6 on an index in use, gaps in frame_num, the VUI and the limits on the
number of slots, modified B lists. In the parser: flexible macroblock ordering,
fields of a picture as two units. In VideoPipeline: other layers, two threads
stopping at once. In Display: mounts that fail. In PrtsTimer: the argument checks
of create. In SpscQueue: `spsc_bq_count` and failures of init. In Lists: badges.
Two ticks at once are excluded by the same promise of `timer.h` as above.

Not modelled at all: the desktop backends (`drm_warpper_sdl.c`,
`mediaplayer_ffmpeg.c`, `key_sdl.c`, `timer_backend_win32.c`), which the device
does not run; third-party code (`stb_image.h`, `cJSON.c`, `code128.c`) and
`lv_conf.h`, which is LVGL's configuration. They are a third of the lines under
`src/`. The settings file, the battery's sysfs files and the widgets of the
settings, file-manager and system-information screens are sequential reads and
writes without a state that outlives a call; a model would repeat them.

## 8. Plan

1. VideoPipeline's nondeterministic `EndFrame` shown an abstraction of `H264Dpb`,
   and its display thread one of `Display`, with play and stop called from two
   threads.
2. MMCO 5, the taking over of a long-term index and gaps in frame_num in `H264Dpb`.
3. The settings file with its versions and a crash while it is written.
