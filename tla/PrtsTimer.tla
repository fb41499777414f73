----------------------------- MODULE PrtsTimer -----------------------------
(***************************************************************************)
(* utils/timer.c over utils/timer_backend_posix.c.  A table of slots; the  *)
(* kernel starts a new thread for every expiration of an armed timer       *)
(* (SIGEV_THREAD), and that thread carries only the slot number and the    *)
(* low bits of the slot's generation.  Between the expiration, the locked  *)
(* part of prts_timer_on_fire and the callback itself anything may happen: *)
(* the timer may be cancelled, or its slot given to somebody else.         *)
(*                                                                         *)
(* Every successful or attempted prts_timer_create is a "use"; it stands   *)
(* for the cb and userdata the caller passed.                              *)
(***************************************************************************)
EXTENDS Integers, Sequences, FiniteSets, SequencesExt

CONSTANTS
  Uses,         \* calls of prts_timer_create
  None,         \* no value
  Failed,       \* the outcome of a create the kernel refused
  TimerMax,     \* PRTS_TIMER_MAX
  GenMod,       \* 2^32: the generation kept in a slot and in a handle
  TagMod,       \* 2^16: the part of it that fits into sival_int
  FireCounts,   \* fire_count arguments; -1 is "for ever"
  MaxInFlight,  \* bound: expirations of one timer not yet handled
  MaxFires,     \* bound: expirations of an endless timer
  Punctual      \* may callers keep, or break, "a callback is shorter than the
                \* interval": a subset of BOOLEAN

ASSUME TimerMaxAssumption == TimerMax \in Nat /\ TimerMax > 0
ASSUME WidthAssumption ==
  /\ TagMod \in Nat /\ TagMod > 1
  /\ GenMod \in Nat /\ GenMod > 0 /\ GenMod % TagMod = 0
ASSUME FireCountsAssumption == FireCounts \subseteq (Nat \ {0}) \cup {-1}
ASSUME BoundsAssumption ==
  MaxInFlight \in Nat /\ MaxFires \in Nat /\ Punctual \subseteq BOOLEAN

VARIABLES
  inited,
  punctual,    \* the callers keep to it
  gen,         \* gen[id], active[id], use[id], remaining[id]: slot id
  active,
  use,
  remaining,
  freeIds,     \* the stack of free slot numbers, its top last
  handle,      \* handle[u]: what create returned, with the fire count asked
  armed,       \* uses whose kernel timer will expire (again)
  expired,     \* expired[u]: threads started for u, not yet in on_fire's lock
  fires,       \* fires[u]: expirations of u that on_fire accepted
  captured,    \* callbacks chosen under the lock and not yet called
  running,     \* callbacks being executed
  cancelled    \* uses whose handle was passed to a prts_timer_cancel that returned

slotVars == <<gen, active, use, remaining, freeIds>>
vars == <<inited, punctual, slotVars, handle, armed, expired, fires, captured,
          running, cancelled>>

Ids == 1 .. TimerMax
Handles == [id : Ids, gen : 0 .. GenMod - 1, count : FireCounts]

ASSUME NoneAssumption ==
  /\ None \notin Uses
  /\ Handles \cap {None, Failed} = {}
  /\ Failed # None

Callbacks ==
  [tag : Uses, use : Uses, k : 1 .. MaxFires, last : BOOLEAN]

TypeOK ==
  /\ inited \in BOOLEAN /\ punctual \in BOOLEAN
  /\ gen \in [Ids -> 0 .. GenMod - 1]
  /\ active \in [Ids -> BOOLEAN]
  /\ use \in [Ids -> Uses \cup {None}]
  /\ remaining \in [Ids -> Nat \cup {-1}]
  /\ freeIds \in Seq(Ids)
  /\ handle \in [Uses -> Handles \cup {None, Failed}]
  /\ armed \subseteq Uses
  /\ expired \in [Uses -> 0 .. MaxInFlight]
  /\ fires \in [Uses -> 0 .. MaxFires]
  /\ captured \subseteq Callbacks
  /\ running \subseteq Callbacks
  /\ cancelled \subseteq Uses

\* prts_timer_init, called once by main.
Init ==
  /\ inited = TRUE
  /\ punctual \in Punctual
  /\ gen = [id \in Ids |-> 1 % GenMod]
  /\ active = [id \in Ids |-> FALSE]
  /\ use = [id \in Ids |-> None]
  /\ remaining = [id \in Ids |-> 0]
  /\ freeIds = [i \in Ids |-> i]
  /\ handle = [u \in Uses |-> None]
  /\ armed = {}
  /\ expired = [u \in Uses |-> 0]
  /\ fires = [u \in Uses |-> 0]
  /\ captured = {}
  /\ running = {}
  /\ cancelled = {}

\* Mutant: a generation wider than its field.
BumpNoWrap(g) == g + 1

Created(u) == handle[u] \notin {None, Failed}

Bump(g) == (g + 1) % GenMod
Tag(g) == g % TagMod

\* The generation a new use of a slot gets: its tag is never 0.
NextGen(g) == IF Tag(Bump(g)) = 0 THEN Bump(Bump(g)) ELSE Bump(g)

\* Mutant: a slot that never goes back to the free stack.
RetireLeaking(id) ==
  /\ active' = [active EXCEPT ![id] = FALSE]
  /\ gen' = [gen EXCEPT ![id] = Bump(@)]
  /\ armed' = armed \ {use[id]}
  /\ UNCHANGED freeIds

\* Deleting the kernel timer and giving the slot back.
Retire(id) ==
  /\ active' = [active EXCEPT ![id] = FALSE]
  /\ gen' = [gen EXCEPT ![id] = Bump(@)]
  /\ freeIds' = IF Len(freeIds) < TimerMax THEN Append(freeIds, id) ELSE freeIds
  /\ armed' = armed \ {use[id]}

----------------------------------------------------------------------------
\* prts_timer_create with legal arguments.
Create(u, n) ==
  /\ inited
  /\ handle[u] = None
  /\ freeIds # <<>>
  /\ LET id == Last(freeIds)
         g == NextGen(gen[id])
     IN  /\ gen' = [gen EXCEPT ![id] = g]
         /\ use' = [use EXCEPT ![id] = u]
         /\ remaining' = [remaining EXCEPT ![id] = n]
         /\ active' = [active EXCEPT ![id] = TRUE]
         /\ freeIds' = Front(freeIds)
         /\ handle' = [handle EXCEPT ![u] = [id |-> id, gen |-> g, count |-> n]]
         /\ armed' = armed \cup {u}
  /\ UNCHANGED <<inited, punctual, expired, fires, captured, running, cancelled>>

\* The kernel refuses the timer: the slot goes back at once.
CreateFails(u, n) ==
  /\ inited
  /\ handle[u] = None
  /\ freeIds # <<>>
  /\ LET id == Last(freeIds)
     IN  /\ gen' = [gen EXCEPT ![id] = Bump(NextGen(@))]
         /\ use' = [use EXCEPT ![id] = u]
         /\ remaining' = [remaining EXCEPT ![id] = n]
  /\ handle' = [handle EXCEPT ![u] = Failed]
  /\ UNCHANGED <<inited, punctual, active, freeIds, armed, expired, fires,
                 captured, running, cancelled>>

\* The kernel timer expires and starts a thread.  A one-shot expires once; a
\* periodic timer goes on until it is deleted, whatever fire_count says.
Expire(u) ==
  /\ u \in armed
  /\ expired[u] < MaxInFlight
  /\ fires[u] + expired[u] < MaxFires
  /\ punctual => expired[u] = 0 /\ \A c \in captured \cup running : c.tag # u
  /\ expired' = [expired EXCEPT ![u] = @ + 1]
  /\ armed' = IF handle[u].count = 1 THEN armed \ {u} ELSE armed
  /\ UNCHANGED <<inited, punctual, slotVars, handle, fires, captured, running, cancelled>>

\* Mutant: on_fire without the generation check.
AcceptsAny(u) == inited /\ active[handle[u].id]

\* The tag carried by a thread started for u matches the slot.
Accepts(u) ==
  LET id == handle[u].id
  IN  inited /\ active[id] /\ Tag(gen[id]) = Tag(handle[u].gen)

\* The locked part of prts_timer_on_fire.
Drop(u) ==
  /\ expired[u] > 0
  /\ ~Accepts(u)
  /\ expired' = [expired EXCEPT ![u] = @ - 1]
  /\ UNCHANGED <<inited, punctual, slotVars, handle, armed, fires, captured, running,
                 cancelled>>

\* Mutant: an off-by-one in the count of the remaining fires.
IsLastLate(id) == remaining[id] = 0

IsLast(id) == remaining[id] = 1

\* Mutant: the flag of the last call given one call early.
OnFireFlagEarly(u) ==
  /\ expired[u] > 0
  /\ Accepts(u)
  /\ LET id == handle[u].id
         w == use[id]
     IN  /\ fires' = [fires EXCEPT ![w] = @ + 1]
         /\ captured' = captured \cup
              {[tag |-> u, use |-> w, k |-> fires[w] + 1,
                last |-> remaining[id] = 2]}
         /\ remaining' = [remaining EXCEPT ![id] = IF @ > 0 THEN @ - 1 ELSE @]
         /\ IF IsLast(id) THEN Retire(id)
                          ELSE UNCHANGED <<active, gen, freeIds, armed>>
  /\ expired' = [expired EXCEPT ![u] = @ - 1]
  /\ UNCHANGED <<inited, punctual, use, handle, running, cancelled>>

OnFire(u) ==
  /\ expired[u] > 0
  /\ Accepts(u)
  /\ LET id == handle[u].id
         w == use[id]
     IN  /\ fires' = [fires EXCEPT ![w] = @ + 1]
         /\ captured' = captured \cup
              {[tag |-> u, use |-> w, k |-> fires[w] + 1, last |-> IsLast(id)]}
         /\ remaining' = [remaining EXCEPT ![id] = IF @ > 0 THEN @ - 1 ELSE @]
         /\ IF IsLast(id) THEN Retire(id)
                          ELSE UNCHANGED <<active, gen, freeIds, armed>>
  /\ expired' = [expired EXCEPT ![u] = @ - 1]
  /\ UNCHANGED <<inited, punctual, use, handle, running, cancelled>>

\* The unlocked part: the callback is called, and returns.
CallCallback(c) ==
  /\ c \in captured
  /\ captured' = captured \ {c}
  /\ running' = running \cup {c}
  /\ UNCHANGED <<inited, punctual, slotVars, handle, armed, expired, fires, cancelled>>

CallbackReturns(c) ==
  /\ c \in running
  /\ running' = running \ {c}
  /\ UNCHANGED <<inited, punctual, slotVars, handle, armed, expired, fires, captured,
                 cancelled>>

\* Mutant: a cancel that trusts the slot number.
MatchesSlot(u) == inited /\ active[handle[u].id]

Matches(u) ==
  inited /\ active[handle[u].id] /\ gen[handle[u].id] = handle[u].gen

\* Mutant: a cancel that only deletes the kernel timer.
CancelDisarmOnly(u) ==
  /\ Created(u)
  /\ armed' = armed \ {u}
  /\ cancelled' = cancelled \cup {u}
  /\ UNCHANGED <<inited, punctual, slotVars, handle, expired, fires, captured, running>>

\* prts_timer_cancel with any handle ever returned, however old.  After
\* destroy the singleton is NULL and the call does nothing.
Cancel(u) ==
  /\ Created(u)
  /\ IF Matches(u) THEN Retire(handle[u].id)
                   ELSE UNCHANGED <<active, gen, freeIds, armed>>
  /\ cancelled' = cancelled \cup {u}
  /\ UNCHANGED <<inited, punctual, use, remaining, handle, expired, fires, captured,
                 running>>

\* prts_timer_destroy.  The free stack is left as it is.
Destroy ==
  /\ inited
  /\ inited' = FALSE
  /\ gen' = [id \in Ids |-> IF active[id] THEN Bump(gen[id]) ELSE gen[id]]
  /\ active' = [id \in Ids |-> FALSE]
  /\ armed' = {}
  /\ UNCHANGED <<punctual, use, remaining, freeIds, handle, expired, fires, captured,
                 running, cancelled>>

Next ==
  \/ \E u \in Uses, n \in FireCounts : Create(u, n) \/ CreateFails(u, n)
  \/ \E u \in Uses : Expire(u) \/ Drop(u) \/ OnFire(u) \/ Cancel(u)
  \/ \E c \in captured : CallCallback(c)
  \/ \E c \in running : CallbackReturns(c)
  \/ Destroy

Spec == Init /\ [][Next]_vars

\* An armed timer expires, and a thread that was started runs to its end.
Fairness ==
  /\ \A u \in Uses : WF_vars(Expire(u)) /\ WF_vars(OnFire(u) \/ Drop(u))
  /\ WF_vars(\E c \in captured : CallCallback(c))
  /\ WF_vars(\E c \in running : CallbackReturns(c))

FairSpec == Spec /\ Fairness

----------------------------------------------------------------------------
FreeSet == {freeIds[i] : i \in DOMAIN freeIds}

\* While the table is in use every slot is either active or on the free stack,
\* and on it once: no slot is lost and none is given to two timers, through
\* auto-free, cancel and a failed create in any order.
SlotPartition ==
  inited => /\ \A id \in Ids : active[id] <=> id \notin FreeSet
            /\ \A i, j \in DOMAIN freeIds : freeIds[i] = freeIds[j] => i = j

\* A thread that the kernel started for one timer, however late it gets the
\* mutex, never makes another timer's callback run, even when the slot was
\* reused meanwhile (as long as the slot was not reused TagMod / 2 times).
OwnExpiration == \A c \in captured \cup running : c.use = c.tag

\* A timer created with fire_count n calls back at most n times, and tells
\* exactly its n-th callback that it is the last, whatever the interleaving of
\* the threads the kernel started for it.
FireBudget ==
  \A c \in captured \cup running :
    /\ c.last <=> c.k = handle[c.use].count
    /\ handle[c.use].count # -1 => c.k <= handle[c.use].count

\* A timer that was not cancelled keeps its slot until its last fire: no
\* cancel of an older handle of that slot, no stale expiration and no failed
\* create ends it.
StaysArmed ==
  \A u \in Uses :
    (/\ inited /\ Created(u) /\ u \notin cancelled
     /\ fires[u] # handle[u].count)
    => active[handle[u].id] /\ use[handle[u].id] = u

\* Once prts_timer_cancel has returned, no further expiration is accepted.
QuietAfterCancel ==
  [][\A u \in cancelled : fires'[u] = fires[u]]_vars

\* When callbacks are shorter than the interval, as timer.h asks, the last
\* callback is alone and stays alone: no earlier callback of its timer is
\* pending or running and no later one can be accepted, so it may free the
\* userdata.
LastIsLast ==
  punctual =>
    \A c \in captured \cup running :
      c.last => /\ \A d \in captured \cup running : d.use = c.use => d = c
                /\ ~(active[handle[c.use].id] /\ use[handle[c.use].id] = c.use)

\* timer.h, of cancel: "returns immediately; guarantees it is not triggered
\* afterwards (does not wait for a callback already executing)".  No callback
\* starts to execute after the cancel of its timer returned.
\* It does not hold: README, section 6.
NoStartAfterCancel ==
  [][\A c \in running' \ running : c.use \notin cancelled]_vars

\* A finite timer nobody cancels runs its last callback to the end, unless the
\* table is destroyed.
TimerCompletes ==
  \A u \in Uses :
    (IF Created(u) THEN handle[u].count # -1 ELSE FALSE)
      ~> \/ u \in cancelled
         \/ ~inited
         \/ /\ Created(u) /\ fires[u] = handle[u].count
            /\ \A c \in captured \cup running : c.use # u

\* What a callback may rely on: it belongs to its own timer, and the one that is told
\* to be the last is.
CallbacksTrue == TypeOK /\ OwnExpiration /\ LastIsLast
=============================================================================
