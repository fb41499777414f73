----------------------------- MODULE SpscQueue -----------------------------
(***************************************************************************)
(* utils/spsc_queue.c: the bounded blocking queue every pair of threads of *)
(* the program talks through.  All of head, tail, count, buf and closed is *)
(* guarded by one mutex, so everything a thread does between taking the    *)
(* mutex and releasing it (by unlock or by cond_wait) is one action.       *)
(* A thread blocked in pthread_cond_wait is in pc "waitFull"/"waitEmpty";  *)
(* a signal moves one of them back to "push"/"pop", where it must take the *)
(* mutex and test the loop condition again.                                *)
(***************************************************************************)
EXTENDS Naturals, FiniteSets

CONSTANTS
  Producers,   \* threads that call push and try_push
  Consumers,   \* threads that call pop and try_pop (may be producers too)
  Items,       \* what is queued: pointers the queue never looks into
  NoItem,      \* stands for "no pointer"
  Capacity

ASSUME CapacityAssumption == Capacity \in Nat /\ Capacity > 0
ASSUME ThreadsAssumption == IsFiniteSet(Producers) /\ IsFiniteSet(Consumers)
ASSUME NoItemAssumption == NoItem \notin Items

VARIABLES
  buf,      \* the ring
  head,     \* next slot to pop
  tail,     \* next slot to push
  count,    \* items in the ring
  closed,
  alive,    \* between init and the end of destroy
  pc,       \* where each thread is inside the module
  arg,      \* the item a blocked push is carrying
  ret       \* what each thread's last call returned

queueVars == <<buf, head, tail, count, closed, alive>>
vars == <<buf, head, tail, count, closed, alive, pc, arg, ret>>

Threads == Producers \cup Consumers
Reply(op, code, item) == [op |-> op, code |-> code, item |-> item]

Replies ==
  [op : {"none", "push", "pop"}, code : {"OK", "EPIPE", "EAGAIN"},
   item : Items \cup {NoItem}]

TypeOK ==
  /\ buf \in [0 .. Capacity - 1 -> Items \cup {NoItem}]
  /\ head \in 0 .. Capacity - 1
  /\ tail \in 0 .. Capacity - 1
  /\ count \in 0 .. Capacity
  /\ closed \in BOOLEAN
  /\ alive \in BOOLEAN
  /\ pc \in [Threads -> {"idle", "push", "waitFull", "pop", "waitEmpty"}]
  /\ arg \in [Threads -> Items \cup {NoItem}]
  /\ ret \in [Threads -> Replies]

Init ==
  /\ buf = [i \in 0 .. Capacity - 1 |-> NoItem]
  /\ head = 0 /\ tail = 0 /\ count = 0
  /\ closed = FALSE
  /\ alive = TRUE
  /\ pc = [t \in Threads |-> "idle"]
  /\ arg = [t \in Threads |-> NoItem]
  /\ ret = [t \in Threads |-> Reply("none", "OK", NoItem)]

\* pthread_cond_signal as a relation between the program counters before and
\* after: one waiter, whichever the system picks, goes back to the loop.
Signal(from, to, pc1, pc2) ==
  \/ /\ \A u \in Threads : pc1[u] # from
     /\ pc2 = pc1
  \/ \E u \in Threads :
       /\ pc1[u] = from
       /\ pc2 = [pc1 EXCEPT ![u] = to]

\* Mutants: a store or a take that forgets its signal, a head that does not
\* wrap, and a close that broadcasts on one condition only.
StoreSilently(t, v) ==
  /\ buf' = [buf EXCEPT ![tail] = v]
  /\ tail' = (tail + 1) % Capacity
  /\ count' = count + 1
  /\ pc' = [pc EXCEPT ![t] = "idle"]
  /\ ret' = [ret EXCEPT ![t] = Reply("push", "OK", NoItem)]
  /\ arg' = [arg EXCEPT ![t] = NoItem]
  /\ UNCHANGED <<head, closed, alive>>

TakeSilently(t) ==
  /\ head' = (head + 1) % Capacity
  /\ count' = count - 1
  /\ pc' = [pc EXCEPT ![t] = "idle"]
  /\ ret' = [ret EXCEPT ![t] = Reply("pop", "OK", buf[head])]
  /\ UNCHANGED <<buf, tail, closed, alive, arg>>

TakeNoWrap(t) ==
  /\ head' = head + 1
  /\ count' = count - 1
  /\ Signal("waitFull", "push", [pc EXCEPT ![t] = "idle"], pc')
  /\ ret' = [ret EXCEPT ![t] = Reply("pop", "OK", buf[head])]
  /\ UNCHANGED <<buf, tail, closed, alive, arg>>

BroadcastNotEmptyOnly(pc1) ==
  [u \in Threads |-> IF pc1[u] = "waitEmpty" THEN "pop" ELSE pc1[u]]

\* pthread_cond_broadcast on both conditions.
Broadcast(pc1) ==
  [u \in Threads |-> CASE pc1[u] = "waitFull"  -> "push"
                       [] pc1[u] = "waitEmpty" -> "pop"
                       [] OTHER                -> pc1[u]]

\* Storing and taking an item, with the signal each of them sends.
Store(t, v) ==
  /\ buf' = [buf EXCEPT ![tail] = v]
  /\ tail' = (tail + 1) % Capacity
  /\ count' = count + 1
  /\ Signal("waitEmpty", "pop", [pc EXCEPT ![t] = "idle"], pc')
  /\ ret' = [ret EXCEPT ![t] = Reply("push", "OK", NoItem)]
  /\ arg' = [arg EXCEPT ![t] = NoItem]
  /\ UNCHANGED <<head, closed, alive>>

Take(t) ==
  /\ head' = (head + 1) % Capacity
  /\ count' = count - 1
  /\ Signal("waitFull", "push", [pc EXCEPT ![t] = "idle"], pc')
  /\ ret' = [ret EXCEPT ![t] = Reply("pop", "OK", buf[head])]
  /\ UNCHANGED <<buf, tail, closed, alive, arg>>

\* A call that returns without touching the ring.
Refuse(t, op, code) ==
  /\ pc' = [pc EXCEPT ![t] = "idle"]
  /\ ret' = [ret EXCEPT ![t] = Reply(op, code, NoItem)]
  /\ arg' = [arg EXCEPT ![t] = NoItem]
  /\ UNCHANGED queueVars

----------------------------------------------------------------------------
\* spsc_bq_push: the call, then one pass of its loop per mutex acquisition.
CallPush(t, v) ==
  /\ alive
  /\ pc[t] = "idle"
  /\ pc' = [pc EXCEPT ![t] = "push"]
  /\ arg' = [arg EXCEPT ![t] = v]
  /\ UNCHANGED <<queueVars, ret>>

\* Mutant: a loop condition without the closed flag.
PushWaitIgnoringClose(t) ==
  /\ pc[t] = "push"
  /\ count = Capacity
  /\ pc' = [pc EXCEPT ![t] = "waitFull"]
  /\ UNCHANGED <<queueVars, arg, ret>>

PushWait(t) ==
  /\ pc[t] = "push"
  /\ count = Capacity
  /\ ~closed
  /\ pc' = [pc EXCEPT ![t] = "waitFull"]
  /\ UNCHANGED <<queueVars, arg, ret>>

PushClosed(t) ==
  /\ pc[t] = "push"
  /\ closed
  /\ Refuse(t, "push", "EPIPE")

PushItem(t) ==
  /\ pc[t] = "push"
  /\ ~closed
  /\ count # Capacity
  /\ Store(t, arg[t])

Push(t) == PushWait(t) \/ PushClosed(t) \/ PushItem(t)

\* spsc_bq_pop.  A closed queue is drained before it answers EPIPE.
CallPop(t) ==
  /\ alive
  /\ pc[t] = "idle"
  /\ pc' = [pc EXCEPT ![t] = "pop"]
  /\ UNCHANGED <<queueVars, arg, ret>>

PopWait(t) ==
  /\ pc[t] = "pop"
  /\ count = 0
  /\ ~closed
  /\ pc' = [pc EXCEPT ![t] = "waitEmpty"]
  /\ UNCHANGED <<queueVars, arg, ret>>

\* Mutant: a closed queue that answers EPIPE before it is drained.
PopClosedUndrained(t) ==
  /\ pc[t] = "pop"
  /\ closed
  /\ Refuse(t, "pop", "EPIPE")

PopClosed(t) ==
  /\ pc[t] = "pop"
  /\ count = 0
  /\ closed
  /\ Refuse(t, "pop", "EPIPE")

PopItem(t) ==
  /\ pc[t] = "pop"
  /\ count # 0
  /\ Take(t)

Pop(t) == PopWait(t) \/ PopClosed(t) \/ PopItem(t)

\* spsc_bq_try_push and spsc_bq_try_pop never wait: one critical section.
TryPush(t, v) ==
  /\ alive
  /\ pc[t] = "idle"
  /\ \/ closed /\ Refuse(t, "push", "EPIPE")
     \/ ~closed /\ count = Capacity /\ Refuse(t, "push", "EAGAIN")
     \/ ~closed /\ count # Capacity /\ Store(t, v)

TryPop(t) ==
  /\ alive
  /\ pc[t] = "idle"
  /\ \/ count = 0 /\ closed /\ Refuse(t, "pop", "EPIPE")
     \/ count = 0 /\ ~closed /\ Refuse(t, "pop", "EAGAIN")
     \/ count # 0 /\ Take(t)

\* pthread_cond_wait may return with no signal at all.
SpuriousWakeup(t) ==
  /\ pc[t] \in {"waitFull", "waitEmpty"}
  /\ pc' = [pc EXCEPT ![t] = IF @ = "waitFull" THEN "push" ELSE "pop"]
  /\ UNCHANGED <<queueVars, arg, ret>>

\* spsc_bq_close may be called by any thread, any number of times.
Close ==
  /\ alive
  /\ closed' = TRUE
  /\ pc' = Broadcast(pc)
  /\ UNCHANGED <<buf, head, tail, count, alive, arg, ret>>

\* spsc_bq_destroy, as its callers use it: after the threads that use the
\* queue were joined.  Items still inside are dropped.
Destroy ==
  /\ alive
  /\ \A t \in Threads : pc[t] = "idle"
  /\ closed' = TRUE
  /\ head' = 0 /\ tail' = 0 /\ count' = 0
  /\ alive' = FALSE
  /\ UNCHANGED <<buf, pc, arg, ret>>

\* spsc_bq_init on the same object, for the next user of it.
InitAgain ==
  /\ ~alive
  /\ buf' = [i \in 0 .. Capacity - 1 |-> NoItem]
  /\ head' = 0 /\ tail' = 0 /\ count' = 0
  /\ closed' = FALSE
  /\ alive' = TRUE
  /\ UNCHANGED <<pc, arg, ret>>

----------------------------------------------------------------------------
ProducerStep(t) ==
  \/ \E v \in Items : CallPush(t, v) \/ TryPush(t, v)
  \/ Push(t)

ConsumerStep(t) == CallPop(t) \/ TryPop(t) \/ Pop(t)

Next ==
  \/ \E t \in Producers : ProducerStep(t)
  \/ \E t \in Consumers : ConsumerStep(t)
  \/ \E t \in Threads : SpuriousWakeup(t)
  \/ Close
  \/ Destroy
  \/ InitAgain

Spec == Init /\ [][Next]_vars

\* A thread inside a call is scheduled again; nobody has to call, to close or
\* to be woken for nothing.
Fairness ==
  /\ \A t \in Producers : WF_vars(Push(t))
  /\ \A t \in Consumers : WF_vars(Pop(t))

FairSpec == Spec /\ Fairness

----------------------------------------------------------------------------
Waiting(where) == {t \in Threads : pc[t] = where}

\* No lost wakeup, with any number of threads on each side and one signal per
\* operation: as long as somebody sleeps in pop, every queued item has a thread
\* of its own that is awake inside pop and will take the mutex, and as long as
\* somebody sleeps in push, so has every free slot inside push.
NoLostPop ==
  Waiting("waitEmpty") # {} => count <= Cardinality(Waiting("pop"))

NoLostPush ==
  Waiting("waitFull") # {} => Capacity - count <= Cardinality(Waiting("push"))

NoLostWakeup == NoLostPop /\ NoLostPush

\* Nobody sleeps on a closed queue: close() leaves no waiter behind and none
\* goes back to sleep after it.
ClosedWakesAll ==
  closed => Waiting("waitFull") = {} /\ Waiting("waitEmpty") = {}

\* A queue never has sleeping producers and sleeping consumers with nobody
\* awake: the two sides cannot block each other.
NoMutualSleep ==
  Waiting("waitFull") # {} /\ Waiting("waitEmpty") # {}
    => Waiting("push") # {} \/ Waiting("pop") # {}

\* The ring, the mutex and the condition variables implement the bounded
\* FIFO: order, bound, drain after close, and the code each call returns.
Fifo == INSTANCE BoundedFifo WITH
  fifo <- [i \in 1 .. count |-> buf[(head + i - 1) % Capacity]],
  shut <- closed

ImplementsFifo == Fifo!Spec

\* Every thread inside a call when the queue is closed returns.
CloseReleases ==
  \A t \in Threads : (alive /\ closed /\ pc[t] # "idle") ~> (pc[t] = "idle")

\* A pop returns unless the others take every item there is, and a push unless
\* they fill every slot: none is passed over while there is something for it.
Served ==
  /\ \A t \in Consumers :
       (pc[t] \in {"pop", "waitEmpty"} /\ count > 0) ~> (pc[t] = "idle" \/ count = 0)
  /\ \A t \in Producers :
       (pc[t] \in {"push", "waitFull"} /\ count < Capacity)
         ~> (pc[t] = "idle" \/ count = Capacity)

\* No call is left behind: a close releases those inside, and while the queue is
\* open, what one waits for comes to it.
CallsReturn == CloseReleases /\ Served
=============================================================================
