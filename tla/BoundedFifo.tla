---------------------------- MODULE BoundedFifo ----------------------------
(***************************************************************************)
(* What utils/spsc_queue.h promises to its callers, with no mutex, no      *)
(* condition variable and no ring: a bounded first-in first-out queue that *)
(* can be closed.  A call is one step, taken at the moment it returns; a   *)
(* call that would block simply has no step yet.                           *)
(***************************************************************************)
EXTENDS Naturals, Sequences

CONSTANTS Producers, Consumers, Items, NoItem, Capacity

VARIABLES
  fifo,     \* the items accepted and not yet delivered, oldest first
  shut,     \* the queue was closed
  ret       \* ret[t]: what the last call of thread t returned

fifoVars == <<fifo, shut, ret>>

Reply(op, code, item) == [op |-> op, code |-> code, item |-> item]

Init ==
  /\ fifo = <<>>
  /\ shut = FALSE
  /\ ret = [t \in Producers \cup Consumers |-> Reply("none", "OK", NoItem)]

\* A push is accepted only by an open queue with room.
Accept(t, v) ==
  /\ ~shut
  /\ Len(fifo) < Capacity
  /\ fifo' = Append(fifo, v)
  /\ ret' = [ret EXCEPT ![t] = Reply("push", "OK", NoItem)]
  /\ UNCHANGED shut

\* A pop delivers the oldest item, also from a closed queue.
Deliver(t) ==
  /\ fifo # <<>>
  /\ fifo' = Tail(fifo)
  /\ ret' = [ret EXCEPT ![t] = Reply("pop", "OK", Head(fifo))]
  /\ UNCHANGED shut

\* EPIPE: a push on a closed queue, a pop on a closed and drained queue.
RefusePush(t) ==
  /\ shut
  /\ ret' = [ret EXCEPT ![t] = Reply("push", "EPIPE", NoItem)]
  /\ UNCHANGED <<fifo, shut>>

RefusePop(t) ==
  /\ shut
  /\ fifo = <<>>
  /\ ret' = [ret EXCEPT ![t] = Reply("pop", "EPIPE", NoItem)]
  /\ UNCHANGED <<fifo, shut>>

\* EAGAIN: a non-blocking call that would have had to wait.
AgainPush(t) ==
  /\ ~shut
  /\ Len(fifo) = Capacity
  /\ ret' = [ret EXCEPT ![t] = Reply("push", "EAGAIN", NoItem)]
  /\ UNCHANGED <<fifo, shut>>

AgainPop(t) ==
  /\ ~shut
  /\ fifo = <<>>
  /\ ret' = [ret EXCEPT ![t] = Reply("pop", "EAGAIN", NoItem)]
  /\ UNCHANGED <<fifo, shut>>

Shut ==
  /\ shut' = TRUE
  /\ UNCHANGED <<fifo, ret>>

\* Destroying drops what was left; initialising again reopens.
Discard ==
  /\ fifo' = <<>>
  /\ shut' = TRUE
  /\ UNCHANGED ret

Reopen ==
  /\ fifo = <<>>
  /\ shut' = FALSE
  /\ UNCHANGED <<fifo, ret>>

Next ==
  \/ \E t \in Producers :
       \/ \E v \in Items : Accept(t, v)
       \/ RefusePush(t)
       \/ AgainPush(t)
  \/ \E t \in Consumers : Deliver(t) \/ RefusePop(t) \/ AgainPop(t)
  \/ Shut
  \/ Discard
  \/ Reopen

Spec == Init /\ [][Next]_fifoVars
=============================================================================
