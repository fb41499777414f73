-------------------------- MODULE SpscQueueProofs --------------------------
(***************************************************************************)
(* Proofs about SpscQueue, for any capacity and any finite sets of         *)
(* producers and consumers: the type invariant, that close leaves nobody   *)
(* asleep, that no wakeup is lost on either condition variable, that the   *)
(* two sides cannot put each other to sleep, and that the queue implements *)
(* BoundedFifo.                                                            *)
(***************************************************************************)
EXTENDS SpscQueue, FiniteSetTheorems, SequenceTheorems, TLAPS

\* Signal moves at most one thread, from the state it names to the state it
\* names, and leaves a sleeping thread behind only if it woke another one.
LEMMA SignalEffect ==
  ASSUME NEW from, NEW to, NEW pc1, NEW pc2,
         pc1 \in [Threads -> {"idle", "push", "waitFull", "pop", "waitEmpty"}],
         to \in {"push", "pop"}, Signal(from, to, pc1, pc2)
  PROVE  /\ pc2 \in [Threads -> {"idle", "push", "waitFull", "pop", "waitEmpty"}]
         /\ \/ pc2 = pc1 /\ (\A u \in Threads : pc1[u] # from)
            \/ \E u \in Threads : pc1[u] = from /\ pc2 = [pc1 EXCEPT ![u] = to]
  BY DEF Signal

\* Every value a variable takes has its type.
THEOREM TypeCorrect == Spec => []TypeOK
  <1>1. Init => TypeOK
    <2>1. Reply("none", "OK", NoItem) \in Replies
      BY DEF Reply, Replies
    <2>2. Init => closed \in BOOLEAN /\ alive \in BOOLEAN
      BY DEF Init
    <2> QED
      BY <2>1, <2>2, CapacityAssumption DEF Init, TypeOK
  <1>2. TypeOK /\ [Next]_vars => TypeOK'
    <2> SUFFICES ASSUME TypeOK, [Next]_vars
                 PROVE  TypeOK'
      OBVIOUS
    <2> USE CapacityAssumption
    <2> DEFINE PC == {"idle", "push", "waitFull", "pop", "waitEmpty"}
    <2>0. \A op \in {"push", "pop"}, code \in {"OK", "EPIPE", "EAGAIN"},
             item \in Items \cup {NoItem} : Reply(op, code, item) \in Replies
      BY DEF Reply, Replies
    <2>1. ASSUME NEW t \in Threads, NEW v \in Items \cup {NoItem}, Store(t, v),
                 count # Capacity
          PROVE  TypeOK'
      <3>1. [pc EXCEPT ![t] = "idle"] \in [Threads -> PC]
        BY DEF TypeOK
      <3>2. pc' \in [Threads -> PC]
        BY <2>1, <3>1, SignalEffect DEF Store
      <3>3. tail' \in 0 .. Capacity - 1 /\ count' \in 0 .. Capacity
        BY <2>1 DEF Store, TypeOK
      <3>4. ret' \in [Threads -> Replies]
        BY <2>0, <2>1 DEF Store, TypeOK
      <3> QED
        BY <2>1, <3>2, <3>3, <3>4 DEF Store, TypeOK
    <2>2. ASSUME NEW t \in Threads, Take(t), count # 0
          PROVE  TypeOK'
      <3>1. [pc EXCEPT ![t] = "idle"] \in [Threads -> PC]
        BY DEF TypeOK
      <3>2. pc' \in [Threads -> PC]
        BY <2>2, <3>1, SignalEffect DEF Take
      <3>3. head' \in 0 .. Capacity - 1 /\ count' \in 0 .. Capacity
        BY <2>2 DEF Take, TypeOK
      <3>4. ret' \in [Threads -> Replies]
        BY <2>0, <2>2 DEF Take, TypeOK
      <3> QED
        BY <2>2, <3>2, <3>3, <3>4 DEF Take, TypeOK
    <2>3. ASSUME NEW t \in Threads, NEW op \in {"push", "pop"},
                 NEW code \in {"EPIPE", "EAGAIN"}, Refuse(t, op, code)
          PROVE  TypeOK'
      <3>1. ret' \in [Threads -> Replies]
        BY <2>0, <2>3 DEF Refuse, TypeOK
      <3> QED
        BY <2>3, <3>1 DEF Refuse, TypeOK, queueVars
    <2>4. ASSUME NEW t \in Producers, ProducerStep(t)
          PROVE  TypeOK'
      <3>0. t \in Threads
        BY DEF Threads
      <3>1. ASSUME NEW v \in Items, CallPush(t, v)
            PROVE  TypeOK'
        BY <3>0, <3>1 DEF CallPush, TypeOK, queueVars
      <3>2. ASSUME NEW v \in Items, TryPush(t, v)
            PROVE  TypeOK'
        BY <2>1, <2>3, <3>0, <3>2 DEF TryPush
      <3>3. CASE PushWait(t)
        BY <3>0, <3>3 DEF PushWait, TypeOK, queueVars
      <3>4. CASE PushClosed(t)
        BY <2>3, <3>0, <3>4 DEF PushClosed
      <3>5. CASE PushItem(t)
        <4>1. arg[t] \in Items \cup {NoItem}
          BY <3>0 DEF TypeOK
        <4> QED
          BY <2>1, <3>0, <3>5, <4>1 DEF PushItem
      <3> QED
        BY <2>4, <3>1, <3>2, <3>3, <3>4, <3>5 DEF ProducerStep, Push
    <2>5. ASSUME NEW t \in Consumers, ConsumerStep(t)
          PROVE  TypeOK'
      <3>0. t \in Threads
        BY DEF Threads
      <3>1. CASE CallPop(t)
        BY <3>0, <3>1 DEF CallPop, TypeOK, queueVars
      <3>2. CASE TryPop(t)
        BY <2>2, <2>3, <3>0, <3>2 DEF TryPop
      <3>3. CASE PopWait(t)
        BY <3>0, <3>3 DEF PopWait, TypeOK, queueVars
      <3>4. CASE PopClosed(t)
        BY <2>3, <3>0, <3>4 DEF PopClosed
      <3>5. CASE PopItem(t)
        BY <2>2, <3>0, <3>5 DEF PopItem
      <3> QED
        BY <2>5, <3>1, <3>2, <3>3, <3>4, <3>5 DEF ConsumerStep, Pop
    <2>6. ASSUME NEW t \in Threads, SpuriousWakeup(t)
          PROVE  TypeOK'
      BY <2>6 DEF SpuriousWakeup, TypeOK, queueVars
    <2>7. CASE Close
      <3>1. Broadcast(pc) \in [Threads -> PC]
        BY DEF Broadcast, TypeOK
      <3> QED
        BY <2>7, <3>1 DEF Close, TypeOK
    <2>8. CASE Destroy
      <3>1. closed' \in BOOLEAN /\ alive' \in BOOLEAN
        BY <2>8 DEF Destroy
      <3> QED
        BY <2>8, <3>1 DEF Destroy, TypeOK
    <2>9. CASE InitAgain
      <3>1. closed' \in BOOLEAN /\ alive' \in BOOLEAN
        BY <2>9 DEF InitAgain
      <3> QED
        BY <2>9, <3>1 DEF InitAgain, TypeOK
    <2>10. CASE UNCHANGED vars
      BY <2>10 DEF vars, TypeOK
    <2> QED
      BY <2>4, <2>5, <2>6, <2>7, <2>8, <2>9, <2>10 DEF Next
  <1> QED
    BY <1>1, <1>2, PTL DEF Spec

----------------------------------------------------------------------------
\* Close wakes both sides, and the loop conditions keep everybody awake after
\* it: no thread sleeps on a closed queue.
THEOREM ClosedWakesAllCorrect == Spec => []ClosedWakesAll
  <1> USE DEF ClosedWakesAll, Waiting
  <1>1. Init => ClosedWakesAll
    BY DEF Init
  <1>2. TypeOK /\ ClosedWakesAll /\ [Next]_vars => ClosedWakesAll'
    <2> SUFFICES ASSUME TypeOK, ClosedWakesAll, [Next]_vars, closed'
                 PROVE  \A u \in Threads : pc'[u] \notin {"waitFull", "waitEmpty"}
      OBVIOUS
    <2>1. ASSUME NEW t \in Threads, NEW v, Store(t, v)
          PROVE  \A u \in Threads : pc'[u] \notin {"waitFull", "waitEmpty"}
      <3>1. [pc EXCEPT ![t] = "idle"]
              \in [Threads -> {"idle", "push", "waitFull", "pop", "waitEmpty"}]
        BY DEF TypeOK
      <3>2. \A u \in Threads : pc[u] \notin {"waitFull", "waitEmpty"}
        BY <2>1 DEF Store
      <3>3. Signal("waitEmpty", "pop", [pc EXCEPT ![t] = "idle"], pc')
        BY <2>1 DEF Store
      <3>4. pc' = [pc EXCEPT ![t] = "idle"]
        BY <3>2, <3>3 DEF Signal, TypeOK
      <3> QED
        BY <3>2, <3>4 DEF TypeOK
    <2>2. ASSUME NEW t \in Threads, Take(t)
          PROVE  \A u \in Threads : pc'[u] \notin {"waitFull", "waitEmpty"}
      <3>1. [pc EXCEPT ![t] = "idle"]
              \in [Threads -> {"idle", "push", "waitFull", "pop", "waitEmpty"}]
        BY DEF TypeOK
      <3>2. \A u \in Threads : pc[u] \notin {"waitFull", "waitEmpty"}
        BY <2>2 DEF Take
      <3>3. Signal("waitFull", "push", [pc EXCEPT ![t] = "idle"], pc')
        BY <2>2 DEF Take
      <3>4. pc' = [pc EXCEPT ![t] = "idle"]
        BY <3>2, <3>3 DEF Signal, TypeOK
      <3> QED
        BY <3>2, <3>4 DEF TypeOK
    <2>3. ASSUME NEW t \in Threads, NEW op, NEW code, Refuse(t, op, code)
          PROVE  \A u \in Threads : pc'[u] \notin {"waitFull", "waitEmpty"}
      BY <2>3 DEF Refuse, TypeOK, queueVars
    <2>4. ASSUME NEW t \in Producers, ProducerStep(t)
          PROVE  \A u \in Threads : pc'[u] \notin {"waitFull", "waitEmpty"}
      <3>0. t \in Threads
        BY DEF Threads
      <3>1. CASE \E v \in Items : CallPush(t, v)
        BY <3>0, <3>1 DEF CallPush, TypeOK, queueVars
      <3>2. CASE \E v \in Items : TryPush(t, v)
        BY <2>1, <2>3, <3>0, <3>2 DEF TryPush
      <3>3. CASE Push(t)
        BY <2>1, <2>3, <3>0, <3>3
           DEF Push, PushWait, PushClosed, PushItem, TypeOK, queueVars
      <3> QED
        BY <2>4, <3>1, <3>2, <3>3 DEF ProducerStep
    <2>5. ASSUME NEW t \in Consumers, ConsumerStep(t)
          PROVE  \A u \in Threads : pc'[u] \notin {"waitFull", "waitEmpty"}
      <3>0. t \in Threads
        BY DEF Threads
      <3>1. CASE CallPop(t)
        BY <3>0, <3>1 DEF CallPop, TypeOK, queueVars
      <3>2. CASE TryPop(t)
        BY <2>2, <2>3, <3>0, <3>2 DEF TryPop
      <3>3. CASE PopWait(t)
        BY <3>0, <3>3 DEF PopWait, TypeOK, queueVars
      <3>4. CASE PopClosed(t)
        BY <2>3, <3>0, <3>4 DEF PopClosed
      <3>5. CASE PopItem(t)
        BY <2>2, <3>0, <3>5 DEF PopItem
      <3> QED
        BY <2>5, <3>1, <3>2, <3>3, <3>4, <3>5 DEF ConsumerStep, Pop
    <2>6. ASSUME NEW t \in Threads, SpuriousWakeup(t)
          PROVE  \A u \in Threads : pc'[u] \notin {"waitFull", "waitEmpty"}
      BY <2>6 DEF SpuriousWakeup, TypeOK, queueVars
    <2>7. CASE Close
      BY <2>7 DEF Close, Broadcast, TypeOK
    <2>8. CASE Destroy
      BY <2>8 DEF Destroy
    <2>9. CASE InitAgain
      BY <2>9 DEF InitAgain
    <2>10. CASE UNCHANGED vars
      BY <2>10 DEF vars
    <2> QED
      BY <2>4, <2>5, <2>6, <2>7, <2>8, <2>9, <2>10 DEF Next
  <1> QED
    BY <1>1, <1>2, TypeCorrect, PTL DEF Spec

----------------------------------------------------------------------------
LEMMA WaitingFinite ==
  \A where : IsFiniteSet(Waiting(where)) /\ Cardinality(Waiting(where)) \in Nat
  <1>1. IsFiniteSet(Threads)
    BY ThreadsAssumption, FS_Union DEF Threads
  <1> QED
    BY <1>1, FS_Subset, FS_CardinalityType DEF Waiting

LEMMA WaitingFiniteNext ==
  \A where : IsFiniteSet(Waiting(where)') /\ Cardinality(Waiting(where)') \in Nat
  <1>1. IsFiniteSet(Threads)
    BY ThreadsAssumption, FS_Union DEF Threads
  <1> QED
    BY <1>1, FS_Subset, FS_CardinalityType DEF Waiting

\* A step that puts nobody to sleep on not_empty, sends nobody awake in pop
\* home and adds no item cannot lose a wakeup; not_full is the mirror image.
LEMMA PopSleepStep ==
  ASSUME TypeOK, TypeOK', NoLostPop,
         Waiting("waitEmpty")' \subseteq Waiting("waitEmpty"),
         Waiting("pop") \subseteq Waiting("pop")',
         count' <= count
  PROVE  NoLostPop'
  <1>1. Cardinality(Waiting("pop")) <= Cardinality(Waiting("pop")')
    BY WaitingFiniteNext, FS_Subset
  <1>2. count \in Nat /\ count' \in Nat
    BY DEF TypeOK
  <1> QED
    BY <1>1, <1>2, WaitingFinite, WaitingFiniteNext DEF NoLostPop

LEMMA PushSleepStep ==
  ASSUME TypeOK, TypeOK', NoLostPush,
         Waiting("waitFull")' \subseteq Waiting("waitFull"),
         Waiting("push") \subseteq Waiting("push")',
         count <= count'
  PROVE  NoLostPush'
  <1>1. Cardinality(Waiting("push")) <= Cardinality(Waiting("push")')
    BY WaitingFiniteNext, FS_Subset
  <1>2. count \in 0 .. Capacity /\ count' \in 0 .. Capacity
    BY DEF TypeOK
  <1> QED
    BY <1>1, <1>2, WaitingFinite, WaitingFiniteNext, CapacityAssumption
       DEF NoLostPush

\* A push adds one item and, if anyone sleeps on not_empty, one thread awake
\* in pop; it uses up at most the one free slot its own thread stood for.
LEMMA StoreKeepsWakeups ==
  ASSUME TypeOK, TypeOK', NoLostPop, NoLostPush,
         NEW t \in Threads, NEW v, pc[t] \in {"idle", "push"}, Store(t, v),
         count # Capacity
  PROVE  NoLostPop' /\ NoLostPush'
  <1> DEFINE pc1 == [pc EXCEPT ![t] = "idle"]
  <1>0. /\ count' = count + 1 /\ count \in 0 .. Capacity
        /\ count' \in 0 .. Capacity
    BY DEF Store, TypeOK
  <1>1. Signal("waitEmpty", "pop", pc1, pc')
    BY DEF Store
  <1>2. \A u \in Threads : pc1[u] = IF u = t THEN "idle" ELSE pc[u]
    BY DEF TypeOK
  <1>3. NoLostPop'
    <2>1. CASE \A u \in Threads : pc1[u] # "waitEmpty"
      BY <1>1, <1>2, <2>1 DEF Signal, NoLostPop, Waiting
    <2>2. ASSUME NEW u \in Threads, pc1[u] = "waitEmpty",
                 pc' = [pc1 EXCEPT ![u] = "pop"]
          PROVE  NoLostPop'
      <3>1. u \in Waiting("waitEmpty") /\ u \notin Waiting("pop")
        BY <1>2, <2>2 DEF Waiting
      <3>2. Waiting("pop")' = Waiting("pop") \cup {u}
        BY <1>2, <2>2 DEF Waiting, TypeOK
      <3>3. Cardinality(Waiting("pop")') = Cardinality(Waiting("pop")) + 1
        BY <3>1, <3>2, WaitingFinite, FS_AddElement
      <3>4. count <= Cardinality(Waiting("pop"))
        BY <3>1 DEF NoLostPop
      <3> QED
        BY <1>0, <3>3, <3>4, WaitingFinite DEF NoLostPop
    <2> QED
      BY <1>1, <2>1, <2>2 DEF Signal
  <1>4. NoLostPush'
    <2>1. Waiting("waitFull")' = Waiting("waitFull")
      BY <1>1, <1>2 DEF Signal, Waiting, TypeOK
    <2>2. Waiting("push")' = Waiting("push") \ {t}
      BY <1>1, <1>2 DEF Signal, Waiting, TypeOK
    <2>3. Cardinality(Waiting("push")') >= Cardinality(Waiting("push")) - 1
      BY <2>2, WaitingFinite, FS_RemoveElement, SMTT(30)
    <2> QED
      BY <1>0, <2>1, <2>3, WaitingFinite, WaitingFiniteNext, CapacityAssumption
         DEF NoLostPush
  <1> QED
    BY <1>3, <1>4

LEMMA TakeKeepsWakeups ==
  ASSUME TypeOK, TypeOK', NoLostPop, NoLostPush,
         NEW t \in Threads, pc[t] \in {"idle", "pop"}, Take(t), count # 0
  PROVE  NoLostPop' /\ NoLostPush'
  <1> DEFINE pc1 == [pc EXCEPT ![t] = "idle"]
  <1>0. /\ count' = count - 1 /\ count \in 0 .. Capacity
        /\ count' \in 0 .. Capacity
    BY DEF Take, TypeOK
  <1>1. Signal("waitFull", "push", pc1, pc')
    BY DEF Take
  <1>2. \A u \in Threads : pc1[u] = IF u = t THEN "idle" ELSE pc[u]
    BY DEF TypeOK
  <1>3. NoLostPush'
    <2>1. CASE \A u \in Threads : pc1[u] # "waitFull"
      BY <1>1, <1>2, <2>1 DEF Signal, NoLostPush, Waiting
    <2>2. ASSUME NEW u \in Threads, pc1[u] = "waitFull",
                 pc' = [pc1 EXCEPT ![u] = "push"]
          PROVE  NoLostPush'
      <3>1. u \in Waiting("waitFull") /\ u \notin Waiting("push")
        BY <1>2, <2>2 DEF Waiting
      <3>2. Waiting("push")' = Waiting("push") \cup {u}
        BY <1>2, <2>2 DEF Waiting, TypeOK
      <3>3. Cardinality(Waiting("push")') = Cardinality(Waiting("push")) + 1
        BY <3>1, <3>2, WaitingFinite, FS_AddElement
      <3>4. Capacity - count <= Cardinality(Waiting("push"))
        BY <3>1 DEF NoLostPush
      <3> QED
        BY <1>0, <3>3, <3>4, WaitingFinite, CapacityAssumption DEF NoLostPush
    <2> QED
      BY <1>1, <2>1, <2>2 DEF Signal
  <1>4. NoLostPop'
    <2>1. Waiting("waitEmpty")' = Waiting("waitEmpty")
      BY <1>1, <1>2 DEF Signal, Waiting, TypeOK
    <2>2. Waiting("pop")' = Waiting("pop") \ {t}
      BY <1>1, <1>2 DEF Signal, Waiting, TypeOK
    <2>3. Cardinality(Waiting("pop")') >= Cardinality(Waiting("pop")) - 1
      BY <2>2, WaitingFinite, FS_RemoveElement
    <2> QED
      BY <1>0, <2>1, <2>3, WaitingFinite, WaitingFiniteNext DEF NoLostPop
  <1> QED
    BY <1>3, <1>4

\* A refused call comes from a thread that was not asleep.  If it leaves a
\* loop (EPIPE) the queue is closed and nobody sleeps at all.
LEMMA RefuseKeepsWakeups ==
  ASSUME TypeOK, TypeOK', ClosedWakesAll, NoLostPop, NoLostPush,
         NEW t \in Threads, NEW op, NEW code, Refuse(t, op, code),
         pc[t] = "idle" \/ closed
  PROVE  NoLostPop' /\ NoLostPush'
  <1>1. Waiting("waitEmpty")' \subseteq Waiting("waitEmpty")
    BY DEF Refuse, Waiting, TypeOK
  <1>2. Waiting("waitFull")' \subseteq Waiting("waitFull")
    BY DEF Refuse, Waiting, TypeOK
  <1>3. CASE closed
    BY <1>1, <1>2, <1>3 DEF ClosedWakesAll, NoLostPop, NoLostPush
  <1>4. CASE pc[t] = "idle"
    <2>1. pc' = pc /\ count' = count
      BY <1>4 DEF Refuse, TypeOK, queueVars
    <2> QED
      BY <2>1 DEF NoLostPop, NoLostPush, Waiting
  <1> QED
    BY <1>3, <1>4

\* A destroyed queue is closed, so nobody sleeps on it when it is initialised
\* again.
DeadClosed == alive \/ closed

LEMMA DeadIsClosed == Spec => []DeadClosed
  <1> USE DEF DeadClosed
  <1>1. Init => DeadClosed
    BY DEF Init
  <1>2. DeadClosed /\ [Next]_vars => DeadClosed'
    <2> SUFFICES ASSUME alive \/ closed, [Next]_vars
                 PROVE  alive' \/ closed'
      OBVIOUS
    <2>1. CASE \E t \in Producers : ProducerStep(t)
      BY <2>1 DEF ProducerStep, CallPush, TryPush, Push, PushWait, PushClosed,
                  PushItem, Store, Refuse, queueVars
    <2>2. CASE \E t \in Consumers : ConsumerStep(t)
      BY <2>2 DEF ConsumerStep, CallPop, TryPop, Pop, PopWait, PopClosed,
                  PopItem, Take, Refuse, queueVars
    <2>3. CASE \E t \in Threads : SpuriousWakeup(t)
      BY <2>3 DEF SpuriousWakeup, queueVars
    <2>4. CASE Close
      BY <2>4 DEF Close
    <2>5. CASE Destroy
      BY <2>5 DEF Destroy
    <2>6. CASE InitAgain
      BY <2>6 DEF InitAgain
    <2>7. CASE UNCHANGED vars
      BY <2>7 DEF vars
    <2> QED
      BY <2>1, <2>2, <2>3, <2>4, <2>5, <2>6, <2>7 DEF Next
  <1> QED
    BY <1>1, <1>2, PTL DEF Spec

\* With any number of producers and consumers and one pthread_cond_signal per
\* operation, no wakeup is ever lost on either condition variable.
THEOREM NoLostWakeups == Spec => []NoLostWakeup
  <1>1. Init => NoLostPop /\ NoLostPush
    BY DEF Init, NoLostPop, NoLostPush, Waiting
  <1>2. /\ TypeOK /\ TypeOK' /\ ClosedWakesAll /\ DeadClosed
        /\ NoLostPop /\ NoLostPush /\ [Next]_vars
        => NoLostPop' /\ NoLostPush'
    <2> SUFFICES ASSUME TypeOK, TypeOK', ClosedWakesAll, DeadClosed,
                        NoLostPop, NoLostPush, [Next]_vars
                 PROVE  NoLostPop' /\ NoLostPush'
      OBVIOUS
    <2>0. count \in 0 .. Capacity /\ count' \in 0 .. Capacity /\ Capacity \in Nat
      BY CapacityAssumption DEF TypeOK
    <2>1. ASSUME NEW t \in Producers, ProducerStep(t)
          PROVE  NoLostPop' /\ NoLostPush'
      <3>0. t \in Threads
        BY DEF Threads
      <3>1. ASSUME NEW v \in Items, CallPush(t, v)
            PROVE  NoLostPop' /\ NoLostPush'
        <4>1. /\ Waiting("waitEmpty")' = Waiting("waitEmpty")
              /\ Waiting("waitFull")' = Waiting("waitFull")
              /\ Waiting("pop")' = Waiting("pop")
              /\ Waiting("push") \subseteq Waiting("push")'
              /\ count' = count
          BY <3>0, <3>1 DEF CallPush, Waiting, TypeOK, queueVars
        <4> QED
          BY <2>0, <4>1, PopSleepStep, PushSleepStep
      <3>2. ASSUME NEW v \in Items, TryPush(t, v)
            PROVE  NoLostPop' /\ NoLostPush'
        BY <3>0, <3>2, StoreKeepsWakeups, RefuseKeepsWakeups DEF TryPush
      <3>3. CASE PushWait(t)
        <4>1. /\ Waiting("waitEmpty")' = Waiting("waitEmpty")
              /\ Waiting("pop")' = Waiting("pop")
              /\ count' = count /\ count = Capacity
          BY <3>0, <3>3 DEF PushWait, Waiting, TypeOK, queueVars
        <4> QED
          BY <2>0, <4>1, WaitingFiniteNext DEF NoLostPop, NoLostPush
      <3>4. CASE PushClosed(t)
        BY <3>0, <3>4, RefuseKeepsWakeups DEF PushClosed
      <3>5. CASE PushItem(t)
        BY <3>0, <3>5, StoreKeepsWakeups DEF PushItem
      <3> QED
        BY <2>1, <3>1, <3>2, <3>3, <3>4, <3>5 DEF ProducerStep, Push
    <2>2. ASSUME NEW t \in Consumers, ConsumerStep(t)
          PROVE  NoLostPop' /\ NoLostPush'
      <3>0. t \in Threads
        BY DEF Threads
      <3>1. CASE CallPop(t)
        <4>1. /\ Waiting("waitEmpty")' = Waiting("waitEmpty")
              /\ Waiting("waitFull")' = Waiting("waitFull")
              /\ Waiting("push")' = Waiting("push")
              /\ Waiting("pop") \subseteq Waiting("pop")'
              /\ count' = count
          BY <3>0, <3>1 DEF CallPop, Waiting, TypeOK, queueVars
        <4> QED
          BY <2>0, <4>1, PopSleepStep, PushSleepStep
      <3>2. CASE TryPop(t)
        BY <3>0, <3>2, TakeKeepsWakeups, RefuseKeepsWakeups DEF TryPop
      <3>3. CASE PopWait(t)
        <4>1. /\ Waiting("waitFull")' = Waiting("waitFull")
              /\ Waiting("push")' = Waiting("push")
              /\ count' = count /\ count = 0
          BY <3>0, <3>3 DEF PopWait, Waiting, TypeOK, queueVars
        <4> QED
          BY <2>0, <4>1, WaitingFiniteNext DEF NoLostPop, NoLostPush
      <3>4. CASE PopClosed(t)
        BY <3>0, <3>4, RefuseKeepsWakeups DEF PopClosed
      <3>5. CASE PopItem(t)
        BY <3>0, <3>5, TakeKeepsWakeups DEF PopItem
      <3> QED
        BY <2>2, <3>1, <3>2, <3>3, <3>4, <3>5 DEF ConsumerStep, Pop
    <2>3. ASSUME NEW t \in Threads, SpuriousWakeup(t)
          PROVE  NoLostPop' /\ NoLostPush'
      <3>1. /\ Waiting("waitEmpty")' \subseteq Waiting("waitEmpty")
            /\ Waiting("waitFull")' \subseteq Waiting("waitFull")
            /\ Waiting("pop") \subseteq Waiting("pop")'
            /\ Waiting("push") \subseteq Waiting("push")'
            /\ count' = count
        BY <2>3 DEF SpuriousWakeup, Waiting, TypeOK, queueVars
      <3> QED
        BY <2>0, <3>1, PopSleepStep, PushSleepStep
    <2>4. CASE Close
      <3>1. Waiting("waitEmpty")' = {} /\ Waiting("waitFull")' = {}
        BY <2>4 DEF Close, Broadcast, Waiting, TypeOK
      <3> QED
        BY <3>1 DEF NoLostPop, NoLostPush
    <2>5. CASE Destroy
      BY <2>5 DEF Destroy, NoLostPop, NoLostPush, Waiting
    <2>6. CASE InitAgain
      <3>1. Waiting("waitEmpty") = {} /\ Waiting("waitFull") = {}
        BY <2>6 DEF InitAgain, ClosedWakesAll, DeadClosed
      <3> QED
        BY <2>6, <3>1 DEF InitAgain, NoLostPop, NoLostPush, Waiting
    <2>7. CASE UNCHANGED vars
      BY <2>7 DEF vars, NoLostPop, NoLostPush, Waiting
    <2> QED
      BY <2>1, <2>2, <2>3, <2>4, <2>5, <2>6, <2>7 DEF Next
  <1>3. NoLostPop /\ NoLostPush => NoLostWakeup
    BY DEF NoLostWakeup
  <1> QED
    BY <1>1, <1>2, <1>3, TypeCorrect, ClosedWakesAllCorrect, DeadIsClosed, PTL DEF Spec

\* Sleepers on both sides at once always leave somebody awake: the producers
\* and the consumers of one queue cannot deadlock on its condition variables.
THEOREM NoMutualSleepCorrect == Spec => []NoMutualSleep
  <1>1. TypeOK /\ NoLostWakeup => NoMutualSleep
    <2> SUFFICES ASSUME TypeOK, NoLostWakeup,
                        Waiting("waitFull") # {}, Waiting("waitEmpty") # {},
                        Waiting("push") = {}, Waiting("pop") = {}
                 PROVE  FALSE
      BY DEF NoMutualSleep
    <2>1. count <= 0 /\ Capacity - count <= 0
      BY FS_EmptySet DEF NoLostWakeup, NoLostPop, NoLostPush
    <2> QED
      BY <2>1, CapacityAssumption DEF TypeOK
  <1> QED
    BY <1>1, TypeCorrect, NoLostWakeups, PTL

----------------------------------------------------------------------------
\* The refinement of BoundedFifo.

\* The ring from head on, as the refinement mapping reads it.
Ring(b, h, n) == [i \in 1 .. n |-> b[(h + i - 1) % Capacity]]

\* What a cell of the ring holds.
Cell == Items \cup {NoItem}

\* An index that has passed the end of the ring once.
LEMMA ModOnce ==
  \A x \in 0 .. 2 * Capacity - 1 :
    /\ x < Capacity => x % Capacity = x
    /\ x >= Capacity => x % Capacity = x - Capacity
  BY CapacityAssumption, SMTT(20)

\* The cells in use, read in order, are a sequence of count items.
LEMMA RingSeq ==
  ASSUME NEW b \in [0 .. Capacity - 1 -> Cell], NEW h \in 0 .. Capacity - 1, NEW n \in 0 .. Capacity
  PROVE Ring(b, h, n) \in Seq(Cell) /\ Len(Ring(b, h, n)) = n 
     /\ \A i \in 1 .. n : Ring(b, h, n)[i] = b[(h + i - 1) % Capacity]
  <1>1. \A i \in 1 .. n : (h + i - 1) % Capacity \in 0 .. Capacity - 1
    BY CapacityAssumption
  <1>2. Ring(b, h, n) \in [1 .. n -> Cell]
    BY <1>1 DEF Ring
  <1>0. n \in Nat /\ h \in Nat /\ Capacity \in Nat
    BY CapacityAssumption
  <1>3. \A T : \A f \in [1 .. n -> T] : f \in Seq(T) /\ Len(f) = n
    BY <1>0
  <1>4. \A i \in 1 .. n : Ring(b, h, n)[i] = b[(h + i - 1) % Capacity]
    BY DEF Ring
  <1> QED
    BY <1>2, <1>3, <1>4

\* The cell behind the last item is none of those in use.
LEMMA OtherCells ==
  ASSUME NEW h \in 0 .. Capacity - 1, NEW n \in 0 .. Capacity - 1, NEW i \in 1 .. n
  PROVE  (h + i - 1) % Capacity \in 0 .. Capacity - 1 /\ (h + i - 1) % Capacity # (h + n) % Capacity
  <1>0. Capacity \in Nat /\ h \in Nat /\ h < Capacity /\ n \in Nat /\ n < Capacity
    BY CapacityAssumption
  <1>1. h + i - 1 \in 0 .. 2 * Capacity - 1 /\ h + n \in 0 .. 2 * Capacity - 1
    BY <1>0
  <1>2. /\ h + i - 1 < Capacity => (h + i - 1) % Capacity = h + i - 1
        /\ h + i - 1 >= Capacity => (h + i - 1) % Capacity = h + i - 1 - Capacity
    BY <1>0, <1>1, ModOnce
  <1>3. /\ h + n < Capacity => (h + n) % Capacity = h + n
        /\ h + n >= Capacity => (h + n) % Capacity = h + n - Capacity
    BY <1>0, <1>1, ModOnce
  <1> QED
    BY <1>0, <1>2, <1>3

\* Advancing head drops the oldest item.
LEMMA RingTail ==
  ASSUME NEW b \in [0 .. Capacity - 1 -> Cell], NEW h \in 0 .. Capacity - 1,
         NEW n \in 1 .. Capacity
  PROVE  /\ Ring(b, h, n) # <<>>
         /\ Head(Ring(b, h, n)) = b[h]
         /\ Ring(b, (h + 1) % Capacity, n - 1) = Tail(Ring(b, h, n))
  <1> DEFINE k == (h + 1) % Capacity
             s == Ring(b, h, n)
             t == Ring(b, k, n - 1)
  <1>0. n \in Nat /\ n > 0 /\ n <= Capacity /\ n - 1 \in 0 .. Capacity /\ n \in 0 .. Capacity /\ Capacity \in Nat /\ h \in Nat /\ h < Capacity
    BY CapacityAssumption
  <1>1. /\ h + 1 < Capacity => k = h + 1
        /\ h + 1 >= Capacity => k = h + 1 - Capacity
    BY <1>0, ModOnce
  <1>2. k \in 0 .. Capacity - 1
    BY <1>0, <1>1
  <1> HIDE DEF k
  <1>3. s \in Seq(Cell) /\ Len(s) = n /\ \A i \in 1 .. n : s[i] = b[(h + i - 1) % Capacity]
    BY <1>0, RingSeq
  <1>4. t \in Seq(Cell) /\ Len(t) = n - 1 /\ \A i \in 1 .. n - 1 : t[i] = b[(k + i - 1) % Capacity]
    BY <1>0, <1>2, RingSeq
  <1>5. s[1] = b[h]
    <2>1. s[1] = b[(h + 1 - 1) % Capacity] /\ h + 1 - 1 = h
      BY <1>0, <1>3
    <2>2. h % Capacity = h
      BY <1>0, ModOnce
    <2> HIDE DEF s
    <2> QED
      BY <2>1, <2>2
  <1>6. \A i \in 1 .. n - 1 : t[i] = s[i + 1]
    <2> SUFFICES ASSUME NEW i \in 1 .. n - 1 PROVE t[i] = s[i + 1]
      OBVIOUS
    <2>1. t[i] = b[(k + i - 1) % Capacity] /\ s[i + 1] = b[(h + (i + 1) - 1) % Capacity]
      BY <1>0, <1>3, <1>4
    <2>2. h + i \in 0 .. 2 * Capacity - 1 /\ k + i - 1 \in 0 .. 2 * Capacity - 1 /\ h + (i + 1) - 1 = h + i
      BY <1>0, <1>2
    <2>3. /\ h + i < Capacity => (h + i) % Capacity = h + i
          /\ h + i >= Capacity => (h + i) % Capacity = h + i - Capacity
      BY <1>0, <1>2, <2>2, ModOnce
    <2>4. /\ k + i - 1 < Capacity => (k + i - 1) % Capacity = k + i - 1
          /\ k + i - 1 >= Capacity => (k + i - 1) % Capacity = k + i - 1 - Capacity
      BY <1>0, <1>2, <2>2, ModOnce
    <2>5. (k + i - 1) % Capacity = (h + i) % Capacity
      BY <2>3, <2>4, <1>0, <1>1
    <2> HIDE DEF s, t
    <2> QED
      BY <2>1, <2>2, <2>5
  <1> HIDE DEF s, t
  <1>7. s # <<>>
    BY <1>0, <1>3, EmptySeq
  <1>8. Tail(s) \in Seq(Cell) /\ Len(Tail(s)) = n - 1 /\ \A i \in 1 .. n - 1 : Tail(s)[i] = s[i + 1]
    BY <1>3, <1>7, HeadTailProperties
  <1>9. t = Tail(s)
    <2>1. \A i \in 1 .. Len(t) : t[i] = Tail(s)[i]
      BY <1>4, <1>6, <1>8
    <2> QED
      BY <1>4, <1>8, <2>1, SeqEqual
  <1>10. Head(s) = b[h]
    BY <1>3, <1>5, <1>7
  <1> QED
    BY <1>7, <1>9, <1>10 DEF s, t, k

\* A ring without items is the empty sequence.
LEMMA RingEmpty == \A b, h : Ring(b, h, 0) = <<>>
  BY DEF Ring

\* What the refinement needs of a state: a thread inside push carries an item, a
\* destroyed queue is closed and empty, and tail is count slots after head.
Carrying == \A t \in Threads : pc[t] \in {"push", "waitFull"} => arg[t] \in Items
DeadEmpty == ~alive => closed /\ count = 0
TailFollows == tail = (head + count) % Capacity
RefInv == Carrying /\ DeadEmpty /\ TailFollows

\* The woken thread of a signal carries what it carried when it went to sleep.
LEMMA SignalCarrying ==
  ASSUME TypeOK, Carrying, NEW t \in Threads,
         \/ Signal("waitEmpty", "pop", [pc EXCEPT ![t] = "idle"], pc')
         \/ Signal("waitFull", "push", [pc EXCEPT ![t] = "idle"], pc'),
         arg' = [arg EXCEPT ![t] = NoItem] \/ arg' = arg
  PROVE  Carrying'
  <1> SUFFICES ASSUME NEW u \in Threads, pc'[u] \in {"push", "waitFull"}
               PROVE  arg'[u] \in Items
    BY DEF Carrying
  <1>1. u # t /\ pc[u] \in {"push", "waitFull"}
    <2>1. CASE Signal("waitEmpty", "pop", [pc EXCEPT ![t] = "idle"], pc')
      BY <2>1 DEF Signal, TypeOK
    <2>2. CASE Signal("waitFull", "push", [pc EXCEPT ![t] = "idle"], pc')
      BY <2>2 DEF Signal, TypeOK
    <2> QED
      BY <2>1, <2>2
  <1> QED
    BY <1>1 DEF Carrying, TypeOK

\* Storing at tail appends to the items.
LEMMA StoreRef ==
  ASSUME TypeOK, RefInv, NEW t \in Threads, NEW v \in Items, Store(t, v),
         ~closed, count # Capacity
  PROVE  RefInv' /\ Ring(buf', head', count') = Append(Ring(buf, head, count), v)
  <1>0. /\ Capacity \in Nat /\ Capacity > 0 /\ head \in 0 .. Capacity - 1
        /\ count \in 0 .. Capacity - 1 /\ tail = (head + count) % Capacity
        /\ buf \in [0 .. Capacity - 1 -> Cell] /\ v \in Cell
    BY CapacityAssumption DEF TypeOK, RefInv, TailFollows, Cell
  <1>1. Carrying'
    BY SignalCarrying DEF Store, RefInv
  <1>2. DeadEmpty'
    BY DEF Store, RefInv, DeadEmpty
  <1>3. TailFollows'
    <2>1. tail' = (tail + 1) % Capacity /\ head' = head /\ count' = count + 1
      BY DEF Store
    <2>2. head + count \in 0 .. 2 * Capacity - 1 /\ head + (count + 1) \in 0 .. 2 * Capacity - 1
      BY <1>0
    <2>3. /\ head + count < Capacity => tail = head + count
          /\ head + count >= Capacity => tail = head + count - Capacity
      BY <1>0, <2>2, ModOnce
    <2>4. tail + 1 \in 0 .. 2 * Capacity - 1 /\ tail \in Nat
      BY <1>0, <2>3
    <2>5. /\ tail + 1 < Capacity => (tail + 1) % Capacity = tail + 1
          /\ tail + 1 >= Capacity => (tail + 1) % Capacity = tail + 1 - Capacity
      BY <1>0, <2>4, ModOnce
    <2>6. /\ head + (count + 1) < Capacity => (head + (count + 1)) % Capacity = head + (count + 1)
          /\ head + (count + 1) >= Capacity =>
               (head + (count + 1)) % Capacity = head + (count + 1) - Capacity
      BY <1>0, <2>2, ModOnce
    <2>7. (tail + 1) % Capacity = (head + (count + 1)) % Capacity
      BY <1>0, <2>3, <2>5, <2>6
    <2> QED
      BY <2>1, <2>7 DEF TailFollows
  <1>4. Ring(buf', head, count + 1) = Append(Ring(buf, head, count), v)
    <2> DEFINE k == (head + count) % Capacity
               r == Ring(buf, head, count)
               q == Ring(buf', head, count + 1)
    <2>0. /\ k \in 0 .. Capacity - 1 /\ count \in 0 .. Capacity /\ count + 1 \in 0 .. Capacity
          /\ buf \in [0 .. Capacity - 1 -> Cell] /\ v \in Cell
      BY <1>0 DEF Cell
    <2>1. buf' = [buf EXCEPT ![k] = v] /\ buf' \in [0 .. Capacity - 1 -> Cell]
      BY <1>0, <2>0 DEF Store
    <2> HIDE DEF k
    <2>2. /\ r \in Seq(Cell) /\ Len(r) = count
          /\ \A i \in 1 .. count : r[i] = buf[(head + i - 1) % Capacity]
      BY <1>0, <2>0, RingSeq
    <2>3. /\ q \in Seq(Cell) /\ Len(q) = count + 1
          /\ \A i \in 1 .. count + 1 : q[i] = buf'[(head + i - 1) % Capacity]
      <3> DEFINE b == buf'
      <3>1. b \in [0 .. Capacity - 1 -> Cell] /\ head \in 0 .. Capacity - 1
        BY <1>0, <2>1
      <3>2. q = Ring(b, head, count + 1)
        OBVIOUS
      <3> HIDE DEF b
      <3>3. /\ Ring(b, head, count + 1) \in Seq(Cell) /\ Len(Ring(b, head, count + 1)) = count + 1
            /\ \A i \in 1 .. count + 1 : Ring(b, head, count + 1)[i] = b[(head + i - 1) % Capacity]
        BY <2>0, <3>1, RingSeq
      <3> QED
        BY <3>2, <3>3 DEF b
    <2>4. \A i \in 1 .. count : (head + i - 1) % Capacity \in (0 .. Capacity - 1) \ {k}
      BY <1>0, OtherCells DEF k
    <2> HIDE DEF r, q
    <2>5. \A i \in 1 .. count : q[i] = r[i]
      <3> SUFFICES ASSUME NEW i \in 1 .. count
                   PROVE  q[i] = r[i]
        OBVIOUS
      <3>1. /\ q[i] = buf'[(head + i - 1) % Capacity]
            /\ r[i] = buf[(head + i - 1) % Capacity]
        BY <2>0, <2>2, <2>3
      <3> QED
        BY <2>0, <2>1, <2>4, <3>1
    <2>6. q[count + 1] = v
      <3>1. q[count + 1] = buf'[(head + (count + 1) - 1) % Capacity]
        BY <2>0, <2>3
      <3>2. head + (count + 1) - 1 = head + count
        BY <1>0
      <3> QED
        BY <2>0, <2>1, <3>1, <3>2 DEF k
    <2>7. /\ Append(r, v) \in Seq(Cell) /\ Len(Append(r, v)) = count + 1
          /\ \A i \in 1 .. count : Append(r, v)[i] = r[i]
          /\ Append(r, v)[count + 1] = v
      BY <2>0, <2>2, AppendProperties
    <2>8. \A i \in 1 .. Len(q) : q[i] = Append(r, v)[i]
      BY <2>0, <2>3, <2>5, <2>6, <2>7
    <2>9. q = Append(r, v)
      BY <2>3, <2>7, <2>8, SeqEqual
    <2> QED
      BY <2>9 DEF r, q
  <1>5. head' = head /\ count' = count + 1
    BY <1>0 DEF Store
  <1> QED
    BY <1>1, <1>2, <1>3, <1>4, <1>5 DEF RefInv

\* Taking at head removes the oldest item and returns it.
LEMMA TakeRef ==
  ASSUME TypeOK, RefInv, NEW t \in Threads, Take(t), count # 0
  PROVE  /\ RefInv'
         /\ Ring(buf, head, count) # <<>>
         /\ buf[head] = Head(Ring(buf, head, count))
         /\ Ring(buf', head', count') = Tail(Ring(buf, head, count))
  <1>0. /\ Capacity \in Nat /\ Capacity > 0 /\ head \in 0 .. Capacity - 1
        /\ count \in 1 .. Capacity /\ tail = (head + count) % Capacity
        /\ buf \in [0 .. Capacity - 1 -> Cell]
    BY CapacityAssumption DEF TypeOK, RefInv, TailFollows, Cell
  <1>1. Carrying'
    BY SignalCarrying DEF Take, RefInv
  <1>2. DeadEmpty'
    BY DEF Take, RefInv, DeadEmpty
  <1>3. TailFollows'
    <2> DEFINE k == (head + 1) % Capacity
    <2>1. tail' = tail /\ head' = k /\ count' = count - 1
      BY DEF Take
    <2>2. head + 1 \in 0 .. 2 * Capacity - 1 /\ head + count \in 0 .. 2 * Capacity - 1
      BY <1>0
    <2>3. /\ head + 1 < Capacity => k = head + 1
          /\ head + 1 >= Capacity => k = head + 1 - Capacity
      BY <1>0, <2>2, ModOnce
    <2> HIDE DEF k
    <2>4. k \in Nat /\ k < Capacity /\ k + (count - 1) \in 0 .. 2 * Capacity - 1
      BY <1>0, <2>3
    <2>5. /\ head + count < Capacity => (head + count) % Capacity = head + count
          /\ head + count >= Capacity => (head + count) % Capacity = head + count - Capacity
      BY <1>0, <2>2, ModOnce
    <2>6. /\ k + (count - 1) < Capacity => (k + (count - 1)) % Capacity = k + (count - 1)
          /\ k + (count - 1) >= Capacity => (k + (count - 1)) % Capacity = k + (count - 1) - Capacity
      BY <1>0, <2>4, ModOnce
    <2>7. (head + count) % Capacity = (k + (count - 1)) % Capacity
      BY <1>0, <2>3, <2>4, <2>5, <2>6
    <2> QED
      BY <1>0, <2>1, <2>7 DEF TailFollows
  <1>4. /\ Ring(buf, head, count) # <<>>
        /\ Head(Ring(buf, head, count)) = buf[head]
        /\ Ring(buf, (head + 1) % Capacity, count - 1) = Tail(Ring(buf, head, count))
    BY <1>0, RingTail
  <1>5. buf' = buf /\ head' = (head + 1) % Capacity /\ count' = count - 1
    BY DEF Take
  <1> QED
    BY <1>1, <1>2, <1>3, <1>4, <1>5 DEF RefInv

\* The abstract queue.
RingNow == Ring(buf, head, count)

\* The abstract queue is as long as count says.
LEMMA RingLen ==
  TypeOK => /\ RingNow \in Seq(Cell) /\ Len(RingNow) = count
            /\ RingNow = <<>> <=> count = 0
  <1> SUFFICES ASSUME TypeOK
               PROVE  /\ RingNow \in Seq(Cell) /\ Len(RingNow) = count
                      /\ RingNow = <<>> <=> count = 0
    OBVIOUS
  <1>0. /\ buf \in [0 .. Capacity - 1 -> Cell] /\ head \in 0 .. Capacity - 1
        /\ count \in 0 .. Capacity /\ Capacity \in Nat
    BY CapacityAssumption DEF TypeOK, Cell
  <1>1. RingNow \in Seq(Cell) /\ Len(RingNow) = count
    BY <1>0, RingSeq DEF RingNow
  <1> QED
    BY <1>0, <1>1, EmptySeq

\* A store is an accepted push of the abstract queue,
LEMMA StoreAccepted ==
  ASSUME TypeOK, RefInv, NEW t \in Producers, NEW v \in Items, Store(t, v),
         ~closed, count # Capacity
  PROVE  RefInv' /\ Fifo!Next
  <1>0. t \in Threads
    BY DEF Threads
  <1>1. RefInv' /\ RingNow' = Append(RingNow, v)
    BY <1>0, StoreRef DEF RingNow
  <1>2. Len(RingNow) < Capacity
    BY RingLen, CapacityAssumption DEF TypeOK
  <1>3. ret' = [ret EXCEPT ![t] = Fifo!Reply("push", "OK", NoItem)] /\ UNCHANGED closed
    BY DEF Store, Reply, Fifo!Reply
  <1>4. Fifo!Accept(t, v)
    BY <1>1, <1>2, <1>3 DEF Fifo!Accept, RingNow, Ring
  <1> QED
    BY <1>1, <1>4 DEF Fifo!Next

\* a take is a delivery,
LEMMA TakeDelivered ==
  ASSUME TypeOK, RefInv, NEW t \in Consumers, Take(t), count # 0
  PROVE  RefInv' /\ Fifo!Next
  <1>0. t \in Threads
    BY DEF Threads
  <1>1. /\ RefInv'
        /\ RingNow # <<>> /\ buf[head] = Head(RingNow) /\ RingNow' = Tail(RingNow)
    BY <1>0, TakeRef DEF RingNow
  <1>3. ret' = [ret EXCEPT ![t] = Fifo!Reply("pop", "OK", Head(RingNow))] /\ UNCHANGED closed
    BY <1>1 DEF Take, Reply, Fifo!Reply
  <1>4. Fifo!Deliver(t)
    BY <1>1, <1>3 DEF Fifo!Deliver, RingNow, Ring
  <1> QED
    BY <1>1, <1>4 DEF Fifo!Next

\* a call that goes in, to sleep or back to its loop is no step of it,
LEMMA StutterRef ==
  ASSUME TypeOK, RefInv, UNCHANGED <<queueVars, ret>>, Carrying'
  PROVE  RefInv' /\ UNCHANGED Fifo!fifoVars
  BY DEF RefInv, DeadEmpty, TailFollows, queueVars, Fifo!fifoVars

\* and a refusal changes nothing but the answer.
LEMMA RefuseRef ==
  ASSUME TypeOK, RefInv, NEW t \in Threads, NEW op, NEW code, Refuse(t, op, code)
  PROVE  /\ RefInv'
         /\ ret' = [ret EXCEPT ![t] = Fifo!Reply(op, code, NoItem)]
         /\ UNCHANGED <<buf, head, count, closed>>
  BY DEF RefInv, Carrying, DeadEmpty, TailFollows, Refuse, queueVars, TypeOK, Reply, Fifo!Reply

\* Every step is a step of the abstract queue or none.
LEMMA RefinedStep ==
  ASSUME TypeOK, RefInv, [Next]_vars
  PROVE  RefInv' /\ [Fifo!Next]_(Fifo!fifoVars)
  <1>1. ASSUME NEW t \in Producers, ProducerStep(t)
        PROVE  RefInv' /\ [Fifo!Next]_(Fifo!fifoVars)
    <2>0. t \in Threads
      BY DEF Threads
    <2>1. ASSUME NEW v \in Items, CallPush(t, v)
          PROVE  RefInv' /\ [Fifo!Next]_(Fifo!fifoVars)
      <3>1. Carrying'
        BY <2>0, <2>1 DEF CallPush, RefInv, Carrying, TypeOK
      <3> QED
        BY <2>1, <3>1, StutterRef DEF CallPush
    <2>2. ASSUME Refuse(t, "push", "EPIPE"), closed
          PROVE  RefInv' /\ [Fifo!Next]_(Fifo!fifoVars)
      <3>1. /\ RefInv' /\ UNCHANGED <<buf, head, count, closed>>
            /\ ret' = [ret EXCEPT ![t] = Fifo!Reply("push", "EPIPE", NoItem)]
        BY <2>0, <2>2, RefuseRef
      <3>2. Fifo!RefusePush(t)
        BY <2>2, <3>1 DEF Fifo!RefusePush
      <3> QED
        BY <3>1, <3>2 DEF Fifo!Next
    <2>3. ASSUME NEW v \in Items, TryPush(t, v)
          PROVE  RefInv' /\ [Fifo!Next]_(Fifo!fifoVars)
      <3>1. CASE closed /\ Refuse(t, "push", "EPIPE")
        BY <2>2, <3>1
      <3>2. CASE ~closed /\ count = Capacity /\ Refuse(t, "push", "EAGAIN")
        <4>1. /\ RefInv' /\ UNCHANGED <<buf, head, count, closed>>
              /\ ret' = [ret EXCEPT ![t] = Fifo!Reply("push", "EAGAIN", NoItem)]
          BY <2>0, <3>2, RefuseRef
        <4>2. Len(RingNow) = Capacity
          BY <3>2, RingLen
        <4>3. Fifo!AgainPush(t)
          BY <3>2, <4>1, <4>2 DEF Fifo!AgainPush, RingNow, Ring
        <4> QED
          BY <4>1, <4>3 DEF Fifo!Next
      <3>3. CASE ~closed /\ count # Capacity /\ Store(t, v)
        BY <3>3, StoreAccepted
      <3> QED
        BY <2>3, <3>1, <3>2, <3>3 DEF TryPush
    <2>4. CASE PushWait(t)
      <3>1. Carrying'
        BY <2>0, <2>4 DEF PushWait, RefInv, Carrying, TypeOK
      <3> QED
        BY <2>4, <3>1, StutterRef DEF PushWait
    <2>5. CASE PushClosed(t)
      BY <2>2, <2>5 DEF PushClosed
    <2>6. CASE PushItem(t)
      <3>1. arg[t] \in Items
        BY <2>0, <2>6 DEF PushItem, RefInv, Carrying
      <3> QED
        BY <2>6, <3>1, StoreAccepted DEF PushItem
    <2> QED
      BY <1>1, <2>1, <2>3, <2>4, <2>5, <2>6 DEF ProducerStep, Push
  <1>2. ASSUME NEW t \in Consumers, ConsumerStep(t)
        PROVE  RefInv' /\ [Fifo!Next]_(Fifo!fifoVars)
    <2>0. t \in Threads
      BY DEF Threads
    <2>1. CASE CallPop(t)
      <3>1. Carrying'
        BY <2>0, <2>1 DEF CallPop, RefInv, Carrying, TypeOK
      <3> QED
        BY <2>1, <3>1, StutterRef DEF CallPop
    <2>2. ASSUME count = 0, closed, Refuse(t, "pop", "EPIPE")
          PROVE  RefInv' /\ [Fifo!Next]_(Fifo!fifoVars)
      <3>1. /\ RefInv' /\ UNCHANGED <<buf, head, count, closed>>
            /\ ret' = [ret EXCEPT ![t] = Fifo!Reply("pop", "EPIPE", NoItem)]
        BY <2>0, <2>2, RefuseRef
      <3>2. RingNow = <<>>
        BY <2>2, RingLen
      <3>3. Fifo!RefusePop(t)
        BY <2>2, <3>1, <3>2 DEF Fifo!RefusePop, RingNow, Ring
      <3> QED
        BY <3>1, <3>3 DEF Fifo!Next
    <2>3. ASSUME count = 0, ~closed, Refuse(t, "pop", "EAGAIN")
          PROVE  RefInv' /\ [Fifo!Next]_(Fifo!fifoVars)
      <3>1. /\ RefInv' /\ UNCHANGED <<buf, head, count, closed>>
            /\ ret' = [ret EXCEPT ![t] = Fifo!Reply("pop", "EAGAIN", NoItem)]
        BY <2>0, <2>3, RefuseRef
      <3>2. RingNow = <<>>
        BY <2>3, RingLen
      <3>3. Fifo!AgainPop(t)
        BY <2>3, <3>1, <3>2 DEF Fifo!AgainPop, RingNow, Ring
      <3> QED
        BY <3>1, <3>3 DEF Fifo!Next
    <2>4. ASSUME count # 0, Take(t)
          PROVE  RefInv' /\ [Fifo!Next]_(Fifo!fifoVars)
      BY <2>4, TakeDelivered
    <2>5. CASE TryPop(t)
      BY <2>2, <2>3, <2>4, <2>5 DEF TryPop
    <2>6. CASE PopWait(t)
      <3>1. Carrying'
        BY <2>0, <2>6 DEF PopWait, RefInv, Carrying, TypeOK
      <3> QED
        BY <2>6, <3>1, StutterRef DEF PopWait
    <2>7. CASE PopClosed(t)
      BY <2>2, <2>7 DEF PopClosed
    <2>8. CASE PopItem(t)
      BY <2>4, <2>8 DEF PopItem
    <2> QED
      BY <1>2, <2>1, <2>5, <2>6, <2>7, <2>8 DEF ConsumerStep, Pop
  <1>3. ASSUME NEW t \in Threads, SpuriousWakeup(t)
        PROVE  RefInv' /\ [Fifo!Next]_(Fifo!fifoVars)
    <2>1. Carrying'
      BY <1>3 DEF SpuriousWakeup, RefInv, Carrying, TypeOK
    <2> QED
      BY <1>3, <2>1, StutterRef DEF SpuriousWakeup
  <1>4. CASE Close
    <2>1. Carrying'
      BY <1>4 DEF Close, Broadcast, RefInv, Carrying, TypeOK
    <2>2. RefInv'
      BY <1>4, <2>1 DEF Close, RefInv, DeadEmpty, TailFollows
    <2>3. Fifo!Shut
      BY <1>4 DEF Close, Fifo!Shut
    <2> QED
      BY <2>2, <2>3 DEF Fifo!Next
  <1>5. CASE Destroy
    <2>1. RefInv'
      <3>1. (0 + 0) % Capacity = 0
        BY CapacityAssumption, ModOnce
      <3> QED
        BY <1>5, <3>1 DEF Destroy, RefInv, Carrying, DeadEmpty, TailFollows
    <2>2. RingNow' = <<>>
      BY <1>5, RingEmpty DEF Destroy, RingNow
    <2>3. Fifo!Discard
      BY <1>5, <2>2 DEF Destroy, Fifo!Discard, RingNow, Ring
    <2> QED
      BY <2>1, <2>3 DEF Fifo!Next
  <1>6. CASE InitAgain
    <2>1. RefInv'
      <3>1. (0 + 0) % Capacity = 0
        BY CapacityAssumption, ModOnce
      <3> QED
        BY <1>6, <3>1 DEF InitAgain, RefInv, Carrying, DeadEmpty, TailFollows
    <2>2. RingNow = <<>>
      BY <1>6, RingLen DEF InitAgain, RefInv, DeadEmpty
    <2>3. RingNow' = <<>>
      BY <1>6, RingEmpty DEF InitAgain, RingNow
    <2>4. Fifo!Reopen
      BY <1>6, <2>2, <2>3 DEF InitAgain, Fifo!Reopen, RingNow, Ring
    <2> QED
      BY <2>1, <2>4 DEF Fifo!Next
  <1>7. CASE UNCHANGED vars
    <2>1. Carrying'
      BY <1>7 DEF vars, RefInv, Carrying
    <2> QED
      BY <1>7, <2>1, StutterRef DEF vars, queueVars
  <1> QED
    BY <1>1, <1>2, <1>3, <1>4, <1>5, <1>6, <1>7 DEF Next

\* The ring with its mutex and its condition variables is the bounded FIFO that
\* spsc_queue.h promises: order, bound, drain after close and the code of each call,
\* through destroy and a new init.
THEOREM Refinement == Spec => ImplementsFifo
  <1>1. Init => RefInv /\ Fifo!Init
    <2> SUFFICES ASSUME Init
                 PROVE  RefInv /\ Fifo!Init
      OBVIOUS
    <2>1. (0 + 0) % Capacity = 0
      BY CapacityAssumption, ModOnce
    <2>2. RefInv
      BY <2>1 DEF Init, RefInv, Carrying, DeadEmpty, TailFollows
    <2>3. RingNow = <<>>
      BY RingEmpty DEF Init, RingNow
    <2>4. Fifo!Init
      BY <2>3 DEF Init, Fifo!Init, RingNow, Ring, Reply, Fifo!Reply, Threads
    <2> QED
      BY <2>2, <2>4
  <1>2. TypeOK /\ RefInv /\ [Next]_vars => RefInv' /\ [Fifo!Next]_(Fifo!fifoVars)
    BY RefinedStep
  <1> QED
    BY <1>1, <1>2, TypeCorrect, PTL DEF Spec, ImplementsFifo, Fifo!Spec
=============================================================================
