-------------------------- MODULE LifecycleProofs --------------------------
(***************************************************************************)
(* Proofs about the program around its IPC server, for any number of       *)
(* clients, whatever they send, and queues of any capacity: each client    *)
(* gets the answers to its own requests, once and in order, although       *)
(* descriptors are closed and given out again in the middle of a batch of  *)
(* events.  And about its applications, for any directories, cards and     *)
(* processes: over reloads of the table, a background application that     *)
(* runs is the one its entry names, and the extension map leads to the     *)
(* first entry that declares an extension.                                 *)
(***************************************************************************)
EXTENDS Lifecycle, FiniteSetTheorems, SequenceTheorems, WellFoundedInduction, TLAPS

Results == {"ok", "nomem", "invalid_request", "state_conflict", "unknown", "length_mismatch", "too_long"}
\* An answer with the size its type and that of the request announce.
Answers ==
  {a \in [req : Requests, type : Results, size : {"bare", "data"}] :
     /\ a.size = IF a.type = "ok" THEN RespSize(a.req.type) ELSE "bare"
     /\ a.type = "ok" => a.req.size = ReqSize(a.req.type)}
Pushes == {"helper", "prts"}
Outcomes == [res : Results, todo : Seq(Pushes)]
Programs == [at : {"away", "here", "left"}, todo : Seq(Requests), sent : Seq(Requests), got : Seq(Answers)]
Events == [fd : {0} \cup Fds, hup : BOOLEAN, of : Clients \cup {NoClient}]
Threads ==
  [pc : {"wait", "event", "ended"}, batch : Seq(Events)]
  \cup [pc : {"push"}, batch : Seq(Events), req : Requests, res : Results, todo : Seq(Pushes)]

ClientTyped == client \in [Clients -> Programs]
SocketTyped == backlog \in Seq(Clients) /\ fd \in [Fds -> Clients \cup {NoClient}] /\ inbox \in [Clients -> Seq(Requests)]
IpcTyped == ipc \in Threads
Typed == ClientTyped /\ SocketTyped /\ IpcTyped

\* A client has at most one connection, in the backlog or with a descriptor, and
\* none before it connects.
OneConnection ==
  /\ \A f, g \in Fds : fd[f] # NoClient /\ f # g => fd[f] # fd[g]
  /\ \A i, j \in DOMAIN backlog : i # j => backlog[i] # backlog[j]
  /\ \A i \in DOMAIN backlog, f \in Fds : fd[f] # backlog[i]
  /\ \A c \in Clients : client[c].at = "away" =>
       /\ \A f \in Fds : fd[f] # c
       /\ \A i \in DOMAIN backlog : backlog[i] # c

\* What is left of a batch is about descriptors that are still those of the clients
\* they were reported for.
OwnEvents ==
  /\ \A i \in DOMAIN ipc.batch : ipc.batch[i].fd # 0 =>
       /\ ipc.batch[i].of \in Clients /\ fd[ipc.batch[i].fd] = ipc.batch[i].of
       /\ ipc.batch[i].hup => client[ipc.batch[i].of].at = "left"
  /\ \A i, j \in DOMAIN ipc.batch :
       ipc.batch[i].fd # 0 /\ i # j => ipc.batch[i].fd # ipc.batch[j].fd

\* The request that is served.
Serves(c) == ipc.pc = "push" /\ ipc.batch[1].of = c
InHand(c) == IF Serves(c) THEN 1 ELSE 0
ServedRightly ==
  ipc.pc = "push" =>
    /\ ipc.batch # <<>> /\ ipc.batch[1].fd # 0
    /\ ipc.res = "ok" => ipc.req.size = ReqSize(ipc.req.type)

\* What a client has sent is what was answered, what is being served and what was
\* not read yet, in this order, as long as it is there.
AccountedFor(c) ==
  client[c].at # "left" =>
    /\ Len(client[c].sent) = Len(client[c].got) + InHand(c) + Len(inbox[c])
    /\ Serves(c) => ipc.req = client[c].sent[Len(client[c].got) + 1]
    /\ \A j \in DOMAIN inbox[c] : inbox[c][j] = client[c].sent[Len(client[c].got) + InHand(c) + j]
Accounted == \A c \in Clients : AccountedFor(c)

\* AnswersInOrder, but for what concerns one answer alone.
Answered ==
  \A c \in Clients : \A k \in DOMAIN client[c].got :
    k <= Len(client[c].sent) /\ client[c].got[k].req = client[c].sent[k]

IInv == Typed /\ OneConnection /\ OwnEvents /\ ServedRightly /\ Accounted /\ Answered

----------------------------------------------------------------------------
\* Sizes, sets of numbers, outcomes of handlers.

LEMMA LeastNat ==
  ASSUME NEW S \in SUBSET Nat, S # {}
  PROVE  \E x \in S : \A y \in S : x <= y
  <1>1. PICK x \in S : \A y \in S : <<y, x>> \notin OpToRel(<, Nat)
    <2>1. IsWellFoundedOn(OpToRel(<, Nat), Nat)
      BY NatLessThanWellFounded
    <2> HIDE DEF IsWellFoundedOn
    <2> QED
      BY <2>1, WFMin, Zenon
  <1>2. \A y \in S : ~ (y < x)
    BY <1>1 DEF OpToRel
  <1> QED
    BY <1>2

LEMMA FdsAreNumbers == Cardinality(Clients) \in Nat /\ Fds \subseteq Nat \ {0}
  BY IpcAssumption, FS_CardinalityType DEF Fds

\* A client that waits to be accepted leaves a descriptor for it: there are as many
\* as clients, and each client has at most one.
LEMMA LowestFreeIsFree ==
  ASSUME Typed, OneConnection, backlog # <<>>
  PROVE  LowestFree \in Fds /\ fd[LowestFree] = NoClient
  <1> DEFINE free == {f \in Fds : fd[f] = NoClient}
             others == Clients \ {backlog[1]}
  <1>1. backlog \in Seq(Clients) /\ fd \in [Fds -> Clients \cup {NoClient}]
    BY DEF Typed, SocketTyped
  <1>2. 1 \in DOMAIN backlog /\ backlog[1] \in Clients
    BY <1>1
  <1>3. free # {}
    <2> SUFFICES ASSUME free = {} PROVE FALSE
      OBVIOUS
    <2>1. fd \in [Fds -> others]
      BY <1>1, <1>2 DEF OneConnection
    <2>2. IsFiniteSet(Fds) /\ Cardinality(Fds) = Cardinality(Clients)
      BY FdsAreNumbers, FS_Interval DEF Fds
    <2>3. IsFiniteSet(others) /\ Cardinality(others) = Cardinality(Clients) - 1
      BY <1>2, IpcAssumption, FS_RemoveElement
    <2>4. Cardinality(others) < Cardinality(Fds)
      BY <2>2, <2>3, FdsAreNumbers
    <2>5. PICK f, g \in Fds : f # g /\ fd[f] = fd[g]
      BY <2>1, <2>2, <2>3, <2>4, FS_PigeonHole
    <2>6. fd[f] # NoClient
      OBVIOUS
    <2> QED
      BY <2>5, <2>6 DEF OneConnection
  <1>4. PICK f \in free : \A g \in free : f <= g
    BY <1>3, LeastNat, FdsAreNumbers
  <1>5. f \in Fds /\ fd[f] = NoClient /\ \A g \in Fds : g < f => fd[g] # NoClient
    BY <1>4, FdsAreNumbers
  <1> QED
    BY <1>5 DEF LowestFree

LEMMA DispatchTyped ==
  ASSUME NEW r \in Requests, NEW out \in Dispatch(r)
  PROVE  out \in Outcomes /\ (out.res = "ok" => r.size = ReqSize(r.type))
  <1>1. ASSUME NEW h \in Handle(r)
        PROVE  h \in Outcomes
    <2> DEFINE Pushed(q) == [res |-> "ok", todo |-> q]
               Refused(res) == [res |-> res, todo |-> <<>>]
    <2>1. /\ <<>> \in Seq(Pushes) /\ <<"helper">> \in Seq(Pushes) /\ <<"prts">> \in Seq(Pushes)
          /\ <<"helper", "prts">> \in Seq(Pushes)
      BY DEF Pushes
    <2>2. \A q \in Seq(Pushes) : Pushed(q) \in Outcomes
      BY DEF Outcomes, Results
    <2>3. \A res \in Results : Refused(res) \in Outcomes
      BY <2>1 DEF Outcomes
    <2>4. \/ h \in {Ok(<<>>), Ok(<<"helper">>), Ok(<<"prts">>), Ok(<<"helper", "prts">>)}
          \/ h \in {No("nomem"), No("invalid_request"), No("state_conflict"), No("unknown")}
      BY DEF Handle, HandleUi, HandlePrts, HandlePlayer, HandleOverlay, HandleUix, HandleReloadList,
             IfValid, Posted
    <2>5. CASE h \in {Ok(<<>>), Ok(<<"helper">>), Ok(<<"prts">>), Ok(<<"helper", "prts">>)}
      BY <2>1, <2>2, <2>5 DEF Ok
    <2>6. CASE h \in {No("nomem"), No("invalid_request"), No("state_conflict"), No("unknown")}
      BY <2>3, <2>6 DEF No, Results
    <2> QED
      BY <2>4, <2>5, <2>6
  <1>2. No("too_long") \in Outcomes /\ No("length_mismatch") \in Outcomes
    <2>1. <<>> \in Seq(Pushes)
      OBVIOUS
    <2> QED
      BY <2>1 DEF No, Outcomes, Results
  <1>3. No("too_long").res # "ok" /\ No("length_mismatch").res # "ok"
    BY DEF No
  <1> QED
    BY <1>1, <1>2, <1>3 DEF Dispatch

----------------------------------------------------------------------------
\* The steps of the clients.

LEMMA InitIInv == Init => IInv
  <1> SUFFICES ASSUME IpcInit PROVE IInv
    BY DEF Init
  <1> USE IpcAssumption DEF IpcInit
  <1>1. ClientTyped
    <2>1. <<>> \in Seq(Requests) /\ <<>> \in Seq(Answers)
      OBVIOUS
    <2>2. PICK script \in [Clients -> Scripts] :
            client = [c \in Clients |-> [at |-> "away", todo |-> script[c], sent |-> <<>>, got |-> <<>>]]
      OBVIOUS
    <2>3. \A c \in Clients : script[c] \in Seq(Requests)
      BY <2>2
    <2> QED
      BY <2>1, <2>2, <2>3 DEF ClientTyped, Programs
  <1>2. SocketTyped
    BY DEF SocketTyped
  <1>3. IpcTyped
    <2>1. <<>> \in Seq(Events)
      OBVIOUS
    <2> QED
      BY <2>1 DEF IpcTyped, Threads
  <1>4. \A c \in Clients : client[c].sent = <<>> /\ client[c].got = <<>> /\ inbox[c] = <<>>
    OBVIOUS
  <1>5. OneConnection /\ OwnEvents /\ ServedRightly
    BY DEF OneConnection, OwnEvents, ServedRightly
  <1>6. Accounted /\ Answered
    BY <1>4 DEF Accounted, AccountedFor, Answered, InHand, Serves
  <1> QED
    BY <1>1, <1>2, <1>3, <1>5, <1>6 DEF IInv, Typed

LEMMA ConnectionsKept ==
  ASSUME OneConnection, backlog' = backlog, fd' = fd,
         \A c \in Clients : client'[c].at = "away" => client[c].at = "away"
  PROVE  OneConnection'
  BY DEF OneConnection

LEMMA EventsKept ==
  ASSUME OwnEvents, ServedRightly, fd' = fd, ipc' = ipc,
         \A c \in Clients : client[c].at = "left" => client'[c].at = "left"
  PROVE  OwnEvents' /\ ServedRightly'
  <1>1. OwnEvents'
    BY DEF OwnEvents
  <1>2. ServedRightly'
    BY DEF ServedRightly
  <1> QED
    BY <1>1, <1>2

\* A client that is not touched.
LEMMA AccountKept ==
  ASSUME NEW c \in Clients, AccountedFor(c),
         client'[c].at = "left" \/ client[c].at # "left",
         client'[c].sent = client[c].sent, client'[c].got = client[c].got, inbox'[c] = inbox[c],
         Serves(c)' <=> Serves(c), Serves(c) => ipc'.req = ipc.req
  PROVE  AccountedFor(c)'
  <1>1. InHand(c)' = InHand(c)
    BY DEF InHand
  <1> HIDE DEF InHand
  <1> QED
    BY <1>1 DEF AccountedFor

LEMMA ConnectStep ==
  ASSUME IInv, NEW c \in Clients, Connect(c)
  PROVE  IInv'
  <1>0. ClientTyped /\ SocketTyped /\ IpcTyped /\ OneConnection /\ OwnEvents /\ ServedRightly
        /\ Accounted /\ Answered
    BY DEF IInv, Typed
  <1>1. /\ ClientTyped'
        /\ \A d \in Clients : /\ client'[d].sent = client[d].sent /\ client'[d].got = client[d].got
                              /\ client'[d].at = IF d = c THEN "here" ELSE client[d].at
    BY <1>0 DEF ClientTyped, Programs, Connect
  <1>2. SocketTyped' /\ IpcTyped'
    BY <1>0 DEF SocketTyped, IpcTyped, Connect
  <1>3. backlog \in Seq(Clients)
    BY <1>0 DEF SocketTyped
  <1>4. OneConnection'
    BY <1>0, <1>1, <1>3 DEF OneConnection, Connect
  <1>5. OwnEvents' /\ ServedRightly'
    BY <1>0, <1>1, EventsKept DEF Connect
  <1>6. Accounted' /\ Answered'
    <2>1. inbox' = inbox /\ ipc' = ipc
      BY DEF Connect
    <2>2. ASSUME NEW d \in Clients PROVE AccountedFor(d)'
      <3>1. AccountedFor(d) /\ (client'[d].at = "left" \/ client[d].at # "left")
        BY <1>0, <1>1 DEF Accounted, Connect
      <3>2. Serves(d)' <=> Serves(d)
        BY <2>1 DEF Serves
      <3> QED
        BY <1>1, <2>1, <3>1, <3>2, AccountKept
    <2>3. Answered'
      BY <1>0, <1>1 DEF Answered
    <2> QED
      BY <2>2, <2>3 DEF Accounted
  <1> QED
    BY <1>1, <1>2, <1>4, <1>5, <1>6 DEF IInv, Typed

LEMMA LeaveStep ==
  ASSUME IInv, NEW c \in Clients, Leave(c)
  PROVE  IInv'
  <1>0. ClientTyped /\ SocketTyped /\ IpcTyped /\ OneConnection /\ OwnEvents /\ ServedRightly
        /\ Accounted /\ Answered
    BY DEF IInv, Typed
  <1>1. /\ ClientTyped'
        /\ \A d \in Clients : /\ client'[d].sent = client[d].sent /\ client'[d].got = client[d].got
                              /\ client'[d].at = IF d = c THEN "left" ELSE client[d].at
    BY <1>0 DEF ClientTyped, Programs, Leave
  <1>2. SocketTyped' /\ IpcTyped'
    BY <1>0 DEF SocketTyped, IpcTyped, Leave
  <1>3. OneConnection' /\ OwnEvents' /\ ServedRightly'
    BY <1>0, <1>1, ConnectionsKept, EventsKept DEF Leave
  <1>4. Accounted' /\ Answered'
    <2>1. inbox' = inbox /\ ipc' = ipc
      BY DEF Leave
    <2>2. ASSUME NEW d \in Clients PROVE AccountedFor(d)'
      <3>1. AccountedFor(d) /\ (client'[d].at = "left" \/ client[d].at # "left")
        BY <1>0, <1>1 DEF Accounted
      <3>2. Serves(d)' <=> Serves(d)
        BY <2>1 DEF Serves
      <3> QED
        BY <1>1, <2>1, <3>1, <3>2, AccountKept
    <2>3. Answered'
      BY <1>0, <1>1 DEF Answered
    <2> QED
      BY <2>2, <2>3 DEF Accounted
  <1> QED
    BY <1>1, <1>2, <1>3, <1>4 DEF IInv, Typed

LEMMA SendStep ==
  ASSUME IInv, NEW c \in Clients, Send(c)
  PROVE  IInv'
  <1> DEFINE r == Head(client[c].todo)
  <1>0. ClientTyped /\ SocketTyped /\ IpcTyped /\ OneConnection /\ OwnEvents /\ ServedRightly
        /\ Accounted /\ Answered
    BY DEF IInv, Typed
  <1>1. /\ r \in Requests /\ client[c] \in Programs
        /\ Tail(client[c].todo) \in Seq(Requests)
    BY <1>0 DEF ClientTyped, Programs, Send
  <1> HIDE DEF r
  <1>2. /\ client' = [client EXCEPT ![c].sent = Append(@, r), ![c].todo = Tail(@)]
        /\ inbox' = [inbox EXCEPT ![c] = Append(@, r)]
        /\ UNCHANGED <<backlog, fd, ipc>>
    BY DEF Send, r
  <1>3. \A d \in Clients : /\ client'[d].got = client[d].got /\ client'[d].at = client[d].at
                           /\ client'[d].sent = IF d = c THEN Append(client[d].sent, r) ELSE client[d].sent
    BY <1>0, <1>1, <1>2 DEF ClientTyped, Programs
  <1>9. ClientTyped'
    <2>1. Append(client[c].sent, r) \in Seq(Requests)
      BY <1>1 DEF Programs
    <2> DEFINE n == [[client[c] EXCEPT !.sent = Append(client[c].sent, r)] EXCEPT !.todo = Tail(client[c].todo)]
    <2>2. client' = [client EXCEPT ![c] = n]
      BY <1>0, <1>1, <1>2 DEF ClientTyped
    <2>3. n \in Programs
      BY <1>1, <2>1 DEF Programs
    <2> HIDE DEF n
    <2> QED
      BY <1>0, <2>2, <2>3 DEF ClientTyped
  <1>4. /\ SocketTyped' /\ IpcTyped' /\ inbox \in [Clients -> Seq(Requests)]
        /\ \A d \in Clients : inbox'[d] = IF d = c THEN Append(inbox[d], r) ELSE inbox[d]
    BY <1>0, <1>1, <1>2 DEF SocketTyped, IpcTyped
  <1>5. OneConnection' /\ OwnEvents' /\ ServedRightly'
    BY <1>0, <1>2, <1>3, ConnectionsKept, EventsKept
  <1>6. \A d \in Clients : client[d].sent \in Seq(Requests) /\ client[d].got \in Seq(Answers)
    BY <1>0 DEF ClientTyped, Programs
  <1>7. Answered'
    <2>1. ASSUME NEW d \in Clients, NEW k \in DOMAIN client'[d].got
          PROVE  k <= Len(client'[d].sent) /\ client'[d].got[k].req = client'[d].sent[k]
      <3>1. k \in DOMAIN client[d].got /\ k \in Nat /\ k # 0 /\ k <= Len(client[d].sent)
            /\ client[d].got[k].req = client[d].sent[k]
        BY <1>0, <1>3, <1>6 DEF Answered
      <3>2. Append(client[d].sent, r)[k] = client[d].sent[k]
            /\ k <= Len(Append(client[d].sent, r))
        BY <1>1, <1>6, <3>1
      <3>3. CASE d = c
        BY <1>3, <3>1, <3>2, <3>3
      <3>4. CASE d # c
        BY <1>3, <3>1, <3>4
      <3> QED
        BY <3>3, <3>4
    <2> QED
      BY <2>1 DEF Answered
  <1>8. ASSUME NEW d \in Clients PROVE AccountedFor(d)'
    <2>1. AccountedFor(d)
      BY <1>0 DEF Accounted
    <2>2. (Serves(d)' <=> Serves(d)) /\ InHand(d)' = InHand(d) /\ InHand(d) \in {0, 1}
          /\ (Serves(d) => InHand(d) = 1)
      BY <1>2 DEF InHand, Serves
    <2>3. CASE d # c
      <3>1. client'[d].at = "left" \/ client[d].at # "left"
        BY <1>3, <2>3
      <3> QED
        BY <1>2, <1>3, <1>4, <2>1, <2>2, <2>3, <3>1, AccountKept
    <2>4. ASSUME d = c, client[c].at # "left" PROVE AccountedFor(d)'
      <3> DEFINE s == client[c].sent
                 q == inbox[c]
                 n == Len(client[c].got)
      <3>1. s \in Seq(Requests) /\ q \in Seq(Requests) /\ n \in Nat
        BY <1>4, <1>6
      <3>2. /\ Len(s) = n + InHand(c) + Len(q)
            /\ Serves(c) => ipc.req = s[n + 1]
            /\ \A j \in DOMAIN q : q[j] = s[n + InHand(c) + j]
        BY <2>1, <2>4 DEF AccountedFor
      <3>3. client'[c].sent = Append(s, r) /\ inbox'[c] = Append(q, r) /\ Len(client'[c].got) = n
        BY <1>3, <1>4
      <3> HIDE DEF s, q, n, InHand
      <3>4. Len(Append(s, r)) = n + InHand(c) + Len(Append(q, r))
        BY <1>1, <2>2, <2>4, <3>1, <3>2
      <3>5. Serves(c) => ipc.req = Append(s, r)[n + 1]
        BY <1>1, <2>2, <2>4, <3>1, <3>2
      <3>6. \A j \in DOMAIN Append(q, r) : Append(q, r)[j] = Append(s, r)[n + InHand(c) + j]
        BY <1>1, <2>2, <2>4, <3>1, <3>2
      <3>7. (Serves(c)' <=> Serves(c)) /\ InHand(c)' = InHand(c) /\ ipc' = ipc
        BY <1>2, <2>2, <2>4
      <3>8. AccountedFor(c)'
        BY <3>3, <3>4, <3>5, <3>6, <3>7 DEF AccountedFor
      <3> QED
        BY <2>4, <3>8
    <2>5. client[c].at # "left"
      BY DEF Send
    <2> QED
      BY <2>3, <2>4, <2>5
  <1> QED
    BY <1>4, <1>5, <1>7, <1>8, <1>9 DEF IInv, Typed, Accounted

----------------------------------------------------------------------------
\* The steps of the loop that serve nobody.

LEMMA ServesNobody ==
  ASSUME Accounted, Answered, client' = client, ipc.pc # "push", ipc'.pc # "push",
         \A c \in Clients : client[c].at # "left" => inbox'[c] = inbox[c]
  PROVE  Accounted' /\ Answered'
  <1>1. ASSUME NEW c \in Clients PROVE AccountedFor(c)'
    <2>1. AccountedFor(c) /\ ~Serves(c) /\ ~Serves(c)'
      BY DEF Accounted, Serves
    <2>2. CASE client[c].at = "left"
      BY <2>2 DEF AccountedFor
    <2>3. CASE client[c].at # "left"
      BY <2>1, <2>3, AccountKept
    <2> QED
      BY <2>2, <2>3
  <1>2. Answered'
    BY DEF Answered
  <1> QED
    BY <1>1, <1>2 DEF Accounted

\* The listening socket among the events.
Inserted(q, s, k, e) ==
  /\ Len(q) = Len(s) + 1
  /\ q[k + 1] = e
  /\ \A j \in 1 .. k : q[j] = s[j]
  /\ \A j \in k + 2 .. Len(s) + 1 : q[j] = s[j - 1]

LEMMA ListenInserted ==
  ASSUME NEW s \in Seq(Events), NEW k \in 0 .. Len(s), NEW e \in Events
  PROVE  /\ InsertAt(s, k + 1, e) \in Seq(Events)
         /\ Inserted(InsertAt(s, k + 1, e), s, k, e)
  <1> DEFINE a == SubSeq(s, 1, k)
             b == SubSeq(s, k + 1, Len(s))
             c == Append(a, e)
             q == InsertAt(s, k + 1, e)
  <1>1. a \in Seq(Events) /\ Len(a) = k /\ \A j \in 1 .. k : a[j] = s[j]
    OBVIOUS
  <1>2. b \in Seq(Events) /\ Len(b) = Len(s) - k /\ \A j \in 1 .. Len(s) - k : b[j] = s[j + k]
    OBVIOUS
  <1>3. q = c \o b
    <2>1. k + 1 - 1 = k
      OBVIOUS
    <2>2. a \o <<e>> = c
      <3> HIDE DEF a
      <3> QED
        BY <1>1
    <2>3. q = (SubSeq(s, 1, (k + 1) - 1) \o <<e>>) \o b
      BY DEF InsertAt
    <2>4. SubSeq(s, 1, (k + 1) - 1) = a
      BY <2>1
    <2> HIDE DEF q, a, b
    <2> QED
      BY <2>2, <2>3, <2>4
  <1> HIDE DEF q
  <1>4. c \in Seq(Events) /\ Len(c) = k + 1 /\ c[k + 1] = e /\ \A j \in 1 .. k : c[j] = s[j]
    <2> HIDE DEF a
    <2> QED
      BY <1>1
  <1> HIDE DEF a, b, c
  <1>5. /\ q \in Seq(Events) /\ Len(q) = Len(c) + Len(b)
        /\ \A j \in 1 .. Len(c) + Len(b) : q[j] = IF j <= Len(c) THEN c[j] ELSE b[j - Len(c)]
    BY <1>2, <1>3, <1>4, ConcatProperties
  <1>6. Len(q) = Len(s) + 1
    BY <1>2, <1>4, <1>5
  <1>7. ASSUME NEW j \in 1 .. k + 1 PROVE q[j] = c[j]
    <2>1. j \in 1 .. Len(c) + Len(b) /\ j <= Len(c)
      BY <1>2, <1>4
    <2> QED
      BY <1>5, <2>1
  <1>8. ASSUME NEW j \in k + 2 .. Len(s) + 1 PROVE q[j] = s[j - 1]
    <2>1. q[j] = b[j - (k + 1)]
      <3>1. j \in 1 .. Len(c) + Len(b) /\ ~(j <= Len(c)) /\ j - Len(c) = j - (k + 1)
        BY <1>2, <1>4
      <3> QED
        BY <1>5, <3>1
    <2>2. j - (k + 1) \in 1 .. Len(s) - k /\ (j - (k + 1)) + k = j - 1
      OBVIOUS
    <2> QED
      BY <1>2, <2>1, <2>2
  <1>9. Inserted(q, s, k, e)
    <2>1. q[k + 1] = e
      BY <1>4, <1>7
    <2>2. ASSUME NEW j \in 1 .. k PROVE q[j] = s[j]
      <3>1. j \in 1 .. k + 1
        OBVIOUS
      <3> QED
        BY <1>4, <1>7, <3>1
    <2> QED
      BY <1>6, <1>8, <2>1, <2>2 DEF Inserted
  <1> QED
    BY <1>5, <1>9 DEF q

\* What epoll_wait returns are descriptors in use, each once.
LEMMA ReadyEvents ==
  ASSUME Typed, NEW s \in SetToSeqs(Ready), NEW evs, evs = [j \in DOMAIN s |-> Event(s[j])]
  PROVE  /\ evs \in Seq(Events)
         /\ \A i \in DOMAIN evs :
              /\ evs[i].fd \in Fds /\ evs[i].of \in Clients /\ evs[i].of = fd[evs[i].fd]
              /\ evs[i].hup => client[evs[i].of].at = "left"
         /\ \A i, j \in DOMAIN evs : i # j => evs[i].fd # evs[j].fd
  <1>1. /\ fd \in [Fds -> Clients \cup {NoClient}]
        /\ \A f \in Ready : f \in Fds /\ fd[f] \in Clients /\ fd[f] # NoClient
    BY DEF Typed, SocketTyped, Ready
  <1>2. \A f \in Ready : /\ Event(f) \in Events
                         /\ Event(f).fd = f /\ Event(f).of = fd[f]
                         /\ Event(f).hup => client[fd[f]].at = "left"
    BY <1>1 DEF Event, Events, Left
  <1> DEFINE n == Cardinality(Ready)
  <1>3. IsFiniteSet(Ready) /\ n \in Nat
    <2>1. IsFiniteSet(Fds)
      BY FdsAreNumbers, FS_Interval DEF Fds
    <2> QED
      BY <1>1, <2>1, FS_Subset, FS_CardinalityType
  <1>4. s \in [1 .. n -> Ready] /\ \A i, j \in 1 .. n : i # j => s[i] # s[j]
    BY DEF SetToSeqs
  <1> HIDE DEF n
  <1>5. DOMAIN evs = 1 .. n /\ \A i \in 1 .. n : s[i] \in Ready /\ evs[i] = Event(s[i])
    BY <1>4
  <1>6. evs \in Seq(Events)
    BY <1>2, <1>3, <1>5
  <1>7. \A i \in DOMAIN evs :
          /\ evs[i].fd = s[i] /\ evs[i].fd \in Fds /\ evs[i].of \in Clients /\ evs[i].of = fd[evs[i].fd]
          /\ evs[i].hup => client[evs[i].of].at = "left"
    BY <1>1, <1>2, <1>5
  <1> QED
    BY <1>4, <1>5, <1>6, <1>7

LEMMA EpollWaitStep ==
  ASSUME IInv, EpollWait
  PROVE  IInv'
  <1>0. ClientTyped /\ SocketTyped /\ IpcTyped /\ OneConnection /\ OwnEvents /\ ServedRightly
        /\ Accounted /\ Answered
    BY DEF IInv, Typed
  <1>11. PICK s \in SetToSeqs(Ready) : \E k \in 0 .. Len(s) :
          ipc' = [pc |-> "event",
                  batch |-> IF backlog = <<>> THEN [j \in DOMAIN s |-> Event(s[j])]
                            ELSE InsertAt([j \in DOMAIN s |-> Event(s[j])], k + 1, Listen)]
    BY DEF EpollWait
  <1>1. PICK k \in 0 .. Len(s) :
          ipc' = [pc |-> "event",
                  batch |-> IF backlog = <<>> THEN [j \in DOMAIN s |-> Event(s[j])]
                            ELSE InsertAt([j \in DOMAIN s |-> Event(s[j])], k + 1, Listen)]
    BY <1>11
  <1> DEFINE evs == [j \in DOMAIN s |-> Event(s[j])]
             q == InsertAt(evs, k + 1, Listen)
  <1>2. /\ evs \in Seq(Events)
        /\ \A i \in DOMAIN evs :
             /\ evs[i].fd \in Fds /\ evs[i].of \in Clients /\ evs[i].of = fd[evs[i].fd]
             /\ evs[i].hup => client[evs[i].of].at = "left"
        /\ \A i, j \in DOMAIN evs : i # j => evs[i].fd # evs[j].fd
    BY ReadyEvents DEF IInv
  <1>3. Len(evs) = Len(s)
    <2>1. DOMAIN evs = DOMAIN s
      OBVIOUS
    <2>2. s \in Seq(Ready)
      <3>1. IsFiniteSet(Ready) /\ Cardinality(Ready) \in Nat
        <4>1. Ready \subseteq Fds
          BY DEF Ready
        <4>2. IsFiniteSet(Fds)
          BY FdsAreNumbers, FS_Interval DEF Fds
        <4> QED
          BY <4>1, <4>2, FS_Subset, FS_CardinalityType
      <3> QED
        BY <3>1 DEF SetToSeqs
    <2> HIDE DEF evs
    <2> QED
      BY <1>2, <2>1, <2>2
  <1>4. ipc' = [pc |-> "event", batch |-> IF backlog = <<>> THEN evs ELSE q]
    BY <1>1
  <1> HIDE DEF evs
  <1>5. Listen \in Events /\ Listen.fd = 0
    BY DEF Listen, Events
  <1>6. /\ q \in Seq(Events) /\ Len(q) = Len(evs) + 1 /\ q[k + 1] = Listen
        /\ \A j \in 1 .. k : q[j] = evs[j]
        /\ \A j \in k + 2 .. Len(evs) + 1 : q[j] = evs[j - 1]
    <2>1. k \in 0 .. Len(evs)
      BY <1>3
    <2>2. q \in Seq(Events) /\ Inserted(q, evs, k, Listen)
      BY <1>2, <1>5, <2>1, ListenInserted, Zenon
    <2> HIDE DEF q
    <2> QED
      BY <2>2 DEF Inserted
  <1> HIDE DEF q
  <1>7. IpcTyped' /\ ipc.pc = "wait" /\ ipc'.pc = "event"
    BY <1>2, <1>4, <1>6 DEF IpcTyped, Threads, EpollWait
  <1>8. ClientTyped' /\ SocketTyped' /\ OneConnection'
    BY <1>0 DEF ClientTyped, SocketTyped, OneConnection, EpollWait
  <1>9. ServedRightly' /\ Accounted' /\ Answered'
    <2>1. ServedRightly'
      BY <1>7 DEF ServedRightly
    <2>2. Accounted' /\ Answered'
      BY <1>0, <1>7, ServesNobody DEF EpollWait
    <2> QED
      BY <2>1, <2>2
  <1>10. OwnEvents'
    <2>1. CASE backlog = <<>>
      <3>1. ipc'.batch = evs /\ client' = client /\ fd' = fd
        BY <1>4, <2>1 DEF EpollWait
      <3> QED
        BY <1>2, <3>1 DEF OwnEvents
    <2>2. CASE backlog # <<>>
      <3>1. ipc'.batch = q /\ client' = client /\ fd' = fd
        BY <1>4, <2>2 DEF EpollWait
      <3>2. ASSUME NEW i \in DOMAIN q, q[i].fd # 0
            PROVE  /\ q[i].of \in Clients /\ fd[q[i].fd] = q[i].of
                   /\ q[i].hup => client[q[i].of].at = "left"
        <4>1. i \in 1 .. k \/ i \in k + 2 .. Len(evs) + 1
          BY <1>2, <1>3, <1>5, <1>6, <3>2
        <4>2. CASE i \in 1 .. k
          BY <1>2, <1>3, <1>6, <4>2
        <4>3. CASE i \in k + 2 .. Len(evs) + 1
          <5>1. i - 1 \in DOMAIN evs
            BY <1>2, <1>3, <4>3
          <5> QED
            BY <1>2, <1>6, <4>3, <5>1
        <4> QED
          BY <4>1, <4>2, <4>3
      <3>3. ASSUME NEW i \in DOMAIN q, NEW j \in DOMAIN q, q[i].fd # 0, i # j
            PROVE  q[i].fd # q[j].fd
        <4>1. i \in 1 .. k \/ i \in k + 2 .. Len(evs) + 1
          BY <1>2, <1>3, <1>5, <1>6, <3>3
        <4>2. PICK m \in DOMAIN evs : q[i] = evs[m] /\ m = IF i <= k THEN i ELSE i - 1
          BY <1>2, <1>3, <1>6, <4>1
        <4>3. CASE j = k + 1
          BY <1>5, <1>6, <3>3, <4>3
        <4>4. CASE j # k + 1
          <5>1. PICK l \in DOMAIN evs : q[j] = evs[l] /\ l = IF j <= k THEN j ELSE j - 1
            <6>1. j \in 1 .. k \/ j \in k + 2 .. Len(evs) + 1
              BY <1>2, <1>3, <1>6, <4>4
            <6> QED
              BY <1>2, <1>3, <1>6, <6>1
          <5>2. l # m
            BY <1>3, <1>6, <3>3, <4>1, <4>2, <4>4, <5>1
          <5> QED
            BY <1>2, <4>2, <5>1, <5>2
        <4> QED
          BY <4>3, <4>4
      <3> QED
        BY <3>1, <3>2, <3>3 DEF OwnEvents
    <2> QED
      BY <2>1, <2>2
  <1> QED
    BY <1>7, <1>8, <1>9, <1>10 DEF IInv, Typed

LEMMA BatchTyped ==
  ASSUME IpcTyped
  PROVE  /\ ipc.batch \in Seq(Events)
         /\ \A i \in DOMAIN ipc.batch : ipc.batch[i] \in Events /\ ipc.batch[i].fd \in {0} \cup Fds
  <1>1. ipc.batch \in Seq(Events)
    BY DEF IpcTyped, Threads
  <1>2. \A i \in DOMAIN ipc.batch : ipc.batch[i] \in Events
    BY <1>1
  <1>3. \A e \in Events : e.fd \in {0} \cup Fds
    BY DEF Events
  <1> QED
    BY <1>1, <1>2, <1>3

\* The next event.
LEMMA TailEvents ==
  ASSUME IpcTyped, OwnEvents, ipc.batch # <<>>, ipc' = NextEvent(ipc), client' = client,
         \A f \in Fds : f # ipc.batch[1].fd => fd'[f] = fd[f]
  PROVE  IpcTyped' /\ OwnEvents' /\ ServedRightly' /\ ipc'.pc = "event"
  <1> DEFINE b == ipc.batch
             t == Tail(ipc.batch)
  <1>1. b \in Seq(Events) /\ b # <<>>
    BY DEF IpcTyped, Threads
  <1>2. /\ t \in Seq(Events) /\ Len(t) = Len(b) - 1 /\ 1 \in DOMAIN b
        /\ \A i \in DOMAIN t : i + 1 \in DOMAIN b /\ i + 1 # 1 /\ t[i] = b[i + 1]
    BY <1>1
  <1>3. ipc' = [pc |-> "event", batch |-> t]
    BY DEF NextEvent
  <1>4. \A i \in DOMAIN b : b[i].fd # 0 =>
          /\ b[i].of \in Clients /\ fd[b[i].fd] = b[i].of
          /\ b[i].hup => client[b[i].of].at = "left"
    BY DEF OwnEvents
  <1>5. \A i, j \in DOMAIN b : b[i].fd # 0 /\ i # j => b[i].fd # b[j].fd
    BY DEF OwnEvents
  <1>6. \A i \in DOMAIN b : b[i].fd \in {0} \cup Fds
    BY BatchTyped
  <1> HIDE DEF b, t
  <1>7. IpcTyped'
    BY <1>2, <1>3 DEF IpcTyped, Threads
  <1>8. ASSUME NEW i \in DOMAIN t, t[i].fd # 0
        PROVE  /\ t[i].of \in Clients /\ fd'[t[i].fd] = t[i].of
               /\ t[i].hup => client[t[i].of].at = "left"
    <2>1. t[i] = b[i + 1] /\ i + 1 \in DOMAIN b /\ i + 1 # 1
      BY <1>2
    <2>2. b[i + 1].fd \in Fds /\ b[i + 1].fd # b[1].fd
      BY <1>2, <1>5, <1>6, <1>8, <2>1
    <2>3. fd'[b[i + 1].fd] = fd[b[i + 1].fd]
      BY <2>2 DEF b
    <2> QED
      BY <1>4, <1>8, <2>1, <2>3
  <1>9. ASSUME NEW i \in DOMAIN t, NEW j \in DOMAIN t, t[i].fd # 0, i # j
        PROVE  t[i].fd # t[j].fd
    <2>1. i + 1 # j + 1
      BY <1>2, <1>9
    <2> QED
      BY <1>2, <1>5, <1>9, <2>1
  <1>10. OwnEvents'
    BY <1>3, <1>8, <1>9 DEF OwnEvents
  <1> QED
    BY <1>3, <1>7, <1>10 DEF ServedRightly

\* The first event of the batch.
LEMMA HeadEvent ==
  ASSUME IInv, ipc.batch # <<>>, Head(ipc.batch).fd # 0
  PROVE  LET f == Head(ipc.batch).fd
         IN /\ f = ipc.batch[1].fd /\ f \in Fds
            /\ fd[f] \in Clients /\ fd[f] = ipc.batch[1].of /\ fd[f] # NoClient
            /\ Head(ipc.batch).hup => client[fd[f]].at = "left"
  <1>1. ipc.batch \in Seq(Events)
    BY BatchTyped DEF IInv, Typed
  <1>2. 1 \in DOMAIN ipc.batch /\ Head(ipc.batch) = ipc.batch[1] /\ ipc.batch[1] \in Events
    BY <1>1
  <1>3. ipc.batch[1].fd \in {0} \cup Fds
    BY <1>2 DEF Events
  <1>4. /\ ipc.batch[1].of \in Clients /\ fd[ipc.batch[1].fd] = ipc.batch[1].of
        /\ ipc.batch[1].hup => client[ipc.batch[1].of].at = "left"
    BY <1>2 DEF IInv, OwnEvents
  <1> QED
    BY <1>2, <1>3, <1>4, IpcAssumption

LEMMA IdleSteps ==
  ASSUME IInv, IpcEnds \/ BatchEnd
  PROVE  IInv'
  <1>0. ClientTyped /\ SocketTyped /\ IpcTyped /\ OneConnection /\ OwnEvents /\ ServedRightly
        /\ Accounted /\ Answered
    BY DEF IInv, Typed
  <1>1. /\ ipc.pc # "push" /\ ipc' \in {[pc |-> "ended", batch |-> <<>>], [pc |-> "wait", batch |-> <<>>]}
        /\ UNCHANGED <<client, backlog, fd, inbox>>
    BY DEF IpcEnds, BatchEnd, Restart
  <1>2. <<>> \in Seq(Events)
    OBVIOUS
  <1>3. ClientTyped' /\ SocketTyped' /\ OneConnection'
    BY <1>0, <1>1 DEF ClientTyped, SocketTyped, OneConnection
  <1>4. IpcTyped'
    <2>1. CASE ipc' = [pc |-> "ended", batch |-> <<>>]
      BY <1>2, <2>1 DEF IpcTyped, Threads
    <2>2. CASE ipc' = [pc |-> "wait", batch |-> <<>>]
      BY <1>2, <2>2 DEF IpcTyped, Threads
    <2> QED
      BY <1>1, <2>1, <2>2
  <1>5. ipc'.pc # "push" /\ ipc'.batch = <<>>
    BY <1>1
  <1>6. OwnEvents' /\ ServedRightly'
    BY <1>5 DEF OwnEvents, ServedRightly
  <1>7. Accounted' /\ Answered'
    BY <1>0, <1>1, <1>5, ServesNobody
  <1> QED
    BY <1>3, <1>4, <1>6, <1>7 DEF IInv, Typed

LEMMA AcceptStep ==
  ASSUME IInv, Accept
  PROVE  IInv'
  <1>0. ClientTyped /\ SocketTyped /\ IpcTyped /\ OneConnection /\ OwnEvents /\ ServedRightly
        /\ Accounted /\ Answered
    BY DEF IInv, Typed
  <1>1. CASE backlog = <<>>
    <2>1. /\ ipc.batch # <<>> /\ ipc' = NextEvent(ipc) /\ ipc.pc = "event"
          /\ UNCHANGED <<client, backlog, fd, inbox>>
      BY <1>1 DEF Accept
    <2>2. IpcTyped' /\ OwnEvents' /\ ServedRightly' /\ ipc'.pc = "event"
      BY <1>0, <2>1, TailEvents
    <2>3. ClientTyped' /\ SocketTyped' /\ OneConnection'
      BY <1>0, <2>1 DEF ClientTyped, SocketTyped, OneConnection
    <2>4. Accounted' /\ Answered'
      BY <1>0, <2>1, <2>2, ServesNobody
    <2> QED
      BY <2>2, <2>3, <2>4 DEF IInv, Typed
  <1>2. CASE backlog # <<>>
    <2> DEFINE l == LowestFree
               c == backlog[1]
    <2>1. /\ fd' = [fd EXCEPT ![l] = Head(backlog)] /\ backlog' = Tail(backlog)
          /\ ipc.pc = "event" /\ UNCHANGED <<client, inbox, ipc>>
      BY <1>2 DEF Accept
    <2>2. l \in Fds /\ fd[l] = NoClient
      BY <1>2, LowestFreeIsFree DEF IInv
    <2> HIDE DEF l
    <2>3. backlog \in Seq(Clients) /\ fd \in [Fds -> Clients \cup {NoClient}]
      BY <1>0 DEF SocketTyped
    <2>4. /\ Head(backlog) = c /\ c \in Clients /\ Len(backlog') = Len(backlog) - 1
          /\ backlog' \in Seq(Clients) /\ 1 \in DOMAIN backlog
          /\ \A i \in DOMAIN backlog' : i + 1 \in DOMAIN backlog /\ i + 1 # 1 /\ backlog'[i] = backlog[i + 1]
      BY <1>2, <2>1, <2>3
    <2>5. \A f \in Fds : fd'[f] = IF f = l THEN c ELSE fd[f]
      BY <2>1, <2>2, <2>3, <2>4
    <2>6. ClientTyped' /\ IpcTyped' /\ SocketTyped'
      BY <1>0, <2>1, <2>2, <2>3, <2>4 DEF ClientTyped, IpcTyped, SocketTyped
    <2>7. OneConnection'
      <3> HIDE DEF c
      <3>1. /\ \A f \in Fds : fd[f] # c
            /\ \A i \in DOMAIN backlog' : backlog'[i] # c
            /\ client[c].at # "away"
        BY <1>0, <2>4 DEF OneConnection, c
      <3>2. ASSUME NEW f \in Fds, NEW g \in Fds, fd'[f] # NoClient, f # g PROVE fd'[f] # fd'[g]
        BY <1>0, <2>5, <3>1, <3>2 DEF OneConnection
      <3>3. ASSUME NEW i \in DOMAIN backlog', NEW j \in DOMAIN backlog', i # j PROVE backlog'[i] # backlog'[j]
        <4>1. i + 1 # j + 1 /\ i + 1 \in DOMAIN backlog /\ j + 1 \in DOMAIN backlog
          BY <2>3, <2>4, <3>3
        <4> QED
          BY <1>0, <2>4, <4>1 DEF OneConnection
      <3>4. ASSUME NEW i \in DOMAIN backlog', NEW f \in Fds PROVE fd'[f] # backlog'[i]
        BY <1>0, <2>4, <2>5, <3>1 DEF OneConnection
      <3>5. ASSUME NEW d \in Clients, client[d].at = "away"
            PROVE  (\A f \in Fds : fd'[f] # d) /\ (\A i \in DOMAIN backlog' : backlog'[i] # d)
        <4>1. d # c
          BY <3>1, <3>5
        <4> QED
          BY <1>0, <2>4, <2>5, <3>5, <4>1 DEF OneConnection
      <3> QED
        BY <2>1, <3>2, <3>3, <3>4, <3>5 DEF OneConnection
    <2>8. OwnEvents'
      <3>1. ASSUME NEW i \in DOMAIN ipc.batch, ipc.batch[i].fd # 0
            PROVE  fd'[ipc.batch[i].fd] = ipc.batch[i].of
        <4>1. ipc.batch[i].fd \in Fds
          BY <1>0, <3>1, BatchTyped
        <4>2. ipc.batch[i].of \in Clients /\ fd[ipc.batch[i].fd] = ipc.batch[i].of
          BY <1>0, <3>1 DEF OwnEvents
        <4>3. ipc.batch[i].fd # l
          BY <2>2, <4>2, IpcAssumption
        <4> QED
          BY <2>5, <4>1, <4>2, <4>3
      <3> QED
        BY <1>0, <2>1, <3>1 DEF OwnEvents
    <2>9. ServedRightly' /\ Accounted' /\ Answered'
      <3>1. ServedRightly'
        BY <2>1 DEF ServedRightly
      <3>2. Accounted' /\ Answered'
        BY <1>0, <2>1, ServesNobody
      <3> QED
        BY <3>1, <3>2
    <2> QED
      BY <2>6, <2>7, <2>8, <2>9 DEF IInv, Typed
  <1> QED
    BY <1>1, <1>2

\* A client that has left is forgotten: its descriptor is closed, and what it sent and
\* was not read yet is gone.
LEMMA ClosingStep ==
  ASSUME IInv, ipc.batch # <<>>, Head(ipc.batch).fd # 0,
         client[fd[Head(ipc.batch).fd]].at = "left",
         Close(Head(ipc.batch).fd), ipc' = NextEvent(ipc), client' = client, backlog' = backlog
  PROVE  IInv'
  <1> DEFINE f == Head(ipc.batch).fd
             c == fd[f]
  <1>0. ClientTyped /\ SocketTyped /\ IpcTyped /\ OneConnection /\ OwnEvents /\ ServedRightly
        /\ Accounted /\ Answered
    BY DEF IInv, Typed
  <1>1. /\ f = ipc.batch[1].fd /\ f \in Fds /\ c \in Clients /\ c = ipc.batch[1].of
        /\ client[c].at = "left"
    BY HeadEvent
  <1>2. fd' = [fd EXCEPT ![f] = NoClient] /\ inbox' = [inbox EXCEPT ![c] = <<>>]
    BY DEF Close
  <1> HIDE DEF f, c
  <1>3. /\ fd \in [Fds -> Clients \cup {NoClient}] /\ inbox \in [Clients -> Seq(Requests)]
        /\ backlog \in Seq(Clients)
    BY <1>0 DEF SocketTyped
  <1>4. /\ \A g \in Fds : fd'[g] = IF g = f THEN NoClient ELSE fd[g]
        /\ \A d \in Clients : d # c => inbox'[d] = inbox[d]
    BY <1>2, <1>3
  <1>5. ClientTyped' /\ SocketTyped'
    BY <1>0, <1>1, <1>2, <1>3 DEF ClientTyped, SocketTyped
  <1>6. IpcTyped' /\ OwnEvents' /\ ServedRightly' /\ ipc'.pc = "event"
    BY <1>0, <1>1, <1>4, TailEvents
  <1>7. OneConnection'
    <2>1. \A i \in DOMAIN backlog : backlog[i] # NoClient
      BY <1>3, IpcAssumption
    <2>2. \A d \in Clients : d # NoClient
      BY IpcAssumption
    <2> QED
      BY <1>0, <1>4, <2>1, <2>2 DEF OneConnection
  <1>8. ASSUME NEW d \in Clients PROVE AccountedFor(d)'
    <2>1. AccountedFor(d)
      BY <1>0 DEF Accounted
    <2>2. CASE client[d].at = "left"
      BY <2>2 DEF AccountedFor
    <2>3. CASE client[d].at # "left"
      <3>1. d # c /\ ~Serves(d) /\ ~Serves(d)'
        BY <1>1, <1>6, <2>3 DEF Serves
      <3> QED
        BY <1>4, <2>1, <2>3, <3>1, AccountKept
    <2> QED
      BY <2>2, <2>3
  <1>9. Answered'
    BY <1>0 DEF Answered
  <1> QED
    BY <1>5, <1>6, <1>7, <1>8, <1>9 DEF IInv, Typed, Accounted

LEMMA HangUpStep ==
  ASSUME IInv, HangUp
  PROVE  IInv'
  BY HeadEvent, ClosingStep DEF HangUp

LEMMA DrainedStep ==
  ASSUME IInv, Drained
  PROVE  IInv'
  <1> DEFINE f == Head(ipc.batch).fd
  <1>1. /\ ipc.pc = "event" /\ ipc.batch # <<>> /\ f # 0 /\ ipc' = NextEvent(ipc)
        /\ client' = client /\ backlog' = backlog
        /\ IF Left(f) THEN Close(f) ELSE UNCHANGED <<fd, inbox>>
    BY DEF Drained
  <1>2. CASE Left(f)
    BY <1>1, <1>2, ClosingStep DEF Left
  <1>3. CASE ~Left(f)
    <2>0. ClientTyped /\ SocketTyped /\ IpcTyped /\ OneConnection /\ OwnEvents /\ Accounted /\ Answered
      BY DEF IInv, Typed
    <2>1. UNCHANGED <<client, backlog, fd, inbox>>
      BY <1>1, <1>3
    <2>2. IpcTyped' /\ OwnEvents' /\ ServedRightly' /\ ipc'.pc = "event"
      BY <1>1, <2>0, <2>1, TailEvents
    <2>3. ClientTyped' /\ SocketTyped' /\ OneConnection'
      BY <2>0, <2>1 DEF ClientTyped, SocketTyped, OneConnection
    <2>4. Accounted' /\ Answered'
      BY <1>1, <2>0, <2>1, <2>2, ServesNobody
    <2> QED
      BY <2>2, <2>3, <2>4 DEF IInv, Typed
  <1> QED
    BY <1>2, <1>3

----------------------------------------------------------------------------
\* A request is served.

\* A thread that goes on with the same batch.
LEMMA BatchKept ==
  ASSUME OwnEvents, ipc'.batch = ipc.batch, fd' = fd,
         \A c \in Clients : client[c].at = "left" => client'[c].at = "left"
  PROVE  OwnEvents'
  BY DEF OwnEvents

LEMMA ReceiveStep ==
  ASSUME IInv, Receive
  PROVE  IInv'
  <1> DEFINE f == Head(ipc.batch).fd
             c == fd[f]
             r == Head(inbox[c])
  <1>0. ClientTyped /\ SocketTyped /\ IpcTyped /\ OneConnection /\ OwnEvents /\ ServedRightly
        /\ Accounted /\ Answered
    BY DEF IInv, Typed
  <1>1. /\ ipc.pc = "event" /\ ipc.batch # <<>> /\ f # 0 /\ inbox[c] # <<>>
        /\ inbox' = [inbox EXCEPT ![c] = Tail(@)]
        /\ UNCHANGED <<client, backlog, fd>>
    BY DEF Receive
  <1>2. PICK out \in Dispatch(r) :
          ipc' = [pc |-> "push", batch |-> ipc.batch, req |-> r, res |-> out.res, todo |-> out.todo]
    BY DEF Receive
  <1>3. c \in Clients /\ c = ipc.batch[1].of /\ ipc.batch[1].fd # 0
    BY <1>1, HeadEvent
  <1>4. inbox \in [Clients -> Seq(Requests)] /\ inbox[c] \in Seq(Requests) /\ client \in [Clients -> Programs]
    BY <1>0, <1>3 DEF SocketTyped, ClientTyped
  <1> HIDE DEF f, c
  <1>5. /\ r \in Requests /\ r = inbox[c][1] /\ Tail(inbox[c]) \in Seq(Requests)
        /\ Len(inbox[c]) = Len(Tail(inbox[c])) + 1
        /\ \A j \in DOMAIN Tail(inbox[c]) : j + 1 \in DOMAIN inbox[c] /\ Tail(inbox[c])[j] = inbox[c][j + 1]
    BY <1>1, <1>4
  <1>6. out \in Outcomes /\ (out.res = "ok" => r.size = ReqSize(r.type))
    BY <1>5, DispatchTyped
  <1> HIDE DEF r
  <1>7. IpcTyped'
    <2>1. ipc.batch \in Seq(Events)
      BY <1>0, BatchTyped
    <2> QED
      BY <1>2, <1>5, <1>6, <2>1 DEF IpcTyped, Threads, Outcomes
  <1>8. ClientTyped' /\ SocketTyped' /\ OneConnection'
    BY <1>0, <1>1, <1>4, <1>5 DEF ClientTyped, SocketTyped, OneConnection
  <1>9. /\ ipc'.pc = "push" /\ ipc'.batch = ipc.batch /\ ipc'.req = r /\ ipc'.res = out.res
    BY <1>2
  <1>10. OwnEvents' /\ ServedRightly' /\ Answered'
    <2>1. OwnEvents'
      BY <1>0, <1>1, <1>9, BatchKept
    <2>2. ServedRightly'
      BY <1>1, <1>3, <1>6, <1>9 DEF ServedRightly
    <2>3. Answered'
      BY <1>0, <1>1 DEF Answered
    <2> QED
      BY <2>1, <2>2, <2>3
  <1>11. ASSUME NEW d \in Clients PROVE AccountedFor(d)'
    <2>1. AccountedFor(d) /\ ~Serves(d) /\ (Serves(d)' <=> d = c)
      BY <1>0, <1>1, <1>3, <1>9 DEF Accounted, Serves
    <2>2. CASE d # c
      <3>1. inbox'[d] = inbox[d]
        BY <1>1, <1>4, <2>2
      <3> QED
        BY <1>1, <2>1, <2>2, <3>1, AccountKept
    <2>3. CASE d = c
      <3> DEFINE s == client[d].sent
                 q == inbox[d]
                 n == Len(client[d].got)
      <3>1. s \in Seq(Requests) /\ q \in Seq(Requests) /\ n \in Nat
        <4>1. client[d] \in Programs
          BY <1>4
        <4> QED
          BY <1>4, <2>3, <4>1 DEF Programs
      <3>2. inbox'[d] = Tail(q) /\ client' = client /\ InHand(d) = 0 /\ InHand(d)' = 1
        <4>1. ~Serves(d) /\ Serves(d)'
          BY <2>1, <2>3
        <4> QED
          BY <1>1, <1>4, <2>3, <4>1 DEF InHand
      <3>3. CASE client[d].at # "left"
        <4>1. Len(s) = n + Len(q) /\ \A j \in DOMAIN q : q[j] = s[n + j]
          <5>1. Len(s) = n + 0 + Len(q) /\ \A j \in DOMAIN q : q[j] = s[n + 0 + j]
            BY <2>1, <3>2, <3>3 DEF AccountedFor
          <5> HIDE DEF s, q, n
          <5> QED
            BY <3>1, <5>1
        <4>2. Len(q) = Len(Tail(q)) + 1 /\ Tail(q) \in Seq(Requests) /\ r = q[1]
              /\ 1 \in DOMAIN q
              /\ \A j \in DOMAIN Tail(q) : j + 1 \in DOMAIN q /\ Tail(q)[j] = q[j + 1]
          BY <1>1, <1>5, <2>3
        <4> HIDE DEF s, q, n, InHand
        <4>3. Len(s) = n + 1 + Len(Tail(q)) /\ r = s[n + 1]
          BY <3>1, <4>1, <4>2
        <4>4. ASSUME NEW j \in DOMAIN Tail(q) PROVE Tail(q)[j] = s[n + 1 + j]
          <5>1. Tail(q)[j] = s[n + (j + 1)]
            BY <4>1, <4>2
          <5>2. n + (j + 1) = n + 1 + j
            BY <3>1, <4>2
          <5> QED
            BY <5>1, <5>2
        <4>5. /\ Len(client'[d].sent) = Len(client'[d].got) + InHand(d)' + Len(inbox'[d])
              /\ ipc'.req = client'[d].sent[Len(client'[d].got) + 1]
              /\ \A j \in DOMAIN inbox'[d] : inbox'[d][j] = client'[d].sent[Len(client'[d].got) + InHand(d)' + j]
          BY <1>9, <3>2, <4>3, <4>4 DEF s, n
        <4> QED
          BY <4>5 DEF AccountedFor
      <3>4. CASE client[d].at = "left"
        BY <3>2, <3>4 DEF AccountedFor
      <3> QED
        BY <3>3, <3>4
    <2> QED
      BY <2>2, <2>3
  <1> QED
    BY <1>7, <1>8, <1>10, <1>11 DEF IInv, Typed, Accounted

LEMMA PushStep ==
  ASSUME IInv, Push
  PROVE  IInv'
  <1>0. ClientTyped /\ SocketTyped /\ IpcTyped /\ OneConnection /\ OwnEvents /\ ServedRightly
        /\ Accounted /\ Answered
    BY DEF IInv, Typed
  <1>1. /\ ipc.pc = "push" /\ ipc.todo # <<>> /\ ipc' = [ipc EXCEPT !.todo = Tail(@)]
        /\ UNCHANGED <<client, backlog, fd, inbox>>
    BY DEF Push
  <1>2. ipc \in [pc : {"push"}, batch : Seq(Events), req : Requests, res : Results, todo : Seq(Pushes)]
    BY <1>0, <1>1 DEF IpcTyped, Threads
  <1>3. /\ ipc'.pc = ipc.pc /\ ipc'.batch = ipc.batch /\ ipc'.req = ipc.req /\ ipc'.res = ipc.res
    BY <1>1, <1>2
  <1>4. IpcTyped'
    <2>1. Tail(ipc.todo) \in Seq(Pushes)
      BY <1>1, <1>2
    <2>2. ipc' \in [pc : {"push"}, batch : Seq(Events), req : Requests, res : Results, todo : Seq(Pushes)]
      BY <1>1, <1>2, <2>1
    <2> QED
      BY <2>2 DEF IpcTyped, Threads
  <1>5. ClientTyped' /\ SocketTyped' /\ OneConnection' /\ Answered'
    BY <1>0, <1>1 DEF ClientTyped, SocketTyped, OneConnection, Answered
  <1>6. OwnEvents' /\ ServedRightly'
    <2>1. OwnEvents'
      BY <1>0, <1>1, <1>3, BatchKept
    <2>2. ServedRightly'
      BY <1>0, <1>3 DEF ServedRightly
    <2> QED
      BY <2>1, <2>2
  <1>7. ASSUME NEW d \in Clients PROVE AccountedFor(d)'
    <2>1. AccountedFor(d) /\ (Serves(d)' <=> Serves(d))
      BY <1>0, <1>3 DEF Accounted, Serves
    <2> QED
      BY <1>1, <1>3, <2>1, AccountKept
  <1> QED
    BY <1>4, <1>5, <1>6, <1>7 DEF IInv, Typed, Accounted

\* The answer reaches the client that asked.
LEMMA AnswerStep ==
  ASSUME IInv, Reply, ~Left(Head(ipc.batch).fd)
  PROVE  IInv'
  <1> DEFINE f == Head(ipc.batch).fd
             c == fd[f]
             a == Answer(ipc.req, ipc.res, IF ipc.res = "ok" THEN RespSize(ipc.req.type) ELSE "bare")
             g == client[c].got
             s == client[c].sent
             n == Len(g)
  <1>0. ClientTyped /\ SocketTyped /\ IpcTyped /\ OneConnection /\ OwnEvents /\ ServedRightly
        /\ Accounted /\ Answered
    BY DEF IInv, Typed
  <1>1. /\ ipc.pc = "push" /\ ipc' = [pc |-> "event", batch |-> ipc.batch]
        /\ client' = [client EXCEPT ![c].got = Append(@, a)]
        /\ UNCHANGED <<fd, inbox, backlog>>
    BY DEF Reply
  <1>2. ipc \in [pc : {"push"}, batch : Seq(Events), req : Requests, res : Results, todo : Seq(Pushes)]
    BY <1>0, <1>1 DEF IpcTyped, Threads
  <1>3. /\ c \in Clients /\ c = ipc.batch[1].of /\ client[c].at # "left"
    <2>1. ipc.batch # <<>> /\ ipc.batch[1].fd # 0 /\ f = ipc.batch[1].fd
      <3>1. ipc.batch # <<>> /\ ipc.batch[1].fd # 0
        BY <1>0, <1>1 DEF ServedRightly
      <3>2. ipc.batch \in Seq(Events)
        BY <1>0, BatchTyped
      <3> QED
        BY <3>1, <3>2
    <2>2. c \in Clients /\ c = ipc.batch[1].of /\ c # NoClient
      BY <2>1, HeadEvent
    <2> QED
      BY <2>2 DEF Left
  <1>4. a \in Answers /\ a.req = ipc.req
    <2>1. ipc.res = "ok" => ipc.req.size = ReqSize(ipc.req.type)
      BY <1>0, <1>1 DEF ServedRightly
    <2>2. RespSize(ipc.req.type) \in {"bare", "data"}
      BY DEF RespSize
    <2>3. ipc.req \in Requests /\ ipc.res \in Results
      BY <1>2
    <2> QED
      BY <2>1, <2>2, <2>3 DEF Answers, Answer
  <1> HIDE DEF f, c, a
  <1>5. /\ client[c] \in Programs /\ g \in Seq(Answers) /\ s \in Seq(Requests) /\ n \in Nat
        /\ Append(g, a) \in Seq(Answers) /\ Len(Append(g, a)) = n + 1
        /\ Append(g, a)[n + 1] = a /\ \A k \in 1 .. n : Append(g, a)[k] = g[k]
    <2>1. client[c] \in Programs
      BY <1>0, <1>3 DEF ClientTyped
    <2>2. g \in Seq(Answers) /\ s \in Seq(Requests)
      BY <2>1 DEF Programs
    <2> HIDE DEF g, s
    <2> QED
      BY <1>4, <2>1, <2>2
  <1>6. /\ ClientTyped'
        /\ \A d \in Clients : /\ client'[d].sent = client[d].sent /\ client'[d].at = client[d].at
                              /\ client'[d].got = IF d = c THEN Append(g, a) ELSE client[d].got
    <2> DEFINE e == [client[c] EXCEPT !.got = Append(g, a)]
    <2>1. client' = [client EXCEPT ![c] = e]
      BY <1>0, <1>1, <1>3 DEF ClientTyped
    <2>2. e \in Programs /\ e.sent = s /\ e.at = client[c].at /\ e.got = Append(g, a)
      BY <1>5 DEF Programs
    <2>3. client \in [Clients -> Programs]
      BY <1>0 DEF ClientTyped
    <2> HIDE DEF e, g, s
    <2>4. \A d \in Clients : client'[d] = IF d = c THEN e ELSE client[d]
      BY <1>3, <2>1, <2>3
    <2>5. ClientTyped'
      BY <1>3, <2>1, <2>2, <2>3 DEF ClientTyped
    <2> QED
      BY <2>2, <2>4, <2>5 DEF s
  <1>7. IpcTyped' /\ ipc'.pc = "event" /\ ipc'.batch = ipc.batch
    BY <1>1, <1>2 DEF IpcTyped, Threads
  <1>8. SocketTyped' /\ OneConnection' /\ OwnEvents' /\ ServedRightly'
    <2>1. SocketTyped'
      BY <1>0, <1>1 DEF SocketTyped
    <2>2. OneConnection'
      BY <1>0, <1>1, <1>6, ConnectionsKept
    <2>3. OwnEvents'
      BY <1>0, <1>1, <1>6, <1>7, BatchKept
    <2> QED
      BY <1>7, <2>1, <2>2, <2>3 DEF ServedRightly
  <1> DEFINE q == inbox[c]
  <1>10. /\ Len(s) = n + 1 + Len(q) /\ ipc.req = s[n + 1]
         /\ \A j \in DOMAIN q : q[j] = s[n + 1 + j]
    <2>1. Serves(c) /\ AccountedFor(c)
      BY <1>0, <1>1, <1>3 DEF Serves, Accounted
    <2> QED
      BY <1>3, <2>1 DEF AccountedFor, InHand
  <1>11. q \in Seq(Requests)
    BY <1>0, <1>3 DEF SocketTyped
  <1>12. Answered'
    <2>1. ASSUME NEW d \in Clients, NEW k \in DOMAIN client'[d].got
          PROVE  k <= Len(client'[d].sent) /\ client'[d].got[k].req = client'[d].sent[k]
      <3>1. CASE d # c
        BY <1>0, <1>6, <2>1, <3>1 DEF Answered
      <3>2. CASE d = c
        <4>1. client'[d].sent = s /\ client'[d].got = Append(g, a)
          BY <1>6, <3>2
        <4>2. k \in 1 .. n + 1
          BY <1>5, <2>1, <4>1
        <4>3. CASE k = n + 1
          <5> HIDE DEF g, s, q, n
          <5> QED
            BY <1>4, <1>5, <1>10, <1>11, <4>1, <4>3
        <4>4. CASE k # n + 1
          <5>1. k \in DOMAIN g
            BY <1>5, <4>2, <4>4
          <5>2. k <= Len(s) /\ g[k].req = s[k]
            BY <1>0, <1>3, <5>1 DEF Answered
          <5>3. k \in 1 .. n
            BY <1>5, <4>2, <4>4
          <5> HIDE DEF g, s, n
          <5> QED
            BY <1>5, <4>1, <5>2, <5>3
        <4> QED
          BY <4>3, <4>4
      <3> QED
        BY <3>1, <3>2
    <2> QED
      BY <2>1 DEF Answered
  <1>13. ASSUME NEW d \in Clients PROVE AccountedFor(d)'
    <2>1. CASE d # c
      <3>1. AccountedFor(d) /\ ~Serves(d) /\ ~Serves(d)'
        BY <1>0, <1>3, <1>7, <2>1 DEF Accounted, Serves
      <3> QED
        BY <1>1, <1>6, <2>1, <3>1, AccountKept
    <2>2. CASE d = c
      <3>1. client'[d].sent = s /\ client'[d].got = Append(g, a) /\ inbox'[d] = q
        BY <1>1, <1>6, <2>2
      <3>2. ~Serves(d)' /\ InHand(d)' = 0
        BY <1>7 DEF Serves, InHand
      <3> HIDE DEF g, s, q, n, InHand
      <3>3. Len(s) = (n + 1) + 0 + Len(q) /\ \A j \in DOMAIN q : q[j] = s[(n + 1) + 0 + j]
        BY <1>5, <1>10, <1>11
      <3>4. /\ Len(client'[d].sent) = Len(client'[d].got) + InHand(d)' + Len(inbox'[d])
            /\ \A j \in DOMAIN inbox'[d] : inbox'[d][j] = client'[d].sent[Len(client'[d].got) + InHand(d)' + j]
        <4>1. Len(client'[d].got) = n + 1
          BY <1>5, <3>1
        <4> QED
          BY <3>1, <3>2, <3>3, <4>1
      <3> QED
        BY <3>2, <3>4 DEF AccountedFor
    <2> QED
      BY <2>1, <2>2
  <1> QED
    BY <1>6, <1>7, <1>8, <1>12, <1>13 DEF IInv, Typed, Accounted

LEMMA ReplyStep ==
  ASSUME IInv, Reply
  PROVE  IInv'
  <1> DEFINE f == Head(ipc.batch).fd
             c == fd[f]
  <1>0. ClientTyped /\ SocketTyped /\ IpcTyped /\ OneConnection /\ OwnEvents /\ ServedRightly
        /\ Accounted /\ Answered
    BY DEF IInv, Typed
  <1>1. ipc.pc = "push" /\ ipc.batch # <<>> /\ ipc.batch[1].fd # 0
    BY <1>0 DEF Reply, ServedRightly
  <1>2. /\ Head(ipc.batch) = ipc.batch[1] /\ c \in Clients /\ c = ipc.batch[1].of
        /\ ipc.batch \in Seq(Events)
    <2>1. ipc.batch \in Seq(Events)
      BY <1>0, BatchTyped
    <2>2. Head(ipc.batch) = ipc.batch[1]
      BY <1>1, <2>1
    <2> QED
      BY <1>1, <2>1, <2>2, HeadEvent
  <1>3. CASE ~Left(f)
    BY <1>3, AnswerStep
  <1>4. CASE Left(f) /\ ipc.res # "too_long"
    <2>1. Close(f) /\ ipc' = NextEvent(ipc) /\ client' = client /\ backlog' = backlog
      BY <1>4 DEF Reply
    <2> QED
      BY <1>1, <1>2, <1>4, <2>1, ClosingStep DEF Left
  <1>5. CASE Left(f) /\ ipc.res = "too_long"
    <2>1. /\ client' = [client EXCEPT ![c].got = @] /\ ipc' = [pc |-> "event", batch |-> ipc.batch]
          /\ UNCHANGED <<fd, inbox, backlog>>
      BY <1>5 DEF Reply
    <2>2. client' = client
      <3>1. client \in [Clients -> Programs] /\ client[c] \in Programs
        BY <1>0, <1>2 DEF ClientTyped
      <3>2. [client[c] EXCEPT !.got = client[c].got] = client[c]
        BY <3>1 DEF Programs
      <3>3. client' = [client EXCEPT ![c] = [client[c] EXCEPT !.got = client[c].got]]
        BY <1>2, <2>1, <3>1
      <3> HIDE DEF c
      <3> QED
        BY <3>1, <3>2, <3>3
    <2>3. IpcTyped' /\ ipc'.pc = "event" /\ ipc'.batch = ipc.batch
      BY <1>2, <2>1 DEF IpcTyped, Threads
    <2>4. ClientTyped' /\ SocketTyped' /\ OneConnection' /\ Answered'
      <3>1. UNCHANGED <<client, backlog, fd, inbox>>
        BY <2>1, <2>2
      <3> QED
        BY <1>0, <3>1 DEF ClientTyped, SocketTyped, OneConnection, Answered
    <2>5. OwnEvents' /\ ServedRightly'
      <3>1. OwnEvents'
        BY <1>0, <2>1, <2>2, <2>3, BatchKept
      <3> QED
        BY <2>3, <3>1 DEF ServedRightly
    <2>6. ASSUME NEW d \in Clients PROVE AccountedFor(d)'
      <3>1. CASE client[d].at = "left"
        BY <2>2, <3>1 DEF AccountedFor
      <3>2. CASE client[d].at # "left"
        <4>1. AccountedFor(d) /\ ~Serves(d) /\ ~Serves(d)'
          BY <1>0, <1>2, <1>5, <2>3, <3>2 DEF Accounted, Serves, Left
        <4> QED
          BY <2>1, <2>2, <3>2, <4>1, AccountKept
      <3> QED
        BY <3>1, <3>2
    <2> QED
      BY <2>3, <2>4, <2>5, <2>6 DEF IInv, Typed, Accounted
  <1> QED
    BY <1>3, <1>4, <1>5

----------------------------------------------------------------------------
\* The specification.

\* Nobody but the clients and the IPC thread touches what the invariant is about.
LEMMA OthersStayOut ==
  ASSUME [Next]_vars
  PROVE  IpcGoesOn \/ ClientActs \/ UNCHANGED <<client, backlog, fd, inbox, ipc>>
  <1>1. CASE UNCHANGED vars
    BY <1>1 DEF vars, ipcVars
  <1>2. CASE IpcWorks \/ ClientActs
    BY <1>2 DEF IpcWorks
  <1>3. CASE LvglWorks
    BY <1>3 DEF LvglWorks, LvglServes, LvglEnds, HelperPops, ipcVars
  <1>4. CASE TickServes
    BY <1>4 DEF TickServes, PrtsPops
  <1>5. CASE ChecksGoOn \/ (Environment /\ ~ClientActs)
    BY <1>5 DEF ChecksGoOn, Environment, Schedule, ipcVars
  <1>6. CASE WorkerGoesOn
    BY <1>6 DEF WorkerGoesOn, WorkerTop, WorkerTakes, WorkerWoken, WorkerDrawn, ipcVars
  <1>7. CASE MainReaps \/ MainGoesOn
    BY <1>7 DEF MainReaps, MainGoesOn, MainLeaves, TimersEnd, EachApp, MainKills, SleepOver,
               IpcJoined, LvglJoined, SignalWorker, MainDone, ipcVars
  <1> QED
    BY <1>1, <1>2, <1>3, <1>4, <1>5, <1>6, <1>7 DEF Next

LEMMA NextKeepsIInv ==
  ASSUME IInv, [Next]_vars
  PROVE  IInv'
  <1>1. CASE IpcGoesOn
    BY <1>1, EpollWaitStep, IdleSteps, AcceptStep, HangUpStep, DrainedStep, ReceiveStep, PushStep,
       ReplyStep DEF IpcGoesOn
  <1>2. CASE ClientActs
    BY <1>2, ConnectStep, LeaveStep, SendStep DEF ClientActs
  <1>3. CASE UNCHANGED <<client, backlog, fd, inbox, ipc>>
    <2>1. Typed' /\ OneConnection' /\ Answered'
      BY <1>3 DEF IInv, Typed, ClientTyped, SocketTyped, IpcTyped, OneConnection, Answered
    <2>2. OwnEvents' /\ ServedRightly'
      BY <1>3, EventsKept DEF IInv
    <2>3. ASSUME NEW c \in Clients PROVE AccountedFor(c)'
      <3>1. AccountedFor(c) /\ (Serves(c)' <=> Serves(c))
        BY <1>3 DEF IInv, Accounted, Serves
      <3> QED
        BY <1>3, <3>1, AccountKept
    <2> QED
      BY <2>1, <2>2, <2>3 DEF IInv, Accounted
  <1> QED
    BY <1>1, <1>2, <1>3, OthersStayOut

\* The framing of an answer is in the type of the answers.
LEMMA IInvAnswers ==
  ASSUME IInv
  PROVE  AnswersInOrder
  <1>1. ASSUME NEW c \in Clients, NEW k \in DOMAIN client[c].got
        PROVE  client[c].got[k] \in Answers
    <2>1. client[c] \in Programs
      BY DEF IInv, Typed, ClientTyped
    <2>2. client[c].got \in Seq(Answers)
      BY <2>1 DEF Programs
    <2> QED
      BY <2>2
  <1>2. \A a \in Answers :
          /\ a.size = IF a.type = "ok" THEN RespSize(a.req.type) ELSE "bare"
          /\ a.type = "ok" => a.req.size = ReqSize(a.req.type)
    BY DEF Answers
  <1>3. Answered
    BY DEF IInv
  <1> QED
    BY <1>1, <1>2, <1>3 DEF AnswersInOrder, Answered

\* Whatever the clients send, whenever they connect and leave, and however full the
\* queues are: what a client has got are the answers to its own requests, each once
\* and in the order it sent them, framed as the protocol says, although the kernel
\* gives the descriptor of a client that left to another one and events about several
\* clients are served in one batch (apps_ipc_server_thread).
THEOREM AnswersInOrderCorrect == Spec => []AnswersInOrder
  <1>1. Init => IInv
    BY InitIInv
  <1>2. IInv /\ [Next]_vars => IInv'
    BY NextKeepsIInv
  <1>3. IInv => AnswersInOrder
    BY IInvAnswers
  <1> QED
    BY <1>1, <1>2, <1>3, PTL DEF Spec

----------------------------------------------------------------------------
\* The application table.

\* What holds at the start of n rounds and is kept by each holds at the end.
LEMMA Reached ==
  ASSUME NEW n \in Nat, NEW G, 0 \in G, \A k \in 1 .. n : k - 1 \in G => k \in G
  PROVE  n \in G
  <1> DEFINE S == {k \in 0 .. n : k \notin G}
  <1>1. S = {}
    <2> SUFFICES ASSUME S # {} PROVE FALSE
      OBVIOUS
    <2>1. S \in SUBSET Nat
      OBVIOUS
    <2>2. PICK k \in S : \A j \in S : k <= j
      <3> HIDE DEF S
      <3> QED
        BY <2>1, LeastNat
    <2>3. k \in 1 .. n /\ k - 1 \in 0 .. n /\ ~ (k <= k - 1) /\ k \notin G
      <3>1. k \in 0 .. n /\ k \notin G
        OBVIOUS
      <3> QED
        BY <3>1
    <2>4. k - 1 \in G
      BY <2>2, <2>3
    <2> QED
      BY <2>3, <2>4
  <1> QED
    BY <1>1

\* f has the values of a loop that changes a value of X n times.
Loops(X, n, base, step, f) ==
  f \in [0 .. n -> X] /\ f = [k \in 0 .. n |-> IF k = 0 THEN base ELSE step[k][f[k - 1]]]

\* There is one.
LEMMA Loop ==
  ASSUME NEW X, NEW n \in Nat, NEW base \in X, NEW step \in [1 .. n -> [X -> X]]
  PROVE  \E f : Loops(X, n, base, step, f)
  <1> DEFINE F(m, f) == f \in [0 .. m -> X] /\ f[0] = base /\ \A k \in 1 .. m : f[k] = step[k][f[k - 1]]
             G == {m \in 0 .. n : \E f : F(m, f)}
  <1>1. 0 \in G
    <2>1. F(0, [k \in 0 .. 0 |-> base])
      OBVIOUS
    <2> HIDE DEF F
    <2> QED
      BY <2>1
  <1>2. ASSUME NEW m \in 1 .. n, m - 1 \in G PROVE m \in G
    <2>1. PICK f : F(m - 1, f)
      <3> HIDE DEF F
      <3> QED
        BY <1>2
    <2> DEFINE g == [k \in 0 .. m |-> IF k < m THEN f[k] ELSE step[m][f[m - 1]]]
    <2>2. f[m - 1] \in X /\ step[m] \in [X -> X]
      BY <2>1
    <2>3. g \in [0 .. m -> X] /\ g[0] = base
      BY <2>1, <2>2
    <2>4. ASSUME NEW k \in 1 .. m PROVE g[k] = step[k][g[k - 1]]
      <3>1. CASE k < m
        <4>1. g[k] = f[k] /\ g[k - 1] = f[k - 1] /\ k \in 1 .. m - 1
          BY <3>1
        <4> QED
          BY <2>1, <4>1
      <3>2. CASE k = m
        <4>1. g[m] = step[m][f[m - 1]] /\ g[m - 1] = f[m - 1]
          OBVIOUS
        <4> QED
          BY <3>2, <4>1
      <3> QED
        BY <3>1, <3>2
    <2>5. F(m, g)
      BY <2>3, <2>4, Zenon
    <2> HIDE DEF F
    <2> QED
      BY <2>5
  <1>3. PICK f : F(n, f)
    <2>1. n \in G
      <3> HIDE DEF G
      <3> QED
        BY <1>1, <1>2, Reached
    <2> HIDE DEF F
    <2> QED
      BY <2>1
  <1>4. f = [k \in 0 .. n |-> IF k = 0 THEN base ELSE step[k][f[k - 1]]]
    BY <1>3
  <1> QED
    BY <1>3, <1>4 DEF Loops

Maps == Seq([ext : {Lower[e] : e \in DOMAIN Lower}, app : Nat])

LEMMA AddTyped ==
  ASSUME NEW map \in Maps, NEW e \in DOMAIN Lower, NEW i \in Nat
  PROVE  ExtAdd(map, e, i) \in Maps
  <1> DEFINE E == [ext : {Lower[x] : x \in DOMAIN Lower}, app : Nat]
  <1>1. [ext |-> Lower[e], app |-> i] \in E /\ map \in Seq(E)
    BY DEF Maps
  <1> HIDE DEF E
  <1>2. Append(map, [ext |-> Lower[e], app |-> i]) \in Seq(E)
    BY <1>1
  <1> QED
    BY <1>2 DEF ExtAdd, Maps, E

\* The declarations of an application are added one after another.
LEMMA AddedInTurn ==
  ASSUME NEW map \in Maps, NEW exts \in Seq(DOMAIN Lower), NEW i \in Nat
  PROVE  \E f : /\ f[0] = map
                /\ \A k \in 1 .. Len(exts) : f[k] = ExtAdd(f[k - 1], exts[k], i)
                /\ ExtAddAll(map, exts, i) = f[Len(exts)]
  <1> DEFINE F(f) == f = [k \in 0 .. Len(exts) |-> IF k = 0 THEN map ELSE ExtAdd(f[k - 1], exts[k], i)]
             after == CHOOSE f : F(f)
             step == [k \in 1 .. Len(exts) |-> [m \in Maps |-> ExtAdd(m, exts[k], i)]]
  <1>1. Len(exts) \in Nat /\ \A k \in 1 .. Len(exts) : exts[k] \in DOMAIN Lower
    OBVIOUS
  <1>2. step \in [1 .. Len(exts) -> [Maps -> Maps]]
    <2>1. \A k \in 1 .. Len(exts), m \in Maps : ExtAdd(m, exts[k], i) \in Maps
      BY <1>1, AddTyped
    <2> QED
      BY <2>1
  <1>3. PICK f \in [0 .. Len(exts) -> Maps] :
          f = [k \in 0 .. Len(exts) |-> IF k = 0 THEN map ELSE step[k][f[k - 1]]]
    <2> HIDE DEF step
    <2>1. PICK s, n : s = step /\ n = Len(exts)
      OBVIOUS
    <2>2. s \in [1 .. n -> [Maps -> Maps]] /\ n \in Nat
      BY <1>1, <1>2, <2>1
    <2>3. \E f : Loops(Maps, n, map, s, f)
      BY <2>2, Loop
    <2> QED
      BY <2>1, <2>3, Zenon DEF Loops
  <1>4. ASSUME NEW k \in 0 .. Len(exts)
        PROVE  f[k] = IF k = 0 THEN map ELSE ExtAdd(f[k - 1], exts[k], i)
    <2>1. CASE k = 0
      BY <1>3, <2>1
    <2>2. CASE k # 0
      <3>1. k \in 1 .. Len(exts) /\ k - 1 \in 0 .. Len(exts)
        BY <1>1, <2>2
      <3>2. f[k] = step[k][f[k - 1]] /\ f[k - 1] \in Maps
        BY <1>3, <2>2, <3>1
      <3>3. step[k] = [m \in Maps |-> ExtAdd(m, exts[k], i)]
        BY <3>1
      <3> HIDE DEF step
      <3> QED
        BY <2>2, <3>2, <3>3
    <2> QED
      BY <2>1, <2>2
  <1>5. F(f)
    BY <1>4
  <1>6. F(after)
    <2> HIDE DEF F
    <2> QED
      BY <1>5, Zenon
  <1>7. ExtAddAll(map, exts, i) = after[Len(exts)]
    BY DEF ExtAddAll
  <1> HIDE DEF after
  <1>8. after[0] = map /\ \A k \in 1 .. Len(exts) : after[k] = ExtAdd(after[k - 1], exts[k], i)
    BY <1>1, <1>6
  <1> QED
    BY <1>7, <1>8, Zenon

----------------------------------------------------------------------------
\* What the map says.

\* The extensions an application declares.
Decl(d) == {Lower[Config[d].exts[k]] : k \in DOMAIN Config[d].exts}

\* The map leads from an extension to the first of n applications that declares it.
MapFor(map, n, decl) ==
  /\ map \in Maps /\ Len(map) <= ExtmapMax
  /\ \A k \in DOMAIN map :
       /\ map[k].app \in 1 .. n /\ map[k].ext # None /\ map[k].ext \in decl[map[k].app]
       /\ \A j \in 1 .. n : j < map[k].app => map[k].ext \notin decl[j]
  /\ \A j, k \in DOMAIN map : map[j].ext = map[k].ext => j = k
  /\ Len(map) = ExtmapMax \/ \A j \in 1 .. n : \A e \in decl[j] : e # None => \E k \in DOMAIN map : map[k].ext = e

\* One more extension of the last application.
LEMMA AddedKeeps ==
  ASSUME NEW n \in Nat, n > 0, NEW decl, NEW more, NEW map, MapFor(map, n, decl), NEW e \in DOMAIN Lower,
         \A j \in 1 .. n : j < n => more[j] = decl[j], more[n] = decl[n] \cup {Lower[e]}
  PROVE  MapFor(ExtAdd(map, e, n), n, more)
  <1>1. map \in Maps /\ ExtmapMax \in Nat /\ Len(map) \in Nat /\ Len(map) <= ExtmapMax /\ DOMAIN map = 1 .. Len(map)
    BY AppsAssumption DEF MapFor, Maps
  <1>2. \A j \in 1 .. n : decl[j] \subseteq more[j] /\ \A x \in more[j] : x \in decl[j] \/ (j = n /\ x = Lower[e])
    OBVIOUS
  <1>3. \A k \in DOMAIN map :
          /\ map[k].app \in 1 .. n /\ map[k].ext # None /\ map[k].ext \in more[map[k].app]
          /\ \A j \in 1 .. n : j < map[k].app => map[k].ext \notin more[j]
    <2> SUFFICES ASSUME NEW k \in DOMAIN map
                 PROVE  /\ map[k].app \in 1 .. n /\ map[k].ext # None /\ map[k].ext \in more[map[k].app]
                        /\ \A j \in 1 .. n : j < map[k].app => map[k].ext \notin more[j]
      OBVIOUS
    <2>1. PICK a, x : a = map[k].app /\ x = map[k].ext
      OBVIOUS
    <2>2. a \in 1 .. n /\ x # None /\ x \in decl[a] /\ \A j \in 1 .. n : j < a => x \notin decl[j]
      BY <2>1 DEF MapFor
    <2>3. \A j \in 1 .. n : j < a => more[j] = decl[j]
      BY <2>2
    <2> QED
      BY <1>2, <2>1, <2>2, <2>3
  <1>4. CASE Len(map) >= ExtmapMax
    <2>1. ExtAdd(map, e, n) = map /\ Len(map) = ExtmapMax
      BY <1>1, <1>4 DEF ExtAdd
    <2> QED
      BY <1>1, <1>3, <2>1 DEF MapFor
  <1>5. CASE ~ (Len(map) >= ExtmapMax) /\ (Lower[e] = None \/ \E k \in DOMAIN map : map[k].ext = Lower[e])
    <2>1. ExtAdd(map, e, n) = map /\ Len(map) # ExtmapMax
      BY <1>1, <1>5 DEF ExtAdd
    <2>2. \A j \in 1 .. n : \A x \in decl[j] : x # None => \E k \in DOMAIN map : map[k].ext = x
      BY <2>1 DEF MapFor
    <2>3. \A j \in 1 .. n : \A x \in more[j] : x # None => \E k \in DOMAIN map : map[k].ext = x
      BY <1>2, <1>5, <2>2
    <2>4. \A j, k \in DOMAIN map : map[j].ext = map[k].ext => j = k
      BY DEF MapFor
    <2> QED
      BY <1>1, <1>3, <2>1, <2>3, <2>4 DEF MapFor
  <1>6. CASE /\ ~ (Len(map) >= ExtmapMax) /\ Lower[e] # None
             /\ ~ \E k \in DOMAIN map : map[k].ext = Lower[e]
    <2>1. PICK new : new = ExtAdd(map, e, n)
      OBVIOUS
    <2>2. PICK r, L : r = [ext |-> Lower[e], app |-> n] /\ L = Len(map) + 1
      OBVIOUS
    <2>3. new = Append(map, r) /\ r.ext = Lower[e] /\ r.app = n
      BY <1>6, <2>1, <2>2 DEF ExtAdd
    <2>4. /\ Len(new) = L /\ DOMAIN new = 1 .. L /\ new[L] = r /\ \A k \in DOMAIN map : new[k] = map[k]
          /\ L \in 1 .. L /\ L \notin DOMAIN map /\ DOMAIN map \subseteq 1 .. L /\ \A k \in 1 .. L : k = L \/ k \in DOMAIN map
      BY <1>1, <2>2, <2>3 DEF Maps
    <2>5. \A j \in 1 .. n : \A x \in decl[j] : x # None => \E k \in DOMAIN map : map[k].ext = x
      BY <1>1, <1>6 DEF MapFor
    <2>6. \A j \in 1 .. n : j < n => Lower[e] \notin more[j]
      BY <1>6, <2>5
    <2>7. ASSUME NEW k \in DOMAIN new
          PROVE  /\ new[k].app \in 1 .. n /\ new[k].ext # None /\ new[k].ext \in more[new[k].app]
                 /\ \A j \in 1 .. n : j < new[k].app => new[k].ext \notin more[j]
      <3>1. CASE k = L
        BY <1>6, <2>3, <2>4, <2>6, <3>1
      <3>2. CASE k \in DOMAIN map
        <4>1. new[k] = map[k]
          BY <2>4, <3>2
        <4> QED
          BY <1>3, <3>2, <4>1
      <3> QED
        BY <2>4, <3>1, <3>2
    <2>8. ASSUME NEW j \in DOMAIN new, NEW k \in DOMAIN new, new[j].ext = new[k].ext PROVE j = k
      <3>1. \A a, b \in DOMAIN map : map[a].ext = map[b].ext => a = b
        BY DEF MapFor
      <3>2. \A a \in DOMAIN map : new[a].ext = map[a].ext /\ new[a].ext # new[L].ext
        BY <1>6, <2>3, <2>4
      <3> QED
        BY <2>4, <2>8, <3>1, <3>2
    <2>9. \A j \in 1 .. n : \A x \in more[j] : x # None => \E k \in DOMAIN new : new[k].ext = x
      <3>1. ASSUME NEW j \in 1 .. n, NEW x \in more[j], x # None PROVE \E k \in DOMAIN new : new[k].ext = x
        <4>1. CASE x = Lower[e]
          BY <2>3, <2>4, <4>1
        <4>2. CASE x \in decl[j]
          <5>1. PICK k \in DOMAIN map : map[k].ext = x
            BY <2>5, <3>1, <4>2
          <5> QED
            BY <2>4, <5>1
        <4> QED
          BY <1>2, <4>1, <4>2
      <3> QED
        BY <3>1
    <2>10. new \in Maps
      BY <1>1, <2>1, AddTyped
    <2>11. Len(new) <= ExtmapMax
      BY <1>1, <1>6, <2>2, <2>4
    <2> QED
      BY <2>1, <2>7, <2>8, <2>9, <2>10, <2>11 DEF MapFor
  <1> QED
    BY <1>4, <1>5, <1>6

\* All extensions of the last application.
LEMMA AddedAllKeeps ==
  ASSUME NEW n \in Nat, n > 0, NEW decl, NEW more, NEW map, MapFor(map, n, decl), NEW d \in Dirs,
         \A j \in 1 .. n : j < n => more[j] = decl[j], decl[n] = {}, more[n] = Decl(d)
  PROVE  MapFor(ExtAddAll(map, Config[d].exts, n), n, more)
  <1>1. PICK exts : exts = Config[d].exts
    OBVIOUS
  <1>2. exts \in Seq(DOMAIN Lower) /\ map \in Maps
    BY <1>1, AppsAssumption DEF MapFor
  <1>3. PICK f : /\ f[0] = map
                 /\ \A k \in 1 .. Len(exts) : f[k] = ExtAdd(f[k - 1], exts[k], n)
                 /\ ExtAddAll(map, exts, n) = f[Len(exts)]
    BY <1>2, AddedInTurn
  <1>4. Len(exts) \in Nat /\ \A k \in 1 .. Len(exts) : exts[k] \in DOMAIN Lower
    BY <1>2
  <1> DEFINE D(k) == [j \in 1 .. n |-> IF j < n THEN decl[j] ELSE {Lower[exts[i]] : i \in 1 .. k}]
             P(k) == MapFor(f[k], n, D(k))
             G == {k \in 0 .. Len(exts) : P(k)}
  <1>5. 0 \in G
    <2>1. 1 .. 0 = {}
      OBVIOUS
    <2>2. {Lower[exts[i]] : i \in 1 .. 0} = {}
      BY <2>1
    <2>3. \A j \in 1 .. n : j < n \/ j = n
      OBVIOUS
    <2>4. \A j \in 1 .. n : D(0)[j] = decl[j]
      BY <2>2, <2>3
    <2>5. PICK E : E = D(0)
      OBVIOUS
    <2>6. MapFor(map, n, E)
      BY <2>4, <2>5 DEF MapFor
    <2>7. P(0)
      <3> HIDE DEF D
      <3> QED
        BY <1>3, <2>5, <2>6
    <2> HIDE DEF P
    <2> QED
      BY <1>4, <2>7
  <1>6. ASSUME NEW k \in 1 .. Len(exts), k - 1 \in G PROVE k \in G
    <2>1. P(k - 1)
      BY <1>6
    <2>2. PICK A, B, x : A = D(k - 1) /\ B = D(k) /\ x = exts[k]
      OBVIOUS
    <2>3. \A j \in 1 .. n : j < n => B[j] = A[j]
      BY <2>2
    <2>4. B[n] = A[n] \cup {Lower[x]}
      <3>1. n \in 1 .. n /\ ~ (n < n)
        OBVIOUS
      <3>2. A[n] = {Lower[exts[i]] : i \in 1 .. k - 1} /\ B[n] = {Lower[exts[i]] : i \in 1 .. k}
        BY <2>2, <3>1
      <3>3. 1 .. k = (1 .. k - 1) \cup {k}
        OBVIOUS
      <3> HIDE DEF D
      <3> QED
        BY <2>2, <3>2, <3>3
    <2>5. MapFor(f[k - 1], n, A) /\ f[k] = ExtAdd(f[k - 1], x, n) /\ x \in DOMAIN Lower
      BY <1>3, <1>4, <2>1, <2>2
    <2> HIDE DEF D
    <2>6. MapFor(f[k], n, B)
      BY <2>3, <2>4, <2>5, AddedKeeps
    <2>7. P(k)
      BY <2>2, <2>6
    <2> HIDE DEF P
    <2> QED
      BY <1>4, <2>7
  <1>7. PICK E, g : E = D(Len(exts)) /\ g = f[Len(exts)]
    OBVIOUS
  <1>8. MapFor(g, n, E)
    <2>1. Len(exts) \in G
      <3> HIDE DEF G
      <3> QED
        BY <1>4, <1>5, <1>6, Reached
    <2> QED
      BY <1>7, <2>1
  <1>9. \A j \in 1 .. n : E[j] = more[j]
    <2>1. DOMAIN exts = 1 .. Len(exts)
      BY <1>2
    <2>2. more[n] = {Lower[exts[i]] : i \in 1 .. Len(exts)}
      BY <1>1, <2>1 DEF Decl
    <2>3. \A j \in 1 .. n : j < n \/ j = n
      OBVIOUS
    <2>4. PICK T : T = {Lower[exts[i]] : i \in 1 .. Len(exts)}
      OBVIOUS
    <2>5. E = [j \in 1 .. n |-> IF j < n THEN decl[j] ELSE T]
      BY <1>7, <2>4
    <2> QED
      BY <2>2, <2>3, <2>4, <2>5
  <1>10. MapFor(g, n, more)
    <2> HIDE DEF D
    <2> QED
      BY <1>8, <1>9 DEF MapFor
  <1> QED
    BY <1>1, <1>3, <1>7, <1>10

Entries == [dir : Dirs, pid : Pids \cup {None}]

\* What the map says of a table.
MapOf(map, t) == MapFor(map, Len(t), [j \in 1 .. Len(t) |-> Decl(t[j].dir)])

LEMMA AddedAllTyped ==
  ASSUME NEW map \in Maps, NEW d \in Dirs, NEW i \in Nat
  PROVE  ExtAddAll(map, Config[d].exts, i) \in Maps
  <1>1. PICK exts : exts = Config[d].exts
    OBVIOUS
  <1>2. exts \in Seq(DOMAIN Lower)
    BY <1>1, AppsAssumption
  <1>3. PICK f : /\ f[0] = map
                 /\ \A k \in 1 .. Len(exts) : f[k] = ExtAdd(f[k - 1], exts[k], i)
                 /\ ExtAddAll(map, exts, i) = f[Len(exts)]
    BY <1>2, AddedInTurn
  <1> DEFINE G == {k \in 0 .. Len(exts) : f[k] \in Maps}
  <1>4. Len(exts) \in Nat /\ \A k \in 1 .. Len(exts) : exts[k] \in DOMAIN Lower
    BY <1>2
  <1>5. 0 \in G
    BY <1>3, <1>4
  <1>6. ASSUME NEW k \in 1 .. Len(exts), k - 1 \in G PROVE k \in G
    BY <1>3, <1>4, <1>6, AddTyped
  <1>7. Len(exts) \in G
    <2> HIDE DEF G
    <2> QED
      BY <1>4, <1>5, <1>6, Reached
  <1> QED
    BY <1>1, <1>3, <1>7

\* An entry is appended to the table, and what it declares to the map.
LEMMA EntryAppended ==
  ASSUME NEW t \in Seq(Entries), NEW map, MapOf(map, t), NEW e \in Entries
  PROVE  MapOf(ExtAddAll(map, Config[e.dir].exts, Len(t) + 1), Append(t, e))
  <1>1. PICK n, u, d : n = Len(t) + 1 /\ u = Append(t, e) /\ d = e.dir
    OBVIOUS
  <1>2. /\ n \in Nat /\ n > 0 /\ Len(t) \in Nat /\ Len(u) = n /\ u[n].dir = d /\ d \in Dirs
        /\ \A j \in 1 .. Len(t) : u[j] = t[j]
    BY <1>1 DEF Entries
  <1> DEFINE old == [j \in 1 .. Len(t) |-> Decl(t[j].dir)]
             decl == [j \in 1 .. n |-> IF j < n THEN Decl(t[j].dir) ELSE {}]
             more == [j \in 1 .. n |-> Decl(u[j].dir)]
  <1>3. PICK A, B, C : A = old /\ B = decl /\ C = more
    OBVIOUS
  <1>4. /\ \A j \in 1 .. n : j < n => j \in 1 .. Len(t) /\ B[j] = A[j] /\ C[j] = B[j]
        /\ B[n] = {} /\ C[n] = Decl(d) /\ \A j \in 1 .. Len(t) : j \in 1 .. n /\ j < n
        /\ \A j \in 1 .. n : j < n \/ j = n
    BY <1>1, <1>2, <1>3
  <1>5. MapFor(map, Len(t), A)
    BY <1>3 DEF MapOf
  <1> HIDE DEF old, decl, more
  <1>6. MapFor(map, n, B)
    <2>1. map \in Maps /\ Len(map) <= ExtmapMax /\ \A j, k \in DOMAIN map : map[j].ext = map[k].ext => j = k
      BY <1>5 DEF MapFor
    <2>2. ASSUME NEW k \in DOMAIN map
          PROVE  /\ map[k].app \in 1 .. n /\ map[k].ext # None /\ map[k].ext \in B[map[k].app]
                 /\ \A j \in 1 .. n : j < map[k].app => map[k].ext \notin B[j]
      <3>1. PICK a, x : a = map[k].app /\ x = map[k].ext
        OBVIOUS
      <3>2. a \in 1 .. Len(t) /\ x # None /\ x \in A[a] /\ \A j \in 1 .. Len(t) : j < a => x \notin A[j]
        BY <1>5, <3>1 DEF MapFor
      <3>3. \A j \in 1 .. n : j < a => j \in 1 .. Len(t) /\ B[j] = A[j]
        BY <1>2, <1>4, <3>2
      <3> QED
        BY <1>4, <3>1, <3>2, <3>3
    <2>3. Len(map) = ExtmapMax \/ \A j \in 1 .. n : \A x \in B[j] : x # None => \E k \in DOMAIN map : map[k].ext = x
      <3>1. CASE Len(map) # ExtmapMax
        <4>1. \A j \in 1 .. Len(t) : \A x \in A[j] : x # None => \E k \in DOMAIN map : map[k].ext = x
          BY <1>5, <3>1 DEF MapFor
        <4> QED
          BY <1>4, <4>1
      <3> QED
        BY <3>1
    <2> QED
      BY <2>1, <2>2, <2>3 DEF MapFor
  <1>7. MapFor(ExtAddAll(map, Config[d].exts, n), n, C)
    BY <1>2, <1>4, <1>6, AddedAllKeeps
  <1> QED
    BY <1>1, <1>2, <1>3, <1>7, Zenon DEF MapOf, more

\* Pids do not matter.
LEMMA SameDirs ==
  ASSUME NEW map, NEW t, MapOf(map, t), NEW u, Len(u) = Len(t), \A j \in 1 .. Len(t) : u[j].dir = t[j].dir
  PROVE  MapOf(map, u)
  <1>1. [j \in 1 .. Len(u) |-> Decl(u[j].dir)] = [j \in 1 .. Len(t) |-> Decl(t[j].dir)]
    OBVIOUS
  <1> QED
    BY <1>1, Zenon DEF MapOf

\* An empty table.
LEMMA NoneMapped == MapOf(<<>>, <<>>)
  <1>1. PICK A : A = [j \in 1 .. Len(<<>>) |-> Decl(<<>>[j].dir)]
    OBVIOUS
  <1>2. MapFor(<<>>, 0, A)
    BY AppsAssumption DEF MapFor, Maps
  <1> QED
    BY <1>1, <1>2 DEF MapOf

\* The map leads to the first application that declares an extension.
LEMMA MapLeads ==
  ASSUME NEW t, Len(t) \in Nat, DOMAIN t = 1 .. Len(t), NEW map, MapOf(map, t), NEW e \in DOMAIN Lower
  PROVE  LET i == ExtGet(map, e)
         IN  IF i = 0 THEN \/ Lower[e] = None \/ Len(map) = ExtmapMax
                           \/ ~ \E j \in DOMAIN t : Lower[e] \in Decl(t[j].dir)
             ELSE /\ i \in DOMAIN t /\ Lower[e] \in Decl(t[i].dir)
                  /\ \A j \in 1 .. i - 1 : Lower[e] \notin Decl(t[j].dir)
  <1> DEFINE D == [j \in 1 .. Len(t) |-> Decl(t[j].dir)]
             hits == {k \in DOMAIN map : map[k].ext = Lower[e]}
  <1>1. PICK A : A = D
    OBVIOUS
  <1>2. MapFor(map, Len(t), A) /\ \A j \in 1 .. Len(t) : A[j] = Decl(t[j].dir)
    BY <1>1 DEF MapOf
  <1> HIDE DEF D
  <1>3. PICK i : i = ExtGet(map, e)
    OBVIOUS
  <1>4. CASE Lower[e] = None
    BY <1>4 DEF ExtGet
  <1>5. CASE Lower[e] # None /\ hits = {}
    <2>1. ExtGet(map, e) = 0
      BY <1>5 DEF ExtGet
    <2>2. Len(map) = ExtmapMax \/ ~ \E j \in DOMAIN t : Lower[e] \in Decl(t[j].dir)
      BY <1>2, <1>5 DEF MapFor
    <2> QED
      BY <2>1, <2>2
  <1>6. CASE Lower[e] # None /\ hits # {}
    <2>1. PICK k \in hits : \A j \in hits : j = k
      BY <1>2, <1>6 DEF MapFor
    <2>2. k \in DOMAIN map /\ map[k].ext = Lower[e] /\ k \in Nat
      BY <1>2 DEF MapFor, Maps
    <2> DEFINE least == CHOOSE m \in hits : \A j \in hits : m <= j
    <2>3. least = k
      <3> HIDE DEF hits
      <3>1. \E m \in hits : \A j \in hits : m <= j
        BY <2>1, <2>2
      <3>2. least \in hits
        BY <3>1, Zenon
      <3> QED
        BY <2>1, <3>2
    <2>4. ExtGet(map, e) = map[k].app
      BY <1>6, <2>3 DEF ExtGet
    <2>5. PICK a : a = map[k].app
      OBVIOUS
    <2>6. a \in 1 .. Len(t) /\ Lower[e] \in A[a] /\ \A j \in 1 .. Len(t) : j < a => Lower[e] \notin A[j]
      BY <1>2, <2>2, <2>5 DEF MapFor
    <2>7. \A j \in 1 .. a - 1 : j \in 1 .. Len(t) /\ j < a
      BY <2>6
    <2>8. /\ a # 0 /\ a \in DOMAIN t /\ Lower[e] \in Decl(t[a].dir)
          /\ \A j \in 1 .. a - 1 : Lower[e] \notin Decl(t[j].dir)
      BY <1>2, <2>6, <2>7
    <2> HIDE DEF hits, least
    <2> QED
      BY <2>4, <2>5, <2>8
  <1> QED
    BY <1>4, <1>5, <1>6

\* A table as the scan of the directories leaves it.
Scanned == {t \in Seq(Entries) : Len(t) <= AppsMax /\ \A i \in DOMAIN t : Loads(t[i].dir) /\ t[i].pid = None}

\* One directory more.
ScanStep(t, d) == IF Loads(d) /\ Len(t) < AppsMax THEN Append(t, [dir |-> d, pid |-> None]) ELSE t

LEMMA ScanStepTyped ==
  ASSUME NEW t \in Scanned, NEW d \in Dirs
  PROVE  ScanStep(t, d) \in Scanned
  <1>1. CASE ~ (Loads(d) /\ Len(t) < AppsMax)
    BY <1>1 DEF ScanStep
  <1>2. CASE Loads(d) /\ Len(t) < AppsMax
    <2>1. PICK e, u : e = [dir |-> d, pid |-> None] /\ u = Append(t, e)
      OBVIOUS
    <2>2. e \in Entries /\ e.dir = d /\ e.pid = None /\ t \in Seq(Entries) /\ AppsMax \in Nat
      BY <2>1, AppsAssumption DEF Entries, Scanned
    <2>3. /\ u \in Seq(Entries) /\ Len(u) = Len(t) + 1 /\ DOMAIN u = 1 .. Len(t) + 1
          /\ \A i \in DOMAIN u : u[i] = IF i = Len(t) + 1 THEN e ELSE t[i]
          /\ \A i \in DOMAIN u : i = Len(t) + 1 \/ i \in DOMAIN t
      BY <2>1, <2>2
    <2>4. Len(u) <= AppsMax
      BY <1>2, <2>2, <2>3
    <2>5. \A i \in DOMAIN u : Loads(u[i].dir) /\ u[i].pid = None
      <3>1. \A i \in DOMAIN t : Loads(t[i].dir) /\ t[i].pid = None
        BY DEF Scanned
      <3>2. Loads(d)
        BY <1>2
      <3> QED
        BY <2>2, <2>3, <3>1, <3>2
    <2> QED
      BY <1>2, <2>1, <2>3, <2>4, <2>5 DEF ScanStep, Scanned
  <1> QED
    BY <1>1, <1>2

\* No directory is in a table twice, and each is one of the first k.
Apart(t) == \A i, j \in DOMAIN t : t[i].dir = t[j].dir => i = j
Behind(t, dirs, k) == Apart(t) /\ \A i \in DOMAIN t : \E j \in 1 .. k : t[i].dir = dirs[j]

\* An application that is not in a table is added to it.
LEMMA ApartAppended ==
  ASSUME NEW t \in Seq(Entries), Apart(t), NEW e \in Entries, \A i \in DOMAIN t : t[i].dir # e.dir
  PROVE  Apart(Append(t, e))
  <1>1. PICK u : u = Append(t, e)
    OBVIOUS
  <1>2. \A i \in DOMAIN u : (i \in DOMAIN t /\ u[i] = t[i]) \/ (i = Len(t) + 1 /\ u[i] = e)
    BY <1>1
  <1>3. \A i, j \in DOMAIN u : u[i].dir = u[j].dir => i = j
    BY <1>2 DEF Apart
  <1> QED
    BY <1>1, <1>3 DEF Apart

LEMMA ScanStepBehind ==
  ASSUME NEW dirs \in Seq(Dirs), IsInjective(dirs), NEW k \in 1 .. Len(dirs),
         NEW t \in Scanned, Behind(t, dirs, k - 1)
  PROVE  Behind(ScanStep(t, dirs[k]), dirs, k)
  <1>1. \A j \in 1 .. k - 1 : j \in 1 .. k /\ dirs[j] # dirs[k]
    BY DEF IsInjective
  <1>2. CASE ~ (Loads(dirs[k]) /\ Len(t) < AppsMax)
    BY <1>1, <1>2 DEF ScanStep, Behind
  <1>3. CASE Loads(dirs[k]) /\ Len(t) < AppsMax
    <2>1. PICK e, u : e = [dir |-> dirs[k], pid |-> None] /\ u = Append(t, e)
      OBVIOUS
    <2>2. e \in Entries /\ e.dir = dirs[k] /\ t \in Seq(Entries)
      BY <2>1 DEF Entries, Scanned
    <2>3. \A i \in DOMAIN t : t[i].dir # e.dir
      BY <1>1, <2>2 DEF Behind
    <2>4. Apart(u)
      BY <2>1, <2>2, <2>3, ApartAppended DEF Behind
    <2>5. \A i \in DOMAIN u : (i \in DOMAIN t /\ u[i] = t[i]) \/ u[i] = e
      BY <2>1, <2>2
    <2>6. \A i \in DOMAIN u : \E j \in 1 .. k : u[i].dir = dirs[j]
      BY <1>1, <2>2, <2>5 DEF Behind
    <2>7. ScanStep(t, dirs[k]) = u
      BY <1>3, <2>1 DEF ScanStep
    <2> QED
      BY <2>4, <2>6, <2>7 DEF Behind
  <1> QED
    BY <1>2, <1>3

LEMMA ScanAllTyped ==
  ASSUME NEW dirs \in Seq(Dirs)
  PROVE  ScanAll(dirs) \in Scanned /\ (IsInjective(dirs) => Apart(ScanAll(dirs)))
  <1> DEFINE F(f) == f = [k \in 0 .. Len(dirs) |-> IF k = 0 THEN <<>>
                            ELSE IF Loads(dirs[k]) /\ Len(f[k - 1]) < AppsMax
                            THEN Append(f[k - 1], [dir |-> dirs[k], pid |-> None])
                            ELSE f[k - 1]]
             after == CHOOSE f : F(f)
             step == [k \in 1 .. Len(dirs) |-> [t \in Scanned |-> ScanStep(t, dirs[k])]]
  <1>1. Len(dirs) \in Nat /\ \A k \in 1 .. Len(dirs) : dirs[k] \in Dirs
    OBVIOUS
  <1>2. <<>> \in Scanned
    BY AppsAssumption DEF Scanned
  <1>3. step \in [1 .. Len(dirs) -> [Scanned -> Scanned]]
    <2>1. \A k \in 1 .. Len(dirs), t \in Scanned : ScanStep(t, dirs[k]) \in Scanned
      BY <1>1, ScanStepTyped
    <2> QED
      BY <2>1
  <1>4. PICK f \in [0 .. Len(dirs) -> Scanned] :
          f = [k \in 0 .. Len(dirs) |-> IF k = 0 THEN <<>> ELSE step[k][f[k - 1]]]
    <2> HIDE DEF step
    <2>1. PICK s, n : s = step /\ n = Len(dirs)
      OBVIOUS
    <2>2. s \in [1 .. n -> [Scanned -> Scanned]] /\ n \in Nat
      BY <1>1, <1>3, <2>1
    <2>3. \E f : Loops(Scanned, n, <<>>, s, f)
      BY <1>2, <2>2, Loop
    <2> QED
      BY <2>1, <2>3, Zenon DEF Loops
  <1>5. ASSUME NEW k \in 0 .. Len(dirs)
        PROVE  f[k] = IF k = 0 THEN <<>> ELSE ScanStep(f[k - 1], dirs[k])
    <2>1. CASE k = 0
      BY <1>4, <2>1
    <2>2. CASE k # 0
      <3>1. k \in 1 .. Len(dirs) /\ k - 1 \in 0 .. Len(dirs)
        BY <1>1, <2>2
      <3>2. f[k] = step[k][f[k - 1]] /\ f[k - 1] \in Scanned
        BY <1>4, <2>2, <3>1
      <3>3. step[k] = [t \in Scanned |-> ScanStep(t, dirs[k])]
        BY <3>1
      <3> HIDE DEF step
      <3> QED
        BY <2>2, <3>2, <3>3
    <2> QED
      BY <2>1, <2>2
  <1>6. F(f)
    BY <1>5 DEF ScanStep
  <1>7. F(after)
    <2> HIDE DEF F
    <2> QED
      BY <1>6, Zenon
  <1>8. ScanAll(dirs) = after[Len(dirs)]
    BY DEF ScanAll
  <1> HIDE DEF after
  <1>9. after[0] = <<>> /\ \A k \in 1 .. Len(dirs) : after[k] = ScanStep(after[k - 1], dirs[k])
    <2>1. ASSUME NEW k \in 0 .. Len(dirs)
          PROVE  after[k] = IF k = 0 THEN <<>> ELSE ScanStep(after[k - 1], dirs[k])
      BY <1>7 DEF ScanStep
    <2> QED
      BY <1>1, <2>1
  <1> DEFINE G == {k \in 0 .. Len(dirs) : after[k] \in Scanned /\ (IsInjective(dirs) => Behind(after[k], dirs, k))}
  <1>10. 0 \in G
    BY <1>1, <1>2, <1>9 DEF Behind, Apart
  <1>11. ASSUME NEW k \in 1 .. Len(dirs), k - 1 \in G PROVE k \in G
    <2>1. PICK t, u : t = after[k - 1] /\ u = after[k]
      OBVIOUS
    <2>2. t \in Scanned /\ u = ScanStep(t, dirs[k]) /\ (IsInjective(dirs) => Behind(t, dirs, k - 1))
      BY <1>9, <1>11, <2>1
    <2>3. u \in Scanned /\ (IsInjective(dirs) => Behind(u, dirs, k))
      BY <1>1, <2>2, ScanStepTyped, ScanStepBehind
    <2> QED
      BY <1>1, <2>1, <2>3
  <1>12. Len(dirs) \in G
    <2> HIDE DEF G
    <2> QED
      BY <1>1, <1>10, <1>11, Reached
  <1> QED
    BY <1>8, <1>12 DEF Behind

\* The map that is built with the table.
LEMMA BuiltMap ==
  ASSUME NEW t \in Seq(Entries)
  PROVE  MapOf(ExtmapOf(t), t)
  <1> DEFINE F(f) == f = [k \in 0 .. Len(t) |-> IF k = 0 THEN <<>>
                            ELSE ExtAddAll(f[k - 1], Config[t[k].dir].exts, k)]
             after == CHOOSE f : F(f)
             step == [k \in 1 .. Len(t) |-> [m \in Maps |-> ExtAddAll(m, Config[t[k].dir].exts, k)]]
  <1>1. Len(t) \in Nat /\ \A k \in 1 .. Len(t) : t[k] \in Entries /\ t[k].dir \in Dirs
    <2>1. Len(t) \in Nat /\ \A k \in 1 .. Len(t) : t[k] \in Entries
      OBVIOUS
    <2>2. \A e \in Entries : e.dir \in Dirs
      BY DEF Entries
    <2> QED
      BY <2>1, <2>2
  <1>2. <<>> \in Maps
    BY DEF Maps
  <1>3. step \in [1 .. Len(t) -> [Maps -> Maps]]
    <2>1. \A k \in 1 .. Len(t), m \in Maps : ExtAddAll(m, Config[t[k].dir].exts, k) \in Maps
      BY <1>1, AddedAllTyped
    <2> QED
      BY <2>1
  <1>4. PICK f \in [0 .. Len(t) -> Maps] :
          f = [k \in 0 .. Len(t) |-> IF k = 0 THEN <<>> ELSE step[k][f[k - 1]]]
    <2> HIDE DEF step
    <2>1. PICK s, n : s = step /\ n = Len(t)
      OBVIOUS
    <2>2. s \in [1 .. n -> [Maps -> Maps]] /\ n \in Nat
      BY <1>1, <1>3, <2>1
    <2>3. \E f : Loops(Maps, n, <<>>, s, f)
      BY <1>2, <2>2, Loop
    <2> QED
      BY <2>1, <2>3, Zenon DEF Loops
  <1>5. ASSUME NEW k \in 0 .. Len(t)
        PROVE  f[k] = IF k = 0 THEN <<>> ELSE ExtAddAll(f[k - 1], Config[t[k].dir].exts, k)
    <2>1. CASE k = 0
      BY <1>4, <2>1
    <2>2. CASE k # 0
      <3>1. k \in 1 .. Len(t) /\ k - 1 \in 0 .. Len(t)
        BY <1>1, <2>2
      <3>2. f[k] = step[k][f[k - 1]] /\ f[k - 1] \in Maps
        BY <1>4, <2>2, <3>1
      <3>3. step[k] = [m \in Maps |-> ExtAddAll(m, Config[t[k].dir].exts, k)]
        BY <3>1
      <3> HIDE DEF step
      <3> QED
        BY <2>2, <3>2, <3>3
    <2> QED
      BY <2>1, <2>2
  <1>6. F(f)
    BY <1>5
  <1>7. F(after)
    <2> HIDE DEF F
    <2> QED
      BY <1>6, Zenon
  <1>8. ExtmapOf(t) = after[Len(t)]
    BY DEF ExtmapOf
  <1> HIDE DEF after
  <1>9. after[0] = <<>> /\ \A k \in 1 .. Len(t) : after[k] = ExtAddAll(after[k - 1], Config[t[k].dir].exts, k)
    BY <1>1, <1>7
  <1> DEFINE first(k) == SubSeq(t, 1, k)
             G == {k \in 0 .. Len(t) : MapOf(after[k], first(k))}
  <1>10. 0 \in G
    <2>1. first(0) = <<>>
      BY <1>1
    <2> QED
      BY <1>1, <1>9, <2>1, NoneMapped
  <1>11. ASSUME NEW k \in 1 .. Len(t), k - 1 \in G PROVE k \in G
    <2>1. PICK u, v, e : u = first(k - 1) /\ v = first(k) /\ e = t[k]
      OBVIOUS
    <2>2. u \in Seq(Entries) /\ Len(u) + 1 = k /\ v = Append(u, e)
      <3>1. u \in Seq(Entries) /\ v \in Seq(Entries) /\ Len(u) = k - 1 /\ Len(v) = k
        BY <1>1, <2>1
      <3>2. /\ \A i \in 1 .. k - 1 : u[i] = t[i]
            /\ \A i \in 1 .. k : v[i] = t[i]
        BY <1>1, <2>1
      <3>3. PICK w : w = Append(u, e)
        OBVIOUS
      <3>4. w \in Seq(Entries) /\ Len(w) = k /\ w[k] = e /\ \A i \in 1 .. k - 1 : w[i] = u[i]
        BY <1>1, <2>1, <3>1, <3>3
      <3>5. \A i \in 1 .. k : i = k \/ i \in 1 .. k - 1
        OBVIOUS
      <3>6. \A i \in 1 .. k : v[i] = w[i]
        BY <2>1, <3>2, <3>4, <3>5
      <3>7. v = w
        BY <3>1, <3>4, <3>6, SeqEqual
      <3> QED
        BY <3>1, <3>3, <3>7
    <2>3. MapOf(after[k - 1], u)
      BY <1>11, <2>1
    <2>4. MapOf(after[k], v)
      BY <1>1, <1>9, <2>1, <2>2, <2>3, EntryAppended
    <2> HIDE DEF first
    <2> QED
      BY <1>1, <2>1, <2>4
  <1>12. Len(t) \in G
    <2> HIDE DEF G
    <2> QED
      BY <1>1, <1>10, <1>11, Reached
  <1>13. first(Len(t)) = t
    BY <1>1
  <1> HIDE DEF first
  <1> QED
    BY <1>8, <1>12, <1>13

----------------------------------------------------------------------------
\* The invariant of the table.

\* No two applications have one uuid.
UuidsApart == \A d, e \in Dirs : Loads(d) /\ Loads(e) /\ Uuid(d) = Uuid(e) => d = e

States == {"none", "running", "told", "zombie", "gone"}
Scanning(source, todo, old) == [pc |-> "scan", source |-> source, todo |-> todo, old |-> old]
Filling(at, old) == [pc |-> "fill", at |-> at, old |-> old]
Killing(p, polls) == [pc |-> "kill", pid |-> p, polls |-> polls]
Reloading == lv.pc \in {"scan", "fill"}

WorldTyped ==
  /\ disk \in Disks /\ {card, running, armed} \subseteq BOOLEAN
  /\ proc \in [Pids -> States] /\ of \in [Pids -> Dirs \cup {None}] /\ lost \subseteq Pids
TableTyped ==
  table \in Seq(Entries) /\ Len(table) <= AppsMax /\ \A i \in DOMAIN table : Loads(table[i].dir)
LvTyped ==
  \/ lv = Idle
  \/ \E source \in {"nand", "sd"}, todo \in Seq(Dirs) : lv = Scanning(source, todo, lv.old)
  \/ \E at \in Nat \ {0} : lv = Filling(at, lv.old)
  \/ \E p \in Pids, polls \in Int : lv = Killing(p, polls)
\* What the check timer found dead has gone.
Found(at, p) == [pc |-> "clear", at |-> at, found |-> p]
CheckTyped == check = Quiet \/ \E at \in Nat \ {0}, p \in Pids : check = Found(at, p) /\ proc[p] = "gone"

\* An entry with a pid has one of its own application, which runs in the background.
OwnPid(e) ==
  /\ e \in Entries /\ Loads(e.dir) /\ Type(e.dir) = "bg"
  /\ e.pid \in Pids /\ proc[e.pid] # "none" /\ of[e.pid] = e.dir
Own == \A i \in DOMAIN table : table[i].pid # None => OwnPid(table[i])
OldOwn == Reloading => DOMAIN lv.old \subseteq Nat /\ \A j \in DOMAIN lv.old : OwnPid(lv.old[j])

\* A process that runs and has not slipped away is in the table, or in the snapshot.
Kept ==
  \A p \in Pids : Live(p) /\ p \notin lost =>
    IF Reloading THEN \E j \in DOMAIN lv.old : lv.old[j].pid = p ELSE \E i \in DOMAIN table : table[i].pid = p

\* No application is in the table or in the snapshot twice, and none of those that are
\* still to be scanned is in the table.
OnNand(d) == \E x \in Disks : \E i \in DOMAIN x.nand : x.nand[i] = d
Ahead(todo) == IsInjective(todo) /\ \A i \in DOMAIN table, k \in DOMAIN todo : table[i].dir # todo[k]
FromNand(todo) == (\A i \in DOMAIN table : OnNand(table[i].dir)) /\ \A k \in DOMAIN todo : OnNand(todo[k])
Distinct ==
  /\ Apart(table) /\ (Reloading => Apart(lv.old))
  /\ lv.pc = "scan" => Ahead(lv.todo) /\ (lv.source = "nand" => FromNand(lv.todo))

\* The entries that had their turn have the pid the snapshot has for them.
SameApp(d, e) == Type(d) = "bg" /\ Uuid(d) = Uuid(e)
Filled ==
  lv.pc = "fill" => \A i \in DOMAIN table, j \in DOMAIN lv.old :
    i < lv.at /\ SameApp(table[i].dir, lv.old[j].dir) /\ Live(lv.old[j].pid) /\ lv.old[j].pid \notin lost =>
      table[i].pid = lv.old[j].pid

AInv ==
  /\ WorldTyped /\ TableTyped /\ LvTyped /\ CheckTyped /\ Own /\ OldOwn /\ Kept /\ MapOf(extmap, table)
  /\ Distinct /\ Filled

LEMMA InjectiveJoined ==
  ASSUME NEW S, NEW u \in Seq(S), NEW v \in Seq(S), IsInjective(u), IsInjective(v),
         \A i \in DOMAIN u, j \in DOMAIN v : u[i] # v[j]
  PROVE  u \o v \in Seq(S) /\ IsInjective(u \o v)
  <1>1. PICK w : w = u \o v
    OBVIOUS
  <1>2. /\ w \in Seq(S)
        /\ \A i \in DOMAIN w : (i \in DOMAIN u /\ w[i] = u[i]) \/ (i - Len(u) \in DOMAIN v /\ w[i] = v[i - Len(u)])
        /\ DOMAIN w \subseteq Int /\ Len(u) \in Int
    BY <1>1
  <1>3. \A i, j \in DOMAIN w : w[i] = w[j] => i = j
    BY <1>2 DEF IsInjective
  <1> QED
    BY <1>1, <1>2, <1>3 DEF IsInjective

LEMMA InitAInv == Init => AInv
  <1> SUFFICES ASSUME AppsInit PROVE AInv
    BY DEF Init
  <1>1. disk \in Disks /\ table = ScanAll(disk.nand \o DirsOf("sd")) /\ extmap = ExtmapOf(table)
    BY DEF AppsInit
  <1>2. WorldTyped
    BY DEF AppsInit, WorldTyped, States
  <1>3. disk.nand \o DirsOf("sd") \in Seq(Dirs) /\ IsInjective(disk.nand \o DirsOf("sd"))
    <2>1. disk.nand \in Seq(Dirs) /\ disk.sd \in Seq(Dirs)
      BY <1>1, AppsAssumption
    <2>2. PICK u, v : u = disk.nand /\ v = DirsOf("sd")
      OBVIOUS
    <2>3. u \in Seq(Dirs) /\ v \in Seq(Dirs) /\ (v = <<>> \/ v = disk.sd)
      BY <2>1, <2>2 DEF DirsOf
    <2>4. IsInjective(u) /\ IsInjective(v) /\ \A i \in DOMAIN u, j \in DOMAIN v : u[i] # v[j]
      BY <1>1, <2>2, <2>3, AppsAssumption DEF IsInjective
    <2> QED
      BY <2>2, <2>3, <2>4, InjectiveJoined
  <1>4. table \in Scanned /\ Apart(table)
    BY <1>1, <1>3, ScanAllTyped
  <1>5. TableTyped /\ Own
    BY <1>4 DEF Scanned, TableTyped, Own
  <1>6. LvTyped /\ CheckTyped /\ ~ Reloading /\ Distinct /\ Filled
    BY <1>4 DEF AppsInit, LvTyped, CheckTyped, Idle, Reloading, Distinct, Filled
  <1>7. Kept
    BY DEF AppsInit, Kept, Live
  <1>8. MapOf(extmap, table)
    BY <1>1, <1>4, BuiltMap DEF Scanned
  <1> QED
    BY <1>2, <1>5, <1>6, <1>7, <1>8 DEF AInv, OldOwn

\* No process begins.
NoneBegins ==
  /\ proc' \in [Pids -> States]
  /\ \A p \in Pids : (proc[p] # "none" => proc'[p] # "none") /\ (proc[p] = "gone" => proc'[p] = "gone")
  /\ \A p \in Pids : Live(p)' => Live(p)

\* The table and the map stay, and what is done is not a reload or stays as it is.
LEMMA TableStays ==
  ASSUME AInv, WorldTyped', LvTyped', CheckTyped', NoneBegins,
         table' = table, extmap' = extmap, of' = of, lost' = lost,
         lv' = lv \/ (~ Reloading /\ ~ Reloading')
  PROVE  AInv'
  <1>1. TableTyped'
    BY DEF AInv, TableTyped
  <1>2. Own'
    BY DEF AInv, Own, OwnPid, NoneBegins
  <1>3. OldOwn'
    BY DEF AInv, OldOwn, OwnPid, NoneBegins, Reloading
  <1>4. Kept'
    <2>1. Kept /\ \A p \in Pids : Live(p)' => Live(p)
      BY DEF AInv, NoneBegins
    <2>2. CASE lv' = lv
      BY <2>1, <2>2 DEF Kept, Reloading
    <2>3. CASE ~ Reloading /\ ~ Reloading'
      BY <2>1, <2>3 DEF Kept
    <2> QED
      BY <2>2, <2>3
  <1>5. MapOf(extmap, table)'
    BY DEF AInv
  <1>6. Distinct' /\ Filled'
    <2>1. Distinct /\ Filled /\ (Reloading => \A j \in DOMAIN lv.old : lv.old[j].pid \in Pids)
      BY DEF AInv, OldOwn, OwnPid
    <2>2. CASE lv' = lv
      BY <2>1, <2>2 DEF Distinct, Filled, Reloading, NoneBegins, Ahead, FromNand
    <2>3. CASE ~ Reloading /\ ~ Reloading'
      BY <2>1, <2>3 DEF Distinct, Filled, Reloading
    <2> QED
      BY <2>2, <2>3
  <1> QED
    BY <1>1, <1>2, <1>3, <1>4, <1>5, <1>6 DEF AInv

LEMMA NoneBegun ==
  ASSUME WorldTyped, proc' = proc
  PROVE  NoneBegins
  BY DEF WorldTyped, NoneBegins, Live

LEMMA Terminated ==
  ASSUME WorldTyped, NEW p, Terminate(p)
  PROVE  NoneBegins
  BY DEF WorldTyped, Terminate, NoneBegins, Live, States

LEMMA Killed ==
  ASSUME WorldTyped, NEW k, KillReturns(k) \/ KillForces(k) \/ KillWaits(k)
  PROVE  NoneBegins
  <1>1. CASE proc' = proc
    BY <1>1, NoneBegun
  <1>2. CASE Exists(k.pid) /\ proc' = [proc EXCEPT ![k.pid] = "zombie"]
    BY <1>2 DEF WorldTyped, NoneBegins, Live, Exists, States
  <1> QED
    BY <1>1, <1>2 DEF KillReturns, KillForces, KillWaits

LEMMA Reaped ==
  ASSUME WorldTyped, proc' = ReapAll(proc)
  PROVE  NoneBegins
  BY DEF WorldTyped, ReapAll, NoneBegins, Live, States

LEMMA KillStep ==
  ASSUME AInv, LvglKills
  PROVE  AInv'
  <1>1. WorldTyped /\ CheckTyped /\ LvTyped /\ lv.pc = "kill"
    BY DEF AInv, LvglKills
  <1>2. NoneBegins
    BY <1>1, Killed DEF LvglKills
  <1>3. PICK p \in Pids, polls \in Int : lv = Killing(p, polls)
    BY <1>1 DEF LvTyped, Idle, Scanning, Filling
  <1>4. LvTyped' /\ ~ Reloading /\ ~ Reloading'
    <2>1. CASE lv' = Idle
      BY <1>1, <2>1 DEF LvTyped, Idle, Reloading
    <2>2. CASE lv' = [lv EXCEPT !.polls = @ - 1]
      <3>1. lv' = Killing(p, polls - 1) /\ polls - 1 \in Int
        BY <1>3, <2>2 DEF Killing
      <3>2. lv'.pc = "kill"
        BY <3>1 DEF Killing
      <3> QED
        BY <1>1, <3>1, <3>2 DEF LvTyped, Reloading
    <2> QED
      BY <2>1, <2>2 DEF LvglKills
  <1>5. WorldTyped' /\ CheckTyped'
    BY <1>1, <1>2 DEF LvglKills, WorldTyped, CheckTyped, NoneBegins, exitVars
  <1> QED
    BY <1>2, <1>4, <1>5, TableStays DEF LvglKills, tableVars

LEMMA QuietSteps ==
  ASSUME AInv,
         CheckFinds \/ SwapCard \/ ChangeDirs \/ Signal \/ (\E p \in Pids : ProcessEnds(p)) \/ UNCHANGED appsVars
  PROVE  AInv'
  <1>1. WorldTyped /\ CheckTyped /\ LvTyped /\ TableTyped
    BY DEF AInv
  <1>2. CASE CheckFinds
    <2>1. CheckTyped'
      <3>1. PICK i \in DOMAIN table :
              /\ table[i].pid # None /\ ~ Exists(table[i].pid)
              /\ check' = [pc |-> "clear", at |-> i, found |-> table[i].pid]
        BY <1>2 DEF CheckFinds
      <3>2. i \in Nat \ {0} /\ OwnPid(table[i])
        BY <3>1 DEF AInv, TableTyped, Own
      <3>3. table[i].pid \in Pids /\ proc[table[i].pid] = "gone"
        BY <1>1, <3>1, <3>2 DEF OwnPid, Exists, WorldTyped, States
      <3>4. proc' = proc
        BY <1>2 DEF CheckFinds, procVars
      <3> QED
        BY <3>1, <3>2, <3>3, <3>4 DEF CheckTyped, Found
    <2>2. WorldTyped' /\ LvTyped' /\ proc' = proc
      BY <1>1, <1>2 DEF CheckFinds, WorldTyped, LvTyped, procVars, exitVars
    <2> QED
      BY <1>1, <1>2, <2>1, <2>2, NoneBegun, TableStays DEF CheckFinds, tableVars, procVars
  <1>3. CASE SwapCard \/ ChangeDirs
    <2>1. WorldTyped' /\ LvTyped' /\ CheckTyped' /\ proc' = proc
      BY <1>1, <1>3 DEF SwapCard, ChangeDirs, WorldTyped, LvTyped, CheckTyped, procVars, exitVars
    <2> QED
      BY <1>1, <1>3, <2>1, NoneBegun, TableStays DEF SwapCard, ChangeDirs, tableVars, procVars
  <1>4. CASE Signal
    <2>1. WorldTyped' /\ LvTyped' /\ CheckTyped' /\ proc' = proc
      BY <1>1, <1>4 DEF Signal, WorldTyped, LvTyped, CheckTyped, procVars
    <2> QED
      BY <1>1, <1>4, <2>1, NoneBegun, TableStays DEF Signal, tableVars, procVars
  <1>5. CASE \E p \in Pids : ProcessEnds(p)
    <2>1. PICK p \in Pids : ProcessEnds(p)
      BY <1>5
    <2>2. NoneBegins
      BY <1>1, <2>1 DEF ProcessEnds, WorldTyped, NoneBegins, Live, States
    <2>3. WorldTyped' /\ LvTyped' /\ CheckTyped'
      BY <1>1, <2>1, <2>2 DEF ProcessEnds, WorldTyped, LvTyped, CheckTyped, NoneBegins, exitVars
    <2> QED
      BY <2>1, <2>2, <2>3, TableStays DEF ProcessEnds, tableVars
  <1>6. CASE UNCHANGED appsVars
    <2>1. WorldTyped' /\ LvTyped' /\ CheckTyped' /\ proc' = proc
      BY <1>1, <1>6 DEF appsVars, WorldTyped, LvTyped, CheckTyped
    <2> QED
      BY <1>1, <1>6, <2>1, NoneBegun, TableStays DEF appsVars
  <1> QED
    BY <1>2, <1>3, <1>4, <1>5, <1>6

\* What the main thread does to the processes.
LEMMA MainSteps ==
  ASSUME AInv, MainReaps \/ TimersEnd \/ EachApp \/ MainKills \/ SleepOver
  PROVE  AInv'
  <1>1. WorldTyped /\ CheckTyped /\ LvTyped
    BY DEF AInv
  <1>2. NoneBegins
    <2>1. CASE MainReaps \/ SleepOver
      BY <1>1, <2>1, Reaped DEF MainReaps, SleepOver
    <2>2. CASE TimersEnd
      BY <1>1, <2>2, NoneBegun DEF TimersEnd, procVars
    <2>3. CASE EachApp
      <3>1. proc' = proc \/ \E p : Terminate(p)
        BY <2>3 DEF EachApp
      <3> QED
        BY <1>1, <3>1, NoneBegun, Terminated
    <2>4. CASE MainKills
      BY <1>1, <2>4, Killed DEF MainKills
    <2> QED
      BY <2>1, <2>2, <2>3, <2>4
  <1>3. /\ disk' = disk /\ card' = card /\ table' = table /\ extmap' = extmap /\ lv' = lv /\ check' = check
        /\ of' = of /\ running' = running /\ armed' \in {armed, FALSE} /\ lost' = lost
    BY DEF MainReaps, TimersEnd, EachApp, MainKills, SleepOver, tableVars, procVars, exitVars
  <1>4. WorldTyped' /\ LvTyped' /\ CheckTyped'
    BY <1>1, <1>2, <1>3 DEF WorldTyped, LvTyped, CheckTyped, NoneBegins
  <1> QED
    BY <1>2, <1>3, <1>4, TableStays

LEMMA WorldStays ==
  ASSUME AInv, UNCHANGED <<disk, card, procVars, exitVars, armed>>, lost' \subseteq Pids
  PROVE  WorldTyped' /\ \A e : OwnPid(e) => OwnPid(e)'
  BY DEF AInv, WorldTyped, OwnPid, procVars, exitVars

LEMMA DirsTyped ==
  ASSUME AInv, NEW source \in {"nand", "sd"}
  PROVE  DirsOf(source) \in Seq(Dirs)
  BY AppsAssumption DEF AInv, WorldTyped, DirsOf

LEMMA ReloadStep ==
  ASSUME AInv, Reload
  PROVE  AInv'
  <1>1. /\ ~ Reloading /\ check' = check /\ table' = <<>> /\ extmap' = <<>> /\ proc' = proc /\ lost' = lost
        /\ lv' = Scanning("nand", DirsOf("nand"), Snapshot)
    BY DEF Reload, Idle, Reloading, procVars, Scanning
  <1>2. WorldTyped' /\ \A e : OwnPid(e) => OwnPid(e)'
    BY WorldStays DEF Reload, AInv, WorldTyped
  <1>3. TableTyped' /\ Own'
    BY <1>1, AppsAssumption DEF TableTyped, Own
  <1>4. /\ lv'.pc = "scan" /\ lv'.old = Snapshot
        /\ lv' = Scanning("nand", DirsOf("nand"), lv'.old)
    BY <1>1 DEF Scanning
  <1>5. LvTyped' /\ CheckTyped' /\ Reloading'
    BY <1>1, <1>4, DirsTyped DEF AInv, LvTyped, CheckTyped, Reloading
  <1>6. /\ DOMAIN Snapshot = {j \in DOMAIN table : Type(table[j].dir) = "bg" /\ table[j].pid # None}
        /\ \A j \in DOMAIN Snapshot : Snapshot[j] = table[j]
    BY DEF Snapshot
  <1>7. DOMAIN table \subseteq Nat /\ \A j \in DOMAIN table : table[j].pid # None => OwnPid(table[j])
    BY DEF AInv, TableTyped, Own
  <1>8. OldOwn'
    BY <1>2, <1>4, <1>6, <1>7 DEF OldOwn
  <1>9. Kept'
    <2>1. ASSUME NEW p \in Pids, Live(p), p \notin lost
          PROVE  \E j \in DOMAIN Snapshot : Snapshot[j].pid = p
      <3>1. PICK i \in DOMAIN table : table[i].pid = p
        BY <1>1, <2>1 DEF AInv, Kept
      <3>2. p # None
        BY AppsAssumption
      <3>3. i \in DOMAIN Snapshot
        BY <1>6, <1>7, <3>1, <3>2 DEF OwnPid
      <3> QED
        BY <1>6, <3>1, <3>3
    <2> QED
      BY <1>1, <1>4, <1>5, <2>1 DEF Kept, Live
  <1>10. MapOf(extmap, table)'
    <2>1. MapOf(extmap', table')
      BY <1>1, NoneMapped
    <2> QED
      BY <2>1
  <1>11. Distinct' /\ Filled'
    <2>1. PICK todo : todo = DirsOf("nand")
      OBVIOUS
    <2>2. todo = disk.nand /\ disk \in Disks
      BY <2>1 DEF AInv, WorldTyped, DirsOf
    <2>3. IsInjective(todo) /\ \A k \in DOMAIN todo : OnNand(todo[k])
      BY <2>2, AppsAssumption DEF OnNand
    <2>4. lv'.todo = todo
      BY <1>1, <2>1 DEF Scanning
    <2>5. Apart(table') /\ Apart(lv'.old)
      BY <1>1, <1>4, <1>6 DEF Apart, AInv, Distinct
    <2>6. DOMAIN table' = {}
      BY <1>1
    <2> QED
      BY <1>4, <2>3, <2>4, <2>5, <2>6 DEF Distinct, Filled, Ahead, FromNand
  <1> QED
    BY <1>2, <1>3, <1>5, <1>8, <1>9, <1>10, <1>11 DEF AInv

LEMMA ScanStays ==
  ASSUME AInv, lv.pc = "scan", NEW source \in {"nand", "sd"}, NEW todo \in Seq(Dirs),
         lv' = Scanning(source, todo, lv.old), check' = check,
         UNCHANGED <<disk, card, procVars, exitVars, armed, lost>>
  PROVE  WorldTyped' /\ LvTyped' /\ CheckTyped' /\ OldOwn' /\ Kept' /\ Filled' /\ \A e : OwnPid(e) => OwnPid(e)'
  <1>1. lv'.pc = "scan" /\ lv'.old = lv.old /\ Reloading /\ Reloading'
    BY DEF Scanning, Reloading
  <1>2. WorldTyped' /\ \A e : OwnPid(e) => OwnPid(e)'
    BY WorldStays DEF AInv, WorldTyped
  <1>3. LvTyped' /\ CheckTyped'
    BY <1>1 DEF AInv, LvTyped, CheckTyped, procVars
  <1>4. OldOwn'
    BY <1>1, <1>2 DEF AInv, OldOwn
  <1>5. Kept'
    BY <1>1 DEF AInv, Kept, Live, procVars
  <1>6. Filled'
    BY <1>1 DEF Filled
  <1> QED
    BY <1>2, <1>3, <1>4, <1>5, <1>6

\* The head of the list goes, into the table or not, or all of it.
LEMMA ScanDistinct ==
  ASSUME AInv, NEW source, NEW todo \in Seq(Dirs), lv = Scanning(source, todo, lv.old), todo # <<>>,
         NEW rest \in Seq(Dirs), lv' = Scanning(source, rest, lv.old), rest = <<>> \/ rest = Tail(todo),
         \/ table' = table
         \/ /\ rest = Tail(todo)
            /\ \E e \in Entries : e.dir = Head(todo) /\ table' = Append(table, e)
  PROVE  Distinct'
  <1>1. /\ lv.pc = "scan" /\ lv.todo = todo /\ lv.source = source /\ Reloading
        /\ lv'.pc = "scan" /\ lv'.todo = rest /\ lv'.source = source /\ lv'.old = lv.old /\ Reloading'
    BY DEF Scanning, Reloading
  <1>2. /\ Apart(table) /\ Apart(lv.old) /\ Ahead(todo) /\ (source = "nand" => FromNand(todo))
        /\ table \in Seq(Entries)
    BY <1>1 DEF AInv, Distinct, TableTyped
  <1>3. \A k \in DOMAIN rest : k + 1 \in DOMAIN todo /\ rest[k] = todo[k + 1] /\ k \in Nat /\ k # 0
    OBVIOUS
  <1>4. 1 \in DOMAIN todo /\ Head(todo) = todo[1]
    OBVIOUS
  <1>5. IsInjective(rest) /\ (\A k \in DOMAIN rest : rest[k] # todo[1])
    <2>1. \A k, m \in DOMAIN rest : rest[k] = rest[m] => k = m
      BY <1>2, <1>3 DEF Ahead, IsInjective
    <2>2. \A k \in DOMAIN rest : rest[k] # todo[1]
      BY <1>2, <1>3, <1>4 DEF Ahead, IsInjective
    <2> QED
      BY <2>1, <2>2 DEF IsInjective
  <1>6. CASE table' = table
    BY <1>1, <1>2, <1>3, <1>5, <1>6 DEF Distinct, Ahead, FromNand
  <1>7. CASE table' # table
    <2>1. PICK e \in Entries : e.dir = todo[1] /\ table' = Append(table, e)
      BY <1>4, <1>7
    <2>2. PICK t : t = table'
      OBVIOUS
    <2>3. \A i \in DOMAIN t : (i \in DOMAIN table /\ t[i] = table[i]) \/ t[i] = e
      BY <1>2, <2>1, <2>2
    <2>4. Apart(t)
      BY <1>2, <1>4, <2>1, <2>2, ApartAppended DEF Ahead
    <2>5. \A i \in DOMAIN t, k \in DOMAIN rest : t[i].dir # rest[k]
      BY <1>2, <1>3, <1>5, <2>1, <2>3 DEF Ahead
    <2>6. source = "nand" => (\A i \in DOMAIN t : OnNand(t[i].dir)) /\ \A k \in DOMAIN rest : OnNand(rest[k])
      BY <1>2, <1>3, <1>4, <2>1, <2>3 DEF FromNand
    <2> QED
      BY <1>1, <1>2, <1>5, <2>2, <2>4, <2>5, <2>6 DEF Distinct, Ahead, FromNand
  <1> QED
    BY <1>6, <1>7

LEMMA ScanSteps ==
  ASSUME AInv, ScanOne
  PROVE  AInv'
  <1>1. PICK source \in {"nand", "sd"}, todo \in Seq(Dirs) : lv = Scanning(source, todo, lv.old)
    BY DEF AInv, LvTyped, ScanOne, Idle, Filling, Killing
  <1>2. lv.pc = "scan" /\ lv.todo = todo /\ lv.source = source /\ todo # <<>>
    <2>1. lv.todo = todo /\ lv.source = source
      BY <1>1 DEF Scanning
    <2> QED
      BY <2>1 DEF ScanOne
  <1>3. PICK rest \in Seq(Dirs) :
          /\ lv' = Scanning(source, rest, lv.old)
          /\ rest = <<>> \/ rest = Tail(todo)
    <2>1. <<>> \in Seq(Dirs) /\ Tail(todo) \in Seq(Dirs)
      BY <1>2
    <2>2. lv' = [lv EXCEPT !.todo = <<>>] \/ lv' = [lv EXCEPT !.todo = Tail(todo)]
      BY <1>2 DEF ScanOne
    <2>3. lv' = Scanning(source, <<>>, lv.old) \/ lv' = Scanning(source, Tail(todo), lv.old)
      BY <1>1, <2>2 DEF Scanning
    <2> QED
      BY <2>1, <2>3
  <1>4. /\ WorldTyped' /\ LvTyped' /\ CheckTyped' /\ OldOwn' /\ Kept' /\ Filled'
        /\ \A e : OwnPid(e) => OwnPid(e)'
    BY <1>2, <1>3, ScanStays DEF ScanOne
  <1>5. CASE UNCHANGED tableVars
    <2>1. TableTyped' /\ MapOf(extmap, table)' /\ Own'
      BY <1>4, <1>5 DEF AInv, TableTyped, Own, tableVars
    <2>2. Distinct'
      BY <1>1, <1>2, <1>3, <1>5, ScanDistinct DEF tableVars
    <2> QED
      BY <1>4, <2>1, <2>2 DEF AInv
  <1>6. CASE ~ UNCHANGED tableVars
    <2>1. PICK d, e : d = Head(todo) /\ e = [dir |-> d, pid |-> None]
      OBVIOUS
    <2>2. /\ Loads(d) /\ ~ (Len(table) >= AppsMax) /\ table' = Append(table, e)
          /\ extmap' = ExtAddAll(extmap, Config[d].exts, Len(table) + 1)
      BY <1>2, <1>6, <2>1 DEF ScanOne
    <2>3. e \in Entries /\ e.dir = d /\ e.pid = None
      BY <1>2, <2>1 DEF Entries
    <2>4. table \in Seq(Entries) /\ Len(table) <= AppsMax /\ AppsMax \in Nat /\ MapOf(extmap, table)
      BY AppsAssumption DEF AInv, TableTyped
    <2>5. MapOf(extmap', table')
      BY <2>2, <2>3, <2>4, EntryAppended
    <2>6. /\ table' \in Seq(Entries) /\ Len(table') = Len(table) + 1 /\ DOMAIN table' = 1 .. Len(table) + 1
          /\ \A i \in DOMAIN table' : (i \in DOMAIN table /\ table'[i] = table[i]) \/ table'[i] = e
      BY <2>2, <2>3, <2>4
    <2>7. TableTyped'
      <3>1. \A i \in DOMAIN table : Loads(table[i].dir)
        BY DEF AInv, TableTyped
      <3>2. \A i \in DOMAIN table' : Loads(table'[i].dir)
        BY <2>2, <2>3, <2>6, <3>1
      <3>3. Len(table') <= AppsMax
        BY <2>2, <2>4, <2>6
      <3> QED
        BY <2>6, <3>2, <3>3 DEF TableTyped
    <2>8. Own'
      BY <1>4, <2>3, <2>6 DEF AInv, Own
    <2>9. Distinct'
      <3>1. rest = Tail(todo)
        <4>1. rest = lv'.todo /\ Tail(todo) = [lv EXCEPT !.todo = Tail(@)].todo
          BY <1>1, <1>2, <1>3 DEF Scanning
        <4> QED
          BY <1>2, <2>2, <4>1 DEF ScanOne
      <3> QED
        BY <1>1, <1>2, <1>3, <2>1, <2>2, <2>3, <3>1, ScanDistinct
    <2> QED
      BY <1>4, <2>5, <2>7, <2>8, <2>9 DEF AInv
  <1> QED
    BY <1>5, <1>6

LEMMA ScanEndStep ==
  ASSUME AInv, ScanEnd
  PROVE  AInv'
  <1>1. PICK source \in {"nand", "sd"}, todo \in Seq(Dirs) : lv = Scanning(source, todo, lv.old)
    BY DEF AInv, LvTyped, ScanEnd, Idle, Filling, Killing
  <1>2. lv.pc = "scan" /\ lv.source = source /\ UNCHANGED tableVars
    <2>1. lv.source = source
      BY <1>1 DEF Scanning
    <2> QED
      BY <2>1 DEF ScanEnd
  <1>3. TableTyped' /\ MapOf(extmap, table)'
    BY <1>2 DEF AInv, TableTyped, tableVars
  <1>4. CASE source = "nand"
    <2>1. lv' = Scanning("sd", DirsOf("sd"), lv.old)
      BY <1>1, <1>2, <1>4 DEF ScanEnd, Scanning
    <2>2. /\ WorldTyped' /\ LvTyped' /\ CheckTyped' /\ OldOwn' /\ Kept' /\ Filled'
          /\ \A e : OwnPid(e) => OwnPid(e)'
      BY <1>2, <2>1, DirsTyped, ScanStays DEF ScanEnd
    <2>3. Own'
      BY <1>2, <2>2 DEF AInv, Own, tableVars
    <2>4. Distinct'
      <3>1. PICK new : new = DirsOf("sd")
        OBVIOUS
      <3>2. IsInjective(new) /\ \A k \in DOMAIN new : ~ OnNand(new[k])
        <4>1. disk \in Disks /\ (new = <<>> \/ new = disk.sd)
          BY <3>1 DEF AInv, WorldTyped, DirsOf
        <4>2. CASE new = <<>>
          BY <4>2 DEF IsInjective
        <4>3. CASE new = disk.sd
          BY <4>1, <4>3, AppsAssumption DEF OnNand
        <4> QED
          BY <4>1, <4>2, <4>3
      <3>3. \A i \in DOMAIN table : OnNand(table[i].dir)
        BY <1>2, <1>4 DEF AInv, Distinct, FromNand
      <3>4. \A i \in DOMAIN table, k \in DOMAIN new : table[i].dir # new[k]
        BY <3>2, <3>3
      <3>5. lv'.pc = "scan" /\ lv'.source = "sd" /\ lv'.todo = new /\ lv'.old = lv.old
        BY <2>1, <3>1 DEF Scanning
      <3>6. table' = table /\ Apart(table) /\ Apart(lv.old)
        BY <1>2 DEF AInv, Distinct, Reloading, tableVars
      <3> QED
        BY <3>2, <3>4, <3>5, <3>6 DEF Distinct, Ahead
    <2> QED
      BY <1>3, <2>2, <2>3, <2>4 DEF AInv
  <1>5. CASE source # "nand"
    <2>1. lv' = Filling(1, lv.old)
      BY <1>1, <1>2, <1>5 DEF ScanEnd, Filling
    <2>2. lv'.pc = "fill" /\ lv'.old = lv.old /\ lv' = Filling(1, lv'.old) /\ Reloading /\ Reloading'
      BY <1>2, <2>1 DEF Filling, Reloading
    <2>3. WorldTyped' /\ \A e : OwnPid(e) => OwnPid(e)'
      BY WorldStays DEF ScanEnd, AInv, WorldTyped
    <2>4. LvTyped' /\ CheckTyped'
      BY <2>2 DEF AInv, LvTyped, CheckTyped, ScanEnd, procVars
    <2>5. Own' /\ OldOwn'
      BY <1>2, <2>2, <2>3 DEF AInv, Own, OldOwn, tableVars
    <2>6. Kept'
      BY <2>2 DEF AInv, Kept, Live, ScanEnd, procVars
    <2>7. Distinct'
      BY <1>2, <2>2 DEF AInv, Distinct, tableVars
    <2>8. Filled'
      <3>1. lv'.at = 1 /\ DOMAIN table' \subseteq Nat \ {0}
        BY <1>2, <2>1 DEF AInv, TableTyped, tableVars, Filling
      <3> QED
        BY <3>1 DEF Filled
    <2> QED
      BY <1>3, <2>3, <2>4, <2>5, <2>6, <2>7, <2>8 DEF AInv
  <1> QED
    BY <1>4, <1>5

\* The pids of some entries are replaced.
LEMMA TableFilled ==
  ASSUME TableTyped, MapOf(extmap, table), NEW i \in DOMAIN table, NEW p \in Pids \cup {None}
  PROVE  LET t == [table EXCEPT ![i].pid = p]
         IN  /\ t \in Seq(Entries) /\ Len(t) = Len(table) /\ DOMAIN t = DOMAIN table
             /\ \A j \in DOMAIN table : t[j] = IF j = i THEN [dir |-> table[i].dir, pid |-> p] ELSE table[j]
             /\ \A j \in DOMAIN t : Loads(t[j].dir)
             /\ MapOf(extmap, t)
  <1>1. PICK t : t = [table EXCEPT ![i].pid = p]
    OBVIOUS
  <1>2. /\ table \in Seq(Entries) /\ DOMAIN table = 1 .. Len(table)
        /\ \A j \in DOMAIN table : table[j] \in Entries /\ Loads(table[j].dir)
    BY DEF TableTyped
  <1>3. PICK e : e = [dir |-> table[i].dir, pid |-> p]
    OBVIOUS
  <1>4. e = [table[i] EXCEPT !.pid = p] /\ e \in Entries /\ e.dir = table[i].dir
    BY <1>2, <1>3 DEF Entries
  <1>5. t = [table EXCEPT ![i] = e]
    BY <1>1, <1>4
  <1>6. t \in Seq(Entries) /\ Len(t) = Len(table) /\ DOMAIN t = DOMAIN table
    BY <1>2, <1>4, <1>5
  <1>7. \A j \in DOMAIN table : t[j] = IF j = i THEN e ELSE table[j]
    BY <1>2, <1>5
  <1>8. \A j \in DOMAIN table : t[j].dir = table[j].dir
    BY <1>4, <1>7
  <1>9. MapOf(extmap, t)
    BY <1>2, <1>6, <1>8, SameDirs
  <1> QED
    BY <1>1, <1>2, <1>3, <1>6, <1>7, <1>8, <1>9

\* What the snapshot has for a uuid is a pid of the application with that uuid.
LEMMA OldPidOwn ==
  ASSUME UuidsApart, AInv, Reloading, NEW d \in Dirs, Loads(d), OldPid(lv.old, Uuid(d)) # None
  PROVE  \E e : OwnPid(e) /\ e.dir = d /\ e.pid = OldPid(lv.old, Uuid(d))
  <1> DEFINE hits == {j \in DOMAIN lv.old : Uuid(lv.old[j].dir) = Uuid(d)}
             least == CHOOSE j \in hits : \A k \in hits : j <= k
  <1>1. OldPid(lv.old, Uuid(d)) = (IF hits = {} THEN None ELSE lv.old[least].pid)
    BY DEF OldPid
  <1>2. DOMAIN lv.old \subseteq Nat /\ \A j \in DOMAIN lv.old : OwnPid(lv.old[j])
    BY DEF AInv, OldOwn
  <1>3. hits # {} /\ hits \in SUBSET Nat
    BY <1>1, <1>2
  <1>4. least \in hits
    <2> HIDE DEF hits
    <2>1. \E j \in hits : \A k \in hits : j <= k
      BY <1>3, LeastNat
    <2> QED
      BY <2>1, Zenon
  <1>5. PICK e : e = lv.old[least]
    OBVIOUS
  <1>6. OwnPid(e) /\ Uuid(e.dir) = Uuid(d)
    <2> HIDE DEF least
    <2> QED
      BY <1>2, <1>4, <1>5
  <1>7. e.dir = d
    BY <1>6 DEF UuidsApart, OwnPid, Entries
  <1> HIDE DEF hits, least
  <1> QED
    BY <1>1, <1>3, <1>5, <1>6, <1>7

\* and it is the pid of every entry of the snapshot with that uuid: there is one.
LEMMA OldPidOf ==
  ASSUME UuidsApart, AInv, Reloading, NEW j \in DOMAIN lv.old, NEW u, Uuid(lv.old[j].dir) = u
  PROVE  OldPid(lv.old, u) = lv.old[j].pid
  <1>1. PICK old : old = lv.old
    OBVIOUS
  <1>2. /\ \A k \in DOMAIN old : OwnPid(old[k])
        /\ \A k, m \in DOMAIN old : old[k].dir = old[m].dir => k = m
    BY <1>1 DEF AInv, OldOwn, Distinct, Apart
  <1>3. \A k \in DOMAIN old : old[k].dir \in Dirs /\ Loads(old[k].dir)
    BY <1>2 DEF OwnPid, Entries
  <1>4. \A k \in DOMAIN old : Uuid(old[k].dir) = u => k = j
    BY <1>1, <1>2, <1>3 DEF UuidsApart
  <1>5. {k \in DOMAIN old : Uuid(old[k].dir) = u} = {j}
    BY <1>1, <1>4
  <1>6. DOMAIN old \subseteq Nat
    BY <1>1 DEF AInv, OldOwn
  <1>7. (CHOOSE k \in {j} : \A m \in {j} : k <= m) = j
    <2>1. j <= j
      BY <1>1, <1>6
    <2>2. \E k \in {j} : \A m \in {j} : k <= m
      BY <2>1
    <2> QED
      BY <2>2
  <1> QED
    BY <1>1, <1>5, <1>7 DEF OldPid

LEMMA FillStep ==
  ASSUME UuidsApart, AInv, Fill
  PROVE  AInv'
  <1>1. PICK at \in Nat \ {0} : lv = Filling(at, lv.old)
    BY DEF AInv, LvTyped, Fill, Idle, Scanning, Killing
  <1>2. lv.pc = "fill" /\ lv.at = at /\ at <= Len(table) /\ extmap' = extmap
    <2>1. lv.at = at
      BY <1>1 DEF Filling
    <2> QED
      BY <2>1 DEF Fill
  <1>3. lv' = Filling(at + 1, lv.old)
    BY <1>1, <1>2 DEF Fill, Filling
  <1>4. lv'.pc = "fill" /\ lv'.old = lv.old /\ lv' = Filling(at + 1, lv'.old) /\ Reloading /\ Reloading'
    BY <1>2, <1>3 DEF Filling, Reloading
  <1>5. WorldTyped' /\ \A e : OwnPid(e) => OwnPid(e)'
    BY WorldStays DEF Fill, AInv, WorldTyped
  <1>6. LvTyped' /\ CheckTyped'
    BY <1>4 DEF AInv, LvTyped, CheckTyped, Fill, procVars
  <1>7. OldOwn'
    BY <1>4, <1>5 DEF AInv, OldOwn
  <1>8. Kept'
    BY <1>4 DEF AInv, Kept, Live, Fill, procVars
  <1>11. /\ lv'.at = at + 1 /\ lost' = lost /\ proc' = proc
         /\ \A j \in DOMAIN lv.old : OwnPid(lv.old[j])
         /\ \A i \in DOMAIN table : i \in Nat
    BY <1>2, <1>3, <1>4 DEF Filling, Fill, procVars, AInv, OldOwn, TableTyped
  <1>12. at \in DOMAIN table => \A j \in DOMAIN lv.old :
           SameApp(table[at].dir, lv.old[j].dir) => OldPid(lv.old, Uuid(table[at].dir)) = lv.old[j].pid /\ lv.old[j].pid # None
    <2>1. \A j \in DOMAIN lv.old : lv.old[j].pid # None
      BY <1>11, AppsAssumption DEF OwnPid
    <2> QED
      BY <1>4, <2>1, OldPidOf DEF SameApp
  <1>13. at \in DOMAIN table /\ table \in Seq(Entries)
    BY <1>2 DEF AInv, TableTyped
  <1>9. CASE table' = table
    <2>1. TableTyped' /\ Own' /\ MapOf(extmap, table)'
      BY <1>2, <1>5, <1>9 DEF AInv, TableTyped, Own
    <2>2. Distinct'
      BY <1>4, <1>9 DEF AInv, Distinct
    <2>3. Filled'
      <3>1. ASSUME NEW i \in DOMAIN table, NEW j \in DOMAIN lv.old, i < at + 1,
                   SameApp(table[i].dir, lv.old[j].dir), Live(lv.old[j].pid), lv.old[j].pid \notin lost
            PROVE  table[i].pid = lv.old[j].pid
        <4>1. CASE i = at
          <5>1. OldPid(lv.old, Uuid(table[at].dir)) = lv.old[j].pid /\ lv.old[j].pid # None
            BY <1>12, <1>13, <3>1, <4>1
          <5>2. table' = [table EXCEPT ![at].pid = lv.old[j].pid]
            BY <1>2, <3>1, <4>1, <5>1 DEF Fill, SameApp
          <5>3. table[at] \in Entries
            BY <1>13
          <5>4. table'[at].pid = lv.old[j].pid
            BY <1>13, <5>2, <5>3 DEF Entries
          <5> QED
            BY <1>9, <4>1, <5>4
        <4>2. CASE i # at
          <5>1. i < lv.at
            BY <1>2, <1>11, <3>1, <4>2
          <5> QED
            BY <1>2, <3>1, <5>1 DEF AInv, Filled
        <4> QED
          BY <4>1, <4>2
      <3> QED
        BY <1>4, <1>9, <1>11, <3>1 DEF Filled, Live
    <2> QED
      BY <1>5, <1>6, <1>7, <1>8, <2>1, <2>2, <2>3 DEF AInv
  <1>10. CASE table' # table
    <2>1. PICK d, p : d = table[at].dir /\ p = OldPid(lv.old, Uuid(d))
      OBVIOUS
    <2>2. p # None /\ table' = [table EXCEPT ![at].pid = p]
      BY <1>2, <1>10, <2>1 DEF Fill
    <2>3. at \in DOMAIN table /\ d \in Dirs /\ Loads(d)
      <3>1. DOMAIN table = 1 .. Len(table) /\ Len(table) \in Nat
            /\ \A j \in DOMAIN table : table[j] \in Entries /\ Loads(table[j].dir)
        BY DEF AInv, TableTyped
      <3>2. at \in DOMAIN table
        BY <1>2, <3>1
      <3> QED
        BY <2>1, <3>1, <3>2 DEF Entries
    <2>4. PICK e : OwnPid(e) /\ e.dir = d /\ e.pid = p
      BY <1>4, <2>1, <2>2, <2>3, OldPidOwn
    <2>5. e = [dir |-> d, pid |-> p] /\ p \in Pids
      BY <2>4 DEF OwnPid, Entries
    <2>6. /\ table' \in Seq(Entries) /\ Len(table') = Len(table) /\ DOMAIN table' = DOMAIN table
          /\ \A j \in DOMAIN table : table'[j] = IF j = at THEN e ELSE table[j]
          /\ \A j \in DOMAIN table' : Loads(table'[j].dir)
          /\ MapOf(extmap, table')
      BY <2>1, <2>2, <2>3, <2>5, TableFilled DEF AInv
    <2>7. TableTyped'
      BY <2>6 DEF AInv, TableTyped
    <2>8. Own'
      BY <1>5, <2>4, <2>6 DEF AInv, Own
    <2>9. MapOf(extmap, table)'
      <3>1. MapOf(extmap', table')
        BY <1>2, <2>6
      <3> QED
        BY <3>1
    <2>10. Distinct'
      <3>1. \A j \in DOMAIN table' : table'[j].dir = table[j].dir
        BY <2>4, <2>1, <2>6
      <3> QED
        BY <1>4, <2>6, <3>1 DEF AInv, Distinct, Apart
    <2>11. Filled'
      <3>1. ASSUME NEW i \in DOMAIN table', NEW j \in DOMAIN lv.old, i < at + 1,
                   SameApp(table'[i].dir, lv.old[j].dir), Live(lv.old[j].pid), lv.old[j].pid \notin lost
            PROVE  table'[i].pid = lv.old[j].pid
        <4>1. CASE i = at
          <5>1. SameApp(table[at].dir, lv.old[j].dir) /\ table'[i] = e
            BY <2>1, <2>4, <2>6, <3>1, <4>1
          <5> QED
            BY <1>12, <1>13, <2>1, <2>4, <5>1
        <4>2. CASE i # at
          <5>1. i \in DOMAIN table /\ i < lv.at /\ table'[i] = table[i]
            BY <1>2, <1>11, <2>6, <3>1, <4>2
          <5> QED
            BY <1>2, <3>1, <5>1 DEF AInv, Filled
        <4> QED
          BY <4>1, <4>2
      <3> QED
        BY <1>4, <1>11, <3>1 DEF Filled, Live
    <2> QED
      BY <1>5, <1>6, <1>7, <1>8, <2>7, <2>8, <2>9, <2>10, <2>11 DEF AInv
  <1> QED
    BY <1>9, <1>10

LEMMA FillEndStep ==
  ASSUME AInv, FillEnd
  PROVE  AInv'
  <1>1. /\ lv.pc = "fill" /\ lv' = Idle /\ Reloading /\ ~ Reloading' /\ check' = check
        /\ table' = table /\ extmap' = extmap /\ proc' = proc
        /\ lost' = lost \cup {p \in {lv.old[j].pid : j \in Missing(lv.old)} : Live(p)}
    BY DEF FillEnd, Reloading, Idle, tableVars, procVars
  <1>2. lost' \subseteq Pids
    BY <1>1 DEF AInv, WorldTyped, OldOwn, OwnPid, Missing
  <1>3. WorldTyped' /\ \A e : OwnPid(e) => OwnPid(e)'
    BY <1>2, WorldStays DEF FillEnd
  <1>4. /\ LvTyped' /\ CheckTyped' /\ TableTyped' /\ Own' /\ OldOwn' /\ MapOf(extmap, table)'
        /\ Distinct' /\ Filled'
    BY <1>1, <1>3 DEF AInv, LvTyped, CheckTyped, TableTyped, Own, OldOwn, Distinct, Filled, Idle
  <1>5. Kept'
    <2>1. ASSUME NEW p \in Pids, Live(p), p \notin lost'
          PROVE  \E i \in DOMAIN table : table[i].pid = p
      <3>1. PICK j \in DOMAIN lv.old : lv.old[j].pid = p
        BY <1>1, <2>1 DEF AInv, Kept
      <3>2. j \notin Missing(lv.old)
        BY <1>1, <2>1, <3>1
      <3>3. PICK i \in DOMAIN table : SameApp(table[i].dir, lv.old[j].dir)
        BY <3>1, <3>2 DEF Missing, SameApp
      <3>4. i < lv.at
        <4>1. PICK at \in Nat : lv.at = at
          BY <1>1 DEF AInv, LvTyped, Idle, Scanning, Filling, Killing
        <4> QED
          BY <3>3, <4>1 DEF FillEnd, AInv, TableTyped
      <3>5. p \notin lost
        BY <1>1, <2>1
      <3> QED
        BY <1>1, <2>1, <3>1, <3>3, <3>4, <3>5 DEF AInv, Filled
    <2> QED
      BY <1>1, <2>1 DEF Kept, Live
  <1> QED
    BY <1>3, <1>4, <1>5 DEF AInv

LEMMA ClearStep ==
  ASSUME AInv, CheckClear
  PROVE  AInv'
  <1>1. /\ check.at \in Nat \ {0} /\ check' = Quiet /\ extmap' = extmap /\ lv' = lv /\ proc' = proc /\ of' = of
        /\ proc[check.found] = "gone"
    <2>1. PICK at \in Nat \ {0}, p \in Pids : check = Found(at, p) /\ proc[p] = "gone"
      BY DEF AInv, CheckTyped, CheckClear, Quiet
    <2> QED
      BY <2>1 DEF CheckClear, Quiet, procVars, Found
  <1>2. CASE check.at > Len(table)
    <2>1. table' = table /\ lost' = lost
      BY <1>2 DEF CheckClear
    <2>2. WorldTyped' /\ CheckTyped' /\ LvTyped' /\ NoneBegins
      BY <1>1, <2>1, NoneBegun DEF CheckClear, AInv, WorldTyped, CheckTyped, LvTyped, exitVars
    <2> QED
      BY <1>1, <2>1, <2>2, TableStays
  <1>3. CASE ~ (check.at > Len(table))
    <2>1. PICK at : at = check.at
      OBVIOUS
    <2>2. /\ table' = [table EXCEPT ![at].pid = None]
          /\ lost' = lost \cup {p \in {table[at].pid} \ {None, check.found} : Live(p)}
      BY <1>3, <2>1 DEF CheckClear
    <2>3. at \in DOMAIN table /\ table[at] \in Entries /\ \A j \in DOMAIN table : table[j] \in Entries
      BY <1>1, <1>3, <2>1 DEF AInv, TableTyped
    <2>4. PICK e : e = [dir |-> table[at].dir, pid |-> None]
      OBVIOUS
    <2>5. /\ table' \in Seq(Entries) /\ Len(table') = Len(table) /\ DOMAIN table' = DOMAIN table
          /\ \A j \in DOMAIN table : table'[j] = IF j = at THEN e ELSE table[j]
          /\ \A j \in DOMAIN table' : Loads(table'[j].dir)
          /\ MapOf(extmap, table')
      BY <2>2, <2>3, <2>4, TableFilled DEF AInv
    <2>6. e.pid = None
      BY <2>4
    <2>7. lost' \subseteq Pids
      BY <2>2, <2>3 DEF AInv, WorldTyped, Entries
    <2>8. WorldTyped' /\ \A x : OwnPid(x) => OwnPid(x)'
      BY <2>7, WorldStays DEF CheckClear
    <2>9. LvTyped' /\ CheckTyped' /\ TableTyped' /\ OldOwn'
      BY <1>1, <2>5, <2>8 DEF AInv, LvTyped, CheckTyped, TableTyped, OldOwn, Reloading
    <2>10. Own'
      BY <2>5, <2>6, <2>8 DEF AInv, Own
    <2>11. MapOf(extmap, table)'
      <3>1. MapOf(extmap', table')
        BY <1>1, <2>5
      <3> QED
        BY <3>1
    <2>12. Kept'
      <3>1. CASE Reloading
        BY <1>1, <2>2, <3>1 DEF AInv, Kept, Live, Reloading
      <3>2. CASE ~ Reloading
        <4>1. ASSUME NEW p \in Pids, Live(p), p \notin lost'
              PROVE  \E i \in DOMAIN table' : table'[i].pid = p
          <5>1. PICK i \in DOMAIN table : table[i].pid = p
            BY <2>2, <3>2, <4>1 DEF AInv, Kept
          <5>2. p # None
            BY AppsAssumption
          <5>3. i # at
            <6>1. p # check.found
              BY <1>1, <4>1 DEF Live
            <6> QED
              BY <2>2, <4>1, <5>1, <5>2, <6>1
          <5> QED
            BY <2>5, <5>1, <5>3
        <4> QED
          BY <1>1, <3>2, <4>1 DEF Kept, Live, Reloading
      <3> QED
        BY <3>1, <3>2
    <2>13. Distinct'
      <3>1. \A j \in DOMAIN table' : table'[j].dir = table[j].dir
        BY <2>4, <2>5
      <3>2. (Reloading' <=> Reloading) /\ lv' = lv
        BY <1>1 DEF Reloading
      <3> QED
        BY <2>5, <3>1, <3>2 DEF AInv, Distinct, Apart, Ahead, FromNand
    <2>14. Filled'
      <3>1. ASSUME lv.pc = "fill", NEW i \in DOMAIN table', NEW j \in DOMAIN lv.old, i < lv.at,
                   SameApp(table'[i].dir, lv.old[j].dir), Live(lv.old[j].pid), lv.old[j].pid \notin lost'
            PROVE  table'[i].pid = lv.old[j].pid
        <4>1. i \in DOMAIN table /\ table'[i].dir = table[i].dir /\ lv.old[j].pid \notin lost
          BY <2>2, <2>4, <2>5, <3>1
        <4>2. table[i].pid = lv.old[j].pid
          BY <3>1, <4>1 DEF AInv, Filled
        <4>3. lv.old[j].pid # None /\ lv.old[j].pid # check.found
          <5>1. OwnPid(lv.old[j])
            BY <3>1 DEF AInv, OldOwn, Reloading
          <5> QED
            BY <1>1, <3>1, <5>1, AppsAssumption DEF OwnPid, Live
        <4>4. i # at
          BY <2>2, <3>1, <4>2, <4>3
        <4> QED
          BY <2>5, <4>1, <4>2, <4>4
      <3> QED
        BY <1>1, <3>1 DEF Filled, Live
    <2> QED
      BY <2>8, <2>9, <2>10, <2>11, <2>12, <2>13, <2>14 DEF AInv
  <1> QED
    BY <1>2, <1>3

\* A background application begins.
LEMMA LaunchStep ==
  ASSUME AInv, lv = Idle, NEW i \in DOMAIN table, Type(table[i].dir) = "bg", table[i].pid = None,
         LaunchBackground(i), UNCHANGED <<disk, card, extmap, lv, check, exitVars, armed, lost>>
  PROVE  AInv'
  <1>1. ~ Reloading /\ ~ Reloading' /\ extmap' = extmap
    BY DEF Reloading, Idle
  <1>2. CASE UNCHANGED <<proc, of, table>>
    <2>1. WorldTyped' /\ LvTyped' /\ CheckTyped' /\ NoneBegins
      BY <1>2, NoneBegun DEF AInv, WorldTyped, LvTyped, CheckTyped, exitVars
    <2> QED
      BY <1>1, <1>2, <2>1, TableStays
  <1>3. CASE ~ UNCHANGED <<proc, of, table>>
    <2>1. PICK d : d = table[i].dir
      OBVIOUS
    <2>2. PICK p \in Pids : /\ proc[p] = "none" /\ proc' = [proc EXCEPT ![p] = "running"]
                            /\ of' = [of EXCEPT ![p] = d] /\ table' = [table EXCEPT ![i].pid = p]
      BY <1>3, <2>1 DEF LaunchBackground
    <2>3. d \in Dirs /\ Loads(d)
      <3>1. table[i] \in Entries /\ Loads(table[i].dir)
        BY DEF AInv, TableTyped
      <3> QED
        BY <2>1, <3>1 DEF Entries
    <2>4. WorldTyped'
      BY <2>2, <2>3 DEF AInv, WorldTyped, States, exitVars
    <2>5. PICK e : e = [dir |-> d, pid |-> p]
      OBVIOUS
    <2>6. /\ table' \in Seq(Entries) /\ Len(table') = Len(table) /\ DOMAIN table' = DOMAIN table
          /\ \A j \in DOMAIN table : table'[j] = IF j = i THEN e ELSE table[j]
          /\ \A j \in DOMAIN table' : Loads(table'[j].dir)
          /\ MapOf(extmap, table')
      BY <2>1, <2>2, <2>5, TableFilled DEF AInv
    <2>7. LvTyped' /\ CheckTyped' /\ TableTyped' /\ OldOwn'
      BY <1>1, <2>2, <2>6 DEF AInv, LvTyped, CheckTyped, TableTyped, OldOwn, WorldTyped
    <2>8. /\ proc \in [Pids -> States] /\ of \in [Pids -> Dirs \cup {None}]
      BY DEF AInv, WorldTyped
    <2>9. \A x : OwnPid(x) => OwnPid(x)'
      BY <2>2, <2>8 DEF OwnPid
    <2>10. OwnPid(e)'
      <3>1. e \in Entries /\ e.dir = d /\ e.pid = p /\ Type(d) = "bg"
        BY <2>1, <2>3, <2>5 DEF Entries
      <3>2. proc'[p] = "running" /\ of'[p] = d
        BY <2>2, <2>8
      <3> QED
        BY <2>3, <3>1, <3>2 DEF OwnPid
    <2>11. Own'
      BY <2>6, <2>9, <2>10 DEF AInv, Own
    <2>12. MapOf(extmap, table)'
      <3>1. MapOf(extmap', table')
        BY <1>1, <2>6
      <3> QED
        BY <3>1
    <2>13. Kept'
      <3>1. ASSUME NEW q \in Pids, Live(q)', q \notin lost'
            PROVE  \E j \in DOMAIN table' : table'[j].pid = q
        <4>1. CASE q = p
          <5>1. table'[i].pid = p
            BY <2>5, <2>6
          <5> QED
            BY <2>6, <4>1, <5>1
        <4>2. CASE q # p
          <5>1. Live(q) /\ q \notin lost
            BY <2>2, <2>8, <3>1, <4>2 DEF Live
          <5>2. PICK j \in DOMAIN table : table[j].pid = q
            BY <1>1, <5>1 DEF AInv, Kept
          <5>3. j # i
            BY <5>2, AppsAssumption
          <5> QED
            BY <2>6, <5>2, <5>3
        <4> QED
          BY <4>1, <4>2
      <3> QED
        BY <1>1, <3>1 DEF Kept
    <2>14. Distinct' /\ Filled'
      <3>1. \A j \in DOMAIN table' : table'[j].dir = table[j].dir
        BY <2>1, <2>5, <2>6
      <3> QED
        BY <1>1, <2>6, <3>1 DEF AInv, Distinct, Filled, Apart, Reloading
    <2> QED
      BY <2>4, <2>7, <2>11, <2>12, <2>13, <2>14 DEF AInv
  <1> QED
    BY <1>2, <1>3

LEMMA ForegroundStep ==
  ASSUME AInv, lv = Idle, LaunchForeground,
         UNCHANGED <<disk, card, extmap, lv, check, table, procVars, armed, lost>>
  PROVE  AInv'
  <1>1. WorldTyped' /\ LvTyped' /\ CheckTyped' /\ NoneBegins
    BY NoneBegun DEF LaunchForeground, AInv, WorldTyped, LvTyped, CheckTyped, procVars
  <1> QED
    BY <1>1, TableStays DEF procVars

LEMMA SelectStep ==
  ASSUME AInv, NEW i \in DOMAIN table, Select(i)
  PROVE  AInv'
  <1>1. lv = Idle /\ UNCHANGED <<disk, card, extmap, check, armed, lost>>
    BY DEF Select
  <1>2. CASE Type(table[i].dir) = "fg_ext" /\ UNCHANGED <<lv, table, procVars, exitVars>>
    <2>1. WorldTyped' /\ LvTyped' /\ CheckTyped' /\ NoneBegins
      BY <1>1, <1>2, NoneBegun DEF AInv, WorldTyped, LvTyped, CheckTyped, procVars, exitVars
    <2> QED
      BY <1>1, <1>2, <2>1, TableStays DEF procVars
  <1>3. CASE LaunchForeground /\ UNCHANGED <<lv, table, procVars>>
    BY <1>1, <1>3, ForegroundStep
  <1>4. CASE /\ Type(table[i].dir) = "bg" /\ table[i].pid = None
             /\ LaunchBackground(i) /\ UNCHANGED <<lv, exitVars>>
    BY <1>1, <1>4, LaunchStep
  <1>5. CASE /\ Type(table[i].dir) = "bg" /\ table[i].pid # None
             /\ Terminate(table[i].pid)
             /\ lv' = [pc |-> "kill", pid |-> table[i].pid, polls |-> KillPolls]
             /\ UNCHANGED <<of, table, exitVars>>
    <2>1. table[i].pid \in Pids /\ KillPolls \in Int
      <3>1. table[i] \in Entries
        BY DEF AInv, TableTyped
      <3> QED
        BY <1>5, <3>1, AppsAssumption DEF Entries
    <2>2. lv' = Killing(table[i].pid, KillPolls)
      BY <1>5 DEF Killing
    <2>3. LvTyped' /\ ~ Reloading /\ ~ Reloading'
      BY <1>1, <2>1, <2>2 DEF LvTyped, Killing, Reloading, Idle
    <2>4. NoneBegins
      BY <1>5, Terminated DEF AInv
    <2>5. WorldTyped' /\ CheckTyped'
      BY <1>1, <1>5, <2>4 DEF AInv, WorldTyped, CheckTyped, NoneBegins, exitVars
    <2> QED
      BY <1>1, <1>5, <2>3, <2>4, <2>5, TableStays
  <1> QED
    BY <1>2, <1>3, <1>4, <1>5 DEF Select

LEMMA OpenStep ==
  ASSUME AInv, NEW ext \in disk.files, OpenFile(ext)
  PROVE  AInv'
  <1> DEFINE i == IF ext = None THEN 0 ELSE ExtGet(extmap, ext)
  <1>1. lv = Idle /\ UNCHANGED <<disk, card, extmap, lv, check, armed, lost>>
    BY DEF OpenFile
  <1>2. CASE LaunchForeground /\ UNCHANGED <<table, procVars>>
    BY <1>1, <1>2, ForegroundStep
  <1>3. CASE /\ ~ (i = 0 \/ Type(table[i].dir) # "bg")
             /\ (IF table[i].pid # None THEN UNCHANGED <<table, procVars>> ELSE LaunchBackground(i))
             /\ UNCHANGED exitVars
    <2>1. ext # None /\ i = ExtGet(extmap, ext) /\ i # 0
      BY <1>3
    <2>2. ext \in DOMAIN Lower
      BY <2>1, AppsAssumption DEF AInv, WorldTyped
    <2>3. i \in DOMAIN table
      <3>1. MapOf(extmap, table) /\ Len(table) \in Nat /\ DOMAIN table = 1 .. Len(table)
        BY DEF AInv, TableTyped
      <3>2. PICK n : n = ExtGet(extmap, ext)
        OBVIOUS
      <3>3. n # 0 => n \in DOMAIN table
        BY <2>2, <3>1, <3>2, MapLeads
      <3> QED
        BY <2>1, <3>2, <3>3
    <2> HIDE DEF i
    <2>4. CASE table[i].pid = None
      BY <1>1, <1>3, <2>3, <2>4, LaunchStep
    <2>5. CASE table[i].pid # None
      <3>1. WorldTyped' /\ LvTyped' /\ CheckTyped' /\ NoneBegins
        BY <1>1, <1>3, <2>5, NoneBegun DEF AInv, WorldTyped, LvTyped, CheckTyped, procVars, exitVars
      <3> QED
        BY <1>1, <1>3, <2>5, <3>1, TableStays DEF procVars
    <2> QED
      BY <2>4, <2>5
  <1> QED
    BY <1>2, <1>3 DEF OpenFile

LEMMA NextKeepsAInv ==
  ASSUME UuidsApart, AInv, [Next]_vars
  PROVE  AInv'
  <1>1. CASE Environment
    <2>1. CASE UserActs
      BY <2>1, SelectStep, OpenStep DEF UserActs
    <2>2. CASE UNCHANGED appsVars \/ SwapCard \/ ChangeDirs \/ Signal \/ \E p \in Pids : ProcessEnds(p)
      BY <2>2, QuietSteps
    <2> QED
      BY <1>1, <2>1, <2>2 DEF Environment, Schedule
  <1>2. CASE LvglWorks
    <2>1. CASE LvglGoesOn
      BY <2>1, ScanSteps, ScanEndStep, FillStep, FillEndStep, KillStep DEF LvglGoesOn
    <2>2. CASE Reload
      BY <2>2, ReloadStep
    <2>3. CASE UNCHANGED appsVars
      BY <2>3, QuietSteps
    <2> QED
      BY <1>2, <2>1, <2>2, <2>3 DEF LvglWorks, LvglServes, LvglEnds
  <1>3. CASE ChecksGoOn
    BY <1>3, ClearStep, QuietSteps DEF ChecksGoOn
  <1>4. CASE MainReaps
    BY <1>4, MainSteps
  <1>5. CASE MainGoesOn
    <2>1. CASE TimersEnd \/ EachApp \/ MainKills \/ SleepOver
      BY <2>1, MainSteps
    <2>2. CASE UNCHANGED appsVars
      BY <2>2, QuietSteps
    <2> QED
      BY <1>5, <2>1, <2>2 DEF MainGoesOn, MainLeaves, IpcJoined, LvglJoined, SignalWorker, MainDone
  <1>6. CASE TickServes \/ IpcWorks \/ WorkerGoesOn \/ UNCHANGED vars
    <2>1. UNCHANGED appsVars
      BY <1>6 DEF TickServes, IpcWorks, WorkerGoesOn, WorkerTop, WorkerTakes, WorkerWoken, WorkerDrawn, vars
    <2> QED
      BY <2>1, QuietSteps
  <1> QED
    BY <1>1, <1>2, <1>3, <1>4, <1>5, <1>6 DEF Next

LEMMA AInvTrue == AInv => TableIsTrue
  <1> SUFFICES ASSUME AInv PROVE TableIsTrue
    OBVIOUS
  <1>1. /\ table \in Seq(Entries) /\ Len(table) \in Nat /\ DOMAIN table = 1 .. Len(table)
        /\ MapOf(extmap, table)
    BY DEF AInv, TableTyped
  <1>2. AppsTypeOK
    <2>1. \A i \in DOMAIN table : table[i].dir \in Dirs /\ table[i].pid \in Pids \cup {None}
      <3>1. \A i \in DOMAIN table : table[i] \in Entries
        BY <1>1
      <3> QED
        BY <3>1 DEF Entries
    <2>2. Len(table) <= AppsMax /\ Len(extmap) <= ExtmapMax
      BY DEF AInv, TableTyped, MapOf, MapFor
    <2> QED
      BY <2>1, <2>2 DEF AInv, WorldTyped, AppsTypeOK, States
  <1>3. RunningIsTracked
    <2> SUFFICES ASSUME ~ Reloading, NEW p \in Pids, Live(p), p \notin lost
                 PROVE  \E i \in DOMAIN table : table[i].pid = p /\ table[i].dir = of[p]
      BY DEF RunningIsTracked, Reloading
    <2>1. PICK i \in DOMAIN table : table[i].pid = p
      BY DEF AInv, Kept
    <2>2. p # None
      BY AppsAssumption
    <2> QED
      BY <2>1, <2>2 DEF AInv, Own, OwnPid
  <1>4. ExtmapFresh
    <2> SUFFICES ASSUME NEW e \in DOMAIN Lower
                 PROVE  LET declares(i) == \E k \in DOMAIN Config[table[i].dir].exts :
                                             Lower[Config[table[i].dir].exts[k]] = Lower[e]
                            i == ExtGet(extmap, e)
                        IN IF i = 0 THEN Lower[e] = None \/ Len(extmap) = ExtmapMax \/ ~\E j \in DOMAIN table : declares(j)
                           ELSE i \in DOMAIN table /\ declares(i) /\ \A j \in 1..(i - 1) : ~declares(j)
      BY DEF ExtmapFresh
    <2>1. PICK i : i = ExtGet(extmap, e)
      OBVIOUS
    <2>2. IF i = 0 THEN \/ Lower[e] = None \/ Len(extmap) = ExtmapMax
                        \/ ~ \E j \in DOMAIN table : Lower[e] \in Decl(table[j].dir)
          ELSE /\ i \in DOMAIN table /\ Lower[e] \in Decl(table[i].dir)
               /\ \A j \in 1 .. i - 1 : Lower[e] \notin Decl(table[j].dir)
      BY <1>1, <2>1, MapLeads
    <2>3. \A d : Lower[e] \in Decl(d) <=> \E k \in DOMAIN Config[d].exts : Lower[Config[d].exts[k]] = Lower[e]
      BY DEF Decl
    <2> QED
      BY <2>1, <2>2, <2>3
  <1> QED
    BY <1>2, <1>3, <1>4 DEF TableIsTrue

\* Applications with uuids of their own: a background application that runs is the one its entry
\* names, however often the table was rebuilt, unless a reload did not find the application
\* again or a late store of the check timer hit it, and the extension map leads to the first entry
\* that declares an extension, in every state of every run. (apps_reload and everything around it.)
THEOREM TableIsTrueCorrect ==
  ASSUME UuidsApart
  PROVE  Spec => []TableIsTrue
  <1>1. Init => AInv
    BY InitAInv
  <1>2. AInv /\ [Next]_vars => AInv'
    BY NextKeepsAInv
  <1>3. AInv => TableIsTrue
    BY AInvTrue
  <1> QED
    BY <1>1, <1>2, <1>3, PTL DEF Spec
=============================================================================
