----------------------------- MODULE IpcServer -----------------------------
(***************************************************************************)
(* The epoll loop of apps/ipc_server.c and the dispatch of                 *)
(* apps/ipc_handler.c.  Sockets keep message boundaries (SOCK_SEQPACKET).  *)
(* A connection is a file descriptor: the kernel gives the lowest free     *)
(* one, so that a descriptor closed in the middle of a batch of events may *)
(* be another client's before the batch is over.                           *)
(*                                                                         *)
(* Of the handlers it has what they answer and the blocking pushes they end  *)
(* in, to the LVGL thread or to the PRTS tick.  The UI session is in        *)
(* UiModal, the transition in Prts.                                        *)
(***************************************************************************)
EXTENDS Integers, Sequences, FiniteSets, SequencesExt

CONSTANTS
  Clients,    \* programs that connect, each once
  NoClient,
  Scripts,    \* bound: what one of them may send, in order
  Earlier,    \* what clients who have left again may have queued for the LVGL thread
  HelperCap,  \* UI_IPC_HELPER_QUEUE_CAPACITY
  PrtsCap     \* PRTS_REQ_QUEUE_CAPACITY

Fds == 1..Cardinality(Clients)

UiTypes == {"warning", "get_screen", "set_screen", "force_dispimg"}
PrtsTypes == {"get_status", "set_operator", "get_operator", "set_blocked", "reload_assets"}
SettingsTypes == {"get_settings", "set_settings"}
PlayerTypes == {"get_video", "set_video"}
OverlayTypes == {"transition", "transition_video"}
UixTypes == {"uix_confirm", "uix_usb", "uix_poll", "uix_cancel"}
Known == UiTypes \cup PrtsTypes \cup SettingsTypes \cup PlayerTypes \cup OverlayTypes
         \cup UixTypes \cup {"exit", "reload_list"}

\* calculate_ipc_req_size, calculate_ipc_resp_size_by_req: only whether something
\* follows the type.
ReqSize(type) ==
  IF type \in {"get_screen", "get_status", "get_settings", "get_video", "reload_assets", "reload_list"}
     \/ type \notin Known
  THEN "bare" ELSE "data"
RespSize(type) ==
  IF type \in {"get_screen", "get_status", "get_operator", "get_settings", "get_video",
               "uix_confirm", "uix_usb", "uix_poll"}
  THEN "data" ELSE "bare"

Requests == [type : STRING, size : {"bare", "data", "wrong", "huge"}, valid : BOOLEAN]

ASSUME IpcAssumption ==
  /\ IsFiniteSet(Clients)
  /\ Scripts \subseteq Seq(Requests)
  /\ Earlier \subseteq Seq(Known)
  /\ {HelperCap, PrtsCap} \subseteq Nat \ {0}
  /\ NoClient \notin Clients

VARIABLES
  client,   \* what each program is going to send, has sent and received
  backlog,  \* connections not yet accepted
  fd,       \* fd[f]: the client behind an open descriptor
  inbox,    \* inbox[c]: requests not yet read
  ipc,      \* the IPC thread
  helperq,  \* requests queued for the LVGL thread
  prtsq,    \* requests queued for the PRTS tick
  ipcRunning, \* ipc_running
  exitAsked \* a client asked the program to leave

ipcVars == <<client, backlog, fd, inbox, ipc, helperq, prtsq, ipcRunning, exitAsked>>

Answer(req, type, size) == [req |-> req, type |-> type, size |-> size]

IpcInit ==
  /\ \E script \in [Clients -> Scripts] :
       client = [c \in Clients |-> [at |-> "away", todo |-> script[c], sent |-> <<>>, got |-> <<>>]]
  /\ backlog = <<>>
  /\ fd = [f \in Fds |-> NoClient] /\ inbox = [c \in Clients |-> <<>>]
  /\ ipc = [pc |-> "wait", batch |-> <<>>]
  /\ helperq \in Earlier /\ prtsq = <<>>
  /\ ipcRunning = TRUE /\ exitAsked = FALSE

----------------------------------------------------------------------------
\* Clients.

Connect(c) ==
  /\ client[c].at = "away" /\ client[c].todo # <<>> /\ ipc.pc # "ended"
  /\ client' = [client EXCEPT ![c].at = "here"]
  /\ backlog' = Append(backlog, c)
  /\ UNCHANGED <<fd, inbox, ipc, helperq, prtsq, ipcRunning, exitAsked>>

\* Also before the accept a request waits in the socket.
Send(c) ==
  /\ client[c].at = "here" /\ client[c].todo # <<>>
  /\ c \in Range(fd) \cup Range(backlog)
  /\ LET r == Head(client[c].todo)
     IN /\ inbox' = [inbox EXCEPT ![c] = Append(@, r)]
        /\ client' = [client EXCEPT ![c].sent = Append(@, r), ![c].todo = Tail(@)]
  /\ UNCHANGED <<backlog, fd, ipc, helperq, prtsq, ipcRunning, exitAsked>>

Leave(c) ==
  /\ client[c].at = "here"
  /\ client' = [client EXCEPT ![c].at = "left"]
  /\ UNCHANGED <<backlog, fd, inbox, ipc, helperq, prtsq, ipcRunning, exitAsked>>

----------------------------------------------------------------------------
\* The loop.

Left(f) == fd[f] # NoClient /\ client[fd[f]].at = "left"
Ready == {f \in Fds : fd[f] # NoClient /\ (inbox[fd[f]] # <<>> \/ Left(f))}
Event(f) == [fd |-> f, hup |-> Left(f), of |-> fd[f]]
Listen == [fd |-> 0, hup |-> FALSE, of |-> NoClient]

Restart == [pc |-> "wait", batch |-> <<>>]
NextEvent(i) == [pc |-> "event", batch |-> Tail(i.batch)]

\* epoll_wait returns what is ready, in any order.
EpollWait ==
  /\ ipc.pc = "wait" /\ ipcRunning
  /\ Ready # {} \/ backlog # <<>>
  /\ \E s \in SetToSeqs(Ready) : \E k \in 0..Len(s) :
       LET evs == [j \in DOMAIN s |-> Event(s[j])]
       IN ipc' = [pc |-> "event",
                  batch |-> IF backlog = <<>> THEN evs ELSE InsertAt(evs, k + 1, Listen)]
  /\ UNCHANGED <<client, backlog, fd, inbox, helperq, prtsq, ipcRunning, exitAsked>>

\* The test of ipc_running at the head of the loop (at the latest a second later).
IpcEnds ==
  /\ ipc.pc = "wait" /\ ~ipcRunning
  /\ ipc' = [pc |-> "ended", batch |-> <<>>]
  /\ UNCHANGED <<client, backlog, fd, inbox, helperq, prtsq, ipcRunning, exitAsked>>

BatchEnd ==
  /\ ipc.pc = "event" /\ ipc.batch = <<>>
  /\ ipc' = Restart
  /\ UNCHANGED <<client, backlog, fd, inbox, helperq, prtsq, ipcRunning, exitAsked>>

\* accept4 until there is nobody left.
LowestFree == CHOOSE f \in Fds : fd[f] = NoClient /\ \A g \in Fds : g < f => fd[g] # NoClient
Accept ==
  /\ ipc.pc = "event" /\ ipc.batch # <<>> /\ Head(ipc.batch).fd = 0
  /\ IF backlog = <<>>
     THEN ipc' = NextEvent(ipc) /\ UNCHANGED <<backlog, fd>>
     ELSE /\ fd' = [fd EXCEPT ![LowestFree] = Head(backlog)]
          /\ backlog' = Tail(backlog)
          /\ UNCHANGED ipc
  /\ UNCHANGED <<client, inbox, helperq, prtsq, ipcRunning, exitAsked>>

\* close_fd.  What was not read is gone.
Close(f) == fd' = [fd EXCEPT ![f] = NoClient] /\ inbox' = [inbox EXCEPT ![fd[f]] = <<>>]

\* A hang-up closes at once, also when requests are waiting.
HangUp ==
  /\ ipc.pc = "event" /\ ipc.batch # <<>> /\ Head(ipc.batch).fd # 0 /\ Head(ipc.batch).hup
  /\ Close(Head(ipc.batch).fd)
  /\ ipc' = NextEvent(ipc)
  /\ UNCHANGED <<client, backlog, helperq, prtsq, ipcRunning, exitAsked>>

\* recvmsg until there is nothing: EAGAIN, or the peer has closed.
Drained ==
  /\ ipc.pc = "event" /\ ipc.batch # <<>> /\ Head(ipc.batch).fd # 0 /\ ~Head(ipc.batch).hup
  /\ LET f == Head(ipc.batch).fd
     IN /\ inbox[fd[f]] = <<>>
        /\ IF Left(f) THEN Close(f) ELSE UNCHANGED <<fd, inbox>>
  /\ ipc' = NextEvent(ipc)
  /\ UNCHANGED <<client, backlog, helperq, prtsq, ipcRunning, exitAsked>>

\* Mutant: the length is not compared.
RefusalAnyLength(r) ==
  IF r.size = "huge" THEN "too_long"
  ELSE IF r.type \notin Known THEN "unknown"
  ELSE IF ~r.valid THEN "invalid_request"
  ELSE "ok"

\* What a handler may answer, and the pushes it makes before.  A request is valid if
\* the index, the path or the transition in it is, and no session is in the way of it.
Ok(pushes) == [res |-> "ok", todo |-> pushes]
No(res) == [res |-> res, todo |-> <<>>]
Posted(pushes) == {Ok(pushes), No("nomem")}
IfValid(r, outcomes) == IF r.valid THEN outcomes ELSE {No("invalid_request")}

\* Warnings have a queue of their own (UiModal).
HandleUi(r) == IF r.type \in {"set_screen", "force_dispimg"} THEN Posted(<<"helper">>) ELSE {Ok(<<>>)}
HandlePrts(r) ==
  CASE r.type = "set_operator" -> IfValid(r, {Ok(<<"prts">>)})
    [] r.type = "get_operator" -> IfValid(r, {Ok(<<>>)})
    [] r.type = "reload_assets" -> Posted(<<"helper", "prts">>)
    [] OTHER -> {Ok(<<>>)}
HandleReloadList(r) == Posted(<<"helper">>)
HandlePlayer(r) == IF r.type = "get_video" THEN {Ok(<<>>)} ELSE IfValid(r, {Ok(<<>>)})
\* The abort comes before anything is refused (Prts has it).
HandleOverlay(r) == {No("nomem")} \cup IfValid(r, {Ok(<<>>)})
HandleUix(r) ==
  CASE r.type \in {"uix_confirm", "uix_usb"} ->
         IF r.valid THEN Posted(<<"helper">>) ELSE {No("state_conflict")}
    [] r.type = "uix_cancel" /\ r.valid -> Posted(<<"helper">>)
    [] OTHER -> {Ok(<<>>)}

Handle(r) ==
  CASE r.type \in UiTypes -> HandleUi(r)
    [] r.type \in PrtsTypes -> HandlePrts(r)
    [] r.type = "reload_list" -> HandleReloadList(r)
    [] r.type \in PlayerTypes -> HandlePlayer(r)
    [] r.type \in OverlayTypes -> HandleOverlay(r)
    [] r.type \in UixTypes -> HandleUix(r)
    [] r.type \in SettingsTypes \cup {"exit"} -> {Ok(<<>>)}
    [] OTHER -> {No("unknown")}

\* Mutant: the length is not compared.
DispatchAnyLength(r) == IF r.size = "huge" THEN {No("too_long")} ELSE Handle(r)

\* apps_ipc_handler; a truncated message is answered by the loop itself.
Dispatch(r) ==
  IF r.size = "huge" THEN {No("too_long")}
  ELSE IF r.size # ReqSize(r.type) THEN {No("length_mismatch")}
  ELSE Handle(r)

\* A request is read, and its handler runs up to its pushes.
Receive ==
  /\ ipc.pc = "event" /\ ipc.batch # <<>> /\ Head(ipc.batch).fd # 0 /\ ~Head(ipc.batch).hup
  /\ LET f == Head(ipc.batch).fd
         r == Head(inbox[fd[f]])
     IN /\ inbox[fd[f]] # <<>>
        /\ inbox' = [inbox EXCEPT ![fd[f]] = Tail(@)]
        /\ \E out \in Dispatch(r) :
             /\ ipc' = [pc |-> "push", batch |-> ipc.batch, req |-> r, res |-> out.res, todo |-> out.todo]
             /\ exitAsked' = (exitAsked \/ (out.res = "ok" /\ r.type = "exit"))
  /\ UNCHANGED <<client, backlog, fd, helperq, prtsq, ipcRunning>>

\* A push that waits for room.
Push ==
  /\ ipc.pc = "push" /\ ipc.todo # <<>>
  /\ CASE Head(ipc.todo) = "helper" ->
            Len(helperq) < HelperCap /\ helperq' = Append(helperq, ipc.req.type) /\ UNCHANGED prtsq
       [] OTHER ->
            Len(prtsq) < PrtsCap /\ prtsq' = Append(prtsq, ipc.req.type) /\ UNCHANGED helperq
  /\ ipc' = [ipc EXCEPT !.todo = Tail(@)]
  /\ UNCHANGED <<client, backlog, fd, inbox, ipcRunning, exitAsked>>

\* Mutant: a truncated message is refused and then handled all the same.
ReplyToo ==
  /\ ipc.pc = "push" /\ ipc.todo = <<>>
  /\ LET f == Head(ipc.batch).fd
         size == IF ipc.res = "ok" THEN RespSize(ipc.req.type) ELSE "bare"
     IN /\ client' = [client EXCEPT ![fd[f]].got = Append(@, Answer(ipc.req, ipc.res, size))]
        /\ ipc' = IF ipc.res = "too_long" THEN [ipc EXCEPT !.res = "length_mismatch"]
                  ELSE [pc |-> "event", batch |-> ipc.batch]
  /\ UNCHANGED <<backlog, fd, inbox, helperq, prtsq, ipcRunning, exitAsked>>

\* send; it fails when the peer is gone.
Reply ==
  /\ ipc.pc = "push" /\ ipc.todo = <<>>
  /\ LET f == Head(ipc.batch).fd
         size == IF ipc.res = "ok" THEN RespSize(ipc.req.type) ELSE "bare"
     IN IF Left(f) /\ ipc.res # "too_long"
        THEN Close(f) /\ ipc' = NextEvent(ipc) /\ UNCHANGED client
        ELSE /\ client' = [client EXCEPT ![fd[f]].got =
                             IF Left(f) THEN @ ELSE Append(@, Answer(ipc.req, ipc.res, size))]
             /\ ipc' = [pc |-> "event", batch |-> ipc.batch]
             /\ UNCHANGED <<fd, inbox>>
  /\ UNCHANGED <<backlog, helperq, prtsq, ipcRunning, exitAsked>>

IpcGoesOn ==
  EpollWait \/ IpcEnds \/ BatchEnd \/ Accept \/ HangUp \/ Drained \/ Receive \/ Push \/ Reply

\* The LVGL timer and the PRTS tick take one request.
HelperPops ==
  /\ helperq # <<>> /\ helperq' = Tail(helperq)
  /\ UNCHANGED <<client, backlog, fd, inbox, ipc, prtsq, ipcRunning, exitAsked>>
PrtsPops ==
  /\ prtsq # <<>> /\ prtsq' = Tail(prtsq)
  /\ UNCHANGED <<client, backlog, fd, inbox, ipc, helperq, ipcRunning, exitAsked>>

ClientActs == \E c \in Clients : Connect(c) \/ Leave(c) \/ Send(c)

----------------------------------------------------------------------------
\* Properties.

\* What a client gets are the answers to its own requests, each once, in the order
\* it sent them, also when descriptors are reused and several clients are served
\* in one batch.  Data follows only an "ok", exactly where the request's type
\* announces it: docs/ipc_reference.md has no other framing.
AnswersInOrder ==
  \A c \in Clients : \A k \in DOMAIN client[c].got :
    LET a == client[c].got[k]
    IN /\ k <= Len(client[c].sent) /\ a.req = client[c].sent[k]
       /\ a.size = IF a.type = "ok" THEN RespSize(a.req.type) ELSE "bare"
       /\ a.type = "ok" => a.req.size = ReqSize(a.req.type)
=============================================================================
