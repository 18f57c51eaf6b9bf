---------------------------- MODULE VtunerSession ----------------------------
(***************************************************************************)
(* The connections of the virtual tuner: one client device that is opened, *)
(* used and closed again and again, and the server that listens for it     *)
(* (vtuner_client.c, vtuner_server.c).  An open makes two connections, one *)
(* for requests and one for data, that the server accepts one after the    *)
(* other and hands to two threads; the thread that ends last frees the     *)
(* context.  Connections are reliable and ordered, and may break; the      *)
(* server may end at any time.                                             *)
(*                                                                         *)
(* Opens are numbered, and so are the two connections of each.             *)
(*                                                                         *)
(*   conn[t][k]   connection of kind t of open k: whether each end is      *)
(*                open, what is under way to the server and to the client  *)
(*   backlog[t]   connections not yet accepted                             *)
(*   lpc, f_ctrl  vtuners_listen_worker()                                  *)
(*   up           the server process runs                                  *)
(*   ctx          the server's contexts: the connections of each, its two  *)
(*                threads, fd_control and fd_data, whether it is freed,    *)
(*                the request in hand, the data sent so far                *)
(*   k, cpc       the client: which open it is in, and how far             *)
(*   rd_message, ppc, buffer_rem, rpc   its poll thread and its reader     *)
(*   io           its ioctl under way, and the answer it took (history)    *)
(*   nreq, taken  requests so far, data packets taken (history)            *)
(***************************************************************************)
EXTENDS Integers, Sequences, FiniteSets

CONSTANTS
    MaxOpens, MaxReqs, MaxData,     \* bounds: opens, requests, data packets per open
    PacketSize                      \* bytes of a packet, read in parts by the user

ASSUME SessionAssumption == {MaxOpens, MaxReqs, MaxData, PacketSize} \subseteq Nat \ {0}

VARIABLES conn, backlog, lpc, f_ctrl, up, ctx, k, cpc, rd_message, buffer_rem, rpc, ppc, io, nreq, taken

server == <<lpc, f_ctrl, up, ctx>>
client == <<k, cpc, rd_message, buffer_rem, rpc, ppc, io, nreq, taken>>
vars == <<conn, backlog, server, client>>

Opens == 1..MaxOpens
Types == {"ctrl", "data"}
NoConn == [c |-> FALSE, s |-> FALSE, toS |-> <<>>, toC |-> <<>>]
NoCtx == [ctrl |-> 0, data |-> 0, control |-> "none", writer |-> "none",
          fd_control |-> FALSE, fd_data |-> FALSE, freed |-> FALSE, req |-> 0, sent |-> 0]
NoIo == [state |-> "none", req |-> 0, answer |-> 0]

Init ==
    /\ conn = [t \in Types |-> [i \in Opens |-> NoConn]]
    /\ backlog = [t \in Types |-> <<>>]
    /\ lpc = "accept" /\ f_ctrl = 0 /\ up = TRUE
    /\ ctx = [i \in Opens |-> NoCtx]
    /\ k = 0 /\ cpc = "closed" /\ rd_message = 0 /\ buffer_rem = 0 /\ rpc = "none" /\ ppc = "none"
    /\ io = NoIo /\ nreq = 0 /\ taken = 0

(* A connection that an end has not closed, but the other has. *)
Waiting(t, i) == \E n \in 1..Len(backlog[t]) : backlog[t][n] = i
Alive(t, i) == conn[t][i].c /\ (conn[t][i].s \/ Waiting(t, i))

-----------------------------------------------------------------------------
(* The client. *)

(* vtunerc_open(): connect() is done when the connection is in the backlog *)
(* of the server, which is full with one that is not accepted.             *)
Connect(t) ==
    /\ conn' = [conn EXCEPT ![t][k'] = [@ EXCEPT !.c = TRUE]]
    /\ backlog' = [backlog EXCEPT ![t] = Append(@, k')]

vtunerc_open ==
    /\ cpc = "closed" /\ k < MaxOpens
    /\ \/ /\ up /\ Len(backlog["ctrl"]) < 1
          /\ k' = k + 1 /\ cpc' = "opening"
          /\ Connect("ctrl")
          /\ rd_message' = 0 /\ buffer_rem' = 0 /\ taken' = 0
       \/ k' = k + 1 /\ UNCHANGED <<conn, backlog, cpc, rd_message, buffer_rem, taken>>
    /\ UNCHANGED <<server, rpc, ppc, io, nreq>>

OpenDataMutant ==
    /\ cpc = "opening" /\ k' = k
    /\ \/ /\ up /\ Len(backlog["data"]) < 1
          /\ Connect("data")
          /\ cpc' = "open" /\ ppc' = "run"
       \/ cpc' = "closed" /\ UNCHANGED <<conn, backlog, ppc>>
    /\ UNCHANGED <<server, rd_message, buffer_rem, rpc, io, nreq, taken>>
OpenData ==
    /\ cpc = "opening" /\ k' = k
    /\ \/ /\ up /\ Len(backlog["data"]) < 1
          /\ Connect("data")
          /\ cpc' = "open" /\ ppc' = "run"
       \/ /\ conn' = [conn EXCEPT !["ctrl"][k].c = FALSE]
          /\ cpc' = "closed"
          /\ UNCHANGED <<backlog, ppc>>
    /\ UNCHANGED <<server, rd_message, buffer_rem, rpc, io, nreq, taken>>

(* vtunerc_do_message(): write, then wait for the answer. *)
SendRequest ==
    /\ cpc = "open" /\ io.state = "none" /\ nreq < MaxReqs
    /\ nreq' = nreq + 1
    /\ IF Alive("ctrl", k)
       THEN /\ io' = [state |-> "wait", req |-> nreq + 1, answer |-> 0]
            /\ conn' = [conn EXCEPT !["ctrl"][k].toS = Append(@, nreq + 1)]
       ELSE io' = NoIo /\ UNCHANGED conn
    /\ UNCHANGED <<backlog, server, k, cpc, rd_message, buffer_rem, rpc, ppc, taken>>

TakeAnswer ==
    /\ io.state = "wait"
    /\ \/ /\ conn["ctrl"][k].toC # <<>>
          /\ io' = [state |-> "none", req |-> io.req, answer |-> Head(conn["ctrl"][k].toC)]
          /\ conn' = [conn EXCEPT !["ctrl"][k].toC = Tail(@)]
       \/ /\ conn["ctrl"][k].toC = <<>> /\ ~Alive("ctrl", k)
          /\ io' = NoIo /\ UNCHANGED conn
    /\ UNCHANGED <<backlog, server, k, cpc, rd_message, buffer_rem, rpc, ppc, nreq, taken>>

(* vtunerc_read(): vtunerc_do_peer_read() for a blocking call, or when the *)
(* poll thread has seen data, fills an empty buffer; then a part of it is  *)
(* copied.                                                                 *)
Part(full, len) == full - (IF len < full THEN len ELSE full)

vtunerc_read(block, len) ==
    /\ cpc = "open" /\ rpc = "none"
    /\ IF (block \/ rd_message = 1) /\ buffer_rem = 0
       THEN rpc' = (IF block THEN "block" ELSE "nonblock") /\ UNCHANGED buffer_rem
       ELSE buffer_rem' = Part(buffer_rem, len) /\ UNCHANGED rpc
    /\ UNCHANGED <<conn, backlog, server, k, cpc, rd_message, ppc, io, nreq, taken>>

vtunerc_do_peer_read(len) ==
    /\ rpc # "none"
    /\ \/ /\ conn["data"][k].toC # <<>>
          /\ conn' = [conn EXCEPT !["data"][k].toC = Tail(@)]
          /\ taken' = Head(conn["data"][k].toC)
          /\ buffer_rem' = Part(PacketSize, len)
          /\ rd_message' = IF rd_message = 1 THEN 0 ELSE rd_message
       \/ /\ conn["data"][k].toC = <<>> /\ ~Alive("data", k)
          /\ UNCHANGED <<conn, taken, buffer_rem, rd_message>>
    /\ rpc' = "none"
    /\ UNCHANGED <<backlog, server, k, cpc, ppc, io, nreq>>

(* vtunerc_do_peer_poll(): between poll() and what it does about the       *)
(* result, readers go on.                                                  *)
PollLeaves == -1

PollThread ==
    /\ \/ /\ ppc = "run" /\ cpc = "closing"
          /\ ppc' = "none" /\ rd_message' = PollLeaves
       \/ /\ ppc = "run" /\ cpc # "closing"
          /\ conn["data"][k].toC # <<>> \/ ~Alive("data", k)
          /\ ppc' = "seen" /\ UNCHANGED rd_message
       \/ /\ ppc = "seen"
          /\ ppc' = "run" /\ rd_message' = IF rd_message = 0 THEN 1 ELSE rd_message
    /\ UNCHANGED <<conn, backlog, server, k, cpc, buffer_rem, rpc, io, nreq, taken>>

vtunerc_close ==
    /\ cpc = "open" /\ io.state = "none" /\ rpc = "none"
    /\ conn' = [t \in Types |-> [conn[t] EXCEPT ![k] = [@ EXCEPT !.c = FALSE, !.toC = <<>>]]]
    /\ cpc' = "closing"
    /\ UNCHANGED <<backlog, server, k, rd_message, buffer_rem, rpc, ppc, io, nreq, taken>>

CloseDone == rd_message = -1     \* vtunerc_close() waits for it

CloseEnd ==
    /\ cpc = "closing" /\ CloseDone
    /\ cpc' = "closed"
    /\ UNCHANGED <<conn, backlog, server, k, rd_message, buffer_rem, rpc, ppc, io, nreq, taken>>

-----------------------------------------------------------------------------
(* The server. *)

(* vtuners_listen_worker() *)
AcceptControl ==
    /\ up /\ lpc = "accept" /\ backlog["ctrl"] # <<>>
    /\ f_ctrl' = Head(backlog["ctrl"])
    /\ backlog' = [backlog EXCEPT !["ctrl"] = Tail(@)]
    /\ conn' = [conn EXCEPT !["ctrl"][f_ctrl'].s = TRUE]
    /\ lpc' = "data"
    /\ UNCHANGED <<up, ctx, client>>

(* The second accept(); linux_open() of the device may fail. *)
OpenFails == conn' = [conn EXCEPT !["ctrl"][f_ctrl].s = FALSE]

AcceptData ==
    /\ up /\ lpc = "data" /\ backlog["data"] # <<>>
    /\ LET i == Head(backlog["data"]) IN
       /\ backlog' = [backlog EXCEPT !["data"] = Tail(@)]
       /\ \/ /\ conn' = [conn EXCEPT !["data"][i].s = TRUE]
             /\ ctx' = [ctx EXCEPT ![f_ctrl] =
                   [NoCtx EXCEPT !.ctrl = f_ctrl, !.data = i, !.control = "read", !.writer = "run",
                                 !.fd_control = TRUE, !.fd_data = TRUE]]
          \/ OpenFails /\ UNCHANGED ctx
    /\ lpc' = "accept"
    /\ UNCHANGED <<f_ctrl, up, client>>

(* accept() of the data connection fails. *)
AcceptFails ==
    /\ up /\ lpc = "data"
    /\ conn' = [conn EXCEPT !["ctrl"][f_ctrl].s = FALSE]
    /\ lpc' = "accept"
    /\ UNCHANGED <<backlog, f_ctrl, up, ctx, client>>

(* The server process ends: its ends of all connections are closed, its    *)
(* backlogs are gone.                                                      *)
ServerEnds ==
    /\ up
    /\ up' = FALSE
    /\ conn' = [t \in Types |-> [i \in Opens |-> [conn[t][i] EXCEPT !.s = FALSE]]]
    /\ backlog' = [t \in Types |-> <<>>]
    /\ ctx' = [i \in Opens |-> [ctx[i] EXCEPT !.control = "none", !.writer = "none", !.freed = TRUE]]
    /\ UNCHANGED <<lpc, f_ctrl, client>>

(* alarm(4) around the second accept(): no handler is installed for the    *)
(* signal, so it ends the process.                                         *)
Alarm == lpc = "data" /\ backlog["data"] = <<>> /\ ServerEnds

(* vtuners_control_thread() *)
ReadRequest(i) ==
    LET c == ctx[i].ctrl IN
    /\ ctx[i].control = "read"
    /\ \/ /\ conn["ctrl"][c].toS # <<>>
          /\ ctx' = [ctx EXCEPT ![i].control = "answer", ![i].req = Head(conn["ctrl"][c].toS)]
          /\ conn' = [conn EXCEPT !["ctrl"][c].toS = Tail(@)]
       \/ /\ conn["ctrl"][c].toS = <<>> /\ ~conn["ctrl"][c].c
          /\ ctx' = [ctx EXCEPT ![i].control = "end"]
          /\ UNCHANGED conn
    /\ UNCHANGED <<backlog, lpc, f_ctrl, up, client>>

Answer(r) == <<r>>

WriteAnswer(i) ==
    LET c == ctx[i].ctrl IN
    /\ ctx[i].control = "answer"
    /\ IF conn["ctrl"][c].c
       THEN /\ conn' = [conn EXCEPT !["ctrl"][c].toC = @ \o Answer(ctx[i].req)]
            /\ ctx' = [ctx EXCEPT ![i].control = "read"]
       ELSE ctx' = [ctx EXCEPT ![i].control = "end"] /\ UNCHANGED conn
    /\ UNCHANGED <<backlog, lpc, f_ctrl, up, client>>

(* The last to leave closes the device and frees the context. *)
LastMutant(other) == TRUE
Last(other) == ~other

ControlEnds(i) ==
    /\ ctx[i].control = "end"
    /\ conn' = [conn EXCEPT !["ctrl"][ctx[i].ctrl].s = FALSE]
    /\ ctx' = [ctx EXCEPT ![i].control = "none", ![i].fd_control = FALSE,
                          ![i].freed = @ \/ Last(ctx[i].fd_data)]
    /\ UNCHANGED <<backlog, lpc, f_ctrl, up, client>>

(* vtuners_writer_thread(): data of the device goes to the client, until   *)
(* the control connection is gone or a write fails.                        *)
WriterLoopMutant(i) == TRUE
WriterLoop(i) == ctx[i].fd_control

PacketMutant(q, n) == <<n>>
Packet(q, n) == Append(q, n)

WriteData(i) ==
    LET d == ctx[i].data IN
    /\ ctx[i].writer = "run" /\ WriterLoop(i) /\ ctx[i].sent < MaxData
    /\ IF conn["data"][d].c
       THEN /\ conn' = [conn EXCEPT !["data"][d].toC = Packet(@, ctx[i].sent + 1)]
            /\ ctx' = [ctx EXCEPT ![i].sent = @ + 1]
       ELSE ctx' = [ctx EXCEPT ![i].writer = "end"] /\ UNCHANGED conn
    /\ UNCHANGED <<backlog, lpc, f_ctrl, up, client>>

WriterStops(i) ==
    /\ ctx[i].writer = "run" /\ ~WriterLoop(i)
    /\ ctx' = [ctx EXCEPT ![i].writer = "end"]
    /\ UNCHANGED <<conn, backlog, lpc, f_ctrl, up, client>>

WriterEnds(i) ==
    /\ ctx[i].writer = "end"
    /\ conn' = [conn EXCEPT !["data"][ctx[i].data].s = FALSE]
    /\ ctx' = [ctx EXCEPT ![i].writer = "none", ![i].fd_data = FALSE,
                          ![i].freed = @ \/ Last(ctx[i].fd_control)]
    /\ UNCHANGED <<backlog, lpc, f_ctrl, up, client>>

Control(i) == ReadRequest(i) \/ WriteAnswer(i) \/ ControlEnds(i)
Writer(i) == WriteData(i) \/ WriterStops(i) \/ WriterEnds(i)
Listener == AcceptControl \/ AcceptData

Next ==
    \/ vtunerc_open \/ OpenData \/ SendRequest \/ TakeAnswer \/ PollThread
    \/ vtunerc_close \/ CloseEnd \/ \E len \in 1..PacketSize :
           vtunerc_do_peer_read(len) \/ \E block \in BOOLEAN : vtunerc_read(block, len)
    \/ Listener \/ AcceptFails \/ Alarm \/ ServerEnds
    \/ \E i \in Opens : Control(i) \/ Writer(i)

Spec == Init /\ [][Next]_vars

-----------------------------------------------------------------------------
(* A context is freed once, by the thread that leaves last: no thread that *)
(* still runs works on freed memory, whichever connection goes first.      *)
FreedLast ==
    \A i \in Opens : ctx[i].freed => ctx[i].control = "none" /\ ctx[i].writer = "none"
NothingLeft ==
    \A i \in Opens : ctx[i].ctrl # 0 /\ ctx[i].control = "none" /\ ctx[i].writer = "none"
                         => ctx[i].freed

(* The client frees its context after its poll thread has left it. *)
ClientFreedLast == cpc = "closed" => ppc = "none"

(* Contexts of the server are freed when no thread works on them and not   *)
(* kept then; vtunerc_close() frees its own after the poll thread has left *)
(* it.                                                                     *)
FreedOnce == FreedLast /\ NothingLeft /\ ClientFreedLast

(* The answer that an ioctl takes is the answer to its own request, also   *)
(* after connections were broken and opened again.                         *)
AnswerIsMine == io.answer # 0 => io.answer = io.req

(* Both connections of a context belong to the same open of the client,    *)
(* or to two of which the first has been given up.                         *)
PairedOrGivenUp ==
    \A i \in Opens : ctx[i].ctrl # ctx[i].data /\ ctx[i].fd_control
        => ~conn["ctrl"][ctx[i].ctrl].c \/ ~conn["data"][ctx[i].data].c

(* vtunerc_do_message() takes the answer to its own request, and           *)
(* vtuners_listen_worker() does not join connections of two live opens.    *)
AnswersPaired == AnswerIsMine /\ PairedOrGivenUp

(* An ioctl ends, whatever the server does. *)
IoctlEnds == io.state = "wait" ~> io.state = "none"

(* When the client has closed the device, the server frees the context. *)
SessionEnds ==
    \A i \in Opens : (cpc = "closing" /\ ctx[i].ctrl = k) ~> (ctx[i].freed \/ ctx[i].ctrl = 0)

(* A close comes back. *)
CloseReturns == cpc = "closing" ~> cpc = "closed"

(* What the user reads is what the device gave to the server, in order and *)
(* nothing twice, within one open.                                         *)
DataInOrder == [][taken' # taken => taken' \in {0, taken + 1}]_vars
=============================================================================
