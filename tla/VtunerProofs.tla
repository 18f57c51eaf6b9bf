----------------------------- MODULE VtunerProofs -----------------------------
(***************************************************************************)
(* Proofs about VtunerSession, for every number of opens, requests and     *)
(* packets: contexts are freed once, by the last thread; an ioctl takes    *)
(* the answer to its own request; data is read in order.  And about        *)
(* VtunerMessages: what an ioctl takes arrives at the device, what it      *)
(* gives at the user.                                                      *)
(***************************************************************************)
EXTENDS VtunerSession, VtunerMessages, SequenceTheorems, TLAPS

-----------------------------------------------------------------------------
(* The inductive invariant. *)

Conns == [c : BOOLEAN, s : BOOLEAN, toS : Seq(Nat), toC : Seq(Nat)]
Contexts == [ctrl : 0..MaxOpens, data : 0..MaxOpens,
             control : {"none", "read", "answer", "end"}, writer : {"none", "run", "end"},
             fd_control : BOOLEAN, fd_data : BOOLEAN, freed : BOOLEAN, req : Nat, sent : Nat]

Table == [Types -> [Opens -> Conns]]

TypeOK ==
    /\ conn \in Table
    /\ backlog \in [Types -> Seq(Opens)]
    /\ lpc \in {"accept", "data"} /\ f_ctrl \in 0..MaxOpens /\ up \in BOOLEAN
    /\ ctx \in [Opens -> Contexts]
    /\ k \in 0..MaxOpens /\ cpc \in {"closed", "opening", "open", "closing"}
    /\ rd_message \in {-1, 0, 1} /\ buffer_rem \in 0..PacketSize
    /\ rpc \in {"none", "block", "nonblock"} /\ ppc \in {"none", "run", "seen"}
    /\ io \in [state : {"none", "wait"}, req : Nat, answer : Nat]
    /\ nreq \in Nat /\ taken \in Nat

(* Where the client is: who uses its context, and what is set up for an    *)
(* open that has one connection.                                           *)
ClientRight ==
    /\ cpc # "closed" => k \in Opens
    /\ cpc \in {"closed", "opening"} => ppc = "none"
    /\ cpc = "opening" => rd_message = 0 /\ taken = 0
    /\ ppc # "none" => rd_message # -1
    /\ rpc # "none" => cpc = "open"
    /\ io.state = "wait" => cpc = "open"

(* The client's ends of all connections but those of the present open are  *)
(* closed.                                                                 *)
OnlyThisOpen ==
    \A t \in Types, i \in Opens :
        conn[t][i].c <=> i = k /\ (cpc = "open" \/ (cpc = "opening" /\ t = "ctrl"))

(* No trace of an open that has not made its connection yet. *)
Fresh(t, i) == i > k \/ (i = k /\ cpc = "opening" /\ t = "data")

FreshOpens ==
    \A i \in Opens :
        /\ \A t \in Types : Fresh(t, i) => conn[t][i] = NoConn /\ ~Waiting(t, i)
        /\ Fresh("ctrl", i) => ctx[i].ctrl = 0 /\ i # f_ctrl
        /\ Fresh("data", i) => \A j \in Opens : ctx[j].data # i

(* A connection is accepted once. *)
BacklogRight ==
    /\ \A t \in Types : Len(backlog[t]) <= 1
    /\ ~up => \A t \in Types : backlog[t] = <<>>
    /\ \A i \in Opens : Waiting("ctrl", i) => ctx[i].ctrl = 0 /\ ~(lpc = "data" /\ f_ctrl = i)
    /\ \A i \in Opens : Waiting("data", i) => \A j \in Opens : ctx[j].data # i

ListenerRight ==
    up /\ lpc = "data" => f_ctrl \in Opens /\ conn["ctrl"][f_ctrl].s /\ ctx[f_ctrl].ctrl = 0

(* A context is numbered by its control connection, and its flags say      *)
(* which of its threads are there.                                         *)
ContextRight(i) ==
    /\ ctx[i].ctrl \in {0, i}
    /\ ctx[i].ctrl = 0 => ctx[i].data = 0 /\ ctx[i].control = "none" /\ ctx[i].writer = "none"
                            /\ ~ctx[i].fd_control
    /\ ctx[i].ctrl = 0 /\ up => ~ctx[i].freed
    /\ ctx[i].ctrl # 0 => ctx[i].data \in Opens
    /\ ~up => ctx[i].freed /\ ctx[i].control = "none" /\ ctx[i].writer = "none"
    /\ up /\ ctx[i].ctrl # 0 =>
          /\ ctx[i].fd_control <=> ctx[i].control # "none"
          /\ ctx[i].fd_data <=> ctx[i].writer # "none"
          /\ ctx[i].freed <=> ctx[i].control = "none" /\ ctx[i].writer = "none"
    /\ ctx[i].control # "none" => conn["ctrl"][i].s

ContextsRight == \A i \in Opens : ContextRight(i)

DataOfOne == \A i, j \in Opens : ctx[i].data = ctx[j].data /\ ctx[i].data # 0 => i = j

(* The request of an open is in one place: under way, in hand, or answered *)
(* and under way back.                                                     *)
OneRequest(toS, toC, busy, r) ==
    \/ toS = <<>> /\ toC = <<>> /\ (busy => r = io.req)
    \/ ~busy /\ toS = <<io.req>> /\ toC = <<>>
    \/ ~busy /\ toS = <<>> /\ toC = <<io.req>>

RequestRight ==
    /\ cpc = "opening" => conn["ctrl"][k].toS = <<>> /\ conn["ctrl"][k].toC = <<>>
    /\ cpc = "opening" => ctx[k].control # "answer"
    /\ cpc = "open" /\ io.state = "none" =>
          /\ conn["ctrl"][k].toC = <<>> /\ ctx[k].control # "answer"
          /\ Alive("ctrl", k) => conn["ctrl"][k].toS = <<>>
    /\ io.state = "wait" =>
          OneRequest(conn["ctrl"][k].toS, conn["ctrl"][k].toC, ctx[k].control = "answer", ctx[k].req)

(* What is under way to the client follows what it has read, up to what    *)
(* the writer has sent.                                                    *)
DataRight ==
    cpc = "open" =>
        /\ \A n \in 1..Len(conn["data"][k].toC) : conn["data"][k].toC[n] = taken + n
        /\ (\A i \in Opens : ctx[i].data # k) => conn["data"][k].toC = <<>> /\ taken = 0
        /\ \A i \in Opens : ctx[i].data = k => ctx[i].sent = taken + Len(conn["data"][k].toC)

IInv ==
    /\ TypeOK
    /\ ClientRight
    /\ OnlyThisOpen
    /\ FreshOpens
    /\ BacklogRight
    /\ ListenerRight
    /\ ContextsRight
    /\ DataOfOne
    /\ RequestRight
    /\ DataRight
    /\ AnswerIsMine
-----------------------------------------------------------------------------
(* What one step changes: a connection, or a context, and no other. *)

ConnChanged(t, i, q) ==
    /\ conn' \in Table /\ conn'[t][i] = q
    /\ \A u \in Types, j \in Opens : u # t \/ j # i => conn'[u][j] = conn[u][j]

CtxChanged(x, r) ==
    /\ ctx' \in [Opens -> Contexts] /\ ctx'[x] = r
    /\ \A j \in Opens : j # x => ctx'[j] = ctx[j]

(* The types of the state, one value at a time. *)
LEMMA Facts ==
    ASSUME TypeOK
    PROVE  /\ "ctrl" \in Types /\ "data" \in Types
           /\ Opens \subseteq Nat /\ 0 \notin Opens /\ 0..MaxOpens = Opens \cup {0}
           /\ conn \in Table /\ ctx \in [Opens -> Contexts]
           /\ \A t \in Types, i \in Opens :
                 /\ conn[t][i] \in Conns
                 /\ conn[t][i].c \in BOOLEAN /\ conn[t][i].s \in BOOLEAN
                 /\ conn[t][i].toS \in Seq(Nat) /\ conn[t][i].toC \in Seq(Nat)
           /\ \A i \in Opens :
                 /\ ctx[i] \in Contexts
                 /\ ctx[i].ctrl \in 0..MaxOpens /\ ctx[i].data \in 0..MaxOpens
                 /\ ctx[i].req \in Nat /\ ctx[i].sent \in Nat
           /\ \A t \in Types : backlog[t] \in Seq(Opens)
           /\ k \in Nat /\ taken \in Nat /\ nreq \in Nat /\ io.req \in Nat
<1>1. /\ "ctrl" \in Types /\ "data" \in Types
      /\ Opens \subseteq Nat /\ 0 \notin Opens /\ 0..MaxOpens = Opens \cup {0}
  BY SessionAssumption DEF Types, Opens
<1>2. conn \in Table /\ ctx \in [Opens -> Contexts] /\ \A t \in Types : backlog[t] \in Seq(Opens)
  BY DEF TypeOK
<1>3. \A t \in Types, i \in Opens : conn[t][i] \in Conns
  BY <1>2 DEF Table
<1>4. \A i \in Opens : ctx[i] \in Contexts
  BY <1>2
<1>5. \A q \in Conns : /\ q.c \in BOOLEAN /\ q.s \in BOOLEAN
                       /\ q.toS \in Seq(Nat) /\ q.toC \in Seq(Nat)
  BY DEF Conns
<1>6. \A r \in Contexts : /\ r.ctrl \in 0..MaxOpens /\ r.data \in 0..MaxOpens
                          /\ r.req \in Nat /\ r.sent \in Nat
  BY DEF Contexts
<1>7. k \in Nat /\ taken \in Nat /\ nreq \in Nat /\ io.req \in Nat
  BY SessionAssumption DEF TypeOK
<1> QED BY <1>1, <1>2, <1>3, <1>4, <1>5, <1>6, <1>7

LEMMA Nothing == <<>> \in Seq(Nat)
OBVIOUS

LEMMA NoConnFields ==
    /\ NoConn \in Conns /\ NoConn.c = FALSE /\ NoConn.s = FALSE
    /\ NoConn.toS = <<>> /\ NoConn.toC = <<>>
BY Nothing DEF NoConn, Conns

(* A queue of at most one. *)
LEMMA Short ==
    ASSUME NEW S, NEW s \in Seq(S), Len(s) <= 1, s # <<>>
    PROVE  /\ Len(s) = 1 /\ s[1] \in S /\ s = <<s[1]>>
           /\ Head(s) = s[1] /\ Tail(s) = <<>>
<1>0. Len(s) \in Nat /\ Len(s) # 0
  BY EmptySeq, LenProperties
<1>1. Len(s) = 1
  BY <1>0
<1>2. s[1] \in S /\ Head(s) = s[1] /\ Tail(s) \in Seq(S) /\ Len(Tail(s)) = 0
  BY <1>1
<1>3. s = <<s[1]>>
  BY <1>1
<1> QED BY <1>1, <1>2, <1>3, EmptySeq

-----------------------------------------------------------------------------
(* Steps of the server's threads and of the readers and callers of the     *)
(* client leave the opens as they are.                                     *)

LEMMA WaitingSame ==
    ASSUME backlog' = backlog
    PROVE  \A t \in Types, i \in Opens : Waiting(t, i)' <=> Waiting(t, i)
BY DEF Waiting

LEMMA OpenFrame ==
    ASSUME IInv, TypeOK', UNCHANGED <<k, cpc>>,
           \A t \in Types, i \in Opens : conn'[t][i].c <=> conn[t][i].c
    PROVE  OnlyThisOpen'
BY DEF IInv, OnlyThisOpen

LEMMA FreshFrame ==
    ASSUME IInv, TypeOK', UNCHANGED <<k, cpc, backlog, f_ctrl>>,
           \A t \in Types, i \in Opens : Fresh(t, i) => conn'[t][i] = conn[t][i],
           \A i \in Opens : ctx'[i].ctrl = ctx[i].ctrl /\ ctx'[i].data = ctx[i].data
    PROVE  FreshOpens'
<1>1. \A t \in Types, i \in Opens : Fresh(t, i)' <=> Fresh(t, i)
  BY DEF Fresh
<1>2. "ctrl" \in Types /\ "data" \in Types
  BY DEF Types
<1> QED BY <1>1, <1>2, WaitingSame DEF IInv, FreshOpens

LEMMA BacklogFrame ==
    ASSUME IInv, UNCHANGED <<backlog, up, lpc, f_ctrl>>,
           \A i \in Opens : ctx'[i].ctrl = ctx[i].ctrl /\ ctx'[i].data = ctx[i].data
    PROVE  BacklogRight' /\ DataOfOne'
<1>1. "ctrl" \in Types /\ "data" \in Types
  BY DEF Types
<1>2. BacklogRight'
  BY <1>1, WaitingSame DEF IInv, BacklogRight
<1>3. DataOfOne'
  BY DEF IInv, DataOfOne
<1> QED BY <1>2, <1>3

LEMMA ContextFrame ==
    ASSUME IInv, UNCHANGED server,
           \A i \in Opens : conn'["ctrl"][i].s <=> conn["ctrl"][i].s
    PROVE  ListenerRight' /\ ContextsRight'
BY DEF IInv, server, ListenerRight, ContextsRight, ContextRight

LEMMA RequestFrame ==
    ASSUME IInv, UNCHANGED <<k, io>>, cpc' = cpc \/ (cpc' \notin {"open", "opening"} /\ io.state = "none"),
           cpc # "closed" => /\ conn'["ctrl"][k].toS = conn["ctrl"][k].toS
                             /\ conn'["ctrl"][k].toC = conn["ctrl"][k].toC
                             /\ ctx'[k].control = "answer" <=> ctx[k].control = "answer"
                             /\ ctx[k].control = "answer" => ctx'[k].req = ctx[k].req
                             /\ Alive("ctrl", k)' => Alive("ctrl", k)
    PROVE  RequestRight'
BY DEF IInv, ClientRight, RequestRight, OneRequest

LEMMA DataFrame ==
    ASSUME IInv, UNCHANGED <<k, taken>>, cpc' = "open" => cpc = "open",
           cpc = "open" => conn'["data"][k].toC = conn["data"][k].toC,
           \A i \in Opens : /\ ctx'[i].data = ctx[i].data
                            /\ ctx[i].data = k => ctx'[i].sent = ctx[i].sent
    PROVE  DataRight'
<1> SUFFICES ASSUME cpc' = "open" PROVE DataRight'
  BY DEF DataRight
<1>1. cpc = "open" /\ conn'["data"][k].toC = conn["data"][k].toC
  OBVIOUS
<1>2. \A n \in 1..Len(conn["data"][k].toC) : conn["data"][k].toC[n] = taken + n
  BY <1>1 DEF IInv, DataRight
<1>3. (\A i \in Opens : ctx[i].data # k) => conn["data"][k].toC = <<>> /\ taken = 0
  BY <1>1 DEF IInv, DataRight
<1>4. \A i \in Opens : ctx[i].data = k => ctx[i].sent = taken + Len(conn["data"][k].toC)
  BY <1>1 DEF IInv, DataRight
<1>5. k' = k /\ taken' = taken
  OBVIOUS
<1>6. \A n \in 1..Len(conn'["data"][k'].toC) : conn'["data"][k'].toC[n] = taken' + n
  BY <1>1, <1>2, <1>5
<1>7. (\A i \in Opens : ctx'[i].data # k') => conn'["data"][k'].toC = <<>> /\ taken' = 0
  BY <1>1, <1>3, <1>5
<1>8. \A i \in Opens : ctx'[i].data = k' => ctx'[i].sent = taken' + Len(conn'["data"][k'].toC)
  BY <1>1, <1>4, <1>5
<1> QED BY <1>6, <1>7, <1>8 DEF DataRight

(* Steps of the two threads of a context. *)
LEMMA ThreadFrame ==
    ASSUME IInv, TypeOK', UNCHANGED <<backlog, lpc, f_ctrl, up, client>>,
           \A t \in Types, i \in Opens : conn'[t][i].c <=> conn[t][i].c,
           \A t \in Types, i \in Opens : Fresh(t, i) => conn'[t][i] = conn[t][i],
           \A i \in Opens : ctx'[i].ctrl = ctx[i].ctrl /\ ctx'[i].data = ctx[i].data
    PROVE  /\ ClientRight' /\ OnlyThisOpen' /\ FreshOpens' /\ BacklogRight'
           /\ DataOfOne' /\ AnswerIsMine'
<1>1. ClientRight' /\ AnswerIsMine'
  BY DEF IInv, client, ClientRight, AnswerIsMine
<1>2. UNCHANGED <<k, cpc>>
  BY DEF client
<1> QED BY <1>1, <1>2, OpenFrame, FreshFrame, BacklogFrame

(* Steps of the callers and readers of an open device. *)
LEMMA CallerFrame ==
    ASSUME IInv, TypeOK', UNCHANGED <<backlog, server, k, cpc>>,
           \A t \in Types, i \in Opens : /\ conn'[t][i].c <=> conn[t][i].c
                                         /\ conn'[t][i].s <=> conn[t][i].s,
           \A t \in Types, i \in Opens : Fresh(t, i) => conn'[t][i] = conn[t][i]
    PROVE  /\ OnlyThisOpen' /\ FreshOpens' /\ BacklogRight' /\ DataOfOne'
           /\ ListenerRight' /\ ContextsRight'
<1>1. /\ UNCHANGED <<up, lpc, f_ctrl>> /\ "ctrl" \in Types
      /\ \A i \in Opens : ctx'[i].ctrl = ctx[i].ctrl /\ ctx'[i].data = ctx[i].data
  BY DEF server, Types
<1>c. \A t \in Types, i \in Opens : conn'[t][i].c <=> conn[t][i].c
  OBVIOUS
<1>s. \A i \in Opens : conn'["ctrl"][i].s <=> conn["ctrl"][i].s
  BY <1>1
<1>2. OnlyThisOpen'
  BY <1>c, OpenFrame
<1>3. FreshOpens'
  BY <1>1, FreshFrame
<1>4. BacklogRight' /\ DataOfOne'
  BY <1>1, BacklogFrame
<1>5. ListenerRight' /\ ContextsRight'
  BY <1>s, ContextFrame
<1> QED BY <1>2, <1>3, <1>4, <1>5

(* Updates of the two tables. *)
LEMMA ConnChange ==
    ASSUME TypeOK, NEW t \in Types, NEW i \in Opens, NEW q \in Conns,
           conn' = [conn EXCEPT ![t] = [conn[t] EXCEPT ![i] = q]]
    PROVE  ConnChanged(t, i, q)
BY DEF TypeOK, Table, ConnChanged

LEMMA CtxChange ==
    ASSUME TypeOK, NEW x \in Opens, NEW r \in Contexts, ctx' = [ctx EXCEPT ![x] = r]
    PROVE  CtxChanged(x, r)
BY DEF TypeOK, CtxChanged

-----------------------------------------------------------------------------
(* The client while its device is open. *)

LEMMA SendRequestKeeps ==
    ASSUME IInv, SendRequest
    PROVE  IInv'
<1>1. /\ TypeOK /\ cpc = "open" /\ io.state = "none" /\ k \in Opens /\ nreq \in Nat
      /\ UNCHANGED <<backlog, server, k, cpc, rd_message, buffer_rem, rpc, ppc, taken>>
  BY DEF IInv, TypeOK, ClientRight, SendRequest
<1>2. conn["ctrl"][k].toC = <<>> /\ ctx[k].control # "answer"
  BY <1>1 DEF IInv, RequestRight
<1>3. ASSUME Alive("ctrl", k) PROVE IInv'
  <2> DEFINE q == [conn["ctrl"][k] EXCEPT !.toS = Append(conn["ctrl"][k].toS, nreq + 1)]
  <2>1. conn["ctrl"][k].toS = <<>>
    BY <1>1, <1>3 DEF IInv, RequestRight
  <2>2. /\ io' = [state |-> "wait", req |-> nreq + 1, answer |-> 0] /\ nreq' = nreq + 1
        /\ conn' = [conn EXCEPT !["ctrl"] = [conn["ctrl"] EXCEPT ![k] = q]]
    BY <1>3 DEF SendRequest
  <2>3. /\ q \in Conns /\ q.c = conn["ctrl"][k].c /\ q.s = conn["ctrl"][k].s
        /\ q.toS = <<nreq + 1>> /\ q.toC = <<>>
    <3>1. conn["ctrl"][k] \in Conns
      BY <1>1, Facts
    <3>2. Append(conn["ctrl"][k].toS, nreq + 1) = <<nreq + 1>> /\ <<nreq + 1>> \in Seq(Nat)
      BY <1>1, <2>1
    <3> QED BY <1>2, <3>1, <3>2 DEF Conns
  <2> HIDE DEF q
  <2>4. ConnChanged("ctrl", k, q)
    BY <1>1, <2>2, <2>3, ConnChange DEF Types
  <2>5. TypeOK'
    BY <1>1, <2>2, <2>4 DEF TypeOK, ConnChanged, server
  <2>6. /\ \A t \in Types, i \in Opens : /\ conn'[t][i].c <=> conn[t][i].c
                                         /\ conn'[t][i].s <=> conn[t][i].s
        /\ \A t \in Types, i \in Opens : Fresh(t, i) => conn'[t][i] = conn[t][i]
    BY <1>1, <2>3, <2>4 DEF ConnChanged, Fresh, Opens
  <2>7. /\ OnlyThisOpen' /\ FreshOpens' /\ BacklogRight' /\ DataOfOne'
        /\ ListenerRight' /\ ContextsRight'
    BY <1>1, <2>5, <2>6, CallerFrame
  <2>8. ClientRight' /\ AnswerIsMine'
    BY <1>1, <2>2 DEF IInv, ClientRight, AnswerIsMine
  <2>9. RequestRight'
    BY <1>1, <1>2, <2>2, <2>3, <2>4 DEF RequestRight, OneRequest, ConnChanged, server
  <2>10. DataRight'
    BY <1>1, <2>4, DataFrame DEF ConnChanged, server, Types
  <2> QED BY <2>5, <2>7, <2>8, <2>9, <2>10 DEF IInv
<1>4. ASSUME ~Alive("ctrl", k) PROVE IInv'
  <2>1. io' = NoIo /\ nreq' = nreq + 1 /\ conn' = conn
    BY <1>4 DEF SendRequest
  <2>2. TypeOK'
    BY <1>1, <2>1 DEF TypeOK, server, NoIo
  <2>3. /\ OnlyThisOpen' /\ FreshOpens' /\ BacklogRight' /\ DataOfOne'
        /\ ListenerRight' /\ ContextsRight'
    BY <1>1, <2>1, <2>2, CallerFrame
  <2>4. ClientRight' /\ AnswerIsMine'
    BY <1>1, <2>1 DEF IInv, ClientRight, AnswerIsMine, NoIo
  <2>5. ~Alive("ctrl", k)'
    BY <1>1, <1>4, <2>1 DEF Alive, Waiting
  <2>6. RequestRight'
    BY <1>1, <1>2, <2>1, <2>5 DEF RequestRight, server, NoIo
  <2>7. DataRight'
    BY <1>1, <2>1, DataFrame DEF server
  <2> QED BY <2>2, <2>3, <2>4, <2>6, <2>7 DEF IInv
<1> QED BY <1>3, <1>4

LEMMA TakeAnswerKeeps ==
    ASSUME IInv, TakeAnswer
    PROVE  IInv'
<1>1. /\ TypeOK /\ cpc = "open" /\ io.state = "wait" /\ k \in Opens
      /\ UNCHANGED <<backlog, server, k, cpc, rd_message, buffer_rem, rpc, ppc, nreq, taken>>
  BY DEF IInv, ClientRight, TakeAnswer
<1>2. OneRequest(conn["ctrl"][k].toS, conn["ctrl"][k].toC, ctx[k].control = "answer", ctx[k].req)
  BY <1>1 DEF IInv, RequestRight
<1>3. ASSUME conn["ctrl"][k].toC # <<>> PROVE IInv'
  <2> DEFINE q == [conn["ctrl"][k] EXCEPT !.toC = Tail(conn["ctrl"][k].toC)]
  <2>1. /\ conn["ctrl"][k].toS = <<>> /\ conn["ctrl"][k].toC = <<io.req>>
        /\ ctx[k].control # "answer" /\ io.req \in Nat
    BY <1>1, <1>2, <1>3, Facts DEF OneRequest
  <2>2. Head(conn["ctrl"][k].toC) = io.req /\ Tail(conn["ctrl"][k].toC) = <<>>
    BY <2>1
  <2>3. /\ io' = [state |-> "none", req |-> io.req, answer |-> io.req]
        /\ conn' = [conn EXCEPT !["ctrl"] = [conn["ctrl"] EXCEPT ![k] = q]]
    BY <1>3, <2>2 DEF TakeAnswer
  <2>4. /\ q \in Conns /\ q.c = conn["ctrl"][k].c /\ q.s = conn["ctrl"][k].s
        /\ q.toS = <<>> /\ q.toC = <<>>
    <3>1. conn["ctrl"][k] \in Conns
      BY <1>1, Facts
    <3> QED BY <2>1, <2>2, <3>1 DEF Conns
  <2> HIDE DEF q
  <2>5. ConnChanged("ctrl", k, q)
    BY <1>1, <2>3, <2>4, ConnChange DEF Types
  <2>6. TypeOK'
    BY <1>1, <2>1, <2>3, <2>5 DEF TypeOK, ConnChanged, server
  <2>7. /\ \A t \in Types, i \in Opens : /\ conn'[t][i].c <=> conn[t][i].c
                                         /\ conn'[t][i].s <=> conn[t][i].s
        /\ \A t \in Types, i \in Opens : Fresh(t, i) => conn'[t][i] = conn[t][i]
    BY <1>1, <2>4, <2>5 DEF ConnChanged, Fresh, Opens
  <2>8. /\ OnlyThisOpen' /\ FreshOpens' /\ BacklogRight' /\ DataOfOne'
        /\ ListenerRight' /\ ContextsRight'
    BY <1>1, <2>6, <2>7, CallerFrame
  <2>9. ClientRight' /\ AnswerIsMine'
    BY <1>1, <2>3 DEF IInv, ClientRight, AnswerIsMine
  <2>10. RequestRight'
    BY <1>1, <2>1, <2>3, <2>4, <2>5 DEF RequestRight, ConnChanged, server
  <2>11. DataRight'
    BY <1>1, <2>5, DataFrame DEF ConnChanged, server, Types
  <2> QED BY <2>6, <2>8, <2>9, <2>10, <2>11 DEF IInv
<1>4. ASSUME conn["ctrl"][k].toC = <<>> PROVE IInv'
  <2>1. io' = NoIo /\ conn' = conn /\ ~Alive("ctrl", k)
    BY <1>4 DEF TakeAnswer
  <2>2. TypeOK'
    BY <1>1, <2>1 DEF TypeOK, server, NoIo
  <2>3. /\ OnlyThisOpen' /\ FreshOpens' /\ BacklogRight' /\ DataOfOne'
        /\ ListenerRight' /\ ContextsRight'
    BY <1>1, <2>1, <2>2, CallerFrame
  <2>4. ClientRight' /\ AnswerIsMine'
    BY <1>1, <2>1 DEF IInv, ClientRight, AnswerIsMine, NoIo
  <2>5. ~Alive("ctrl", k)'
    BY <1>1, <2>1 DEF Alive, Waiting
  <2>6. conn["ctrl"][k].c
    BY <1>1 DEF IInv, OnlyThisOpen, Types
  <2>7. ctx[k].control # "answer"
    BY <1>1, <2>1, <2>6 DEF IInv, ContextsRight, ContextRight, Alive
  <2>8. RequestRight'
    BY <1>1, <1>4, <2>1, <2>5, <2>7 DEF RequestRight, server, NoIo
  <2>9. DataRight'
    BY <1>1, <2>1, DataFrame DEF server
  <2> QED BY <2>2, <2>3, <2>4, <2>8, <2>9 DEF IInv
<1> QED BY <1>3, <1>4

LEMMA ReadKeeps ==
    ASSUME IInv, NEW len \in 1..PacketSize, NEW block \in BOOLEAN, vtunerc_read(block, len)
    PROVE  IInv'
<1>1. /\ TypeOK /\ cpc = "open" /\ rpc = "none"
      /\ UNCHANGED <<conn, backlog, server, k, cpc, rd_message, ppc, io, nreq, taken>>
      /\ rpc' \in {"none", "block", "nonblock"}
  BY DEF IInv, vtunerc_read
<1>2. buffer_rem' \in 0..PacketSize
  BY <1>1, SessionAssumption DEF TypeOK, vtunerc_read, Part
<1>3. TypeOK'
  BY <1>1, <1>2 DEF TypeOK, server
<1>4. /\ OnlyThisOpen' /\ FreshOpens' /\ BacklogRight' /\ DataOfOne'
      /\ ListenerRight' /\ ContextsRight'
  BY <1>1, <1>3, CallerFrame
<1>5. ClientRight' /\ AnswerIsMine'
  BY <1>1 DEF IInv, ClientRight, AnswerIsMine
<1>6. Alive("ctrl", k)' <=> Alive("ctrl", k)
  BY <1>1 DEF Alive, Waiting
<1>7. RequestRight'
  BY <1>1, <1>6, RequestFrame DEF server
<1>8. DataRight'
  BY <1>1, DataFrame DEF server
<1> QED BY <1>3, <1>4, <1>5, <1>7, <1>8 DEF IInv

(* The packet that is read follows the one before it. *)
LEMMA ReadNext ==
    ASSUME IInv, cpc = "open", conn["data"][k].toC # <<>>
    PROVE  /\ Head(conn["data"][k].toC) = taken + 1
           /\ Tail(conn["data"][k].toC) \in Seq(Nat)
           /\ Len(Tail(conn["data"][k].toC)) = Len(conn["data"][k].toC) - 1
           /\ \A n \in 1..Len(Tail(conn["data"][k].toC)) :
                 Tail(conn["data"][k].toC)[n] = taken + 1 + n
<1>1. PICK s \in Seq(Nat) : s = conn["data"][k].toC
  BY Facts DEF IInv, ClientRight
<1>2. s # <<>> /\ taken \in Nat
  BY <1>1 DEF IInv, TypeOK
<1>3. \A n \in 1..Len(s) : s[n] = taken + n
  BY <1>1 DEF IInv, DataRight
<1>4. /\ Len(s) \in Nat /\ Len(s) >= 1 /\ Head(s) = s[1] /\ Tail(s) \in Seq(Nat)
      /\ Len(Tail(s)) = Len(s) - 1 /\ \A n \in 1..Len(Tail(s)) : Tail(s)[n] = s[n + 1]
  BY <1>2, HeadTailProperties, LenProperties, EmptySeq
<1>5. Head(s) = taken + 1
  BY <1>3, <1>4
<1>6. ASSUME NEW n \in 1..Len(Tail(s)) PROVE Tail(s)[n] = taken + 1 + n
  <2>1. n + 1 \in 1..Len(s)
    BY <1>4
  <2>2. s[n + 1] = taken + (n + 1)
    BY <1>3, <2>1
  <2> QED BY <1>2, <1>4, <2>2
<1> QED BY <1>1, <1>4, <1>5, <1>6

LEMMA PeerReadKeeps ==
    ASSUME IInv, NEW len \in 1..PacketSize, vtunerc_do_peer_read(len)
    PROVE  IInv'
<1>1. /\ TypeOK /\ cpc = "open" /\ k \in Opens /\ rpc' = "none"
      /\ UNCHANGED <<backlog, server, k, cpc, ppc, io, nreq>>
  BY DEF IInv, ClientRight, vtunerc_do_peer_read
<1>2. ASSUME conn["data"][k].toC # <<>> PROVE IInv'
  <2> DEFINE q == [conn["data"][k] EXCEPT !.toC = Tail(conn["data"][k].toC)]
  <2>1. /\ taken' = taken + 1 /\ rd_message' = (IF rd_message = 1 THEN 0 ELSE rd_message)
        /\ buffer_rem' = Part(PacketSize, len)
        /\ conn' = [conn EXCEPT !["data"] = [conn["data"] EXCEPT ![k] = q]]
    BY <1>1, <1>2, ReadNext DEF vtunerc_do_peer_read
  <2>2. /\ q \in Conns /\ q.c = conn["data"][k].c /\ q.s = conn["data"][k].s
        /\ q.toC = Tail(conn["data"][k].toC)
    <3>1. conn["data"][k] \in Conns
      BY <1>1, Facts
    <3>2. Tail(conn["data"][k].toC) \in Seq(Nat)
      BY <1>1, <1>2, ReadNext
    <3> QED BY <3>1, <3>2 DEF Conns
  <2> HIDE DEF q
  <2>3. ConnChanged("data", k, q)
    BY <1>1, <2>1, <2>2, ConnChange DEF Types
  <2>4. buffer_rem' \in 0..PacketSize /\ taken' \in Nat /\ rd_message' \in {-1, 0, 1}
    BY <1>1, <2>1, SessionAssumption DEF TypeOK, Part
  <2>5. TypeOK'
    BY <1>1, <2>3, <2>4 DEF TypeOK, ConnChanged, server
  <2>6. /\ \A t \in Types, i \in Opens : /\ conn'[t][i].c <=> conn[t][i].c
                                         /\ conn'[t][i].s <=> conn[t][i].s
        /\ \A t \in Types, i \in Opens : Fresh(t, i) => conn'[t][i] = conn[t][i]
    BY <1>1, <2>2, <2>3 DEF ConnChanged, Fresh, Opens
  <2>7. /\ OnlyThisOpen' /\ FreshOpens' /\ BacklogRight' /\ DataOfOne'
        /\ ListenerRight' /\ ContextsRight'
    BY <1>1, <2>5, <2>6, CallerFrame
  <2>8. ClientRight' /\ AnswerIsMine'
    BY <1>1, <2>1 DEF IInv, ClientRight, AnswerIsMine
  <2>9. conn'["ctrl"][k] = conn["ctrl"][k]
    BY <1>1, <2>3 DEF ConnChanged, Types
  <2>10. Alive("ctrl", k)' <=> Alive("ctrl", k)
    BY <1>1, <2>9 DEF Alive, Waiting
  <2>11. RequestRight'
    BY <1>1, <2>9, <2>10, RequestFrame DEF server
  <2>12. DataRight'
    <3>1. conn'["data"][k].toC = Tail(conn["data"][k].toC) /\ k' = k /\ ctx' = ctx
      BY <1>1, <2>2, <2>3 DEF ConnChanged, server
    <3>2. \A n \in 1..Len(conn'["data"][k'].toC) : conn'["data"][k'].toC[n] = taken' + n
      BY <1>1, <1>2, <2>1, <3>1, ReadNext
    <3>3. \E i \in Opens : ctx[i].data = k
      BY <1>1, <1>2 DEF IInv, DataRight
    <3>4. ASSUME NEW i \in Opens, ctx[i].data = k
          PROVE  ctx[i].sent = taken' + Len(conn'["data"][k].toC)
      <4>1. ctx[i].sent = taken + Len(conn["data"][k].toC)
        BY <1>1, <3>4 DEF IInv, DataRight
      <4>2. Len(conn["data"][k].toC) \in Nat /\ taken \in Nat
        BY <1>1, Facts, LenProperties
      <4>3. Len(conn'["data"][k].toC) = Len(conn["data"][k].toC) - 1
        BY <1>1, <1>2, <3>1, ReadNext
      <4> QED BY <2>1, <4>1, <4>2, <4>3
    <3> QED BY <3>1, <3>2, <3>3, <3>4 DEF DataRight
  <2> QED BY <2>5, <2>7, <2>8, <2>11, <2>12 DEF IInv
<1>3. ASSUME conn["data"][k].toC = <<>> PROVE IInv'
  <2>1. UNCHANGED <<conn, taken, buffer_rem, rd_message>>
    BY <1>3 DEF vtunerc_do_peer_read
  <2>2. TypeOK'
    BY <1>1, <2>1 DEF TypeOK, server
  <2>3. /\ OnlyThisOpen' /\ FreshOpens' /\ BacklogRight' /\ DataOfOne'
        /\ ListenerRight' /\ ContextsRight'
    BY <1>1, <2>1, <2>2, CallerFrame
  <2>4. ClientRight' /\ AnswerIsMine'
    BY <1>1, <2>1 DEF IInv, ClientRight, AnswerIsMine
  <2>5. Alive("ctrl", k)' <=> Alive("ctrl", k)
    BY <1>1, <2>1 DEF Alive, Waiting
  <2>6. RequestRight'
    BY <1>1, <2>1, <2>5, RequestFrame DEF server
  <2>7. DataRight'
    BY <1>1, <2>1, DataFrame DEF server
  <2> QED BY <2>2, <2>3, <2>4, <2>6, <2>7 DEF IInv
<1> QED BY <1>2, <1>3

LEMMA PollThreadKeeps ==
    ASSUME IInv, PollThread
    PROVE  IInv'
<1>1. TypeOK /\ UNCHANGED <<conn, backlog, server, k, cpc, buffer_rem, rpc, io, nreq, taken>>
  BY DEF IInv, PollThread
<1>2. TypeOK'
  BY <1>1 DEF TypeOK, PollThread, PollLeaves, server
<1>3. /\ OnlyThisOpen' /\ FreshOpens' /\ BacklogRight' /\ DataOfOne'
      /\ ListenerRight' /\ ContextsRight'
  BY <1>1, <1>2, CallerFrame
<1>4. ClientRight' /\ AnswerIsMine'
  BY <1>1 DEF IInv, ClientRight, AnswerIsMine, PollThread, PollLeaves
<1>5. Alive("ctrl", k)' <=> Alive("ctrl", k)
  BY <1>1 DEF Alive, Waiting
<1>6. RequestRight'
  BY <1>1, <1>5, RequestFrame DEF server
<1>7. DataRight'
  BY <1>1, DataFrame DEF server
<1> QED BY <1>2, <1>3, <1>4, <1>6, <1>7 DEF IInv

-----------------------------------------------------------------------------
(* The client opens and closes its device. *)

LEMMA CloseKeeps ==
    ASSUME IInv, vtunerc_close
    PROVE  IInv'
<1>1. /\ TypeOK /\ cpc = "open" /\ io.state = "none" /\ rpc = "none" /\ k \in Opens /\ cpc' = "closing"
      /\ UNCHANGED <<backlog, server, k, rd_message, buffer_rem, rpc, ppc, io, nreq, taken>>
  BY DEF IInv, ClientRight, vtunerc_close
<1>2. /\ conn' \in Table
      /\ \A t \in Types, i \in Opens : i # k => conn'[t][i] = conn[t][i]
      /\ \A t \in Types : conn'[t][k].c = FALSE /\ conn'[t][k].s = conn[t][k].s
  <2>1. \A t \in Types : [conn[t][k] EXCEPT !.c = FALSE, !.toC = <<>>] \in Conns
    <3>1. \A t \in Types : conn[t][k] \in Conns
      BY <1>1, Facts
    <3>2. \A e \in Conns : [e EXCEPT !.c = FALSE, !.toC = <<>>] \in Conns
      BY Nothing DEF Conns
    <3> QED BY <3>1, <3>2
  <2>2. \A t \in Types : conn[t] \in [Opens -> Conns]
    BY <1>1 DEF TypeOK, Table
  <2>3. \A t \in Types : conn'[t] = [conn[t] EXCEPT ![k] = [conn[t][k] EXCEPT !.c = FALSE, !.toC = <<>>]]
    BY DEF vtunerc_close
  <2>4. \A t \in Types : conn'[t] \in [Opens -> Conns]
    <3> TAKE t \in Types
    <3>1. PICK e \in Conns : e = [conn[t][k] EXCEPT !.c = FALSE, !.toC = <<>>]
      BY <2>1
    <3>2. conn'[t] = [conn[t] EXCEPT ![k] = e] /\ conn[t] \in [Opens -> Conns]
      BY <2>2, <2>3, <3>1
    <3> QED BY <1>1, <3>2
  <2>5. conn' \in Table
    BY <2>4 DEF vtunerc_close, Table
  <2>6. \A t \in Types : conn'[t][k] = [conn[t][k] EXCEPT !.c = FALSE, !.toC = <<>>]
    BY <1>1, <2>2, <2>3
  <2>7. \A t \in Types : conn'[t][k].c = FALSE /\ conn'[t][k].s = conn[t][k].s
    BY <1>1, <2>6, Facts DEF Conns
  <2> QED BY <2>2, <2>3, <2>5, <2>7
<1>3. TypeOK'
  BY <1>1, <1>2 DEF TypeOK, server
<1>4. ClientRight' /\ AnswerIsMine'
  BY <1>1 DEF IInv, ClientRight, AnswerIsMine
<1>5. OnlyThisOpen'
  BY <1>1, <1>2 DEF IInv, OnlyThisOpen
<1>6. FreshOpens'
  <2>1. \A t \in Types, i \in Opens : Fresh(t, i)' => i # k /\ Fresh(t, i)
    BY <1>1 DEF Fresh, Opens
  <2> QED BY <1>1, <1>2, <2>1, WaitingSame DEF IInv, FreshOpens, server, Types
<1>7. BacklogRight' /\ DataOfOne'
  BY <1>1, BacklogFrame DEF server
<1>8. ListenerRight' /\ ContextsRight'
  BY <1>1, <1>2, ContextFrame DEF Types
<1>9. RequestRight' /\ DataRight'
  BY <1>1 DEF RequestRight, DataRight
<1> QED BY <1>3, <1>4, <1>5, <1>6, <1>7, <1>8, <1>9 DEF IInv

LEMMA CloseEndKeeps ==
    ASSUME IInv, CloseEnd
    PROVE  IInv'
<1>1. /\ TypeOK /\ cpc = "closing" /\ rd_message = -1 /\ cpc' = "closed"
      /\ UNCHANGED <<conn, backlog, server, k, rd_message, buffer_rem, rpc, ppc, io, nreq, taken>>
  BY DEF IInv, CloseEnd, CloseDone
<1>2. TypeOK'
  BY <1>1 DEF TypeOK, server
<1>3. ClientRight' /\ AnswerIsMine'
  BY <1>1 DEF IInv, ClientRight, AnswerIsMine
<1>4. OnlyThisOpen'
  BY <1>1 DEF IInv, OnlyThisOpen
<1>5. FreshOpens'
  <2>1. \A t \in Types, i \in Opens : Fresh(t, i)' <=> Fresh(t, i)
    BY <1>1 DEF Fresh
  <2> QED BY <1>1, <2>1, WaitingSame DEF IInv, FreshOpens, server, Types
<1>6. BacklogRight' /\ DataOfOne'
  BY <1>1, BacklogFrame DEF server
<1>7. ListenerRight' /\ ContextsRight'
  BY <1>1, ContextFrame
<1>8. RequestRight' /\ DataRight'
  BY <1>1, <1>3 DEF RequestRight, DataRight, ClientRight
<1> QED BY <1>2, <1>3, <1>4, <1>5, <1>6, <1>7, <1>8 DEF IInv

LEMMA OpenKeeps ==
    ASSUME IInv, vtunerc_open
    PROVE  IInv'
<1>1. /\ TypeOK /\ cpc = "closed" /\ k \in Nat /\ k' = k + 1 /\ k' \in Opens
      /\ ppc = "none" /\ rpc = "none" /\ io.state = "none"
      /\ UNCHANGED <<server, rpc, ppc, io, nreq>>
  <2>1. TypeOK /\ k \in Nat /\ k < MaxOpens /\ k' = k + 1 /\ MaxOpens \in Nat
    BY SessionAssumption, Facts DEF IInv, vtunerc_open
  <2>2. k' \in Opens
    BY <2>1 DEF Opens
  <2> QED BY <2>1, <2>2 DEF IInv, TypeOK, ClientRight, vtunerc_open
<1>2. \A i \in Opens : i >= k' => i > k /\ i # k
  BY <1>1 DEF Opens
<1>3. "ctrl" \in Types /\ "data" \in Types /\ "ctrl" # "data"
  BY DEF Types
<1>4. ASSUME up, Len(backlog["ctrl"]) < 1, cpc' = "opening", Connect("ctrl"),
             rd_message' = 0, buffer_rem' = 0, taken' = 0
      PROVE  IInv'
  <2> DEFINE q == [conn["ctrl"][k'] EXCEPT !.c = TRUE]
  <2>1. conn["ctrl"][k'] = NoConn
    BY <1>1, <1>2, <1>3 DEF IInv, FreshOpens, Fresh
  <2>2. q \in Conns /\ q.c = TRUE /\ q.s = FALSE /\ q.toS = <<>> /\ q.toC = <<>>
    BY <2>1, NoConnFields DEF Conns
  <2>3. conn' = [conn EXCEPT !["ctrl"] = [conn["ctrl"] EXCEPT ![k'] = q]]
    BY <1>4 DEF Connect
  <2> HIDE DEF q
  <2>4. ConnChanged("ctrl", k', q)
    BY <1>1, <1>3, <2>2, <2>3 DEF TypeOK, Table, ConnChanged
  <2>5. backlog["ctrl"] = <<>>
    BY <1>1, <1>3, <1>4, Facts, Short
  <2>6. /\ backlog' \in [Types -> Seq(Opens)]
        /\ backlog'["ctrl"] = <<k'>> /\ backlog'["data"] = backlog["data"]
    BY <1>1, <1>3, <1>4, <2>5 DEF Connect, TypeOK
  <2>7. /\ \A i \in Opens : Waiting("ctrl", i)' <=> i = k'
        /\ \A i \in Opens : Waiting("data", i)' <=> Waiting("data", i)
    BY <2>6 DEF Waiting
  <2>8. TypeOK'
    BY <1>1, <1>4, <2>4, <2>6, SessionAssumption DEF TypeOK, ConnChanged, server, Opens
  <2>9. ClientRight' /\ AnswerIsMine'
    BY <1>1, <1>4 DEF IInv, ClientRight, AnswerIsMine
  <2>10. OnlyThisOpen'
    BY <1>1, <1>3, <1>4, <2>2, <2>4 DEF IInv, OnlyThisOpen, ConnChanged, Types
  <2>11. \A t \in Types, i \in Opens : Fresh(t, i)' => Fresh(t, i) /\ (t = "ctrl" => i # k')
    BY <1>1, <1>2, <1>4 DEF Fresh, Opens
  <2>12. FreshOpens'
    <3>1. \A t \in Types, i \in Opens : Fresh(t, i)' => conn'[t][i] = conn[t][i]
      BY <1>1, <2>4, <2>11 DEF ConnChanged
    <3>2. \A t \in Types, i \in Opens : Fresh(t, i)' => (Waiting(t, i)' => Waiting(t, i))
      BY <2>7, <2>11 DEF Types
    <3> QED BY <1>1, <1>3, <2>11, <3>1, <3>2 DEF IInv, FreshOpens, server
  <2>13. BacklogRight'
    <3>1. \A t \in Types : Len(backlog'[t]) <= 1
      <4>1. Len(<<k'>>) = 1
        OBVIOUS
      <4>2. Len(backlog'["ctrl"]) <= 1
        BY <2>6, <4>1
      <4>3. Len(backlog'["data"]) <= 1
        BY <2>6, <1>3 DEF IInv, BacklogRight
      <4> QED BY <4>2, <4>3 DEF Types
    <3>2. ctx[k'].ctrl = 0 /\ f_ctrl # k'
      BY <1>1, <1>2, <1>3 DEF IInv, FreshOpens, Fresh
    <3> QED BY <1>1, <1>4, <2>7, <3>1, <3>2 DEF IInv, BacklogRight, server
  <2>14. DataOfOne'
    BY <1>1 DEF IInv, DataOfOne, server
  <2>15. ListenerRight' /\ ContextsRight'
    <3>1. \A i \in Opens : conn'["ctrl"][i].s <=> conn["ctrl"][i].s
      BY <1>1, <1>3, <2>1, <2>2, <2>4 DEF ConnChanged, NoConn
    <3> QED BY <1>1, <3>1, ContextFrame
  <2>16. RequestRight'
    <3>1. ctx[k'].control = "none"
      BY <1>1, <1>2, <1>3 DEF IInv, FreshOpens, Fresh, ContextsRight, ContextRight
    <3> QED BY <1>1, <1>4, <2>2, <2>4, <3>1 DEF RequestRight, ConnChanged, server
  <2>17. DataRight'
    BY <1>4 DEF DataRight
  <2> QED BY <2>8, <2>9, <2>10, <2>12, <2>13, <2>14, <2>15, <2>16, <2>17 DEF IInv
<1>5. ASSUME UNCHANGED <<conn, backlog, cpc, rd_message, buffer_rem, taken>>
      PROVE  IInv'
  <2>1. TypeOK'
    BY <1>1, <1>5 DEF TypeOK, server, Opens
  <2>2. ClientRight' /\ AnswerIsMine'
    BY <1>1, <1>5 DEF IInv, ClientRight, AnswerIsMine
  <2>3. OnlyThisOpen'
    BY <1>1, <1>5 DEF IInv, OnlyThisOpen
  <2>4. \A t \in Types, i \in Opens : Fresh(t, i)' => Fresh(t, i)
    BY <1>1, <1>5 DEF Fresh, Opens
  <2>5. FreshOpens'
    BY <1>1, <1>3, <1>5, <2>4, WaitingSame DEF IInv, FreshOpens, server
  <2>6. BacklogRight' /\ DataOfOne'
    BY <1>1, <1>5, BacklogFrame DEF server
  <2>7. ListenerRight' /\ ContextsRight'
    BY <1>1, <1>5, ContextFrame
  <2>8. RequestRight' /\ DataRight'
    BY <1>1, <1>5 DEF RequestRight, DataRight
  <2> QED BY <2>1, <2>2, <2>3, <2>5, <2>6, <2>7, <2>8 DEF IInv
<1> QED BY <1>4, <1>5 DEF vtunerc_open

LEMMA OpenDataKeeps ==
    ASSUME IInv, OpenData
    PROVE  IInv'
<1>1. /\ TypeOK /\ cpc = "opening" /\ k \in Opens /\ k' = k
      /\ ppc = "none" /\ rpc = "none" /\ io.state = "none" /\ rd_message = 0 /\ taken = 0
      /\ UNCHANGED <<server, rd_message, buffer_rem, rpc, io, nreq, taken>>
  BY DEF IInv, TypeOK, ClientRight, OpenData
<1>2. \A i \in Opens : i > k => i # k
  BY <1>1 DEF Opens
<1>3. "ctrl" \in Types /\ "data" \in Types /\ "ctrl" # "data"
  BY DEF Types
<1>4. /\ conn["data"][k] = NoConn /\ ~Waiting("data", k)
      /\ \A j \in Opens : ctx[j].data # k
  BY <1>1, <1>3 DEF IInv, FreshOpens, Fresh
<1>5. ASSUME up, Len(backlog["data"]) < 1, Connect("data"), cpc' = "open", ppc' = "run"
      PROVE  IInv'
  <2> DEFINE q == [conn["data"][k] EXCEPT !.c = TRUE]
  <2>1. q \in Conns /\ q.c = TRUE /\ q.s = FALSE /\ q.toS = <<>> /\ q.toC = <<>>
    BY <1>4, NoConnFields DEF Conns
  <2>2. conn' = [conn EXCEPT !["data"] = [conn["data"] EXCEPT ![k] = q]]
    BY <1>1, <1>5 DEF Connect
  <2> HIDE DEF q
  <2>3. ConnChanged("data", k, q)
    BY <1>1, <1>3, <2>1, <2>2, ConnChange
  <2>4. backlog["data"] = <<>>
    BY <1>1, <1>3, <1>5, Facts, Short
  <2>5. /\ backlog' \in [Types -> Seq(Opens)]
        /\ backlog'["data"] = <<k>> /\ backlog'["ctrl"] = backlog["ctrl"]
    BY <1>1, <1>3, <1>5, <2>4 DEF Connect, TypeOK
  <2>6. /\ \A i \in Opens : Waiting("data", i)' <=> i = k
        /\ \A i \in Opens : Waiting("ctrl", i)' <=> Waiting("ctrl", i)
    BY <2>5 DEF Waiting
  <2>7. TypeOK'
    BY <1>1, <1>5, <2>3, <2>5 DEF TypeOK, ConnChanged, server
  <2>8. ClientRight' /\ AnswerIsMine'
    BY <1>1, <1>5 DEF IInv, ClientRight, AnswerIsMine
  <2>9. OnlyThisOpen'
    BY <1>1, <1>3, <1>5, <2>1, <2>3 DEF IInv, OnlyThisOpen, ConnChanged, Types
  <2>10. \A t \in Types, i \in Opens : Fresh(t, i)' => Fresh(t, i) /\ i # k
    BY <1>1, <1>2, <1>5 DEF Fresh
  <2>11. FreshOpens'
    <3>1. \A t \in Types, i \in Opens : Fresh(t, i)' => conn'[t][i] = conn[t][i]
      BY <1>1, <2>3, <2>10 DEF ConnChanged
    <3>2. \A t \in Types, i \in Opens : Fresh(t, i)' => (Waiting(t, i)' => Waiting(t, i))
      BY <2>6, <2>10 DEF Types
    <3> QED BY <1>1, <1>3, <2>10, <3>1, <3>2 DEF IInv, FreshOpens, server
  <2>12. BacklogRight'
    <3>1. \A t \in Types : Len(backlog'[t]) <= 1
      <4>1. Len(<<k>>) = 1
        OBVIOUS
      <4>2. Len(backlog'["data"]) <= 1
        BY <2>5, <4>1
      <4>3. Len(backlog'["ctrl"]) <= 1
        BY <2>5, <1>3 DEF IInv, BacklogRight
      <4> QED BY <4>2, <4>3 DEF Types
    <3> QED BY <1>1, <1>4, <1>5, <2>6, <3>1 DEF IInv, BacklogRight, server
  <2>13. DataOfOne'
    BY <1>1 DEF IInv, DataOfOne, server
  <2>14. conn'["ctrl"] = conn["ctrl"]
    BY <1>1, <1>3, <2>2 DEF TypeOK, Table
  <2>15. ListenerRight' /\ ContextsRight'
    BY <1>1, <2>14, ContextFrame
  <2>16. RequestRight'
    BY <1>1, <1>5, <2>14 DEF IInv, RequestRight, server
  <2>17. DataRight'
    BY <1>1, <1>4, <2>1, <2>3 DEF DataRight, ConnChanged, server
  <2> QED BY <2>7, <2>8, <2>9, <2>11, <2>12, <2>13, <2>15, <2>16, <2>17 DEF IInv
<1>6. ASSUME conn' = [conn EXCEPT !["ctrl"][k].c = FALSE], cpc' = "closed", UNCHANGED <<backlog, ppc>>
      PROVE  IInv'
  <2> DEFINE q == [conn["ctrl"][k] EXCEPT !.c = FALSE]
  <2>1. q \in Conns /\ q.c = FALSE /\ q.s = conn["ctrl"][k].s
    <3>1. conn["ctrl"][k] \in Conns
      BY <1>1, <1>3, Facts
    <3> QED BY <3>1 DEF Conns
  <2>2. conn' = [conn EXCEPT !["ctrl"] = [conn["ctrl"] EXCEPT ![k] = q]]
    BY <1>6
  <2> HIDE DEF q
  <2>3. ConnChanged("ctrl", k, q)
    BY <1>1, <1>3, <2>1, <2>2, ConnChange
  <2>4. TypeOK'
    BY <1>1, <1>6, <2>3 DEF TypeOK, ConnChanged, server
  <2>5. ClientRight' /\ AnswerIsMine'
    BY <1>1, <1>6 DEF IInv, ClientRight, AnswerIsMine
  <2>6. OnlyThisOpen'
    BY <1>1, <1>3, <1>6, <2>1, <2>3 DEF IInv, OnlyThisOpen, ConnChanged, Types
  <2>7. \A t \in Types, i \in Opens : Fresh(t, i)' => Fresh(t, i) /\ i # k
    BY <1>1, <1>2, <1>6 DEF Fresh
  <2>8. FreshOpens'
    <3>1. \A t \in Types, i \in Opens : Fresh(t, i)' => conn'[t][i] = conn[t][i]
      BY <1>1, <2>3, <2>7 DEF ConnChanged
    <3> QED BY <1>1, <1>3, <1>6, <2>7, <3>1, WaitingSame DEF IInv, FreshOpens, server
  <2>9. BacklogRight' /\ DataOfOne'
    BY <1>1, <1>6, BacklogFrame DEF server
  <2>10. ListenerRight' /\ ContextsRight'
    <3>1. \A i \in Opens : conn'["ctrl"][i].s <=> conn["ctrl"][i].s
      BY <1>1, <1>3, <2>1, <2>3 DEF ConnChanged
    <3> QED BY <1>1, <3>1, ContextFrame
  <2>11. RequestRight' /\ DataRight'
    BY <1>1, <1>6 DEF RequestRight, DataRight
  <2> QED BY <2>4, <2>5, <2>6, <2>8, <2>9, <2>10, <2>11 DEF IInv
<1> QED BY <1>5, <1>6 DEF OpenData

-----------------------------------------------------------------------------
(* The two threads of a context. *)

LEMMA ThreadFacts ==
    ASSUME IInv, NEW x \in Opens, ctx[x].control # "none" \/ ctx[x].writer # "none"
    PROVE  /\ up /\ ctx[x].ctrl = x /\ ctx[x].data \in Opens
           /\ ~Fresh("ctrl", x) /\ ~Fresh("data", ctx[x].data)
           /\ ctx[x].fd_control <=> ctx[x].control # "none"
           /\ ctx[x].fd_data <=> ctx[x].writer # "none"
           /\ ~ctx[x].freed
           /\ ctx[x].control # "none" => conn["ctrl"][x].s
           /\ ~(lpc = "data" /\ f_ctrl = x)
<1>1. ContextRight(x) /\ 0 \notin Opens
  BY Facts DEF IInv, ContextsRight
<1>2. up /\ ctx[x].ctrl = x /\ x # 0 /\ ctx[x].data \in Opens
  BY <1>1 DEF ContextRight
<1>3. ~Fresh("ctrl", x) /\ ~Fresh("data", ctx[x].data)
  BY <1>2 DEF IInv, FreshOpens
<1>4. ~(lpc = "data" /\ f_ctrl = x)
  BY <1>2 DEF IInv, ListenerRight
<1> QED BY <1>1, <1>2, <1>3, <1>4 DEF ContextRight

LEMMA ControlStep ==
    ASSUME IInv, NEW x \in Opens, ctx[x].control # "none",
           NEW q \in Conns, ConnChanged("ctrl", x, q), q.c = conn["ctrl"][x].c,
           NEW r \in Contexts, CtxChanged(x, r), r.ctrl = ctx[x].ctrl, r.data = ctx[x].data,
           r.sent = ctx[x].sent, r.writer = ctx[x].writer, r.fd_data = ctx[x].fd_data,
           r.fd_control <=> r.control # "none",
           r.freed <=> r.control = "none" /\ r.writer = "none",
           r.control # "none" => q.s,
           UNCHANGED <<backlog, lpc, f_ctrl, up, client>>, RequestRight'
    PROVE  IInv'
<1>1. /\ TypeOK /\ "ctrl" \in Types /\ "data" \in Types /\ "ctrl" # "data"
      /\ up /\ ctx[x].ctrl = x /\ x # 0 /\ ctx[x].data \in Opens /\ ~Fresh("ctrl", x)
      /\ ctx[x].fd_data <=> ctx[x].writer # "none"
  BY Facts, ThreadFacts DEF IInv
<1>2. TypeOK'
  BY <1>1 DEF TypeOK, ConnChanged, CtxChanged, client
<1>3. \A t \in Types, i \in Opens : conn'[t][i].c <=> conn[t][i].c
  BY DEF ConnChanged
<1>4. \A t \in Types, i \in Opens : Fresh(t, i) => conn'[t][i] = conn[t][i]
  BY <1>1 DEF ConnChanged
<1>5. \A i \in Opens : /\ ctx'[i].ctrl = ctx[i].ctrl /\ ctx'[i].data = ctx[i].data
                       /\ ctx'[i].sent = ctx[i].sent
  BY DEF CtxChanged
<1>6. /\ ClientRight' /\ OnlyThisOpen' /\ FreshOpens' /\ BacklogRight'
      /\ DataOfOne' /\ AnswerIsMine'
  BY <1>2, <1>3, <1>4, <1>5, ThreadFrame
<1>7. ListenerRight'
  <2>1. lpc = "data" /\ up => f_ctrl \in Opens /\ f_ctrl # x
    BY <1>1 DEF IInv, ListenerRight
  <2> QED BY <1>1, <2>1 DEF IInv, ListenerRight, ConnChanged, CtxChanged
<1>8. ContextsRight'
  <2>1. ContextRight(x)'
    BY <1>1 DEF ContextRight, ConnChanged, CtxChanged
  <2>2. ASSUME NEW j \in Opens, j # x PROVE ContextRight(j)'
    <3>1. ContextRight(j) /\ ctx'[j] = ctx[j] /\ conn'["ctrl"][j] = conn["ctrl"][j] /\ up' = up
      BY <1>1, <2>2 DEF IInv, ContextsRight, ConnChanged, CtxChanged
    <3> QED BY <3>1 DEF ContextRight
  <2> QED BY <2>1, <2>2 DEF ContextsRight
<1>9. DataRight'
  <2>1. cpc = "open" => conn'["data"][k].toC = conn["data"][k].toC
    BY <1>1 DEF IInv, ClientRight, ConnChanged
  <2>2. UNCHANGED <<k, taken>> /\ cpc' = cpc
    BY DEF client
  <2> QED BY <1>5, <2>1, <2>2, DataFrame
<1> QED BY <1>2, <1>6, <1>7, <1>8, <1>9 DEF IInv

LEMMA WriterStep ==
    ASSUME IInv, NEW x \in Opens, ctx[x].writer # "none",
           NEW q \in Conns, ConnChanged("data", ctx[x].data, q), q.c = conn["data"][ctx[x].data].c,
           NEW r \in Contexts, CtxChanged(x, r), r.ctrl = ctx[x].ctrl, r.data = ctx[x].data,
           r.req = ctx[x].req, r.control = ctx[x].control, r.fd_control = ctx[x].fd_control,
           r.fd_data <=> r.writer # "none",
           r.freed <=> r.control = "none" /\ r.writer = "none",
           UNCHANGED <<backlog, lpc, f_ctrl, up, client>>, DataRight'
    PROVE  IInv'
<1>1. /\ TypeOK /\ "ctrl" \in Types /\ "data" \in Types /\ "ctrl" # "data"
      /\ up /\ ctx[x].ctrl = x /\ x # 0 /\ ctx[x].data \in Opens /\ ~Fresh("data", ctx[x].data)
      /\ ctx[x].fd_control <=> ctx[x].control # "none"
      /\ ctx[x].control # "none" => conn["ctrl"][x].s
  BY Facts, ThreadFacts DEF IInv
<1>2. TypeOK'
  BY <1>1 DEF TypeOK, ConnChanged, CtxChanged, client
<1>3. \A t \in Types, i \in Opens : conn'[t][i].c <=> conn[t][i].c
  BY DEF ConnChanged
<1>4. \A t \in Types, i \in Opens : Fresh(t, i) => conn'[t][i] = conn[t][i]
  BY <1>1 DEF ConnChanged
<1>5. /\ \A i \in Opens : /\ ctx'[i].ctrl = ctx[i].ctrl /\ ctx'[i].data = ctx[i].data
                          /\ ctx'[i].control = ctx[i].control /\ ctx'[i].req = ctx[i].req
      /\ \A i \in Opens : conn'["ctrl"][i] = conn["ctrl"][i]
  BY <1>1 DEF CtxChanged, ConnChanged
<1>6. /\ ClientRight' /\ OnlyThisOpen' /\ FreshOpens' /\ BacklogRight'
      /\ DataOfOne' /\ AnswerIsMine'
  BY <1>2, <1>3, <1>4, <1>5, ThreadFrame
<1>7. ListenerRight'
  BY <1>5 DEF IInv, ListenerRight
<1>8. ContextsRight'
  <2>1. ContextRight(x)'
    BY <1>1, <1>5 DEF ContextRight, CtxChanged
  <2>2. ASSUME NEW j \in Opens, j # x PROVE ContextRight(j)'
    <3>1. ContextRight(j) /\ ctx'[j] = ctx[j] /\ conn'["ctrl"][j] = conn["ctrl"][j] /\ up' = up
      BY <1>1, <1>5, <2>2 DEF IInv, ContextsRight, CtxChanged
    <3> QED BY <3>1 DEF ContextRight
  <2> QED BY <2>1, <2>2 DEF ContextsRight
<1>9. RequestRight'
  <2>1. UNCHANGED <<k, io>> /\ cpc' = cpc /\ backlog' = backlog
    BY DEF client
  <2>2. cpc # "closed" => k \in Opens
    BY DEF IInv, ClientRight
  <2>3. cpc # "closed" => (Alive("ctrl", k)' => Alive("ctrl", k))
    BY <1>5, <2>1, <2>2 DEF Alive, Waiting
  <2> QED BY <1>5, <2>1, <2>2, <2>3, RequestFrame
<1> QED BY <1>2, <1>6, <1>7, <1>8, <1>9 DEF IInv

LEMMA SameConn ==
    ASSUME TypeOK, conn' = conn, NEW t \in Types, NEW i \in Opens
    PROVE  conn[t][i] \in Conns /\ ConnChanged(t, i, conn[t][i])
BY Facts DEF ConnChanged

LEMMA ReadRequestKeeps ==
    ASSUME IInv, NEW x \in Opens, ReadRequest(x)
    PROVE  IInv'
<1>1. /\ TypeOK /\ ctx[x].control = "read" /\ ctx[x].ctrl = x /\ conn["ctrl"][x].s
      /\ ctx[x].fd_control /\ ~ctx[x].freed /\ "ctrl" \in Types
      /\ UNCHANGED <<backlog, lpc, f_ctrl, up, client>>
  BY ThreadFacts, Facts DEF IInv, ReadRequest
<1>2. ctx[x] \in Contexts /\ conn["ctrl"][x] \in Conns /\ conn["ctrl"][x].toS \in Seq(Nat)
  BY <1>1, Facts
<1>3. UNCHANGED <<k, io>> /\ cpc' = cpc /\ backlog' = backlog
  BY <1>1 DEF client
<1>4. cpc # "closed" => k \in Opens
  BY DEF IInv, ClientRight
<1>5. ASSUME conn["ctrl"][x].toS # <<>> PROVE IInv'
  <2> DEFINE h == Head(conn["ctrl"][x].toS)
             q == [conn["ctrl"][x] EXCEPT !.toS = Tail(conn["ctrl"][x].toS)]
             r == [ctx[x] EXCEPT !.control = "answer", !.req = h]
  <2>1. h \in Nat /\ Tail(conn["ctrl"][x].toS) \in Seq(Nat)
    BY <1>2, <1>5
  <2>2. /\ conn' = [conn EXCEPT !["ctrl"] = [conn["ctrl"] EXCEPT ![x] = q]]
        /\ ctx' = [ctx EXCEPT ![x] = r]
    BY <1>1, <1>5 DEF ReadRequest
  <2>3. /\ q \in Conns /\ q.c = conn["ctrl"][x].c /\ q.s = conn["ctrl"][x].s
        /\ q.toS = Tail(conn["ctrl"][x].toS) /\ q.toC = conn["ctrl"][x].toC
    BY <1>2, <2>1 DEF Conns
  <2>4. /\ r \in Contexts /\ r.ctrl = ctx[x].ctrl /\ r.data = ctx[x].data /\ r.sent = ctx[x].sent
        /\ r.writer = ctx[x].writer /\ r.fd_data = ctx[x].fd_data /\ r.fd_control = ctx[x].fd_control
        /\ r.freed = ctx[x].freed /\ r.control = "answer" /\ r.req = h
    BY <1>2, <2>1 DEF Contexts
  <2> HIDE DEF q, r
  <2>5. ConnChanged("ctrl", x, q) /\ CtxChanged(x, r)
    BY <1>1, <2>2, <2>3, <2>4, ConnChange, CtxChange
  <2>6. RequestRight'
    <3>1. CASE x # k
      <4>1. cpc # "closed" => conn'["ctrl"][k] = conn["ctrl"][k] /\ ctx'[k] = ctx[k]
        BY <1>1, <1>4, <2>5, <3>1 DEF ConnChanged, CtxChanged
      <4>2. cpc # "closed" => (Alive("ctrl", k)' => Alive("ctrl", k))
        BY <1>3, <4>1 DEF Alive, Waiting
      <4> QED BY <1>3, <4>1, <4>2, RequestFrame
    <3>2. CASE x = k /\ cpc \in {"closed", "closing"}
      BY <1>3, <3>2 DEF IInv, ClientRight, RequestRight
    <3>3. CASE x = k /\ cpc \in {"opening", "open"}
      <4>1. Alive("ctrl", k)
        BY <1>1, <3>3 DEF IInv, OnlyThisOpen, Alive
      <4>2. cpc = "open" /\ io.state = "wait"
        BY <1>5, <3>3, <4>1 DEF IInv, RequestRight, TypeOK
      <4>3. conn["ctrl"][k].toS = <<io.req>> /\ conn["ctrl"][k].toC = <<>>
        BY <1>5, <3>3, <4>2 DEF IInv, RequestRight, OneRequest
      <4>4. h = io.req /\ Tail(conn["ctrl"][x].toS) = <<>>
        BY <3>3, <4>3
      <4>5. /\ conn'["ctrl"][k].toS = <<>> /\ conn'["ctrl"][k].toC = <<>>
            /\ ctx'[k].control = "answer" /\ ctx'[k].req = io.req
        BY <2>3, <2>4, <2>5, <3>3, <4>3, <4>4 DEF ConnChanged, CtxChanged
      <4> QED BY <1>3, <4>2, <4>5 DEF RequestRight, OneRequest
    <3> QED BY <3>1, <3>2, <3>3 DEF IInv, TypeOK
  <2> QED BY <1>1, <2>3, <2>4, <2>5, <2>6, ControlStep
<1>6. ASSUME conn["ctrl"][x].toS = <<>> PROVE IInv'
  <2> DEFINE r == [ctx[x] EXCEPT !.control = "end"]
  <2>1. conn' = conn /\ ctx' = [ctx EXCEPT ![x] = r]
    BY <1>1, <1>6 DEF ReadRequest
  <2>2. /\ r \in Contexts /\ r.ctrl = ctx[x].ctrl /\ r.data = ctx[x].data /\ r.sent = ctx[x].sent
        /\ r.writer = ctx[x].writer /\ r.fd_data = ctx[x].fd_data /\ r.fd_control = ctx[x].fd_control
        /\ r.freed = ctx[x].freed /\ r.control = "end" /\ r.req = ctx[x].req
    BY <1>2 DEF Contexts
  <2> HIDE DEF r
  <2>3. ConnChanged("ctrl", x, conn["ctrl"][x]) /\ CtxChanged(x, r)
    BY <1>1, <2>1, <2>2, SameConn, CtxChange
  <2>4. RequestRight'
    <3>1. cpc # "closed" => (Alive("ctrl", k)' => Alive("ctrl", k))
      BY <1>3, <2>1 DEF Alive, Waiting
    <3>2. cpc # "closed" => /\ ctx'[k].control = "answer" <=> ctx[k].control = "answer"
                            /\ ctx[k].control = "answer" => ctx'[k].req = ctx[k].req
      BY <1>1, <1>4, <2>2, <2>3 DEF CtxChanged
    <3> QED BY <1>3, <2>1, <3>1, <3>2, RequestFrame
  <2> QED BY <1>1, <1>2, <2>2, <2>3, <2>4, ControlStep
<1> QED BY <1>5, <1>6

LEMMA WriteAnswerKeeps ==
    ASSUME IInv, NEW x \in Opens, WriteAnswer(x)
    PROVE  IInv'
<1>1. /\ TypeOK /\ ctx[x].control = "answer" /\ ctx[x].ctrl = x /\ conn["ctrl"][x].s
      /\ ctx[x].fd_control /\ ~ctx[x].freed /\ "ctrl" \in Types
      /\ UNCHANGED <<backlog, lpc, f_ctrl, up, client>>
  BY ThreadFacts, Facts DEF IInv, WriteAnswer
<1>2. /\ ctx[x] \in Contexts /\ ctx[x].req \in Nat
      /\ conn["ctrl"][x] \in Conns /\ conn["ctrl"][x].toC \in Seq(Nat)
  BY <1>1, Facts
<1>3. UNCHANGED <<k, io>> /\ cpc' = cpc /\ backlog' = backlog
  BY <1>1 DEF client
<1>4. cpc # "closed" => k \in Opens
  BY DEF IInv, ClientRight
<1>5. ASSUME conn["ctrl"][x].c PROVE IInv'
  <2> DEFINE q == [conn["ctrl"][x] EXCEPT !.toC = conn["ctrl"][x].toC \o <<ctx[x].req>>]
             r == [ctx[x] EXCEPT !.control = "read"]
  <2>1. x = k /\ cpc \in {"open", "opening"}
    BY <1>1, <1>5 DEF IInv, OnlyThisOpen
  <2>2. cpc = "open" /\ io.state = "wait"
    BY <1>1, <2>1 DEF IInv, RequestRight, TypeOK
  <2>3. conn["ctrl"][k].toS = <<>> /\ conn["ctrl"][k].toC = <<>> /\ ctx[k].req = io.req
    BY <1>1, <2>1, <2>2 DEF IInv, RequestRight, OneRequest
  <2>4. <<>> \o <<ctx[x].req>> = <<ctx[x].req>> /\ <<ctx[x].req>> \in Seq(Nat)
    BY <1>2
  <2>5. /\ conn' = [conn EXCEPT !["ctrl"] = [conn["ctrl"] EXCEPT ![x] = q]]
        /\ ctx' = [ctx EXCEPT ![x] = r]
    BY <1>1, <1>5 DEF WriteAnswer, Answer
  <2>6. /\ q \in Conns /\ q.c = conn["ctrl"][x].c /\ q.s = conn["ctrl"][x].s
        /\ q.toS = <<>> /\ q.toC = <<io.req>>
    BY <1>2, <2>1, <2>3, <2>4 DEF Conns
  <2>7. /\ r \in Contexts /\ r.ctrl = ctx[x].ctrl /\ r.data = ctx[x].data /\ r.sent = ctx[x].sent
        /\ r.writer = ctx[x].writer /\ r.fd_data = ctx[x].fd_data /\ r.fd_control = ctx[x].fd_control
        /\ r.freed = ctx[x].freed /\ r.control = "read"
    BY <1>2 DEF Contexts
  <2> HIDE DEF q, r
  <2>8. ConnChanged("ctrl", x, q) /\ CtxChanged(x, r)
    BY <1>1, <2>5, <2>6, <2>7, ConnChange, CtxChange
  <2>9. RequestRight'
    <3>1. /\ conn'["ctrl"][k].toS = <<>> /\ conn'["ctrl"][k].toC = <<io.req>>
          /\ ctx'[k].control # "answer"
      BY <2>1, <2>6, <2>7, <2>8 DEF ConnChanged, CtxChanged
    <3> QED BY <1>3, <2>2, <3>1 DEF RequestRight, OneRequest
  <2> QED BY <1>1, <2>6, <2>7, <2>8, <2>9, ControlStep
<1>6. ASSUME ~conn["ctrl"][x].c PROVE IInv'
  <2> DEFINE r == [ctx[x] EXCEPT !.control = "end"]
  <2>1. conn' = conn /\ ctx' = [ctx EXCEPT ![x] = r]
    BY <1>1, <1>6 DEF WriteAnswer
  <2>2. /\ r \in Contexts /\ r.ctrl = ctx[x].ctrl /\ r.data = ctx[x].data /\ r.sent = ctx[x].sent
        /\ r.writer = ctx[x].writer /\ r.fd_data = ctx[x].fd_data /\ r.fd_control = ctx[x].fd_control
        /\ r.freed = ctx[x].freed /\ r.control = "end"
    BY <1>2 DEF Contexts
  <2> HIDE DEF r
  <2>3. ConnChanged("ctrl", x, conn["ctrl"][x]) /\ CtxChanged(x, r)
    BY <1>1, <2>1, <2>2, SameConn, CtxChange
  <2>4. RequestRight'
    <3>1. CASE x # k
      <4>1. cpc # "closed" => (Alive("ctrl", k)' => Alive("ctrl", k))
        BY <1>3, <2>1 DEF Alive, Waiting
      <4>2. cpc # "closed" => ctx'[k] = ctx[k]
        BY <1>4, <2>3, <3>1 DEF CtxChanged
      <4> QED BY <1>3, <2>1, <4>1, <4>2, RequestFrame
    <3>2. CASE x = k
      <4>1. cpc \notin {"open", "opening"}
        BY <1>1, <1>6, <3>2 DEF IInv, OnlyThisOpen
      <4> QED BY <1>3, <4>1 DEF IInv, ClientRight, RequestRight
    <3> QED BY <3>1, <3>2
  <2> QED BY <1>1, <1>2, <2>2, <2>3, <2>4, ControlStep
<1> QED BY <1>5, <1>6

LEMMA ControlEndsKeeps ==
    ASSUME IInv, NEW x \in Opens, ControlEnds(x)
    PROVE  IInv'
<1>1. /\ TypeOK /\ ctx[x].control = "end" /\ ctx[x].ctrl = x
      /\ ctx[x].fd_data <=> ctx[x].writer # "none"
      /\ ~ctx[x].freed /\ "ctrl" \in Types
      /\ UNCHANGED <<backlog, lpc, f_ctrl, up, client>>
  BY ThreadFacts, Facts DEF IInv, ControlEnds
<1>2. ctx[x] \in Contexts /\ conn["ctrl"][x] \in Conns
  BY <1>1, Facts
<1> DEFINE q == [conn["ctrl"][x] EXCEPT !.s = FALSE]
<1>3. PICK b \in BOOLEAN : b = (ctx[x].freed \/ ~ctx[x].fd_data)
  OBVIOUS
<1> DEFINE r == [ctx[x] EXCEPT !.control = "none", !.fd_control = FALSE, !.freed = b]
<1>4. /\ conn' = [conn EXCEPT !["ctrl"] = [conn["ctrl"] EXCEPT ![x] = q]]
      /\ ctx' = [ctx EXCEPT ![x] = r]
  BY <1>1, <1>3 DEF ControlEnds, Last
<1>5. /\ q \in Conns /\ q.c = conn["ctrl"][x].c /\ q.s = FALSE
      /\ q.toS = conn["ctrl"][x].toS /\ q.toC = conn["ctrl"][x].toC
  BY <1>2 DEF Conns
<1>6. /\ r \in Contexts /\ r.ctrl = ctx[x].ctrl /\ r.data = ctx[x].data /\ r.sent = ctx[x].sent
      /\ r.writer = ctx[x].writer /\ r.fd_data = ctx[x].fd_data /\ r.fd_control = FALSE
      /\ r.freed = b /\ r.control = "none"
  BY <1>2 DEF Contexts
<1> HIDE DEF q, r
<1>7. ConnChanged("ctrl", x, q) /\ CtxChanged(x, r)
  BY <1>1, <1>4, <1>5, <1>6, ConnChange, CtxChange
<1>8. r.freed <=> r.control = "none" /\ r.writer = "none"
  BY <1>1, <1>3, <1>6
<1>9. RequestRight'
  <2>1. UNCHANGED <<k, io>> /\ cpc' = cpc /\ backlog' = backlog
    BY <1>1 DEF client
  <2>2. cpc # "closed" => k \in Opens
    BY DEF IInv, ClientRight
  <2>3. cpc # "closed" => /\ conn'["ctrl"][k].toS = conn["ctrl"][k].toS
                          /\ conn'["ctrl"][k].toC = conn["ctrl"][k].toC
                          /\ conn'["ctrl"][k].c = conn["ctrl"][k].c
                          /\ conn'["ctrl"][k].s => conn["ctrl"][k].s
    BY <1>1, <1>5, <1>7, <2>2 DEF ConnChanged
  <2>4. cpc # "closed" => /\ ctx'[k].control = "answer" <=> ctx[k].control = "answer"
                          /\ ctx[k].control = "answer" => ctx'[k].req = ctx[k].req
    BY <1>1, <1>6, <1>7, <2>2 DEF CtxChanged
  <2>5. cpc # "closed" => (Alive("ctrl", k)' => Alive("ctrl", k))
    BY <2>1, <2>3 DEF Alive, Waiting
  <2> QED BY <2>1, <2>3, <2>4, <2>5, RequestFrame
<1> QED BY <1>1, <1>5, <1>6, <1>7, <1>8, <1>9, ControlStep

LEMMA WriteDataKeeps ==
    ASSUME IInv, NEW x \in Opens, WriteData(x)
    PROVE  IInv'
<1> DEFINE d == ctx[x].data
<1>1. /\ TypeOK /\ ctx[x].writer = "run" /\ d \in Opens /\ "data" \in Types
      /\ ctx[x].fd_data /\ ~ctx[x].freed
      /\ UNCHANGED <<backlog, lpc, f_ctrl, up, client>>
  BY ThreadFacts, Facts DEF IInv, WriteData
<1>2. /\ ctx[x] \in Contexts /\ ctx[x].sent \in Nat
      /\ conn["data"][d] \in Conns /\ conn["data"][d].toC \in Seq(Nat)
  BY <1>1, Facts
<1>3. UNCHANGED <<k, taken>> /\ cpc' = cpc
  BY <1>1 DEF client
<1>4. ASSUME conn["data"][d].c PROVE IInv'
  <2> DEFINE q == [conn["data"][d] EXCEPT !.toC = Append(conn["data"][d].toC, ctx[x].sent + 1)]
             r == [ctx[x] EXCEPT !.sent = ctx[x].sent + 1]
  <2>1. /\ conn' = [conn EXCEPT !["data"] = [conn["data"] EXCEPT ![d] = q]]
        /\ ctx' = [ctx EXCEPT ![x] = r]
    BY <1>4 DEF WriteData, Packet
  <2>2. Append(conn["data"][d].toC, ctx[x].sent + 1) \in Seq(Nat) /\ ctx[x].sent + 1 \in Nat
    BY <1>2
  <2>3. /\ q \in Conns /\ q.c = conn["data"][d].c
        /\ q.toC = Append(conn["data"][d].toC, ctx[x].sent + 1)
    BY <1>2, <2>2 DEF Conns
  <2>4. /\ r \in Contexts /\ r.ctrl = ctx[x].ctrl /\ r.data = ctx[x].data /\ r.req = ctx[x].req
        /\ r.control = ctx[x].control /\ r.fd_control = ctx[x].fd_control
        /\ r.fd_data = ctx[x].fd_data /\ r.freed = ctx[x].freed
        /\ r.writer = "run" /\ r.sent = ctx[x].sent + 1
    BY <1>1, <1>2, <2>2 DEF Contexts
  <2> HIDE DEF q, r
  <2>5. ConnChanged("data", d, q) /\ CtxChanged(x, r)
    BY <1>1, <2>1, <2>3, <2>4, ConnChange, CtxChange
  <2>6. DataRight'
    <3>1. d = k /\ cpc = "open"
      BY <1>1, <1>4 DEF IInv, OnlyThisOpen
    <3>2. PICK s \in Seq(Nat) : s = conn["data"][k].toC
      BY <1>2, <3>1
    <3>3. /\ \A n \in 1..Len(s) : s[n] = taken + n
          /\ ctx[x].sent = taken + Len(s) /\ taken \in Nat /\ Len(s) \in Nat
      BY <1>1, <3>1, <3>2, LenProperties DEF IInv, DataRight, TypeOK
    <3>4. PICK a \in Seq(Nat) : a = Append(s, ctx[x].sent + 1)
      BY <2>2, <3>1, <3>2
    <3>5. /\ Len(a) = Len(s) + 1 /\ a[Len(s) + 1] = ctx[x].sent + 1
          /\ \A n \in 1..Len(s) : a[n] = s[n]
      BY <3>4, AppendProperties
    <3>6. ASSUME NEW n \in 1..Len(a) PROVE a[n] = taken + n
      <4>1. CASE n \in 1..Len(s)
        BY <3>3, <3>5, <4>1
      <4>2. CASE n = Len(s) + 1
        BY <3>3, <3>5, <4>2
      <4> QED BY <3>3, <3>5, <4>1, <4>2
    <3>7. conn'["data"][k].toC = a /\ k' = k /\ taken' = taken
      BY <1>3, <2>3, <2>5, <3>1, <3>2, <3>4 DEF ConnChanged
    <3>8. ctx'[x].data = k /\ ctx'[x].sent = taken + Len(a)
      BY <2>4, <2>5, <3>1, <3>3, <3>5 DEF CtxChanged
    <3>9. \A i \in Opens : ctx'[i].data = k => i = x
      BY <1>1, <2>4, <2>5, <3>1, Facts DEF IInv, DataOfOne, CtxChanged
    <3> QED BY <3>6, <3>7, <3>8, <3>9 DEF DataRight
  <2> QED BY <1>1, <2>3, <2>4, <2>5, <2>6, WriterStep
<1>5. ASSUME ~conn["data"][d].c PROVE IInv'
  <2> DEFINE r == [ctx[x] EXCEPT !.writer = "end"]
  <2>1. conn' = conn /\ ctx' = [ctx EXCEPT ![x] = r]
    BY <1>5 DEF WriteData
  <2>2. /\ r \in Contexts /\ r.ctrl = ctx[x].ctrl /\ r.data = ctx[x].data /\ r.req = ctx[x].req
        /\ r.control = ctx[x].control /\ r.fd_control = ctx[x].fd_control
        /\ r.fd_data = ctx[x].fd_data /\ r.freed = ctx[x].freed
        /\ r.writer = "end" /\ r.sent = ctx[x].sent
    BY <1>2 DEF Contexts
  <2> HIDE DEF r
  <2>3. ConnChanged("data", d, conn["data"][d]) /\ CtxChanged(x, r)
    BY <1>1, <2>1, <2>2, SameConn, CtxChange
  <2>4. \A i \in Opens : ctx'[i].data = ctx[i].data /\ ctx'[i].sent = ctx[i].sent
    BY <2>2, <2>3 DEF CtxChanged
  <2>5. DataRight'
    BY <1>3, <2>1, <2>4, DataFrame
  <2> QED BY <1>1, <1>2, <2>2, <2>3, <2>5, WriterStep
<1> QED BY <1>4, <1>5

LEMMA WriterStopsKeeps ==
    ASSUME IInv, NEW x \in Opens, WriterStops(x)
    PROVE  IInv'
<1> DEFINE d == ctx[x].data
           r == [ctx[x] EXCEPT !.writer = "end"]
<1>1. /\ TypeOK /\ ctx[x].writer = "run" /\ d \in Opens /\ "data" \in Types
      /\ ctx[x].fd_data /\ ~ctx[x].freed /\ conn' = conn /\ ctx' = [ctx EXCEPT ![x] = r]
      /\ UNCHANGED <<backlog, lpc, f_ctrl, up, client>>
  BY ThreadFacts, Facts DEF IInv, WriterStops
<1>2. ctx[x] \in Contexts /\ conn["data"][d] \in Conns
  BY <1>1, Facts
<1>3. /\ r \in Contexts /\ r.ctrl = ctx[x].ctrl /\ r.data = ctx[x].data /\ r.req = ctx[x].req
      /\ r.control = ctx[x].control /\ r.fd_control = ctx[x].fd_control
      /\ r.fd_data = ctx[x].fd_data /\ r.freed = ctx[x].freed
      /\ r.writer = "end" /\ r.sent = ctx[x].sent
  BY <1>2 DEF Contexts
<1> HIDE DEF r
<1>4. ConnChanged("data", d, conn["data"][d]) /\ CtxChanged(x, r)
  BY <1>1, <1>3, SameConn, CtxChange
<1>5. \A i \in Opens : ctx'[i].data = ctx[i].data /\ ctx'[i].sent = ctx[i].sent
  BY <1>3, <1>4 DEF CtxChanged
<1>6. DataRight'
  BY <1>1, <1>5, DataFrame DEF client
<1> QED BY <1>1, <1>2, <1>3, <1>4, <1>6, WriterStep

LEMMA WriterEndsKeeps ==
    ASSUME IInv, NEW x \in Opens, WriterEnds(x)
    PROVE  IInv'
<1> DEFINE d == ctx[x].data
           q == [conn["data"][d] EXCEPT !.s = FALSE]
<1>1. /\ TypeOK /\ ctx[x].writer = "end" /\ d \in Opens /\ "data" \in Types
      /\ ctx[x].fd_control <=> ctx[x].control # "none"
      /\ ~ctx[x].freed /\ UNCHANGED <<backlog, lpc, f_ctrl, up, client>>
  BY ThreadFacts, Facts DEF IInv, WriterEnds
<1>2. ctx[x] \in Contexts /\ conn["data"][d] \in Conns
  BY <1>1, Facts
<1>3. PICK b \in BOOLEAN : b = (ctx[x].freed \/ ~ctx[x].fd_control)
  OBVIOUS
<1> DEFINE r == [ctx[x] EXCEPT !.writer = "none", !.fd_data = FALSE, !.freed = b]
<1>4. /\ conn' = [conn EXCEPT !["data"] = [conn["data"] EXCEPT ![d] = q]]
      /\ ctx' = [ctx EXCEPT ![x] = r]
  BY <1>1, <1>3 DEF WriterEnds, Last
<1>5. q \in Conns /\ q.c = conn["data"][d].c /\ q.toC = conn["data"][d].toC
  BY <1>2 DEF Conns
<1>6. /\ r \in Contexts /\ r.ctrl = ctx[x].ctrl /\ r.data = ctx[x].data /\ r.req = ctx[x].req
      /\ r.control = ctx[x].control /\ r.fd_control = ctx[x].fd_control
      /\ r.fd_data = FALSE /\ r.freed = b /\ r.writer = "none" /\ r.sent = ctx[x].sent
  BY <1>2 DEF Contexts
<1> HIDE DEF q, r
<1>7. ConnChanged("data", d, q) /\ CtxChanged(x, r)
  BY <1>1, <1>4, <1>5, <1>6, ConnChange, CtxChange
<1>8. r.freed <=> r.control = "none" /\ r.writer = "none"
  BY <1>1, <1>3, <1>6
<1>9. DataRight'
  <2>1. \A i \in Opens : ctx'[i].data = ctx[i].data /\ ctx'[i].sent = ctx[i].sent
    BY <1>6, <1>7 DEF CtxChanged
  <2>2. cpc = "open" => conn'["data"][k].toC = conn["data"][k].toC
    BY <1>1, <1>5, <1>7 DEF IInv, ClientRight, ConnChanged
  <2>3. UNCHANGED <<k, taken>> /\ cpc' = cpc
    BY <1>1 DEF client
  <2> QED BY <2>1, <2>2, <2>3, DataFrame
<1> QED BY <1>1, <1>5, <1>6, <1>7, <1>8, <1>9, WriterStep

-----------------------------------------------------------------------------
(* The listener, and the end of the server. *)

LEMMA AcceptControlKeeps ==
    ASSUME IInv, AcceptControl
    PROVE  IInv'
<1> DEFINE f == Head(backlog["ctrl"])
           q == [conn["ctrl"][f] EXCEPT !.s = TRUE]
<1>1. /\ TypeOK /\ up /\ lpc = "accept" /\ lpc' = "data" /\ f_ctrl' = f
      /\ "ctrl" \in Types /\ "data" \in Types /\ "ctrl" # "data"
      /\ UNCHANGED <<up, ctx, client>>
  BY Facts DEF IInv, AcceptControl
<1>2. /\ backlog["ctrl"] # <<>> /\ backlog["ctrl"] \in Seq(Opens) /\ Len(backlog["ctrl"]) <= 1
  BY <1>1, Facts DEF IInv, BacklogRight, AcceptControl
<1>3. /\ Len(backlog["ctrl"]) = 1 /\ f = backlog["ctrl"][1] /\ f \in Opens
      /\ Tail(backlog["ctrl"]) = <<>>
  BY <1>2, Short
<1>4. Waiting("ctrl", f)
  BY <1>3 DEF Waiting
<1>5. ctx[f].ctrl = 0 /\ ~Fresh("ctrl", f)
  BY <1>1, <1>3, <1>4 DEF IInv, BacklogRight, FreshOpens
<1>6. /\ backlog' \in [Types -> Seq(Opens)]
      /\ backlog'["ctrl"] = <<>> /\ backlog'["data"] = backlog["data"]
  BY <1>1, <1>3 DEF AcceptControl, TypeOK
<1>7. /\ \A i \in Opens : ~Waiting("ctrl", i)'
      /\ \A i \in Opens : Waiting("data", i)' <=> Waiting("data", i)
  BY <1>6 DEF Waiting
<1>8. conn' = [conn EXCEPT !["ctrl"] = [conn["ctrl"] EXCEPT ![f] = q]]
  BY <1>1 DEF AcceptControl
<1>9. /\ q \in Conns /\ q.c = conn["ctrl"][f].c /\ q.s = TRUE
      /\ q.toS = conn["ctrl"][f].toS /\ q.toC = conn["ctrl"][f].toC
  <2>1. conn["ctrl"][f] \in Conns
    BY <1>1, <1>3, Facts
  <2> QED BY <2>1 DEF Conns
<1> HIDE DEF f, q
<1>10. ConnChanged("ctrl", f, q)
  BY <1>1, <1>3, <1>8, <1>9, ConnChange
<1>11. TypeOK'
  BY <1>1, <1>3, <1>6, <1>10, Facts DEF TypeOK, ConnChanged, client
<1>12. ClientRight' /\ AnswerIsMine'
  BY <1>1 DEF IInv, ClientRight, AnswerIsMine, client
<1>13. UNCHANGED <<k, cpc, io, taken>>
  BY <1>1 DEF client
<1>14. \A t \in Types, i \in Opens : conn'[t][i].c <=> conn[t][i].c
  BY <1>9, <1>10 DEF ConnChanged
<1>15. OnlyThisOpen'
  BY <1>11, <1>13, <1>14, OpenFrame
<1>16. FreshOpens'
  <2>1. \A t \in Types, i \in Opens : Fresh(t, i)' <=> Fresh(t, i)
    BY <1>13 DEF Fresh
  <2>2. \A t \in Types, i \in Opens : Fresh(t, i) => conn'[t][i] = conn[t][i]
    BY <1>3, <1>5, <1>10 DEF ConnChanged
  <2>3. \A t \in Types, i \in Opens : Waiting(t, i)' => Waiting(t, i)
    BY <1>7 DEF Types
  <2> QED BY <1>1, <1>3, <1>5, <2>1, <2>2, <2>3 DEF IInv, FreshOpens
<1>17. BacklogRight'
  <2>1. \A t \in Types : Len(backlog'[t]) <= 1
    <3>1. Len(backlog'["ctrl"]) <= 1
      BY <1>6
    <3>2. Len(backlog'["data"]) <= 1
      BY <1>1, <1>6 DEF IInv, BacklogRight
    <3> QED BY <3>1, <3>2 DEF Types
  <2> QED BY <1>1, <1>7, <2>1 DEF IInv, BacklogRight
<1>18. ListenerRight'
  BY <1>1, <1>3, <1>5, <1>9, <1>10 DEF ListenerRight, ConnChanged
<1>19. ContextsRight'
  <2>1. \A i \in Opens : conn["ctrl"][i].s => conn'["ctrl"][i].s
    BY <1>1, <1>3, <1>9, <1>10 DEF ConnChanged
  <2> QED BY <1>1, <2>1 DEF IInv, ContextsRight, ContextRight
<1>20. DataOfOne'
  BY <1>1 DEF IInv, DataOfOne
<1>21. cpc # "closed" => k \in Opens
  BY DEF IInv, ClientRight
<1>22. RequestRight'
  <2>1. cpc # "closed" => /\ conn'["ctrl"][k].toS = conn["ctrl"][k].toS
                          /\ conn'["ctrl"][k].toC = conn["ctrl"][k].toC
                          /\ conn'["ctrl"][k].c = conn["ctrl"][k].c
                          /\ k # f => conn'["ctrl"][k].s = conn["ctrl"][k].s
    BY <1>1, <1>3, <1>9, <1>10, <1>21 DEF ConnChanged
  <2>2. cpc # "closed" => (Alive("ctrl", k)' => Alive("ctrl", k))
    BY <1>4, <1>7, <1>13, <1>21, <2>1 DEF Alive
  <2> QED BY <1>1, <1>13, <2>1, <2>2, RequestFrame
<1>23. DataRight'
  <2>1. cpc = "open" => conn'["data"][k].toC = conn["data"][k].toC
    BY <1>1, <1>3, <1>10, <1>21 DEF ConnChanged
  <2> QED BY <1>1, <1>13, <2>1, DataFrame
<1> QED BY <1>11, <1>12, <1>15, <1>16, <1>17, <1>18, <1>19, <1>20, <1>22, <1>23 DEF IInv

(* The listener gives up the control connection it has accepted; the data  *)
(* connection it may have taken with it is lost, too.                      *)
LEMMA GivenUp ==
    ASSUME IInv, up, lpc = "data", lpc' = "accept", OpenFails, UNCHANGED <<f_ctrl, up, ctx, client>>,
           backlog' \in [Types -> Seq(Opens)],
           \A t \in Types : Len(backlog'[t]) <= 1,
           \A t \in Types, i \in Opens : Waiting(t, i)' => Waiting(t, i)
    PROVE  IInv'
<1> DEFINE q == [conn["ctrl"][f_ctrl] EXCEPT !.s = FALSE]
<1>1. /\ TypeOK /\ f_ctrl \in Opens /\ ctx[f_ctrl].ctrl = 0
      /\ "ctrl" \in Types /\ "data" \in Types /\ "ctrl" # "data"
      /\ UNCHANGED <<k, cpc, io, taken>>
  BY Facts DEF IInv, ListenerRight, client
<1>2. conn' = [conn EXCEPT !["ctrl"] = [conn["ctrl"] EXCEPT ![f_ctrl] = q]]
  BY DEF OpenFails
<1>3. /\ q \in Conns /\ q.c = conn["ctrl"][f_ctrl].c /\ q.s = FALSE
      /\ q.toS = conn["ctrl"][f_ctrl].toS /\ q.toC = conn["ctrl"][f_ctrl].toC
  <2>1. conn["ctrl"][f_ctrl] \in Conns
    BY <1>1, Facts
  <2> QED BY <2>1 DEF Conns
<1> HIDE DEF q
<1>4. ConnChanged("ctrl", f_ctrl, q)
  BY <1>1, <1>2, <1>3, ConnChange
<1>5. TypeOK'
  BY <1>1, <1>4 DEF TypeOK, ConnChanged, client
<1>6. ClientRight' /\ AnswerIsMine'
  BY DEF IInv, ClientRight, AnswerIsMine, client
<1>7. \A t \in Types, i \in Opens : conn'[t][i].c <=> conn[t][i].c
  BY <1>3, <1>4 DEF ConnChanged
<1>8. OnlyThisOpen'
  BY <1>1, <1>5, <1>7, OpenFrame
<1>9. FreshOpens'
  <2>1. \A t \in Types, i \in Opens : Fresh(t, i)' <=> Fresh(t, i)
    BY <1>1 DEF Fresh
  <2>2. \A i \in Opens : Fresh("ctrl", i) => i # f_ctrl
    BY <1>1 DEF IInv, FreshOpens
  <2>3. \A t \in Types, i \in Opens : Fresh(t, i) => conn'[t][i] = conn[t][i]
    BY <1>1, <1>4, <2>2 DEF ConnChanged
  <2> QED BY <1>1, <2>1, <2>3 DEF IInv, FreshOpens
<1>10. BacklogRight'
  BY <1>1 DEF IInv, BacklogRight
<1>11. ListenerRight'
  BY DEF ListenerRight
<1>12. ContextsRight'
  <2>1. ctx[f_ctrl].control = "none"
    BY <1>1 DEF IInv, ContextsRight, ContextRight
  <2>2. \A i \in Opens : ctx[i].control # "none" => conn'["ctrl"][i] = conn["ctrl"][i]
    BY <1>1, <1>4, <2>1 DEF ConnChanged
  <2> QED BY <2>2 DEF IInv, ContextsRight, ContextRight
<1>13. DataOfOne'
  BY DEF IInv, DataOfOne
<1>14. cpc # "closed" => k \in Opens
  BY DEF IInv, ClientRight
<1>15. RequestRight'
  <2>1. cpc # "closed" => /\ conn'["ctrl"][k].toS = conn["ctrl"][k].toS
                          /\ conn'["ctrl"][k].toC = conn["ctrl"][k].toC
                          /\ conn'["ctrl"][k].c = conn["ctrl"][k].c
                          /\ conn'["ctrl"][k].s => conn["ctrl"][k].s
    BY <1>1, <1>3, <1>4, <1>14 DEF ConnChanged
  <2>2. cpc # "closed" => (Alive("ctrl", k)' => Alive("ctrl", k))
    BY <1>1, <1>14, <2>1 DEF Alive
  <2> QED BY <1>1, <2>1, <2>2, RequestFrame
<1>16. DataRight'
  <2>1. cpc = "open" => conn'["data"][k].toC = conn["data"][k].toC
    BY <1>1, <1>4, <1>14 DEF ConnChanged
  <2> QED BY <1>1, <2>1, DataFrame
<1> QED BY <1>5, <1>6, <1>8, <1>9, <1>10, <1>11, <1>12, <1>13, <1>15, <1>16 DEF IInv

LEMMA AcceptFailsKeeps ==
    ASSUME IInv, AcceptFails
    PROVE  IInv'
<1>1. \A t \in Types, i \in Opens : Waiting(t, i)' => Waiting(t, i)
  BY WaitingSame DEF AcceptFails
<1>2. backlog' \in [Types -> Seq(Opens)] /\ \A t \in Types : Len(backlog'[t]) <= 1
  BY DEF IInv, TypeOK, BacklogRight, AcceptFails
<1> QED BY <1>1, <1>2, GivenUp DEF AcceptFails, OpenFails

LEMMA AcceptDataKeeps ==
    ASSUME IInv, AcceptData
    PROVE  IInv'
<1> DEFINE d == Head(backlog["data"])
           q == [conn["data"][d] EXCEPT !.s = TRUE]
           r == [NoCtx EXCEPT !.ctrl = f_ctrl, !.data = d, !.control = "read", !.writer = "run",
                              !.fd_control = TRUE, !.fd_data = TRUE]
<1>1. /\ TypeOK /\ up /\ lpc = "data" /\ lpc' = "accept" /\ f_ctrl \in Opens
      /\ conn["ctrl"][f_ctrl].s /\ ctx[f_ctrl].ctrl = 0
      /\ "ctrl" \in Types /\ "data" \in Types /\ "ctrl" # "data" /\ 0 \notin Opens
      /\ UNCHANGED <<f_ctrl, up, client>>
  BY Facts DEF IInv, ListenerRight, AcceptData
<1>2. /\ backlog["data"] # <<>> /\ backlog["data"] \in Seq(Opens) /\ Len(backlog["data"]) <= 1
  BY <1>1, Facts DEF IInv, BacklogRight, AcceptData
<1>3. /\ Len(backlog["data"]) = 1 /\ d = backlog["data"][1] /\ d \in Opens
      /\ Tail(backlog["data"]) = <<>>
  BY <1>2, Short
<1>4. Waiting("data", d)
  BY <1>3 DEF Waiting
<1>5. /\ backlog' \in [Types -> Seq(Opens)]
      /\ backlog'["data"] = <<>> /\ backlog'["ctrl"] = backlog["ctrl"]
  BY <1>1, <1>3 DEF AcceptData, TypeOK
<1>6. /\ \A i \in Opens : ~Waiting("data", i)'
      /\ \A i \in Opens : Waiting("ctrl", i)' <=> Waiting("ctrl", i)
  BY <1>5 DEF Waiting
<1>7. \A t \in Types : Len(backlog'[t]) <= 1
  <2>1. Len(backlog'["data"]) <= 1
    BY <1>5
  <2>2. Len(backlog'["ctrl"]) <= 1
    BY <1>1, <1>5 DEF IInv, BacklogRight
  <2> QED BY <2>1, <2>2 DEF Types
<1>8. \A t \in Types, i \in Opens : Waiting(t, i)' => Waiting(t, i)
  BY <1>6 DEF Types
<1>9. ASSUME OpenFails, UNCHANGED ctx PROVE IInv'
  BY <1>1, <1>5, <1>7, <1>8, <1>9, GivenUp
<1>10. ASSUME conn' = [conn EXCEPT !["data"] = [conn["data"] EXCEPT ![d] = q]],
              ctx' = [ctx EXCEPT ![f_ctrl] = r]
       PROVE  IInv'
  <2>1. /\ q \in Conns /\ q.c = conn["data"][d].c /\ q.toC = conn["data"][d].toC
    <3>1. conn["data"][d] \in Conns
      BY <1>1, <1>3, Facts
    <3> QED BY <3>1 DEF Conns
  <2>2. /\ r \in Contexts /\ r.ctrl = f_ctrl /\ r.data = d /\ r.control = "read" /\ r.writer = "run"
        /\ r.fd_control = TRUE /\ r.fd_data = TRUE /\ r.freed = FALSE /\ r.sent = 0
    <3>1. d \in 0..MaxOpens /\ f_ctrl \in 0..MaxOpens
      BY <1>1, <1>3, Facts
    <3> QED BY <3>1 DEF NoCtx, Contexts
  <2> HIDE DEF d, q, r
  <2>3. ConnChanged("data", d, q) /\ CtxChanged(f_ctrl, r)
    BY <1>1, <1>3, <1>10, <2>1, <2>2, ConnChange, CtxChange
  <2>4. TypeOK'
    BY <1>1, <1>5, <2>3 DEF TypeOK, ConnChanged, CtxChanged, client
  <2>5. ClientRight' /\ AnswerIsMine' /\ UNCHANGED <<k, cpc, io, taken>>
    BY <1>1 DEF IInv, ClientRight, AnswerIsMine, client
  <2>6. \A t \in Types, i \in Opens : conn'[t][i].c <=> conn[t][i].c
    BY <2>1, <2>3 DEF ConnChanged
  <2>7. OnlyThisOpen'
    BY <2>4, <2>5, <2>6, OpenFrame
  <2>8. ~Fresh("data", d) /\ ~Fresh("ctrl", f_ctrl) /\ \A j \in Opens : ctx[j].data # d
    BY <1>1, <1>3, <1>4 DEF IInv, FreshOpens, BacklogRight
  <2>9. FreshOpens'
    <3>1. \A t \in Types, i \in Opens : Fresh(t, i)' <=> Fresh(t, i)
      BY <2>5 DEF Fresh
    <3>2. \A t \in Types, i \in Opens : Fresh(t, i) => conn'[t][i] = conn[t][i]
      BY <1>3, <2>3, <2>8 DEF ConnChanged
    <3>3. \A i \in Opens : Fresh("ctrl", i) => ctx'[i].ctrl = 0 /\ i # f_ctrl'
      BY <1>1, <2>3, <2>8 DEF IInv, FreshOpens, CtxChanged
    <3>4. \A i, j \in Opens : Fresh("data", i) => ctx'[j].data # i
      BY <1>1, <1>3, <2>2, <2>3, <2>8 DEF IInv, FreshOpens, CtxChanged
    <3> QED BY <1>1, <1>8, <3>1, <3>2, <3>3, <3>4 DEF IInv, FreshOpens
  <2>10. BacklogRight'
    <3>1. ~Waiting("ctrl", f_ctrl)
      BY <1>1 DEF IInv, BacklogRight
    <3>2. \A i \in Opens : Waiting("ctrl", i)' => ctx'[i].ctrl = 0
      BY <1>1, <1>6, <2>3, <3>1 DEF IInv, BacklogRight, CtxChanged
    <3> QED BY <1>1, <1>6, <1>7, <3>2 DEF BacklogRight
  <2>11. ListenerRight'
    BY <1>1 DEF ListenerRight
  <2>12. ContextsRight'
    <3>1. \A i \in Opens : conn'["ctrl"][i] = conn["ctrl"][i]
      BY <1>1, <1>3, <2>3 DEF ConnChanged
    <3>2. ContextRight(f_ctrl)'
      BY <1>1, <1>3, <2>2, <2>3, <3>1 DEF ContextRight, CtxChanged
    <3>3. ASSUME NEW j \in Opens, j # f_ctrl PROVE ContextRight(j)'
      <4>1. ContextRight(j) /\ ctx'[j] = ctx[j] /\ conn'["ctrl"][j] = conn["ctrl"][j] /\ up' = up
        BY <1>1, <2>3, <3>1, <3>3 DEF IInv, ContextsRight, CtxChanged
      <4> QED BY <4>1 DEF ContextRight
    <3> QED BY <1>1, <3>2, <3>3 DEF ContextsRight
  <2>13. DataOfOne'
    <3>1. \A j \in Opens : j # f_ctrl => ctx'[j].data = ctx[j].data /\ ctx'[j].data # d
      BY <2>3, <2>8 DEF CtxChanged
    <3>2. ctx'[f_ctrl].data = d
      BY <2>2, <2>3 DEF CtxChanged
    <3> QED BY <1>1, <3>1, <3>2 DEF IInv, DataOfOne
  <2>14. cpc # "closed" => k \in Opens
    BY DEF IInv, ClientRight
  <2>15. RequestRight'
    <3>1. cpc # "closed" => conn'["ctrl"][k] = conn["ctrl"][k]
      BY <1>1, <1>3, <2>3, <2>14 DEF ConnChanged
    <3>2. ctx[f_ctrl].control = "none"
      BY <1>1 DEF IInv, ContextsRight, ContextRight
    <3>3. cpc # "closed" => /\ ctx'[k].control = "answer" <=> ctx[k].control = "answer"
                            /\ ctx[k].control = "answer" => ctx'[k].req = ctx[k].req
      BY <1>1, <2>2, <2>3, <2>14, <3>2 DEF CtxChanged
    <3>4. cpc # "closed" => (Alive("ctrl", k)' => Alive("ctrl", k))
      BY <1>1, <1>8, <2>5, <2>14, <3>1 DEF Alive
    <3> QED BY <2>5, <3>1, <3>3, <3>4, RequestFrame
  <2>16. DataRight'
    <3> SUFFICES ASSUME cpc = "open" PROVE DataRight'
      BY <2>5 DEF DataRight
    <3>1. k \in Opens /\ conn'["data"][k].toC = conn["data"][k].toC /\ k' = k /\ taken' = taken
      BY <1>1, <1>3, <2>1, <2>3, <2>5, <2>14 DEF ConnChanged
    <3>2. CASE d = k
      <4>1. conn["data"][k].toC = <<>> /\ taken = 0
        BY <2>8, <3>2 DEF IInv, DataRight
      <4>2. \A i \in Opens : ctx'[i].data = k => i = f_ctrl
        BY <2>3, <2>8, <3>2 DEF CtxChanged
      <4>3. ctx'[f_ctrl].sent = 0 /\ ctx'[f_ctrl].data = k
        BY <2>2, <2>3, <3>2 DEF CtxChanged
      <4>4. Len(<<>>) = 0
        OBVIOUS
      <4> QED BY <1>1, <3>1, <4>1, <4>2, <4>3, <4>4 DEF DataRight
    <3>3. CASE d # k
      <4>1. ctx[f_ctrl].data # k
        BY <1>1, <3>1 DEF IInv, ContextsRight, ContextRight
      <4>2. \A i \in Opens : /\ ctx'[i].data = k <=> ctx[i].data = k
                             /\ ctx'[i].data = k => ctx'[i].sent = ctx[i].sent
        BY <2>2, <2>3, <3>3, <4>1 DEF CtxChanged
      <4>3. \A n \in 1..Len(conn'["data"][k'].toC) : conn'["data"][k'].toC[n] = taken' + n
        BY <3>1 DEF IInv, DataRight
      <4>4. (\A i \in Opens : ctx'[i].data # k') => conn'["data"][k'].toC = <<>> /\ taken' = 0
        BY <3>1, <4>2 DEF IInv, DataRight
      <4>5. \A i \in Opens : ctx'[i].data = k' => ctx'[i].sent = taken' + Len(conn'["data"][k'].toC)
        BY <3>1, <4>2 DEF IInv, DataRight
      <4> QED BY <4>3, <4>4, <4>5 DEF DataRight
    <3> QED BY <3>2, <3>3
  <2> QED BY <2>4, <2>5, <2>7, <2>9, <2>10, <2>11, <2>12, <2>13, <2>15, <2>16 DEF IInv
<1> QED BY <1>9, <1>10 DEF AcceptData

LEMMA ServerEndsKeeps ==
    ASSUME IInv, ServerEnds
    PROVE  IInv'
<1>1. /\ TypeOK /\ "ctrl" \in Types /\ "data" \in Types /\ up' = FALSE
      /\ UNCHANGED <<lpc, f_ctrl, client>> /\ UNCHANGED <<k, cpc, io, taken>>
  BY Facts DEF IInv, ServerEnds, client
<1>2. /\ conn' \in Table
      /\ \A t \in Types, i \in Opens :
            /\ conn'[t][i].c = conn[t][i].c /\ conn'[t][i].s = FALSE
            /\ conn'[t][i].toS = conn[t][i].toS /\ conn'[t][i].toC = conn[t][i].toC
            /\ conn[t][i] = NoConn => conn'[t][i] = NoConn
  <2>1. \A e \in Conns : /\ [e EXCEPT !.s = FALSE] \in Conns
                         /\ [e EXCEPT !.s = FALSE].c = e.c /\ [e EXCEPT !.s = FALSE].s = FALSE
                         /\ [e EXCEPT !.s = FALSE].toS = e.toS /\ [e EXCEPT !.s = FALSE].toC = e.toC
    BY DEF Conns
  <2>2. [NoConn EXCEPT !.s = FALSE] = NoConn
    <3>1. \A e \in Conns : e.s = FALSE => [e EXCEPT !.s = FALSE] = e
      BY DEF Conns
    <3> QED BY <3>1, NoConnFields
  <2>3. \A t \in Types, i \in Opens :
            conn'[t][i] = [conn[t][i] EXCEPT !.s = FALSE] /\ conn[t][i] \in Conns
    BY <1>1, Facts DEF ServerEnds
  <2>4. \A t \in Types, i \in Opens : conn'[t][i] \in Conns
    BY <2>1, <2>3
  <2>5. conn' \in Table
    BY <2>1, <1>1, Facts DEF ServerEnds, Table
  <2>6. \A t \in Types, i \in Opens :
            /\ conn'[t][i].c = conn[t][i].c /\ conn'[t][i].s = FALSE
            /\ conn'[t][i].toS = conn[t][i].toS /\ conn'[t][i].toC = conn[t][i].toC
    <3> TAKE t \in Types, i \in Opens
    <3>1. PICK e \in Conns : e = conn[t][i] /\ conn'[t][i] = [e EXCEPT !.s = FALSE]
      BY <2>3
    <3> QED BY <3>1 DEF Conns
  <2>7. \A t \in Types, i \in Opens : conn[t][i] = NoConn => conn'[t][i] = NoConn
    BY <2>2, <2>3
  <2> QED BY <2>5, <2>6, <2>7
<1>3. /\ ctx' \in [Opens -> Contexts]
      /\ \A i \in Opens :
            /\ ctx'[i].ctrl = ctx[i].ctrl /\ ctx'[i].data = ctx[i].data /\ ctx'[i].sent = ctx[i].sent
            /\ ctx'[i].control = "none" /\ ctx'[i].writer = "none" /\ ctx'[i].freed = TRUE
            /\ ctx'[i].fd_control = ctx[i].fd_control
  <2> DEFINE E(e) == [e EXCEPT !.control = "none", !.writer = "none", !.freed = TRUE]
  <2>1. \A e \in Contexts : /\ E(e) \in Contexts
                            /\ E(e).ctrl = e.ctrl /\ E(e).data = e.data /\ E(e).sent = e.sent
                            /\ E(e).control = "none" /\ E(e).writer = "none" /\ E(e).freed = TRUE
                            /\ E(e).fd_control = e.fd_control
    BY DEF Contexts
  <2>2. ctx' = [i \in Opens |-> E(ctx[i])] /\ \A i \in Opens : ctx[i] \in Contexts
    BY <1>1, Facts DEF ServerEnds
  <2> HIDE DEF E
  <2> QED BY <2>1, <2>2
<1>4. backlog' = [t \in Types |-> <<>>]
  BY DEF ServerEnds
<1>5. /\ backlog' \in [Types -> Seq(Opens)] /\ \A t \in Types : backlog'[t] = <<>> /\ Len(backlog'[t]) <= 1
      /\ \A t \in Types, i \in Opens : ~Waiting(t, i)'
  BY <1>4 DEF Waiting
<1>6. TypeOK'
  BY <1>1, <1>2, <1>3, <1>5 DEF TypeOK, client
<1>7. ClientRight' /\ AnswerIsMine'
  BY <1>1 DEF IInv, ClientRight, AnswerIsMine, client
<1>8. OnlyThisOpen'
  BY <1>1, <1>2, <1>6, OpenFrame
<1>9. FreshOpens'
  <2>1. \A t \in Types, i \in Opens : Fresh(t, i)' <=> Fresh(t, i)
    BY <1>1 DEF Fresh
  <2> QED BY <1>1, <1>2, <1>3, <1>5, <2>1 DEF IInv, FreshOpens
<1>10. BacklogRight'
  BY <1>1, <1>5 DEF BacklogRight
<1>11. ListenerRight'
  BY <1>1 DEF ListenerRight
<1>12. ContextsRight'
  BY <1>1, <1>3 DEF IInv, ContextsRight, ContextRight
<1>13. DataOfOne'
  BY <1>3 DEF IInv, DataOfOne
<1>14. cpc # "closed" => k \in Opens
  BY DEF IInv, ClientRight
<1>15. RequestRight'
  <2>1. cpc # "closed" => /\ conn'["ctrl"][k].toS = conn["ctrl"][k].toS
                          /\ conn'["ctrl"][k].toC = conn["ctrl"][k].toC
                          /\ ~Alive("ctrl", k)' /\ ctx'[k].control = "none"
    BY <1>1, <1>2, <1>3, <1>5, <1>14 DEF Alive
  <2>2. io.state = "wait" => cpc = "open"
    BY DEF IInv, ClientRight
  <2> QED BY <1>1, <2>1, <2>2 DEF IInv, RequestRight, OneRequest
<1>16. DataRight'
  <2>1. cpc = "open" => conn'["data"][k].toC = conn["data"][k].toC
    BY <1>1, <1>2, <1>14
  <2> QED BY <1>1, <1>3, <2>1, DataFrame
<1> QED BY <1>6, <1>7, <1>8, <1>9, <1>10, <1>11, <1>12, <1>13, <1>15, <1>16 DEF IInv

-----------------------------------------------------------------------------
LEMMA InitIInv == Init => IInv
<1> SUFFICES ASSUME Init PROVE IInv
  OBVIOUS
<1>1. /\ \A t \in Types, i \in Opens : conn[t][i] = NoConn
      /\ \A i \in Opens : ctx[i] = NoCtx
      /\ \A t \in Types : backlog[t] = <<>>
  BY DEF Init
<1>2. /\ NoCtx \in Contexts /\ NoCtx.ctrl = 0 /\ NoCtx.data = 0 /\ NoCtx.control = "none"
      /\ NoCtx.writer = "none" /\ NoCtx.fd_control = FALSE /\ NoCtx.freed = FALSE
  BY SessionAssumption DEF NoCtx, Contexts
<1>3. TypeOK
  BY <1>2, NoConnFields, SessionAssumption DEF Init, TypeOK, Table, NoIo
<1>4. \A t \in Types, i \in Opens : ~Waiting(t, i)
  BY <1>1 DEF Waiting
<1>5. "ctrl" \in Types /\ "data" \in Types /\ 0 \notin Opens
  BY <1>3, Facts
<1>6. ClientRight /\ AnswerIsMine
  BY DEF Init, ClientRight, AnswerIsMine, NoIo
<1>7. OnlyThisOpen
  BY <1>1, NoConnFields DEF Init, OnlyThisOpen
<1>8. FreshOpens
  BY <1>1, <1>2, <1>4, <1>5 DEF Init, FreshOpens
<1>9. BacklogRight
  <2>1. Len(<<>>) <= 1
    OBVIOUS
  <2> QED BY <1>1, <1>4, <1>5, <2>1 DEF Init, BacklogRight
<1>10. ListenerRight /\ RequestRight /\ DataRight
  BY DEF Init, ListenerRight, RequestRight, DataRight, NoIo
<1>11. ContextsRight /\ DataOfOne
  BY <1>1, <1>2 DEF Init, ContextsRight, ContextRight, DataOfOne
<1> QED BY <1>3, <1>6, <1>7, <1>8, <1>9, <1>10, <1>11 DEF IInv

LEMMA NextIInv == IInv /\ [Next]_vars => IInv'
<1> SUFFICES ASSUME IInv, [Next]_vars PROVE IInv'
  OBVIOUS
<1>1. CASE vtunerc_open BY <1>1, OpenKeeps
<1>2. CASE OpenData BY <1>2, OpenDataKeeps
<1>3. CASE SendRequest BY <1>3, SendRequestKeeps
<1>4. CASE TakeAnswer BY <1>4, TakeAnswerKeeps
<1>5. CASE PollThread BY <1>5, PollThreadKeeps
<1>6. CASE vtunerc_close BY <1>6, CloseKeeps
<1>7. CASE CloseEnd BY <1>7, CloseEndKeeps
<1>8. ASSUME NEW len \in 1..PacketSize, vtunerc_do_peer_read(len) PROVE IInv'
  BY <1>8, PeerReadKeeps
<1>9. ASSUME NEW len \in 1..PacketSize, NEW block \in BOOLEAN, vtunerc_read(block, len) PROVE IInv'
  BY <1>9, ReadKeeps
<1>10. CASE Listener BY <1>10, AcceptControlKeeps, AcceptDataKeeps DEF Listener
<1>11. CASE AcceptFails BY <1>11, AcceptFailsKeeps
<1>12. CASE Alarm \/ ServerEnds BY <1>12, ServerEndsKeeps DEF Alarm
<1>13. ASSUME NEW i \in Opens, Control(i) PROVE IInv'
  BY <1>13, ReadRequestKeeps, WriteAnswerKeeps, ControlEndsKeeps DEF Control
<1>14. ASSUME NEW i \in Opens, Writer(i) PROVE IInv'
  BY <1>14, WriteDataKeeps, WriterStopsKeeps, WriterEndsKeeps DEF Writer
<1>15. CASE UNCHANGED vars
  BY <1>15 DEF vars, server, client, IInv, TypeOK, ClientRight, OnlyThisOpen, FreshOpens, Fresh,
     BacklogRight, ListenerRight, ContextsRight, ContextRight, DataOfOne, RequestRight, OneRequest,
     DataRight, AnswerIsMine, Waiting, Alive
<1> QED BY <1>1, <1>2, <1>3, <1>4, <1>5, <1>6, <1>7, <1>8, <1>9, <1>10, <1>11, <1>12, <1>13,
           <1>14, <1>15 DEF Next

(* The invariant holds in every reachable state, whatever the order in     *)
(* which connections are made, accepted, broken and closed.                *)
THEOREM Inductive == Spec => []IInv
BY InitIInv, NextIInv, PTL DEF Spec

(* vtuners_control_thread() and vtuners_writer_thread(): the one that      *)
(* leaves last, and no other, frees the context; vtunerc_close() comes     *)
(* back after the poll thread has left.                                    *)
THEOREM Freed == Spec => []FreedOnce
<1>1. IInv => FreedOnce
  <2> SUFFICES ASSUME IInv PROVE FreedOnce
    OBVIOUS
  <2>1. FreedLast /\ NothingLeft
    BY DEF IInv, ContextsRight, ContextRight, FreedLast, NothingLeft, TypeOK
  <2> QED BY <2>1 DEF IInv, ClientRight, FreedOnce, ClientFreedLast
<1> QED BY <1>1, Inductive, PTL

(* vtunerc_do_message() takes the answer to its own request, and           *)
(* vtuners_listen_worker() joins no connections of two live opens.         *)
THEOREM Paired == Spec => []AnswersPaired
<1>1. IInv => AnswersPaired
  <2> SUFFICES ASSUME IInv PROVE AnswersPaired
    OBVIOUS
  <2>1. PairedOrGivenUp
    <3> SUFFICES ASSUME NEW i \in Opens, ctx[i].ctrl # ctx[i].data, ctx[i].fd_control
                 PROVE  ~conn["ctrl"][ctx[i].ctrl].c \/ ~conn["data"][ctx[i].data].c
      BY DEF PairedOrGivenUp
    <3>1. ctx[i].ctrl = i /\ ctx[i].data \in Opens
      BY DEF IInv, ContextsRight, ContextRight
    <3> QED BY <3>1 DEF IInv, OnlyThisOpen, Types
  <2> QED BY <2>1 DEF IInv, AnswersPaired
<1> QED BY <1>1, Inductive, PTL

(* vtunerc_read() gives the packets of an open in order, none twice and    *)
(* none left out.                                                          *)
THEOREM InOrder == Spec => DataInOrder
<1>1. IInv /\ [Next]_vars => [taken' # taken => taken' \in {0, taken + 1}]_vars
  <2> SUFFICES ASSUME IInv, Next, taken' # taken PROVE taken' \in {0, taken + 1}
    OBVIOUS
  <2>1. \/ vtunerc_open
        \/ \E len \in 1..PacketSize : vtunerc_do_peer_read(len)
    BY DEF Next, OpenData, SendRequest, TakeAnswer, PollThread, vtunerc_close, CloseEnd, vtunerc_read,
       Listener, AcceptControl, AcceptData, AcceptFails, Alarm, ServerEnds, Control, ReadRequest,
       WriteAnswer, ControlEnds, Writer, WriteData, WriterStops, WriterEnds, client
  <2>2. CASE vtunerc_open
    BY <2>2 DEF vtunerc_open
  <2>3. ASSUME NEW len \in 1..PacketSize, vtunerc_do_peer_read(len) PROVE taken' = taken + 1
    <3>1. cpc = "open"
      BY <2>3 DEF IInv, ClientRight, vtunerc_do_peer_read
    <3>2. conn["data"][k].toC # <<>> /\ taken' = Head(conn["data"][k].toC)
      BY <2>3 DEF vtunerc_do_peer_read
    <3> QED BY <3>1, <3>2, ReadNext
  <2> QED BY <2>1, <2>2, <2>3
<1> QED BY <1>1, Inductive, PTL DEF Spec, DataInOrder

-----------------------------------------------------------------------------
(* VtunerMessages. *)

(* The members that the device takes are packed, sent, and found by the    *)
(* server; those that it gives are put back, sent, and given to the user.  *)
Carried(c) ==
    /\ Takes(c) \subseteq Client(c).packs \cap Client(c).rx
    /\ Server(c).direct \/ Takes(c) \subseteq Server(c).takes
    /\ Gives(c) \subseteq Client(c).tx \cap Client(c).unpacks
    /\ Server(c).direct \/ Gives(c) \subseteq Server(c).puts

(* What the device takes and gives, by the kind of request. *)
LEMMA Directions ==
    ASSUME NEW c \in Cmds
    PROVE  /\ c \in Plain => Takes(c) = {} /\ Gives(c) = {}
           /\ c \in Set32 \cup Set16 \cup SetStruct => Takes(c) = Struct(c) /\ Gives(c) = {}
           /\ c \in Get32 \cup Get16 \cup GetStruct => Takes(c) = {} /\ Gives(c) = Struct(c)
           /\ c \in Both => Takes(c) \subseteq Struct(c) /\ Gives(c) \subseteq Struct(c)
  <1>1. CASE c \in Plain
    BY <1>1 DEF Takes, Gives, Plain, Set32, Set16, SetStruct, Get32, Get16, GetStruct, Both
  <1>2. CASE c \in Set32 \cup Set16 \cup SetStruct
    BY <1>2 DEF Takes, Gives, Plain, Set32, Set16, SetStruct, Get32, Get16, GetStruct, Both
  <1>3. CASE c \in Get32 \cup Get16 \cup GetStruct
    BY <1>3 DEF Takes, Gives, Plain, Set32, Set16, SetStruct, Get32, Get16, GetStruct, Both
  <1>4. CASE c \in Both
    <2>1. c \notin Plain \cup Set32 \cup Set16 \cup SetStruct \cup Get32 \cup Get16 \cup GetStruct
      BY <1>4 DEF Plain, Set32, Set16, SetStruct, Get32, Get16, GetStruct, Both
    <2>2. CASE c = "DMX_GET_STC"
      BY <2>1, <2>2 DEF Takes, Gives, Struct
    <2>3. CASE c = "FE_DISEQC_RECV_SLAVE_REPLY"
      BY <2>1, <2>3 DEF Takes, Gives, Struct
    <2>4. CASE c = "FE_GET_PROPERTY"
      BY <2>1, <2>4 DEF Takes, Gives, Struct
    <2>5. CASE c = "FE_GET_PROPERTY diseqc"
      BY <2>1, <2>5 DEF Takes, Gives, Struct
    <2> QED
      BY <1>4, <2>1, <2>2, <2>3, <2>4, <2>5 DEF Both
  <1> QED
    BY <1>1, <1>2, <1>3, <1>4 DEF Cmds

LEMMA CarriedDmx ==
    ASSUME NEW c \in Dmx
    PROVE  Carried(c)
  <1>1. Client(c) = ClientDmx(c) /\ Server(c) = ServerDmx(c)
    BY DEF Client, Server, Dmx, Property, Get32, Get16, Tuning
  <1>2. c \in Cmds
    BY DEF Dmx, Cmds, Plain, Set32, Set16, SetStruct, GetStruct, Both
  <1>3. CASE c \in {"DMX_START", "DMX_STOP"}
    <2>1. Takes(c) = {} /\ Gives(c) = {}
      BY <1>2, <1>3, Directions DEF Plain
    <2> QED
      BY <2>1 DEF Carried
  <1>4. CASE c \in {"DMX_SET_FILTER", "DMX_SET_PES_FILTER"}
    <2>1. Takes(c) = Struct(c) /\ Gives(c) = {}
      BY <1>2, <1>4, Directions DEF SetStruct
    <2> QED
      BY <1>1, <1>4, <2>1 DEF Carried, ClientDmx, ServerDmx, Sends, InCopy
  <1>5. CASE c \in {"DMX_SET_BUFFER_SIZE", "DMX_ADD_PID", "DMX_REMOVE_PID"}
    <2>1. Takes(c) = Struct(c) /\ Gives(c) = {}
      BY <1>2, <1>5, Directions DEF Set32, Set16
    <2>2. Client(c) = Sends(c) /\ Server(c) = InMessage
      BY <1>1, <1>5 DEF ClientDmx, ServerDmx
    <2> QED
      BY <2>1, <2>2 DEF Carried, Sends, InMessage
  <1>6. CASE c = "DMX_GET_PES_PIDS"
    <2>1. Takes(c) = {} /\ Gives(c) = Struct(c)
      BY <1>2, <1>6, Directions DEF GetStruct
    <2> QED
      BY <1>1, <1>6, <2>1 DEF Carried, ClientDmx, ServerDmx, Asks, InMessage
  <1>7. CASE c = "DMX_GET_STC"
    <2>1. Takes(c) \subseteq Struct(c) /\ Gives(c) \subseteq Struct(c)
      BY <1>2, <1>7, Directions DEF Both
    <2> QED
      BY <1>1, <1>7, <2>1 DEF Carried, ClientDmx, ServerDmx, Exchanges, InCopy
  <1> QED
    BY <1>3, <1>4, <1>5, <1>6, <1>7 DEF Dmx

LEMMA CarriedProperty ==
    ASSUME NEW c \in Property
    PROVE  Carried(c)
  <1>1. Client(c) = ClientProperty(c) /\ Server(c) = ServerProperty(c)
    BY DEF Client, Server, Dmx, Property, Get32, Get16, Tuning
  <1>2. c \in Cmds
    BY DEF Property, Cmds, SetStruct, Both
  <1>3. CASE c \in {"FE_SET_PROPERTY", "FE_SET_PROPERTY diseqc"}
    <2>1. Takes(c) = Struct(c) /\ Gives(c) = {}
      BY <1>2, <1>3, Directions DEF SetStruct
    <2>2. Client(c) = Sends(c) /\ Server(c) = InCopy(Struct(c), {})
      BY <1>1, <1>3 DEF ClientProperty, ServerProperty
    <2> QED
      BY <2>1, <2>2 DEF Carried, Sends, InCopy
  <1>4. CASE c \in {"FE_GET_PROPERTY", "FE_GET_PROPERTY diseqc"}
    <2>1. Takes(c) \subseteq Struct(c) /\ Gives(c) \subseteq Struct(c)
      BY <1>2, <1>4, Directions DEF Both
    <2>2. "num" \notin Gives(c)
      <3>1. c \notin Get32 \cup Get16 \cup GetStruct
        BY <1>4 DEF Get32, Get16, GetStruct
      <3> QED
        BY <1>4, <3>1 DEF Gives
    <2>3. /\ Client(c) = Exchanges(c, Struct(c), Struct(c) \ {"num"})
          /\ Server(c) = InCopy(Struct(c), Struct(c) \ {"num"})
      BY <1>1, <1>4 DEF ClientProperty, ServerProperty
    <2> QED
      BY <2>1, <2>2, <2>3 DEF Carried, Exchanges, InCopy
  <1> QED
    BY <1>3, <1>4 DEF Property

LEMMA CarriedRead ==
    ASSUME NEW c \in Get32 \cup Get16
    PROVE  Carried(c)
  <1>1. Client(c) = Asks(c) /\ Server(c) = InMessage
    BY DEF Client, Server, Dmx, Property, Get32, Get16, Tuning, ClientRead, ServerRead
  <1>2. Takes(c) = {} /\ Gives(c) = Struct(c)
    BY Directions DEF Cmds
  <1> QED
    BY <1>1, <1>2 DEF Carried, Asks, InMessage

LEMMA CarriedTuning ==
    ASSUME NEW c \in Tuning
    PROVE  Carried(c)
  <1>1. Client(c) = ClientTuning(c) /\ Server(c) = ServerTuning(c)
    BY DEF Client, Server, Dmx, Property, Get32, Get16, Tuning
  <1>2. c \in Cmds
    BY DEF Tuning, Cmds, SetStruct, GetStruct, Set32
  <1>3. CASE c = "FE_SET_FRONTEND"
    <2>1. Takes(c) = Struct(c) /\ Gives(c) = {}
      BY <1>2, <1>3, Directions DEF SetStruct
    <2> QED
      BY <1>1, <1>3, <2>1 DEF Carried, ClientTuning, ServerTuning, Sends, InCopy
  <1>4. CASE c \in {"FE_GET_FRONTEND", "FE_GET_EVENT"}
    <2>1. Takes(c) = {} /\ Gives(c) = Struct(c)
      BY <1>2, <1>4, Directions DEF GetStruct
    <2>2. Client(c) = Asks(c) /\ Server(c) = InCopy({}, Struct(c))
      BY <1>1, <1>4 DEF ClientTuning, ServerTuning
    <2> QED
      BY <2>1, <2>2 DEF Carried, Asks, InCopy
  <1>5. CASE c \in {"FE_SET_FRONTEND_TUNE_MODE", "FE_DISHNETWORK_SEND_LEGACY_CMD"}
    <2>1. Takes(c) = Struct(c) /\ Gives(c) = {}
      BY <1>2, <1>5, Directions DEF Set32
    <2>2. Client(c) = Sends(c) /\ Server(c) = InMessage
      BY <1>1, <1>5 DEF ClientTuning, ServerTuning
    <2> QED
      BY <2>1, <2>2 DEF Carried, Sends, InMessage
  <1> QED
    BY <1>3, <1>4, <1>5 DEF Tuning

LEMMA CarriedDiseqc ==
    ASSUME NEW c \in Cmds, c \notin Dmx \cup Property \cup Get32 \cup Get16 \cup Tuning
    PROVE  Carried(c)
  <1>1. Client(c) = ClientDiseqc(c) /\ Server(c) = ServerDiseqc(c)
    BY DEF Client, Server
  <1>2. CASE c = "FE_GET_INFO"
    <2>1. Takes(c) = {} /\ Gives(c) = Struct(c)
      BY <1>2, Directions DEF GetStruct
    <2> QED
      BY <1>1, <1>2, <2>1 DEF Carried, ClientDiseqc, ServerDiseqc, Asks, InCopy
  <1>3. CASE c = "FE_DISEQC_RECV_SLAVE_REPLY"
    <2>1. c \notin Set32 \cup Set16 \cup SetStruct \cup Get32 \cup Get16 \cup GetStruct
      BY <1>3 DEF Set32, Set16, SetStruct, Get32, Get16, GetStruct
    <2>2. Takes(c) = {"timeout"} /\ Gives(c) = {"msg", "msg_len"}
      BY <1>3, <2>1 DEF Takes, Gives
    <2>3. Takes(c) \subseteq Struct(c) /\ Gives(c) \subseteq Struct(c)
      BY <1>3, Directions DEF Both
    <2> QED
      BY <1>1, <1>3, <2>2, <2>3 DEF Carried, ClientDiseqc, ServerDiseqc, Exchanges, InCopy
  <1>4. CASE c = "FE_DISEQC_SEND_MASTER_CMD"
    <2>1. Takes(c) = Struct(c) /\ Gives(c) = {}
      BY <1>4, Directions DEF SetStruct
    <2> QED
      BY <1>1, <1>4, <2>1 DEF Carried, ClientDiseqc, ServerDiseqc, Sends, InCopy
  <1>5. CASE c \notin {"FE_GET_INFO", "FE_DISEQC_RECV_SLAVE_REPLY", "FE_DISEQC_SEND_MASTER_CMD"}
    <2>1. Client(c) = Sends(c) /\ Server(c) = InMessage
      BY <1>1, <1>5 DEF ClientDiseqc, ServerDiseqc
    <2>2. c \in Plain \cup Set32
      BY <1>5 DEF Cmds, Dmx, Property, Get32, Get16, Tuning, Set16, SetStruct, GetStruct, Both
    <2>3. Takes(c) \subseteq Struct(c) /\ Gives(c) = {}
      BY <2>2, Directions
    <2> QED
      BY <2>1, <2>3 DEF Carried, Sends, InMessage
  <1> QED
    BY <1>2, <1>3, <1>4, <1>5

LEMMA AllCarried ==
    ASSUME NEW c \in Cmds
    PROVE  Carried(c)
  BY CarriedDmx, CarriedProperty, CarriedRead, CarriedTuning, CarriedDiseqc

(* A member of an argument is one of the members there are. *)
LEMMA MembersRight ==
    ASSUME NEW c \in Cmds
    PROVE  Takes(c) \subseteq Fields /\ Gives(c) \subseteq Fields
  <1>1. Struct(c) \subseteq Fields
    BY DEF Fields
  <1> QED
    BY <1>1, Directions DEF Cmds
-----------------------------------------------------------------------------
(* The inductive invariant: at each stage of a request, where the members  *)
(* are that the device takes, and those it has given.                      *)
MsgInv ==
    /\ req \in Cmds /\ stage \in {"sent", "served", "failed", "done"}
    /\ stage = "sent" => \A f \in Takes(req) : sbuf[f] = Is("user")
    /\ stage = "failed" => ret # 0
    /\ stage = "served" /\ ret = 0 => \A f \in Gives(req) : cbuf[f] = Is("device")
    /\ MessagesArrive

LEMMA MsgInitInv == MsgInit => MsgInv
  <1> SUFFICES ASSUME MsgInit PROVE MsgInv
    OBVIOUS
  <1>1. req = "DMX_START" /\ req \in Cmds /\ req \in Plain
    BY DEF MsgInit, Cmds, Plain
  <1>2. Gives(req) = {}
    BY <1>1, Directions
  <1> QED
    BY <1>1, <1>2 DEF MsgInit, MsgInv, MessagesArrive, RequestArrives, AnswerArrives

LEMMA RequestKeeps ==
    ASSUME MsgInv, NEW c \in Cmds, Request(c)
    PROVE  MsgInv'
  <1>1. CASE /\ stage' = "sent" /\ ret' = 0 /\ req' = c
             /\ sbuf' = Copy(Stale, Client(c).rx, Put(Stale, Client(c).packs, Is("user")))
    <2>1. ASSUME NEW f \in Takes(c)
          PROVE  sbuf'[f] = Is("user")
      <3>1. f \in Client(c).rx /\ f \in Client(c).packs
        BY AllCarried DEF Carried
      <3>2. f \in Fields
        BY MembersRight
      <3> QED
        BY <1>1, <3>1, <3>2 DEF Copy, Put
    <2> QED
      BY <1>1, <2>1 DEF MsgInv, MessagesArrive, RequestArrives, AnswerArrives
  <1>2. CASE stage' = "failed" /\ ret' = -1 /\ req' = c
    BY <1>2 DEF MsgInv, MessagesArrive, RequestArrives, AnswerArrives
  <1> QED
    BY <1>1, <1>2 DEF Request

LEMMA ServeKeeps ==
    ASSUME MsgInv, ~OtherOrder, Serve
    PROVE  MsgInv'
  <1> DEFINE s == Server(req)
             arg == IF s.direct THEN sbuf
                    ELSE Copy(IF s.clears THEN Put(dvb, Struct(req), Is("zero")) ELSE dvb, s.takes, sbuf)
             after(e) == IF e = 0 THEN Put(arg, Gives(req), Is("device")) ELSE arg
             reply(e) == IF s.direct THEN after(e) ELSE Copy(sbuf, s.puts, after(e))
  <1>1. /\ stage = "sent" /\ stage' = "served" /\ req' = req
        /\ seen' = [f \in Fields |-> IF f \in Takes(req) THEN arg[f] ELSE Is("zero")]
        /\ \E e \in Errors :
               \/ cbuf' = Copy(cbuf, Client(req).tx, reply(e)) /\ ret' = e
               \/ ret' = ENXIO
    BY DEF Serve, Convert, Wire
  <1>2. req \in Cmds /\ Carried(req) /\ Takes(req) \subseteq Fields /\ Gives(req) \subseteq Fields
    BY AllCarried, MembersRight DEF MsgInv
  <1>3. ASSUME NEW f \in Takes(req)
        PROVE  seen'[f] = Is("user")
    <2>1. sbuf[f] = Is("user") /\ f \in Fields
      BY <1>1, <1>2 DEF MsgInv
    <2>2. arg[f] = sbuf[f]
      BY <1>2, <2>1 DEF Carried, Copy
    <2> QED
      BY <1>1, <2>1, <2>2
  <1>4. ASSUME NEW f \in Gives(req), ret' = 0
        PROVE  cbuf'[f] = Is("device")
    <2>1. cbuf' = Copy(cbuf, Client(req).tx, reply(0))
      BY <1>1, <1>4 DEF ENXIO
    <2>2. f \in Fields /\ f \in Client(req).tx
      BY <1>2 DEF Carried
    <2>3. after(0)[f] = Is("device")
      BY <2>2 DEF Put
    <2>4. reply(0)[f] = Is("device")
      BY <1>2, <2>2, <2>3 DEF Carried, Copy
    <2> QED
      BY <2>1, <2>2, <2>4 DEF Copy
  <1> QED
    BY <1>1, <1>2, <1>3, <1>4 DEF MsgInv, MessagesArrive, RequestArrives, AnswerArrives

LEMMA FinishKeeps ==
    ASSUME MsgInv, Finish
    PROVE  MsgInv'
  <1>1. ASSUME NEW f \in Gives(req), ret = 0
        PROVE  got'[f] = Is("device")
    <2>1. stage = "served" /\ cbuf[f] = Is("device")
      BY <1>1 DEF MsgInv, Finish
    <2>2. f \in Fields /\ f \in Client(req).unpacks
      BY AllCarried, MembersRight DEF MsgInv, Carried
    <2> QED
      BY <2>1, <2>2 DEF Finish
  <1> QED
    BY <1>1 DEF Finish, MsgInv, MessagesArrive, RequestArrives, AnswerArrives

(* Between peers of one byte order, for every ioctl and after any history  *)
(* of requests, faults and errors that left their traces in the buffers:   *)
(* vtuners_process_msg() gives the device what the user passed, and        *)
(* vtunerc_process_ioctl() gives the user what the device gave.            *)
THEOREM Arrive ==
    ASSUME ~OtherOrder
    PROVE  MsgSpec => []MessagesArrive
  <1>1. MsgInit => MsgInv
    BY MsgInitInv
  <1>2. MsgInv /\ [MsgNext]_msgVars => MsgInv'
    <2> SUFFICES ASSUME MsgInv, [MsgNext]_msgVars PROVE MsgInv'
      OBVIOUS
    <2>1. CASE UNCHANGED msgVars
      BY <2>1 DEF MsgInv, msgVars, MessagesArrive, RequestArrives, AnswerArrives
    <2> QED
      BY <2>1, RequestKeeps, ServeKeeps, FinishKeeps DEF MsgNext
  <1>3. MsgInv => MessagesArrive
    BY DEF MsgInv
  <1> QED
    BY <1>1, <1>2, <1>3, PTL DEF MsgSpec
=============================================================================
