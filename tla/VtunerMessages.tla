---------------------------- MODULE VtunerMessages ----------------------------
(***************************************************************************)
(* The requests of the virtual tuner: the client (vtuner_client.c) packs   *)
(* the argument of an ioctl() into a message, the server (vtuner_server.c) *)
(* unpacks it, makes the same ioctl() on its device and sends the outcome  *)
(* back.  Messages are built in buffers that are used again and again, and *)
(* carry only as many bytes as the sizes in the header say.                *)
(*                                                                         *)
(* The argument of an ioctl is a set of fields.  A field holds a token     *)
(* that says where its content is from, and whether its bytes are in the   *)
(* wrong order: "user" and "device" for the current request, "zero" if     *)
(* cleared.  The members of a message share their memory with those of all *)
(* others, so what a request does not set is "stale".                      *)
(*                                                                         *)
(*   stage    "sent", then "served" or "failed", then "done"               *)
(*   req      the ioctl under way                                          *)
(*   cbuf, sbuf   the message buffers of client and server, by field       *)
(*   dvb      the server's own copy of the argument, ctx->dvb              *)
(*   seen     what the device was given; got  what the user was given      *)
(*   err      the result of the device; ret  the result at the client      *)
(***************************************************************************)
EXTENDS Integers, FiniteSets

CONSTANTS
    OtherOrder,     \* client and server differ in byte order
    Errors          \* results of the device's ioctl()

ASSUME VtunerAssumption == OtherOrder \in BOOLEAN /\ Errors \subseteq Int

ENXIO == -6

VARIABLES stage, req, cbuf, sbuf, dvb, seen, got, err, ret

msgVars == <<stage, req, cbuf, sbuf, dvb, seen, got, err, ret>>

-----------------------------------------------------------------------------
(* The ioctls by what they carry. *)
Parameters == {"frequency", "inversion", "bandwidth", "code_rate_HP", "code_rate_LP",
               "constellation", "transmission_mode", "guard_interval", "hierarchy"}

Plain == {"DMX_START", "DMX_STOP", "FE_DISEQC_RESET_OVERLOAD"}
Set32 == {"DMX_SET_BUFFER_SIZE", "FE_DISEQC_SEND_BURST", "FE_SET_TONE", "FE_SET_VOLTAGE",
          "FE_ENABLE_HIGH_LNB_VOLTAGE", "FE_SET_FRONTEND_TUNE_MODE",
          "FE_DISHNETWORK_SEND_LEGACY_CMD"}
Set16 == {"DMX_ADD_PID", "DMX_REMOVE_PID"}
Get32 == {"FE_READ_STATUS", "FE_READ_BER", "FE_READ_UNCORRECTED_BLOCKS"}
Get16 == {"FE_READ_SIGNAL_STRENGTH", "FE_READ_SNR"}
SetStruct == {"DMX_SET_FILTER", "DMX_SET_PES_FILTER", "FE_DISEQC_SEND_MASTER_CMD",
              "FE_SET_FRONTEND", "FE_SET_PROPERTY", "FE_SET_PROPERTY diseqc"}
GetStruct == {"DMX_GET_PES_PIDS", "FE_GET_INFO", "FE_GET_FRONTEND", "FE_GET_EVENT"}
Both == {"DMX_GET_STC", "FE_DISEQC_RECV_SLAVE_REPLY", "FE_GET_PROPERTY", "FE_GET_PROPERTY diseqc"}

Cmds == Plain \cup Set32 \cup Set16 \cup Get32 \cup Get16 \cup SetStruct \cup GetStruct \cup Both

(* The members of the union "body" that a message of a kind is made of. *)
Struct(c) ==
    CASE c \in Plain -> {}
      [] c \in Set32 \cup Get32 -> {"value32"}
      [] c \in Set16 \cup Get16 -> {"value16"}
      [] c = "DMX_SET_FILTER" -> {"pid", "filter", "timeout", "flags"}
      [] c = "DMX_SET_PES_FILTER" -> {"pid", "input", "output", "pes_type", "flags"}
      [] c = "DMX_GET_PES_PIDS" -> {"pids"}
      [] c = "DMX_GET_STC" -> {"num", "base", "stc"}
      [] c = "FE_GET_INFO" -> {"name", "type", "frequency_min", "frequency_max", "stepsize",
             "tolerance", "rate_min", "rate_max", "rate_tolerance", "notifier_delay", "caps"}
      [] c = "FE_DISEQC_SEND_MASTER_CMD" -> {"msg", "msg_len"}
      [] c = "FE_DISEQC_RECV_SLAVE_REPLY" -> {"msg", "msg_len", "timeout"}
      [] c \in {"FE_SET_FRONTEND", "FE_GET_FRONTEND"} -> Parameters
      [] c = "FE_GET_EVENT" -> {"status"} \cup Parameters
      [] c \in {"FE_SET_PROPERTY", "FE_GET_PROPERTY"} -> {"num", "cmd", "reserved", "data"}
      [] OTHER -> {"num", "cmd", "reserved", "len", "bytes"}

Bytes == {"filter", "name", "msg", "msg_len", "bytes"}     \* no byte order
Fields == UNION {Struct(c) : c \in Cmds}

(* What the device takes from the argument of an ioctl, and gives back. *)
Takes(c) == CASE c \in Set32 \cup Set16 \cup SetStruct -> Struct(c)
              [] c = "DMX_GET_STC" -> {"num"}
              [] c = "FE_DISEQC_RECV_SLAVE_REPLY" -> {"timeout"}
              [] c \in {"FE_GET_PROPERTY", "FE_GET_PROPERTY diseqc"} -> {"num", "cmd"}
              [] OTHER -> {}
Gives(c) == CASE c \in Get32 \cup Get16 \cup GetStruct -> Struct(c)
              [] c = "DMX_GET_STC" -> {"base", "stc"}
              [] c = "FE_DISEQC_RECV_SLAVE_REPLY" -> {"msg", "msg_len"}
              [] c = "FE_GET_PROPERTY" -> {"data"}
              [] c = "FE_GET_PROPERTY diseqc" -> {"len", "bytes"}
              [] OTHER -> {}

-----------------------------------------------------------------------------
Is(token) == [from |-> token, swapped |-> FALSE]
Put(buf, fs, v) == [f \in Fields |-> IF f \in fs THEN v ELSE buf[f]]
Copy(to, fs, buf) == [f \in Fields |-> IF f \in fs THEN buf[f] ELSE to[f]]
Stale == [f \in Fields |-> Is("stale")]
SwapFields(buf, fs) == [f \in Fields |-> IF f \in fs \ Bytes THEN [buf[f] EXCEPT !.swapped = ~@]
                                         ELSE buf[f]]

(* vtunerc_process_ioctl(): the members that are packed, those within the  *)
(* size that is sent, those within the size of the answer, and those that  *)
(* are given to the user.                                                  *)
Sends(c) == [packs |-> Struct(c), rx |-> Struct(c), tx |-> {}, unpacks |-> {}]
Asks(c) == [packs |-> {}, rx |-> {}, tx |-> Struct(c), unpacks |-> Struct(c)]
Exchanges(c, in, out) == [packs |-> in, rx |-> Struct(c), tx |-> Struct(c), unpacks |-> out]

Dmx == {"DMX_START", "DMX_STOP", "DMX_SET_FILTER", "DMX_SET_PES_FILTER", "DMX_SET_BUFFER_SIZE",
        "DMX_GET_PES_PIDS", "DMX_GET_STC", "DMX_ADD_PID", "DMX_REMOVE_PID"}
Property == {"FE_SET_PROPERTY", "FE_GET_PROPERTY", "FE_SET_PROPERTY diseqc", "FE_GET_PROPERTY diseqc"}
Tuning == {"FE_SET_FRONTEND", "FE_GET_FRONTEND", "FE_GET_EVENT", "FE_SET_FRONTEND_TUNE_MODE",
           "FE_DISHNETWORK_SEND_LEGACY_CMD"}

ClientDmx(c) == CASE c = "DMX_GET_PES_PIDS" -> Asks(c)
                  [] c = "DMX_GET_STC" -> Exchanges(c, Struct(c), Struct(c))
                  [] OTHER -> Sends(c)
ClientProperty(c) == IF c \in {"FE_SET_PROPERTY", "FE_SET_PROPERTY diseqc"} THEN Sends(c)
                     ELSE Exchanges(c, Struct(c), Struct(c) \ {"num"})
ClientDiseqc(c) == CASE c = "FE_GET_INFO" -> Asks(c)
                     [] c = "FE_DISEQC_RECV_SLAVE_REPLY" -> Exchanges(c, {"timeout"}, {"msg", "msg_len"})
                     [] OTHER -> Sends(c)
ClientRead(c) == Asks(c)
ClientTuning(c) == IF c \in {"FE_GET_FRONTEND", "FE_GET_EVENT"} THEN Asks(c) ELSE Sends(c)

Client(c) == CASE c \in Dmx -> ClientDmx(c)
               [] c \in Property -> ClientProperty(c)
               [] c \in Get32 \cup Get16 -> ClientRead(c)
               [] c \in Tuning -> ClientTuning(c)
               [] OTHER -> ClientDiseqc(c)

(* vtuner_body_byteswap() compares the type of a message (MSG_...) with    *)
(* the codes of ioctls, of which none is equal to one.                     *)
vtuner_body_byteswap(buf, mtype, types) == IF mtype \in types THEN SwapFields(buf, Struct(mtype)) ELSE buf
SwapTypes == {}

(* vtuners_process_msg(): the ioctl works in the message itself, or on a   *)
(* copy in ctx->dvb: members that are taken over into the copy, the others *)
(* being cleared or not, and members that are put back into the message.   *)
InMessage == [direct |-> TRUE, takes |-> {}, clears |-> FALSE, puts |-> {}]
InCopy(takes, puts) == [direct |-> FALSE, takes |-> takes, clears |-> takes # {}, puts |-> puts]

ServerDmxMutant(c) ==
    CASE c \in {"DMX_SET_FILTER", "DMX_SET_PES_FILTER"} -> InCopy(Struct(c) \ {"flags"}, {})
      [] c = "DMX_GET_STC" -> InCopy(Struct(c), Struct(c))
      [] OTHER -> InMessage
ServerDmx(c) ==
    CASE c \in {"DMX_SET_FILTER", "DMX_SET_PES_FILTER"} -> InCopy(Struct(c), {})
      [] c = "DMX_GET_STC" -> InCopy(Struct(c), Struct(c))
      [] OTHER -> InMessage
ServerProperty(c) ==
    InCopy(Struct(c), IF c \in {"FE_SET_PROPERTY", "FE_SET_PROPERTY diseqc"} THEN {}
                      ELSE Struct(c) \ {"num"})
ServerDiseqc(c) ==
    CASE c = "FE_GET_INFO" -> InCopy({}, Struct(c))
      [] c = "FE_DISEQC_SEND_MASTER_CMD" -> InCopy(Struct(c), {})
      [] c = "FE_DISEQC_RECV_SLAVE_REPLY" -> InCopy({"timeout"}, {"msg", "msg_len"})
      [] OTHER -> InMessage
ServerRead(c) == InMessage
ServerTuning(c) ==
    CASE c = "FE_SET_FRONTEND" -> InCopy(Struct(c), {})
      [] c \in {"FE_GET_FRONTEND", "FE_GET_EVENT"} -> InCopy({}, Struct(c))
      [] OTHER -> InMessage

Server(c) == CASE c \in Dmx -> ServerDmx(c)
               [] c \in Property -> ServerProperty(c)
               [] c \in Get32 \cup Get16 -> ServerRead(c)
               [] c \in Tuning -> ServerTuning(c)
               [] OTHER -> ServerDiseqc(c)

-----------------------------------------------------------------------------
Blank == [f \in Fields |-> Is("zero")]

MsgInit ==
    /\ stage = "done"
    /\ req = "DMX_START"
    /\ cbuf = Blank /\ sbuf = Blank /\ dvb = Blank /\ seen = Blank /\ got = Blank
    /\ err = 0 /\ ret = 0

(* vtunerc_process_ioctl() up to vtunerc_do_message(): a fault while the   *)
(* argument is copied, or more properties than a message holds, means that *)
(* nothing is sent.                                                        *)
Request(c) ==
    LET packed == Put(Stale, Client(c).packs, Is("user")) IN
    /\ stage = "done"
    /\ req' = c
    /\ cbuf' = packed
    /\ dvb' = Stale /\ seen' = Blank /\ got' = Blank
    /\ \/ /\ stage' = "sent"
          /\ sbuf' = Copy(Stale, Client(c).rx, packed)
          /\ ret' = 0
       \/ /\ Client(c).packs # {}
          /\ stage' = "failed"
          /\ sbuf' = Stale
          /\ ret' = -1
    /\ err' = 0

(* vtuners_control_thread(): conversion, vtuners_process_msg(), conversion *)
(* back, answer.                                                           *)
Convert(buf, c) == IF OtherOrder THEN vtuner_body_byteswap(buf, c, SwapTypes) ELSE buf

(* What arrives from a peer of the other byte order is in the wrong order. *)
Wire(buf, fs) == IF OtherOrder THEN SwapFields(buf, fs) ELSE buf

Serve ==
    LET c    == req
        body == Convert(Wire(sbuf, Client(c).rx), c)
        s    == Server(c)
        arg  == IF s.direct THEN body
                ELSE Copy(IF s.clears THEN Put(dvb, Struct(c), Is("zero")) ELSE dvb, s.takes, body)
    IN  /\ stage = "sent"
        /\ stage' = "served"
        /\ seen' = [f \in Fields |-> IF f \in Takes(c) THEN arg[f] ELSE Is("zero")]
        /\ \E e \in Errors :
               LET after == IF e = 0 THEN Put(arg, Gives(c), Is("device")) ELSE arg
                   reply == IF s.direct THEN after ELSE Copy(body, s.puts, after)
                   out   == Convert(reply, c)
               IN  /\ err' = e
                   /\ dvb' = IF s.direct THEN dvb ELSE after
                   /\ sbuf' = out
                   /\ \/ /\ cbuf' = Copy(cbuf, Client(c).tx, Wire(out, Client(c).tx))
                         /\ ret' = e
                      \/ UNCHANGED cbuf /\ ret' = ENXIO
        /\ UNCHANGED <<req, got>>

(* The rest of vtunerc_process_ioctl(): also after an error. *)
Finish ==
    /\ stage \in {"served", "failed"}
    /\ stage' = "done"
    /\ got' = [f \in Fields |-> IF f \in Client(req).unpacks THEN cbuf[f] ELSE Is("zero")]
    /\ UNCHANGED <<req, cbuf, sbuf, dvb, seen, err, ret>>

MsgNext == (\E c \in Cmds : Request(c)) \/ Serve \/ Finish

MsgSpec == MsgInit /\ [][MsgNext]_msgVars

-----------------------------------------------------------------------------
(* The device of the server is given what the user of the client passed:   *)
(* every member is packed, lies within the size sent, is unpacked again,   *)
(* and none is left from an earlier message.                               *)
RequestArrives == stage = "served" => \A f \in Takes(req) : seen[f] = Is("user")

(* When an ioctl succeeds, the user has got what the device gave.          *)
AnswerArrives == stage = "done" /\ ret = 0 => \A f \in Gives(req) : got[f] = Is("device")

(* VtunerMessages: vtuners_process_msg() gives the device what the user of *)
(* the client passed, vtunerc_process_ioctl() the user what the device     *)
(* gave.                                                                   *)
MessagesArrive == RequestArrives /\ AnswerArrives
=============================================================================
