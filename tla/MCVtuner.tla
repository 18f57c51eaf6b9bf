------------------------------- MODULE MCVtuner -------------------------------
(***************************************************************************)
(* The virtual tuner: what its messages carry, and the connections that    *)
(* carry them, with the scheduling they rely on.  The two share no state   *)
(* here; a behaviour is one of the part it is named for.  The variables of *)
(* the session keep their initial values in the other part, those of the   *)
(* messages are empty.                                                     *)
(***************************************************************************)
EXTENDS VtunerSession, VtunerMessages

VARIABLE part

(* EINVAL as the driver of the device returns it. *)
McErrors == {0, -22}

EitherInit ==
    /\ Init
    /\ \/ part = "messages" /\ MsgInit
       \/ /\ part = "session" /\ stage = "none" /\ req = "DMX_START" /\ err = 0 /\ ret = 0
          /\ cbuf = <<>> /\ sbuf = <<>> /\ dvb = <<>> /\ seen = <<>> /\ got = <<>>

EitherNext ==
    \/ part = "messages" /\ MsgNext /\ UNCHANGED <<part, vars>>
    \/ part = "session" /\ Next /\ UNCHANGED <<part, msgVars>>

(* Threads run and the alarm goes off; users, failing calls and any other  *)
(* end of the server are not forced.                                       *)
Fairness ==
    /\ WF_vars(part = "session" /\ TakeAnswer) /\ WF_vars(part = "session" /\ PollThread)
    /\ WF_vars(part = "session" /\ CloseEnd) /\ WF_vars(part = "session" /\ OpenData)
    /\ WF_vars(part = "session" /\ Listener) /\ WF_vars(part = "session" /\ Alarm)
    /\ \A i \in Opens : /\ WF_vars(part = "session" /\ Control(i))
                        /\ WF_vars(part = "session" /\ Writer(i))

EitherSpec == EitherInit /\ [][EitherNext]_<<part, msgVars, vars>> /\ Fairness

-----------------------------------------------------------------------------
(* VtunerSession: ioctls come back whatever the server does, the server    *)
(* frees the context of a closed client, and vtunerc_close() returns.      *)
SessionReturns == IoctlEnds /\ SessionEnds /\ CloseReturns
=============================================================================
