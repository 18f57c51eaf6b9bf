------------------------------ MODULE PollWakeup ------------------------------
(***************************************************************************)
(* poll() on a device (webcamd.c, linux_file.c, linux_thread.c).  A poller *)
(* that finds nothing sleeps in the kernel until cuse_poll_wakeup(), which *)
(* wakes all of them.  wake_up() calls it only for queues that somebody    *)
(* has polled, and the USB and timer threads put it off until the end of   *)
(* their round ("optimise number of external wakeup requests").            *)
(*                                                                         *)
(*   ready      the condition the driver's poll method tests               *)
(*   selwakeup  q->do_selwakeup                                            *)
(*   inhibit    wakeup_inhibit of each thread: 0, 1, or 2 for put off      *)
(*   waker      a thread that makes the condition true: idle, about to     *)
(*              call wake_up(), about to call poll_wakeup_internal()       *)
(*   poller     idle, in v4b_poll(), past poll_wait(), asleep              *)
(*   woken      cuse has a wakeup for the poller                           *)
(***************************************************************************)
EXTENDS Integers

CONSTANTS
    Pollers,
    Rounds,     \* threads that work in rounds: USB event thread, timer thread
    Others      \* other threads that wake: device and kernel threads

ASSUME PollAssumption == Rounds \cap Others = {}

VARIABLES ready, selwakeup, inhibit, waker, poller, woken

pollVars == <<ready, selwakeup, inhibit, waker, poller, woken>>

Threads == Rounds \cup Others

PollInit ==
    /\ ready = FALSE
    /\ selwakeup = FALSE
    /\ inhibit = [t \in Threads |-> 0]
    /\ waker = [t \in Threads |-> "idle"]
    /\ poller = [p \in Pollers |-> "idle"]
    /\ woken = [p \in Pollers |-> FALSE]

-----------------------------------------------------------------------------
(* cuse_poll_wakeup(): everybody who has asked since the last one.         *)
poll_wakeup_internal == woken' = [p \in Pollers |-> woken[p] \/ poller[p] # "idle"]

(* The round of timer_exec() or usb_exec() begins: wake_up_inhibit(true).  *)
BeginRound(t) ==
    /\ inhibit[t] = 0 /\ waker[t] = "idle"
    /\ inhibit' = [inhibit EXCEPT ![t] = 1]
    /\ UNCHANGED <<ready, selwakeup, waker, poller, woken>>

(* wake_up_inhibit(false) *)
EndRoundMutant(t) ==
    /\ inhibit[t] # 0 /\ waker[t] = "idle"
    /\ inhibit' = [inhibit EXCEPT ![t] = IF @ = 2 THEN 2 ELSE 0]
    /\ UNCHANGED <<ready, selwakeup, waker, poller, woken>>

EndRound(t) ==
    /\ inhibit[t] # 0 /\ waker[t] = "idle"
    /\ inhibit' = [inhibit EXCEPT ![t] = 0]
    /\ IF inhibit[t] = 2 THEN poll_wakeup_internal ELSE UNCHANGED woken
    /\ UNCHANGED <<ready, selwakeup, waker, poller>>

(* A driver makes data available, and calls wake_up() next. *)
MakeReady(t) ==
    /\ waker[t] = "idle"
    /\ t \in Rounds => inhibit[t] # 0
    /\ ready' = TRUE
    /\ waker' = [waker EXCEPT ![t] = "wake_up"]
    /\ UNCHANGED <<selwakeup, inhibit, poller, woken>>

(* wake_up(): do_selwakeup is read under the lock and acted on after it.   *)
wake_up(t) ==
    /\ waker[t] = "wake_up"
    /\ waker' = [waker EXCEPT ![t] = IF selwakeup THEN "notify" ELSE "idle"]
    /\ UNCHANGED <<ready, selwakeup, inhibit, poller, woken>>

Notify(t) ==
    /\ waker[t] = "notify"
    /\ waker' = [waker EXCEPT ![t] = "idle"]
    /\ \/ inhibit[t] = 0 /\ poll_wakeup_internal /\ UNCHANGED inhibit
       \/ inhibit[t] # 0 /\ inhibit' = [inhibit EXCEPT ![t] = 2] /\ UNCHANGED woken
    /\ UNCHANGED <<ready, selwakeup, poller>>

-----------------------------------------------------------------------------
(* A poller asks: v4b_poll(), linux_poll() and the driver's poll method,   *)
(* which calls poll_wait() and tests its condition after that.             *)
v4b_poll(p) ==
    /\ poller[p] = "idle" \/ (poller[p] = "asleep" /\ woken[p])
    /\ poller' = [poller EXCEPT ![p] = "poll"]
    /\ woken' = [woken EXCEPT ![p] = FALSE]
    /\ UNCHANGED <<ready, selwakeup, inhibit, waker>>

poll_wait(p) ==
    /\ poller[p] = "poll"
    /\ selwakeup' = TRUE
    /\ poller' = [poller EXCEPT ![p] = "marked"]
    /\ UNCHANGED <<ready, inhibit, waker, woken>>

linux_poll(p) ==
    /\ poller[p] = "marked"
    /\ poller' = [poller EXCEPT ![p] = IF ready THEN "idle" ELSE "asleep"]
    /\ UNCHANGED <<ready, selwakeup, inhibit, waker, woken>>

(* Somebody reads the data. *)
Consume ==
    /\ ready
    /\ ready' = FALSE
    /\ UNCHANGED <<selwakeup, inhibit, waker, poller, woken>>

-----------------------------------------------------------------------------
Wakers ==
    \/ \E t \in Rounds : BeginRound(t) \/ EndRound(t)
    \/ \E t \in Threads : MakeReady(t) \/ wake_up(t) \/ Notify(t)

PollNext ==
    \/ Wakers
    \/ \E p \in Pollers : v4b_poll(p) \/ poll_wait(p) \/ linux_poll(p)
    \/ Consume

PollSpec == PollInit /\ [][PollNext]_pollVars

-----------------------------------------------------------------------------
(* A poller never sleeps on data that is there, unless a wakeup is on its  *)
(* way: the thread that made it available is still inside wake_up(), or    *)
(* has put the wakeup off and ends its round with it.                      *)
NoLostPoll ==
    \A p \in Pollers :
        poller[p] = "asleep" /\ ready /\ ~woken[p] =>
            \E t \in Threads : waker[t] # "idle" \/ inhibit[t] = 2

(* A poller for which there is data wakes up, or somebody else reads it.   *)
PollerReturns ==
    \A p \in Pollers : poller[p] = "asleep" /\ ready ~> poller[p] # "asleep" \/ ~ready
=============================================================================
