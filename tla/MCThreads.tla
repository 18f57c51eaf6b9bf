------------------------------ MODULE MCThreads ------------------------------
(***************************************************************************)
(* The parts of the program that only sleep, wake and call back, with the  *)
(* scheduling that the code relies on.  They share no state here, and a    *)
(* behaviour is one of the part it is named for; the variables of the      *)
(* others keep their initial values.                                       *)
(***************************************************************************)
EXTENDS PollWakeup, RcuCallbacks, Firmware

CONSTANTS c1, k1, q1, x1, Nothing,              \* wait queues
          t1, t2, t3, m1, NoOwner, NoSem        \* mutexes

VARIABLES part,
    done, wready, wowed, sleep_count, call, sleep, signalled, urg, kthread, wfd,
    hold, recurse, spin, drops, value, owner, op, waiting, held

W == INSTANCE WaitQueue WITH Callers <- {c1}, Kthreads <- {k1}, Queues <- {q1},
                             Completions <- {x1}, MaxDone <- 1,
                             ready <- wready, owed <- wowed, fd <- wfd
M == INSTANCE LinuxMutex WITH Threads <- {t1, t2, t3}, MaxSpin <- 1, Mutexes <- {m1}, Sems <- {},
                              SemInit <- 0, MUTEX_NO_OWNER <- NoOwner, MaxHeld <- 2, MaxValue <- 0

wv == <<done, wready, wowed, sleep_count, call, sleep, signalled, urg, kthread, wfd>>
mv == <<hold, recurse, spin, drops, value, owner, op, waiting, held>>
vars == <<part, wv, mv, pollVars, rcuVars, fwVars>>

Init ==
    /\ part \in {"wait", "mutex", "poll", "rcu", "firmware"}
    /\ W!WaitInit /\ M!Init /\ PollInit /\ RcuInit /\ FwInit
    /\ part # "firmware" => len = 0

Waits     == part = "wait"     /\ W!WaitNext /\ UNCHANGED <<part, mv, pollVars, rcuVars, fwVars>>
Locks     == part = "mutex"    /\ M!Next /\ UNCHANGED <<part, wv, pollVars, rcuVars, fwVars>>
Polls     == part = "poll"     /\ PollNext /\ UNCHANGED <<part, wv, mv, rcuVars, fwVars>>
Rcu       == part = "rcu"      /\ RcuNext /\ UNCHANGED <<part, wv, mv, pollVars, fwVars>>
Firmwares == part = "firmware" /\ FwNext /\ UNCHANGED <<part, wv, mv, pollVars, rcuVars>>

(* The requests of the RCU part are used up. *)
RcuOver == part = "rcu" /\ ~ENABLED RcuNext /\ UNCHANGED vars

Next == Waits \/ Locks \/ Polls \/ Rcu \/ Firmwares \/ RcuOver

(* Each component has its fairness in the behaviours of its own part.      *)
(* Threads that can run do: atomic sections end, usleep() ends, and who    *)
(* contends for the lock again and again gets it; the timer thread         *)
(* broadcasts again and again, signals arrive, and the function of a       *)
(* kernel thread that was told to stop returns; rounds of the USB and      *)
(* timer threads end; callbacks return.                                    *)
Fairness ==
    /\ WF_wv(part = "wait" /\ W!wake_up_all_internal)
    /\ \A t \in {c1, k1} : WF_wv(part = "wait" /\ W!WaitWoken(t)) /\ WF_wv(part = "wait" /\ W!WaitTimedOut(t))
    /\ WF_wv(part = "wait" /\ W!RunReturns(c1)) /\ WF_wv(part = "wait" /\ W!Joined(c1))
    /\ WF_wv(part = "wait" /\ W!InstallHandler(k1)) /\ WF_wv(part = "wait" /\ W!ReportStarted(k1))
    /\ WF_wv(part = "wait" /\ W!thread_urg(k1)) /\ SF_wv(part = "wait" /\ W!StopsWhenTold(k1))
    /\ \A t \in {t1, t2, t3} :
          /\ WF_mv(part = "mutex" /\ M!SpinUnlock(t))
          /\ SF_mv(part = "mutex" /\ M!UsleepOver(t)) /\ SF_mv(part = "mutex" /\ M!Woken(t))
    /\ \A t \in Rounds : SF_pollVars(part = "poll" /\ EndRound(t))
    /\ \A t \in Threads : WF_pollVars(part = "poll" /\ (wake_up(t) \/ Notify(t)))
    /\ \A p \in Pollers : /\ WF_pollVars(part = "poll" /\ (poll_wait(p) \/ linux_poll(p)))
                          /\ WF_pollVars(part = "poll" /\ poller[p] = "asleep" /\ v4b_poll(p))
    /\ WF_rcuVars(part = "rcu" /\ RcuThread)
    /\ \A r \in Requests : /\ WF_fwVars(part = "firmware" /\ ~Crashed /\ Step(r))
                           /\ WF_fwVars(part = "firmware" /\ ~Crashed /\ Callback(r))
                           /\ WF_fwVars(part = "firmware" /\ ~Crashed /\ TaskEnd(r))

Spec == Init /\ [][Next]_vars /\ Fairness

-----------------------------------------------------------------------------
(* WaitQueue and LinuxMutex: kthread_stop() returns, though the thread     *)
(* sleeps in a call that a signal does not wake; an interrupted request    *)
(* leaves its interruptible wait; a mutex that stays free is taken by one  *)
(* who waits for it.                                                       *)
WaitsEnd == W!StopReturns /\ W!InterruptReturns /\ M!FreeMutexIsTaken

(* PollWakeup: nobody sleeps in poll() on data that is there, unless the   *)
(* wakeup is on its way or put off to the end of a round.  RcuCallbacks:   *)
(* the list of call_rcu() holds what is requested, each head once.         *)
NothingLost == NoLostPoll /\ ListMatchesRequests

(* RcuCallbacks and Firmware: every request of call_rcu() is called back,  *)
(* and so is every one that request_firmware_nowait() has accepted.        *)
CallbacksCome == EveryRequestIsCalled /\ IsTold
=============================================================================
