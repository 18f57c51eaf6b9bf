----------------------------- MODULE WaitQueue ------------------------------
(***************************************************************************)
(* Everything that sleeps on sema_cond of linux_thread.c: wait_event() in  *)
(* its four variants, completions in theirs, and the start and the stop of *)
(* kernel threads.  All of them share that one condition variable, so each *)
(* broadcast wakes every sleeper and each sleeper tests its own condition  *)
(* again.  A signal does not end pthread_cond_wait(): an interruptible     *)
(* call notices it only when something else wakes it up, which the timer   *)
(* thread does once a second.                                              *)
(*                                                                         *)
(*   done        x->done of a completion                                   *)
(*   ready       the condition that wait_event() on a queue waits for      *)
(*   owed        queues whose condition was set and wake_up() is to follow *)
(*   sleep_count q->sleep_count, and x->wait.sleep_count                   *)
(*   call, sleep the call a thread is in, and its pthread_cond_wait()      *)
(*   signalled   check_signal(): the peer interrupted the request, or      *)
(*               thread_urg() has set the "stopping" of a kernel thread    *)
(*   urg         a SIGURG is on its way to a kernel thread                 *)
(*   kthread     how far kthread_wrapper() of a kernel thread is           *)
(*   fd          the struct funcdata that hands it its function            *)
(***************************************************************************)
EXTENDS Integers, FiniteSets

CONSTANTS
    Callers,        \* threads that serve requests of the character devices
    Kthreads,       \* kernel threads of the drivers
    Queues,         \* wait queues
    Completions,    \* struct completion objects
    Nothing,        \* what an idle thread waits for
    MaxDone         \* bound: complete() calls that nobody has waited for

ASSUME WaitAssumption ==
    /\ IsFiniteSet(Callers) /\ IsFiniteSet(Kthreads)
    /\ Callers \cap Kthreads = {}
    /\ Queues \cap Completions = {}
    /\ Nothing \notin Queues \cup Completions \cup Kthreads
    /\ MaxDone \in Nat

VARIABLES done, ready, owed, sleep_count, call, sleep, signalled, urg, kthread, fd

condVars == <<done, ready, owed>>
threadVars == <<signalled, urg, kthread, fd>>
waitVars == <<condVars, sleep_count, call, sleep, threadVars>>

Sleepers == Callers \cup Kthreads
WaitObjects == Queues \cup Completions
Wait(o, intr, timed) == [fn |-> "wait", on |-> o, intr |-> intr, timed |-> timed]
Waits == {Wait(o, i, t) : o \in WaitObjects, i \in BOOLEAN, t \in BOOLEAN}
Run(k) == [fn |-> "kthread_run", on |-> k, intr |-> FALSE, timed |-> FALSE]
Stop(k) == [fn |-> "kthread_stop", on |-> k, intr |-> FALSE, timed |-> FALSE]
NoCall == [fn |-> "none", on |-> Nothing, intr |-> FALSE, timed |-> FALSE]

WaitInit ==
    /\ done = [x \in Completions |-> 0]
    /\ ready = [q \in Queues |-> FALSE]
    /\ owed = {}
    /\ sleep_count = [o \in WaitObjects |-> 0]
    /\ call = [t \in Sleepers |-> NoCall]
    /\ sleep = [t \in Sleepers |-> "no"]
    /\ signalled = {}
    /\ urg = {}
    /\ kthread = [k \in Kthreads |-> "none"]
    /\ fd = [k \in Kthreads |-> "none"]

(* A thread that executes code of a driver outside of these calls. *)
NotWaiting(t) == call[t] = NoCall /\ (t \in Kthreads => kthread[t] = "running")

(* pthread_cond_broadcast(&sema_cond); a sleeper whose time is up already  *)
(* stays timed out.                                                        *)
WakeAll == [t \in Sleepers |-> IF sleep[t] = "asleep" THEN "woken" ELSE sleep[t]]

-----------------------------------------------------------------------------
(* The loop of the waiting calls, at its test.  n is sleep_count without   *)
(* this thread.                                                            *)
Available(o) == IF o \in Completions THEN done[o] # 0 ELSE ready[o]

CheckSignal(t, c) == c.intr /\ t \in signalled

CountUp(n, o) == [n EXCEPT ![o] = @ + 1]

WaitLoop(t, c, n) ==
    \/ /\ Available(c.on)
       /\ done' = [x \in Completions |-> IF x = c.on THEN done[x] - 1 ELSE done[x]]
       /\ call' = [call EXCEPT ![t] = NoCall]
       /\ sleep' = [sleep EXCEPT ![t] = "no"]
       /\ sleep_count' = n
    \/ /\ ~Available(c.on)
       /\ CheckSignal(t, c)
       /\ call' = [call EXCEPT ![t] = NoCall]
       /\ sleep' = [sleep EXCEPT ![t] = "no"]
       /\ sleep_count' = n
       /\ UNCHANGED done
    \/ /\ ~Available(c.on)
       /\ ~CheckSignal(t, c)
       /\ call' = [call EXCEPT ![t] = c]
       /\ sleep' = [sleep EXCEPT ![t] = "asleep"]
       /\ sleep_count' = CountUp(n, c.on)
       /\ UNCHANGED done

(* wait_event*(), wait_for_completion*(), interruptible_sleep_on*().  The  *)
(* function of a kernel thread sleeps interruptibly.                       *)
wait_event(t, c) ==
    /\ NotWaiting(t)
    /\ t \in Kthreads => c.intr
    /\ WaitLoop(t, c, sleep_count)
    /\ UNCHANGED <<ready, owed, threadVars>>

CountDown(o) == [sleep_count EXCEPT ![o] = @ - 1]

WaitWoken(t) ==
    /\ call[t].fn = "wait"
    /\ sleep[t] = "woken"
    /\ WaitLoop(t, call[t], CountDown(call[t].on))
    /\ UNCHANGED <<ready, owed, threadVars>>

(* pthread_cond_timedwait() has given up; the loop does not look at the    *)
(* condition again.                                                        *)
TimesOut(t) ==
    /\ call[t].timed
    /\ sleep[t] = "asleep"
    /\ sleep' = [sleep EXCEPT ![t] = "timedout"]
    /\ UNCHANGED <<condVars, sleep_count, call, threadVars>>

WaitTimedOut(t) ==
    /\ sleep[t] = "timedout"
    /\ sleep' = [sleep EXCEPT ![t] = "no"]
    /\ call' = [call EXCEPT ![t] = NoCall]
    /\ sleep_count' = CountDown(call[t].on)
    /\ UNCHANGED <<condVars, threadVars>>

-----------------------------------------------------------------------------
(* A driver makes the condition of a queue true, and afterwards calls      *)
(* wake_up(), or leaves it out if waitqueue_active() says that nobody      *)
(* sleeps.                                                                 *)
SetCondition(q) ==
    /\ ~ready[q]
    /\ ready' = [ready EXCEPT ![q] = TRUE]
    /\ owed' = owed \cup {q}
    /\ UNCHANGED <<done, sleep_count, call, sleep, threadVars>>

waitqueue_active(q) == sleep_count[q] # 0

wake_up(q) ==
    /\ q \in owed
    /\ owed' = owed \ {q}
    /\ \/ sleep' = WakeAll
       \/ ~waitqueue_active(q) /\ UNCHANGED sleep
    /\ UNCHANGED <<done, ready, sleep_count, call, threadVars>>

(* The condition is used up by whoever waited for it. *)
ResetCondition(q) ==
    /\ ready[q] /\ q \notin owed
    /\ ready' = [ready EXCEPT ![q] = FALSE]
    /\ UNCHANGED <<done, owed, sleep_count, call, sleep, threadVars>>

CompleteMutant(x) ==
    /\ done[x] < MaxDone
    /\ done' = [done EXCEPT ![x] = @ + 1]
    /\ sleep' = IF done[x] = 0 THEN sleep ELSE WakeAll
    /\ UNCHANGED <<ready, owed, sleep_count, call, threadVars>>
complete(x) ==
    /\ done[x] < MaxDone
    /\ done' = [done EXCEPT ![x] = @ + 1]
    /\ sleep' = WakeAll
    /\ UNCHANGED <<ready, owed, sleep_count, call, threadVars>>

-----------------------------------------------------------------------------
(* kthread_run(): create the thread, then wait until kthread_wrapper() has *)
(* cleared fd->func, and free fd.                                          *)
kthread_run(t, k) ==
    /\ t \in Callers /\ NotWaiting(t)
    /\ kthread[k] = "none"
    /\ kthread' = [kthread EXCEPT ![k] = "created"]
    /\ fd' = [fd EXCEPT ![k] = "func"]
    /\ call' = [call EXCEPT ![t] = Run(k)]
    /\ sleep' = [sleep EXCEPT ![t] = "woken"]
    /\ UNCHANGED <<condVars, sleep_count, signalled, urg>>

RunReturns(t) ==
    /\ call[t].fn = "kthread_run"
    /\ sleep[t] = "woken"
    /\ \/ /\ fd[call[t].on] = "cleared"
          /\ fd' = [fd EXCEPT ![call[t].on] = "none"]
          /\ call' = [call EXCEPT ![t] = NoCall]
          /\ sleep' = [sleep EXCEPT ![t] = "no"]
       \/ /\ fd[call[t].on] = "func"
          /\ sleep' = [sleep EXCEPT ![t] = "asleep"]
          /\ UNCHANGED <<fd, call>>
    /\ UNCHANGED <<condVars, sleep_count, signalled, urg, kthread>>

(* kthread_wrapper(): copy *fd and install the handler of SIGURG; tell     *)
(* kthread_run(); call the function.                                       *)
InstallHandler(k) ==
    /\ kthread[k] = "created"
    /\ kthread' = [kthread EXCEPT ![k] = "installed"]
    /\ UNCHANGED <<condVars, sleep_count, call, sleep, signalled, urg, fd>>

ReportStarted(k) ==
    /\ kthread[k] = "installed"
    /\ kthread' = [kthread EXCEPT ![k] = "running"]
    /\ fd' = [fd EXCEPT ![k] = "cleared"]
    /\ sleep' = WakeAll
    /\ UNCHANGED <<condVars, sleep_count, call, signalled, urg>>

(* Its function returns, at the latest once kthread_should_stop(). *)
FunctionReturns(k) ==
    /\ NotWaiting(k)
    /\ kthread' = [kthread EXCEPT ![k] = "exited"]
    /\ UNCHANGED <<condVars, sleep_count, call, sleep, signalled, urg, fd>>

(* kthread_stop() of a thread that kthread_run() returned: SIGURG, then    *)
(* pthread_join().                                                         *)
kthread_stop(t, k) ==
    /\ t \in Callers /\ NotWaiting(t)
    /\ kthread[k] # "none" /\ fd[k] = "none"
    /\ \A u \in Sleepers : call[u].on # k
    /\ urg' = urg \cup {k}
    /\ call' = [call EXCEPT ![t] = Stop(k)]
    /\ UNCHANGED <<condVars, sleep_count, sleep, signalled, kthread, fd>>

(* The signal arrives.  Before the handler is installed, and after         *)
(* pthread_setspecific(wrapper_key, NULL), it has no effect.               *)
thread_urg(k) ==
    /\ k \in urg
    /\ urg' = urg \ {k}
    /\ signalled' = IF kthread[k] \in {"installed", "running"}
                    THEN signalled \cup {k} ELSE signalled
    /\ UNCHANGED <<condVars, sleep_count, call, sleep, kthread, fd>>

Joined(t) ==
    LET k == call[t].on IN
    /\ call[t].fn = "kthread_stop"
    /\ kthread[k] = "exited"
    /\ kthread' = [kthread EXCEPT ![k] = "none"]
    /\ signalled' = signalled \ {k}
    /\ urg' = urg \ {k}
    /\ call' = [call EXCEPT ![t] = NoCall]
    /\ UNCHANGED <<condVars, sleep_count, sleep, fd>>

(* The user interrupts the request that a device thread serves; a new      *)
(* request starts without a signal.                                        *)
PeerSignal(t) ==
    /\ signalled' = signalled \cup {t}
    /\ UNCHANGED <<condVars, sleep_count, call, sleep, urg, kthread, fd>>

RequestEnds(t) ==
    /\ NotWaiting(t) /\ t \in signalled
    /\ signalled' = signalled \ {t}
    /\ UNCHANGED <<condVars, sleep_count, call, sleep, urg, kthread, fd>>

(* timer_exec(), once a second: "make sure signals gets delivered". *)
wake_up_all_internal_mutant == FALSE /\ UNCHANGED waitVars
wake_up_all_internal ==
    /\ sleep' = WakeAll
    /\ UNCHANGED <<condVars, sleep_count, call, threadVars>>

-----------------------------------------------------------------------------
ThreadStep(t) ==
    \/ \E c \in Waits : wait_event(t, c)
    \/ WaitWoken(t) \/ TimesOut(t) \/ WaitTimedOut(t)

CallerStep(t) ==
    \/ PeerSignal(t) \/ RequestEnds(t)
    \/ RunReturns(t) \/ Joined(t)
    \/ \E k \in Kthreads : kthread_run(t, k) \/ kthread_stop(t, k)

KthreadStep(k) ==
    InstallHandler(k) \/ ReportStarted(k) \/ FunctionReturns(k) \/ thread_urg(k)

WaitNext ==
    \/ \E t \in Sleepers : ThreadStep(t)
    \/ \E t \in Callers : CallerStep(t)
    \/ \E k \in Kthreads : KthreadStep(k)
    \/ \E q \in Queues : SetCondition(q) \/ wake_up(q) \/ ResetCondition(q)
    \/ \E x \in Completions : complete(x)
    \/ wake_up_all_internal

WaitSpec == WaitInit /\ [][WaitNext]_waitVars

(* The function of a kernel thread returns once it was told to stop: its   *)
(* loops test kthread_should_stop().                                       *)
StopsWhenTold(k) == k \in signalled /\ FunctionReturns(k)

-----------------------------------------------------------------------------
(* No thread sleeps through what it waits for: while a completion is done  *)
(* or a condition is true, its sleepers were woken, or the wake_up() is    *)
(* still to come, even when drivers skip it because waitqueue_active()     *)
(* says that nobody sleeps.                                                *)
NoLostEvent ==
    \A t \in Sleepers :
        call[t].fn = "wait" /\ sleep[t] = "asleep" /\ Available(call[t].on)
            => call[t].on \in owed

(* kthread_run() does not free fd while kthread_wrapper() still uses it. *)
FdOutlivesWrapper ==
    \A k \in Kthreads : kthread[k] \in {"created", "installed"} => fd[k] # "none"

(* The SIGURG of kthread_stop() is never lost: a thread that is being      *)
(* stopped and still runs has seen it or is about to.  Once kthread_run()  *)
(* has returned the handler is installed.                                  *)
StopIsSeen ==
    \A t \in Sleepers :
        call[t].fn = "kthread_stop" =>
            \/ kthread[call[t].on] = "exited"
            \/ call[t].on \in urg \cup signalled

(* Together: no thread sleeps through what it waits for, though wake_up()  *)
(* is skipped when waitqueue_active() says so; kthread_run() does not free *)
(* fd while kthread_wrapper() uses it; kthread_stop() of a thread that has *)
(* just been started is not lost.                                          *)
NothingMissed == NoLostEvent /\ FdOutlivesWrapper /\ StopIsSeen

(* kthread_stop() returns although the thread may sleep in a call that a   *)
(* signal does not wake.                                                   *)
StopReturns ==
    \A t \in Callers : call[t].fn = "kthread_stop" ~> call[t] = NoCall

(* An interrupted request does not hang in an interruptible wait. *)
InterruptReturns ==
    \A t \in Callers :
        (call[t].intr /\ t \in signalled) ~> (call[t] = NoCall)
=============================================================================
