----------------------------- MODULE WorkQueue ------------------------------
(***************************************************************************)
(* Deferred work: the one work thread of linux_task.c, which runs every    *)
(* work_struct, delayed work and tasklet of every driver, and the timer    *)
(* thread of linux_timer.c as far as it feeds delayed work to it.          *)
(* Everything below happens under the atomic lock except the work          *)
(* functions and timer functions themselves, and the sleeps of the callers *)
(* that wait by polling.                                                   *)
(*                                                                         *)
(*   queue, curr     work_head and work_curr                               *)
(*   worker          where the work thread is: in a work function, in      *)
(*                   pthread_cond_wait(&work_cond), or on its way out of it*)
(*   flush_work_var  set by a flush, cleared when the queue was seen empty *)
(*   armed           delayed works whose timer is on timer_head            *)
(*   firing          the one whose timer function is being called          *)
(*   op              the call a thread is waiting in                       *)
(*   due             what was queued (q) or running (r) when it called     *)
(***************************************************************************)
EXTENDS Naturals, Sequences

CONSTANTS Threads, Works, NoWork

ASSUME WorkAssumption == NoWork \notin Works

VARIABLES queue, curr, worker, flush_work_var, armed, firing, op, due

timerVars == <<armed, firing>>
vars == <<queue, curr, worker, flush_work_var, timerVars, op, due>>

Members(q) == {q[i] : i \in DOMAIN q}
Queued(w) == w \in Members(queue)

NoOp == [fn |-> "none", work |-> NoWork]
NotDue == [q |-> {}, r |-> {}]
Waits == {"flush_scheduled_work", "flush_work", "cancel_work_sync"}

TypeOK ==
    /\ queue \in Seq(Works)
    /\ curr \in Works \cup {NoWork}
    /\ worker \in {"run", "sleep", "woken"}
    /\ flush_work_var \in {0, 1}
    /\ armed \subseteq Works
    /\ firing \in Works \cup {NoWork}
    /\ op \in [Threads -> [fn : Waits \cup {"add_timer", "none"}, work : Works \cup {NoWork}]]
    /\ due \in [Threads -> [q : SUBSET Works, r : SUBSET Works]]

Init ==
    /\ queue = <<>>
    /\ curr = NoWork
    /\ worker = "woken"
    /\ flush_work_var = 0
    /\ armed = {}
    /\ firing = NoWork
    /\ op = [t \in Threads |-> NoOp]
    /\ due = [t \in Threads |-> NotDue]

-----------------------------------------------------------------------------
(* pthread_cond_signal(&work_cond): only the work thread waits there.      *)
SignalledMutant == worker
Signalled == IF worker = "sleep" THEN "woken" ELSE worker

(* TAILQ_REMOVE() of the i-th element. *)
Without(q, i) == SubSeq(q, 1, i - 1) \o SubSeq(q, i + 1, Len(q))

(* schedule_work(), queue_work(), tasklet_schedule(): append unless on the *)
(* list already, and signal the work thread.                               *)
ScheduleMutant(w) ==
    /\ UNCHANGED worker
    /\ queue' = IF Queued(w) THEN queue ELSE Append(queue, w)
Schedule(w) ==
    IF Queued(w) THEN UNCHANGED <<queue, worker>>
    ELSE queue' = Append(queue, w) /\ worker' = Signalled

schedule_work(w) ==
    /\ Schedule(w)
    /\ UNCHANGED <<curr, flush_work_var, timerVars, op, due>>

(* The work thread at the top of its loop, still under the lock: take the  *)
(* first work, or announce that the queue is empty and sleep.  d is what   *)
(* callers wait for at this point.                                         *)
LoopTop(d) ==
    \/ /\ queue # <<>>
       /\ curr' = Head(queue)
       /\ queue' = Tail(queue)
       /\ worker' = "run"
       /\ due' = [t \in Threads |->
                    IF Head(queue) \in d[t].q
                    THEN [q |-> d[t].q \ {Head(queue)}, r |-> d[t].r \cup {Head(queue)}]
                    ELSE d[t]]
       /\ UNCHANGED flush_work_var
    \/ /\ queue = <<>>
       /\ curr' = NoWork
       /\ worker' = "sleep"
       /\ flush_work_var' = 0
       /\ due' = d
       /\ UNCHANGED queue

work_exec ==
    /\ worker = "woken"
    /\ LoopTop(due)
    /\ UNCHANGED <<timerVars, op>>

(* A work function returns. *)
FunctionReturns ==
    /\ worker = "run"
    /\ LoopTop([t \in Threads |-> [due[t] EXCEPT !.r = @ \ {curr}]])
    /\ UNCHANGED <<timerVars, op>>

SpuriousWakeup ==
    /\ worker = "sleep"
    /\ worker' = "woken"
    /\ UNCHANGED <<queue, curr, flush_work_var, timerVars, op, due>>

-----------------------------------------------------------------------------
(* What a caller that waits from now on has to see finished. *)
DueNow(ws) == [q |-> Members(queue) \cap ws, r |-> {curr} \cap ws]

Returns(t) ==
    /\ op' = [op EXCEPT ![t] = NoOp]
    /\ due' = [due EXCEPT ![t] = NotDue]

(* flush_scheduled_work(), flush_workqueue(): raise the flag and poll it   *)
(* every 10ms, waking the work thread each time.                           *)
FlushMutant(t) ==
    /\ op[t] = NoOp
    /\ worker' = Signalled
    /\ op' = [op EXCEPT ![t] = [fn |-> "flush_scheduled_work", work |-> NoWork]]
    /\ due' = [due EXCEPT ![t] = DueNow(Works)]
    /\ UNCHANGED <<queue, curr, timerVars, flush_work_var>>
flush_scheduled_work(t) ==
    /\ op[t] = NoOp
    /\ flush_work_var' = 1
    /\ worker' = Signalled
    /\ op' = [op EXCEPT ![t] = [fn |-> "flush_scheduled_work", work |-> NoWork]]
    /\ due' = [due EXCEPT ![t] = DueNow(Works)]
    /\ UNCHANGED <<queue, curr, timerVars>>

FlushPoll(t) ==
    /\ op[t].fn = "flush_scheduled_work"
    /\ worker' = Signalled
    /\ \/ flush_work_var = 0 /\ Returns(t)
       \/ flush_work_var # 0 /\ UNCHANGED <<op, due>>
    /\ UNCHANGED <<queue, curr, flush_work_var, timerVars>>

(* flush_work() polls until the work is neither queued nor running. *)
Busy(w) == Queued(w) \/ curr = w

flush_work(t, w) ==
    /\ op[t] = NoOp
    /\ Busy(w)
    /\ op' = [op EXCEPT ![t] = [fn |-> "flush_work", work |-> w]]
    /\ due' = [due EXCEPT ![t] = DueNow({w})]
    /\ UNCHANGED <<queue, curr, worker, flush_work_var, timerVars>>

FlushWorkPoll(t) ==
    /\ op[t].fn = "flush_work"
    /\ ~Busy(op[t].work)
    /\ Returns(t)
    /\ UNCHANGED <<queue, curr, worker, flush_work_var, timerVars>>

(* Take the work off the list; nobody has to see it run any more. *)
Dequeue(w) ==
    \/ ~Queued(w) /\ UNCHANGED queue
    \/ \E i \in DOMAIN queue : queue[i] = w /\ queue' = Without(queue, i)

DueWithout(w) == [u \in Threads |-> [due[u] EXCEPT !.q = @ \ {w}]]

(* cancel_work(), cancel_delayed_work(), tasklet_kill(). *)
cancel_work(w) ==
    /\ Queued(w)
    /\ Dequeue(w)
    /\ due' = DueWithout(w)
    /\ UNCHANGED <<curr, worker, flush_work_var, timerVars, op>>

(* cancel_work_sync(), cancel_delayed_work_sync(): besides, while the work *)
(* is running, poll until it is not.  The timer of a delayed work is not   *)
(* touched.                                                                *)
cancel_work_sync(t, w) ==
    /\ op[t] = NoOp
    /\ Dequeue(w)
    /\ \/ /\ curr # w
          /\ due' = DueWithout(w)
          /\ UNCHANGED op
       \/ /\ curr = w
          /\ due' = [DueWithout(w) EXCEPT ![t] = [q |-> {}, r |-> {w}]]
          /\ op' = [op EXCEPT ![t] = [fn |-> "cancel_work_sync", work |-> w]]
    /\ UNCHANGED <<curr, worker, flush_work_var, timerVars>>

CancelPoll(t) ==
    /\ op[t].fn = "cancel_work_sync"
    /\ curr # op[t].work
    /\ Returns(t)
    /\ UNCHANGED <<queue, curr, worker, flush_work_var, timerVars>>

-----------------------------------------------------------------------------
(* schedule_delayed_work(): without a delay it is schedule_work(); with    *)
(* one the timer is armed, in an atomic section of its own, unless it was  *)
(* pending.  Drivers arm one timer from one thread at a time.              *)
schedule_delayed_work(t, w) ==
    /\ op[t] = NoOp
    /\ w \notin armed
    /\ \A u \in Threads : op[u] # [fn |-> "add_timer", work |-> w]
    /\ op' = [op EXCEPT ![t] = [fn |-> "add_timer", work |-> w]]
    /\ UNCHANGED <<queue, curr, worker, flush_work_var, timerVars, due>>

add_timer(t) ==
    /\ op[t].fn = "add_timer"
    /\ armed' = armed \cup {op[t].work}
    /\ op' = [op EXCEPT ![t] = NoOp]
    /\ UNCHANGED <<queue, curr, worker, flush_work_var, firing, due>>

del_timer(w) ==
    /\ w \in armed
    /\ armed' = armed \ {w}
    /\ UNCHANGED <<queue, curr, worker, flush_work_var, firing, op, due>>

(* timer_exec(): a timer that has expired leaves the list under the lock   *)
(* and its function is called without it.                                  *)
TimerExpires(w) ==
    /\ firing = NoWork
    /\ w \in armed
    /\ armed' = armed \ {w}
    /\ firing' = w
    /\ UNCHANGED <<queue, curr, worker, flush_work_var, op, due>>

delayed_work_timer_fn ==
    /\ firing # NoWork
    /\ Schedule(firing)
    /\ firing' = NoWork
    /\ UNCHANGED <<curr, flush_work_var, armed, op, due>>

-----------------------------------------------------------------------------
Caller(t) ==
    \/ flush_scheduled_work(t) \/ FlushPoll(t) \/ FlushWorkPoll(t)
    \/ CancelPoll(t) \/ add_timer(t)
    \/ \E w \in Works :
          \/ flush_work(t, w) \/ cancel_work_sync(t, w)
          \/ schedule_delayed_work(t, w)

Next ==
    \/ work_exec \/ FunctionReturns \/ SpuriousWakeup
    \/ delayed_work_timer_fn
    \/ \E t \in Threads : Caller(t)
    \/ \E w \in Works : schedule_work(w) \/ cancel_work(w) \/ del_timer(w) \/ TimerExpires(w)

Spec == Init /\ [][Next]_vars

(* The work thread and the timer thread run, work functions return, timers *)
(* expire and usleep() ends.                                               *)
Fairness ==
    /\ WF_vars(work_exec) /\ WF_vars(FunctionReturns)
    /\ WF_vars(delayed_work_timer_fn)
    /\ \A w \in Works : SF_vars(TimerExpires(w))
    /\ \A t \in Threads : WF_vars(FlushPoll(t)) /\ WF_vars(add_timer(t))

FairSpec == Spec /\ Fairness

-----------------------------------------------------------------------------
(* A work is on the list at most once: schedule_work() of one that waits   *)
(* does nothing, so cancel_work() leaves no second entry behind.           *)
ListedOnce ==
    \A i, j \in DOMAIN queue : queue[i] = queue[j] => i = j

(* While the work thread sleeps nothing is queued: the signal of           *)
(* schedule_work() is never lost against its test of the list.             *)
SleepsOnlyWhenEmpty == worker = "sleep" => queue = <<>> /\ curr = NoWork

(* A flush returns only after every work that was queued or running when   *)
(* it was called has finished or was cancelled, whatever is scheduled,     *)
(* cancelled or flushed by other threads meanwhile.                        *)
FlushWaits ==
    [][\A t \in Threads :
          op[t].fn = "flush_scheduled_work" /\ op'[t] = NoOp => due[t] = NotDue]_vars

(* The same for flush_work(), and cancel_work_sync() returns only after    *)
(* the execution that it found running is over.                            *)
SyncWaits ==
    [][\A t \in Threads :
          op[t].fn \in {"flush_work", "cancel_work_sync"} /\ op'[t] = NoOp
              => due[t] = NotDue]_vars

(* The list and the thread that works it off agree: no work is on it       *)
(* twice, and the thread does not sleep over one (schedule_work(),         *)
(* work_exec()).                                                           *)
QueueSafe == TypeOK /\ ListedOnce /\ SleepsOnlyWhenEmpty

(* Whoever flushes or cancels synchronously returns only after the works   *)
(* that it was called for have run.                                        *)
WaitersServed == FlushWaits /\ SyncWaits

(* A queued work is taken by the work thread or cancelled. *)
WorkIsTaken == \A w \in Works : Queued(w) ~> ~Queued(w)

(* flush_scheduled_work() returns, provided the queue runs empty again and *)
(* again and other threads stop flushing in the end: as long as they go on *)
(* they may raise the shared flag before every one of its polls.           *)
Flushes(t) == op[t].fn = "flush_scheduled_work"
FlushReturns ==
    \A t \in Threads :
        []<>(curr = NoWork) /\ <>[](\A s \in Threads \ {t} : ~Flushes(s))
            => (Flushes(t) ~> ~Flushes(t))

(* The work thread takes what is queued, and flushes return. *)
WorkGoesOn == WorkIsTaken /\ FlushReturns
=============================================================================
