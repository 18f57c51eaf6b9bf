-------------------------------- MODULE Timer --------------------------------
(***************************************************************************)
(* Timers and the clock behind them (linux_timer.c).  Drivers arm and      *)
(* delete timers; one thread looks for expired ones, calls their functions *)
(* without the lock, and sleeps for a short or a relaxed while.  jiffies   *)
(* are computed from the nanosecond part of the wall clock alone.          *)
(*                                                                         *)
(*   elapsed    true time since start, in ticks (history)                  *)
(*   offset     what was added to the wall clock, modulo one second        *)
(*   nsec, rem, jiffies                                                    *)
(*              timer_last.tv_nsec, timer_nsec_rem, jiffies64              *)
(*   gap, late, slow, stepped                                              *)
(*              true time since the last look at the clock; whether two    *)
(*              looks were ever a second apart; whether a timer function   *)
(*              ever took long; how often the wall clock was set (history) *)
(*   timer_head the list;  linked: entry.tqe_prev # NULL                   *)
(*   expires    timer->expires;  since: when it was last changed           *)
(*   adding     the timer a thread is about to insert in add_timer()       *)
(*   tpc, cur, slept                                                       *)
(*              the timer thread: where it is, the timer whose function    *)
(*              runs, time slept                                           *)
(*   last_jiffies, last_check, ms_delay                                    *)
(*              its variables                                              *)
(*   quiet      true time since the last wake_up_all_internal() (history)  *)
(*   needed     timer_needed                                               *)
(***************************************************************************)
EXTENDS Integers, Sequences, SequencesExt

CONSTANTS
    Timers,
    NoTimer,
    Procs,          \* threads of drivers
    SEC,            \* ticks in a second
    DIV,            \* ticks in a jiffy: 1000000000 / HZ
    SHORT,          \* ticks in 25 milliseconds
    RELAX,          \* ticks in 500 milliseconds
    MaxTime,        \* bound: true time
    MaxNeeded,      \* bound: open devices
    SlowFunctions,  \* timer functions may take long
    MaxSets         \* bound: how often the administrator sets the wall clock

ASSUME TimerAssumption ==
    /\ NoTimer \notin Timers
    /\ "timer" \notin Procs
    /\ SEC \in Nat \ {0} /\ DIV \in Nat \ {0} /\ SEC % DIV = 0
    /\ SHORT \in Nat /\ RELAX \in Nat /\ SHORT <= RELAX /\ RELAX < SEC
    /\ MaxTime \in Nat /\ MaxNeeded \in Nat /\ MaxSets \in Nat
    /\ SlowFunctions \in BOOLEAN

VARIABLES elapsed, offset, nsec, rem, jiffies, gap, late, slow, stepped,
          timer_head, linked, expires, since, adding,
          tpc, last_jiffies, last_check, cur, ms_delay, slept, quiet, needed

clockVars == <<nsec, rem, jiffies, gap>>
timeVars == <<elapsed, offset, late, slow, stepped, quiet>>
headVars == <<timer_head, linked>>
threadVars == <<tpc, last_jiffies, last_check, cur, ms_delay, slept>>
timerVars == <<timeVars, clockVars, headVars, expires, since, adding, threadVars, needed>>

Callers == Procs \cup {"timer"}
HZ == SEC \div DIV

(* timer_init() has looked at the clock and created the thread. *)
TimerInit ==
    /\ elapsed = 0 /\ offset = 0 /\ nsec = 0 /\ rem = 0 /\ jiffies = 0
    /\ gap = 0 /\ late = FALSE /\ slow = FALSE /\ stepped = 0
    /\ timer_head = <<>> /\ linked = [t \in Timers |-> FALSE]
    /\ expires = [t \in Timers |-> 0] /\ since = [t \in Timers |-> 0]
    /\ adding = [p \in Callers |-> NoTimer]
    /\ tpc = "start" /\ last_jiffies = 0 /\ last_check = 0 /\ cur = NoTimer
    /\ ms_delay = 0 /\ slept = 0 /\ quiet = 0 /\ needed = 0

-----------------------------------------------------------------------------
(* The clock.  Only tv_nsec is read: whole seconds do not count, and a     *)
(* clock that went backwards counts as one that went past the second.      *)
Wall == (elapsed + offset) % SEC

Delta == LET d == Wall - nsec IN IF d < 0 THEN d + SEC ELSE d

JiffiesNow == jiffies + (rem + Delta) \div DIV

get_jiffies_64 ==
    /\ nsec' = Wall
    /\ rem' = (rem + Delta) % DIV
    /\ jiffies' = JiffiesNow
    /\ gap' = 0

(* A driver reads jiffies. *)
ReadJiffies ==
    /\ get_jiffies_64
    /\ UNCHANGED <<timeVars, headVars, expires, since, adding, threadVars, needed>>

(* Time passes: while the timer thread is asleep, and while a timer        *)
(* function takes long.  The thread's own steps take no time.              *)
Tick ==
    /\ elapsed < MaxTime
    /\ \/ tpc = "sleep" /\ slept < ms_delay
       \/ tpc = "run" /\ SlowFunctions
    /\ elapsed' = elapsed + 1
    /\ gap' = gap + 1
    /\ quiet' = quiet + 1
    /\ late' = (late \/ gap + 1 >= SEC)
    /\ slow' = (slow \/ tpc = "run")
    /\ slept' = IF tpc = "sleep" THEN slept + 1 ELSE slept
    /\ UNCHANGED <<offset, stepped, nsec, rem, jiffies, headVars, expires, since,
                   adding, tpc, last_jiffies, last_check, cur, ms_delay, needed>>

SetClock(o) ==
    /\ stepped < MaxSets
    /\ offset' = o
    /\ stepped' = stepped + 1
    /\ UNCHANGED <<elapsed, late, slow, quiet, clockVars, headVars, expires, since,
                   adding, threadVars, needed>>

-----------------------------------------------------------------------------
(* The calls of drivers; timer functions make them as well.                *)
CanCall(p) == adding[p] = NoTimer /\ (p = "timer" => tpc = "run")

(* TAILQ_REMOVE() *)
Off(a, u) == RemoveAt(a, CHOOSE n \in DOMAIN a : a[n] = u)
Unlink(t) ==
    /\ timer_head' = Off(timer_head, t)
    /\ linked' = [linked EXCEPT ![t] = FALSE]

del_timer(t) == IF linked[t] THEN Unlink(t) ELSE UNCHANGED headVars

DelTimer(p, t) ==
    /\ CanCall(p)
    /\ del_timer(t)
    /\ UNCHANGED <<timeVars, clockVars, expires, since, adding, threadVars, needed>>

(* add_timer() deletes and inserts in two sections.  The driver sets       *)
(* expires before, and no two threads add one timer at the same time.      *)
AddTimer(p, t, e) ==
    /\ CanCall(p)
    /\ \A q \in Callers : adding[q] # t
    /\ expires' = [expires EXCEPT ![t] = e]
    /\ since' = [since EXCEPT ![t] = elapsed]
    /\ adding' = [adding EXCEPT ![p] = t]
    /\ del_timer(t)
    /\ UNCHANGED <<timeVars, clockVars, threadVars, needed>>

InsertTimer(p) ==
    /\ adding[p] # NoTimer
    /\ timer_head' = Append(timer_head, adding[p])
    /\ linked' = [linked EXCEPT ![adding[p]] = TRUE]
    /\ since' = [since EXCEPT ![adding[p]] = elapsed]
    /\ adding' = [adding EXCEPT ![p] = NoTimer]
    /\ UNCHANGED <<timeVars, clockVars, expires, threadVars, needed>>

(* mod_timer() changes expires, and arms nothing. *)
mod_timer(p, t, e) ==
    /\ CanCall(p)
    /\ \A q \in Callers : adding[q] # t
    /\ expires' = [expires EXCEPT ![t] = e]
    /\ since' = [since EXCEPT ![t] = elapsed]
    /\ UNCHANGED <<timeVars, clockVars, headVars, adding, threadVars, needed>>

(* A device is opened or closed; the first open sends SIGIO, which ends    *)
(* usleep() if the thread is in it already.                                *)

need_timer(on) ==
    /\ IF on THEN needed < MaxNeeded /\ needed' = needed + 1
             ELSE needed > 0 /\ needed' = needed - 1
    /\ tpc' = IF on /\ needed = 0 /\ tpc = "sleep" THEN "loop" ELSE tpc
    /\ UNCHANGED <<timeVars, clockVars, headVars, expires, since, adding, last_jiffies,
                   last_check, cur, ms_delay, slept>>

-----------------------------------------------------------------------------
(* The timer thread, timer_exec(). *)
TimerStarts ==
    /\ tpc = "start"
    /\ get_jiffies_64
    /\ last_check' = JiffiesNow
    /\ tpc' = "loop"
    /\ UNCHANGED <<timeVars, headVars, expires, since, adding, last_jiffies, cur, ms_delay,
                   slept, needed>>

ReadClock ==
    /\ tpc = "loop"
    /\ get_jiffies_64
    /\ last_jiffies' = JiffiesNow
    /\ tpc' = "scan"
    /\ UNCHANGED <<timeVars, headVars, expires, since, adding, last_check, cur, ms_delay,
                   slept, needed>>

ExpiredMutant(t) == expires[t] <= last_jiffies

Expired(t) == expires[t] < last_jiffies

(* The first expired timer of the list is taken; without one, sleep.       *)
Scan ==
    IF \E t \in ToSet(timer_head) : Expired(t)
    THEN /\ LET t == timer_head[SelectInSeq(timer_head, Expired)] IN cur' = t /\ Unlink(t)
         /\ tpc' = "run"
         /\ UNCHANGED slept
    ELSE /\ tpc' = "sleep"
         /\ cur' = NoTimer
         /\ slept' = 0
         /\ UNCHANGED headVars

(* Once a second everybody is woken "to make sure signals gets delivered". *)

BroadcastDue == last_jiffies - last_check >= HZ \/ last_jiffies < last_check

DelayMutant == RELAX + SHORT
NextDelay == IF timer_head # <<>> \/ needed # 0 THEN SHORT ELSE RELAX

CheckTimers ==
    /\ tpc = "scan"
    /\ last_check' = IF BroadcastDue THEN last_jiffies ELSE last_check
    /\ quiet' = IF BroadcastDue THEN 0 ELSE quiet
    /\ ms_delay' = NextDelay
    /\ Scan
    /\ UNCHANGED <<elapsed, offset, late, slow, stepped, clockVars, expires, since,
                   adding, last_jiffies, needed>>

(* The function has returned: the list is searched from its head again.    *)
FunctionReturns ==
    /\ tpc = "run" /\ adding["timer"] = NoTimer
    /\ Scan
    /\ UNCHANGED <<timeVars, clockVars, expires, since, adding, last_jiffies, last_check,
                   ms_delay, needed>>

Wakes ==
    /\ tpc = "sleep" /\ slept >= ms_delay
    /\ tpc' = "loop"
    /\ UNCHANGED <<timeVars, clockVars, headVars, expires, since, adding, last_jiffies,
                   last_check, cur, ms_delay, slept, needed>>

-----------------------------------------------------------------------------
TimerThread == TimerStarts \/ ReadClock \/ CheckTimers \/ FunctionReturns \/ Wakes

(* Expiry times near the present: past, now, and soon. *)
Times == {j \in {jiffies - 1, jiffies, jiffies + 1} : j >= 0}

DriverCalls ==
    \/ ReadJiffies
    \/ \E p \in Callers : \/ InsertTimer(p)
                          \/ \E t \in Timers : \/ DelTimer(p, t)
                                               \/ \E e \in Times : AddTimer(p, t, e)
                                               \/ \E e \in Times : mod_timer(p, t, e)
    \/ \E on \in BOOLEAN : need_timer(on)

TimerNext == TimerThread \/ DriverCalls \/ Tick \/ \E o \in 0..SEC-1 : SetClock(o)

TimerSpec == TimerInit /\ [][TimerNext]_timerVars

-----------------------------------------------------------------------------
(* A timer is on the list once if its entry says that it is linked, and    *)
(* not at all otherwise, while add_timer() is between its two sections and *)
(* while the timer's own function arms it again.                           *)
LinkedOnce ==
    /\ \A t \in Timers : linked[t] <=> t \in ToSet(timer_head)
    /\ \A m, n \in DOMAIN timer_head : timer_head[m] = timer_head[n] => m = n

(* get_jiffies_64() never runs ahead of true time, and loses none of it as *)
(* long as two calls are less than a second apart, which the relaxed sleep *)
(* of the timer thread ensures; unless somebody sets the clock.            *)
ClockIsTrue ==
    stepped = 0 => LET counted == jiffies * DIV + rem + gap IN
                /\ counted <= elapsed
                /\ ~late => counted = elapsed

(* Whatever happens to the wall clock, jiffies never go back and advance   *)
(* by at most a second in one call.                                        *)
JiffiesAdvance == jiffies' - jiffies \in 0..HZ

(* No timer function is called before its time, by true time: the jiffy in *)
(* which the timer expires is over, also if mod_timer() put it off.        *)
NeverEarly ==
    tpc' = "run" /\ cur' # cur /\ stepped = 0 => (expires[cur'] + 1) * DIV <= elapsed

(* A timer on the list waits for its function no longer than a relaxed     *)
(* sleep after it expired or was armed, also if it was armed while the     *)
(* thread was asleep; as long as no timer function took time.              *)
NeverLate ==
    ~slow /\ stepped = 0 =>
        \A t \in Timers : linked[t] =>
            \/ elapsed <= since[t] + RELAX
            \/ elapsed <= (expires[t] + 1) * DIV + RELAX

(* The broadcast on which wait_event() relies to see signals comes at      *)
(* least every second and a half.                                          *)
BroadcastRecurs == ~slow /\ stepped = 0 => quiet < SEC + RELAX

(* Timer: timer_head holds a timer once if its entry says so and not       *)
(* otherwise; get_jiffies_64() counts true time; timers wait no longer     *)
(* than a relaxed sleep, and timer_exec() wakes everybody at least every   *)
(* second and a half.                                                      *)
TimersExact == LinkedOnce /\ ClockIsTrue /\ NeverLate /\ BroadcastRecurs

(* Timer: timer_exec() calls no function before its time, and jiffies      *)
(* never go back, whatever happens to the wall clock.                      *)
OnTime == [][NeverEarly /\ JiffiesAdvance]_timerVars
=============================================================================
