---------------------------- MODULE ThreadsProofs ----------------------------
(***************************************************************************)
(* Theorems about polling (PollWakeup), RCU callbacks (RcuCallbacks) and   *)
(* loading firmware (Firmware), for any number of pollers, threads, heads  *)
(* and requests, and about the program that runs them side by side.        *)
(***************************************************************************)
EXTENDS MCThreads, TLAPS

(***************************************************************************)
(* 1. Polling.                                                             *)
(***************************************************************************)
PollTypeOK ==
    /\ ready \in BOOLEAN
    /\ selwakeup \in BOOLEAN
    /\ inhibit \in [Threads -> 0..2]
    /\ waker \in [Threads -> {"idle", "wake_up", "notify"}]
    /\ poller \in [Pollers -> {"idle", "poll", "marked", "asleep"}]
    /\ woken \in [Pollers -> BOOLEAN]

(* Who sleeps in poll(), or is about to test the condition, has marked the *)
(* queue: wake_up() does not skip the external wakeup.                     *)
PollersMark == \A p \in Pollers : poller[p] \in {"marked", "asleep"} => selwakeup

PollInv ==
    /\ PollTypeOK
    /\ PollersMark
    /\ NoLostPoll

(***************************************************************************)
(* 2. RCU callbacks.                                                       *)
(***************************************************************************)
RcuTypeOK ==
    /\ first \in Heads \cup {NULL}
    /\ next \in [Heads -> Heads \cup {NULL}]
    /\ thread \in {"look", "run", "sleep"}
    /\ cur \in Heads \cup {NULL}
    /\ owed \in [Heads -> {0, 1}]
    /\ requests \in 0..MaxCalls

(* The RCU thread does not sleep while there is something on the list. *)
NoSignalMissed == thread = "sleep" => first = NULL

RcuInv ==
    /\ RcuTypeOK
    /\ NoSignalMissed
    /\ ListMatchesRequests

(***************************************************************************)
(* 3. Loading firmware.                                                    *)
(***************************************************************************)
FwTypeOK ==
    /\ pc \in [Requests -> {"idle", "start", "open", "seek", "alloc", "read",
                            "run", "created", "back", "crashed"}]
    /\ wait \in [Requests -> BOOLEAN]
    /\ mem \in [Requests -> SUBSET {"arg", "fw", "data"}]
    /\ fd \in [Requests -> BOOLEAN]
    /\ ret \in [Requests -> {NONE, 0, EINVAL, ENOMEM}]
    /\ task \in [Requests -> {"none", "called", "freeing", "gone"}]
    /\ has \in [Requests -> BOOLEAN]
    /\ calls \in [Requests -> {0, 1}]
    /\ wrong \in BOOLEAN

(* The argument of request_firmware_nowait(), and what the driver has. *)
Arg(r) == IF wait[r] THEN {"arg"} ELSE {}
Given(r) == IF has[r] THEN {"fw", "data"} ELSE {}

(* The file is open from open() until it is closed after the read. *)
FileRight(r) == fd[r] <=> pc[r] \in {"seek", "alloc", "read"}

(* A request that has not ended owns what its steps so far have allocated. *)
StepsRight(r) ==
    /\ pc[r] = "idle" => ~wait[r] /\ mem[r] = {}
    /\ pc[r] \in {"start", "crashed"} => mem[r] = Arg(r)
    /\ pc[r] \in {"open", "seek", "alloc"} => mem[r] = Arg(r) \cup {"fw"}
    /\ pc[r] = "read" => mem[r] = Arg(r) \cup {"fw", "data"}
    /\ pc[r] = "run" => wait[r] /\ mem[r] = {"arg"} \cup {"fw", "data"}

(* The answer comes at the end, and a thread is there only for a request   *)
(* without wait that was not refused.                                      *)
AnswerRight(r) ==
    /\ ret[r] = NONE <=> pc[r] # "back"
    /\ task[r] # "none" <=> wait[r] /\ (pc[r] = "created" \/ (pc[r] = "back" /\ ret[r] = 0))
    /\ pc[r] = "created" => wait[r]
    /\ has[r] => pc[r] \in {"created", "back"} /\ ret[r] \in {0, NONE}
    /\ calls[r] = 1 <=> task[r] \in {"freeing", "gone"}

(* The thread of a request has its argument until its end, and the driver  *)
(* has the firmware from the callback on, until it releases it.            *)
TaskRight(r) ==
    /\ task[r] = "called" => mem[r] = {"arg"} \cup {"fw", "data"} /\ ~has[r]
    /\ task[r] = "freeing" => mem[r] = {"arg"} \cup Given(r)
    /\ task[r] = "gone" => mem[r] = Given(r)

(* What a request that has ended leaves. *)
EndRight(r) ==
    pc[r] = "back" /\ task[r] = "none" => mem[r] = IF ret[r] = 0 THEN Given(r) ELSE {}

FwRight(r) == FileRight(r) /\ StepsRight(r) /\ AnswerRight(r) /\ TaskRight(r) /\ EndRight(r)

FwInv ==
    /\ FwTypeOK
    /\ ~wrong
    /\ \A r \in Requests : FwRight(r)

AllInv == PollInv /\ RcuInv /\ FwInv
-----------------------------------------------------------------------------
(* Polling. *)
LEMMA PollInitial == PollInit => PollInv
<1> SUFFICES ASSUME PollInit PROVE PollInv
  OBVIOUS
<1>0. inhibit \in [Threads -> 0..2]
  BY SMT DEF PollInit
<1>1. ready \in BOOLEAN /\ selwakeup \in BOOLEAN
  BY DEF PollInit
<1>2. waker \in [Threads -> {"idle", "wake_up", "notify"}]
  BY DEF PollInit
<1>3. poller \in [Pollers -> {"idle", "poll", "marked", "asleep"}] /\ woken \in [Pollers -> BOOLEAN]
  BY DEF PollInit
<1>4. PollersMark /\ NoLostPoll
  BY DEF PollInit, PollersMark, NoLostPoll
<1> QED
  BY <1>0, <1>1, <1>2, <1>3, <1>4 DEF PollInv, PollTypeOK

LEMMA PollBegin ==
    ASSUME PollInv, NEW t \in Threads, BeginRound(t)
    PROVE  PollInv'
<1>1. PollTypeOK'
  BY DEF PollInv, PollTypeOK, BeginRound
<1>2. PollersMark'
  BY DEF PollInv, PollersMark, BeginRound
<1>3. NoLostPoll'
  BY DEF PollInv, NoLostPoll, BeginRound
<1> QED
  BY <1>1, <1>2, <1>3 DEF PollInv

LEMMA PollEnd ==
    ASSUME PollInv, NEW t \in Threads, EndRound(t)
    PROVE  PollInv'
<1>1. PollTypeOK'
  <2>1. woken' \in [Pollers -> BOOLEAN]
    BY Zenon DEF PollInv, PollTypeOK, EndRound, poll_wakeup_internal
  <2>2. /\ ready' \in BOOLEAN /\ selwakeup' \in BOOLEAN /\ inhibit' \in [Threads -> 0..2]
        /\ waker' \in [Threads -> {"idle", "wake_up", "notify"}]
        /\ poller' \in [Pollers -> {"idle", "poll", "marked", "asleep"}]
    BY DEF PollInv, PollTypeOK, EndRound
  <2> QED
    BY <2>1, <2>2 DEF PollTypeOK
<1>2. PollersMark'
  BY DEF PollInv, PollersMark, EndRound
<1>3. NoLostPoll'
  BY DEF PollInv, PollTypeOK, NoLostPoll, EndRound, poll_wakeup_internal
<1> QED
  BY <1>1, <1>2, <1>3 DEF PollInv

LEMMA PollMake ==
    ASSUME PollInv, NEW t \in Threads, MakeReady(t)
    PROVE  PollInv'
<1>1. PollTypeOK'
  BY DEF PollInv, PollTypeOK, MakeReady
<1>2. PollersMark'
  BY DEF PollInv, PollersMark, MakeReady
<1>3. NoLostPoll'
  BY DEF PollInv, PollTypeOK, NoLostPoll, MakeReady
<1> QED
  BY <1>1, <1>2, <1>3 DEF PollInv

LEMMA PollWake ==
    ASSUME PollInv, NEW t \in Threads, wake_up(t)
    PROVE  PollInv'
<1>1. PollTypeOK'
  BY DEF PollInv, PollTypeOK, wake_up
<1>2. PollersMark'
  BY DEF PollInv, PollersMark, wake_up
<1>3. NoLostPoll'
  BY DEF PollInv, PollersMark, NoLostPoll, wake_up
<1> QED
  BY <1>1, <1>2, <1>3 DEF PollInv

LEMMA PollNotify ==
    ASSUME PollInv, NEW t \in Threads, Notify(t)
    PROVE  PollInv'
<1>1. PollTypeOK'
  <2>1. woken' \in [Pollers -> BOOLEAN]
    BY Zenon DEF PollInv, PollTypeOK, Notify, poll_wakeup_internal
  <2>2. /\ ready' \in BOOLEAN /\ selwakeup' \in BOOLEAN /\ inhibit' \in [Threads -> 0..2]
        /\ waker' \in [Threads -> {"idle", "wake_up", "notify"}]
        /\ poller' \in [Pollers -> {"idle", "poll", "marked", "asleep"}]
    BY DEF PollInv, PollTypeOK, Notify
  <2> QED
    BY <2>1, <2>2 DEF PollTypeOK
<1>2. PollersMark'
  BY DEF PollInv, PollersMark, Notify
<1>3. NoLostPoll'
  BY DEF PollInv, PollTypeOK, NoLostPoll, Notify, poll_wakeup_internal
<1> QED
  BY <1>1, <1>2, <1>3 DEF PollInv

LEMMA PollAsks ==
    ASSUME PollInv, NEW p \in Pollers, v4b_poll(p)
    PROVE  PollInv'
<1>1. PollTypeOK'
  BY DEF PollInv, PollTypeOK, v4b_poll
<1>2. PollersMark'
  BY DEF PollInv, PollersMark, v4b_poll
<1>3. NoLostPoll'
  BY DEF PollInv, PollTypeOK, NoLostPoll, v4b_poll
<1> QED
  BY <1>1, <1>2, <1>3 DEF PollInv

LEMMA PollMarks ==
    ASSUME PollInv, NEW p \in Pollers, poll_wait(p)
    PROVE  PollInv'
<1>1. PollTypeOK'
  BY DEF PollInv, PollTypeOK, poll_wait
<1>2. PollersMark'
  BY DEF PollersMark, poll_wait
<1>3. NoLostPoll'
  BY DEF PollInv, NoLostPoll, poll_wait
<1> QED
  BY <1>1, <1>2, <1>3 DEF PollInv

LEMMA PollTests ==
    ASSUME PollInv, NEW p \in Pollers, linux_poll(p)
    PROVE  PollInv'
<1>1. PollTypeOK'
  BY DEF PollInv, PollTypeOK, linux_poll
<1>2. PollersMark'
  BY DEF PollInv, PollersMark, linux_poll
<1>3. NoLostPoll'
  BY DEF PollInv, NoLostPoll, linux_poll
<1> QED
  BY <1>1, <1>2, <1>3 DEF PollInv

LEMMA PollConsume ==
    ASSUME PollInv, Consume
    PROVE  PollInv'
<1>1. PollTypeOK'
  BY DEF PollInv, PollTypeOK, Consume
<1>2. PollersMark'
  BY DEF PollInv, PollersMark, Consume
<1>3. NoLostPoll'
  BY DEF NoLostPoll, Consume
<1> QED
  BY <1>1, <1>2, <1>3 DEF PollInv

LEMMA PollStep == PollInv /\ [PollNext]_pollVars => PollInv'
<1> SUFFICES ASSUME PollInv, [PollNext]_pollVars PROVE PollInv'
  OBVIOUS
<1>1. CASE Wakers
  <2>1. \A t \in Rounds : t \in Threads
    BY DEF Threads
  <2> QED
    BY <1>1, <2>1, PollBegin, PollEnd, PollMake, PollWake, PollNotify DEF Wakers
<1>2. CASE \E p \in Pollers : v4b_poll(p) \/ poll_wait(p) \/ linux_poll(p)
  BY <1>2, PollAsks, PollMarks, PollTests
<1>3. CASE Consume
  BY <1>3, PollConsume
<1>4. CASE UNCHANGED pollVars
  BY <1>4 DEF pollVars, PollInv, PollTypeOK, PollersMark, NoLostPoll
<1> QED
  BY <1>1, <1>2, <1>3, <1>4 DEF PollNext

(* Nobody sleeps in poll() on data that is there unless a wakeup is on its *)
(* way: poll_wait() marks the queue before the driver's condition is       *)
(* tested, wake_up() reads the mark after the condition was made true, and *)
(* a wakeup that a USB or timer thread puts off is made at the end of its  *)
(* round.                                                                  *)
THEOREM Polled == PollSpec => []NoLostPoll
<1>1. PollInv => NoLostPoll
  BY DEF PollInv
<1> QED
  BY <1>1, PollInitial, PollStep, PTL DEF PollSpec

-----------------------------------------------------------------------------
(* RCU callbacks.  The witness for the list after a step: nothing is on an *)
(* empty list, call_rcu() puts a head before it, rcu_exec() takes the      *)
(* first one off.                                                          *)
Matches(s, n) ==
    /\ IsList(s, n)
    /\ \A h \in Heads :
           IF \E i \in 1..n : s[i] = h THEN owed[h] = 1 ELSE owed[h] = 0 /\ next[h] = NULL

Before(h, s, n) == [i \in 1..n+1 |-> IF i = 1 THEN h ELSE s[i-1]]
Without(s, n) == [i \in 1..n-1 |-> s[i+1]]

LEMMA MatchesDef ==
    ListMatchesRequests <=> \E n \in 0..requests : \E s \in [1..n -> Heads] : Matches(s, n)
  BY DEF ListMatchesRequests, Matches

LEMMA RcuInitial == RcuInit => RcuInv
<1> SUFFICES ASSUME RcuInit PROVE RcuInv
  OBVIOUS
<1>1. RcuTypeOK /\ NoSignalMissed
  BY RcuAssumption DEF RcuInit, RcuTypeOK, NoSignalMissed
<1>2. ListMatchesRequests
  <2> DEFINE e == [i \in 1..0 |-> NULL]
  <2>1. e \in [1..0 -> Heads]
    OBVIOUS
  <2>2. Matches(e, 0)
    BY DEF Matches, IsList, RcuInit
  <2>3. 0 \in 0..requests
    BY DEF RcuInit
  <2> QED
    BY <2>1, <2>2, <2>3, MatchesDef
<1> QED
  BY <1>1, <1>2 DEF RcuInv

(* call_rcu() of a head that is not requested: its pointer is NULL, since  *)
(* it is not on the list, so it is put on it.                              *)
LEMMA RcuCall ==
    ASSUME RcuInv, NEW h \in Heads, call_rcu(h)
    PROVE  RcuInv'
<1>0. PICK n \in 0..requests : \E s \in [1..n -> Heads] : Matches(s, n)
  BY MatchesDef DEF RcuInv
<1>1. PICK s \in [1..n -> Heads] : Matches(s, n)
  BY <1>0
<1>2. \A i \in 1..n : s[i] # h
  BY <1>1 DEF Matches, call_rcu
<1>3. /\ next[h] = NULL
      /\ next' = [next EXCEPT ![h] = first] /\ first' = h
      /\ thread' = Signal /\ owed' = [owed EXCEPT ![h] = 1]
      /\ requests < MaxCalls /\ requests' = requests + 1 /\ cur' = cur
  BY <1>1, <1>2 DEF Matches, call_rcu
<1>4. RcuTypeOK'
  BY <1>3, RcuAssumption DEF RcuInv, RcuTypeOK, Signal
<1>5. NoSignalMissed'
  BY <1>3 DEF NoSignalMissed, Signal
<1>6. ListMatchesRequests'
  <2> DEFINE z == Before(h, s, n)
  <2>1. n \in Nat /\ n + 1 \in 0..requests'
    BY <1>3 DEF RcuInv, RcuTypeOK
  <2>2. z \in [1..n+1 -> Heads]
    BY <2>1 DEF Before
  <2>3. z[1] = h /\ \A i \in 2..n+1 : i - 1 \in 1..n /\ z[i] = s[i-1]
    BY <2>1 DEF Before
  <2>4. \A i, j \in 1..n+1 : z[i] = z[j] => i = j
    <3> SUFFICES ASSUME NEW i \in 1..n+1, NEW j \in 1..n+1, z[i] = z[j] PROVE i = j
      OBVIOUS
    <3> HIDE DEF z
    <3>1. CASE i = 1 \/ j = 1
      BY <1>2, <2>1, <2>3, <3>1
    <3>2. CASE i \in 2..n+1 /\ j \in 2..n+1
      BY <1>1, <2>1, <2>3, <3>2 DEF Matches, IsList
    <3> QED
      BY <3>1, <3>2, <2>1
  <2>5. \A i \in 1..n+1 : next'[z[i]] = IF i = n + 1 THEN NULL ELSE z[i+1]
    <3> SUFFICES ASSUME NEW i \in 1..n+1 PROVE next'[z[i]] = IF i = n + 1 THEN NULL ELSE z[i+1]
      OBVIOUS
    <3> HIDE DEF z
    <3>0. next \in [Heads -> Heads \cup {NULL}]
      BY DEF RcuInv, RcuTypeOK
    <3>1. CASE i = 1
      <4>1. next'[z[i]] = first
        BY <1>3, <2>3, <3>0, <3>1
      <4>2. CASE n = 0
        BY <4>1, <4>2, <3>1, <1>1 DEF Matches, IsList
      <4>3. CASE n # 0
        BY <4>1, <4>3, <3>1, <1>1, <2>1, <2>3 DEF Matches, IsList
      <4> QED
        BY <4>2, <4>3
    <3>2. CASE i # 1
      <4>1. i - 1 \in 1..n /\ z[i] = s[i-1] /\ s[i-1] \in Heads /\ s[i-1] # h
        BY <2>1, <2>3, <3>2, <1>2
      <4>2. next'[z[i]] = next[s[i-1]]
        BY <4>1, <1>3, <3>0
      <4>3. next[s[i-1]] = IF i - 1 = n THEN NULL ELSE s[(i-1)+1]
        BY <4>1, <1>1 DEF Matches, IsList
      <4>4. i # n + 1 => i + 1 \in 2..n+1 /\ z[i+1] = s[i]
        BY <2>1, <2>3, <3>2
      <4> QED
        BY <4>2, <4>3, <4>4, <2>1
    <3> QED
      BY <3>1, <3>2
  <2>6. IsList(z, n + 1)'
    <3>1. z' = z /\ (n + 1)' = n + 1
      OBVIOUS
    <3>2. first' = z[1] /\ n + 1 # 0
      BY <1>3, <2>1, <2>3
    <3> HIDE DEF z
    <3> QED
      BY <3>2, <2>4, <2>5 DEF IsList
  <2>7. \A g \in Heads : IF \E i \in 1..n+1 : z[i] = g THEN owed'[g] = 1
                         ELSE owed'[g] = 0 /\ next'[g] = NULL
    <3> SUFFICES ASSUME NEW g \in Heads
                 PROVE  IF \E i \in 1..n+1 : z[i] = g THEN owed'[g] = 1
                        ELSE owed'[g] = 0 /\ next'[g] = NULL
      OBVIOUS
    <3> HIDE DEF z
    <3>0. owed \in [Heads -> {0, 1}] /\ next \in [Heads -> Heads \cup {NULL}]
      BY DEF RcuInv, RcuTypeOK
    <3>1. CASE g = h
      BY <3>0, <3>1, <1>3, <2>1, <2>3
    <3>2. CASE g # h
      <4>1. (\E i \in 1..n+1 : z[i] = g) <=> (\E i \in 1..n : s[i] = g)
        <5>1. ASSUME NEW i \in 1..n, s[i] = g PROVE \E j \in 1..n+1 : z[j] = g
          <6>1. i + 1 \in 2..n+1 /\ i + 1 \in 1..n+1 /\ (i + 1) - 1 = i
            BY <2>1
          <6> QED
            BY <5>1, <6>1, <2>3
        <5>2. ASSUME NEW i \in 1..n+1, z[i] = g PROVE \E j \in 1..n : s[j] = g
          BY <5>2, <3>2, <2>1, <2>3
        <5> QED
          BY <5>1, <5>2
      <4>2. owed'[g] = owed[g] /\ next'[g] = next[g]
        BY <3>0, <3>2, <1>3
      <4> QED
        BY <4>1, <4>2, <1>1 DEF Matches
    <3> QED
      BY <3>1, <3>2
  <2>8. Matches(z, n + 1)'
    BY <2>6, <2>7 DEF Matches
  <2> QED
    BY <2>1, <2>2, <2>8, MatchesDef DEF ListMatchesRequests, Matches
<1> QED
  BY <1>4, <1>5, <1>6 DEF RcuInv

(* rcu_exec() takes the first element off: what is left is the list behind *)
(* it.                                                                     *)
LEMMA RcuTake ==
    ASSUME RcuInv, TakeFirst
    PROVE  RcuInv'
<1>0. PICK n \in 0..requests : \E s \in [1..n -> Heads] : Matches(s, n)
  BY MatchesDef DEF RcuInv
<1>1. PICK s \in [1..n -> Heads] : Matches(s, n)
  BY <1>0
<1>2. n \in Nat \ {0} /\ 1 \in 1..n /\ first = s[1] /\ first \in Heads
  BY <1>1, RcuAssumption DEF Matches, IsList, TakeFirst
<1>3. /\ first' = next[first]
      /\ next' = [next EXCEPT ![first] = NULL]
      /\ owed' = [owed EXCEPT ![first] = 0]
      /\ thread' = "run" /\ cur' = first /\ requests' = requests
  <2>1. owed[first] = 1
    BY <1>1, <1>2 DEF Matches
  <2> QED
    BY <2>1, <1>2 DEF TakeFirst, RcuInv, RcuTypeOK
<1>4. RcuTypeOK'
  BY <1>2, <1>3 DEF RcuInv, RcuTypeOK
<1>5. NoSignalMissed'
  BY <1>3 DEF NoSignalMissed
<1>6. ListMatchesRequests'
  <2> DEFINE z == Without(s, n)
             m == n - 1
  <2>1. m \in Nat /\ m \in 0..requests' /\ n = m + 1
    BY <1>2, <1>3 DEF RcuInv, RcuTypeOK
  <2>2. z \in [1..m -> Heads]
    BY <1>2, <2>1 DEF Without
  <2>3. \A i \in 1..m : i + 1 \in 1..n /\ i + 1 # 1 /\ z[i] = s[i+1]
    BY <1>2, <2>1 DEF Without
  <2>4. \A i \in 1..m : z[i] \in Heads /\ z[i] # first
    BY <1>1, <1>2, <2>3 DEF Matches, IsList
  <2>5. next \in [Heads -> Heads \cup {NULL}] /\ owed \in [Heads -> {0, 1}]
    BY DEF RcuInv, RcuTypeOK
  <2> HIDE DEF z, m
  <2>6. first' = IF m = 0 THEN NULL ELSE z[1]
    <3>1. next[first] = IF 1 = n THEN NULL ELSE s[1+1]
      BY <1>1, <1>2 DEF Matches, IsList
    <3> QED
      BY <3>1, <1>3, <2>1, <2>3
  <2>7. \A i \in 1..m : next'[z[i]] = IF i = m THEN NULL ELSE z[i+1]
    <3> SUFFICES ASSUME NEW i \in 1..m PROVE next'[z[i]] = IF i = m THEN NULL ELSE z[i+1]
      OBVIOUS
    <3>1. next'[z[i]] = next[s[i+1]]
      BY <1>3, <2>3, <2>4, <2>5
    <3>2. next[s[i+1]] = IF i + 1 = n THEN NULL ELSE s[(i+1)+1]
      BY <1>1, <2>3 DEF Matches, IsList
    <3>3. i # m => i + 1 \in 1..m /\ z[i+1] = s[(i+1)+1]
      BY <2>1, <2>3
    <3> QED
      BY <3>1, <3>2, <3>3, <2>1
  <2>8. \A i, j \in 1..m : z[i] = z[j] => i = j
    BY <1>1, <2>1, <2>3 DEF Matches, IsList
  <2>9. \A g \in Heads : IF \E i \in 1..m : z[i] = g THEN owed'[g] = 1
                         ELSE owed'[g] = 0 /\ next'[g] = NULL
    <3> SUFFICES ASSUME NEW g \in Heads
                 PROVE  IF \E i \in 1..m : z[i] = g THEN owed'[g] = 1
                        ELSE owed'[g] = 0 /\ next'[g] = NULL
      OBVIOUS
    <3>1. CASE g = first
      BY <3>1, <1>3, <2>4, <2>5
    <3>2. CASE g # first
      <4>1. (\E i \in 1..m : z[i] = g) <=> (\E i \in 1..n : s[i] = g)
        <5>1. ASSUME NEW i \in 1..m, z[i] = g PROVE \E j \in 1..n : s[j] = g
          BY <5>1, <2>3
        <5>2. ASSUME NEW i \in 1..n, s[i] = g PROVE \E j \in 1..m : z[j] = g
          <6>1. i # 1
            BY <5>2, <3>2, <1>2
          <6>2. i - 1 \in 1..m /\ (i - 1) + 1 = i
            BY <6>1, <2>1
          <6> QED
            BY <5>2, <6>2, <2>3
        <5> QED
          BY <5>1, <5>2
      <4>2. owed'[g] = owed[g] /\ next'[g] = next[g]
        BY <3>2, <1>2, <1>3, <2>5
      <4> QED
        BY <4>1, <4>2, <1>1 DEF Matches
    <3> QED
      BY <3>1, <3>2
  <2>10. \E k \in 0..requests' : \E y \in [1..k -> Heads] :
            /\ first' = IF k = 0 THEN NULL ELSE y[1]
            /\ \A i \in 1..k : next'[y[i]] = IF i = k THEN NULL ELSE y[i+1]
            /\ \A i, j \in 1..k : y[i] = y[j] => i = j
            /\ \A g \in Heads : IF \E i \in 1..k : y[i] = g THEN owed'[g] = 1
                                 ELSE owed'[g] = 0 /\ next'[g] = NULL
    BY <2>1, <2>2, <2>6, <2>7, <2>8, <2>9
  <2> QED
    BY <2>10 DEF ListMatchesRequests, IsList
<1> QED
  BY <1>4, <1>5, <1>6 DEF RcuInv

(* Steps that leave the list and the requests alone. *)
LEMMA ListStays ==
    ASSUME ListMatchesRequests, UNCHANGED <<first, next, owed, requests>>
    PROVE  ListMatchesRequests'
  BY DEF ListMatchesRequests, IsList

LEMMA RcuStep == RcuInv /\ [RcuNext]_rcuVars => RcuInv'
<1> SUFFICES ASSUME RcuInv, [RcuNext]_rcuVars PROVE RcuInv'
  OBVIOUS
<1>1. CASE TakeFirst
  BY <1>1, RcuTake
<1>2. CASE CallbackReturns
  <2>1. ListMatchesRequests'
    BY <1>2, ListStays DEF CallbackReturns, RcuInv
  <2>2. RcuTypeOK' /\ NoSignalMissed'
    BY <1>2 DEF CallbackReturns, RcuInv, RcuTypeOK, NoSignalMissed
  <2> QED
    BY <2>1, <2>2 DEF RcuInv
<1>3. CASE WaitForWork
  <2>1. ListMatchesRequests'
    BY <1>3, ListStays DEF WaitForWork, RcuInv
  <2>2. RcuTypeOK' /\ NoSignalMissed'
    BY <1>3 DEF WaitForWork, RcuInv, RcuTypeOK, NoSignalMissed
  <2> QED
    BY <2>1, <2>2 DEF RcuInv
<1>4. CASE \E h \in Heads : call_rcu(h)
  BY <1>4, RcuCall
<1>5. CASE UNCHANGED rcuVars
  <2>1. ListMatchesRequests'
    BY <1>5, ListStays DEF rcuVars, RcuInv
  <2>2. RcuTypeOK' /\ NoSignalMissed'
    BY <1>5 DEF rcuVars, RcuInv, RcuTypeOK, NoSignalMissed
  <2> QED
    BY <2>1, <2>2 DEF RcuInv
<1> QED
  BY <1>1, <1>2, <1>3, <1>4, <1>5 DEF RcuNext, RcuThread

(* The list of call_rcu() holds each head that is requested once and no    *)
(* other, although "next is NULL" is taken to mean "not on the list" and   *)
(* is true of its last element; and the RCU thread does not sleep while    *)
(* there is something on it.                                               *)
THEOREM Listed == RcuSpec => [](ListMatchesRequests /\ NoSignalMissed)
<1>1. RcuInv => ListMatchesRequests /\ NoSignalMissed
  BY DEF RcuInv
<1> QED
  BY <1>1, RcuInitial, RcuStep, PTL DEF RcuSpec

-----------------------------------------------------------------------------
(* Loading firmware: a step is one of one request. *)
Same(s) ==
    /\ pc'[s] = pc[s] /\ wait'[s] = wait[s] /\ mem'[s] = mem[s] /\ fd'[s] = fd[s]
    /\ ret'[s] = ret[s] /\ task'[s] = task[s] /\ has'[s] = has[s] /\ calls'[s] = calls[s]

LEMMA FwFrame ==
    ASSUME FwInv, NEW r \in Requests,
           FwTypeOK', wrong' = FALSE, \A s \in Requests \ {r} : Same(s), FwRight(r)'
    PROVE  FwInv'
<1>1. ASSUME NEW s \in Requests \ {r} PROVE FwRight(s)'
  BY <1>1 DEF FwInv, Same, FwRight, FileRight, StepsRight, AnswerRight, TaskRight, EndRight,
              Arg, Given
<1> QED
  BY <1>1 DEF FwInv

LEMMA FwInitial == FwInit => FwInv
<1> SUFFICES ASSUME FwInit PROVE FwInv
  OBVIOUS
<1>1. FwTypeOK
  BY DEF FwInit, FwTypeOK
<1>2. ASSUME NEW r \in Requests PROVE FwRight(r)
  BY DEF FwInit, FwRight, FileRight, StepsRight, AnswerRight, TaskRight, EndRight
<1> QED
  BY <1>1, <1>2 DEF FwInv, FwInit

(* An error ends the request with nothing, if the error path frees what    *)
(* the request has besides its argument.                                   *)
LEMMA FwFail ==
    ASSUME FwInv, NEW r \in Requests, NEW e \in {EINVAL, ENOMEM}, NEW S \in SUBSET {"fw", "data"},
           pc[r] \in {"open", "seek", "alloc", "read", "run"}, mem[r] = Arg(r) \cup S, Fail(r, e, S)
    PROVE  FwInv'
<1>0. FwTypeOK /\ FwRight(r) /\ ~wrong
  BY DEF FwInv
<1>1. S \cup Arg(r) \subseteq mem[r] /\ mem[r] \ (S \cup Arg(r)) = {}
  OBVIOUS
<1>2. /\ wrong' = (wrong \/ ~(S \cup Arg(r) \subseteq mem[r]))
      /\ mem' = [mem EXCEPT ![r] = mem[r] \ (S \cup Arg(r))]
      /\ fd' = [fd EXCEPT ![r] = FALSE] /\ ret' = [ret EXCEPT ![r] = e]
      /\ pc' = [pc EXCEPT ![r] = "back"]
      /\ wait' = wait /\ task' = task /\ has' = has /\ calls' = calls
  <2>1. \A X : (X \cup {}) = X
    OBVIOUS
  <2> QED
    BY <1>0, <2>1 DEF Fail, Free, own, Arg
<1>3. FwTypeOK' /\ wrong' = FALSE
  <2>1. wrong' = FALSE
    BY <1>0, <1>1, <1>2
  <2>2. mem' = [mem EXCEPT ![r] = {}]
    BY <1>1, <1>2
  <2> QED
    BY <1>0, <1>2, <2>1, <2>2 DEF FwTypeOK
<1>4. \A s \in Requests \ {r} : Same(s)
  BY <1>0, <1>2 DEF FwTypeOK, Same
<1>5. /\ mem'[r] = {} /\ fd'[r] = FALSE /\ ret'[r] = e /\ pc'[r] = "back"
      /\ wait'[r] = wait[r] /\ task'[r] = task[r] /\ has'[r] = has[r] /\ calls'[r] = calls[r]
  BY <1>0, <1>1, <1>2 DEF FwTypeOK
<1>6. task[r] = "none" /\ ~has[r] /\ calls[r] # 1
  BY <1>0 DEF FwRight, AnswerRight
<1>7. e # 0 /\ e # NONE
  BY DEF EINVAL, ENOMEM, NONE
<1>8. FwRight(r)'
  BY <1>5, <1>6, <1>7 DEF FwRight, FileRight, StepsRight, AnswerRight, TaskRight, EndRight
<1> QED
  BY <1>3, <1>4, <1>8, FwFrame

LEMMA FwRequest ==
    ASSUME FwInv, NEW r \in Requests, request_firmware(r)
    PROVE  FwInv'
<1>0. FwTypeOK /\ FwRight(r) /\ wrong = FALSE
  BY DEF FwInv, FwTypeOK
<1>1. FwInv'
  <2>1. /\ pc[r] = "idle"
        /\ pc'[r] = "start" /\ wait'[r] = wait[r] /\ mem'[r] = mem[r] /\ fd'[r] = fd[r]
        /\ ret'[r] = ret[r] /\ task'[r] = task[r] /\ has'[r] = has[r] /\ calls'[r] = calls[r]
    BY <1>0 DEF FwTypeOK, request_firmware, Go
  <2>2. \A s \in Requests \ {r} : Same(s)
    BY <1>0 DEF Same, request_firmware, Go
  <2>3. FwTypeOK' /\ wrong' = FALSE
    BY <1>0 DEF FwTypeOK, request_firmware, Go
  <2>4. FwRight(r)'
    BY <1>0, <2>1 DEF FwRight, FileRight, StepsRight, AnswerRight, TaskRight, EndRight, Arg
  <2> QED
    BY <2>2, <2>3, <2>4, FwFrame
<1> QED
  BY <1>1 DEF request_firmware

LEMMA FwNowait ==
    ASSUME FwInv, NEW r \in Requests, request_firmware_nowait(r)
    PROVE  FwInv'
<1>0. FwTypeOK /\ FwRight(r) /\ wrong = FALSE
  BY DEF FwInv, FwTypeOK
<1>1. CASE pc'[r] = "start"
  <2>1. /\ pc[r] = "idle"
        /\ pc'[r] = "start" /\ wait'[r] = TRUE /\ mem'[r] = {"arg"} /\ fd'[r] = fd[r]
        /\ ret'[r] = ret[r] /\ task'[r] = task[r] /\ has'[r] = has[r] /\ calls'[r] = calls[r]
    BY <1>1, <1>0 DEF FwTypeOK, request_firmware_nowait, Go
  <2>2. \A s \in Requests \ {r} : Same(s)
    BY <1>1, <1>0 DEF FwTypeOK, Same, request_firmware_nowait, Go
  <2>3. FwTypeOK' /\ wrong' = FALSE
    BY <1>1, <1>0 DEF FwTypeOK, request_firmware_nowait, Go
  <2>4. FwRight(r)'
    BY <1>0, <2>1 DEF FwRight, FileRight, StepsRight, AnswerRight, TaskRight, EndRight, Arg
  <2> QED
    BY <2>2, <2>3, <2>4, FwFrame
<1>2. CASE pc'[r] # "start"
  <2>1. /\ pc[r] = "idle"
        /\ pc'[r] = "back" /\ wait'[r] = TRUE /\ mem'[r] = mem[r] /\ fd'[r] = fd[r]
        /\ ret'[r] = -12 /\ task'[r] = task[r] /\ has'[r] = has[r] /\ calls'[r] = calls[r]
    BY <1>2, <1>0 DEF FwTypeOK, request_firmware_nowait, Go, ENOMEM
  <2>2. \A s \in Requests \ {r} : Same(s)
    BY <1>2, <1>0 DEF FwTypeOK, Same, request_firmware_nowait, Go
  <2>3. FwTypeOK' /\ wrong' = FALSE
    BY <1>2, <1>0 DEF FwTypeOK, request_firmware_nowait, Go
  <2>4. FwRight(r)'
    BY <1>0, <2>1 DEF FwRight, FileRight, StepsRight, AnswerRight, TaskRight, EndRight, NONE
  <2> QED
    BY <2>2, <2>3, <2>4, FwFrame
<1> QED
  BY <1>1, <1>2 DEF request_firmware_nowait

LEMMA FwStart ==
    ASSUME FwInv, NEW r \in Requests, Start(r)
    PROVE  FwInv'
<1>0. FwTypeOK /\ FwRight(r) /\ wrong = FALSE
  BY DEF FwInv, FwTypeOK
<1>1. CASE pc'[r] = "open"
  <2>1. /\ pc[r] = "start"
        /\ pc'[r] = "open" /\ wait'[r] = wait[r] /\ mem'[r] = mem[r] \cup {"fw"} /\ fd'[r] = fd[r]
        /\ ret'[r] = ret[r] /\ task'[r] = task[r] /\ has'[r] = has[r] /\ calls'[r] = calls[r]
    BY <1>1, <1>0 DEF FwTypeOK, Start, Go, own
  <2>2. \A s \in Requests \ {r} : Same(s)
    BY <1>1, <1>0 DEF FwTypeOK, Same, Start, Go, own
  <2>3. FwTypeOK' /\ wrong' = FALSE
    BY <1>1, <1>0 DEF FwTypeOK, Start, Go, own
  <2>4. FwRight(r)'
    BY <1>0, <2>1 DEF FwRight, FileRight, StepsRight, AnswerRight, TaskRight, EndRight, Arg
  <2> QED
    BY <2>2, <2>3, <2>4, FwFrame
<1>2. CASE pc'[r] # "open"
  <2>1. /\ pc[r] = "start"
        /\ pc'[r] = "crashed" /\ wait'[r] = wait[r] /\ mem'[r] = mem[r] /\ fd'[r] = fd[r]
        /\ ret'[r] = ret[r] /\ task'[r] = task[r] /\ has'[r] = has[r] /\ calls'[r] = calls[r]
    BY <1>2, <1>0 DEF FwTypeOK, Start, Go, own
  <2>2. \A s \in Requests \ {r} : Same(s)
    BY <1>2, <1>0 DEF FwTypeOK, Same, Start, Go, own
  <2>3. FwTypeOK' /\ wrong' = FALSE
    BY <1>2, <1>0 DEF FwTypeOK, Start, Go, own
  <2>4. FwRight(r)'
    BY <1>0, <2>1 DEF FwRight, FileRight, StepsRight, AnswerRight, TaskRight, EndRight, Arg
  <2> QED
    BY <2>2, <2>3, <2>4, FwFrame
<1> QED
  BY <1>1, <1>2 DEF Start

LEMMA FwOpen ==
    ASSUME FwInv, NEW r \in Requests, Open(r)
    PROVE  FwInv'
<1>0. FwTypeOK /\ FwRight(r) /\ wrong = FALSE
  BY DEF FwInv, FwTypeOK
<1>1. CASE ~Fail(r, EINVAL, {"fw"})
  <2>1. /\ pc[r] = "open"
        /\ pc'[r] = "seek" /\ wait'[r] = wait[r] /\ mem'[r] = mem[r] /\ fd'[r] = TRUE
        /\ ret'[r] = ret[r] /\ task'[r] = task[r] /\ has'[r] = has[r] /\ calls'[r] = calls[r]
    BY <1>1, <1>0 DEF FwTypeOK, Open, Go, own
  <2>2. \A s \in Requests \ {r} : Same(s)
    BY <1>1, <1>0 DEF FwTypeOK, Same, Open, Go, own
  <2>3. FwTypeOK' /\ wrong' = FALSE
    BY <1>1, <1>0 DEF FwTypeOK, Open, Go, own
  <2>4. FwRight(r)'
    BY <1>0, <2>1 DEF FwRight, FileRight, StepsRight, AnswerRight, TaskRight, EndRight, Arg
  <2> QED
    BY <2>2, <2>3, <2>4, FwFrame
<1>2. CASE Fail(r, EINVAL, {"fw"})
  BY <1>2, <1>0, FwFail DEF Open, FwRight, StepsRight
<1> QED
  BY <1>1, <1>2 DEF Open

LEMMA FwSeek ==
    ASSUME FwInv, NEW r \in Requests, Seek(r)
    PROVE  FwInv'
<1>0. FwTypeOK /\ FwRight(r) /\ wrong = FALSE
  BY DEF FwInv, FwTypeOK
<1>1. CASE ~Fail(r, EINVAL, {"fw"})
  <2>1. /\ pc[r] = "seek"
        /\ pc'[r] = "alloc" /\ wait'[r] = wait[r] /\ mem'[r] = mem[r] /\ fd'[r] = fd[r]
        /\ ret'[r] = ret[r] /\ task'[r] = task[r] /\ has'[r] = has[r] /\ calls'[r] = calls[r]
    BY <1>1, <1>0 DEF FwTypeOK, Seek, Go, own
  <2>2. \A s \in Requests \ {r} : Same(s)
    BY <1>1, <1>0 DEF FwTypeOK, Same, Seek, Go, own
  <2>3. FwTypeOK' /\ wrong' = FALSE
    BY <1>1, <1>0 DEF FwTypeOK, Seek, Go, own
  <2>4. FwRight(r)'
    BY <1>0, <2>1 DEF FwRight, FileRight, StepsRight, AnswerRight, TaskRight, EndRight, Arg
  <2> QED
    BY <2>2, <2>3, <2>4, FwFrame
<1>2. CASE Fail(r, EINVAL, {"fw"})
  BY <1>2, <1>0, FwFail DEF Seek, FwRight, StepsRight
<1> QED
  BY <1>1, <1>2 DEF Seek

LEMMA FwAlloc ==
    ASSUME FwInv, NEW r \in Requests, Alloc(r)
    PROVE  FwInv'
<1>0. FwTypeOK /\ FwRight(r) /\ wrong = FALSE
  BY DEF FwInv, FwTypeOK
<1>1. CASE ~Fail(r, ENOMEM, {"fw"})
  <2>1. /\ pc[r] = "alloc"
        /\ pc'[r] = "read" /\ wait'[r] = wait[r] /\ mem'[r] = mem[r] \cup {"data"} /\ fd'[r] = fd[r]
        /\ ret'[r] = ret[r] /\ task'[r] = task[r] /\ has'[r] = has[r] /\ calls'[r] = calls[r]
    BY <1>1, <1>0 DEF FwTypeOK, Alloc, Go, own
  <2>2. \A s \in Requests \ {r} : Same(s)
    BY <1>1, <1>0 DEF FwTypeOK, Same, Alloc, Go, own
  <2>3. FwTypeOK' /\ wrong' = FALSE
    BY <1>1, <1>0 DEF FwTypeOK, Alloc, Go, own
  <2>4. FwRight(r)'
    BY <1>0, <2>1 DEF FwRight, FileRight, StepsRight, AnswerRight, TaskRight, EndRight, Arg
  <2> QED
    BY <2>2, <2>3, <2>4, FwFrame
<1>2. CASE Fail(r, ENOMEM, {"fw"})
  BY <1>2, <1>0, FwFail DEF Alloc, FwRight, StepsRight
<1> QED
  BY <1>1, <1>2 DEF Alloc

LEMMA FwRead ==
    ASSUME FwInv, NEW r \in Requests, Read(r)
    PROVE  FwInv'
<1>0. FwTypeOK /\ FwRight(r) /\ wrong = FALSE
  BY DEF FwInv, FwTypeOK
<1>1. CASE wait[r] /\ ~Fail(r, EINVAL, {"fw", "data"})
  <2>1. /\ pc[r] = "read" /\ wait[r]
        /\ pc'[r] = "run" /\ wait'[r] = wait[r] /\ mem'[r] = mem[r] /\ fd'[r] = FALSE
        /\ ret'[r] = ret[r] /\ task'[r] = task[r] /\ has'[r] = has[r] /\ calls'[r] = calls[r]
    BY <1>1, <1>0 DEF FwTypeOK, Read, Go
  <2>2. \A s \in Requests \ {r} : Same(s)
    BY <1>1, <1>0 DEF FwTypeOK, Same, Read, Go
  <2>3. FwTypeOK' /\ wrong' = FALSE
    BY <1>1, <1>0 DEF FwTypeOK, Read, Go
  <2>4. FwRight(r)'
    BY <1>0, <2>1 DEF FwRight, FileRight, StepsRight, AnswerRight, TaskRight, EndRight, Arg
  <2> QED
    BY <2>2, <2>3, <2>4, FwFrame
<1>2. CASE ~wait[r] /\ ~Fail(r, EINVAL, {"fw", "data"})
  <2>1. /\ pc[r] = "read" /\ ~wait[r]
        /\ pc'[r] = "back" /\ wait'[r] = wait[r] /\ mem'[r] = mem[r] /\ fd'[r] = FALSE
        /\ ret'[r] = 0 /\ task'[r] = task[r] /\ has'[r] = TRUE /\ calls'[r] = calls[r]
    BY <1>2, <1>0 DEF FwTypeOK, Read, Go
  <2>2. \A s \in Requests \ {r} : Same(s)
    BY <1>2, <1>0 DEF FwTypeOK, Same, Read, Go
  <2>3. FwTypeOK' /\ wrong' = FALSE
    BY <1>2, <1>0 DEF FwTypeOK, Read, Go
  <2>4. FwRight(r)'
    BY <1>0, <2>1 DEF FwRight, FileRight, StepsRight, AnswerRight, TaskRight, EndRight, Arg, Given, NONE
  <2> QED
    BY <2>2, <2>3, <2>4, FwFrame
<1>3. CASE Fail(r, EINVAL, {"fw", "data"})
  BY <1>3, <1>0, FwFail DEF Read, FwRight, StepsRight
<1> QED
  BY <1>1, <1>2, <1>3 DEF Read

LEMMA FwRun ==
    ASSUME FwInv, NEW r \in Requests, Run(r)
    PROVE  FwInv'
<1>0. FwTypeOK /\ FwRight(r) /\ wrong = FALSE
  BY DEF FwInv, FwTypeOK
<1>1. CASE ~Fail(r, ENOMEM, {"fw", "data"})
  <2>1. /\ pc[r] = "run"
        /\ pc'[r] = "created" /\ wait'[r] = wait[r] /\ mem'[r] = mem[r] /\ fd'[r] = fd[r]
        /\ ret'[r] = ret[r] /\ task'[r] = "called" /\ has'[r] = has[r] /\ calls'[r] = calls[r]
    BY <1>1, <1>0 DEF FwTypeOK, Run, Go
  <2>2. \A s \in Requests \ {r} : Same(s)
    BY <1>1, <1>0 DEF FwTypeOK, Same, Run, Go
  <2>3. FwTypeOK' /\ wrong' = FALSE
    BY <1>1, <1>0 DEF FwTypeOK, Run, Go
  <2>4. FwRight(r)'
    BY <1>0, <2>1 DEF FwRight, FileRight, StepsRight, AnswerRight, TaskRight, EndRight
  <2> QED
    BY <2>2, <2>3, <2>4, FwFrame
<1>2. CASE Fail(r, ENOMEM, {"fw", "data"})
  BY <1>2, <1>0, FwFail DEF Run, FwRight, StepsRight, Arg
<1> QED
  BY <1>1, <1>2 DEF Run

LEMMA FwCreated ==
    ASSUME FwInv, NEW r \in Requests, Created(r)
    PROVE  FwInv'
<1>0. FwTypeOK /\ FwRight(r) /\ wrong = FALSE
  BY DEF FwInv, FwTypeOK
<1>1. FwInv'
  <2>1. /\ pc[r] = "created"
        /\ pc'[r] = "back" /\ wait'[r] = wait[r] /\ mem'[r] = mem[r] /\ fd'[r] = fd[r]
        /\ ret'[r] = 0 /\ task'[r] = task[r] /\ has'[r] = has[r] /\ calls'[r] = calls[r]
    BY <1>0 DEF FwTypeOK, Created, Go, own
  <2>2. \A s \in Requests \ {r} : Same(s)
    BY <1>0 DEF Same, Created, Go, own
  <2>3. FwTypeOK' /\ wrong' = FALSE
    BY <1>0 DEF FwTypeOK, Created, Go, own
  <2>4. FwRight(r)'
    BY <1>0, <2>1 DEF FwRight, FileRight, StepsRight, AnswerRight, TaskRight, EndRight, Given, NONE
  <2> QED
    BY <2>2, <2>3, <2>4, FwFrame
<1> QED
  BY <1>1 DEF Created

LEMMA FwCallback ==
    ASSUME FwInv, NEW r \in Requests, Callback(r)
    PROVE  FwInv'
<1>0. FwTypeOK /\ FwRight(r) /\ wrong = FALSE
  BY DEF FwInv, FwTypeOK
<1>1. FwInv'
  <2>1. /\ task[r] = "called"
        /\ pc'[r] = pc[r] /\ wait'[r] = wait[r] /\ mem'[r] = mem[r] /\ fd'[r] = fd[r]
        /\ ret'[r] = ret[r] /\ task'[r] = "freeing" /\ has'[r] = TRUE /\ calls'[r] = calls[r] + 1
    BY <1>0 DEF FwTypeOK, Callback
  <2>2. \A s \in Requests \ {r} : Same(s)
    BY <1>0 DEF FwTypeOK, Same, Callback
  <2>3. mem[r] = {"arg"} \cup {"fw", "data"} /\ calls[r] = 0
    BY <1>0, <2>1 DEF FwTypeOK, FwRight, AnswerRight, TaskRight
  <2>4. FwTypeOK' /\ wrong' = FALSE
    BY <2>3, <1>0 DEF FwTypeOK, Callback
  <2>5. FwRight(r)'
    BY <1>0, <2>3, <2>1 DEF FwRight, FileRight, StepsRight, AnswerRight, TaskRight, EndRight, Given
  <2> QED
    BY <2>2, <2>4, <2>5, FwFrame
<1> QED
  BY <1>1 DEF Callback

LEMMA FwTaskEnd ==
    ASSUME FwInv, NEW r \in Requests, TaskEnd(r)
    PROVE  FwInv'
<1>0. FwTypeOK /\ FwRight(r) /\ wrong = FALSE
  BY DEF FwInv, FwTypeOK
<1>1. FwInv'
  <2>1. /\ task[r] = "freeing"
        /\ pc'[r] = pc[r] /\ wait'[r] = wait[r] /\ mem'[r] = mem[r] \ {"arg"} /\ fd'[r] = fd[r]
        /\ ret'[r] = ret[r] /\ task'[r] = "gone" /\ has'[r] = has[r] /\ calls'[r] = calls[r]
    BY <1>0 DEF FwTypeOK, TaskEnd, Free
  <2>2. \A s \in Requests \ {r} : Same(s)
    BY <1>0 DEF Same, TaskEnd, Free
  <2>3. {"arg"} \subseteq mem[r] /\ mem[r] \ {"arg"} = Given(r)
    BY <1>0, <2>1 DEF FwRight, TaskRight, Given
  <2>4. FwTypeOK' /\ wrong' = FALSE
    BY <2>3, <1>0 DEF FwTypeOK, TaskEnd, Free
  <2>5. FwRight(r)'
    BY <1>0, <2>3, <2>1 DEF FwRight, FileRight, StepsRight, AnswerRight, TaskRight, EndRight, Given
  <2> QED
    BY <2>2, <2>4, <2>5, FwFrame
<1> QED
  BY <1>1 DEF TaskEnd

LEMMA FwRelease ==
    ASSUME FwInv, NEW r \in Requests, release_firmware(r)
    PROVE  FwInv'
<1>0. FwTypeOK /\ FwRight(r) /\ wrong = FALSE
  BY DEF FwInv, FwTypeOK
<1>1. FwInv'
  <2>1. /\ has[r]
        /\ pc'[r] = pc[r] /\ wait'[r] = wait[r] /\ mem'[r] = mem[r] \ {"fw", "data"} /\ fd'[r] = fd[r]
        /\ ret'[r] = ret[r] /\ task'[r] = task[r] /\ has'[r] = FALSE /\ calls'[r] = calls[r]
    BY <1>0 DEF FwTypeOK, release_firmware, Free
  <2>2. \A s \in Requests \ {r} : Same(s)
    BY <1>0 DEF Same, release_firmware, Free
  <2>3. /\ {"fw", "data"} \subseteq mem[r]
         /\ mem[r] \ {"fw", "data"} = IF task[r] = "freeing" THEN {"arg"} ELSE {}
    BY <1>0, <2>1 DEF FwTypeOK, FwRight, AnswerRight, TaskRight, EndRight, Given
  <2>4. FwTypeOK' /\ wrong' = FALSE
    BY <2>3, <1>0 DEF FwTypeOK, release_firmware, Free
  <2>5. FwRight(r)'
    BY <1>0, <2>3, <2>1 DEF FwRight, FileRight, StepsRight, AnswerRight, TaskRight, EndRight, Given
  <2> QED
    BY <2>2, <2>4, <2>5, FwFrame
<1> QED
  BY <1>1 DEF release_firmware

LEMMA FwStep == FwInv /\ [FwNext]_fwVars => FwInv'
<1> SUFFICES ASSUME FwInv, [FwNext]_fwVars PROVE FwInv'
  OBVIOUS
<1>1. ASSUME NEW r \in Requests,
             \/ request_firmware(r) \/ request_firmware_nowait(r) \/ Step(r)
             \/ Callback(r) \/ TaskEnd(r) \/ release_firmware(r)
      PROVE  FwInv'
  BY <1>1, FwRequest, FwNowait, FwStart, FwOpen, FwSeek, FwAlloc, FwRead, FwRun, FwCreated,
     FwCallback, FwTaskEnd, FwRelease DEF Step
<1>2. CASE Replace \/ UNCHANGED fwVars
  BY <1>2 DEF Replace, fwVars, FwInv, FwTypeOK, FwRight, FileRight, StepsRight, AnswerRight,
              TaskRight, EndRight, Arg, Given
<1> QED
  BY <1>1, <1>2 DEF FwNext, Over

LEMMA FwEnough == FwInv => FirmwareExact
  BY DEF FwInv, FwTypeOK, FwRight, FileRight, AnswerRight, TaskRight, EndRight, Given, FirmwareExact,
         NothingLeft, ToldOnce, NONE, EINVAL, ENOMEM

(* When a request has ended, its memory and its file are given back, on    *)
(* every path of request_firmware() and request_firmware_nowait(), however *)
(* the thread of the latter, the driver's release and other requests       *)
(* interleave; the driver is told at most once, and only if the request    *)
(* was not refused.                                                        *)
THEOREM Loaded == FwSpec => []FirmwareExact
  BY FwInitial, FwStep, FwEnough, PTL DEF FwSpec

-----------------------------------------------------------------------------
(* The parts side by side. *)
LEMMA AllStep == AllInv /\ [Next]_vars => AllInv'
<1> SUFFICES ASSUME AllInv, [Next]_vars PROVE AllInv'
  OBVIOUS
<1>1. CASE Polls
  BY <1>1, PollStep, RcuStep, FwStep DEF Polls, AllInv
<1>2. CASE Rcu
  BY <1>2, PollStep, RcuStep, FwStep DEF Rcu, AllInv
<1>3. CASE Firmwares
  BY <1>3, PollStep, RcuStep, FwStep DEF Firmwares, AllInv
<1>4. CASE UNCHANGED <<pollVars, rcuVars, fwVars>>
  BY <1>4, PollStep, RcuStep, FwStep DEF AllInv
<1> QED
  BY <1>1, <1>2, <1>3, <1>4 DEF Next, Waits, Locks, RcuOver, vars

LEMMA AllInitial == Init => AllInv
  BY PollInitial, RcuInitial, FwInitial DEF Init, AllInv

(* The program that runs the parts side by side has the invariants of all. *)
THEOREM Inductive == Spec => []AllInv
  BY AllInitial, AllStep, PTL DEF Spec

(* In the program that runs the parts side by side, nobody sleeps in       *)
(* poll() on data that is there without a wakeup on its way, and the list  *)
(* of call_rcu() holds what is requested, each head once.                  *)
THEOREM Lost == Spec => []NothingLost
<1>1. AllInv => NothingLost
  BY DEF AllInv, PollInv, RcuInv, NothingLost
<1> QED
  BY <1>1, Inductive, PTL

(* In the same program every firmware request gives back what it took.     *)
THEOREM Exact == Spec => []FirmwareExact
<1>1. AllInv => FirmwareExact
  BY FwEnough DEF AllInv
<1> QED
  BY <1>1, Inductive, PTL
=============================================================================
