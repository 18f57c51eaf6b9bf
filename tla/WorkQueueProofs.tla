--------------------------- MODULE WorkQueueProofs --------------------------
(***************************************************************************)
(* Proofs about deferred work: for any number of threads, works and        *)
(* delayed works a flush returns only after everything that was queued or  *)
(* running when it was called is over.                                     *)
(***************************************************************************)
EXTENDS WorkQueue, SequenceTheorems, TLAPS

-----------------------------------------------------------------------------
(* The inductive invariant. *)

(* The work thread is in a work function exactly while work_curr is set,   *)
(* and sleeps only on an empty list.                                       *)
WorkerInv ==
    /\ worker = "run" => curr # NoWork
    /\ worker # "run" => curr = NoWork
    /\ worker = "sleep" => queue = <<>>

(* What a caller waits for is on the list or is the work being run. *)
DueBound ==
    \A t \in Threads : due[t].q \subseteq Members(queue) /\ due[t].r \subseteq {curr}

(* flush_work_var stays raised while a flush has something to wait for. *)
FlagInv ==
    \A t \in Threads :
        op[t].fn = "flush_scheduled_work" /\ due[t] # NotDue => flush_work_var = 1

(* flush_work() and cancel_work_sync() wait for their own work only, and   *)
(* add_timer() arms the timer of a work.                                   *)
OwnWork ==
    \A t \in Threads :
        /\ op[t].fn = "flush_work" =>
              due[t].q \subseteq {op[t].work} /\ due[t].r \subseteq {op[t].work}
        /\ op[t].fn = "cancel_work_sync" =>
              due[t].q = {} /\ due[t].r \subseteq {op[t].work}
        /\ op[t].fn = "add_timer" => op[t].work \in Works

IInv == TypeOK /\ ListedOnce /\ WorkerInv /\ DueBound /\ FlagInv /\ OwnWork

-----------------------------------------------------------------------------
(* The list operations of sys/queue.h. *)

(* TAILQ_INSERT_TAIL() adds the work and nothing else. *)
LEMMA AppendMembers ==
    ASSUME NEW S, NEW q \in Seq(S), NEW w \in S
    PROVE  /\ Append(q, w) \in Seq(S)
           /\ Members(Append(q, w)) = Members(q) \cup {w}
<1>1. /\ Append(q, w) \in Seq(S)
      /\ Len(Append(q, w)) = Len(q) + 1
      /\ \A i \in 1 .. Len(q) : Append(q, w)[i] = q[i]
      /\ Append(q, w)[Len(q) + 1] = w
  OBVIOUS
<1>2. DOMAIN q = 1 .. Len(q) /\ DOMAIN Append(q, w) = 1 .. Len(q) + 1 /\ Len(q) \in Nat
  BY <1>1
<1>3. Members(q) \cup {w} \subseteq Members(Append(q, w))
  <2>1. \A i \in DOMAIN q : i \in DOMAIN Append(q, w) /\ Append(q, w)[i] = q[i]
    BY <1>1, <1>2
  <2>2. Len(q) + 1 \in DOMAIN Append(q, w)
    BY <1>2
  <2> QED
    BY <1>1, <2>1, <2>2 DEF Members
<1>4. Members(Append(q, w)) \subseteq Members(q) \cup {w}
  <2> SUFFICES ASSUME NEW i \in DOMAIN Append(q, w)
               PROVE  Append(q, w)[i] \in Members(q) \cup {w}
    BY DEF Members
  <2>1. i \in DOMAIN q \/ i = Len(q) + 1
    BY <1>2
  <2> QED
    BY <1>1, <1>2, <2>1 DEF Members
<1> QED
  BY <1>1, <1>3, <1>4

(* TAILQ_FIRST() and TAILQ_REMOVE() of it split the list. *)
LEMMA HeadTailMembers ==
    ASSUME NEW S, NEW q \in Seq(S), q # <<>>
    PROVE  /\ Head(q) \in S
           /\ Tail(q) \in Seq(S)
           /\ Members(q) = {Head(q)} \cup Members(Tail(q))
<1>1. /\ Len(q) \in Nat /\ Len(q) >= 1
      /\ DOMAIN q = 1 .. Len(q)
      /\ Head(q) = q[1]
      /\ Tail(q) \in Seq(S)
      /\ DOMAIN Tail(q) = 1 .. Len(q) - 1
      /\ \A i \in 1 .. Len(q) - 1 : Tail(q)[i] = q[i + 1]
  OBVIOUS
<1>2. \A i \in DOMAIN q : i = 1 \/ (i - 1 \in DOMAIN Tail(q) /\ Tail(q)[i - 1] = q[i])
  BY <1>1
<1>3. \A i \in DOMAIN Tail(q) : i + 1 \in DOMAIN q /\ Tail(q)[i] = q[i + 1]
  BY <1>1
<1>4. 1 \in DOMAIN q
  BY <1>1
<1>5. Head(q) \in S
  OBVIOUS
<1>6. Members(q) \subseteq {Head(q)} \cup Members(Tail(q))
  BY <1>1, <1>2 DEF Members
<1>7. {Head(q)} \cup Members(Tail(q)) \subseteq Members(q)
  BY <1>1, <1>3, <1>4 DEF Members
<1> QED
  BY <1>1, <1>5, <1>6, <1>7

(* TAILQ_REMOVE() of the i-th element keeps the others, in their order. *)
LEMMA WithoutElements ==
    ASSUME NEW S, NEW q \in Seq(S), NEW i \in DOMAIN q
    PROVE  /\ Without(q, i) \in Seq(S)
           /\ DOMAIN Without(q, i) = 1 .. Len(q) - 1
           /\ \A j \in 1 .. Len(q) - 1 :
                 Without(q, i)[j] = IF j < i THEN q[j] ELSE q[j + 1]
<1> DEFINE a == SubSeq(q, 1, i - 1)
           b == SubSeq(q, i + 1, Len(q))
<1>1. Len(q) \in Nat /\ i \in 1 .. Len(q) /\ DOMAIN q = 1 .. Len(q)
  OBVIOUS
<1>2. /\ a \in Seq(S) /\ Len(a) = i - 1
      /\ \A j \in 1 .. i - 1 : a[j] = q[j]
  BY <1>1
<1>3. /\ b \in Seq(S) /\ Len(b) = Len(q) - i
      /\ \A j \in 1 .. Len(q) - i : b[j] = q[i + j]
  BY <1>1
<1> HIDE DEF a, b
<1>4. /\ a \o b \in Seq(S)
      /\ Len(a \o b) = Len(q) - 1
      /\ \A j \in 1 .. Len(q) - 1 :
            (a \o b)[j] = IF j <= Len(a) THEN a[j] ELSE b[j - Len(a)]
  <2>1. Len(a) + Len(b) = Len(q) - 1
    BY <1>1, <1>2, <1>3
  <2>2. /\ a \o b \in Seq(S)
        /\ Len(a \o b) = Len(a) + Len(b)
        /\ \A j \in 1 .. Len(a) + Len(b) :
              (a \o b)[j] = IF j <= Len(a) THEN a[j] ELSE b[j - Len(a)]
    BY <1>2, <1>3, ConcatProperties, Zenon
  <2> QED
    BY <2>1, <2>2, Zenon
<1>5. DOMAIN (a \o b) = 1 .. Len(q) - 1
  BY <1>4
<1>6. ASSUME NEW j \in 1 .. Len(q) - 1
      PROVE  (a \o b)[j] = IF j < i THEN q[j] ELSE q[j + 1]
  <2>1. CASE j < i
    <3>1. j \in 1 .. i - 1 /\ j <= Len(a)
      BY <1>1, <1>2, <2>1
    <3> QED
      BY <1>2, <1>4, <2>1, <3>1
  <2>2. CASE ~(j < i)
    <3>1. j - Len(a) \in 1 .. Len(q) - i /\ ~(j <= Len(a)) /\ i + (j - Len(a)) = j + 1
      BY <1>1, <1>2, <2>2
    <3> QED
      BY <1>3, <1>4, <2>2, <3>1
  <2> QED
    BY <2>1, <2>2
<1> QED
  BY <1>4, <1>5, <1>6 DEF a, b, Without

LEMMA WithoutMembers ==
    ASSUME NEW S, NEW q \in Seq(S), NEW i \in DOMAIN q
    PROVE  Members(q) \ {q[i]} \subseteq Members(Without(q, i))
<1> SUFFICES ASSUME NEW k \in DOMAIN q, q[k] # q[i]
             PROVE  q[k] \in Members(Without(q, i))
  BY DEF Members
<1>1. DOMAIN q = 1 .. Len(q) /\ Len(q) \in Nat /\ k # i
  OBVIOUS
<1>2. \E j \in 1 .. Len(q) - 1 : Without(q, i)[j] = q[k]
  <2>1. CASE k < i
    <3>1. k \in 1 .. Len(q) - 1
      BY <1>1, <2>1
    <3> QED
      BY <2>1, <3>1, WithoutElements
  <2>2. CASE ~(k < i)
    <3>1. k - 1 \in 1 .. Len(q) - 1 /\ ~(k - 1 < i) /\ (k - 1) + 1 = k
      BY <1>1, <2>2
    <3> QED
      BY <3>1, WithoutElements
  <2> QED
    BY <2>1, <2>2
<1> QED
  BY <1>2, WithoutElements DEF Members

Once(q) == \A i, j \in DOMAIN q : q[i] = q[j] => i = j

(* Each list operation keeps the entries distinct. *)
LEMMA AppendOnce ==
    ASSUME NEW S, NEW q \in Seq(S), NEW w \in S, Once(q), w \notin Members(q)
    PROVE  Once(Append(q, w))
<1>1. /\ DOMAIN Append(q, w) = 1 .. Len(q) + 1 /\ DOMAIN q = 1 .. Len(q) /\ Len(q) \in Nat
      /\ \A i \in 1 .. Len(q) : Append(q, w)[i] = q[i]
      /\ Append(q, w)[Len(q) + 1] = w
  OBVIOUS
<1>2. \A i \in DOMAIN q : q[i] # w
  BY DEF Members
<1>3. \A i \in DOMAIN Append(q, w) : i \in DOMAIN q \/ i = Len(q) + 1
  BY <1>1
<1> QED
  BY <1>1, <1>2, <1>3 DEF Once

LEMMA TailOnce ==
    ASSUME NEW S, NEW q \in Seq(S), q # <<>>, Once(q)
    PROVE  Once(Tail(q))
<1>1. \A i \in DOMAIN Tail(q) : i \in Int /\ i + 1 \in DOMAIN q /\ Tail(q)[i] = q[i + 1]
  OBVIOUS
<1> SUFFICES ASSUME NEW i \in DOMAIN Tail(q), NEW j \in DOMAIN Tail(q), Tail(q)[i] = Tail(q)[j]
             PROVE  i = j
  BY DEF Once
<1>2. i + 1 = j + 1
  BY <1>1 DEF Once
<1> QED
  BY <1>1, <1>2

LEMMA WithoutOnce ==
    ASSUME NEW S, NEW q \in Seq(S), NEW i \in DOMAIN q, Once(q)
    PROVE  Once(Without(q, i))
<1> DEFINE at(j) == IF j < i THEN j ELSE j + 1
<1>1. DOMAIN q = 1 .. Len(q) /\ Len(q) \in Nat /\ i \in Int
  OBVIOUS
<1>2. \A j \in 1 .. Len(q) - 1 : at(j) \in DOMAIN q /\ at(j) \in Int
  BY <1>1
<1>3. \A j \in 1 .. Len(q) - 1 : Without(q, i)[j] = q[at(j)]
  <2> TAKE j \in 1 .. Len(q) - 1
  <2>1. Without(q, i)[j] = IF j < i THEN q[j] ELSE q[j + 1]
    BY WithoutElements
  <2> QED
    BY <2>1
<1>4. \A j, k \in 1 .. Len(q) - 1 : at(j) = at(k) => j = k
  BY <1>1
<1>5. DOMAIN Without(q, i) = 1 .. Len(q) - 1
  BY WithoutElements
<1> HIDE DEF at
<1> QED
  BY <1>2, <1>3, <1>4, <1>5 DEF Once

-----------------------------------------------------------------------------
(* The two ways in which callers change the list. *)
LEMMA ScheduleKeeps ==
    ASSUME TypeOK, ListedOnce, WorkerInv, NEW w \in Works, Schedule(w), curr' = curr
    PROVE  /\ queue' \in Seq(Works) /\ worker' \in {"run", "sleep", "woken"}
           /\ ListedOnce'
           /\ WorkerInv'
           /\ Members(queue) \subseteq Members(queue')
<1>1. queue \in Seq(Works) /\ worker \in {"run", "sleep", "woken"} /\ Once(queue)
  BY DEF TypeOK, ListedOnce, Once
<1>2. CASE Queued(w)
  <2>1. queue' = queue /\ worker' = worker
    BY <1>2 DEF Schedule
  <2> QED
    BY <1>1, <2>1 DEF ListedOnce, WorkerInv, Members
<1>3. CASE ~Queued(w)
  <2>1. queue' = Append(queue, w) /\ worker' = Signalled
    BY <1>3 DEF Schedule
  <2>2. queue' \in Seq(Works) /\ Members(queue) \subseteq Members(queue')
    BY <1>1, <2>1, AppendMembers
  <2>3. Once(queue')
    BY <1>1, <1>3, <2>1, AppendOnce DEF Queued
  <2>4. worker' \in {"run", "woken"} /\ (worker' = "run" <=> worker = "run")
    BY <1>1, <2>1 DEF Signalled
  <2> QED
    BY <2>2, <2>3, <2>4 DEF ListedOnce, Once, WorkerInv
<1> QED
  BY <1>2, <1>3

LEMMA DequeueKeeps ==
    ASSUME TypeOK, ListedOnce, WorkerInv, NEW w \in Works, Dequeue(w), UNCHANGED <<curr, worker>>
    PROVE  /\ queue' \in Seq(Works)
           /\ ListedOnce'
           /\ WorkerInv'
           /\ Members(queue) \ {w} \subseteq Members(queue')
<1>1. queue \in Seq(Works) /\ Once(queue)
  BY DEF TypeOK, ListedOnce, Once
<1>2. CASE UNCHANGED queue
  BY <1>1, <1>2 DEF ListedOnce, WorkerInv, Members
<1>3. CASE \E i \in DOMAIN queue : queue[i] = w /\ queue' = Without(queue, i)
  <2>1. PICK i \in DOMAIN queue : queue[i] = w /\ queue' = Without(queue, i)
    BY <1>3
  <2>2. queue' \in Seq(Works) /\ Once(queue')
    BY <1>1, <2>1, WithoutElements, WithoutOnce
  <2>3. Members(queue) \ {w} \subseteq Members(queue')
    BY <1>1, <2>1, WithoutMembers
  <2>4. queue # <<>>
    BY <2>1
  <2> QED
    BY <2>2, <2>3, <2>4 DEF ListedOnce, Once, WorkerInv
<1> QED
  BY <1>2, <1>3 DEF Dequeue

(* The top of the work thread's loop, entered with nothing running.        *)
LEMMA LoopTopKeeps ==
    ASSUME IInv, NEW d \in [Threads -> [q : SUBSET Works, r : SUBSET Works]],
           \A t \in Threads : d[t].q = due[t].q /\ d[t].r = {},
           \A t \in Threads : d[t] # NotDue => due[t] # NotDue,
           LoopTop(d), UNCHANGED <<timerVars, op>>
    PROVE  IInv'
<1>1. /\ queue \in Seq(Works) /\ Once(queue) /\ flush_work_var \in {0, 1}
      /\ \A t \in Threads : d[t].q \subseteq Members(queue)
  BY DEF IInv, TypeOK, ListedOnce, Once, DueBound
<1>2. CASE queue # <<>>
  <2> DEFINE w == Head(queue)
  <2>1. /\ curr' = w /\ queue' = Tail(queue) /\ worker' = "run"
        /\ flush_work_var' = flush_work_var
        /\ due' = [t \in Threads |->
                     IF w \in d[t].q THEN [q |-> d[t].q \ {w}, r |-> d[t].r \cup {w}]
                     ELSE d[t]]
    BY <1>2 DEF LoopTop
  <2>2. w \in Works /\ queue' \in Seq(Works) /\ Members(queue) = {w} \cup Members(queue')
    BY <1>1, <1>2, <2>1, HeadTailMembers
  <2>3. Once(queue')
    BY <1>1, <1>2, <2>1, TailOnce
  <2> HIDE DEF w
  <2>4. due' \in [Threads -> [q : SUBSET Works, r : SUBSET Works]]
    BY <2>1, <2>2
  <2>5. \A t \in Threads :
           /\ due'[t].q = d[t].q \ {w}
           /\ due'[t].r \subseteq {w} /\ due'[t].r \subseteq d[t].q
    BY <2>1
  <2>6. ASSUME NEW t \in Threads, due'[t] # NotDue PROVE due[t] # NotDue
    <3>1. CASE w \in d[t].q
      <4>1. due[t].q # {}
        BY <3>1
      <4>2. NotDue.q = {}
        BY DEF NotDue
      <4> QED
        BY <4>1, <4>2
    <3>2. CASE w \notin d[t].q
      BY <2>1, <2>6, <3>2
    <3> QED
      BY <3>1, <3>2
  <2>7. TypeOK' /\ ListedOnce' /\ WorkerInv'
    BY <2>1, <2>2, <2>3, <2>4, WorkAssumption
    DEF IInv, TypeOK, ListedOnce, Once, WorkerInv, timerVars
  <2>8. DueBound'
    BY <1>1, <2>1, <2>2, <2>5 DEF DueBound
  <2>9. FlagInv'
    BY <2>1, <2>6 DEF IInv, FlagInv
  <2>10. OwnWork'
    BY <2>1, <2>5 DEF IInv, OwnWork
  <2> QED
    BY <2>7, <2>8, <2>9, <2>10 DEF IInv
<1>3. CASE queue = <<>>
  <2>1. /\ curr' = NoWork /\ queue' = queue /\ worker' = "sleep"
        /\ flush_work_var' = 0 /\ due' = d
    BY <1>3 DEF LoopTop
  <2>2. Members(queue) = {}
    BY <1>3 DEF Members
  <2>3. \A t \in Threads : due'[t] = NotDue
    <3> TAKE t \in Threads
    <3>1. d[t] \in [q : SUBSET Works, r : SUBSET Works] /\ d[t].q = {} /\ d[t].r = {}
      BY <1>1, <2>2
    <3> QED
      BY <2>1, <3>1 DEF NotDue
  <2>4. TypeOK' /\ ListedOnce' /\ WorkerInv'
    BY <1>1, <1>3, <2>1 DEF IInv, TypeOK, ListedOnce, Once, WorkerInv, timerVars
  <2>5. DueBound' /\ FlagInv' /\ OwnWork'
    BY <2>3 DEF IInv, DueBound, FlagInv, OwnWork, NotDue
  <2> QED
    BY <2>4, <2>5 DEF IInv
<1> QED
  BY <1>2, <1>3

(* A step that neither starts nor ends a call and lets the list only grow. *)
LEMMA GrowKeeps ==
    ASSUME IInv, NEW w \in Works, Schedule(w),
           UNCHANGED <<curr, flush_work_var, op, due>>,
           armed' \subseteq Works, firing' \in Works \cup {NoWork}
    PROVE  IInv'
<1>1. /\ queue' \in Seq(Works) /\ worker' \in {"run", "sleep", "woken"}
      /\ ListedOnce' /\ WorkerInv' /\ Members(queue) \subseteq Members(queue')
  BY ScheduleKeeps DEF IInv
<1>2. TypeOK'
  BY <1>1 DEF IInv, TypeOK
<1>3. DueBound'
  BY <1>1 DEF IInv, DueBound
<1>4. FlagInv' /\ OwnWork'
  BY DEF IInv, FlagInv, OwnWork
<1> QED
  BY <1>1, <1>2, <1>3, <1>4 DEF IInv

(* A caller stops waiting. *)
LEMMA ReturnsKeeps ==
    ASSUME IInv, NEW t \in Threads, Returns(t), UNCHANGED <<queue, curr, flush_work_var, timerVars>>,
           worker' = worker \/ worker' = Signalled
    PROVE  IInv'
<1>1. /\ op \in [Threads -> [fn : Waits \cup {"add_timer", "none"}, work : Works \cup {NoWork}]]
      /\ due \in [Threads -> [q : SUBSET Works, r : SUBSET Works]]
      /\ worker \in {"run", "sleep", "woken"}
  BY DEF IInv, TypeOK
<1>2. /\ op'[t] = NoOp /\ due'[t] = NotDue
      /\ \A u \in Threads \ {t} : op'[u] = op[u] /\ due'[u] = due[u]
  BY <1>1 DEF Returns
<1>3. /\ op' \in [Threads -> [fn : Waits \cup {"add_timer", "none"}, work : Works \cup {NoWork}]]
      /\ due' \in [Threads -> [q : SUBSET Works, r : SUBSET Works]]
  BY <1>1 DEF Returns, NoOp, NotDue
<1>4. worker' \in {"run", "sleep", "woken"} /\ WorkerInv'
  BY <1>1 DEF Signalled, IInv, WorkerInv
<1>5. TypeOK' /\ ListedOnce'
  BY <1>3, <1>4 DEF IInv, TypeOK, ListedOnce, timerVars
<1>6. DueBound'
  BY <1>2 DEF IInv, DueBound, NotDue
<1>7. FlagInv' /\ OwnWork'
  BY <1>2 DEF IInv, FlagInv, OwnWork, NotDue, NoOp
<1> QED
  BY <1>4, <1>5, <1>6, <1>7 DEF IInv

(* A call starts to wait for d and nothing else changes but the list,      *)
(* which may lose w, and the flag, which may be raised.                    *)
LEMMA WaitKeeps ==
    ASSUME IInv, NEW t \in Threads, NEW f \in Waits \cup {"add_timer"},
           NEW w \in Works \cup {NoWork}, NEW d \in [q : SUBSET Works, r : SUBSET Works],
           op' = [op EXCEPT ![t] = [fn |-> f, work |-> w]],
           due' = [due EXCEPT ![t] = d],
           UNCHANGED <<queue, curr, timerVars>>,
           worker' = worker \/ worker' = Signalled,
           flush_work_var' = flush_work_var \/ flush_work_var' = 1,
           d.q \subseteq Members(queue), d.r \subseteq {curr},
           f = "flush_scheduled_work" => flush_work_var' = 1,
           f = "flush_work" => d.q \subseteq {w} /\ d.r \subseteq {w},
           f = "cancel_work_sync" => d.q = {} /\ d.r \subseteq {w},
           f = "add_timer" => w \in Works
    PROVE  IInv'
<1>1. /\ op \in [Threads -> [fn : Waits \cup {"add_timer", "none"}, work : Works \cup {NoWork}]]
      /\ due \in [Threads -> [q : SUBSET Works, r : SUBSET Works]]
      /\ worker \in {"run", "sleep", "woken"}
      /\ flush_work_var \in {0, 1}
  BY DEF IInv, TypeOK
<1>2. /\ op'[t] = [fn |-> f, work |-> w] /\ due'[t] = d
      /\ \A u \in Threads \ {t} : op'[u] = op[u] /\ due'[u] = due[u]
  BY <1>1
<1>3. /\ op' \in [Threads -> [fn : Waits \cup {"add_timer", "none"}, work : Works \cup {NoWork}]]
      /\ due' \in [Threads -> [q : SUBSET Works, r : SUBSET Works]]
  BY <1>1
<1>4. worker' \in {"run", "sleep", "woken"} /\ WorkerInv'
  BY <1>1 DEF Signalled, IInv, WorkerInv
<1>5. TypeOK' /\ ListedOnce'
  BY <1>1, <1>3, <1>4 DEF IInv, TypeOK, ListedOnce, timerVars
<1>6. DueBound'
  BY <1>2 DEF IInv, DueBound
<1>7. FlagInv'
  BY <1>1, <1>2 DEF IInv, FlagInv
<1>8. OwnWork'
  BY <1>2 DEF IInv, OwnWork
<1> QED
  BY <1>4, <1>5, <1>6, <1>7, <1>8 DEF IInv

(* The part of a cancel that concerns everybody else: what they wait for   *)
(* stays on the list.                                                      *)
LEMMA CancelKeeps ==
    ASSUME IInv, NEW w \in Works, Dequeue(w), due' = DueWithout(w),
           UNCHANGED <<curr, worker, flush_work_var, timerVars, op>>
    PROVE  IInv'
<1>1. /\ queue' \in Seq(Works) /\ ListedOnce' /\ WorkerInv'
      /\ Members(queue) \ {w} \subseteq Members(queue')
  BY DequeueKeeps DEF IInv
<1>2. due \in [Threads -> [q : SUBSET Works, r : SUBSET Works]]
  BY DEF IInv, TypeOK
<1>3. due' \in [Threads -> [q : SUBSET Works, r : SUBSET Works]]
  BY <1>2 DEF DueWithout
<1>4. \A u \in Threads : due'[u].q = due[u].q \ {w} /\ due'[u].r = due[u].r
  BY <1>2 DEF DueWithout
<1>5. ASSUME NEW u \in Threads, due[u] = NotDue PROVE due'[u] = NotDue
  <2>1. due'[u].q = {} /\ due'[u].r = {}
    BY <1>4, <1>5 DEF NotDue
  <2>2. due'[u] \in [q : SUBSET Works, r : SUBSET Works]
    BY <1>3
  <2> QED
    BY <2>1, <2>2 DEF NotDue
<1>6. TypeOK'
  BY <1>1, <1>3 DEF IInv, TypeOK, timerVars
<1>7. DueBound'
  BY <1>1, <1>4 DEF IInv, DueBound
<1>8. FlagInv'
  BY <1>5 DEF IInv, FlagInv
<1>9. OwnWork'
  BY <1>4 DEF IInv, OwnWork
<1> QED
  BY <1>1, <1>6, <1>7, <1>8, <1>9 DEF IInv

(* cancel_work_sync() of the running work: the caller starts to wait.      *)
LEMMA CancelSyncKeeps ==
    ASSUME IInv, NEW t \in Threads, NEW w \in Works, Dequeue(w), curr = w,
           due' = [DueWithout(w) EXCEPT ![t] = [q |-> {}, r |-> {w}]],
           op' = [op EXCEPT ![t] = [fn |-> "cancel_work_sync", work |-> w]],
           UNCHANGED <<curr, worker, flush_work_var, timerVars>>
    PROVE  IInv'
<1>1. /\ queue' \in Seq(Works) /\ ListedOnce' /\ WorkerInv'
      /\ Members(queue) \ {w} \subseteq Members(queue')
  BY DequeueKeeps DEF IInv
<1>2. /\ due \in [Threads -> [q : SUBSET Works, r : SUBSET Works]]
      /\ op \in [Threads -> [fn : Waits \cup {"add_timer", "none"}, work : Works \cup {NoWork}]]
  BY DEF IInv, TypeOK
<1>3. /\ due' \in [Threads -> [q : SUBSET Works, r : SUBSET Works]]
      /\ op' \in [Threads -> [fn : Waits \cup {"add_timer", "none"}, work : Works \cup {NoWork}]]
  BY <1>2 DEF DueWithout, Waits
<1>4. /\ due'[t] = [q |-> {}, r |-> {w}]
      /\ op'[t] = [fn |-> "cancel_work_sync", work |-> w]
      /\ \A u \in Threads \ {t} :
            op'[u] = op[u] /\ due'[u].q = due[u].q \ {w} /\ due'[u].r = due[u].r
  BY <1>2 DEF DueWithout
<1>5. ASSUME NEW u \in Threads \ {t}, due[u] = NotDue PROVE due'[u] = NotDue
  <2>1. due'[u].q = {} /\ due'[u].r = {}
    BY <1>4, <1>5 DEF NotDue
  <2>2. due'[u] \in [q : SUBSET Works, r : SUBSET Works]
    BY <1>3
  <2> QED
    BY <2>1, <2>2 DEF NotDue
<1>6. TypeOK'
  BY <1>1, <1>3 DEF IInv, TypeOK, timerVars
<1>7. DueBound'
  BY <1>1, <1>4 DEF IInv, DueBound
<1>8. FlagInv'
  BY <1>4, <1>5 DEF IInv, FlagInv
<1>9. OwnWork'
  BY <1>4 DEF IInv, OwnWork
<1> QED
  BY <1>1, <1>6, <1>7, <1>8, <1>9 DEF IInv

-----------------------------------------------------------------------------
LEMMA InitInv == Init => IInv
<1> SUFFICES ASSUME Init PROVE IInv
  OBVIOUS
<1>1. TypeOK
  BY DEF Init, TypeOK, NoOp, NotDue
<1>2. ListedOnce /\ WorkerInv
  BY DEF Init, ListedOnce, WorkerInv
<1>3. DueBound /\ FlagInv /\ OwnWork
  BY DEF Init, DueBound, FlagInv, OwnWork, NoOp, NotDue
<1> QED
  BY <1>1, <1>2, <1>3 DEF IInv

(* Every action keeps the invariant. *)
LEMMA StepInv == IInv /\ [Next]_vars => IInv'
<1> SUFFICES ASSUME IInv, [Next]_vars PROVE IInv'
  OBVIOUS
<1> USE DEF timerVars
<1>1. CASE UNCHANGED vars
  BY <1>1 DEF vars, IInv, TypeOK, ListedOnce, WorkerInv, DueBound, FlagInv, OwnWork, Members
<1>2. CASE work_exec
  <2>1. \A t \in Threads : due[t].r = {}
    BY <1>2, WorkAssumption DEF work_exec, IInv, TypeOK, WorkerInv, DueBound
  <2> QED
    BY <1>2, <2>1, LoopTopKeeps DEF work_exec, IInv, TypeOK
<1>3. CASE FunctionReturns
  <2> DEFINE d == [t \in Threads |-> [due[t] EXCEPT !.r = @ \ {curr}]]
  <2>1. due \in [Threads -> [q : SUBSET Works, r : SUBSET Works]]
    BY DEF IInv, TypeOK
  <2>2. d \in [Threads -> [q : SUBSET Works, r : SUBSET Works]]
    BY <2>1
  <2>3. \A t \in Threads : d[t].q = due[t].q /\ d[t].r = {}
    BY <2>1 DEF IInv, DueBound
  <2>4. ASSUME NEW t \in Threads, due[t] = NotDue PROVE d[t] = NotDue
    <3>1. d[t] \in [q : SUBSET Works, r : SUBSET Works] /\ d[t].q = {} /\ d[t].r = {}
      BY <2>2, <2>3, <2>4 DEF NotDue
    <3> QED
      BY <3>1 DEF NotDue
  <2>5. LoopTop(d) /\ UNCHANGED <<timerVars, op>>
    BY <1>3 DEF FunctionReturns
  <2> HIDE DEF d
  <2> QED
    BY <2>2, <2>3, <2>4, <2>5, LoopTopKeeps
<1>4. CASE SpuriousWakeup
  BY <1>4 DEF SpuriousWakeup, IInv, TypeOK, ListedOnce, WorkerInv, DueBound, FlagInv, OwnWork, Members
<1>5. CASE delayed_work_timer_fn
  BY <1>5, GrowKeeps DEF delayed_work_timer_fn, IInv, TypeOK
<1>6. ASSUME NEW w \in Works, schedule_work(w) PROVE IInv'
  BY <1>6, GrowKeeps DEF schedule_work, IInv, TypeOK
<1>7. ASSUME NEW w \in Works, cancel_work(w) PROVE IInv'
  BY <1>7, CancelKeeps DEF cancel_work
<1>8. ASSUME NEW w \in Works, del_timer(w) \/ TimerExpires(w) PROVE IInv'
  <2>1. /\ UNCHANGED <<queue, curr, worker, flush_work_var, op, due>>
        /\ armed' \subseteq Works /\ firing' \in Works \cup {NoWork}
    BY <1>8 DEF del_timer, TimerExpires, IInv, TypeOK
  <2> QED
    BY <2>1 DEF IInv, TypeOK, ListedOnce, WorkerInv, DueBound, FlagInv, OwnWork, Members
<1>9. ASSUME NEW t \in Threads, Caller(t) PROVE IInv'
  <2>1. CASE flush_scheduled_work(t)
    <3>1. DueNow(Works) \in [q : SUBSET Works, r : SUBSET Works]
      BY DEF DueNow
    <3>2. DueNow(Works).q \subseteq Members(queue) /\ DueNow(Works).r \subseteq {curr}
      BY DEF DueNow
    <3> QED
      BY <2>1, <3>1, <3>2, WaitKeeps DEF flush_scheduled_work, Waits
  <2>2. CASE FlushPoll(t)
    <3>1. CASE flush_work_var = 0 /\ Returns(t)
      BY <2>2, <3>1, ReturnsKeeps DEF FlushPoll
    <3>2. CASE UNCHANGED <<op, due>>
      <4>1. worker' = Signalled /\ UNCHANGED <<queue, curr, flush_work_var, timerVars, op, due>>
        BY <2>2, <3>2 DEF FlushPoll
      <4> QED
        BY <4>1 DEF Signalled, IInv, TypeOK, ListedOnce, WorkerInv, DueBound, FlagInv, OwnWork, Members
    <3> QED
      BY <2>2, <3>1, <3>2 DEF FlushPoll
  <2>3. CASE FlushWorkPoll(t)
    BY <2>3, ReturnsKeeps DEF FlushWorkPoll
  <2>4. CASE CancelPoll(t)
    BY <2>4, ReturnsKeeps DEF CancelPoll
  <2>5. CASE add_timer(t)
    <3>1. armed' \subseteq Works /\ UNCHANGED <<queue, curr, worker, flush_work_var, firing, due>>
      BY <2>5 DEF add_timer, IInv, TypeOK, OwnWork
    <3>2. \A u \in Threads : op'[u] = op[u] \/ op'[u] = NoOp
      BY <2>5 DEF add_timer, IInv, TypeOK
    <3>3. op' \in [Threads -> [fn : Waits \cup {"add_timer", "none"}, work : Works \cup {NoWork}]]
      BY <2>5 DEF add_timer, IInv, TypeOK, NoOp
    <3>4. TypeOK'
      BY <3>1, <3>3 DEF IInv, TypeOK
    <3>5. FlagInv' /\ OwnWork'
      BY <3>1, <3>2 DEF IInv, FlagInv, OwnWork, NoOp
    <3> QED
      BY <3>1, <3>4, <3>5 DEF IInv, ListedOnce, WorkerInv, DueBound, Members
  <2>6. ASSUME NEW w \in Works, flush_work(t, w) PROVE IInv'
    <3>1. DueNow({w}) \in [q : SUBSET Works, r : SUBSET Works]
      BY DEF DueNow
    <3>2. /\ DueNow({w}).q \subseteq Members(queue) /\ DueNow({w}).r \subseteq {curr}
          /\ DueNow({w}).q \subseteq {w} /\ DueNow({w}).r \subseteq {w}
      BY DEF DueNow
    <3>3. /\ op' = [op EXCEPT ![t] = [fn |-> "flush_work", work |-> w]]
          /\ due' = [due EXCEPT ![t] = DueNow({w})]
          /\ UNCHANGED <<queue, curr, worker, flush_work_var, timerVars>>
      BY <2>6 DEF flush_work
    <3> QED
      BY <3>1, <3>2, <3>3, WaitKeeps, Zenon DEF Waits
  <2>7. ASSUME NEW w \in Works, cancel_work_sync(t, w) PROVE IInv'
    <3>1. CASE curr # w
      BY <2>7, <3>1, CancelKeeps DEF cancel_work_sync
    <3>2. CASE curr = w
      BY <2>7, <3>2, CancelSyncKeeps DEF cancel_work_sync
    <3> QED
      BY <3>1, <3>2
  <2>8. ASSUME NEW w \in Works, schedule_delayed_work(t, w) PROVE IInv'
    <3>1. /\ op' = [op EXCEPT ![t] = [fn |-> "add_timer", work |-> w]]
          /\ UNCHANGED <<queue, curr, worker, flush_work_var, timerVars, due>>
      BY <2>8 DEF schedule_delayed_work
    <3>2. op' \in [Threads -> [fn : Waits \cup {"add_timer", "none"}, work : Works \cup {NoWork}]]
      BY <3>1 DEF IInv, TypeOK
    <3>3. \A u \in Threads : op'[u] = op[u] \/ op'[u].fn = "add_timer"
      BY <3>1 DEF IInv, TypeOK
    <3>4. TypeOK'
      BY <3>1, <3>2 DEF IInv, TypeOK
    <3>5. FlagInv' /\ OwnWork'
      BY <3>1, <3>3 DEF IInv, FlagInv, OwnWork
    <3> QED
      BY <3>1, <3>4, <3>5 DEF IInv, ListedOnce, WorkerInv, DueBound, Members
  <2> QED
    BY <1>9, <2>1, <2>2, <2>3, <2>4, <2>5, <2>6, <2>7, <2>8 DEF Caller
<1> QED
  BY <1>1, <1>2, <1>3, <1>4, <1>5, <1>6, <1>7, <1>8, <1>9 DEF Next

THEOREM Invariant == Spec => []IInv
BY InitInv, StepInv, PTL DEF Spec

(* Works, threads and callers keep their types for ever. *)
THEOREM TypeCorrect == Spec => []TypeOK
BY Invariant, PTL DEF IInv

(* The list never holds a work twice, so cancel_work() removes it.         *)
THEOREM WorksListedOnce == Spec => []ListedOnce
BY Invariant, PTL DEF IInv

(* The work thread never sleeps over a queued work. *)
THEOREM NoSignalLost == Spec => []SleepsOnlyWhenEmpty
<1>1. IInv => SleepsOnlyWhenEmpty
  BY DEF IInv, WorkerInv, SleepsOnlyWhenEmpty
<1> QED
  BY <1>1, Invariant, PTL

(* flush_scheduled_work() returns only after all that was queued or        *)
(* running when it was called: flush_work_var is down only on an empty     *)
(* list and between two works.                                             *)
THEOREM FlushIsComplete == Spec => FlushWaits
<1>1. ASSUME IInv, [Next]_vars, NEW t \in Threads,
             op[t].fn = "flush_scheduled_work", op'[t] = NoOp
      PROVE  due[t] = NotDue
  <2>1. op \in [Threads -> [fn : Waits \cup {"add_timer", "none"}, work : Works \cup {NoWork}]]
    BY <1>1 DEF IInv, TypeOK
  <2>2. op'[t] # op[t] /\ op[t] # NoOp
    BY <1>1 DEF NoOp
  <2>3. FlushPoll(t)
    <3>1. ASSUME NEW u \in Threads, Caller(u) PROVE u = t
      BY <3>1, <2>1, <2>2 DEF Caller, flush_scheduled_work, FlushPoll, FlushWorkPoll,
         CancelPoll, add_timer, Returns, flush_work, cancel_work_sync, schedule_delayed_work
    <3>2. \E u \in Threads : Caller(u)
      BY <1>1, <2>2 DEF Next, vars, work_exec, FunctionReturns, SpuriousWakeup,
         delayed_work_timer_fn, schedule_work, cancel_work, del_timer, TimerExpires
    <3>3. Caller(t)
      BY <3>1, <3>2
    <3> QED
      BY <1>1, <2>2, <3>3 DEF Caller, flush_scheduled_work, FlushWorkPoll, CancelPoll,
         add_timer, flush_work, cancel_work_sync, schedule_delayed_work
  <2>4. flush_work_var = 0
    BY <2>2, <2>3 DEF FlushPoll
  <2> QED
    BY <1>1, <2>4 DEF IInv, FlagInv
<1>2. IInv /\ [Next]_vars =>
        [\A t \in Threads :
            op[t].fn = "flush_scheduled_work" /\ op'[t] = NoOp => due[t] = NotDue]_vars
  BY <1>1
<1> QED
  BY <1>2, Invariant, PTL DEF Spec, FlushWaits

(* flush_work() and cancel_work_sync() return only after the executions    *)
(* that they were called to wait for.                                      *)
THEOREM SyncIsComplete == Spec => SyncWaits
<1>1. ASSUME IInv, [Next]_vars, NEW t \in Threads,
             op[t].fn \in {"flush_work", "cancel_work_sync"}, op'[t] = NoOp
      PROVE  due[t] = NotDue
  <2>1. op \in [Threads -> [fn : Waits \cup {"add_timer", "none"}, work : Works \cup {NoWork}]]
    BY <1>1 DEF IInv, TypeOK
  <2>2. op'[t] # op[t] /\ op[t] # NoOp
    BY <1>1 DEF NoOp
  <2>3. FlushWorkPoll(t) \/ CancelPoll(t)
    <3>1. ASSUME NEW u \in Threads, Caller(u) PROVE u = t
      BY <3>1, <2>1, <2>2 DEF Caller, flush_scheduled_work, FlushPoll, FlushWorkPoll,
         CancelPoll, add_timer, Returns, flush_work, cancel_work_sync, schedule_delayed_work
    <3>2. \E u \in Threads : Caller(u)
      BY <1>1, <2>2 DEF Next, vars, work_exec, FunctionReturns, SpuriousWakeup,
         delayed_work_timer_fn, schedule_work, cancel_work, del_timer, TimerExpires
    <3>3. Caller(t)
      BY <3>1, <3>2
    <3> QED
      BY <1>1, <2>2, <3>3 DEF Caller, flush_scheduled_work, FlushPoll,
         add_timer, flush_work, cancel_work_sync, schedule_delayed_work
  <2>4. curr # op[t].work /\ (op[t].fn = "flush_work" => ~Queued(op[t].work))
    BY <1>1, <2>3 DEF FlushWorkPoll, CancelPoll, Busy
  <2>5. due[t].q \subseteq Members(queue) /\ due[t].r \subseteq {curr}
    BY <1>1 DEF IInv, DueBound
  <2>6. due[t].q = {} /\ due[t].r = {}
    BY <1>1, <2>4, <2>5 DEF IInv, OwnWork, Queued
  <2>7. due[t] \in [q : SUBSET Works, r : SUBSET Works]
    BY <1>1 DEF IInv, TypeOK
  <2> QED
    BY <2>6, <2>7 DEF NotDue
<1>2. IInv /\ [Next]_vars =>
        [\A t \in Threads :
            op[t].fn \in {"flush_work", "cancel_work_sync"} /\ op'[t] = NoOp
                => due[t] = NotDue]_vars
  BY <1>1
<1> QED
  BY <1>2, Invariant, PTL DEF Spec, SyncWaits

(* List and work thread agree, for any threads and works. *)
THEOREM QueueIsSafe == Spec => []QueueSafe
  BY TypeCorrect, WorksListedOnce, NoSignalLost, PTL DEF QueueSafe

(* Flushes and synchronous cancels wait for what they were called for. *)
THEOREM WaitersAreServed == Spec => WaitersServed
  BY FlushIsComplete, SyncIsComplete DEF WaitersServed
=============================================================================
