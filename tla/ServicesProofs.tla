---------------------------- MODULE ServicesProofs ----------------------------
(***************************************************************************)
(* Proofs about the services that drivers and users call.  Timer, for any  *)
(* timers, threads and lengths of a jiffy and of the sleeps: the list and  *)
(* the clock are exact, no function is called early or late.  I2cCore, for *)
(* any drivers, adapters and clients.  CharDevice, for any files, workers, *)
(* slots and size of a page.  DeviceTable, for any processes, devices and  *)
(* units.                                                                  *)
(***************************************************************************)
EXTENDS Timer, I2cCore, CharDevice, DeviceTable, SequenceTheorems, FiniteSetTheorems, WellFoundedInduction, TLAPS

-----------------------------------------------------------------------------
(* Lists without repetitions, and numbers. *)

(* Taking the n-th element off a list without repetitions. *)
LEMMA OffRight ==
    ASSUME NEW T, NEW a \in Seq(T), \A m, n \in DOMAIN a : a[m] = a[n] => m = n, NEW u \in ToSet(a)
    PROVE  LET b == RemoveAt(a, CHOOSE n \in DOMAIN a : a[n] = u)
           IN  /\ b \in Seq(T)
               /\ ToSet(b) = ToSet(a) \ {u}
               /\ \A m, n \in DOMAIN b : b[m] = b[n] => m = n
  <1> DEFINE j == CHOOSE n \in DOMAIN a : a[n] = u
             b == RemoveAt(a, j)
  <1>1. j \in 1..Len(a) /\ a[j] = u
    BY DEF ToSet
  <1>2. b = SubSeq(a, 1, j - 1) \o SubSeq(a, j + 1, Len(a))
    BY DEF RemoveAt
  <1> HIDE DEF j
  <1> DEFINE p == SubSeq(a, 1, j - 1)
             q == SubSeq(a, j + 1, Len(a))
  <1>3. p \in Seq(T) /\ Len(p) = j - 1 /\ \A n \in 1..(j - 1) : p[n] = a[n]
    BY <1>1, SubSeqProperties
  <1>4. /\ q \in Seq(T) /\ Len(q) = Len(a) - j
        /\ \A n \in 1..(Len(a) - j) : q[n] = a[j + n]
    BY <1>1, SubSeqProperties
  <1> HIDE DEF p, q, b
  <1>5. /\ b \in Seq(T) /\ Len(b) = Len(a) - 1
        /\ \A n \in 1..Len(b) : b[n] = IF n < j THEN a[n] ELSE a[n + 1]
    <2>1. /\ b \in Seq(T) /\ Len(b) = Len(p) + Len(q)
          /\ \A n \in 1..Len(p) : b[n] = p[n]
          /\ \A n \in 1..Len(q) : b[Len(p) + n] = q[n]
      <3>1. b = p \o q
        BY <1>2 DEF p, q
      <3>2. /\ p \o q \in Seq(T) /\ Len(p \o q) = Len(p) + Len(q)
            /\ \A n \in 1..(Len(p) + Len(q)) :
                  (p \o q)[n] = IF n <= Len(p) THEN p[n] ELSE q[n - Len(p)]
        BY <1>3, <1>4, ConcatProperties
      <3>3. Len(p) \in Nat /\ Len(q) \in Nat
        BY <1>3, <1>4, LenProperties
      <3>4. ASSUME NEW n \in 1..Len(q)
            PROVE  /\ Len(p) + n \in 1..(Len(p) + Len(q)) /\ ~(Len(p) + n <= Len(p))
                   /\ (Len(p) + n) - Len(p) = n
        BY <3>3
      <3> QED
        BY <3>1, <3>2, <3>3, <3>4
    <2>2. Len(a) \in Nat /\ j \in Nat /\ j >= 1 /\ Len(b) = Len(a) - 1
      BY <1>1, <1>3, <1>4, <2>1
    <2>3. ASSUME NEW n \in 1..Len(b) PROVE b[n] = IF n < j THEN a[n] ELSE a[n + 1]
      <3>1. CASE n < j
        BY <3>1, <1>3, <2>1, <2>2
      <3>2. CASE ~(n < j)
        <4>1. n - (j - 1) \in 1..Len(q) /\ Len(p) + (n - (j - 1)) = n /\ j + (n - (j - 1)) = n + 1
          BY <3>2, <1>3, <1>4, <2>2
        <4>2. b[n] = q[n - (j - 1)] /\ q[n - (j - 1)] = a[n + 1]
          BY <4>1, <2>1, <1>4
        <4> QED
          BY <3>2, <4>2
      <3> QED
        BY <3>1, <3>2
    <2> QED
      BY <2>1, <2>2, <2>3
  <1>6. DOMAIN a = 1..Len(a) /\ DOMAIN b = 1..Len(b) /\ Len(a) \in Nat /\ Len(b) \in Nat
    BY <1>5, LenProperties
  <1>7. \A m, n \in DOMAIN b : b[m] = b[n] => m = n
    BY <1>1, <1>5, <1>6
  <1>8. ToSet(b) = ToSet(a) \ {u}
    <2>1. ASSUME NEW n \in DOMAIN b PROVE b[n] \in ToSet(a) \ {u}
      <3>1. CASE n < j
        BY <3>1, <1>1, <1>5, <1>6 DEF ToSet
      <3>2. CASE ~(n < j)
        BY <3>2, <1>1, <1>5, <1>6 DEF ToSet
      <3> QED
        BY <3>1, <3>2
    <2>2. ASSUME NEW n \in DOMAIN a, a[n] # u PROVE a[n] \in ToSet(b)
      <3>1. CASE n < j
        <4>1. n \in DOMAIN b /\ b[n] = a[n]
          BY <3>1, <1>1, <1>5, <1>6
        <4> QED
          BY <4>1 DEF ToSet
      <3>2. CASE n > j
        <4>1. n - 1 \in DOMAIN b /\ b[n - 1] = a[(n - 1) + 1] /\ (n - 1) + 1 = n
          BY <3>2, <1>1, <1>5, <1>6
        <4> QED
          BY <4>1 DEF ToSet
      <3> QED
        BY <3>1, <3>2, <2>2, <1>1, <1>6
    <2> QED
      BY <2>1, <2>2 DEF ToSet
  <1> QED
    BY <1>5, <1>7, <1>8 DEF b, j

(* Putting an element that is not on the list at its end. *)
LEMMA AppendRight ==
    ASSUME NEW T, NEW a \in Seq(T), \A m, n \in DOMAIN a : a[m] = a[n] => m = n,
           NEW u \in T, u \notin ToSet(a)
    PROVE  /\ Append(a, u) \in Seq(T)
           /\ ToSet(Append(a, u)) = ToSet(a) \cup {u}
           /\ \A m, n \in DOMAIN Append(a, u) : Append(a, u)[m] = Append(a, u)[n] => m = n
  <1> DEFINE b == Append(a, u)
  <1>1. /\ b \in Seq(T) /\ Len(b) = Len(a) + 1 /\ b[Len(a) + 1] = u
        /\ \A n \in 1..Len(a) : b[n] = a[n]
    BY AppendProperties
  <1>2. DOMAIN a = 1..Len(a) /\ DOMAIN b = 1..Len(b) /\ Len(a) \in Nat
    BY <1>1, LenProperties
  <1> HIDE DEF b
  <1>3. \A n \in DOMAIN b : (n \in DOMAIN a /\ b[n] = a[n]) \/ (n = Len(a) + 1 /\ b[n] = u)
    BY <1>1, <1>2
  <1>4. \A n \in DOMAIN a : n \in DOMAIN b /\ b[n] = a[n] /\ a[n] # u
    BY <1>1, <1>2 DEF ToSet
  <1>5. Len(a) + 1 \in DOMAIN b
    BY <1>1, <1>2
  <1>6. ToSet(b) = ToSet(a) \cup {u}
    <2>1. ToSet(a) = {a[n] : n \in DOMAIN a} /\ ToSet(b) = {b[n] : n \in DOMAIN b}
      BY DEF ToSet
    <2> QED
      BY <1>1, <1>3, <1>4, <1>5, <2>1
  <1>7. \A m, n \in DOMAIN b : b[m] = b[n] => m = n
    BY <1>3, <1>4
  <1> QED
    BY <1>1, <1>6, <1>7 DEF b

(* Some natural numbers have a least one. *)
LEMMA HasLeast ==
    ASSUME NEW S \in SUBSET Nat, S # {}
    PROVE  \E x \in S : \A y \in S : x <= y
  <1> DEFINE R == OpToRel(<, Nat)
  <1>1. \E x \in S : \A y \in S : ~(<<y, x>> \in R)
    <2>1. IsWellFoundedOn(R, Nat)
      BY NatLessThanWellFounded
    <2> HIDE DEF R
    <2> QED
      BY <2>1, WFMin
  <1>2. \A x, y \in Nat : ~(<<y, x>> \in R) => x <= y
    BY DEF OpToRel
  <1> QED
    BY <1>1, <1>2

LEMMA LeastRight ==
    ASSUME NEW S \in SUBSET Nat, S # {}
    PROVE  Min(S) \in S
  BY HasLeast DEF Min

-----------------------------------------------------------------------------
(* Timer: the inductive invariant. *)

TimerTypeOK ==
    /\ elapsed \in Nat /\ offset \in Int /\ nsec \in 0..SEC-1 /\ rem \in 0..DIV-1
    /\ jiffies \in Nat /\ gap \in Nat /\ late \in BOOLEAN /\ slow \in BOOLEAN /\ stepped \in Nat
    /\ timer_head \in Seq(Timers) /\ linked \in [Timers -> BOOLEAN]
    /\ expires \in [Timers -> Nat] /\ since \in [Timers -> Nat]
    /\ adding \in [Callers -> Timers \cup {NoTimer}]
    /\ tpc \in {"start", "loop", "scan", "run", "sleep"}
    /\ last_jiffies \in Nat /\ last_check \in Nat /\ cur \in Timers \cup {NoTimer}
    /\ ms_delay \in {0, SHORT, RELAX} /\ slept \in Nat /\ quiet \in Nat /\ needed \in Nat

(* A timer between the two sections of add_timer() is off the list, and    *)
(* is added by one thread.                                                 *)
AddingRight ==
    /\ \A p \in Callers : adding[p] # NoTimer => ~linked[adding[p]]
    /\ \A p, q \in Callers : adding[p] = adding[q] /\ adding[p] # NoTimer => p = q

(* What was read last from the clock is true time at the last look, modulo *)
(* one second.                                                             *)
Counted == jiffies * DIV + rem + gap
ClockRight ==
    /\ last_jiffies <= jiffies
    /\ stepped = 0 => /\ offset = 0 /\ gap <= elapsed /\ nsec = (elapsed - gap) % SEC
                      /\ Counted <= elapsed
                      /\ ~late => gap < SEC /\ Counted = elapsed

(* The thread looks at the clock at least once per relaxed sleep.          *)
PaceRight ==
    /\ tpc = "sleep" => slept <= ms_delay
    /\ ~slow => /\ ~late
                /\ tpc = "sleep" => gap <= slept
                /\ tpc = "loop" => gap <= RELAX
                /\ tpc \in {"start", "scan", "run"} => gap = 0

(* While timers are searched last_jiffies is the present jiffy. *)
NowRight ==
    ~slow /\ stepped = 0 /\ tpc \in {"scan", "run"} => elapsed < (last_jiffies + 1) * DIV

(* A timer has waited since the thread went to sleep at most. *)
Waited(t, d) == elapsed <= since[t] + d \/ elapsed <= (expires[t] + 1) * DIV + d
WaitRight ==
    ~slow /\ stepped = 0 =>
        \A t \in Timers : linked[t] => Waited(t, IF tpc = "sleep" THEN slept ELSE RELAX)

(* last_check is the jiffy of the last broadcast, which was no more than a *)
(* second before the last search.                                          *)
BroadcastRight ==
    ~slow /\ stepped = 0 =>
        /\ last_check * DIV + quiet <= elapsed
        /\ tpc = "start" => quiet = 0
        /\ tpc = "run" => quiet < SEC
        /\ tpc = "sleep" => quiet < SEC + slept
        /\ quiet < SEC + RELAX

TimerInv ==
    /\ TimerTypeOK
    /\ LinkedOnce /\ AddingRight
    /\ ClockRight /\ PaceRight /\ NowRight /\ WaitRight /\ BroadcastRight

-----------------------------------------------------------------------------
(* Division with a remainder from 0 on, of a number of either sign. *)
LEMMA DivMod ==
    ASSUME NEW x \in Int, NEW y \in Int, y > 0
    PROVE  /\ x \div y \in Int /\ x % y \in Int
           /\ y * (x \div y) <= x /\ x < y * (x \div y) + y
           /\ x % y = x - y * (x \div y)
<1>1. x \div y \in Int /\ x % y \in Int
  OBVIOUS
<1>2. y * (x \div y) <= x /\ x < y * (x \div y) + y
  BY SMTT(30)
<1>3. \A i, j \in Int : j > 0 => i % j = i - j * (i \div j)
  BY Z3T(30)
<1> QED
  BY <1>1, <1>2, <1>3

(* Division by a positive number. *)
LEMMA Divides ==
    ASSUME NEW x \in Int, NEW d \in Nat \ {0}
    PROVE  /\ x \div d \in Int /\ x % d \in 0..(d - 1)
           /\ x = (x \div d) * d + (x % d)
  <1>1. d \in Int /\ d > 0
    OBVIOUS
  <1>2. /\ x \div d \in Int /\ x % d \in Int
        /\ d * (x \div d) <= x /\ x < d * (x \div d) + d
        /\ x % d = x - d * (x \div d)
    BY <1>1, DivMod
  <1> DEFINE q == x \div d
             r == x % d
  <1>3. q \in Int /\ r \in Int /\ d * q <= x /\ x < d * q + d /\ r = x - d * q
    BY <1>2
  <1> HIDE DEF q, r
  <1>4. q * d = d * q /\ d * q \in Int
    BY <1>1, <1>3
  <1>5. q \in Int /\ r \in 0..(d - 1) /\ x = q * d + r
    BY <1>1, <1>3, <1>4
  <1> QED
    BY <1>5 DEF q, r

LEMMA Scales ==
    ASSUME NEW k \in Int, NEW d \in Nat \ {0}
    PROVE  /\ k * d \in Int
           /\ k >= 0 => k * d >= 0
           /\ k >= 1 => k * d >= d
           /\ k <= -1 => k * d <= -d
           /\ (k + 1) * d = k * d + d
  OBVIOUS

LEMMA Grows ==
    ASSUME NEW k \in Int, NEW l \in Int, NEW d \in Nat \ {0}, k <= l
    PROVE  k * d <= l * d /\ k * d \in Int /\ l * d \in Int
  <1>1. (l - k) \in Int /\ l - k >= 0
    OBVIOUS
  <1>2. (l - k) * d >= 0
    BY <1>1, Scales
  <1>3. (l - k) * d = l * d - k * d
    OBVIOUS
  <1>4. k * d \in Int /\ l * d \in Int
    OBVIOUS
  <1> QED
    BY <1>2, <1>3, <1>4

LEMMA ConstantsRight ==
    /\ SEC \in Nat \ {0} /\ DIV \in Nat \ {0} /\ HZ \in Nat /\ HZ * DIV = SEC
    /\ SHORT \in Nat /\ RELAX \in Nat /\ SHORT <= RELAX /\ RELAX < SEC
  <1>1. SEC \in Int /\ DIV \in Nat \ {0} /\ SEC % DIV = 0 /\ SEC > 0
    BY TimerAssumption
  <1>2. HZ \in Int /\ SEC = HZ * DIV
    BY <1>1, Divides DEF HZ
  <1>3. HZ >= 0
    BY <1>1, <1>2, Scales
  <1> QED
    BY <1>2, <1>3, TimerAssumption

(* The seconds that the clock does not count: what it adds is the time     *)
(* since the last look, less the whole seconds.                            *)
LEMMA WrapRight ==
    ASSUME NEW e \in Nat, NEW g \in Nat, g <= e, NEW b, b = (e - g) % SEC
    PROVE  LET d == (e % SEC) - b
               w == IF d < 0 THEN d + SEC ELSE d
           IN  w \in 0..(SEC - 1) /\ w <= g /\ (g < SEC => w = g)
  <1> DEFINE a == e % SEC
             q == e \div SEC
             r == (e - g) \div SEC
  <1>1. /\ q \in Int /\ r \in Int /\ a \in 0..(SEC - 1) /\ b \in 0..(SEC - 1)
        /\ e = q * SEC + a /\ e - g = r * SEC + b
    <2>1. e \in Int /\ e - g \in Int
      OBVIOUS
    <2>2. q \in Int /\ a \in 0..(SEC - 1) /\ e = q * SEC + a
      BY <2>1, ConstantsRight, Divides
    <2>3. r \in Int /\ b \in 0..(SEC - 1) /\ e - g = r * SEC + b
      BY <2>1, ConstantsRight, Divides
    <2> QED
      BY <2>2, <2>3
  <1> HIDE DEF a, q, r
  <1>2. /\ (q - r) * SEC = q * SEC - r * SEC
        /\ q * SEC \in Int /\ r * SEC \in Int
    BY <1>1, ConstantsRight
  <1>3. g = (q - r) * SEC + (a - b)
    BY <1>1, <1>2
  <1> DEFINE k == q - r
  <1>4. k \in Int /\ k * SEC \in Int /\ g = k * SEC + (a - b) /\ SEC \in Nat \ {0}
    BY <1>1, <1>3, ConstantsRight
  <1> HIDE DEF k
  <1>5. /\ k >= 1 => k * SEC >= SEC
        /\ k <= -1 => k * SEC <= -SEC
        /\ k = 0 => k * SEC = 0
        /\ k - 1 >= 1 => (k - 1) * SEC >= SEC
        /\ ((k - 1) + 1) * SEC = (k - 1) * SEC + SEC
    BY <1>4, Scales
  <1>6. k >= 2 => k * SEC >= SEC + SEC
    BY <1>4, <1>5
  <1>7. a - b < 0 => k >= 1
    BY <1>1, <1>4, <1>5
  <1>8. a - b >= 0 => k >= 0
    BY <1>1, <1>4, <1>5
  <1>9. g < SEC => k <= 1 /\ (k = 1 => a - b < 0)
    BY <1>1, <1>4, <1>5, <1>6
  <1> QED
    BY <1>1, <1>4, <1>5, <1>7, <1>8, <1>9 DEF a

(* Less than a jiffy and less than a second make a second at most. *)
LEMMA CarryRight ==
    ASSUME NEW r \in 0..(DIV - 1), NEW w \in 0..(SEC - 1)
    PROVE  /\ (r + w) \div DIV \in 0..HZ /\ (r + w) % DIV \in 0..(DIV - 1)
           /\ r + w = ((r + w) \div DIV) * DIV + ((r + w) % DIV)
  <1> DEFINE z == r + w
             j == z \div DIV
             m == z % DIV
  <1>1. z \in Int /\ z >= 0 /\ z < DIV + SEC
    BY ConstantsRight
  <1>2. j \in Int /\ m \in 0..(DIV - 1) /\ z = j * DIV + m
    BY <1>1, ConstantsRight, Divides
  <1> HIDE DEF z, j, m
  <1>3. j * DIV \in Int /\ (j <= -1 => j * DIV <= -DIV)
    BY <1>2, ConstantsRight, Scales
  <1>4. j >= 0
    BY <1>1, <1>2, <1>3, ConstantsRight
  <1>5. (HZ + 1) * DIV = HZ * DIV + DIV /\ (j >= HZ + 1 => (HZ + 1) * DIV <= j * DIV)
    BY <1>2, ConstantsRight, Grows, Scales
  <1>6. j <= HZ
    BY <1>1, <1>2, <1>3, <1>5, ConstantsRight
  <1>7. j \in 0..HZ /\ m \in 0..(DIV - 1) /\ z = j * DIV + m
    BY <1>2, <1>4, <1>6, ConstantsRight
  <1> QED
    BY <1>7, Zenon DEF z, j, m

(* get_jiffies_64(): jiffies go on by a second at most, and count what has *)
(* passed of true time if nobody has set the clock.                        *)
LEMMA ClockStep ==
    ASSUME TimerTypeOK, ClockRight, get_jiffies_64, UNCHANGED <<elapsed, offset, late, stepped>>
    PROVE  /\ nsec' \in 0..(SEC - 1) /\ rem' \in 0..(DIV - 1) /\ jiffies' \in Nat /\ gap' = 0
           /\ jiffies <= jiffies' /\ jiffies' - jiffies \in 0..HZ
           /\ jiffies' = JiffiesNow
           /\ stepped = 0 => /\ nsec' = (elapsed - gap') % SEC
                             /\ jiffies' * DIV <= elapsed
                             /\ Counted' <= elapsed'
                             /\ ~late => Counted' = elapsed' /\ elapsed < (jiffies' + 1) * DIV
  <1>1. /\ elapsed \in Nat /\ offset \in Int /\ nsec \in 0..(SEC - 1) /\ rem \in 0..(DIV - 1)
        /\ jiffies \in Nat /\ gap \in Nat /\ late \in BOOLEAN
    BY DEF TimerTypeOK
  <1>2. Wall \in 0..(SEC - 1)
    BY <1>1, ConstantsRight, Divides DEF Wall
  <1>3. Delta \in 0..(SEC - 1)
    BY <1>1, <1>2, ConstantsRight DEF Delta
  <1> DEFINE j == (rem + Delta) \div DIV
  <1>4. j \in 0..HZ /\ rem' \in 0..(DIV - 1) /\ rem + Delta = j * DIV + rem'
    BY <1>1, <1>3, CarryRight, Zenon DEF get_jiffies_64
  <1>5. nsec' = Wall /\ jiffies' = jiffies + j /\ gap' = 0 /\ jiffies' = JiffiesNow
    BY DEF get_jiffies_64, JiffiesNow
  <1> HIDE DEF j
  <1>6. /\ nsec' \in 0..(SEC - 1) /\ jiffies' \in Nat /\ jiffies <= jiffies'
        /\ jiffies' - jiffies \in 0..HZ
    BY <1>1, <1>2, <1>4, <1>5, ConstantsRight
  <1>7. ASSUME stepped = 0
        PROVE  /\ nsec' = (elapsed - gap') % SEC
               /\ jiffies' * DIV <= elapsed
               /\ Counted' <= elapsed'
               /\ ~late => Counted' = elapsed' /\ elapsed < (jiffies' + 1) * DIV
    <2>1. /\ offset = 0 /\ gap <= elapsed /\ nsec = (elapsed - gap) % SEC
          /\ jiffies * DIV + rem + gap <= elapsed
          /\ ~late => gap < SEC /\ jiffies * DIV + rem + gap = elapsed
      BY <1>7 DEF ClockRight, Counted
    <2>2. Wall = elapsed % SEC
      BY <1>1, <2>1 DEF Wall
    <2>3. Delta <= gap /\ (gap < SEC => Delta = gap)
      BY <1>1, <2>1, <2>2, WrapRight DEF Delta
    <2>4. /\ jiffies' * DIV = jiffies * DIV + j * DIV
          /\ jiffies * DIV \in Int /\ j * DIV \in Int /\ jiffies' * DIV \in Int
      BY <1>1, <1>4, <1>5, ConstantsRight
    <2>5. jiffies' * DIV + rem' = jiffies * DIV + rem + Delta
      <3>1. rem \in Int /\ rem' \in Int /\ Delta \in Int /\ rem + Delta = j * DIV + rem'
        BY <1>1, <1>3, <1>4
      <3> QED
        BY <2>4, <3>1
    <2>6. jiffies' * DIV + rem' <= elapsed /\ (~late => jiffies' * DIV + rem' = elapsed)
      BY <1>1, <1>3, <2>1, <2>3, <2>4, <2>5
    <2>7. (jiffies' + 1) * DIV = jiffies' * DIV + DIV
      BY <1>6, ConstantsRight, Scales
    <2>8. nsec' = (elapsed - gap') % SEC
      BY <1>1, <1>5, <2>2
    <2>9. rem' >= 0 /\ rem' < DIV /\ rem' \in Int /\ DIV \in Int
      BY <1>4, ConstantsRight
    <2>10. Counted' = jiffies' * DIV + rem'
      BY <1>5, <2>4, <2>9 DEF Counted
    <2> QED
      BY <1>1, <2>4, <2>6, <2>7, <2>8, <2>9, <2>10
  <1> QED
    BY <1>4, <1>5, <1>6, <1>7

-----------------------------------------------------------------------------
-----------------------------------------------------------------------------
(* What leaves the variables of a part of the invariant alone keeps it. *)
LEMMA LinkedFrame ==
    ASSUME LinkedOnce, UNCHANGED headVars
    PROVE  LinkedOnce'
  BY DEF LinkedOnce, headVars

LEMMA AddingFrame ==
    ASSUME AddingRight, UNCHANGED <<adding, linked>>
    PROVE  AddingRight'
  BY DEF AddingRight

LEMMA ClockFrame ==
    ASSUME ClockRight,
           UNCHANGED <<last_jiffies, jiffies, stepped, offset, gap, elapsed, nsec, rem, late>>
    PROVE  ClockRight'
  BY DEF ClockRight, Counted

LEMMA PaceFrame ==
    ASSUME PaceRight, UNCHANGED <<tpc, slept, ms_delay, slow, late, gap>>
    PROVE  PaceRight'
  BY DEF PaceRight

LEMMA NowFrame ==
    ASSUME NowRight, UNCHANGED <<slow, stepped, tpc, elapsed, last_jiffies>>
    PROVE  NowRight'
  BY DEF NowRight

LEMMA WaitFrame ==
    ASSUME WaitRight, UNCHANGED <<slow, stepped, linked, elapsed, since, expires>>,
           tpc' = tpc \/ (tpc # "sleep" /\ tpc' # "sleep"), slept' = slept
    PROVE  WaitRight'
  BY DEF WaitRight, Waited

LEMMA BroadcastFrame ==
    ASSUME BroadcastRight, UNCHANGED <<slow, stepped, last_check, quiet, elapsed, tpc, slept>>
    PROVE  BroadcastRight'
  BY DEF BroadcastRight

-----------------------------------------------------------------------------
(* A look at the clock, by a driver or by the timer thread. *)
LEMMA LookRight ==
    ASSUME TimerInv, get_jiffies_64, UNCHANGED <<timeVars, headVars>>,
           last_jiffies' = last_jiffies \/ last_jiffies' = jiffies'
    PROVE  /\ ClockRight'
           /\ nsec' \in 0..(SEC - 1) /\ rem' \in 0..(DIV - 1) /\ jiffies' \in Nat /\ gap' = 0
           /\ jiffies' = JiffiesNow /\ last_jiffies' \in Nat
           /\ stepped = 0 => jiffies' * DIV <= elapsed
           /\ stepped = 0 /\ ~late => elapsed < (jiffies' + 1) * DIV
  <1>1. TimerTypeOK /\ ClockRight /\ UNCHANGED <<elapsed, offset, late, slow, stepped, quiet>>
    BY DEF TimerInv, timeVars
  <1>2. /\ elapsed \in Nat /\ jiffies \in Nat /\ last_jiffies \in Nat /\ last_jiffies <= jiffies
        /\ stepped = 0 => offset = 0
    BY <1>1 DEF TimerTypeOK, ClockRight
  <1>3. /\ nsec' \in 0..(SEC - 1) /\ rem' \in 0..(DIV - 1) /\ jiffies' \in Nat /\ gap' = 0
        /\ jiffies <= jiffies' /\ jiffies' = JiffiesNow
        /\ stepped = 0 => /\ nsec' = (elapsed - gap') % SEC
                          /\ jiffies' * DIV <= elapsed
                          /\ Counted' <= elapsed'
                          /\ ~late => Counted' = elapsed' /\ elapsed < (jiffies' + 1) * DIV
    BY <1>1, ClockStep
  <1>4. last_jiffies' \in Nat /\ last_jiffies' <= jiffies'
    BY <1>2, <1>3
  <1>5. 0 < SEC /\ SEC \in Nat
    BY ConstantsRight
  <1>6. ClockRight'
    BY <1>1, <1>2, <1>3, <1>4, <1>5 DEF ClockRight
  <1> QED
    BY <1>3, <1>4, <1>6

LEMMA ReadJiffiesKeeps ==
    ASSUME TimerInv, ReadJiffies
    PROVE  TimerInv'
  <1>1. /\ get_jiffies_64
        /\ UNCHANGED <<timeVars, headVars, expires, since, adding, threadVars, needed>>
    BY DEF ReadJiffies
  <1>2. UNCHANGED <<elapsed, offset, late, slow, stepped, quiet, timer_head, linked,
                    tpc, last_jiffies, last_check, cur, ms_delay, slept>>
    BY <1>1 DEF timeVars, headVars, threadVars
  <1>3. /\ ClockRight' /\ gap' = 0
        /\ nsec' \in 0..(SEC - 1) /\ rem' \in 0..(DIV - 1) /\ jiffies' \in Nat
    BY <1>1, <1>2, LookRight
  <1>4. TimerTypeOK'
    BY <1>1, <1>2, <1>3 DEF TimerInv, TimerTypeOK
  <1>5. PaceRight'
    BY <1>2, <1>3, ConstantsRight DEF TimerInv, TimerTypeOK, PaceRight
  <1> QED
    BY <1>1, <1>2, <1>3, <1>4, <1>5, LinkedFrame, AddingFrame, NowFrame, WaitFrame,
       BroadcastFrame DEF TimerInv

LEMMA TimerStartsKeeps ==
    ASSUME TimerInv, TimerStarts
    PROVE  TimerInv'
  <1>1. /\ get_jiffies_64 /\ tpc = "start" /\ tpc' = "loop" /\ last_check' = JiffiesNow
        /\ UNCHANGED <<timeVars, headVars, expires, since, adding, last_jiffies, cur, ms_delay,
                       slept, needed>>
    BY DEF TimerStarts
  <1>2. UNCHANGED <<elapsed, offset, late, slow, stepped, quiet, timer_head, linked>>
    BY <1>1 DEF timeVars, headVars
  <1>3. /\ ClockRight' /\ gap' = 0 /\ jiffies' = JiffiesNow
        /\ nsec' \in 0..(SEC - 1) /\ rem' \in 0..(DIV - 1) /\ jiffies' \in Nat
        /\ stepped = 0 => jiffies' * DIV <= elapsed
    BY <1>1, <1>2, LookRight
  <1>4. TimerTypeOK'
    BY <1>1, <1>2, <1>3 DEF TimerInv, TimerTypeOK
  <1>5. PaceRight' /\ NowRight'
    BY <1>1, <1>2, <1>3, ConstantsRight DEF TimerInv, TimerTypeOK, PaceRight, NowRight
  <1>6. BroadcastRight'
    <2>1. jiffies' * DIV \in Int
      BY <1>3, ConstantsRight
    <2> QED
      BY <1>1, <1>2, <1>3, <2>1 DEF TimerInv, BroadcastRight
  <1> QED
    BY <1>1, <1>2, <1>3, <1>4, <1>5, <1>6, LinkedFrame, AddingFrame, WaitFrame DEF TimerInv

LEMMA ReadClockKeeps ==
    ASSUME TimerInv, ReadClock
    PROVE  TimerInv'
  <1>1. /\ get_jiffies_64 /\ tpc = "loop" /\ tpc' = "scan" /\ last_jiffies' = JiffiesNow
        /\ UNCHANGED <<timeVars, headVars, expires, since, adding, last_check, cur, ms_delay,
                       slept, needed>>
    BY DEF ReadClock
  <1>2. UNCHANGED <<elapsed, offset, late, slow, stepped, quiet, timer_head, linked>>
    BY <1>1 DEF timeVars, headVars
  <1>3. /\ ClockRight' /\ gap' = 0 /\ jiffies' = JiffiesNow /\ last_jiffies' \in Nat
        /\ nsec' \in 0..(SEC - 1) /\ rem' \in 0..(DIV - 1) /\ jiffies' \in Nat
        /\ stepped = 0 /\ ~late => elapsed < (jiffies' + 1) * DIV
    <2>1. jiffies' = JiffiesNow
      BY <1>1 DEF get_jiffies_64
    <2> QED
      BY <1>1, <1>2, <2>1, LookRight
  <1>4. TimerTypeOK'
    BY <1>1, <1>2, <1>3 DEF TimerInv, TimerTypeOK
  <1>5. PaceRight'
    BY <1>1, <1>2, <1>3, ConstantsRight DEF TimerInv, TimerTypeOK, PaceRight
  <1>6. NowRight'
    BY <1>1, <1>2, <1>3 DEF TimerInv, PaceRight, NowRight
  <1>7. BroadcastRight'
    BY <1>1, <1>2 DEF TimerInv, BroadcastRight
  <1> QED
    BY <1>1, <1>2, <1>3, <1>4, <1>5, <1>6, <1>7, LinkedFrame, AddingFrame, WaitFrame
       DEF TimerInv

-----------------------------------------------------------------------------
(* Time passes. *)
LEMMA TickKeeps ==
    ASSUME TimerInv, Tick
    PROVE  TimerInv'
  <1>1. /\ elapsed' = elapsed + 1 /\ gap' = gap + 1 /\ quiet' = quiet + 1
        /\ slept' = IF tpc = "sleep" THEN slept + 1 ELSE slept
        /\ UNCHANGED <<offset, stepped, nsec, rem, jiffies, headVars, expires, since,
                       adding, tpc, last_jiffies, last_check, cur, ms_delay, needed>>
    BY DEF Tick
  <1>2. tpc = "run" \/ (tpc = "sleep" /\ slept < ms_delay)
    BY DEF Tick
  <1>3. UNCHANGED <<timer_head, linked>>
    BY <1>1 DEF headVars
  <1>4. /\ elapsed \in Nat /\ gap \in Nat /\ quiet \in Nat /\ slept \in Nat /\ jiffies \in Nat
        /\ rem \in Nat /\ last_check \in Nat /\ ms_delay \in Nat /\ ms_delay <= RELAX
        /\ late \in BOOLEAN /\ slow \in BOOLEAN
        /\ SEC \in Nat /\ DIV \in Nat /\ RELAX \in Nat /\ RELAX < SEC
    BY ConstantsRight DEF TimerInv, TimerTypeOK
  <1>11. /\ slow' \in BOOLEAN /\ late' \in BOOLEAN
         /\ ~slow' => ~slow /\ tpc # "run"
         /\ ~late' => ~late /\ ~(gap + 1 >= SEC)
         /\ ~late /\ ~(gap + 1 >= SEC) => ~late'
    BY Zenon DEF Tick
  <1>5. TimerTypeOK'
    BY <1>1, <1>3, <1>4, <1>11 DEF TimerInv, TimerTypeOK
  <1>6. ClockRight'
    <2>1. jiffies * DIV \in Int
      BY <1>4
    <2>2. /\ elapsed' - gap' = elapsed - gap
          /\ Counted' = Counted + 1 /\ Counted \in Int
      BY <1>1, <1>4, <2>1 DEF Counted
    <2>3. ~late' => ~late /\ gap' < SEC
      <3>1. ~(gap + 1 >= SEC) => gap' < SEC
        BY <1>1, <1>4
      <3> QED
        BY <1>11, <3>1, Zenon
    <2> QED
      BY <1>1, <1>4, <2>2, <2>3 DEF TimerInv, ClockRight
  <1>7. PaceRight'
    <2>1. tpc = "sleep" => slept' = slept + 1 /\ slept' <= ms_delay
      BY <1>1, <1>2, <1>4
    <2>2. ASSUME ~slow'
          PROVE  ~late' /\ tpc = "sleep" /\ gap' <= slept'
      <3>1. ~slow /\ tpc = "sleep" /\ ~late /\ gap <= slept
        BY <1>2, <1>11, <2>2 DEF TimerInv, PaceRight
      <3>2. gap' <= slept' /\ ~(gap + 1 >= SEC)
        BY <1>1, <1>4, <2>1, <3>1
      <3> QED
        BY <1>11, <3>1, <3>2, Zenon
    <2>3. tpc' = tpc /\ ms_delay' = ms_delay
      BY <1>1
    <2> QED
      BY <2>1, <2>2, <2>3 DEF PaceRight
  <1>8. NowRight'
    BY <1>1, <1>2, <1>11 DEF NowRight
  <1>9. WaitRight'
    <2> SUFFICES ASSUME ~slow', stepped' = 0, NEW u \in Timers, linked'[u]
                 PROVE  Waited(u, IF tpc = "sleep" THEN slept ELSE RELAX)'
      BY DEF WaitRight
    <2>1. tpc = "sleep" /\ tpc' = "sleep" /\ slept' = slept + 1 /\ ~slow /\ stepped = 0
      BY <1>1, <1>2, <1>11
    <2>2. Waited(u, slept)
      BY <1>3, <2>1 DEF TimerInv, WaitRight
    <2>3. since[u] \in Nat /\ (expires[u] + 1) * DIV \in Int
      BY <1>4 DEF TimerInv, TimerTypeOK
    <2> QED
      BY <1>1, <1>4, <2>1, <2>2, <2>3 DEF Waited
  <1>10. BroadcastRight'
    <2>1. last_check * DIV \in Int
      BY <1>4
    <2> SUFFICES ASSUME ~slow', stepped' = 0
                 PROVE  /\ last_check * DIV + quiet' <= elapsed'
                        /\ quiet' < SEC + slept' /\ quiet' < SEC + RELAX
      BY <1>1, <1>2, <1>11 DEF BroadcastRight
    <2>2. tpc = "sleep" /\ last_check * DIV + quiet <= elapsed /\ quiet < SEC + slept
      BY <1>1, <1>2, <1>11 DEF TimerInv, BroadcastRight
    <2> QED
      BY <1>1, <1>2, <1>4, <2>1, <2>2
  <1> QED
    BY <1>1, <1>3, <1>5, <1>6, <1>7, <1>8, <1>9, <1>10, LinkedFrame, AddingFrame DEF TimerInv

(* Somebody sets the wall clock: nothing is claimed of true time any more. *)
LEMMA SetClockKeeps ==
    ASSUME TimerInv, NEW o \in 0..(SEC - 1), SetClock(o)
    PROVE  TimerInv'
  <1>1. /\ offset' = o /\ stepped' = stepped + 1
        /\ UNCHANGED <<elapsed, late, slow, quiet, clockVars, headVars, expires, since,
                       adding, threadVars, needed>>
    BY DEF SetClock
  <1>2. UNCHANGED <<nsec, rem, jiffies, gap, timer_head, linked,
                    tpc, last_jiffies, last_check, cur, ms_delay, slept>>
    BY <1>1 DEF clockVars, headVars, threadVars
  <1>3. stepped' \in Nat /\ stepped' # 0 /\ offset' \in Int
    BY <1>1, ConstantsRight DEF TimerInv, TimerTypeOK
  <1>4. TimerTypeOK'
    BY <1>1, <1>2, <1>3 DEF TimerInv, TimerTypeOK
  <1>5. ClockRight' /\ NowRight' /\ WaitRight' /\ BroadcastRight'
    BY <1>2, <1>3 DEF TimerInv, ClockRight, NowRight, WaitRight, BroadcastRight
  <1> QED
    BY <1>1, <1>2, <1>4, <1>5, LinkedFrame, AddingFrame, PaceFrame DEF TimerInv

-----------------------------------------------------------------------------
(* The list.  del_timer() leaves the timer off the list, and the others as *)
(* they were.                                                              *)
LEMMA UnlinkRight ==
    ASSUME TimerInv, NEW u \in Timers, linked[u], Unlink(u)
    PROVE  /\ timer_head' \in Seq(Timers) /\ linked' = [linked EXCEPT ![u] = FALSE]
           /\ LinkedOnce'
  <1>1. /\ timer_head \in Seq(Timers) /\ linked \in [Timers -> BOOLEAN] /\ u \in ToSet(timer_head)
        /\ \A m, n \in DOMAIN timer_head : timer_head[m] = timer_head[n] => m = n
        /\ \A w \in Timers : linked[w] <=> w \in ToSet(timer_head)
    BY DEF TimerInv, TimerTypeOK, LinkedOnce
  <1> DEFINE b == Off(timer_head, u)
  <1>2. /\ b \in Seq(Timers) /\ ToSet(b) = ToSet(timer_head) \ {u}
        /\ \A m, n \in DOMAIN b : b[m] = b[n] => m = n
    BY <1>1, OffRight DEF Off
  <1>3. timer_head' = b /\ linked' = [linked EXCEPT ![u] = FALSE]
    BY DEF Unlink
  <1> HIDE DEF b
  <1>4. \A w \in Timers : linked'[w] <=> w \in ToSet(b)
    BY <1>1, <1>2, <1>3
  <1> QED
    BY <1>2, <1>3, <1>4 DEF LinkedOnce

LEMMA DeleteRight ==
    ASSUME TimerInv, NEW u \in Timers, del_timer(u)
    PROVE  /\ timer_head' \in Seq(Timers) /\ linked' \in [Timers -> BOOLEAN]
           /\ ~linked'[u] /\ \A w \in Timers : linked'[w] => linked[w]
           /\ LinkedOnce'
  <1>1. linked \in [Timers -> BOOLEAN] /\ timer_head \in Seq(Timers)
    BY DEF TimerInv, TimerTypeOK
  <1>2. CASE linked[u]
    <2>1. timer_head' \in Seq(Timers) /\ linked' = [linked EXCEPT ![u] = FALSE] /\ LinkedOnce'
      BY <1>2, UnlinkRight DEF del_timer
    <2> QED
      BY <1>1, <2>1
  <1>3. CASE ~linked[u]
    <2>1. UNCHANGED headVars
      BY <1>3 DEF del_timer
    <2>2. LinkedOnce'
      BY <2>1, LinkedFrame DEF TimerInv
    <2> QED
      BY <1>1, <1>3, <2>1, <2>2 DEF headVars
  <1> QED
    BY <1>2, <1>3

LEMMA DelTimerKeeps ==
    ASSUME TimerInv, NEW p \in Callers, NEW u \in Timers, DelTimer(p, u)
    PROVE  TimerInv'
  <1>1. /\ del_timer(u)
        /\ UNCHANGED <<timeVars, clockVars, expires, since, adding, threadVars, needed>>
    BY DEF DelTimer
  <1>2. UNCHANGED <<elapsed, offset, late, slow, stepped, quiet, nsec, rem, jiffies, gap,
                    tpc, last_jiffies, last_check, cur, ms_delay, slept>>
    BY <1>1 DEF timeVars, clockVars, threadVars
  <1>3. /\ timer_head' \in Seq(Timers) /\ linked' \in [Timers -> BOOLEAN]
        /\ \A w \in Timers : linked'[w] => linked[w]
        /\ LinkedOnce'
    BY <1>1, DeleteRight
  <1>4. TimerTypeOK'
    BY <1>1, <1>2, <1>3 DEF TimerInv, TimerTypeOK
  <1>5. AddingRight'
    BY <1>1, <1>3 DEF TimerInv, TimerTypeOK, AddingRight
  <1>6. WaitRight'
    BY <1>1, <1>2, <1>3 DEF TimerInv, WaitRight, Waited
  <1> QED
    BY <1>1, <1>2, <1>3, <1>4, <1>5, <1>6, ClockFrame, PaceFrame, NowFrame, BroadcastFrame
       DEF TimerInv

LEMMA AddTimerKeeps ==
    ASSUME TimerInv, NEW p \in Callers, NEW u \in Timers, NEW e \in Times, AddTimer(p, u, e)
    PROVE  TimerInv'
  <1>1. /\ del_timer(u) /\ adding[p] = NoTimer /\ \A q \in Callers : adding[q] # u
        /\ expires' = [expires EXCEPT ![u] = e] /\ since' = [since EXCEPT ![u] = elapsed]
        /\ adding' = [adding EXCEPT ![p] = u]
        /\ UNCHANGED <<timeVars, clockVars, threadVars, needed>>
    BY DEF AddTimer, CanCall
  <1>2. UNCHANGED <<elapsed, offset, late, slow, stepped, quiet, nsec, rem, jiffies, gap,
                    tpc, last_jiffies, last_check, cur, ms_delay, slept>>
    BY <1>1 DEF timeVars, clockVars, threadVars
  <1>3. /\ timer_head' \in Seq(Timers) /\ linked' \in [Timers -> BOOLEAN]
        /\ ~linked'[u] /\ \A w \in Timers : linked'[w] => linked[w]
        /\ LinkedOnce'
    BY <1>1, DeleteRight
  <1>4. e \in Nat /\ elapsed \in Nat /\ adding \in [Callers -> Timers \cup {NoTimer}]
    BY DEF TimerInv, TimerTypeOK, Times
  <1>5. TimerTypeOK'
    BY <1>1, <1>2, <1>3, <1>4 DEF TimerInv, TimerTypeOK
  <1>6. AddingRight'
    BY <1>1, <1>3, <1>4, TimerAssumption DEF TimerInv, AddingRight
  <1>7. WaitRight'
    <2> SUFFICES ASSUME ~slow', stepped' = 0, NEW w \in Timers, linked'[w]
                 PROVE  Waited(w, IF tpc = "sleep" THEN slept ELSE RELAX)'
      BY DEF WaitRight
    <2>1. w # u /\ linked[w] /\ expires'[w] = expires[w] /\ since'[w] = since[w]
      BY <1>1, <1>3 DEF TimerInv, TimerTypeOK
    <2>2. Waited(w, IF tpc = "sleep" THEN slept ELSE RELAX)
      BY <1>2, <2>1 DEF TimerInv, WaitRight
    <2> QED
      BY <1>2, <2>1, <2>2 DEF Waited
  <1> QED
    BY <1>1, <1>2, <1>3, <1>5, <1>6, <1>7, ClockFrame, PaceFrame, NowFrame, BroadcastFrame
       DEF TimerInv

LEMMA InsertTimerKeeps ==
    ASSUME TimerInv, NEW p \in Callers, InsertTimer(p)
    PROVE  TimerInv'
  <1> DEFINE u == adding[p]
  <1>1. /\ u # NoTimer
        /\ timer_head' = Append(timer_head, u) /\ linked' = [linked EXCEPT ![u] = TRUE]
        /\ since' = [since EXCEPT ![u] = elapsed] /\ adding' = [adding EXCEPT ![p] = NoTimer]
        /\ UNCHANGED <<timeVars, clockVars, expires, threadVars, needed>>
    BY DEF InsertTimer
  <1>2. UNCHANGED <<elapsed, offset, late, slow, stepped, quiet, nsec, rem, jiffies, gap,
                    tpc, last_jiffies, last_check, cur, ms_delay, slept>>
    BY <1>1 DEF timeVars, clockVars, threadVars
  <1>3. /\ timer_head \in Seq(Timers) /\ linked \in [Timers -> BOOLEAN] /\ elapsed \in Nat
        /\ adding \in [Callers -> Timers \cup {NoTimer}] /\ since \in [Timers -> Nat]
        /\ \A m, n \in DOMAIN timer_head : timer_head[m] = timer_head[n] => m = n
        /\ \A w \in Timers : linked[w] <=> w \in ToSet(timer_head)
    BY DEF TimerInv, TimerTypeOK, LinkedOnce
  <1>4. u \in Timers /\ ~linked[u] /\ u \notin ToSet(timer_head)
        /\ \A q \in Callers : q # p => adding[q] # u
    BY <1>1, <1>3 DEF TimerInv, AddingRight
  <1> DEFINE b == Append(timer_head, u)
  <1>5. /\ b \in Seq(Timers) /\ ToSet(b) = ToSet(timer_head) \cup {u}
        /\ \A m, n \in DOMAIN b : b[m] = b[n] => m = n
    BY <1>3, <1>4, AppendRight
  <1>6. timer_head' = b
    BY <1>1
  <1> HIDE DEF b, u
  <1>7. LinkedOnce'
    <2>1. \A w \in Timers : linked'[w] <=> w \in ToSet(b)
      BY <1>1, <1>3, <1>4, <1>5
    <2> QED
      BY <1>5, <1>6, <2>1 DEF LinkedOnce
  <1>8. TimerTypeOK'
    <2>1. linked' \in [Timers -> BOOLEAN] /\ since' \in [Timers -> Nat]
          /\ adding' \in [Callers -> Timers \cup {NoTimer}]
      BY <1>1, <1>3, <1>4
    <2> QED
      BY <1>1, <1>2, <1>5, <1>6, <2>1 DEF TimerInv, TimerTypeOK
  <1>9. AddingRight'
    <2>1. \A q \in Callers : adding'[q] # NoTimer => q # p /\ adding'[q] = adding[q]
      BY <1>1, <1>3
    <2> QED
      BY <1>1, <1>3, <1>4, <2>1 DEF TimerInv, AddingRight
  <1>10. WaitRight'
    <2> SUFFICES ASSUME ~slow', stepped' = 0, NEW w \in Timers, linked'[w]
                 PROVE  Waited(w, IF tpc = "sleep" THEN slept ELSE RELAX)'
      BY DEF WaitRight
    <2>1. CASE w = u
      BY <1>1, <1>2, <1>3, <2>1, ConstantsRight DEF TimerInv, TimerTypeOK, Waited
    <2>2. CASE w # u
      <3>1. linked[w] /\ expires'[w] = expires[w] /\ since'[w] = since[w]
        BY <1>1, <1>3, <2>2
      <3>2. Waited(w, IF tpc = "sleep" THEN slept ELSE RELAX)
        BY <1>2, <3>1 DEF TimerInv, WaitRight
      <3> QED
        BY <1>2, <3>1, <3>2 DEF Waited
    <2> QED
      BY <2>1, <2>2
  <1> QED
    BY <1>1, <1>2, <1>7, <1>8, <1>9, <1>10, ClockFrame, PaceFrame, NowFrame, BroadcastFrame
       DEF TimerInv

LEMMA ModTimerKeeps ==
    ASSUME TimerInv, NEW p \in Callers, NEW u \in Timers, NEW e \in Times, mod_timer(p, u, e)
    PROVE  TimerInv'
  <1>1. /\ expires' = [expires EXCEPT ![u] = e] /\ since' = [since EXCEPT ![u] = elapsed]
        /\ UNCHANGED <<timeVars, clockVars, headVars, adding, threadVars, needed>>
    BY DEF mod_timer
  <1>2. UNCHANGED <<elapsed, offset, late, slow, stepped, quiet, nsec, rem, jiffies, gap,
                    timer_head, linked, tpc, last_jiffies, last_check, cur, ms_delay, slept>>
    BY <1>1 DEF timeVars, clockVars, headVars, threadVars
  <1>3. e \in Nat /\ elapsed \in Nat /\ since \in [Timers -> Nat] /\ expires \in [Timers -> Nat]
    BY DEF TimerInv, TimerTypeOK, Times
  <1>4. TimerTypeOK'
    BY <1>1, <1>2, <1>3 DEF TimerInv, TimerTypeOK
  <1>5. WaitRight'
    <2> SUFFICES ASSUME ~slow', stepped' = 0, NEW w \in Timers, linked'[w]
                 PROVE  Waited(w, IF tpc = "sleep" THEN slept ELSE RELAX)'
      BY DEF WaitRight
    <2>1. CASE w = u
      BY <1>1, <1>2, <1>3, <2>1, ConstantsRight DEF TimerInv, TimerTypeOK, Waited
    <2>2. CASE w # u
      <3>1. linked[w] /\ expires'[w] = expires[w] /\ since'[w] = since[w]
        BY <1>1, <1>2, <1>3, <2>2
      <3>2. Waited(w, IF tpc = "sleep" THEN slept ELSE RELAX)
        BY <1>2, <3>1 DEF TimerInv, WaitRight
      <3> QED
        BY <1>2, <3>1, <3>2 DEF Waited
    <2> QED
      BY <2>1, <2>2
  <1> QED
    BY <1>1, <1>2, <1>4, <1>5, LinkedFrame, AddingFrame, ClockFrame, PaceFrame, NowFrame,
       BroadcastFrame DEF TimerInv

-----------------------------------------------------------------------------
(* The thread leaves its sleep, at its end or by a signal. *)
LEMMA LeaveSleep ==
    ASSUME TimerInv, tpc = "sleep", tpc' = "loop",
           UNCHANGED <<slept, ms_delay, slow, late, gap, stepped, elapsed, last_jiffies, linked,
                       since, expires, last_check, quiet>>
    PROVE  PaceRight' /\ NowRight' /\ WaitRight' /\ BroadcastRight'
  <1>1. /\ slept \in Nat /\ ms_delay \in Nat /\ ms_delay <= RELAX /\ RELAX \in Nat
        /\ gap \in Nat /\ elapsed \in Nat /\ slept <= ms_delay
        /\ ~slow => ~late /\ gap <= slept
    BY ConstantsRight DEF TimerInv, TimerTypeOK, PaceRight
  <1>2. PaceRight'
    BY <1>1 DEF PaceRight
  <1>3. NowRight'
    BY DEF NowRight
  <1>4. WaitRight'
    <2> SUFFICES ASSUME ~slow, stepped = 0, NEW w \in Timers, linked[w]
                 PROVE  Waited(w, RELAX)
      BY DEF WaitRight, Waited
    <2>1. Waited(w, slept)
      BY DEF TimerInv, WaitRight
    <2>2. since[w] \in Nat /\ (expires[w] + 1) * DIV \in Int
      BY ConstantsRight DEF TimerInv, TimerTypeOK
    <2> QED
      BY <1>1, <2>1, <2>2 DEF Waited
  <1>5. BroadcastRight'
    BY DEF TimerInv, BroadcastRight
  <1> QED
    BY <1>2, <1>3, <1>4, <1>5

LEMMA WakesKeeps ==
    ASSUME TimerInv, Wakes
    PROVE  TimerInv'
  <1>1. /\ tpc = "sleep" /\ tpc' = "loop"
        /\ UNCHANGED <<timeVars, clockVars, headVars, expires, since, adding, last_jiffies,
                       last_check, cur, ms_delay, slept, needed>>
    BY DEF Wakes
  <1>2. UNCHANGED <<elapsed, offset, late, slow, stepped, quiet, nsec, rem, jiffies, gap,
                    timer_head, linked>>
    BY <1>1 DEF timeVars, clockVars, headVars
  <1>3. TimerTypeOK'
    BY <1>1, <1>2 DEF TimerInv, TimerTypeOK
  <1>4. PaceRight' /\ NowRight' /\ WaitRight' /\ BroadcastRight'
    BY <1>1, <1>2, LeaveSleep
  <1> QED
    BY <1>1, <1>2, <1>3, <1>4, LinkedFrame, AddingFrame, ClockFrame DEF TimerInv

LEMMA NeedTimerKeeps ==
    ASSUME TimerInv, NEW on \in BOOLEAN, need_timer(on)
    PROVE  TimerInv'
  <1>1. /\ needed' = needed + 1 \/ (needed > 0 /\ needed' = needed - 1)
        /\ tpc' = tpc \/ (tpc = "sleep" /\ tpc' = "loop")
        /\ UNCHANGED <<timeVars, clockVars, headVars, expires, since, adding, last_jiffies,
                       last_check, cur, ms_delay, slept>>
    BY DEF need_timer
  <1>2. UNCHANGED <<elapsed, offset, late, slow, stepped, quiet, nsec, rem, jiffies, gap,
                    timer_head, linked>>
    BY <1>1 DEF timeVars, clockVars, headVars
  <1>3. needed' \in Nat
    BY <1>1 DEF TimerInv, TimerTypeOK
  <1>4. TimerTypeOK'
    BY <1>1, <1>2, <1>3 DEF TimerInv, TimerTypeOK
  <1>5. PaceRight' /\ NowRight' /\ WaitRight' /\ BroadcastRight'
    <2>1. CASE tpc' = tpc
      BY <1>1, <1>2, <2>1, PaceFrame, NowFrame, WaitFrame, BroadcastFrame DEF TimerInv
    <2>2. CASE tpc = "sleep" /\ tpc' = "loop"
      BY <1>1, <1>2, <2>2, LeaveSleep
    <2> QED
      BY <1>1, <2>1, <2>2
  <1> QED
    BY <1>1, <1>2, <1>4, <1>5, LinkedFrame, AddingFrame, ClockFrame DEF TimerInv

(* The search of the list: what it takes off has expired, and before the   *)
(* thread sleeps nothing on the list has.                                  *)
LEMMA ScanRight ==
    ASSUME TimerInv, Scan
    PROVE  /\ timer_head' \in Seq(Timers) /\ linked' \in [Timers -> BOOLEAN] /\ LinkedOnce'
           /\ \A w \in Timers : linked'[w] => linked[w]
           /\ cur' \in Timers \cup {NoTimer} /\ slept' \in Nat
           /\ \/ tpc' = "run" /\ cur' \in Timers /\ Expired(cur')
              \/ tpc' = "sleep" /\ slept' = 0 /\ \A w \in Timers : linked'[w] => ~Expired(w)
  <1>1. /\ timer_head \in Seq(Timers) /\ linked \in [Timers -> BOOLEAN] /\ slept \in Nat
        /\ \A w \in Timers : linked[w] <=> w \in ToSet(timer_head)
    BY DEF TimerInv, TimerTypeOK, LinkedOnce
  <1>2. CASE \E w \in ToSet(timer_head) : Expired(w)
    <2> DEFINE I == {i \in 1..Len(timer_head) : Expired(timer_head[i])}
               k == SelectInSeq(timer_head, Expired)
               u == timer_head[k]
    <2>1. DOMAIN timer_head = 1..Len(timer_head) /\ Len(timer_head) \in Nat
      BY <1>1, LenProperties
    <2>2. I # {} /\ I \in SUBSET Nat
      BY <1>2, <2>1 DEF ToSet
    <2>3. k = Min(I)
      BY <2>2 DEF SelectInSeq
    <2> HIDE DEF k
    <2>4. k \in I
      BY <2>2, <2>3, LeastRight
    <2>5. u \in Timers /\ u \in ToSet(timer_head) /\ Expired(u)
      BY <1>1, <2>1, <2>4, ElementOfSeq DEF ToSet
    <2>6. cur' = u /\ Unlink(u) /\ tpc' = "run" /\ slept' = slept
      BY <1>2 DEF Scan, k
    <2> HIDE DEF u
    <2>7. timer_head' \in Seq(Timers) /\ linked' = [linked EXCEPT ![u] = FALSE] /\ LinkedOnce'
      BY <1>1, <2>5, <2>6, UnlinkRight
    <2> QED
      BY <1>1, <2>5, <2>6, <2>7
  <1>3. CASE ~\E w \in ToSet(timer_head) : Expired(w)
    <2>1. tpc' = "sleep" /\ cur' = NoTimer /\ slept' = 0 /\ UNCHANGED headVars
      BY <1>3 DEF Scan
    <2>2. LinkedOnce'
      BY <2>1, LinkedFrame DEF TimerInv
    <2> QED
      BY <1>1, <1>3, <2>1, <2>2 DEF headVars
  <1> QED
    BY <1>2, <1>3

(* Waiting: nothing on the list has expired when the thread goes to sleep. *)
LEMMA SearchedRight ==
    ASSUME TimerInv, Scan, tpc \in {"scan", "run"},
           UNCHANGED <<elapsed, slow, stepped, since, expires, last_jiffies>>
    PROVE  WaitRight'
  <1>1. /\ \A w \in Timers : linked'[w] => linked[w]
        /\ \/ tpc' = "run"
           \/ tpc' = "sleep" /\ slept' = 0 /\ \A w \in Timers : linked'[w] => ~Expired(w)
    BY ScanRight
  <1>2. ASSUME ~slow', stepped' = 0, NEW w \in Timers, linked'[w]
        PROVE  Waited(w, IF tpc = "sleep" THEN slept ELSE RELAX)'
    <2>1. CASE tpc' = "run"
      <3>1. Waited(w, RELAX)
        BY <1>1, <1>2 DEF TimerInv, WaitRight
      <3> QED
        BY <2>1, <3>1 DEF Waited
    <2>2. CASE tpc' = "sleep" /\ slept' = 0 /\ ~Expired(w)
      <3>1. /\ elapsed \in Nat /\ last_jiffies \in Nat /\ expires[w] \in Nat /\ DIV \in Nat \ {0}
            /\ elapsed < (last_jiffies + 1) * DIV
        BY <1>2, ConstantsRight DEF TimerInv, TimerTypeOK, NowRight
      <3>2. last_jiffies + 1 \in Int /\ expires[w] + 1 \in Int /\ last_jiffies + 1 <= expires[w] + 1
        BY <2>2, <3>1 DEF Expired
      <3>3. /\ (last_jiffies + 1) * DIV <= (expires[w] + 1) * DIV
            /\ (last_jiffies + 1) * DIV \in Int /\ (expires[w] + 1) * DIV \in Int
        BY <3>1, <3>2, Grows
      <3>4. elapsed <= (expires[w] + 1) * DIV + 0
        BY <3>1, <3>3
      <3> QED
        BY <2>2, <3>4 DEF Waited
    <2> QED
      BY <1>1, <1>2, <2>1, <2>2
  <1> QED
    BY <1>2 DEF WaitRight

LEMMA FunctionReturnsKeeps ==
    ASSUME TimerInv, FunctionReturns
    PROVE  TimerInv'
  <1>1. /\ tpc = "run" /\ Scan
        /\ UNCHANGED <<timeVars, clockVars, expires, since, adding, last_jiffies, last_check,
                       ms_delay, needed>>
    BY DEF FunctionReturns
  <1>2. UNCHANGED <<elapsed, offset, late, slow, stepped, quiet, nsec, rem, jiffies, gap>>
    BY <1>1 DEF timeVars, clockVars
  <1>3. /\ timer_head' \in Seq(Timers) /\ linked' \in [Timers -> BOOLEAN] /\ LinkedOnce'
        /\ \A w \in Timers : linked'[w] => linked[w]
        /\ cur' \in Timers \cup {NoTimer} /\ slept' \in Nat
        /\ tpc' = "run" \/ (tpc' = "sleep" /\ slept' = 0)
    BY <1>1, ScanRight
  <1>4. TimerTypeOK'
    BY <1>1, <1>2, <1>3 DEF TimerInv, TimerTypeOK
  <1>5. AddingRight'
    BY <1>1, <1>3 DEF TimerInv, TimerTypeOK, AddingRight
  <1>6. PaceRight'
    BY <1>1, <1>2, <1>3, ConstantsRight DEF TimerInv, TimerTypeOK, PaceRight
  <1>7. NowRight'
    BY <1>1, <1>2, <1>3 DEF TimerInv, NowRight
  <1>8. WaitRight'
    BY <1>1, <1>2, SearchedRight
  <1>9. BroadcastRight'
    <2> SUFFICES ASSUME ~slow, stepped = 0
                 PROVE  /\ last_check * DIV + quiet <= elapsed
                        /\ quiet < SEC /\ (tpc' = "sleep" => quiet < SEC + slept')
                        /\ quiet < SEC + RELAX
      BY <1>1, <1>2, <1>3 DEF BroadcastRight
    <2>1. last_check * DIV + quiet <= elapsed /\ quiet < SEC /\ quiet < SEC + RELAX
      BY <1>1 DEF TimerInv, BroadcastRight
    <2>2. quiet \in Nat /\ SEC \in Nat
      BY ConstantsRight DEF TimerInv, TimerTypeOK
    <2>3. slept' \in Nat /\ (tpc' = "sleep" => slept' = 0)
      BY <1>3
    <2>4. RELAX \in Nat
      BY ConstantsRight
    <2>5. tpc' = "sleep" => quiet < SEC + slept'
      BY <2>1, <2>2, <2>3
    <2> QED
      BY <2>1, <2>5
  <1> QED
    BY <1>1, <1>2, <1>3, <1>4, <1>5, <1>6, <1>7, <1>8, <1>9, ClockFrame DEF TimerInv

(* The broadcast: when it is not due, the last was less than a second ago. *)
LEMMA BroadcastStep ==
    ASSUME TimerInv, tpc = "scan", ~slow, stepped = 0,
           last_check' = IF BroadcastDue THEN last_jiffies ELSE last_check,
           quiet' = IF BroadcastDue THEN 0 ELSE quiet
    PROVE  last_check' * DIV + quiet' <= elapsed /\ quiet' < SEC
  <1>1. /\ elapsed \in Nat /\ last_jiffies \in Nat /\ last_check \in Nat /\ quiet \in Nat
        /\ jiffies \in Nat /\ rem \in Nat /\ gap \in Nat
        /\ last_jiffies <= jiffies /\ jiffies * DIV + rem + gap <= elapsed
        /\ elapsed < (last_jiffies + 1) * DIV
        /\ last_check * DIV + quiet <= elapsed
    BY ConstantsRight DEF TimerInv, TimerTypeOK, ClockRight, Counted, NowRight, BroadcastRight
  <1>2. DIV \in Nat \ {0} /\ SEC \in Nat \ {0} /\ HZ \in Nat /\ HZ * DIV = SEC
    BY ConstantsRight
  <1>3. CASE BroadcastDue
    <2>1. last_jiffies * DIV <= jiffies * DIV /\ last_jiffies * DIV \in Int /\ jiffies * DIV \in Int
      BY <1>1, <1>2, Grows
    <2>2. last_check' = last_jiffies /\ quiet' = 0
      BY <1>3
    <2> QED
      BY <1>1, <1>2, <2>1, <2>2
  <1>4. CASE ~BroadcastDue
    <2>1. last_jiffies + 1 <= last_check + HZ
      BY <1>1, <1>2, <1>4 DEF BroadcastDue
    <2>2. /\ (last_jiffies + 1) * DIV <= (last_check + HZ) * DIV
          /\ (last_jiffies + 1) * DIV \in Int /\ (last_check + HZ) * DIV \in Int
      BY <1>1, <1>2, <2>1, Grows
    <2>3. (last_check + HZ) * DIV = last_check * DIV + HZ * DIV /\ last_check * DIV \in Int
      BY <1>1, <1>2
    <2>4. last_check' = last_check /\ quiet' = quiet
      BY <1>4
    <2> QED
      BY <1>1, <1>2, <2>2, <2>3, <2>4
  <1> QED
    BY <1>3, <1>4

LEMMA CheckTimersKeeps ==
    ASSUME TimerInv, CheckTimers
    PROVE  TimerInv'
  <1>1. /\ tpc = "scan" /\ Scan
        /\ last_check' = IF BroadcastDue THEN last_jiffies ELSE last_check
        /\ quiet' = IF BroadcastDue THEN 0 ELSE quiet
        /\ ms_delay' \in {SHORT, RELAX}
        /\ UNCHANGED <<elapsed, offset, late, slow, stepped, clockVars, expires, since,
                       adding, last_jiffies, needed>>
    BY DEF CheckTimers, NextDelay
  <1>2. UNCHANGED <<nsec, rem, jiffies, gap>>
    BY <1>1 DEF clockVars
  <1>3. /\ timer_head' \in Seq(Timers) /\ linked' \in [Timers -> BOOLEAN] /\ LinkedOnce'
        /\ \A w \in Timers : linked'[w] => linked[w]
        /\ cur' \in Timers \cup {NoTimer} /\ slept' \in Nat
        /\ tpc' = "run" \/ (tpc' = "sleep" /\ slept' = 0)
    BY <1>1, ScanRight
  <1>4. TimerTypeOK'
    BY <1>1, <1>2, <1>3 DEF TimerInv, TimerTypeOK
  <1>5. AddingRight'
    BY <1>1, <1>3 DEF TimerInv, TimerTypeOK, AddingRight
  <1>6. PaceRight'
    BY <1>1, <1>2, <1>3, ConstantsRight DEF TimerInv, TimerTypeOK, PaceRight
  <1>7. NowRight'
    BY <1>1, <1>2, <1>3 DEF TimerInv, NowRight
  <1>8. WaitRight'
    BY <1>1, <1>2, SearchedRight
  <1>9. BroadcastRight'
    <2>1. ASSUME ~slow, stepped = 0
          PROVE  last_check' * DIV + quiet' <= elapsed /\ quiet' < SEC /\ quiet' \in Nat
      <3>1. quiet' \in Nat
        BY <1>4 DEF TimerTypeOK
      <3> QED
        BY <1>1, <2>1, <3>1, BroadcastStep
    <2>2. quiet' \in Nat /\ slept' \in Nat /\ SEC \in Nat /\ RELAX \in Nat
      BY <1>4, ConstantsRight DEF TimerTypeOK
    <2> SUFFICES ASSUME ~slow, stepped = 0
                 PROVE  /\ last_check' * DIV + quiet' <= elapsed
                        /\ quiet' < SEC /\ (tpc' = "sleep" => quiet' < SEC + slept')
                        /\ quiet' < SEC + RELAX
      BY <1>1, <1>3 DEF BroadcastRight
    <2>3. slept' \in Nat /\ (tpc' = "sleep" => slept' = 0)
      BY <1>3
    <2>4. RELAX \in Nat
      BY ConstantsRight
    <2>5. quiet' < SEC /\ last_check' * DIV + quiet' <= elapsed
      BY <2>1
    <2>6. (tpc' = "sleep" => quiet' < SEC + slept') /\ quiet' < SEC + RELAX
      <3>1. quiet' \in Nat /\ quiet' < SEC /\ SEC \in Nat /\ RELAX \in Nat
        BY <2>2, <2>5
      <3>2. quiet' < SEC + RELAX /\ quiet' < SEC + 0
        BY <3>1
      <3> QED
        BY <2>3, <3>2
    <2> QED
      BY <2>5, <2>6
  <1> QED
    BY <1>1, <1>2, <1>3, <1>4, <1>5, <1>6, <1>7, <1>8, <1>9, ClockFrame DEF TimerInv

-----------------------------------------------------------------------------
(* Every step of drivers, of the timer thread and of time. *)
LEMMA TimerStep ==
    ASSUME TimerInv, [TimerNext]_timerVars
    PROVE  TimerInv'
  <1>1. CASE UNCHANGED timerVars
    <2>1. /\ UNCHANGED <<elapsed, offset, late, slow, stepped, quiet, nsec, rem, jiffies, gap,
                         timer_head, linked, expires, since, adding,
                         tpc, last_jiffies, last_check, cur, ms_delay, slept, needed>>
          /\ UNCHANGED headVars
      BY <1>1 DEF timerVars, timeVars, clockVars, headVars, threadVars
    <2>2. TimerTypeOK'
      BY <2>1 DEF TimerInv, TimerTypeOK
    <2> QED
      BY <2>1, <2>2, LinkedFrame, AddingFrame, ClockFrame, PaceFrame, NowFrame, WaitFrame,
         BroadcastFrame DEF TimerInv
  <1>2. CASE TimerThread
    BY <1>2, TimerStartsKeeps, ReadClockKeeps, CheckTimersKeeps, FunctionReturnsKeeps,
       WakesKeeps DEF TimerThread
  <1>3. CASE DriverCalls
    BY <1>3, ReadJiffiesKeeps, InsertTimerKeeps, DelTimerKeeps, AddTimerKeeps, ModTimerKeeps,
       NeedTimerKeeps DEF DriverCalls
  <1>4. CASE Tick
    BY <1>4, TickKeeps
  <1>5. CASE \E o \in 0..SEC-1 : SetClock(o)
    BY <1>5, SetClockKeeps
  <1> QED
    BY <1>1, <1>2, <1>3, <1>4, <1>5 DEF TimerNext

LEMMA TimerStart == TimerInit => TimerInv
  <1> SUFFICES ASSUME TimerInit PROVE TimerInv
    OBVIOUS
  <1>1. TimerTypeOK
    <2>1. 0 \in 0..(SEC - 1) /\ 0 \in 0..(DIV - 1)
      BY ConstantsRight
    <2>2. /\ timer_head \in Seq(Timers) /\ adding \in [Callers -> Timers \cup {NoTimer}]
          /\ linked \in [Timers -> BOOLEAN]
          /\ expires \in [Timers -> Nat] /\ since \in [Timers -> Nat]
      BY DEF TimerInit
    <2>3. /\ elapsed \in Nat /\ offset \in Int /\ nsec \in 0..SEC-1 /\ rem \in 0..DIV-1
          /\ jiffies \in Nat /\ gap \in Nat /\ stepped \in Nat
          /\ last_jiffies \in Nat /\ last_check \in Nat /\ slept \in Nat /\ quiet \in Nat
          /\ needed \in Nat /\ ms_delay \in {0, SHORT, RELAX}
      BY <2>1 DEF TimerInit
    <2>4. /\ late \in BOOLEAN /\ slow \in BOOLEAN /\ cur \in Timers \cup {NoTimer}
          /\ tpc \in {"start", "loop", "scan", "run", "sleep"}
      BY DEF TimerInit
    <2> QED
      BY <2>2, <2>3, <2>4 DEF TimerTypeOK
  <1>2. LinkedOnce /\ AddingRight
    BY DEF TimerInit, LinkedOnce, AddingRight, ToSet
  <1>3. ClockRight
    <2>1. 0 * DIV = 0 /\ 0 % SEC = 0 /\ 0 - 0 = 0
      <3>1. SEC \in Nat \ {0} /\ DIV \in Nat
        BY ConstantsRight
      <3>2. 0 * DIV = 0
        BY <3>1
      <3>3. 0 % SEC = 0
        BY <3>1, SMTT(30)
      <3> QED
        BY <3>2, <3>3
    <2> QED
      BY <2>1, ConstantsRight DEF TimerInit, ClockRight, Counted
  <1>4. PaceRight /\ NowRight /\ WaitRight
    BY ConstantsRight DEF TimerInit, PaceRight, NowRight, WaitRight
  <1>5. BroadcastRight
    <2>1. 0 * DIV = 0
      BY ConstantsRight
    <2> QED
      BY <2>1, ConstantsRight DEF TimerInit, BroadcastRight
  <1> QED
    BY <1>1, <1>2, <1>3, <1>4, <1>5 DEF TimerInv

(* Timer: the invariant from which the rest follows.  Lists and entries    *)
(* agree also while add_timer() is between its sections; what was counted  *)
(* and what is left of a jiffy make up true time; a timer has waited since *)
(* the thread fell asleep at most; last_check is the last broadcast.       *)
THEOREM TimerInductive == TimerSpec => []TimerInv
  BY TimerStart, TimerStep, PTL DEF TimerSpec

(* Timer: timer_head holds a timer once if its entry says so;              *)
(* get_jiffies_64() counts true time, for every length of the sleeps that  *)
(* is shorter than a second; no timer waits longer than a relaxed sleep,   *)
(* and the broadcast comes at least every second and a half.               *)
THEOREM TimersAlwaysExact == TimerSpec => []TimersExact
  <1>1. TimerInv => TimersExact
    <2> SUFFICES ASSUME TimerInv PROVE TimersExact
      OBVIOUS
    <2>1. ClockIsTrue
      BY DEF TimerInv, ClockRight, Counted, ClockIsTrue
    <2>2. BroadcastRecurs
      BY DEF TimerInv, BroadcastRight, BroadcastRecurs
    <2>3. NeverLate
      <3> SUFFICES ASSUME ~slow, stepped = 0, NEW w \in Timers, linked[w]
                   PROVE  Waited(w, RELAX)
        BY DEF NeverLate, Waited
      <3>1. CASE tpc # "sleep"
        BY <3>1 DEF TimerInv, WaitRight
      <3>2. CASE tpc = "sleep"
        <4>1. Waited(w, slept)
          BY <3>2 DEF TimerInv, WaitRight
        <4>2. /\ slept \in Nat /\ RELAX \in Nat /\ slept <= RELAX /\ elapsed \in Nat
              /\ since[w] \in Nat /\ (expires[w] + 1) * DIV \in Int
          BY <3>2, ConstantsRight DEF TimerInv, TimerTypeOK, PaceRight
        <4> QED
          BY <4>1, <4>2 DEF Waited
      <3> QED
        BY <3>1, <3>2
    <2> QED
      BY <2>1, <2>2, <2>3 DEF TimersExact, TimerInv
  <1> QED
    BY <1>1, TimerInductive, PTL

(* Timer: jiffies advance by at most a second at each look at the clock,   *)
(* and stand still otherwise, whatever happens to the wall clock.          *)
LEMMA JiffiesStep ==
    ASSUME TimerInv, [TimerNext]_timerVars
    PROVE  JiffiesAdvance
  <1>1. jiffies \in Nat /\ HZ \in Nat
    BY ConstantsRight DEF TimerInv, TimerTypeOK
  <1>2. CASE UNCHANGED jiffies
    BY <1>1, <1>2 DEF JiffiesAdvance
  <1>3. CASE get_jiffies_64 /\ UNCHANGED timeVars
    BY <1>3, ClockStep DEF TimerInv, JiffiesAdvance, timeVars
  <1>4. UNCHANGED jiffies \/ (get_jiffies_64 /\ UNCHANGED timeVars)
    <2>1. CASE UNCHANGED timerVars
      BY <2>1 DEF timerVars, clockVars
    <2>2. CASE TimerThread
      BY <2>2 DEF TimerThread, TimerStarts, ReadClock, CheckTimers, FunctionReturns, Wakes, clockVars
    <2>3. CASE DriverCalls
      BY <2>3 DEF DriverCalls, ReadJiffies, InsertTimer, DelTimer, AddTimer, mod_timer,
                  need_timer, clockVars
    <2>4. CASE Tick \/ \E o \in 0..SEC-1 : SetClock(o)
      BY <2>4 DEF Tick, SetClock, clockVars
    <2> QED
      BY <2>1, <2>2, <2>3, <2>4 DEF TimerNext
  <1> QED
    BY <1>2, <1>3, <1>4

(* Timer: a function is called in a search only, for a timer whose jiffy   *)
(* was over when last_jiffies was read.                                    *)
LEMMA EarlyStep ==
    ASSUME TimerInv, [TimerNext]_timerVars
    PROVE  NeverEarly
  <1> SUFFICES ASSUME tpc' = "run", cur' # cur, stepped = 0
               PROVE  (expires[cur'] + 1) * DIV <= elapsed
    BY DEF NeverEarly
  <1>1. Scan
    <2>1. CASE UNCHANGED timerVars
      BY <2>1 DEF timerVars, threadVars
    <2>2. CASE TimerThread
      BY <2>2 DEF TimerThread, TimerStarts, ReadClock, CheckTimers, FunctionReturns, Wakes
    <2>3. CASE DriverCalls
      BY <2>3 DEF DriverCalls, ReadJiffies, InsertTimer, DelTimer, AddTimer, mod_timer,
                  need_timer, threadVars
    <2>4. CASE Tick \/ \E o \in 0..SEC-1 : SetClock(o)
      BY <2>4 DEF Tick, SetClock, threadVars
    <2> QED
      BY <2>1, <2>2, <2>3, <2>4 DEF TimerNext
  <1>2. cur' \in Timers /\ expires[cur'] < last_jiffies
    BY <1>1, ScanRight DEF Expired
  <1>3. /\ elapsed \in Nat /\ jiffies \in Nat /\ rem \in Nat /\ gap \in Nat /\ last_jiffies \in Nat
        /\ expires[cur'] \in Nat /\ last_jiffies <= jiffies /\ jiffies * DIV + rem + gap <= elapsed
        /\ DIV \in Nat \ {0}
    BY <1>2, ConstantsRight DEF TimerInv, TimerTypeOK, ClockRight, Counted
  <1>4. /\ (expires[cur'] + 1) * DIV <= jiffies * DIV
        /\ (expires[cur'] + 1) * DIV \in Int /\ jiffies * DIV \in Int
    <2>1. expires[cur'] + 1 \in Int /\ jiffies \in Int /\ expires[cur'] + 1 <= jiffies
      BY <1>2, <1>3
    <2> QED
      BY <1>3, <2>1, Grows
  <1> QED
    BY <1>3, <1>4

(* Timer: no function runs before the jiffy in which its timer expires is  *)
(* over, by true time, and jiffies never go back.                          *)
THEOREM AlwaysOnTime == TimerSpec => OnTime
  <1>1. TimerInv /\ [TimerNext]_timerVars => [NeverEarly /\ JiffiesAdvance]_timerVars
    BY JiffiesStep, EarlyStep
  <1> QED
    BY <1>1, TimerInductive, PTL DEF TimerSpec, OnTime

-----------------------------------------------------------------------------
(* I2cCore: the inductive invariant. *)

ClientRecords ==
    [state : {"none", "bound", "freed"}, driver : Drivers \cup {NoDriver},
     addr : Nat \cup Chips, scanned : BOOLEAN]

CoreTypeOK ==
    /\ drivers \in Seq(Drivers) /\ mux \in Seq(CoreAdapters)
    /\ Used \subseteq Nat
    /\ adapter \in [CoreAdapters -> {"new", "added", "gone"}] /\ nr \in [CoreAdapters -> Nat]
    /\ client \in [Clients -> ClientRecords] /\ attached \in [Clients -> SUBSET Drivers]

(* A driver is registered once. *)
DriversDiffer == \A m, n \in DOMAIN drivers : drivers[m] = drivers[n] => m = n

(* The idr knows an adapter that is in use by its number. *)
Numbered == \A a \in Added : nr[a] \in Used /\ ids[nr[a]] = a

CoreInv == CoreTypeOK /\ DriversDiffer /\ Numbered /\ MuxHasLive /\ OneDriver /\ AtAChip

(* What leaves drivers, adapters or clients alone keeps what is said of    *)
(* them.                                                                   *)
LEMMA DriversFrame ==
    ASSUME CoreInv, UNCHANGED drivers
    PROVE  drivers' \in Seq(Drivers) /\ DriversDiffer'
  BY DEF CoreInv, CoreTypeOK, DriversDiffer

LEMMA AdaptersFrame ==
    ASSUME CoreInv, UNCHANGED <<ids, adapter, nr, mux>>
    PROVE  /\ mux' \in Seq(CoreAdapters) /\ Used' \subseteq Nat
           /\ adapter' \in [CoreAdapters -> {"new", "added", "gone"}] /\ nr' \in [CoreAdapters -> Nat]
           /\ Numbered' /\ MuxHasLive'
  BY DEF CoreInv, CoreTypeOK, Used, Added, Numbered, MuxHasLive

LEMMA ClientsFrame ==
    ASSUME CoreInv, UNCHANGED <<client, attached>>
    PROVE  /\ client' \in [Clients -> ClientRecords] /\ attached' \in [Clients -> SUBSET Drivers]
           /\ OneDriver' /\ AtAChip'
  BY DEF CoreInv, CoreTypeOK, OneDriver, AtAChip

LEMMA RegisterDriverKeeps ==
    ASSUME CoreInv, NEW d \in Drivers, i2c_register_driver(d)
    PROVE  CoreInv'
  <1>1. /\ d \notin ToSet(drivers) /\ drivers' = Append(drivers, d)
        /\ UNCHANGED <<ids, adapter, nr, mux, client, attached>>
    BY DEF i2c_register_driver
  <1>2. drivers' \in Seq(Drivers) /\ DriversDiffer'
    <2>1. drivers \in Seq(Drivers) /\ \A m, n \in DOMAIN drivers : drivers[m] = drivers[n] => m = n
      BY DEF CoreInv, CoreTypeOK, DriversDiffer
    <2> DEFINE b == Append(drivers, d)
    <2>2. b \in Seq(Drivers) /\ \A m, n \in DOMAIN b : b[m] = b[n] => m = n
      BY <1>1, <2>1, AppendRight
    <2> HIDE DEF b
    <2>3. drivers' = b
      BY <1>1 DEF b
    <2> QED
      BY <2>2, <2>3 DEF DriversDiffer
  <1> QED
    BY <1>1, <1>2, AdaptersFrame, ClientsFrame DEF CoreInv, CoreTypeOK

LEMMA DelDriverKeeps ==
    ASSUME CoreInv, NEW d \in Drivers, i2c_del_driver(d)
    PROVE  CoreInv'
  <1> DEFINE b == RemoveAt(drivers, CHOOSE n \in DOMAIN drivers : drivers[n] = d)
  <1>1. /\ d \in ToSet(drivers) /\ drivers' = b
        /\ UNCHANGED <<ids, adapter, nr, mux, client, attached>>
    BY DEF i2c_del_driver
  <1>2. b \in Seq(Drivers) /\ \A m, n \in DOMAIN b : b[m] = b[n] => m = n
    BY <1>1, OffRight DEF CoreInv, CoreTypeOK, DriversDiffer
  <1>3. drivers' \in Seq(Drivers) /\ DriversDiffer'
    <2> HIDE DEF b
    <2> QED
      BY <1>1, <1>2 DEF DriversDiffer
  <1> QED
    BY <1>1, <1>3, AdaptersFrame, ClientsFrame DEF CoreInv, CoreTypeOK

-----------------------------------------------------------------------------
(* A number that is free is given to an adapter: nobody else has it. *)
LEMMA RegisterRight ==
    ASSUME CoreInv, NEW a \in CoreAdapters, adapter[a] = "new", NEW n \in Nat, n \notin Used,
           NEW ok \in BOOLEAN, Register(a, n, ok)
    PROVE  /\ Used' \subseteq Nat
           /\ adapter' \in [CoreAdapters -> {"new", "added", "gone"}] /\ nr' \in [CoreAdapters -> Nat]
           /\ Numbered' /\ Added \subseteq Added' /\ (ok => a \in Added')
  <1>1. /\ ids' = [m \in Used \cup {n} |-> IF m = n THEN a ELSE ids[m]]
        /\ nr' = [nr EXCEPT ![a] = n]
        /\ adapter' = [adapter EXCEPT ![a] = IF ok THEN "added" ELSE "gone"]
    BY DEF Register, With
  <1>2. /\ Used \subseteq Nat /\ nr \in [CoreAdapters -> Nat]
        /\ adapter \in [CoreAdapters -> {"new", "added", "gone"}]
    BY DEF CoreInv, CoreTypeOK
  <1>3. Used' = Used \cup {n} /\ ids'[n] = a /\ \A m \in Used : ids'[m] = ids[m]
    <2>1. DOMAIN ids' = Used \cup {n}
      BY <1>1
    <2>2. Used' = DOMAIN ids'
      BY DEF Used
    <2> QED
      BY <1>1, <2>1, <2>2
  <1>4. /\ adapter' \in [CoreAdapters -> {"new", "added", "gone"}] /\ nr' \in [CoreAdapters -> Nat]
        /\ nr'[a] = n /\ adapter'[a] = (IF ok THEN "added" ELSE "gone")
        /\ \A b \in CoreAdapters \ {a} : nr'[b] = nr[b] /\ adapter'[b] = adapter[b]
    BY <1>1, <1>2
  <1>5. ASSUME NEW b \in Added' PROVE nr'[b] \in Used' /\ ids'[nr'[b]] = b
    <2>1. CASE b = a
      BY <1>3, <1>4, <2>1
    <2>2. CASE b # a
      <3>1. b \in Added /\ nr'[b] = nr[b]
        BY <1>4, <1>5, <2>2 DEF Added
      <3> QED
        BY <1>3, <3>1 DEF CoreInv, Numbered
    <2> QED
      BY <2>1, <2>2
  <1>6. Numbered'
    BY <1>5 DEF Numbered
  <1>7. Added \subseteq Added' /\ (ok => a \in Added')
    BY <1>4 DEF Added
  <1> QED
    BY <1>2, <1>3, <1>4, <1>6, <1>7

(* The numbers of boards, and the first one that idr_alloc() finds. *)
LEMMA NumbersRight ==
    ASSUME CoreInv
    PROVE  /\ \A n \in BoardNumbers \ Used : n \in Nat /\ n \notin Used
           /\ FreeNumber # {} => Min(FreeNumber) \in Nat /\ Min(FreeNumber) \notin Used
  <1>1. FreeNumber \in SUBSET Nat /\ FreeNumber \cap Used = {}
    BY CoreAssumption DEF FreeNumber
  <1>2. FreeNumber # {} => Min(FreeNumber) \in FreeNumber
    BY <1>1, LeastRight
  <1>3. \A n \in BoardNumbers \ Used : n \in Nat /\ n \notin Used
    BY CoreAssumption
  <1> QED
    BY <1>1, <1>2, <1>3

LEMMA AddAdapterKeeps ==
    ASSUME CoreInv, NEW a \in CoreAdapters, i2c_add_numbered_adapter(a) \/ i2c_add_adapter(a)
    PROVE  CoreInv'
  <1>1. adapter[a] = "new" /\ UNCHANGED <<drivers, mux, client, attached>>
    BY DEF i2c_add_numbered_adapter, i2c_add_adapter
  <1>2. PICK n \in Nat, ok \in BOOLEAN : n \notin Used /\ Register(a, n, ok)
    <2>1. CASE i2c_add_numbered_adapter(a)
      BY <2>1, NumbersRight DEF i2c_add_numbered_adapter
    <2>2. CASE i2c_add_adapter(a)
      BY <2>2, NumbersRight DEF i2c_add_adapter
    <2> QED
      BY <2>1, <2>2
  <1>3. /\ Used' \subseteq Nat
        /\ adapter' \in [CoreAdapters -> {"new", "added", "gone"}] /\ nr' \in [CoreAdapters -> Nat]
        /\ Numbered' /\ Added \subseteq Added'
    BY <1>1, <1>2, RegisterRight
  <1>4. MuxHasLive' /\ mux' \in Seq(CoreAdapters)
    BY <1>1, <1>3 DEF CoreInv, CoreTypeOK, MuxHasLive
  <1> QED
    BY <1>1, <1>3, <1>4, DriversFrame, ClientsFrame DEF CoreInv, CoreTypeOK

LEMMA DelAdapterKeeps ==
    ASSUME CoreInv, NEW a \in CoreAdapters, i2c_del_adapter(a)
    PROVE  CoreInv'
  <1>1. /\ a \notin ToSet(mux) /\ adapter' = [adapter EXCEPT ![a] = "gone"]
        /\ UNCHANGED <<drivers, ids, nr, mux, client, attached>>
    BY DEF i2c_del_adapter
  <1>2. adapter \in [CoreAdapters -> {"new", "added", "gone"}]
    BY DEF CoreInv, CoreTypeOK
  <1>3. Added' = Added \ {a}
    BY <1>1, <1>2 DEF Added
  <1>4. Numbered' /\ MuxHasLive'
    BY <1>1, <1>3 DEF CoreInv, Numbered, MuxHasLive, Used
  <1>5. CoreTypeOK'
    BY <1>1, <1>2 DEF CoreInv, CoreTypeOK, Used
  <1> QED
    BY <1>1, <1>4, <1>5, DriversFrame, ClientsFrame DEF CoreInv

LEMMA MuxAddKeeps ==
    ASSUME CoreInv, NEW a \in CoreAdapters, i2c_mux_add_adapter(a)
    PROVE  CoreInv'
  <1>1. /\ adapter[a] = "new" /\ Len(mux) < MaxAdapters
        /\ UNCHANGED <<drivers, client, attached>>
    BY DEF i2c_mux_add_adapter, MuxRoom
  <1>2. PICK n \in Nat, ok \in BOOLEAN :
           /\ n \notin Used /\ Register(a, n, ok)
           /\ mux' = IF ok THEN Append(mux, a) ELSE mux
    BY NumbersRight DEF i2c_mux_add_adapter
  <1>3. /\ Used' \subseteq Nat
        /\ adapter' \in [CoreAdapters -> {"new", "added", "gone"}] /\ nr' \in [CoreAdapters -> Nat]
        /\ Numbered' /\ Added \subseteq Added' /\ (ok => a \in Added')
    BY <1>1, <1>2, RegisterRight
  <1>4. /\ mux \in Seq(CoreAdapters) /\ Len(mux) \in Nat /\ MaxAdapters \in Nat
        /\ ToSet(mux) \subseteq Added /\ Len(mux) <= MaxAdapters
    BY CoreAssumption, LenProperties DEF CoreInv, CoreTypeOK, MuxHasLive
  <1>5. mux' \in Seq(CoreAdapters) /\ MuxHasLive'
    <2>1. CASE ok
      <3>1. mux' = Append(mux, a)
        BY <1>2, <2>1
      <3>2. /\ mux' \in Seq(CoreAdapters) /\ Len(mux') = Len(mux) + 1 /\ mux'[Len(mux) + 1] = a
            /\ \A i \in 1..Len(mux) : mux'[i] = mux[i]
        BY <1>4, <3>1, AppendProperties
      <3>3. DOMAIN mux = 1..Len(mux) /\ DOMAIN mux' = 1..(Len(mux) + 1)
        BY <1>4, <3>2, LenProperties
      <3>4. ASSUME NEW i \in DOMAIN mux' PROVE mux'[i] \in Added'
        <4>1. CASE i \in DOMAIN mux
          BY <1>3, <1>4, <3>2, <3>3, <4>1 DEF ToSet
        <4>2. CASE i = Len(mux) + 1
          BY <1>3, <2>1, <3>2, <4>2
        <4> QED
          BY <1>4, <3>3, <4>1, <4>2
      <3>5. ToSet(mux') \subseteq Added'
        BY <3>4 DEF ToSet
      <3>6. Len(mux') <= MaxAdapters
        BY <1>1, <1>4, <3>2
      <3> QED
        BY <3>2, <3>5, <3>6 DEF MuxHasLive
    <2>2. CASE ~ok
      <3>1. mux' = mux
        BY <1>2, <2>2
      <3> QED
        BY <1>3, <1>4, <3>1 DEF MuxHasLive
    <2> QED
      BY <2>1, <2>2
  <1> QED
    BY <1>1, <1>3, <1>5, DriversFrame, ClientsFrame DEF CoreInv, CoreTypeOK

LEMMA MuxDelKeeps ==
    ASSUME CoreInv, i2c_mux_del_adapters
    PROVE  CoreInv'
  <1>1. /\ adapter' = [a \in CoreAdapters |-> IF a \in ToSet(mux) THEN "gone" ELSE adapter[a]]
        /\ mux' = <<>> /\ UNCHANGED <<drivers, ids, nr, client, attached>>
    BY DEF i2c_mux_del_adapters, DelAll
  <1>2. Added' \subseteq Added
    BY <1>1 DEF Added
  <1>3. Numbered'
    BY <1>1, <1>2 DEF CoreInv, Numbered, Used
  <1>4. MuxHasLive'
    <2>1. Len(<<>>) = 0 /\ ToSet(<<>>) = {}
      BY DEF ToSet
    <2> QED
      BY <1>1, <2>1, CoreAssumption DEF MuxHasLive
  <1>5. CoreTypeOK'
    <2>1. adapter' \in [CoreAdapters -> {"new", "added", "gone"}]
      BY <1>1 DEF CoreInv, CoreTypeOK
    <2> QED
      BY <1>1, <2>1 DEF CoreInv, CoreTypeOK, Used
  <1> QED
    BY <1>1, <1>3, <1>4, <1>5, DriversFrame, ClientsFrame DEF CoreInv

-----------------------------------------------------------------------------
(* Of registered drivers one knows a name at most: it is the last one      *)
(* tried.                                                                  *)
LEMMA OneKnows ==
    ASSUME CoreInv, NEW name, Knowing(name) # {}
    PROVE  \E d \in Drivers : /\ Tried(name) = {d}
                              /\ drivers[Max(Knowing(name))] = d
  <1>1. drivers \in Seq(Drivers) /\ DOMAIN drivers = 1..Len(drivers) /\ Len(drivers) \in Nat
    BY LenProperties DEF CoreInv, CoreTypeOK
  <1>2. PICK k \in Knowing(name) : TRUE
    OBVIOUS
  <1>3. k \in DOMAIN drivers /\ k \in Nat /\ drivers[k] \in Drivers /\ name \in Names[drivers[k]]
    BY <1>1, <1>2, ElementOfSeq DEF Knowing
  <1>4. Knowing(name) = {k}
    <2>1. ASSUME NEW l \in Knowing(name) PROVE l = k
      <3>1. l \in DOMAIN drivers /\ drivers[l] \in Drivers /\ name \in Names[drivers[l]]
        BY <1>1, ElementOfSeq DEF Knowing
      <3>2. drivers[l] = drivers[k]
        BY <1>3, <3>1, CoreAssumption
      <3> QED
        BY <1>3, <3>1, <3>2 DEF CoreInv, DriversDiffer
    <2> QED
      BY <1>2, <2>1
  <1>5. Max({k}) = k
    BY <1>3 DEF Max
  <1>6. Tried(name) = {drivers[k]}
    BY <1>4 DEF Tried
  <1> QED
    BY <1>3, <1>4, <1>5, <1>6

(* A client is made: bound to the driver whose probe() succeeded, or freed *)
(* without one.                                                            *)
LEMMA NewDeviceRight ==
    ASSUME CoreInv, NEW c \in Clients, NEW name, NEW addr \in Nat \cup Chips, NEW scanned \in BOOLEAN,
           OwnProbe /\ scanned => addr \in Chips,
           NewDevice(c, name, addr, scanned)
    PROVE  CoreInv'
  <1>1. Knowing(name) # {} /\ UNCHANGED <<drivers, ids, adapter, nr, mux>>
    BY DEF NewDevice
  <1>2. PICK ok \in [Drivers -> BOOLEAN] :
           LET d == LastDriver(name, ok)
           IN /\ client' = [client EXCEPT ![c] = [state |-> IF d = NoDriver THEN "freed" ELSE "bound",
                                                  driver |-> d, addr |-> addr, scanned |-> scanned]]
              /\ attached' = [attached EXCEPT ![c] = {e \in Tried(name) : ok[e]}]
    BY DEF NewDevice
  <1>3. PICK d \in Drivers : Tried(name) = {d} /\ drivers[Max(Knowing(name))] = d
    BY <1>1, OneKnows
  <1>4. LastDriver(name, ok) = IF ok[d] THEN d ELSE NoDriver
    BY <1>3 DEF LastDriver
  <1>5. d # NoDriver
    BY CoreAssumption
  <1> DEFINE bound == ok[d]
             rec == [state |-> IF bound THEN "bound" ELSE "freed",
                     driver |-> IF bound THEN d ELSE NoDriver, addr |-> addr, scanned |-> scanned]
             at == IF bound THEN {d} ELSE {}
  <1>6. client' = [client EXCEPT ![c] = rec]
    BY <1>2, <1>4, <1>5
  <1>7. attached' = [attached EXCEPT ![c] = at]
    <2>1. {e \in Tried(name) : ok[e]} = at
      BY <1>3
    <2> QED
      BY <1>2, <2>1
  <1>8. rec \in ClientRecords /\ at \in SUBSET Drivers
    BY DEF ClientRecords
  <1>9. /\ rec.addr = addr /\ rec.scanned = scanned
        /\ at = (IF rec.state = "bound" THEN {rec.driver} ELSE {})
    OBVIOUS
  <1> HIDE DEF rec, at
  <1>10. /\ client \in [Clients -> ClientRecords] /\ attached \in [Clients -> SUBSET Drivers]
         /\ OneDriver /\ AtAChip
    BY DEF CoreInv, CoreTypeOK
  <1>11. /\ client' \in [Clients -> ClientRecords] /\ attached' \in [Clients -> SUBSET Drivers]
         /\ client'[c] = rec /\ attached'[c] = at
         /\ \A x \in Clients \ {c} : client'[x] = client[x] /\ attached'[x] = attached[x]
    BY <1>6, <1>7, <1>8, <1>10
  <1>12. OneDriver'
    BY <1>9, <1>10, <1>11 DEF OneDriver
  <1>13. AtAChip'
    BY <1>9, <1>10, <1>11 DEF AtAChip
  <1> QED
    BY <1>1, <1>11, <1>12, <1>13, DriversFrame, AdaptersFrame DEF CoreInv, CoreTypeOK

LEMMA NewDeviceKeeps ==
    ASSUME CoreInv, NEW c \in Clients, i2c_new_device(c) \/ i2c_new_probed_device(c)
    PROVE  CoreInv'
  <1>1. CASE i2c_new_device(c)
    <2>1. PICK name \in ChipNames, addr \in Chips : NewDevice(c, name, addr, FALSE)
      BY <1>1 DEF i2c_new_device
    <2> QED
      BY <2>1, NewDeviceRight
  <1>2. CASE i2c_new_probed_device(c)
    <2>1. PICK name \in ChipNames, list \in Lists :
             Probed(list) # {} /\ NewDevice(c, name, list[Min(Probed(list))], TRUE)
      BY <1>2 DEF i2c_new_probed_device
    <2>2. list \in Seq(Nat)
      BY CoreAssumption
    <2>3. DOMAIN list = 1..Len(list) /\ Len(list) \in Nat
      BY <2>2, LenProperties
    <2>4. Probed(list) \in SUBSET Nat
      BY <2>3 DEF Probed
    <2> DEFINE n == Min(Probed(list))
    <2>5. n \in Probed(list)
      BY <2>1, <2>4, LeastRight
    <2> HIDE DEF n
    <2>6. list[n] \in Nat /\ (OwnProbe => list[n] \in Chips)
      BY <2>2, <2>3, <2>5, ElementOfSeq DEF Probed
    <2>7. NewDevice(c, name, list[n], TRUE)
      BY <2>1 DEF n
    <2> QED
      BY <2>6, <2>7, NewDeviceRight
  <1> QED
    BY <1>1, <1>2

LEMMA LeaveDeviceKeeps ==
    ASSUME CoreInv, NEW c \in Clients, i2c_unregister_device(c) \/ Reuse(c)
    PROVE  CoreInv'
  <1>1. /\ client \in [Clients -> ClientRecords] /\ attached \in [Clients -> SUBSET Drivers]
        /\ OneDriver /\ AtAChip
    BY DEF CoreInv, CoreTypeOK
  <1>2. UNCHANGED <<drivers, ids, adapter, nr, mux>>
    BY DEF i2c_unregister_device, Reuse
  <1>3. /\ client' \in [Clients -> ClientRecords] /\ attached' \in [Clients -> SUBSET Drivers]
        /\ client'[c].state # "bound" /\ attached'[c] = {}
        /\ \A x \in Clients \ {c} : client'[x] = client[x] /\ attached'[x] = attached[x]
    <2>1. CASE i2c_unregister_device(c)
      <3>1. /\ client[c].state = "bound" /\ client' = [client EXCEPT ![c].state = "freed"]
            /\ attached' = [attached EXCEPT ![c] = @ \ {client[c].driver}]
        BY <2>1 DEF i2c_unregister_device
      <3>2. attached[c] = {client[c].driver}
        BY <1>1, <3>1 DEF OneDriver
      <3>3. /\ attached' \in [Clients -> SUBSET Drivers] /\ attached'[c] = {}
            /\ \A x \in Clients \ {c} : attached'[x] = attached[x]
        BY <1>1, <3>1, <3>2
      <3>4. /\ client' \in [Clients -> ClientRecords] /\ client'[c].state = "freed"
            /\ \A x \in Clients \ {c} : client'[x] = client[x]
        BY <1>1, <3>1 DEF ClientRecords
      <3> QED
        BY <3>3, <3>4
    <2>2. CASE Reuse(c)
      <3>1. /\ attached[c] = {} /\ attached' = attached
            /\ client' = [client EXCEPT ![c] = NoClient]
        BY <2>2 DEF Reuse
      <3>2. NoClient \in ClientRecords /\ NoClient.state = "none"
        BY DEF NoClient, ClientRecords
      <3> QED
        BY <1>1, <3>1, <3>2
    <2> QED
      BY <2>1, <2>2
  <1>4. OneDriver'
    BY <1>1, <1>3 DEF OneDriver
  <1>5. AtAChip'
    BY <1>1, <1>3 DEF AtAChip
  <1> QED
    BY <1>2, <1>3, <1>4, <1>5, DriversFrame, AdaptersFrame DEF CoreInv, CoreTypeOK

-----------------------------------------------------------------------------
LEMMA CoreStart == CoreInit => CoreInv
  <1> SUFFICES ASSUME CoreInit PROVE CoreInv
    OBVIOUS
  <1>1. NoClient \in ClientRecords /\ NoClient.state = "none"
    BY DEF NoClient, ClientRecords
  <1>2. Used = {} /\ Added = {} /\ DOMAIN drivers = {} /\ ToSet(mux) = {} /\ Len(mux) = 0
    BY DEF CoreInit, Used, Added, ToSet
  <1>3. CoreTypeOK
    BY <1>1, <1>2 DEF CoreInit, CoreTypeOK
  <1>4. DriversDiffer /\ Numbered /\ MuxHasLive
    BY <1>2, CoreAssumption DEF DriversDiffer, Numbered, MuxHasLive
  <1>5. OneDriver /\ AtAChip
    BY <1>1 DEF CoreInit, OneDriver, AtAChip
  <1> QED
    BY <1>3, <1>4, <1>5 DEF CoreInv

LEMMA CoreStep ==
    ASSUME CoreInv, [CoreNext]_coreVars
    PROVE  CoreInv'
  <1>1. CASE UNCHANGED coreVars
    BY <1>1, DriversFrame, AdaptersFrame, ClientsFrame DEF CoreInv, CoreTypeOK, coreVars
  <1>2. ASSUME NEW d \in Drivers, i2c_register_driver(d) \/ i2c_del_driver(d) PROVE CoreInv'
    BY <1>2, RegisterDriverKeeps, DelDriverKeeps
  <1>3. ASSUME NEW a \in CoreAdapters,
               \/ i2c_add_numbered_adapter(a) \/ i2c_add_adapter(a)
               \/ i2c_del_adapter(a) \/ i2c_mux_add_adapter(a)
        PROVE  CoreInv'
    BY <1>3, AddAdapterKeeps, DelAdapterKeeps, MuxAddKeeps
  <1>4. CASE i2c_mux_del_adapters
    BY <1>4, MuxDelKeeps
  <1>5. ASSUME NEW c \in Clients,
               \/ i2c_new_device(c) \/ i2c_new_probed_device(c)
               \/ i2c_unregister_device(c) \/ Reuse(c)
        PROVE  CoreInv'
    BY <1>5, NewDeviceKeeps, LeaveDeviceKeeps
  <1> QED
    BY <1>1, <1>2, <1>3, <1>4, <1>5 DEF CoreNext

(* I2cCore: the idr knows every adapter in use by its number, drivers are  *)
(* registered once, and clients agree with the drivers attached to them.   *)
THEOREM CoreInductive == CoreSpec => []CoreInv
  BY CoreStart, CoreStep, PTL DEF CoreSpec

(* I2cCore, for any boards, drivers, adapters and clients: adapters in use *)
(* have different numbers, a multiplexer's adapters are alive, a client    *)
(* has the one driver that probed it, and i2c_new_probed_device() makes    *)
(* clients only where a chip answers.                                      *)
THEOREM CoreAlwaysRight == CoreSpec => []CoreRight
  <1>1. CoreInv => CoreRight
    BY DEF CoreInv, Numbered, CoreRight, NumbersDiffer
  <1> QED
    BY <1>1, CoreInductive, PTL

-----------------------------------------------------------------------------
(* CharDevice: the inductive invariant. *)

InOut == {"read", "write", "ioctl"}
Rows == [len : Nat, pgoff : Nat, addr : {NULL, FAILED} \cup (Files \X Nat)]

CharTypeOK ==
    /\ timer_needed \in Int /\ failed \in Nat
    /\ stage \in [Files -> {"closed", "opening", "open", "closing"}]
    /\ vma \in [Files -> [Slots -> Rows]]
    /\ call \in [Workers -> CallRecords \cup {IDLE}]
    /\ compat \in [Workers -> BOOLEAN]
    /\ scratch \in [Workers -> [ptr : BOOLEAN, offset : Nat]]
    /\ given \in [Workers -> SUBSET (Nat \X Nat)]

(* The stage of a file that a worker is at: the one its method belongs to. *)
StagesRight ==
    \A w \in Workers : call[w] # IDLE =>
        /\ call[w].method = "open" => stage[call[w].file] = "opening"
        /\ call[w].method = "release" => stage[call[w].file] = "closing"
        /\ call[w].method \in InOut => stage[call[w].file] = "open"

(* Whoever opens or closes a file is alone at it. *)
AloneAtEnds ==
    \A w, v \in Workers : w # v /\ call[w] # IDLE /\ call[v] # IDLE /\ call[w].file = call[v].file
                          => stage[call[w].file] = "open"

(* A mapping has the address of the buffer it is for. *)
RowsRight == \A f \in Files, i \in Slots : Mapped(f, i) => vma[f][i].addr = <<f, vma[f][i].pgoff>>

(* Scratch memory is there only in a 32-bit request, and what was handed   *)
(* out lies below its offset.                                              *)
ScratchRight ==
    \A w \in Workers :
        /\ compat[w] => call[w] # IDLE
        /\ scratch[w].ptr => /\ compat[w] /\ scratch[w].offset <= ALLOC_MAX
                             /\ \A a \in given[w] : a[1] + a[2] <= scratch[w].offset
        /\ ~scratch[w].ptr => given[w] = {}
        /\ \A a, b \in given[w] : a # b => a[1] + a[2] <= b[1] \/ b[1] + b[2] <= a[1]

(* Only requests for data are 32-bit ones. *)
CompatRight == \A w \in Workers : compat[w] => call[w].method \in InOut

UsersInv == StagesRight /\ AloneAtEnds
MapsInv == MappingsMatch /\ RowsRight
ScratchInv == ScratchRight /\ CompatRight
CharInv == CharTypeOK /\ UsersInv /\ TimerExact /\ MapsInv /\ ScratchInv

(* The block of a thread, with one member changed. *)
LEMMA BlockRight ==
    ASSUME NEW p, NEW o
    PROVE  /\ [ptr |-> p, offset |-> o].ptr = p /\ [ptr |-> p, offset |-> o].offset = o
           /\ \A q : [[ptr |-> p, offset |-> o] EXCEPT !.offset = q] = [ptr |-> p, offset |-> q]
           /\ p \in BOOLEAN /\ o \in Nat => [ptr |-> p, offset |-> o] \in [ptr : BOOLEAN, offset : Nat]
  OBVIOUS

LEMMA BlockFreed ==
    ASSUME NEW p, NEW o, NEW q
    PROVE  [[ptr |-> p, offset |-> o] EXCEPT !.ptr = q] = [ptr |-> q, offset |-> o]
  OBVIOUS

LEMMA BlockOf ==
    ASSUME NEW b \in [ptr : BOOLEAN, offset : Nat]
    PROVE  b = [ptr |-> b.ptr, offset |-> b.offset] /\ b.ptr \in BOOLEAN /\ b.offset \in Nat
  OBVIOUS

(* The files a driver works on. *)
Worked == {f \in Files : stage[f] # "closed"}

LEMMA WorkedAdds ==
    ASSUME NEW f \in Files, CharTypeOK, stage[f] = "closed", NEW s \in {"opening", "open", "closing"},
           stage' = [stage EXCEPT ![f] = s]
    PROVE  Cardinality(Worked') = Cardinality(Worked) + 1 /\ Cardinality(Worked) \in Nat
  <1>1. IsFiniteSet(Worked)
    BY FS_Subset, CharDeviceAssumption DEF Worked
  <1>2. Worked' = Worked \cup {f} /\ f \notin Worked
    BY DEF Worked, CharTypeOK
  <1> QED
    BY <1>1, <1>2, FS_AddElement, FS_CardinalityType

LEMMA WorkedLoses ==
    ASSUME NEW f \in Files, CharTypeOK, stage[f] # "closed", stage' = [stage EXCEPT ![f] = "closed"]
    PROVE  Cardinality(Worked') = Cardinality(Worked) - 1 /\ Cardinality(Worked) \in Nat
  <1>1. IsFiniteSet(Worked)
    BY FS_Subset, CharDeviceAssumption DEF Worked
  <1>2. Worked' = Worked \ {f} /\ f \in Worked
    BY DEF Worked, CharTypeOK
  <1> QED
    BY <1>1, <1>2, FS_RemoveElement, FS_CardinalityType

LEMMA WorkedStays ==
    ASSUME NEW f \in Files, CharTypeOK, stage[f] # "closed", NEW s \in {"opening", "open", "closing"},
           stage' = [stage EXCEPT ![f] = s]
    PROVE  Worked' = Worked
  BY DEF Worked, CharTypeOK

LEMMA CharInitInv == CharInit => CharInv
  <1> SUFFICES ASSUME CharInit PROVE CharInv
    OBVIOUS
  <1>1. CharTypeOK
    BY DEF CharInit, CharTypeOK, FreshVma, Rows
  <1>2. UsersInv
    BY DEF CharInit, UsersInv, StagesRight, AloneAtEnds
  <1>3. TimerExact
    <2>1. {f \in Files : stage[f] # "closed"} = {}
      BY DEF CharInit
    <2>2. Cardinality({f \in Files : stage[f] # "closed"}) = 0
      BY <2>1, FS_EmptySet
    <2>3. timer_needed = 0 /\ failed = 0
      BY DEF CharInit
    <2> QED
      BY <2>2, <2>3 DEF TimerExact
  <1>4. MapsInv
    BY DEF CharInit, MapsInv, MappingsMatch, RowsRight, Mapped, FreshVma
  <1>5. ScratchInv
    BY DEF CharInit, ScratchInv, ScratchRight, CompatRight
  <1> QED
    BY <1>1, <1>2, <1>3, <1>4, <1>5 DEF CharInv

LEMMA MapsFrame ==
    ASSUME MapsInv, UNCHANGED <<vma, owned, stage>>
    PROVE  MapsInv'
  BY DEF MapsInv, MappingsMatch, RowsRight, Mapped

LEMMA UsersFrame ==
    ASSUME UsersInv, UNCHANGED <<call, stage>>
    PROVE  UsersInv'
  BY DEF UsersInv, StagesRight, AloneAtEnds

LEMMA TimerFrame ==
    ASSUME TimerExact, UNCHANGED <<timer_needed, stage, failed>>
    PROVE  TimerExact'
  BY DEF TimerExact

LEMMA ScratchFrame ==
    ASSUME CharTypeOK, ScratchInv, NEW w \in Workers, ~compat[w], NEW c,
           call' = [call EXCEPT ![w] = c], UNCHANGED <<compat, scratch, given>>
    PROVE  ScratchInv'
  BY DEF CharTypeOK, ScratchInv, ScratchRight, CompatRight

(* A worker that takes a request for a file that nobody else is at. *)
LEMMA TakeKeeps ==
    ASSUME CharTypeOK, UsersInv, NEW w \in Workers, NEW f \in Files, call[w] = IDLE,
           NEW m \in {"open", "release"}, call' = [call EXCEPT ![w] = [file |-> f, method |-> m]],
           stage' = [stage EXCEPT ![f] = IF m = "open" THEN "opening" ELSE "closing"],
           NotInUse(f)
    PROVE  UsersInv'
  <1>1. \A v \in Workers : v # w /\ call'[v] # IDLE => call'[v] = call[v] /\ call[v].file \in Files \ {f}
    BY DEF NotInUse, CharTypeOK, CallRecords
  <1>2. call'[w].file = f /\ call'[w].method = m /\ stage'[f] = IF m = "open" THEN "opening" ELSE "closing"
    BY DEF CharTypeOK
  <1>3. \A g \in Files \ {f} : stage'[g] = stage[g]
    BY DEF CharTypeOK
  <1>4. StagesRight'
    BY <1>1, <1>2, <1>3 DEF StagesRight, UsersInv, InOut
  <1>5. AloneAtEnds'
    BY <1>1, <1>2, <1>3 DEF AloneAtEnds, UsersInv
  <1> QED
    BY <1>4, <1>5 DEF UsersInv

LEMMA OpenKeeps ==
    ASSUME CharInv, NEW w \in Workers, NEW f \in Files, v4b_open(w, f)
    PROVE  CharInv'
  <1>1. /\ call[w] = IDLE /\ stage[f] = "closed" /\ timer_needed' = timer_needed + 1
        /\ stage' = [stage EXCEPT ![f] = "opening"]
        /\ call' = [call EXCEPT ![w] = [file |-> f, method |-> "open"]]
        /\ UNCHANGED <<vma, f_flags, compat, scratch, owned, given, failed>>
    BY DEF v4b_open, Calls
  <1>2. CharTypeOK /\ UsersInv /\ TimerExact /\ MapsInv /\ ScratchInv
    BY DEF CharInv
  <1>3. CharTypeOK'
    BY <1>1, <1>2 DEF CharTypeOK, CallRecords
  <1>4. UsersInv'
    <2>1. NotInUse(f)
      <3>1. \A v \in Workers : call[v] # IDLE => stage[call[v].file] \in {"opening", "closing", "open"}
        BY <1>2 DEF UsersInv, StagesRight, CharTypeOK, CallRecords, InOut
      <3> QED
        BY <1>1, <3>1 DEF NotInUse
    <2> QED
      BY <1>1, <1>2, <2>1, TakeKeeps
  <1>5. TimerExact'
    <2>1. Cardinality(Worked') = Cardinality(Worked) + 1 /\ Cardinality(Worked) \in Nat
      BY <1>1, <1>2, WorkedAdds
    <2> QED
      BY <1>1, <1>2, <2>1 DEF TimerExact, Worked, CharTypeOK
  <1>6. MapsInv'
    <2>1. \A x \in Files \X Slots : stage'[x[1]] = "open" <=> stage[x[1]] = "open"
      BY <1>1, <1>2 DEF CharTypeOK
    <2> QED
      BY <1>1, <1>2, <2>1 DEF MapsInv, MappingsMatch, RowsRight, Mapped
  <1>7. ScratchInv'
    BY <1>1, <1>2, ScratchFrame DEF ScratchInv, ScratchRight
  <1> QED
    BY <1>3, <1>4, <1>5, <1>6, <1>7 DEF CharInv

(* A worker at one end of a file is done with it. *)
LEMMA LeaveKeeps ==
    ASSUME CharTypeOK, UsersInv, NEW w \in Workers, call[w] # IDLE,
           call[w].method \in {"open", "release"}, call' = [call EXCEPT ![w] = IDLE],
           NEW s \in {"open", "closed"}, stage' = [stage EXCEPT ![call[w].file] = s]
    PROVE  UsersInv' /\ call[w].file \in Files
  <1> DEFINE f == call[w].file
  <1>1. f \in Files /\ stage[f] \in {"opening", "closing"}
    BY DEF CharTypeOK, CallRecords, UsersInv, StagesRight
  <1>2. \A v \in Workers : call'[v] # IDLE => v # w /\ call'[v] = call[v] /\ call[v].file \in Files \ {f}
    BY <1>1 DEF CharTypeOK, CallRecords, UsersInv, AloneAtEnds
  <1>3. \A g \in Files \ {f} : stage'[g] = stage[g]
    BY <1>1 DEF CharTypeOK
  <1> HIDE DEF f
  <1>4. StagesRight'
    BY <1>2, <1>3 DEF StagesRight, UsersInv
  <1>5. AloneAtEnds'
    BY <1>2, <1>3 DEF AloneAtEnds, UsersInv
  <1> QED
    BY <1>1, <1>4, <1>5 DEF UsersInv, f

LEMMA OpenReturnsKeeps ==
    ASSUME CharInv, NEW w \in Workers, linux_open_returns(w)
    PROVE  CharInv'
  <1> DEFINE f == call[w].file
  <1>1. /\ call[w] # IDLE /\ call[w].method = "open" /\ call' = [call EXCEPT ![w] = IDLE]
        /\ UNCHANGED <<compat, scratch, owned, given, failed>>
    BY DEF linux_open_returns, In, Finish
  <1>2. CharTypeOK /\ UsersInv /\ TimerExact /\ MapsInv /\ ScratchInv
    BY DEF CharInv
  <1>3. f \in Files /\ stage[f] = "opening"
    BY <1>1, <1>2 DEF CharTypeOK, CallRecords, UsersInv, StagesRight
  <1>4. ScratchInv'
    <2>1. ~compat[w]
      BY <1>1, <1>2 DEF ScratchInv, CompatRight, InOut
    <2> QED
      BY <1>1, <1>2, <2>1, ScratchFrame
  <1>5. CASE /\ stage' = [stage EXCEPT ![f] = "open"] /\ vma' = [vma EXCEPT ![f] = FreshVma]
             /\ UNCHANGED timer_needed
    <2>1. CharTypeOK'
      BY <1>1, <1>2, <1>3, <1>5 DEF CharTypeOK, FreshVma, Rows
    <2>2. UsersInv'
      BY <1>1, <1>2, <1>5, LeaveKeeps
    <2>3. TimerExact'
      <3>1. Worked' = Worked
        BY <1>2, <1>3, <1>5, WorkedStays
      <3> QED
        BY <1>1, <1>2, <1>5, <3>1 DEF TimerExact, Worked
    <2>4. MapsInv'
      <3>1. \A g \in Files \ {f} : stage'[g] = stage[g] /\ vma'[g] = vma[g]
        BY <1>2, <1>5 DEF CharTypeOK
      <3>2. \A i \in Slots : vma'[f][i].addr = NULL
        BY <1>2, <1>3, <1>5 DEF CharTypeOK, FreshVma
      <3>3. MappingsMatch'
        <4> SUFFICES ASSUME NEW x
                     PROVE  x \in owned' <=> x \in Files \X Slots /\ stage'[x[1]] = "open" /\ Mapped(x[1], x[2])'
          BY DEF MappingsMatch
        <4>1. x \in owned <=> x \in Files \X Slots /\ stage[x[1]] = "open" /\ Mapped(x[1], x[2])
          BY <1>2 DEF MapsInv, MappingsMatch
        <4> QED
          BY <1>1, <1>3, <3>1, <3>2, <4>1 DEF Mapped
      <3>4. RowsRight'
        BY <1>2, <3>1, <3>2 DEF MapsInv, RowsRight, Mapped
      <3> QED
        BY <3>3, <3>4 DEF MapsInv
    <2> QED
      BY <1>4, <2>1, <2>2, <2>3, <2>4 DEF CharInv
  <1>6. CASE /\ stage' = [stage EXCEPT ![f] = "closed"] /\ timer_needed' = timer_needed - 1
             /\ UNCHANGED vma
    <2>1. CharTypeOK'
      BY <1>1, <1>2, <1>3, <1>6 DEF CharTypeOK
    <2>2. UsersInv'
      BY <1>1, <1>2, <1>6, LeaveKeeps
    <2>3. TimerExact'
      <3>1. Cardinality(Worked') = Cardinality(Worked) - 1 /\ Cardinality(Worked) \in Nat
        BY <1>2, <1>3, <1>6, WorkedLoses
      <3> QED
        BY <1>1, <1>2, <1>6, <3>1 DEF TimerExact, Worked, CharTypeOK
    <2>4. MapsInv'
      <3>1. \A x \in Files \X Slots : stage'[x[1]] = "open" <=> stage[x[1]] = "open"
        BY <1>2, <1>3, <1>6 DEF CharTypeOK
      <3> QED
        BY <1>1, <1>2, <1>6, <3>1 DEF MapsInv, MappingsMatch, RowsRight, Mapped
    <2> QED
      BY <1>4, <2>1, <2>2, <2>3, <2>4 DEF CharInv
  <1> QED
    BY <1>5, <1>6 DEF linux_open_returns

LEMMA CloseKeeps ==
    ASSUME CharInv, NEW w \in Workers, NEW f \in Files, linux_close(w, f)
    PROVE  CharInv'
  <1> DEFINE row(i) == IF i \in CloseMapped(f) THEN [vma[f][i] EXCEPT !.addr = NULL] ELSE vma[f][i]
  <1>1. /\ call[w] = IDLE /\ stage[f] = "open" /\ NotInUse(f)
        /\ owned' = owned \ {<<f, i>> : i \in CloseMapped(f)}
        /\ vma' = [vma EXCEPT ![f] = [i \in Slots |-> row(i)]]
        /\ stage' = [stage EXCEPT ![f] = "closing"]
        /\ call' = [call EXCEPT ![w] = [file |-> f, method |-> "release"]]
        /\ UNCHANGED <<timer_needed, f_flags, compat, scratch, given, failed>>
    BY DEF linux_close, Calls
  <1>2. CharTypeOK /\ UsersInv /\ TimerExact /\ MapsInv /\ ScratchInv
    BY DEF CharInv
  <1>3. \A i \in Slots : /\ row(i) \in Rows /\ row(i).pgoff = vma[f][i].pgoff
                         /\ row(i).addr = IF Mapped(f, i) THEN NULL ELSE vma[f][i].addr
    <2> TAKE i \in Slots
    <2>1. vma[f][i] \in Rows
      BY <1>2 DEF CharTypeOK
    <2>2. CASE Mapped(f, i)
      <3>1. row(i) = [vma[f][i] EXCEPT !.addr = NULL]
        BY <2>2 DEF CloseMapped
      <3> QED
        BY <2>1, <2>2, <3>1 DEF Rows
    <2>3. CASE ~Mapped(f, i)
      <3>1. row(i) = vma[f][i]
        BY <2>3 DEF CloseMapped
      <3> QED
        BY <2>1, <2>3, <3>1
    <2> QED
      BY <2>2, <2>3
  <1> HIDE DEF row
  <1>4. CharTypeOK'
    BY <1>1, <1>2, <1>3 DEF CharTypeOK, CallRecords
  <1>5. UsersInv'
    BY <1>1, <1>2, TakeKeeps
  <1>6. TimerExact'
    <2>1. Worked' = Worked
      BY <1>1, <1>2, WorkedStays
    <2> QED
      BY <1>1, <1>2, <2>1 DEF TimerExact, Worked
  <1>7. MapsInv'
    <2>1. \A g \in Files \ {f} : stage'[g] = stage[g] /\ vma'[g] = vma[g]
      BY <1>1, <1>2 DEF CharTypeOK
    <2>2. stage'[f] = "closing" /\ \A i \in Slots : ~Mapped(f, i)'
      BY <1>1, <1>2, <1>3 DEF CharTypeOK, Mapped
    <2>3. MappingsMatch'
      <3> SUFFICES ASSUME NEW x
                   PROVE  x \in owned' <=> x \in Files \X Slots /\ stage'[x[1]] = "open" /\ Mapped(x[1], x[2])'
        BY DEF MappingsMatch
      <3>1. x \in owned <=> x \in Files \X Slots /\ stage[x[1]] = "open" /\ Mapped(x[1], x[2])
        BY <1>2 DEF MapsInv, MappingsMatch
      <3>2. CASE x[1] = f
        BY <1>1, <2>2, <3>1, <3>2 DEF CloseMapped
      <3>3. CASE x[1] # f
        BY <1>1, <2>1, <3>1, <3>3 DEF Mapped
      <3> QED
        BY <3>2, <3>3
    <2>4. RowsRight'
      BY <1>2, <2>1, <2>2 DEF MapsInv, RowsRight, Mapped
    <2> QED
      BY <2>3, <2>4 DEF MapsInv
  <1>8. ScratchInv'
    BY <1>1, <1>2, ScratchFrame DEF ScratchInv, ScratchRight
  <1> QED
    BY <1>4, <1>5, <1>6, <1>7, <1>8 DEF CharInv

LEMMA ReleaseKeeps ==
    ASSUME CharInv, NEW w \in Workers, release_returns(w)
    PROVE  CharInv'
  <1> DEFINE f == call[w].file
  <1>1. /\ call[w] # IDLE /\ call[w].method = "release" /\ call' = [call EXCEPT ![w] = IDLE]
        /\ stage' = [stage EXCEPT ![f] = "closed"]
        /\ \/ timer_needed' = timer_needed - 1 /\ UNCHANGED failed
           \/ failed' = failed + 1 /\ UNCHANGED timer_needed
        /\ UNCHANGED <<vma, f_flags, compat, scratch, owned, given>>
    BY DEF release_returns, In, Finish
  <1>2. CharTypeOK /\ UsersInv /\ TimerExact /\ MapsInv /\ ScratchInv
    BY DEF CharInv
  <1>3. f \in Files /\ stage[f] = "closing"
    BY <1>1, <1>2 DEF CharTypeOK, CallRecords, UsersInv, StagesRight
  <1>4. ScratchInv'
    <2>1. ~compat[w]
      BY <1>1, <1>2 DEF ScratchInv, CompatRight, InOut
    <2> QED
      BY <1>1, <1>2, <2>1, ScratchFrame
  <1>5. CharTypeOK'
    BY <1>1, <1>2, <1>3 DEF CharTypeOK
  <1>6. UsersInv'
    BY <1>1, <1>2, LeaveKeeps
  <1>7. TimerExact'
    <2>1. Cardinality(Worked') = Cardinality(Worked) - 1 /\ Cardinality(Worked) \in Nat
      BY <1>1, <1>2, <1>3, WorkedLoses
    <2>2. timer_needed = Cardinality(Worked) + failed /\ failed \in Nat /\ timer_needed \in Int
      BY <1>2 DEF TimerExact, Worked, CharTypeOK
    <2>3. timer_needed' = Cardinality(Worked') + failed'
      BY <1>1, <2>1, <2>2
    <2> QED
      BY <2>3 DEF TimerExact, Worked
  <1>8. MapsInv'
    <2>1. \A x \in Files \X Slots : stage'[x[1]] = "open" <=> stage[x[1]] = "open"
      BY <1>1, <1>2, <1>3 DEF CharTypeOK
    <2> QED
      BY <1>1, <1>2, <2>1 DEF MapsInv, MappingsMatch, RowsRight, Mapped
  <1> QED
    BY <1>4, <1>5, <1>6, <1>7, <1>8 DEF CharInv

LEMMA IoKeeps ==
    ASSUME CharInv, NEW w \in Workers, NEW f \in Files, NEW m \in InOut, NEW is32 \in BOOLEAN,
           NEW nb \in BOOLEAN, linux_io(w, f, m, is32, nb)
    PROVE  CharInv'
  <1> DEFINE b == Compat32(f, is32, m)
  <1>1. /\ call[w] = IDLE /\ stage[f] = "open"
        /\ compat' = [compat EXCEPT ![w] = b]
        /\ call' = [call EXCEPT ![w] = [file |-> f, method |-> m]]
        /\ UNCHANGED <<timer_needed, stage, vma, scratch, owned, given, failed>>
    BY DEF linux_io, Calls
  <1>2. CharTypeOK /\ UsersInv /\ TimerExact /\ MapsInv /\ ScratchInv
    BY DEF CharInv
  <1>3. b \in BOOLEAN
    BY DEF Compat32
  <1> HIDE DEF b
  <1>4. CharTypeOK'
    BY <1>1, <1>2, <1>3 DEF CharTypeOK, CallRecords, InOut
  <1>5. UsersInv'
    <2>1. \A v \in Workers \ {w} : call'[v] = call[v]
      BY <1>1, <1>2 DEF CharTypeOK
    <2>2. call'[w].file = f /\ call'[w].method = m /\ m \notin {"open", "release"}
      BY <1>1, <1>2 DEF CharTypeOK, InOut
    <2>3. StagesRight'
      BY <1>1, <1>2, <2>1, <2>2 DEF StagesRight, UsersInv
    <2>4. AloneAtEnds'
      BY <1>1, <1>2, <2>1, <2>2 DEF AloneAtEnds, UsersInv
    <2> QED
      BY <2>3, <2>4 DEF UsersInv
  <1>6. ScratchInv'
    <2>1. ~scratch[w].ptr /\ given[w] = {}
      BY <1>1, <1>2 DEF ScratchInv, ScratchRight
    <2>2. \A v \in Workers \ {w} : call'[v] = call[v] /\ compat'[v] = compat[v]
      BY <1>1, <1>2 DEF CharTypeOK
    <2>3. call'[w] # IDLE /\ call'[w].method = m
      <3>1. call'[w] = [file |-> f, method |-> m]
        BY <1>1, <1>2 DEF CharTypeOK
      <3>2. [file |-> f, method |-> m] \in CallRecords
        BY DEF InOut, CallRecords
      <3> QED
        BY <3>1, <3>2, CharDeviceAssumption
    <2>4. ScratchRight'
      BY <1>1, <1>2, <2>1, <2>2, <2>3 DEF ScratchInv, ScratchRight
    <2>5. CompatRight'
      BY <1>1, <1>2, <2>2, <2>3 DEF ScratchInv, CompatRight
    <2> QED
      BY <2>4, <2>5 DEF ScratchInv
  <1>7. TimerExact' /\ MapsInv'
    BY <1>1, <1>2, MapsFrame, TimerFrame
  <1> QED
    BY <1>4, <1>5, <1>6, <1>7 DEF CharInv

LEMMA AllocKeeps ==
    ASSUME CharInv, NEW w \in Workers, NEW len \in Nat, compat_alloc_user_space(w, len)
    PROVE  CharInv'
  <1> DEFINE s == IF scratch[w].ptr THEN scratch[w] ELSE [ptr |-> TRUE, offset |-> 0]
             fit == len <= ALLOC_MAX - s.offset
             new == IF fit THEN {<<s.offset, len>>} ELSE {}
             next == [s EXCEPT !.offset = IF fit THEN @ + len ELSE @]
  <1>1. /\ call[w] # IDLE /\ compat[w] /\ len <= ALLOC_MAX
        /\ scratch' = [scratch EXCEPT ![w] = next]
        /\ given' = [given EXCEPT ![w] = @ \cup new]
        /\ UNCHANGED <<timer_needed, stage, vma, f_flags, call, compat, owned, failed>>
    BY DEF compat_alloc_user_space, Remaining
  <1>2. CharTypeOK /\ UsersInv /\ TimerExact /\ MapsInv /\ ScratchInv /\ ALLOC_MAX \in Nat
    BY CharDeviceAssumption DEF CharInv
  <1>3. /\ s = [ptr |-> TRUE, offset |-> s.offset] /\ s.offset \in Nat /\ s.offset <= ALLOC_MAX
        /\ given[w] \in SUBSET (Nat \X Nat) /\ \A a \in given[w] : a[1] + a[2] <= s.offset
    <2>1. scratch[w] \in [ptr : BOOLEAN, offset : Nat] /\ given[w] \in SUBSET (Nat \X Nat)
      BY <1>2 DEF CharTypeOK
    <2>2. CASE scratch[w].ptr
      <3>1. s = scratch[w] /\ s.ptr = TRUE
        BY <2>1, <2>2
      <3>2. s = [ptr |-> TRUE, offset |-> s.offset] /\ s.offset \in Nat
        BY <2>1, <3>1, BlockOf
      <3> QED
        BY <1>2, <2>1, <2>2, <3>1, <3>2 DEF ScratchInv, ScratchRight
    <2>3. CASE ~scratch[w].ptr
      <3>1. s = [ptr |-> TRUE, offset |-> 0] /\ given[w] = {}
        BY <1>2, <2>3 DEF ScratchInv, ScratchRight
      <3>2. s.offset = 0
        BY <3>1, BlockRight
      <3>3. s.offset \in Nat /\ s.offset <= ALLOC_MAX
        BY <1>2, <3>2
      <3> QED
        BY <2>1, <3>1, <3>2, <3>3
    <2> QED
      BY <2>2, <2>3
  <1> HIDE DEF s
  <1>4. /\ next.ptr = TRUE /\ next \in [ptr : BOOLEAN, offset : Nat]
        /\ next.offset = IF fit THEN s.offset + len ELSE s.offset
    <2>1. PICK o \in Nat : s = [ptr |-> TRUE, offset |-> o]
      BY <1>3
    <2> DEFINE n == IF fit THEN s.offset + len ELSE s.offset
    <2>2. s.offset = o
      BY <2>1, BlockRight
    <2>3. next = [s EXCEPT !.offset = n]
      OBVIOUS
    <2>4. n \in Nat
      BY <2>2
    <2> HIDE DEF n, next
    <2>5. next = [ptr |-> TRUE, offset |-> n]
      BY <2>1, <2>3, BlockRight
    <2>6. next.ptr = TRUE /\ next.offset = n /\ next \in [ptr : BOOLEAN, offset : Nat]
      BY <2>4, <2>5, BlockRight
    <2> QED
      BY <2>6 DEF n
  <1>5. next.offset <= ALLOC_MAX /\ s.offset <= next.offset
    BY <1>2, <1>3, <1>4
  <1>6. new \in SUBSET (Nat \X Nat) /\ \A a \in new : a[1] = s.offset /\ a[1] + a[2] = next.offset
    BY <1>2, <1>3, <1>4
  <1>7. \A a, b \in new : a = b
    OBVIOUS
  <1> HIDE DEF next, new, fit
  <1>8. CharTypeOK'
    BY <1>1, <1>2, <1>3, <1>4, <1>6 DEF CharTypeOK
  <1>9. scratch'[w] = next /\ given'[w] = given[w] \cup new
    BY <1>1, <1>2 DEF CharTypeOK
  <1>10. ScratchRight'
    <2>1. \A v \in Workers \ {w} : scratch'[v] = scratch[v] /\ given'[v] = given[v]
      BY <1>1, <1>2 DEF CharTypeOK
    <2>2. \A a \in given[w] \cup new : a[1] + a[2] <= next.offset
      BY <1>3, <1>4, <1>5, <1>6
    <2>3. ASSUME NEW a \in given[w] \cup new, NEW b \in given[w] \cup new, a # b
          PROVE  a[1] + a[2] <= b[1] \/ b[1] + b[2] <= a[1]
      <3>1. CASE a \in given[w] /\ b \in given[w]
        BY <1>2, <2>3, <3>1 DEF ScratchInv, ScratchRight
      <3>2. CASE a \in given[w] /\ b \in new
        BY <1>3, <1>6, <3>2
      <3>3. CASE a \in new /\ b \in given[w]
        BY <1>3, <1>6, <3>3
      <3> QED
        BY <1>7, <2>3, <3>1, <3>2, <3>3
    <2> SUFFICES ASSUME NEW v \in Workers
                 PROVE  /\ compat'[v] => call'[v] # IDLE
                        /\ scratch'[v].ptr => /\ compat'[v] /\ scratch'[v].offset <= ALLOC_MAX
                                              /\ \A a \in given'[v] : a[1] + a[2] <= scratch'[v].offset
                        /\ ~scratch'[v].ptr => given'[v] = {}
                        /\ \A a, b \in given'[v] : a # b => a[1] + a[2] <= b[1] \/ b[1] + b[2] <= a[1]
      BY DEF ScratchRight
    <2>4. CASE v = w
      BY <1>1, <1>4, <1>5, <1>9, <2>2, <2>3, <2>4
    <2>5. CASE v # w
      BY <1>1, <1>2, <2>1, <2>5 DEF ScratchInv, ScratchRight
    <2> QED
      BY <2>4, <2>5
  <1>11. CompatRight'
    BY <1>1, <1>2 DEF ScratchInv, CompatRight
  <1>12. UsersInv' /\ TimerExact' /\ MapsInv'
    BY <1>1, <1>2, MapsFrame, TimerFrame, UsersFrame
  <1> QED
    BY <1>8, <1>10, <1>11, <1>12 DEF CharInv, ScratchInv

(* A request for data ends. *)
LEMMA EndKeeps ==
    ASSUME CharTypeOK, UsersInv, ScratchInv, NEW w \in Workers, Finish(w), EndOfCompat(w),
           UNCHANGED stage
    PROVE  /\ UsersInv' /\ ScratchInv' /\ call' \in [Workers -> CallRecords \cup {IDLE}]
           /\ compat' \in [Workers -> BOOLEAN]
           /\ scratch' \in [Workers -> [ptr : BOOLEAN, offset : Nat]]
           /\ given' \in [Workers -> SUBSET (Nat \X Nat)]
  <1>1. call' = [call EXCEPT ![w] = IDLE] /\ compat' = [compat EXCEPT ![w] = FALSE]
    BY DEF Finish, EndOfCompat
  <1>2. given' = [given EXCEPT ![w] = {}]
    BY DEF EndOfCompat
  <1>3. scratch' = [scratch EXCEPT ![w] = [ptr |-> FALSE, offset |-> scratch[w].offset]]
    <2>1. scratch[w] \in [ptr : BOOLEAN, offset : Nat]
      BY DEF CharTypeOK
    <2>2. (IF compat[w] THEN FALSE ELSE scratch[w].ptr) = FALSE
      BY <2>1 DEF ScratchInv, ScratchRight
    <2>3. [scratch[w] EXCEPT !.ptr = FALSE] = [ptr |-> FALSE, offset |-> scratch[w].offset]
      <3> DEFINE p == scratch[w].ptr
                 o == scratch[w].offset
      <3>1. scratch[w] = [ptr |-> p, offset |-> o]
        BY <2>1, BlockOf
      <3> HIDE DEF p, o
      <3>2. [[ptr |-> p, offset |-> o] EXCEPT !.ptr = FALSE] = [ptr |-> FALSE, offset |-> o]
        BY BlockFreed, Zenon
      <3>3. [scratch[w] EXCEPT !.ptr = FALSE] = [ptr |-> FALSE, offset |-> o]
        BY <3>1, <3>2, Zenon
      <3> QED
        BY <3>3 DEF o
    <2>4. scratch' = [scratch EXCEPT ![w] = [scratch[w] EXCEPT !.ptr = FALSE]]
      BY <2>2 DEF EndOfCompat
    <2> QED
      BY <2>3, <2>4
  <1>4. UsersInv'
    <2>1. \A v \in Workers : call'[v] # IDLE => v # w /\ call'[v] = call[v]
      BY <1>1 DEF CharTypeOK
    <2> QED
      BY <2>1 DEF UsersInv, StagesRight, AloneAtEnds
  <1>5. ScratchInv'
    <2>1. \A v \in Workers \ {w} : /\ call'[v] = call[v] /\ compat'[v] = compat[v]
                                   /\ scratch'[v] = scratch[v] /\ given'[v] = given[v]
      BY <1>1, <1>2, <1>3 DEF CharTypeOK
    <2>2. ~compat'[w] /\ ~scratch'[w].ptr /\ given'[w] = {}
      BY <1>1, <1>2, <1>3 DEF CharTypeOK
    <2> QED
      BY <2>1, <2>2 DEF ScratchInv, ScratchRight, CompatRight
  <1> QED
    BY <1>1, <1>2, <1>3, <1>4, <1>5 DEF CharTypeOK

LEMMA IoReturnsKeeps ==
    ASSUME CharInv, NEW w \in Workers, linux_io_returns(w)
    PROVE  CharInv'
  <1>1. Finish(w) /\ EndOfCompat(w) /\ UNCHANGED <<timer_needed, stage, vma, f_flags, owned, failed>>
    BY DEF linux_io_returns
  <1>2. CharTypeOK /\ UsersInv /\ TimerExact /\ MapsInv /\ ScratchInv
    BY DEF CharInv
  <1>3. /\ UsersInv' /\ ScratchInv' /\ call' \in [Workers -> CallRecords \cup {IDLE}]
        /\ compat' \in [Workers -> BOOLEAN]
        /\ scratch' \in [Workers -> [ptr : BOOLEAN, offset : Nat]]
        /\ given' \in [Workers -> SUBSET (Nat \X Nat)]
    BY <1>1, <1>2, EndKeeps
  <1>4. CharTypeOK'
    BY <1>1, <1>2, <1>3 DEF CharTypeOK
  <1> QED
    BY <1>1, <1>2, <1>3, <1>4, MapsFrame, TimerFrame DEF CharInv

-----------------------------------------------------------------------------
(* linux_mmap() *)
LEMMA RoundUpRight ==
    ASSUME NEW len \in Nat
    PROVE  RoundUp(len) \in Nat
  <1> DEFINE x == len + PAGE_SIZE
             q == x \div PAGE_SIZE
  <1>1. PAGE_SIZE \in Nat \ {0} /\ x \in Int /\ x >= PAGE_SIZE
    BY CharDeviceAssumption
  <1> HIDE DEF x
  <1>2. q \in Int /\ x = q * PAGE_SIZE + (x % PAGE_SIZE) /\ x % PAGE_SIZE \in 0..(PAGE_SIZE - 1)
    BY <1>1, Divides
  <1> HIDE DEF q
  <1>3. q * PAGE_SIZE \in Int /\ q * PAGE_SIZE >= 0
    BY <1>1, <1>2, Scales
  <1> QED
    BY <1>3 DEF RoundUp, q, x

LEMMA PageRight ==
    ASSUME NEW off \in Nat
    PROVE  off \div PAGE_SIZE \in Nat
  <1> DEFINE q == off \div PAGE_SIZE
  <1>1. PAGE_SIZE \in Nat \ {0}
    BY CharDeviceAssumption
  <1>2. q \in Int /\ off % PAGE_SIZE \in 0..(PAGE_SIZE - 1) /\ off = q * PAGE_SIZE + (off % PAGE_SIZE)
    BY <1>1, Divides
  <1> HIDE DEF q
  <1>3. q <= -1 => q * PAGE_SIZE <= -PAGE_SIZE
    BY <1>1, <1>2, Scales
  <1>4. q * PAGE_SIZE \in Int
    BY <1>1, <1>2, Scales
  <1>5. q >= 0
    BY <1>1, <1>2, <1>3, <1>4
  <1> QED
    BY <1>2, <1>5 DEF q

LEMMA FirstRight ==
    ASSUME NEW S \in SUBSET Slots, S # {}
    PROVE  FirstOf(S) \in S
  <1>1. \E x \in S : \A y \in S : x <= y
    BY HasLeast, CharDeviceAssumption
  <1> QED
    BY <1>1 DEF FirstOf

(* The table has room if the driver is called. *)
LEMMA AnswerRight ==
    ASSUME CharTypeOK, RowsRight, NEW f \in Files, NEW off \in Nat, NEW len \in Nat
    PROVE  /\ MmapAnswer(f, off, len) \in {NULL, FAILED, <<f, off \div PAGE_SIZE>>}
           /\ MmapAnswer(f, off, len) = NULL => FreeSlots(f) # {}
  <1>1. NULL # FAILED /\ <<f, off \div PAGE_SIZE>> \notin {NULL, FAILED}
    BY PageRight, CharDeviceAssumption
  <1>2. CASE "mmap" \notin Methods[f] \/ len = 0 \/ off % PAGE_SIZE # 0
    BY <1>1, <1>2 DEF MmapAnswer
  <1>3. CASE /\ ~("mmap" \notin Methods[f] \/ len = 0 \/ off % PAGE_SIZE # 0)
             /\ Already(f, off, len) # {}
    <2> DEFINE i == FirstOf(Already(f, off, len))
    <2>1. i \in Already(f, off, len)
      BY <1>3, FirstRight DEF Already
    <2> HIDE DEF i
    <2>2. i \in Slots /\ Mapped(f, i) /\ vma[f][i].pgoff = off \div PAGE_SIZE
      BY <2>1 DEF Already
    <2>3. vma[f][i].addr = <<f, off \div PAGE_SIZE>>
      BY <2>2 DEF RowsRight
    <2>4. MmapAnswer(f, off, len) = vma[f][i].addr
      BY <1>3 DEF MmapAnswer, i
    <2> QED
      BY <1>1, <2>3, <2>4
  <1>4. CASE /\ ~("mmap" \notin Methods[f] \/ len = 0 \/ off % PAGE_SIZE # 0)
             /\ Already(f, off, len) = {}
    BY <1>1, <1>4 DEF MmapAnswer
  <1> QED
    BY <1>2, <1>3, <1>4

LEMMA MmapKeeps ==
    ASSUME CharInv, NEW w \in Workers, NEW f \in Files, NEW off \in Nat, NEW len \in Nat,
           linux_mmap(w, f, off, len)
    PROVE  CharInv' /\ KeepsMappings
  <1> DEFINE i == FirstOf(FreeSlots(f))
             p == off \div PAGE_SIZE
             row(a) == [len |-> RoundUp(len), pgoff |-> p, addr |-> a]
  <1>1. /\ call[w] # IDLE /\ call[w].method = "ioctl" /\ call[w].file = f
        /\ MmapAnswer(f, off, len) = NULL
        /\ Finish(w) /\ EndOfCompat(w) /\ UNCHANGED <<timer_needed, stage, f_flags, failed>>
    BY DEF linux_mmap, In
  <1>2. CharTypeOK /\ UsersInv /\ TimerExact /\ MapsInv /\ ScratchInv
    BY DEF CharInv
  <1>3. i \in Slots /\ ~Mapped(f, i) /\ stage[f] = "open"
    <2>1. FreeSlots(f) # {}
      BY <1>1, <1>2, AnswerRight DEF MapsInv
    <2>2. i \in FreeSlots(f)
      BY <2>1, FirstRight DEF FreeSlots
    <2> QED
      BY <1>1, <1>2, <2>2 DEF FreeSlots, UsersInv, StagesRight, InOut
  <1>4. \/ vma' = [vma EXCEPT ![f][i] = row(<<f, p>>)] /\ owned' = owned \cup {<<f, i>>}
        \/ vma' = [vma EXCEPT ![f][i] = row(FAILED)] /\ owned' = owned
    BY DEF linux_mmap
  <1>5. p \in Nat /\ RoundUp(len) \in Nat
    BY PageRight, RoundUpRight
  <1>6. \A a \in {FAILED, <<f, p>>} : row(a) \in Rows /\ row(a).pgoff = p /\ row(a).addr = a
    BY <1>5 DEF Rows
  <1>7. <<f, p>> \notin {NULL, FAILED}
    BY <1>5, CharDeviceAssumption
  <1> HIDE DEF i, p, row
  <1>8. PICK a \in {FAILED, <<f, p>>} :
            /\ vma' = [vma EXCEPT ![f][i] = row(a)]
            /\ owned' = IF a = FAILED THEN owned ELSE owned \cup {<<f, i>>}
    BY <1>4, <1>7
  <1>9. /\ vma' \in [Files -> [Slots -> Rows]] /\ vma'[f][i] = row(a)
        /\ \A g \in Files, j \in Slots : g # f \/ j # i => vma'[g][j] = vma[g][j]
    BY <1>2, <1>3, <1>6, <1>8 DEF CharTypeOK
  <1>10. /\ UsersInv' /\ ScratchInv' /\ call' \in [Workers -> CallRecords \cup {IDLE}]
         /\ compat' \in [Workers -> BOOLEAN]
         /\ scratch' \in [Workers -> [ptr : BOOLEAN, offset : Nat]]
         /\ given' \in [Workers -> SUBSET (Nat \X Nat)]
    BY <1>1, <1>2, EndKeeps
  <1>11. CharTypeOK'
    BY <1>1, <1>2, <1>9, <1>10 DEF CharTypeOK
  <1>12. TimerExact'
    BY <1>1, <1>2, TimerFrame
  <1>13. RowsRight'
    BY <1>2, <1>6, <1>9 DEF RowsRight, Mapped, MapsInv
  <1>14. MappingsMatch'
    <2> SUFFICES ASSUME NEW x
                 PROVE  x \in owned' <=> x \in Files \X Slots /\ stage'[x[1]] = "open" /\ Mapped(x[1], x[2])'
      BY DEF MappingsMatch
    <2>1. x \in owned <=> x \in Files \X Slots /\ stage[x[1]] = "open" /\ Mapped(x[1], x[2])
      BY <1>2 DEF MapsInv, MappingsMatch
    <2>2. vma'[f][i].addr \notin {NULL, FAILED} <=> a # FAILED
      BY <1>6, <1>7, <1>9
    <2>3. CASE x = <<f, i>>
      BY <1>1, <1>3, <1>8, <2>1, <2>2, <2>3 DEF Mapped
    <2>4. CASE x # <<f, i>>
      <3>1. x \in Files \X Slots => Mapped(x[1], x[2])' <=> Mapped(x[1], x[2])
        BY <1>9, <2>4 DEF Mapped
      <3> QED
        BY <1>1, <1>8, <2>1, <2>4, <3>1
    <2> QED
      BY <2>3, <2>4
  <1>15. KeepsMappings
    BY <1>3, <1>9 DEF KeepsMappings
  <1> QED
    BY <1>2, <1>10, <1>11, <1>12, <1>13, <1>14, <1>15 DEF CharInv, MapsInv

-----------------------------------------------------------------------------
(* Every other action leaves the tables of open files alone. *)
LEMMA MappingsFrame ==
    ASSUME CharInv, NEW w \in Workers, NEW f \in Files,
           v4b_open(w, f) \/ linux_close(w, f) \/ linux_open_returns(w) \/ UNCHANGED vma
    PROVE  KeepsMappings
  <1>1. CASE UNCHANGED vma
    BY <1>1 DEF KeepsMappings
  <1>2. CASE v4b_open(w, f)
    BY <1>1, <1>2 DEF v4b_open
  <1>3. CASE linux_close(w, f)
    <2>1. stage'[f] = "closing" /\ \A g \in Files \ {f} : vma'[g] = vma[g]
      BY <1>3 DEF linux_close, CharInv, CharTypeOK
    <2> QED
      BY <2>1 DEF KeepsMappings
  <1>4. CASE linux_open_returns(w)
    <2> DEFINE g == call[w].file
    <2>1. g \in Files /\ stage[g] = "opening"
      BY <1>4 DEF linux_open_returns, In, CharInv, CharTypeOK, CallRecords, UsersInv, StagesRight
    <2>2. \A h \in Files \ {g} : vma'[h] = vma[h]
      BY <1>4 DEF linux_open_returns, CharInv, CharTypeOK
    <2> QED
      BY <2>1, <2>2 DEF KeepsMappings
  <1> QED
    BY <1>1, <1>2, <1>3, <1>4

(* linux_get_user_pages() stays inside the buffer, for every start and     *)
(* number of pages.                                                        *)
LEMMA PagesRight ==
    ASSUME CharTypeOK, NEW f \in Files, NEW start \in Nat, NEW n \in Nat
    PROVE  PagesOf(f, start, n)
  <1> DEFINE S == {i \in Slots : HasPages(f, i, start, n)}
             i == FirstOf(S)
  <1> SUFFICES ASSUME NEW pg \in linux_get_user_pages(f, start, n)
               PROVE  0 <= pg[2] /\ pg[2] + PAGE_SIZE <= vma[f][pg[1]].len
    BY DEF PagesOf
  <1>1. S # {} /\ pg \in {<<i, start - PAGE_SIZE + j * PAGE_SIZE>> : j \in 0..n-1}
    BY DEF linux_get_user_pages
  <1>2. i \in Slots /\ HasPages(f, i, start, n)
    BY <1>1, FirstRight
  <1>3. PICK j \in 0..n-1 : pg = <<i, start - PAGE_SIZE + j * PAGE_SIZE>>
    BY <1>1
  <1> HIDE DEF i, S
  <1> DEFINE len == vma[f][i].len
             room == PAGE_SIZE + len - start
             q == room \div PAGE_SIZE
  <1>4. len \in Nat /\ PAGE_SIZE \in Nat \ {0} /\ j \in Nat /\ n \in Nat
    BY <1>2, CharDeviceAssumption DEF CharTypeOK, Rows
  <1>5. start >= PAGE_SIZE /\ n <= q /\ room \in Int
    BY <1>2, <1>4 DEF HasPages
  <1> HIDE DEF room
  <1>6. q \in Int /\ room % PAGE_SIZE \in 0..(PAGE_SIZE - 1) /\ room = q * PAGE_SIZE + (room % PAGE_SIZE)
    BY <1>4, <1>5, Divides
  <1> HIDE DEF q
  <1>7. (j + 1) * PAGE_SIZE <= q * PAGE_SIZE /\ q * PAGE_SIZE \in Int /\ (j + 1) * PAGE_SIZE \in Int
    BY <1>4, <1>5, <1>6, Grows
  <1>8. (j + 1) * PAGE_SIZE = j * PAGE_SIZE + PAGE_SIZE /\ j * PAGE_SIZE \in Int /\ j * PAGE_SIZE >= 0
    BY <1>4, Scales
  <1>9. (j + 1) * PAGE_SIZE <= PAGE_SIZE + len - start
    BY <1>4, <1>6, <1>7 DEF room
  <1>10. pg[1] = i /\ pg[2] = start - PAGE_SIZE + j * PAGE_SIZE
    BY <1>3
  <1> DEFINE jp == j * PAGE_SIZE
  <1>11. jp \in Int /\ jp >= 0 /\ jp + PAGE_SIZE <= PAGE_SIZE + len - start
    BY <1>8, <1>9
  <1>12. pg[2] = start - PAGE_SIZE + jp
    BY <1>10
  <1> HIDE DEF jp, len
  <1>13. 0 <= pg[2] /\ pg[2] + PAGE_SIZE <= len
    BY <1>4, <1>5, <1>11, <1>12
  <1> QED
    BY <1>10, <1>13 DEF len

LEMMA CharNextInv == CharInv /\ [CharNext]_charVars => CharInv' /\ (KeepsMappings \/ UNCHANGED charVars)
  <1> SUFFICES ASSUME CharInv, [CharNext]_charVars
               PROVE  CharInv' /\ (KeepsMappings \/ UNCHANGED charVars)
    OBVIOUS
  <1>1. CASE UNCHANGED charVars
    <2>1. CharTypeOK' /\ UsersInv' /\ TimerExact' /\ MapsInv'
      BY <1>1, UsersFrame, TimerFrame, MapsFrame DEF CharInv, CharTypeOK, charVars
    <2>2. ScratchInv'
      BY <1>1 DEF CharInv, ScratchInv, ScratchRight, CompatRight, charVars
    <2> QED
      BY <1>1, <2>1, <2>2 DEF CharInv
  <1>2. ASSUME NEW w \in Workers, NEW f \in Files, v4b_open(w, f) \/ linux_close(w, f)
        PROVE  CharInv' /\ KeepsMappings
    BY <1>2, OpenKeeps, CloseKeeps, MappingsFrame
  <1>3. ASSUME NEW w \in Workers, NEW f \in Files, NEW m \in {"read", "write", "ioctl"},
               NEW is32 \in BOOLEAN, NEW nb \in BOOLEAN, linux_io(w, f, m, is32, nb)
        PROVE  CharInv' /\ KeepsMappings
    <2>1. UNCHANGED vma
      BY <1>3 DEF linux_io
    <2> QED
      BY <1>3, <2>1, IoKeeps, MappingsFrame DEF InOut
  <1>4. ASSUME NEW w \in Workers, NEW f \in Files, NEW off \in Offsets, NEW len \in Lens,
               linux_mmap(w, f, off, len)
        PROVE  CharInv' /\ KeepsMappings
    BY <1>4, MmapKeeps, CharDeviceAssumption
  <1>5. ASSUME NEW w \in Workers, linux_open_returns(w)
        PROVE  CharInv' /\ KeepsMappings
    <2>1. call[w].file \in Files
      BY <1>5 DEF linux_open_returns, In, CharInv, CharTypeOK, CallRecords
    <2> QED
      BY <1>5, <2>1, OpenReturnsKeeps, MappingsFrame
  <1>6. ASSUME NEW w \in Workers, release_returns(w) \/ linux_io_returns(w)
        PROVE  CharInv' /\ KeepsMappings
    <2>1. UNCHANGED vma
      BY <1>6 DEF release_returns, linux_io_returns
    <2> QED
      BY <1>6, <2>1, ReleaseKeeps, IoReturnsKeeps DEF KeepsMappings
  <1>7. ASSUME NEW w \in Workers, NEW len \in 1..ALLOC_MAX + 1, compat_alloc_user_space(w, len)
        PROVE  CharInv' /\ KeepsMappings
    <2>1. UNCHANGED vma /\ len \in Nat
      BY <1>7, CharDeviceAssumption DEF compat_alloc_user_space
    <2> QED
      BY <1>7, <2>1, AllocKeeps DEF KeepsMappings
  <1> QED
    BY <1>1, <1>2, <1>3, <1>4, <1>5, <1>6, <1>7 DEF CharNext

(* The inductive invariant of the character devices. *)
THEOREM CharInductive == CharSpec => []CharInv
  <1>1. CharInv /\ [CharNext]_charVars => CharInv'
    BY CharNextInv
  <1> QED
    BY CharInitInv, <1>1, PTL DEF CharSpec

(* For any number of files, workers, slots and any size of a page:         *)
(* need_timer() counts the files that drivers work on, the mappings of the *)
(* driver are those of the tables, VIDIOC_QUERYBUF answers with its own    *)
(* buffer, linux_get_user_pages() stays inside it, and the scratch memory  *)
(* of compat_alloc_user_space() belongs to one request.                    *)
THEOREM FilesAlwaysRight == CharSpec => []FilesRight
  <1>1. CharInv => FilesRight
    <2> SUFFICES ASSUME CharInv PROVE FilesRight
      OBVIOUS
    <2>1. CharTypeOK /\ TimerExact /\ MappingsMatch /\ RowsRight /\ ScratchInv
      BY DEF CharInv, MapsInv
    <2>2. AnswerIsTheBuffer
      BY <2>1, AnswerRight, CharDeviceAssumption DEF AnswerIsTheBuffer
    <2>3. PagesInside
      <3>1. \A start \in 0..4 * PAGE_SIZE : start \in Nat
        BY CharDeviceAssumption
      <3>2. \A n \in 0..4 : n \in Nat
        OBVIOUS
      <3> QED
        BY <2>1, <3>1, <3>2, PagesRight DEF PagesInside
    <2>4. ScratchOfRequest
      <3> SUFFICES ASSUME NEW w \in Workers
                   PROVE  /\ call[w] = IDLE => ~scratch[w].ptr /\ ~compat[w]
                          /\ \A a \in given[w] : a[1] + a[2] <= ALLOC_MAX
                          /\ \A a, b \in given[w] : a # b => a[1] + a[2] <= b[1] \/ b[1] + b[2] <= a[1]
        BY DEF ScratchOfRequest
      <3>1. call[w] = IDLE => ~scratch[w].ptr /\ ~compat[w]
        BY <2>1 DEF ScratchInv, ScratchRight
      <3>2. scratch[w].offset \in Nat /\ given[w] \in SUBSET (Nat \X Nat) /\ ALLOC_MAX \in Nat
        BY <2>1, CharDeviceAssumption DEF CharTypeOK
      <3>3. \A a \in given[w] : a[1] + a[2] <= ALLOC_MAX
        BY <2>1, <3>2 DEF ScratchInv, ScratchRight
      <3> QED
        BY <2>1, <3>1, <3>3 DEF ScratchInv, ScratchRight
    <2> QED
      BY <2>1, <2>2, <2>3, <2>4 DEF FilesRight
  <1> QED
    BY <1>1, CharInductive, PTL

(* linux_get_user_pages() stays inside the buffer for every address and    *)
(* every number of pages, not only for those that the run tries.           *)
THEOREM PagesAlwaysInside ==
    CharSpec => [](\A f \in Files, start, n \in Nat : PagesOf(f, start, n))
  <1>1. CharInv => \A f \in Files, start, n \in Nat : PagesOf(f, start, n)
    BY PagesRight DEF CharInv
  <1> QED
    BY <1>1, CharInductive, PTL

(* What VIDIOC_QUERYBUF told a program of a mapping stays true until the   *)
(* file is closed.                                                         *)
THEOREM MappingsAlwaysStay == CharSpec => MappingsStay
  <1>1. CharInv /\ [CharNext]_charVars => [KeepsMappings]_charVars
    BY CharNextInv
  <1> QED
    BY <1>1, CharInductive, PTL DEF CharSpec, MappingsStay

-----------------------------------------------------------------------------
(* DeviceTable: numbers, and what they are made of. *)

FNumbers == 0..F_V4B_MAX * SUB_MAX - 1

LEMMA KindNames ==
    /\ Kinds = {"video", "audio", "ca", "demux", "dvr", "frontend", "osd", "sec", "dvbvideo",
                "lirc", "evdev", "joydev", "roccat"}
    /\ \A k \in Kinds : Number[k] \in 0..12
    /\ \A k, l \in Kinds : Number[k] = Number[l] => k = l
    /\ \A n \in 0..12 : \E k \in Kinds : Number[k] = n
  <1>1. Kinds = {"video", "audio", "ca", "demux", "dvr", "frontend", "osd", "sec", "dvbvideo",
                "lirc", "evdev", "joydev", "roccat"}
    BY DEF Kinds, Number
  <1>2. \A k \in Kinds : Number[k] \in 0..12
    BY <1>1 DEF Number
  <1>3. \A k, l \in Kinds : Number[k] = Number[l] => k = l
    BY <1>1 DEF Number
  <1>4. \A n \in 0..12 : \E k \in Kinds : Number[k] = n
    BY <1>1 DEF Number
  <1> QED BY <1>1, <1>2, <1>3, <1>4

LEMMA DvbNames ==
    /\ Dvb = {"dvbvideo", "audio", "sec", "frontend", "demux", "dvr", "ca", "osd"}
    /\ Dvb \subseteq Kinds
    /\ \A k \in Dvb : DvbType[k] \in 0..15
    /\ \A k, l \in Dvb : DvbType[k] = DvbType[l] => k = l
    /\ \A k \in Kinds : Group(k) \in Groups
  <1>1. Dvb = {"dvbvideo", "audio", "sec", "frontend", "demux", "dvr", "ca", "osd"}
    BY DEF Dvb, DvbType
  <1>2. Dvb \subseteq Kinds
    BY <1>1, KindNames
  <1>3. \A k \in Dvb : DvbType[k] \in 0..15
    BY <1>1 DEF DvbType
  <1>4. \A k, l \in Dvb : DvbType[k] = DvbType[l] => k = l
    BY <1>1 DEF DvbType
  <1>5. \A k \in Kinds : Group(k) \in Groups
    BY <1>1, KindNames DEF Group, Groups
  <1> QED BY <1>1, <1>2, <1>3, <1>4, <1>5

(* v4b_create() takes every number apart, and no two alike. *)
LEMMA DecodeRight ==
    ASSUME NEW f \in FNumbers
    PROVE  /\ Decode(f).kind \in Kinds /\ Decode(f).a \in Subdevs /\ Decode(f).q \in 0..3
           /\ GroupOf(f) \in Groups
           /\ f = Number[Decode(f).kind] * 32 + 8 * Decode(f).q + Decode(f).a
  <1>1. f \in 0..415 /\ f \div 32 \in 0..12
    BY DEF FNumbers, F_V4B_MAX, SUB_MAX, F_V4B_SUBDEV_MAX, F_V4B_SUBSUBDEV_MAX
  <1>2. KindOf(f) \in Kinds /\ Number[KindOf(f)] = f \div 32
    <2>1. SUB_MAX = 32
      BY DEF SUB_MAX, F_V4B_SUBDEV_MAX, F_V4B_SUBSUBDEV_MAX
    <2>2. \E k \in Kinds : Number[k] = f \div SUB_MAX
      BY <1>1, <2>1, KindNames
    <2> QED BY <2>1, <2>2 DEF KindOf
  <1>3. Decode(f).kind = KindOf(f) /\ Decode(f).a = f % 8 /\ Decode(f).q = (f \div 8) % 4
    BY DEF Decode, F_V4B_SUBDEV_MAX, F_V4B_SUBSUBDEV_MAX
  <1>4. f % 8 \in 0..7 /\ (f \div 8) % 4 \in 0..3 /\ f = (f \div 32) * 32 + 8 * ((f \div 8) % 4) + (f % 8)
    BY <1>1
  <1>5. Decode(f).kind \in Kinds /\ Decode(f).a \in Subdevs /\ Decode(f).q \in 0..3
    BY <1>2, <1>3, <1>4 DEF Subdevs, F_V4B_SUBDEV_MAX
  <1>6. GroupOf(f) \in Groups
    BY <1>5, DvbNames DEF GroupOf
  <1> QED BY <1>2, <1>3, <1>4, <1>5, <1>6

(* cdev_set_device() and v4b_create(). *)
LEMMA SlotRight ==
    ASSUME NEW k \in Kinds, NEW a \in 0..7, NEW q \in 0..3
    PROVE  /\ SlotOf(k, a + F_V4B_SUBDEV_MAX * q) \in FNumbers
           /\ Decode(SlotOf(k, a + F_V4B_SUBDEV_MAX * q)) = [kind |-> k, a |-> a, q |-> q]
  <1> DEFINE f == SlotOf(k, a + F_V4B_SUBDEV_MAX * q)
             n == Number[k]
  <1>1. n \in 0..12
    BY KindNames
  <1>2. f = n * 32 + (a + 8 * q)
    BY DEF SlotOf, SUB_MAX, F_V4B_SUBDEV_MAX, F_V4B_SUBSUBDEV_MAX
  <1> HIDE DEF n, f
  <1>3. f \in 0..415 /\ f \div 32 = n /\ f % 8 = a /\ (f \div 8) % 4 = q
    BY <1>1, <1>2
  <1>4. KindOf(f) = k
    BY <1>3, KindNames DEF KindOf, SUB_MAX, F_V4B_SUBDEV_MAX, F_V4B_SUBSUBDEV_MAX, n
  <1>5. f \in FNumbers
    BY <1>3 DEF FNumbers, F_V4B_MAX, SUB_MAX, F_V4B_SUBDEV_MAX, F_V4B_SUBSUBDEV_MAX
  <1>6. Decode(f) = [kind |-> k, a |-> a, q |-> q]
    BY <1>3, <1>4 DEF Decode, F_V4B_SUBDEV_MAX, F_V4B_SUBSUBDEV_MAX
  <1> QED BY <1>5, <1>6 DEF f

(* The exclusive or of two bits each is one bit pattern for another. *)
LEMMA SwapRight ==
    ASSUME NEW type \in Nat
    PROVE  /\ \A id \in 0..3 : Swap(type, id) \in 0..3
           /\ \A id, jd \in 0..3 : Swap(type, id) = Swap(type, jd) => id = jd
  <1>1. dvb_swap_fe \in 0..3
    BY TableAssumption
  <1>2. \A id \in 0..3 : Xor(id, dvb_swap_fe) \in 0..3
    BY <1>1 DEF Xor
  <1>3. \A id, jd \in 0..3 : Xor(id, dvb_swap_fe) = Xor(jd, dvb_swap_fe) => id = jd
    BY <1>1 DEF Xor
  <1> QED BY <1>2, <1>3 DEF Swap

(* What a place tells of the number that is there. *)
Allowed == {mm \in STRING \X Nat : mm[2] < MinorMax(mm[1])}

Shows(d, mm) ==
    \/ mm[1] = "input" /\ d.kind = "evdev" /\ d.q = 0 /\ mm[2] = 64 + d.a
    \/ mm[1] = "input" /\ d.kind = "joydev" /\ d.q = 0 /\ mm[2] = d.a
    \/ mm[1] \in {"lirc", "roccat", "video"} /\ d.kind = mm[1] /\ d.q = 0 /\ mm[2] = d.a
    \/ /\ mm[1] = "dvb" /\ d.kind \in Dvb /\ DvbType[d.kind] = mm[2] % 16
       /\ d.q = Swap(mm[2] % 16, (mm[2] \div 16) % 4) /\ d.a = mm[2] \div 64

LEMMA SmallRight ==
    ASSUME NEW k \in Kinds, NEW s \in Nat, NEW f \in Small(k, s)
    PROVE  f \in FNumbers /\ Decode(f) = [kind |-> k, a |-> s, q |-> 0]
  <1>1. s \in 0..7 /\ f = SlotOf(k, s)
    BY DEF Small, F_V4B_SUBDEV_MAX
  <1>2. s + F_V4B_SUBDEV_MAX * 0 = s
    BY DEF F_V4B_SUBDEV_MAX
  <1>3. /\ SlotOf(k, s + F_V4B_SUBDEV_MAX * 0) \in FNumbers
        /\ Decode(SlotOf(k, s + F_V4B_SUBDEV_MAX * 0)) = [kind |-> k, a |-> s, q |-> 0]
    <2>1. 0 \in 0..3
      OBVIOUS
    <2> QED BY ONLY <1>1, <2>1, k \in Kinds, SlotRight
  <1> QED BY <1>1, <1>2, <1>3

LEMMA PlaceRight ==
    ASSUME NEW mm \in Allowed, NEW f \in Place(mm)
    PROVE  f \in FNumbers /\ Shows(Decode(f), mm)
  <1> DEFINE major == mm[1]  minor == mm[2]
  <1>0. major \in STRING /\ minor \in Nat /\ minor < MinorMax(major)
    BY DEF Allowed
  <1>1. CASE major = "input" /\ minor \div 64 = 1
    <2>1. f \in Small("evdev", minor % 64)
      BY <1>1 DEF Place
    <2>2. minor % 64 \in Nat /\ minor = 64 + (minor % 64)
      BY <1>0, <1>1
    <2>3. f \in FNumbers /\ Decode(f) = [kind |-> "evdev", a |-> minor % 64, q |-> 0]
      BY <2>1, <2>2, SmallRight, KindNames
    <2> QED BY <1>1, <2>2, <2>3 DEF Shows
  <1>2. CASE major = "input" /\ minor \div 64 = 0
    <2>1. f \in Small("joydev", minor % 64)
      BY <1>2 DEF Place
    <2>2. minor % 64 \in Nat /\ minor = minor % 64
      BY <1>0, <1>2
    <2>3. f \in FNumbers /\ Decode(f) = [kind |-> "joydev", a |-> minor % 64, q |-> 0]
      BY <2>1, <2>2, SmallRight, KindNames
    <2> QED BY <1>2, <2>2, <2>3 DEF Shows
  <1>3. CASE major \in {"lirc", "roccat", "video"}
    <2>1. f \in Small(major, minor % 256)
      BY <1>3 DEF Place
    <2>2. minor % 256 \in Nat /\ minor = minor % 256
      BY <1>0, <1>3 DEF MinorMax
    <2>3. f \in FNumbers /\ Decode(f) = [kind |-> major, a |-> minor % 256, q |-> 0]
      BY <1>3, <2>1, <2>2, SmallRight, KindNames
    <2> QED BY <1>3, <2>2, <2>3 DEF Shows
  <1>4. CASE major = "dvb"
    <2> DEFINE ad == ((minor \div 64) % 1024) % 256
               type == minor % 16
               id == Swap(type, (minor \div 16) % 4)
    <2>1. f \in DvbPlace(minor)
      BY <1>4 DEF Place
    <2>2. ad = minor \div 64 /\ ad \in Nat /\ type \in Nat /\ (minor \div 16) % 4 \in 0..3
      BY <1>0, <1>4 DEF MinorMax
    <2>3. id \in 0..3
      BY <2>2, SwapRight
    <2>4. PICK k \in Dvb : /\ DvbType[k] = type /\ ad < 8
                           /\ f = SlotOf(k, ad + F_V4B_SUBDEV_MAX * id)
      BY <2>1 DEF DvbPlace, F_V4B_SUBDEV_MAX
    <2>5. f \in FNumbers /\ Decode(f) = [kind |-> k, a |-> ad, q |-> id]
      <3>1. k \in Kinds /\ ad \in 0..7
        BY <2>2, <2>4, DvbNames
      <3> HIDE DEF ad, id, type
      <3>2. /\ SlotOf(k, ad + F_V4B_SUBDEV_MAX * id) \in FNumbers
            /\ Decode(SlotOf(k, ad + F_V4B_SUBDEV_MAX * id)) = [kind |-> k, a |-> ad, q |-> id]
        BY ONLY <3>1, <2>3, SlotRight
      <3> QED BY <2>4, <3>2
    <2> QED BY <1>4, <2>2, <2>4, <2>5 DEF Shows
  <1> QED BY <1>1, <1>2, <1>3, <1>4 DEF Place

(* cdev_set_device(): two numbers are never in one place. *)
LEMMA PlaceOnce ==
    ASSUME NEW mm \in Allowed, NEW nn \in Allowed, NEW f \in Place(mm), f \in Place(nn)
    PROVE  mm = nn
  <1> DEFINE d == Decode(f)
  <1>0. /\ mm = <<mm[1], mm[2]>> /\ nn = <<nn[1], nn[2]>>
        /\ mm[2] \in Nat /\ nn[2] \in Nat
    BY DEF Allowed
  <1>1. Shows(d, mm) /\ Shows(d, nn)
    BY PlaceRight
  <1> HIDE DEF d
  <1>2. mm[1] = nn[1]
    BY <1>1, DvbNames DEF Shows
  <1>3. mm[2] = nn[2]
    <2>1. CASE mm[1] # "dvb"
      BY <1>1, <1>2, <2>1 DEF Shows
    <2>2. CASE mm[1] = "dvb"
      <3>1. /\ mm[2] % 16 = nn[2] % 16 /\ mm[2] \div 64 = nn[2] \div 64
            /\ Swap(mm[2] % 16, (mm[2] \div 16) % 4) = Swap(nn[2] % 16, (nn[2] \div 16) % 4)
        BY <1>1, <1>2, <2>2 DEF Shows
      <3>2. mm[2] % 16 \in Nat /\ (mm[2] \div 16) % 4 \in 0..3 /\ (nn[2] \div 16) % 4 \in 0..3
        BY <1>0
      <3>3. (mm[2] \div 16) % 4 = (nn[2] \div 16) % 4
        BY <3>1, <3>2, SwapRight
      <3> QED BY <1>0, <3>1, <3>3
    <2> QED BY <2>1, <2>2
  <1> QED BY <1>0, <1>2, <1>3

(* The numbers of a cdev are such numbers. *)
LEMMA NumbersAllowed ==
    ASSUME NEW c \in Cdevs
    PROVE  Numbers(c) \subseteq Allowed
  <1> SUFFICES ASSUME NEW mm \in Numbers(c) PROVE mm \in Allowed
    OBVIOUS
  <1>1. /\ Mm[c] \in STRING \X Nat /\ Count[c] \in Nat
        /\ Mm[c][2] + Count[c] <= MinorMax(Mm[c][1])
    BY TableAssumption
  <1>2. PICK k \in 0..Count[c]-1 : mm = <<Mm[c][1], Mm[c][2] + k>>
    BY DEF Numbers
  <1>3. MinorMax(mm[1]) \in Nat
    BY DEF MinorMax
  <1> QED BY <1>1, <1>2, <1>3 DEF Allowed

-----------------------------------------------------------------------------
(* DeviceTable: the inductive invariant. *)

TableTypeOK ==
    /\ u_videodev \in [Daemons -> {-1} \cup Nat]
    /\ live \in [Daemons -> SUBSET Cdevs] /\ DOMAIN registry = Daemons
    /\ place \in [Daemons -> Nat]
    /\ phase \in [Daemons -> {"start", "scan", "unit", "create", "done", "exit"}]
    /\ unit_num \in [Daemons -> [Groups -> [Subdevs -> {-1} \cup Nat]]]
    /\ found \in [Daemons -> SUBSET FNumbers] /\ refused \in [Daemons -> SUBSET FNumbers]
    /\ units \in [Groups -> SUBSET (Nat \X Daemons)]

(* The devices of a process have different numbers, and what is in the     *)
(* registry is one of them, at its place.                                  *)
NumbersApart ==
    \A p \in Daemons : \A c, d \in live[p] : c # d => Numbers(c) \cap Numbers(d) = {}
EntriesRight ==
    \A p \in Daemons : \A f \in DOMAIN registry[p] :
        /\ registry[p][f].cdev \in live[p]
        /\ registry[p][f].mm \in Numbers(registry[p][f].cdev)
        /\ f \in Place(registry[p][f].mm)
RegInv == NumbersApart /\ EntriesRight /\ RegistryExact

(* A unit has one holder. *)
UnitsOnce == \A g \in Groups : \A x, y \in units[g] : x[1] = y[1] => x = y

(* The units of a process are those of -v, or its own of cuse, a different *)
(* one for each adapter.                                                   *)
Works(p) == phase[p] \notin {"start", "exit"}
Chosen(p) == \A g \in Groups, a \in Subdevs : unit_num[p][g][a] = u_videodev[p] + a
Held(p) ==
    \A g \in Groups, a \in Subdevs : unit_num[p][g][a] >= 0 =>
        /\ <<unit_num[p][g][a], p>> \in units[g]
        /\ \A b \in Subdevs : unit_num[p][g][a] = unit_num[p][g][b] => a = b
UnitsRight(p) ==
    Works(p) => (u_videodev[p] >= 0 => Chosen(p)) /\ (u_videodev[p] < 0 => Held(p))

(* Where v4b_create() is: at a number that it has found, with a unit from  *)
(* cuse_alloc_unit_number_by_id() on.                                      *)
AtRight(p) ==
    /\ phase[p] \in {"unit", "create"} => place[p] \in FNumbers
    /\ phase[p] = "create" => UnitOf(p, place[p]) >= 0

(* A file was made for a number that v4b_create() has passed, with the     *)
(* unit of its adapter.                                                    *)
Made(x) ==
    /\ x.owner \in Daemons /\ Works(x.owner)
    /\ x.f \in FNumbers /\ x.f < place[x.owner]
    /\ x.kind = Decode(x.f).kind /\ x.q = Decode(x.f).q
    /\ x.kind # "evdev" => x.unit = UnitOf(x.owner, x.f) /\ x.unit >= 0
NodesRight == \A x \in nodes : x \in KernelNodes \/ Made(x)

(* A number that was found is at hand, or has its file or a reason not to. *)
Served(p, f) ==
    \/ \E x \in nodes : x.owner = p /\ x.f = f
    \/ Decode(f).kind = "evdev" /\ f \in refused[p]
FoundRight ==
    ChoiceAlone =>
        \A p \in Daemons : \A f \in found[p] :
            (f = place[p] /\ phase[p] \in {"unit", "create"}) \/ Served(p, f)

HoldInv == UnitsOnce /\ \A p \in Daemons : UnitsRight(p) /\ AtRight(p)
TableInv == TableTypeOK /\ RegInv /\ HoldInv /\ NodesRight /\ FoundRight

-----------------------------------------------------------------------------
(* DeviceTable: the registry. *)

LEMMA RegAdd ==
    ASSUME TableTypeOK, RegInv, NEW p \in Daemons, NEW c \in Cdevs, cdev_add(p, c)
    PROVE  RegInv'
  <1> DEFINE R == registry'[p]
  <1>1. /\ live'[p] = live[p] \cup {c} /\ c \notin live[p] /\ live[p] \subseteq Cdevs
        /\ \A r \in Daemons \ {p} : live'[r] = live[r] /\ registry'[r] = registry[r]
        /\ \A d \in live[p] : Numbers(c) \cap Numbers(d) = {}
    BY DEF cdev_add, TableTypeOK
  <1>2. /\ DOMAIN R = DOMAIN registry[p] \cup Places(c)
        /\ \A f \in Places(c) : R[f] = [cdev |-> c, mm |-> CHOOSE mm \in Numbers(c) : f \in Place(mm)]
        /\ \A f \in DOMAIN registry[p] \ Places(c) : R[f] = registry[p][f]
    BY DEF cdev_add, TableTypeOK
  <1> HIDE DEF R
  <1>3. ASSUME NEW mm \in Numbers(c), NEW f \in Place(mm)
        PROVE  f \in Places(c) /\ R[f] = [cdev |-> c, mm |-> mm]
    <2>1. f \in Places(c)
      BY DEF Places
    <2> DEFINE nn == CHOOSE nn \in Numbers(c) : f \in Place(nn)
    <2>2. nn \in Numbers(c) /\ f \in Place(nn)
      OBVIOUS
    <2> HIDE DEF nn
    <2>3. nn = mm
      BY <2>2, NumbersAllowed, PlaceOnce
    <2> QED BY <1>2, <2>1, <2>3 DEF nn
  <1>4. ASSUME NEW d \in live[p], NEW mm \in Numbers(d), NEW f \in Place(mm)
        PROVE  f \in DOMAIN registry[p] /\ f \notin Places(c)
    <2>1. f \in DOMAIN registry[p]
      BY DEF RegInv, RegistryExact
    <2>2. f \notin Places(c)
      <3> SUFFICES ASSUME NEW nn \in Numbers(c), f \in Place(nn) PROVE FALSE
        BY DEF Places
      <3>1. mm = nn
        BY <1>1, NumbersAllowed, PlaceOnce
      <3> QED BY <1>1, <3>1
    <2> QED BY <2>1, <2>2
  <1>5. NumbersApart'
    BY <1>1 DEF RegInv, NumbersApart
  <1>6. EntriesRight'
    <2> SUFFICES ASSUME NEW f \in DOMAIN R
                 PROVE  R[f].cdev \in live'[p] /\ R[f].mm \in Numbers(R[f].cdev) /\ f \in Place(R[f].mm)
      BY <1>1 DEF RegInv, EntriesRight, R
    <2>1. CASE f \in Places(c)
      <3>1. PICK mm \in Numbers(c) : f \in Place(mm)
        BY <2>1 DEF Places
      <3>2. R[f] = [cdev |-> c, mm |-> mm]
        BY <1>3, <3>1
      <3>3. R[f].cdev = c /\ R[f].mm = mm
        BY <3>2
      <3> QED BY <1>1, <3>1, <3>3
    <2>2. CASE f \in DOMAIN registry[p] \ Places(c)
      BY <1>1, <1>2, <2>2 DEF RegInv, EntriesRight
    <2> QED BY <1>2, <2>1, <2>2
  <1>7. RegistryExact'
    <2>1. ASSUME NEW d \in live'[p], NEW mm \in Numbers(d), NEW f \in Place(mm)
          PROVE  f \in DOMAIN R /\ R[f] = [cdev |-> d, mm |-> mm]
      <3>1. CASE d = c
        BY <1>2, <1>3, <3>1
      <3>2. CASE d \in live[p]
        <4>1. registry[p][f] = [cdev |-> d, mm |-> mm]
          BY <3>2 DEF RegInv, RegistryExact
        <4> QED BY <1>2, <1>4, <3>2, <4>1
      <3> QED BY <1>1, <3>1, <3>2
    <2> QED BY <1>1, <1>6, <2>1 DEF RegInv, RegistryExact, EntriesRight, R
  <1> QED BY <1>5, <1>6, <1>7 DEF RegInv

LEMMA RegDel ==
    ASSUME TableTypeOK, RegInv, NEW p \in Daemons, NEW c \in Cdevs, cdev_del(p, c)
    PROVE  RegInv'
  <1> DEFINE R == registry'[p]
  <1>1. /\ live'[p] = live[p] \ {c} /\ c \in live[p] /\ live[p] \subseteq Cdevs
        /\ \A r \in Daemons \ {p} : live'[r] = live[r] /\ registry'[r] = registry[r]
    BY DEF cdev_del, TableTypeOK
  <1>2. /\ DOMAIN R = DOMAIN registry[p] \ Places(c)
        /\ \A f \in DOMAIN R : R[f] = registry[p][f]
    BY DEF cdev_del, TableTypeOK
  <1> HIDE DEF R
  <1>3. NumbersApart'
    BY <1>1 DEF RegInv, NumbersApart
  <1>4. EntriesRight'
    <2> SUFFICES ASSUME NEW f \in DOMAIN R
                 PROVE  R[f].cdev \in live'[p] /\ R[f].mm \in Numbers(R[f].cdev) /\ f \in Place(R[f].mm)
      BY <1>1 DEF RegInv, EntriesRight, R
    <2>1. /\ R[f].cdev \in live[p] /\ R[f].mm \in Numbers(R[f].cdev) /\ f \in Place(R[f].mm)
      BY <1>2 DEF RegInv, EntriesRight
    <2>2. R[f].cdev # c
      BY <1>2, <2>1 DEF Places
    <2> QED BY <1>1, <2>1, <2>2
  <1>5. RegistryExact'
    <2>1. ASSUME NEW d \in live'[p], NEW mm \in Numbers(d), NEW f \in Place(mm)
          PROVE  f \in DOMAIN R /\ R[f] = [cdev |-> d, mm |-> mm]
      <3>1. d \in live[p] /\ d # c
        BY <1>1
      <3>2. f \in DOMAIN registry[p] /\ registry[p][f] = [cdev |-> d, mm |-> mm]
        BY <3>1 DEF RegInv, RegistryExact
      <3>3. f \notin Places(c)
        <4> SUFFICES ASSUME NEW nn \in Numbers(c), f \in Place(nn) PROVE FALSE
          BY DEF Places
        <4>1. mm = nn
          BY <1>1, <3>1, NumbersAllowed, PlaceOnce
        <4> QED BY <1>1, <3>1, <4>1 DEF RegInv, NumbersApart
      <3> QED BY <1>2, <3>2, <3>3
    <2> QED BY <1>1, <1>4, <2>1 DEF RegInv, RegistryExact, EntriesRight, R
  <1> QED BY <1>3, <1>4, <1>5 DEF RegInv

LEMMA RegSame ==
    ASSUME RegInv, UNCHANGED <<live, registry>>
    PROVE  RegInv'
  BY DEF RegInv, NumbersApart, EntriesRight, RegistryExact

LEMMA RegExit ==
    ASSUME TableTypeOK, RegInv, NEW p \in Daemons, ExitProcess(p)
    PROVE  RegInv'
  <1>1. /\ live'[p] = {} /\ registry'[p] = <<>>
        /\ \A r \in Daemons \ {p} : live'[r] = live[r] /\ registry'[r] = registry[r]
    BY DEF ExitProcess, TableTypeOK
  <1>2. DOMAIN registry'[p] = {}
    BY <1>1
  <1> QED BY <1>1, <1>2 DEF RegInv, NumbersApart, EntriesRight, RegistryExact

-----------------------------------------------------------------------------
(* DeviceTable: units and files. *)

(* The processes that have begun are more and more. *)
LEMMA AloneBefore ==
    ASSUME UNCHANGED u_videodev, ChoiceAlone',
           \A p \in Daemons : phase[p] # "start" => phase'[p] # "start"
    PROVE  ChoiceAlone
  BY DEF ChoiceAlone

(* cuse_alloc_unit_number_by_id(): no other has the unit, and nobody's     *)
(* unit changes that a file was made with.                                 *)
LEMMA AllocRight ==
    ASSUME TableTypeOK, UnitsOnce, UNCHANGED u_videodev,
           NEW p \in Daemons, NEW f \in FNumbers, Alloc(p, GroupOf(f), Decode(f).a),
           UnitOf(p, f) < 0 \/ Decode(f).kind = "evdev"
    PROVE  /\ unit_num' \in [Daemons -> [Groups -> [Subdevs -> {-1} \cup Nat]]]
           /\ units' \in [Groups -> SUBSET (Nat \X Daemons)]
           /\ UnitsOnce'
           /\ \A r \in Daemons : Held(r) => Held(r)'
           /\ \A r \in Daemons : r # p => (Chosen(r) => Chosen(r)')
           /\ \A r \in Daemons : r # p => \A h \in FNumbers : UnitOf(r, h)' = UnitOf(r, h)
           /\ \A h \in FNumbers : UnitOf(p, h) >= 0 /\ Decode(h).kind # "evdev"
                                  => UnitOf(p, h)' = UnitOf(p, h)
           /\ UnitOf(p, f)' >= 0
  <1> DEFINE g == GroupOf(f)  a == Decode(f).a
  <1>1. PICK u \in Free(g) : /\ unit_num' = [unit_num EXCEPT ![p][g][a] = u]
                             /\ units' = [units EXCEPT ![g] = @ \cup {<<u, p>>}]
    BY DEF Alloc
  <1>2. u \in Nat /\ \A x \in units[g] : x[1] # u
    BY TableAssumption DEF Free
  <1>3. g \in Groups /\ a \in Subdevs /\ Decode(f).kind \in Kinds
    BY DecodeRight
  <1>4. UnitOf(p, f) = unit_num[p][g][a]
    BY DEF UnitOf
  <1> HIDE DEF g, a
  <1>5. /\ unit_num' \in [Daemons -> [Groups -> [Subdevs -> {-1} \cup Nat]]]
        /\ units' \in [Groups -> SUBSET (Nat \X Daemons)]
    BY <1>1, <1>2, <1>3 DEF TableTypeOK
  <1>6. /\ unit_num'[p][g][a] = u /\ units'[g] = units[g] \cup {<<u, p>>}
        /\ \A h \in Groups \ {g} : units'[h] = units[h] /\ unit_num'[p][h] = unit_num[p][h]
        /\ \A b \in Subdevs \ {a} : unit_num'[p][g][b] = unit_num[p][g][b]
        /\ \A r \in Daemons \ {p} : unit_num'[r] = unit_num[r]
    BY <1>1, <1>3 DEF TableTypeOK
  <1>7. UnitsOnce'
    <2> SUFFICES ASSUME NEW x \in units'[g], NEW y \in units'[g], x[1] = y[1] PROVE x = y
      BY <1>6 DEF UnitsOnce
    <2> QED BY <1>2, <1>3, <1>6 DEF UnitsOnce
  <1>8. ASSUME NEW r \in Daemons, Held(r) PROVE Held(r)'
    <2> SUFFICES ASSUME NEW h \in Groups, NEW b \in Subdevs, unit_num'[r][h][b] >= 0
                 PROVE  /\ <<unit_num'[r][h][b], r>> \in units'[h]
                        /\ \A e \in Subdevs : unit_num'[r][h][b] = unit_num'[r][h][e] => b = e
      BY DEF Held
    <2>1. CASE r # p \/ h # g
      BY <1>3, <1>6, <1>8, <2>1 DEF Held
    <2>2. CASE r = p /\ h = g
      <3>1. \A e \in Subdevs : unit_num[p][g][e] >= 0 => unit_num[p][g][e] # u
        BY <1>2, <1>3, <1>8, <2>2 DEF Held
      <3>2. \A e \in Subdevs : unit_num[p][g][e] \in {-1} \cup Nat
        BY <1>3 DEF TableTypeOK
      <3>3. \A e \in Subdevs \ {a} : unit_num'[p][g][e] # u
        BY <1>2, <1>6, <3>1, <3>2
      <3>4. CASE b = a
        BY <1>3, <1>6, <2>2, <3>3, <3>4
      <3>5. CASE b # a
        <4>1. unit_num'[p][g][b] = unit_num[p][g][b] /\ unit_num[p][g][b] >= 0
          BY <1>6, <2>2, <3>5
        <4>2. <<unit_num[p][g][b], p>> \in units[g]
          BY <1>3, <1>8, <2>2, <4>1 DEF Held
        <4>3. \A e \in Subdevs \ {a} : unit_num[p][g][b] = unit_num[p][g][e] => b = e
          BY <1>3, <1>8, <2>2, <4>1 DEF Held
        <4> QED BY <1>6, <2>2, <3>3, <3>5, <4>1, <4>2, <4>3
      <3> QED BY <3>4, <3>5
    <2> QED BY <2>1, <2>2
  <1>9. ASSUME NEW h \in FNumbers, UnitOf(p, h) >= 0, Decode(h).kind # "evdev"
        PROVE  UnitOf(p, h)' = UnitOf(p, h)
    <2>1. GroupOf(h) \in Groups /\ Decode(h).a \in Subdevs /\ Decode(h).kind \in Kinds
      BY DecodeRight
    <2>2. CASE GroupOf(h) # g \/ Decode(h).a # a
      BY <1>6, <2>1, <2>2 DEF UnitOf
    <2>3. CASE GroupOf(h) = g /\ Decode(h).a = a
      <3>1. ~(UnitOf(p, f) < 0)
        <4>1. UnitOf(p, h) = UnitOf(p, f)
          BY <1>4, <2>3 DEF UnitOf
        <4>2. UnitOf(p, f) \in {-1} \cup Nat
          BY <1>3, <1>4 DEF TableTypeOK
        <4> QED BY <1>9, <4>1, <4>2
      <3>2. g = "evdev"
        BY <3>1, DvbNames DEF g, GroupOf, Group
      <3>3. GroupOf(h) # "evdev"
        BY <1>9, DvbNames DEF GroupOf, Group
      <3> QED BY <2>3, <3>2, <3>3
    <2> QED BY <2>2, <2>3
  <1>10. UnitOf(p, f)' >= 0
    BY <1>2, <1>6 DEF UnitOf, g, a
  <1>11. \A r \in Daemons : r # p => (Chosen(r) => Chosen(r)') /\ \A h \in FNumbers : UnitOf(r, h)' = UnitOf(r, h)
    BY <1>6 DEF Chosen, UnitOf
  <1> QED BY <1>5, <1>7, <1>8, <1>9, <1>10, <1>11

(* Two processes, or two adapters of one, have no unit in common. *)
LEMMA SameUnit ==
    ASSUME TableTypeOK, HoldInv, ChoiceAlone,
           NEW p \in Daemons, NEW r \in Daemons, Works(p), Works(r),
           NEW g \in Groups, NEW a \in Subdevs, NEW b \in Subdevs,
           unit_num[p][g][a] >= 0, unit_num[p][g][a] = unit_num[r][g][b]
    PROVE  p = r /\ a = b
  <1>1. a \in Nat /\ b \in Nat
    BY DEF Subdevs
  <1>2. /\ u_videodev[p] \in {-1} \cup Nat /\ u_videodev[r] \in {-1} \cup Nat
    BY DEF TableTypeOK
  <1>3. CASE u_videodev[p] >= 0 \/ u_videodev[r] >= 0
    <2>1. p = r
      BY <1>3 DEF ChoiceAlone, Works
    <2>2. unit_num[p][g][a] = u_videodev[p] + a /\ unit_num[p][g][b] = u_videodev[p] + b
      BY <1>3, <2>1 DEF HoldInv, UnitsRight, Chosen
    <2> QED BY <1>1, <1>2, <2>1, <2>2
  <1>4. CASE u_videodev[p] < 0 /\ u_videodev[r] < 0
    <2>1. Held(p) /\ Held(r)
      BY <1>4 DEF HoldInv, UnitsRight
    <2>2. <<unit_num[p][g][a], p>> \in units[g] /\ <<unit_num[p][g][a], r>> \in units[g]
      BY <2>1 DEF Held
    <2>3. <<unit_num[p][g][a], p>> = <<unit_num[p][g][a], r>>
      <3>1. \A x, y \in units[g] : x[1] = y[1] => x = y
        BY DEF HoldInv, UnitsOnce
      <3> QED BY <2>2, <3>1
    <2>4. p = r
      BY <2>3
    <2> QED BY <2>1, <2>4 DEF Held
  <1> QED BY <1>2, <1>3, <1>4

(* cuse_dev_create(): the name of a file that is not an evdev one is free. *)
LEMMA NotTaken ==
    ASSUME TableTypeOK, HoldInv, NodesRight, ChoiceAlone,
           NEW p \in Daemons, phase[p] = "create", Decode(place[p]).kind # "evdev"
    PROVE  ~IsTaken(Decode(place[p]).kind, UnitOf(p, place[p]), Decode(place[p]).q)
  <1> DEFINE f == place[p]  d == Decode(f)
  <1> SUFFICES ASSUME NEW y \in nodes, y.kind = d.kind, y.unit = UnitOf(p, f), y.q = d.q PROVE FALSE
    BY DEF IsTaken
  <1>1. f \in FNumbers /\ UnitOf(p, f) >= 0 /\ Works(p)
    BY DEF HoldInv, AtRight, Works
  <1>2. Made(y)
    BY TableAssumption DEF NodesRight
  <1> DEFINE r == y.owner  h == y.f
  <1>3. /\ r \in Daemons /\ Works(r) /\ h \in FNumbers /\ h < place[r]
        /\ Decode(h).kind = d.kind /\ Decode(h).q = d.q /\ UnitOf(r, h) = UnitOf(p, f)
    BY <1>2 DEF Made
  <1>4. /\ GroupOf(h) = GroupOf(f) /\ GroupOf(f) \in Groups /\ d.a \in Subdevs /\ Decode(h).a \in Subdevs
    BY <1>1, <1>3, DecodeRight DEF GroupOf
  <1>5. unit_num[p][GroupOf(f)][d.a] = unit_num[r][GroupOf(f)][Decode(h).a] /\ unit_num[p][GroupOf(f)][d.a] >= 0
    BY <1>1, <1>3, <1>4 DEF UnitOf
  <1> HIDE DEF f, d, r, h
  <1>6. p = r /\ d.a = Decode(h).a
    BY <1>1, <1>3, <1>4, <1>5, SameUnit
  <1>7. /\ f = Number[Decode(f).kind] * 32 + 8 * Decode(f).q + Decode(f).a
        /\ h = Number[Decode(h).kind] * 32 + 8 * Decode(h).q + Decode(h).a
    BY <1>1, <1>3, DecodeRight
  <1>8. h = f
    BY <1>3, <1>6, <1>7 DEF d
  <1>9. f \in Nat /\ h < f
    BY <1>3, <1>6 DEF f, TableTypeOK
  <1> QED BY <1>8, <1>9

-----------------------------------------------------------------------------
(* DeviceTable: the steps. *)

LEMMA TableInitInv == TableInit => TableInv
  <1> SUFFICES ASSUME TableInit PROVE TableInv
    OBVIOUS
  <1>1. TableTypeOK
    BY TableAssumption DEF TableInit, TableTypeOK
  <1>2. RegInv
    <2>1. \A p \in Daemons : live[p] = {} /\ DOMAIN registry[p] = {}
      BY DEF TableInit
    <2> QED BY <2>1 DEF RegInv, NumbersApart, EntriesRight, RegistryExact
  <1>3. HoldInv
    BY DEF TableInit, HoldInv, UnitsOnce, UnitsRight, Works, AtRight
  <1>4. NodesRight /\ FoundRight
    BY DEF TableInit, NodesRight, FoundRight
  <1> QED BY <1>1, <1>2, <1>3, <1>4 DEF TableInv

(* A step of one process that leaves its units and files. *)
LEMMA FilesKept ==
    ASSUME TableTypeOK, NodesRight, UNCHANGED <<unit_num, nodes>>,
           \A r \in Daemons : Works(r) => Works(r)' /\ place'[r] >= place[r], place' \in [Daemons -> Nat]
    PROVE  NodesRight'
  <1> SUFFICES ASSUME NEW x \in nodes, Made(x) PROVE Made(x)'
    BY DEF NodesRight
  <1>1. x.owner \in Daemons /\ Works(x.owner) /\ x.f \in FNumbers /\ x.f < place[x.owner]
    BY DEF Made
  <1>2. x.f \in Nat /\ place[x.owner] \in Nat /\ place'[x.owner] \in Nat
    BY <1>1 DEF FNumbers, TableTypeOK
  <1>3. x.f < place'[x.owner] /\ Works(x.owner)'
    BY <1>1, <1>2
  <1> QED BY <1>3 DEF Made, UnitOf

LEMMA BeginKeeps ==
    ASSUME TableInv, NEW p \in Daemons, CreateBegin(p)
    PROVE  TableInv'
  <1> USE DEF TableInv
  <1>1. /\ phase[p] = "start" /\ phase'[p] = "scan"
        /\ \A r \in Daemons \ {p} : phase'[r] = phase[r] /\ unit_num'[r] = unit_num[r]
        /\ \A g \in Groups, a \in Subdevs :
               unit_num'[p][g][a] = IF u_videodev[p] < 0 THEN -1 ELSE u_videodev[p] + a
        /\ UNCHANGED <<u_videodev, live, registry, place, found, refused, units, nodes>>
    BY DEF CreateBegin, TableTypeOK
  <1>2. TableTypeOK'
    <2>1. unit_num' \in [Daemons -> [Groups -> [Subdevs -> {-1} \cup Nat]]]
      <3>1. \A a \in Subdevs : (IF u_videodev[p] < 0 THEN -1 ELSE u_videodev[p] + a) \in {-1} \cup Nat
        <4>1. u_videodev[p] \in {-1} \cup Nat /\ \A a \in Subdevs : a \in Nat
          BY DEF TableTypeOK, Subdevs
        <4> QED BY <4>1
      <3> QED BY <3>1 DEF CreateBegin, TableTypeOK
    <2> QED BY <2>1 DEF CreateBegin, TableTypeOK
  <1>3. RegInv'
    BY <1>1, RegSame
  <1>4. HoldInv'
    <2>1. \A r \in Daemons \ {p} : UnitsRight(r)' /\ AtRight(r)'
      BY <1>1 DEF HoldInv, UnitsRight, AtRight, Works, Chosen, Held, UnitOf
    <2>0. u_videodev[p] \in {-1} \cup Nat
      BY DEF TableTypeOK
    <2>2. u_videodev[p] >= 0 => Chosen(p)'
      BY <1>1, <2>0 DEF Chosen
    <2>3. u_videodev[p] < 0 => Held(p)'
      BY <1>1 DEF Held
    <2>4. UnitsRight(p)' /\ AtRight(p)'
      BY <1>1, <2>2, <2>3 DEF UnitsRight, AtRight
    <2> QED BY <1>1, <2>1, <2>4 DEF HoldInv, UnitsOnce
  <1>5. NodesRight'
    <2> SUFFICES ASSUME NEW x \in nodes, Made(x) PROVE Made(x)'
      BY <1>1 DEF NodesRight
    <2>1. x.owner \in Daemons \ {p}
      BY <1>1 DEF Made, Works
    <2> QED BY <1>1, <2>1 DEF Made, Works, UnitOf
  <1>6. FoundRight'
    <2> SUFFICES ASSUME ChoiceAlone', NEW r \in Daemons, NEW f \in found[r]
                 PROVE  (f = place[r] /\ phase'[r] \in {"unit", "create"}) \/ Served(r, f)'
      BY <1>1 DEF FoundRight
    <2>1. ChoiceAlone
      BY <1>1, AloneBefore
    <2> QED BY <1>1, <2>1 DEF FoundRight, Served
  <1> QED BY <1>2, <1>3, <1>4, <1>5, <1>6

LEMMA ScanKeeps ==
    ASSUME TableInv, NEW p \in Daemons, ScanNext(p)
    PROVE  TableInv'
  <1> USE DEF TableInv
  <1>1. PICK f \in Ahead(p) :
           \/ /\ phase' = [phase EXCEPT ![p] = "unit"]
              /\ found' = [found EXCEPT ![p] = @ \cup {f}]
              /\ place' = [place EXCEPT ![p] = f]
           \/ /\ place' = [place EXCEPT ![p] = f + 1]
              /\ UNCHANGED <<phase, found>>
    BY DEF ScanNext
  <1>2. /\ phase[p] = "scan"
        /\ UNCHANGED <<u_videodev, live, registry, unit_num, refused, units, nodes>>
    BY DEF ScanNext
  <1>3. f \in FNumbers /\ f \in Nat /\ f >= place[p]
    <2>1. f \in DOMAIN registry[p] /\ f >= place[p]
      BY DEF Ahead, Present
    <2>2. /\ registry[p][f].cdev \in Cdevs /\ registry[p][f].mm \in Numbers(registry[p][f].cdev)
          /\ f \in Place(registry[p][f].mm)
      BY <2>1 DEF RegInv, EntriesRight, TableTypeOK
    <2>3. f \in FNumbers
      BY <2>2, NumbersAllowed, PlaceRight
    <2> QED BY <2>1, <2>3 DEF FNumbers
  <1>4. /\ phase'[p] \in {"unit", "scan"}
        /\ phase'[p] = "unit" => place'[p] = f
        /\ place'[p] \in {f, f + 1}
        /\ found'[p] \subseteq found[p] \cup {f}
        /\ f \in found'[p] \ found[p] => phase'[p] = "unit"
        /\ \A r \in Daemons \ {p} : phase'[r] = phase[r] /\ place'[r] = place[r] /\ found'[r] = found[r]
    BY <1>1, <1>2 DEF TableTypeOK
  <1>5. TableTypeOK'
    <2>1. place' \in [Daemons -> Nat]
      <3>1. f + 1 \in Nat /\ place \in [Daemons -> Nat]
        BY <1>3 DEF TableTypeOK
      <3> QED BY <1>1, <1>3, <3>1
    <2>2. phase' \in [Daemons -> {"start", "scan", "unit", "create", "done", "exit"}]
      BY <1>1 DEF TableTypeOK
    <2>3. found' \in [Daemons -> SUBSET FNumbers]
      BY <1>1, <1>3 DEF TableTypeOK
    <2> QED BY <1>2, <2>1, <2>2, <2>3 DEF TableTypeOK
  <1>6. RegInv'
    BY <1>2, RegSame
  <1>7. \A r \in Daemons : Works(r)' = Works(r) /\ place'[r] >= place[r]
    <2>1. \A r \in Daemons : Works(r)' = Works(r)
      BY <1>2, <1>4 DEF Works
    <2>2. \A r \in Daemons : place'[r] >= place[r]
      BY <1>3, <1>4 DEF TableTypeOK
    <2> QED BY <2>1, <2>2
  <1>8. HoldInv'
    <2>1. \A r \in Daemons : UnitsRight(r)'
      BY <1>2, <1>7 DEF HoldInv, UnitsRight, Chosen, Held
    <2>2. \A r \in Daemons : AtRight(r)'
      BY <1>2, <1>3, <1>4 DEF HoldInv, AtRight, UnitOf
    <2> QED BY <1>2, <2>1, <2>2 DEF HoldInv, UnitsOnce
  <1>9. NodesRight'
    BY <1>2, <1>5, <1>7, FilesKept DEF TableTypeOK
  <1>10. FoundRight'
    <2> SUFFICES ASSUME ChoiceAlone', NEW r \in Daemons, NEW h \in found'[r]
                 PROVE  (h = place'[r] /\ phase'[r] \in {"unit", "create"}) \/ Served(r, h)'
      BY DEF FoundRight
    <2>1. ChoiceAlone
      BY <1>2, <1>4, AloneBefore
    <2>2. Served(r, h) => Served(r, h)'
      BY <1>2 DEF Served
    <2>3. CASE r # p
      BY <1>4, <2>1, <2>2, <2>3 DEF FoundRight
    <2>4. CASE r = p /\ h \in found[p]
      BY <1>2, <2>1, <2>2, <2>4 DEF FoundRight
    <2>5. CASE r = p /\ h \notin found[p]
      BY <1>4, <2>5
    <2> QED BY <2>3, <2>4, <2>5
  <1> QED BY <1>5, <1>6, <1>8, <1>9, <1>10

LEMMA ScanEndKeeps ==
    ASSUME TableInv, NEW p \in Daemons, ScanEnd(p)
    PROVE  TableInv'
  <1> USE DEF TableInv
  <1>1. /\ phase[p] = "scan" /\ phase'[p] = "done"
        /\ \A r \in Daemons \ {p} : phase'[r] = phase[r]
        /\ UNCHANGED <<u_videodev, live, registry, place, unit_num, found, refused, units, nodes>>
    BY DEF ScanEnd, TableTypeOK
  <1>2. TableTypeOK'
    BY DEF ScanEnd, TableTypeOK
  <1>3. RegInv'
    BY <1>1, RegSame
  <1>4. \A r \in Daemons : Works(r)' = Works(r)
    BY <1>1 DEF Works
  <1>5. HoldInv'
    <2>1. \A r \in Daemons : UnitsRight(r)'
      BY <1>1, <1>4 DEF HoldInv, UnitsRight, Chosen, Held
    <2>2. \A r \in Daemons : AtRight(r)'
      BY <1>1 DEF HoldInv, AtRight, UnitOf
    <2> QED BY <1>1, <2>1, <2>2 DEF HoldInv, UnitsOnce
  <1>6. NodesRight'
    <2>1. \A r \in Daemons : place'[r] >= place[r]
      BY <1>1 DEF TableTypeOK
    <2> QED BY <1>1, <1>2, <1>4, <2>1, FilesKept DEF TableTypeOK
  <1>7. FoundRight'
    <2> SUFFICES ASSUME ChoiceAlone', NEW r \in Daemons, NEW h \in found[r]
                 PROVE  (h = place[r] /\ phase'[r] \in {"unit", "create"}) \/ Served(r, h)'
      BY <1>1 DEF FoundRight
    <2>1. ChoiceAlone
      BY <1>1, AloneBefore
    <2> QED BY <1>1, <2>1 DEF FoundRight, Served
  <1> QED BY <1>2, <1>3, <1>5, <1>6, <1>7

(* A process that finds no unit ends, and gives everything back. *)
LEMMA ExitKeeps ==
    ASSUME TableInv, NEW p \in Daemons, ExitProcess(p), phase[p] = "unit"
    PROVE  TableInv'
  <1> USE DEF TableInv
  <1>1. /\ phase'[p] = "exit" /\ found'[p] = {}
        /\ \A r \in Daemons \ {p} : phase'[r] = phase[r] /\ found'[r] = found[r]
        /\ nodes' = {x \in nodes : x.owner # p}
        /\ \A g \in Groups : units'[g] = {x \in units[g] : x[2] # p}
        /\ UNCHANGED <<u_videodev, place, unit_num, refused>>
    BY DEF ExitProcess, TableTypeOK
  <1>2. TableTypeOK'
    <2>1. units' \in [Groups -> SUBSET (Nat \X Daemons)]
      BY DEF ExitProcess, TableTypeOK
    <2> QED BY <2>1 DEF ExitProcess, TableTypeOK
  <1>3. RegInv'
    BY RegExit
  <1>4. HoldInv'
    <2>1. UnitsRight(p)' /\ AtRight(p)'
      BY <1>1 DEF UnitsRight, AtRight, Works
    <2>2. ASSUME NEW r \in Daemons \ {p} PROVE UnitsRight(r)' /\ AtRight(r)'
      <3>1. Held(r) => Held(r)'
        BY <1>1 DEF Held
      <3>2. UnitsRight(r) /\ AtRight(r) /\ Works(r)' = Works(r) /\ (Chosen(r) => Chosen(r)')
        BY <1>1 DEF HoldInv, Works, Chosen
      <3> QED BY <1>1, <3>1, <3>2 DEF UnitsRight, AtRight, UnitOf
    <2>3. UnitsOnce'
      BY <1>1 DEF HoldInv, UnitsOnce
    <2> QED BY <2>1, <2>2, <2>3 DEF HoldInv
  <1>5. NodesRight'
    <2> SUFFICES ASSUME NEW x \in nodes, x.owner # p, Made(x) PROVE Made(x)'
      BY <1>1 DEF NodesRight
    <2> QED BY <1>1 DEF Made, Works, UnitOf
  <1>6. FoundRight'
    <2> SUFFICES ASSUME ChoiceAlone', NEW r \in Daemons, NEW h \in found'[r]
                 PROVE  (h = place'[r] /\ phase'[r] \in {"unit", "create"}) \/ Served(r, h)'
      BY DEF FoundRight
    <2>1. ChoiceAlone
      BY <1>1, AloneBefore
    <2>2. r # p /\ h \in found[r]
      BY <1>1
    <2>3. Served(r, h) => Served(r, h)'
      BY <1>1, <2>2 DEF Served
    <2> QED BY <1>1, <2>1, <2>2, <2>3 DEF FoundRight
  <1> QED BY <1>2, <1>3, <1>4, <1>5, <1>6

(* A process that takes a unit for the number it is at, before or after it *)
(* has asked for the file.                                                 *)
LEMMA UnitKeeps ==
    ASSUME TableInv, NEW p \in Daemons, phase[p] \in {"unit", "create"},
           Alloc(p, GroupOf(place[p]), Decode(place[p]).a),
           \/ UnitOf(p, place[p]) < 0
           \/ Decode(place[p]).kind = "evdev" /\ u_videodev[p] < 0,
           phase' = [phase EXCEPT ![p] = "create"],
           UNCHANGED <<u_videodev, live, registry, place, found, refused, nodes>>
    PROVE  TableInv'
  <1> USE DEF TableInv
  <1>1. place[p] \in FNumbers /\ Works(p)
    BY DEF HoldInv, AtRight, Works
  <1>2. u_videodev[p] < 0
    <2>1. SUFFICES ASSUME u_videodev[p] >= 0 PROVE ~(UnitOf(p, place[p]) < 0)
      BY DEF TableTypeOK
    <2>2. GroupOf(place[p]) \in Groups /\ Decode(place[p]).a \in Subdevs
      BY <1>1, DecodeRight
    <2>3. UnitOf(p, place[p]) = u_videodev[p] + Decode(place[p]).a
      BY <1>1, <2>1, <2>2 DEF HoldInv, UnitsRight, Chosen, UnitOf
    <2>4. u_videodev[p] \in Nat /\ Decode(place[p]).a \in Nat
      BY <2>1, <2>2 DEF TableTypeOK, Subdevs
    <2> QED BY <2>3, <2>4
  <1>3. /\ unit_num' \in [Daemons -> [Groups -> [Subdevs -> {-1} \cup Nat]]]
        /\ units' \in [Groups -> SUBSET (Nat \X Daemons)]
        /\ UnitsOnce'
        /\ \A r \in Daemons : Held(r) => Held(r)'
        /\ \A r \in Daemons : r # p => (Chosen(r) => Chosen(r)')
        /\ \A r \in Daemons : r # p => \A h \in FNumbers : UnitOf(r, h)' = UnitOf(r, h)
        /\ \A h \in FNumbers : UnitOf(p, h) >= 0 /\ Decode(h).kind # "evdev"
                               => UnitOf(p, h)' = UnitOf(p, h)
        /\ UnitOf(p, place[p])' >= 0
    <2>1. \A f \in FNumbers : f = place[p] => UnitOf(p, f)' = UnitOf(p, place[p])'
      BY DEF UnitOf
    <2> QED BY <1>1, AllocRight DEF HoldInv, UnitOf
  <1>4. phase'[p] = "create" /\ \A r \in Daemons \ {p} : phase'[r] = phase[r]
    BY DEF TableTypeOK
  <1>5. TableTypeOK'
    BY <1>3 DEF TableTypeOK
  <1>6. RegInv'
    BY RegSame
  <1>7. \A r \in Daemons : Works(r)' = Works(r)
    BY <1>4 DEF Works
  <1>8. HoldInv'
    <2>1. UnitsRight(p)'
      <3>1. Held(p)'
        BY <1>1, <1>2, <1>3 DEF HoldInv, UnitsRight
      <3>2. ~(u_videodev[p] >= 0)
        BY <1>2 DEF TableTypeOK
      <3> QED BY <3>1, <3>2 DEF UnitsRight
    <2>2. AtRight(p)'
      BY <1>1, <1>3 DEF AtRight, UnitOf
    <2>3. ASSUME NEW r \in Daemons, r # p PROVE UnitsRight(r)' /\ AtRight(r)'
      <3>1. UnitsRight(r)'
        BY <1>3, <1>7, <2>3 DEF HoldInv, UnitsRight
      <3>2. AtRight(r)'
        BY <1>3, <1>4, <2>3 DEF HoldInv, AtRight, UnitOf
      <3> QED BY <3>1, <3>2
    <2> QED BY <1>3, <2>1, <2>2, <2>3 DEF HoldInv
  <1>9. NodesRight'
    <2> SUFFICES ASSUME NEW x \in nodes, Made(x) PROVE Made(x)'
      BY DEF NodesRight
    <2>1. /\ x.owner \in Daemons /\ Works(x.owner) /\ x.f \in FNumbers /\ x.f < place[x.owner]
          /\ x.kind = Decode(x.f).kind /\ x.q = Decode(x.f).q
      BY DEF Made
    <2>2. x.kind # "evdev" => x.unit = unit_num'[x.owner][GroupOf(x.f)][Decode(x.f).a] /\ x.unit >= 0
      BY <1>3, <2>1 DEF Made, UnitOf
    <2> QED BY <1>7, <2>1, <2>2 DEF Made, UnitOf
  <1>10. FoundRight'
    <2> SUFFICES ASSUME ChoiceAlone', NEW r \in Daemons, NEW h \in found[r]
                 PROVE  (h = place[r] /\ phase'[r] \in {"unit", "create"}) \/ Served(r, h)'
      BY DEF FoundRight
    <2>1. ChoiceAlone
      BY <1>4, AloneBefore
    <2> QED BY <1>4, <2>1 DEF FoundRight, Served
  <1> QED BY <1>5, <1>6, <1>8, <1>9, <1>10

LEMMA TakeUnitKeeps ==
    ASSUME TableInv, NEW p \in Daemons, TakeUnit(p)
    PROVE  TableInv'
  <1> USE DEF TableInv
  <1>0. phase[p] = "unit"
    BY DEF TakeUnit
  <1>1. CASE ExitProcess(p)
    BY <1>0, <1>1, ExitKeeps
  <1>2. CASE /\ UnitOf(p, place[p]) < 0 /\ Alloc(p, GroupOf(place[p]), Decode(place[p]).a)
             /\ phase' = [phase EXCEPT ![p] = "create"]
             /\ UNCHANGED <<u_videodev, live, registry, place, found, refused, nodes>>
    BY <1>0, <1>2, UnitKeeps
  <1>3. CASE /\ ~(UnitOf(p, place[p]) < 0) /\ phase' = [phase EXCEPT ![p] = "create"]
             /\ UNCHANGED <<u_videodev, live, registry, place, unit_num, found, refused, units, nodes>>
    <2>1. phase'[p] = "create" /\ \A r \in Daemons \ {p} : phase'[r] = phase[r]
      BY <1>3 DEF TableTypeOK
    <2>2. TableTypeOK'
      BY <1>3 DEF TableTypeOK
    <2>3. RegInv'
      BY <1>3, RegSame
    <2>4. \A r \in Daemons : Works(r)' = Works(r)
      BY <1>0, <2>1 DEF Works
    <2>5. HoldInv'
      <3>1. \A r \in Daemons : UnitsRight(r)'
        BY <1>3, <2>4 DEF HoldInv, UnitsRight, Chosen, Held
      <3>2. place[p] \in FNumbers /\ UnitOf(p, place[p]) >= 0
        <4>1. place[p] \in FNumbers
          BY <1>0 DEF HoldInv, AtRight
        <4>2. UnitOf(p, place[p]) \in {-1} \cup Nat
          BY <4>1, DecodeRight DEF UnitOf, TableTypeOK
        <4> QED BY <1>3, <4>1, <4>2
      <3>3. \A r \in Daemons : AtRight(r)'
        BY <1>3, <2>1, <3>2 DEF HoldInv, AtRight, UnitOf
      <3> QED BY <1>3, <3>1, <3>3 DEF HoldInv, UnitsOnce
    <2>6. NodesRight'
      <3>1. \A r \in Daemons : place'[r] >= place[r]
        BY <1>3 DEF TableTypeOK
      <3> QED BY <1>3, <2>2, <2>4, <3>1, FilesKept DEF TableTypeOK
    <2>7. FoundRight'
      <3> SUFFICES ASSUME ChoiceAlone', NEW r \in Daemons, NEW h \in found[r]
                   PROVE  (h = place[r] /\ phase'[r] \in {"unit", "create"}) \/ Served(r, h)'
        BY <1>3 DEF FoundRight
      <3>1. ChoiceAlone
        BY <1>3, <2>1, AloneBefore
      <3> QED BY <1>3, <2>1, <3>1 DEF FoundRight, Served
    <2> QED BY <2>2, <2>3, <2>5, <2>6, <2>7
  <1> QED BY <1>1, <1>2, <1>3 DEF TakeUnit

LEMMA CreateKeeps ==
    ASSUME TableInv, NEW p \in Daemons, Create(p)
    PROVE  TableInv'
  <1> USE DEF TableInv
  <1> DEFINE f == place[p]
             d == Decode(f)
             taken == IsTaken(d.kind, UnitOf(p, f), d.q)
             new == [kind |-> d.kind, unit |-> UnitOf(p, f), q |-> d.q, owner |-> p, f |-> f]
  <1>1. phase[p] = "create" /\ UNCHANGED <<u_videodev, live, registry, found>>
    BY DEF Create
  <1>2. f \in FNumbers /\ UnitOf(p, f) >= 0 /\ Works(p) /\ f \in Nat
    BY <1>1 DEF HoldInv, AtRight, Works, TableTypeOK
  <1>3. CASE taken /\ Retry(p, f) /\ Alloc(p, GroupOf(f), d.a) /\ UNCHANGED <<place, phase, refused, nodes>>
    <2>1. d.kind = "evdev" /\ u_videodev[p] < 0
      BY <1>3 DEF Retry, NoOther, TableTypeOK
    <2>2. phase' = [phase EXCEPT ![p] = "create"]
      BY <1>1, <1>3 DEF TableTypeOK
    <2> QED BY <1>1, <1>3, <2>1, <2>2, UnitKeeps
  <1>4. CASE /\ ~(taken /\ Retry(p, f))
             /\ nodes' = IF taken THEN nodes ELSE nodes \cup {new}
             /\ refused' = IF taken /\ NoOther(p) THEN [refused EXCEPT ![p] = @ \cup {f}] ELSE refused
             /\ place' = [place EXCEPT ![p] = @ + 1]
             /\ phase' = [phase EXCEPT ![p] = "scan"]
             /\ UNCHANGED <<unit_num, units>>
    <2>1. /\ phase'[p] = "scan" /\ place'[p] = f + 1
          /\ \A r \in Daemons \ {p} : phase'[r] = phase[r] /\ place'[r] = place[r]
          /\ \A r \in Daemons : refused[r] \subseteq refused'[r]
          /\ taken /\ NoOther(p) => f \in refused'[p]
      BY <1>4 DEF TableTypeOK
    <2>2. TableTypeOK'
      <3>1. place' \in [Daemons -> Nat]
        <4>1. f + 1 \in Nat
          BY <1>2
        <4> QED BY <1>4, <4>1 DEF TableTypeOK
      <3>2. refused' \in [Daemons -> SUBSET FNumbers]
        BY <1>2, <1>4 DEF TableTypeOK
      <3> QED BY <1>1, <1>4, <3>1, <3>2 DEF TableTypeOK
    <2>3. RegInv'
      BY <1>1, RegSame
    <2>4. \A r \in Daemons : Works(r)' = Works(r) /\ place'[r] >= place[r]
      <3>1. \A r \in Daemons : Works(r)' = Works(r)
        BY <1>1, <2>1 DEF Works
      <3>2. \A r \in Daemons : place[r] \in Nat
        BY DEF TableTypeOK
      <3>3. \A r \in Daemons : place'[r] >= place[r]
        BY <2>1, <3>2
      <3> QED BY <3>1, <3>3
    <2>5. HoldInv'
      <3>1. \A r \in Daemons : UnitsRight(r)'
        BY <1>1, <1>4, <2>4 DEF HoldInv, UnitsRight, Chosen, Held
      <3>2. \A r \in Daemons : AtRight(r)'
        BY <1>4, <2>1 DEF HoldInv, AtRight, UnitOf
      <3> QED BY <1>4, <3>1, <3>2 DEF HoldInv, UnitsOnce
    <2>6. NodesRight'
      <3>1. ASSUME NEW x \in nodes, Made(x) PROVE Made(x)'
        <4>1. /\ x.owner \in Daemons /\ Works(x.owner) /\ x.f \in FNumbers /\ x.f < place[x.owner]
          BY <3>1 DEF Made
        <4>2. x.f \in Nat /\ place[x.owner] \in Nat /\ place'[x.owner] \in Nat
          BY <2>2, <4>1 DEF FNumbers, TableTypeOK
        <4>3. x.f < place'[x.owner] /\ Works(x.owner)'
          BY <2>4, <4>1, <4>2
        <4> QED BY <1>4, <3>1, <4>3 DEF Made, UnitOf
      <3>2. PICK x, h : x = new /\ h = f
        OBVIOUS
      <3>3. Made(x)'
        <4>1. /\ x.owner = p /\ x.f = h /\ x.kind = Decode(h).kind /\ x.q = Decode(h).q
              /\ x.unit = unit_num'[p][GroupOf(h)][Decode(h).a] /\ x.unit >= 0
          BY <1>2, <1>4, <3>2 DEF UnitOf
        <4>2. h \in FNumbers /\ h < place'[p] /\ Works(p)'
          BY <1>2, <2>1, <2>4, <3>2
        <4> QED BY ONLY p \in Daemons, <4>1, <4>2 DEF Made, UnitOf
      <3>4. nodes' \subseteq nodes \cup {x}
        BY <1>4, <3>2
      <3> QED BY <3>1, <3>3, <3>4 DEF NodesRight
    <2>7. FoundRight'
      <3> SUFFICES ASSUME ChoiceAlone', NEW r \in Daemons, NEW h \in found[r]
                   PROVE  (h = place'[r] /\ phase'[r] \in {"unit", "create"}) \/ Served(r, h)'
        BY <1>1 DEF FoundRight
      <3>1. ChoiceAlone
        BY <1>1, <2>1, AloneBefore
      <3>2. Served(r, h) => Served(r, h)'
        BY <1>4, <2>1 DEF Served
      <3>3. CASE r # p
        BY <2>1, <3>1, <3>2, <3>3 DEF FoundRight
      <3>4. CASE r = p /\ h # f
        BY <3>1, <3>2, <3>4 DEF FoundRight
      <3>5. CASE r = p /\ h = f /\ ~taken
        <4>1. new \in nodes' /\ new.owner = p /\ new.f = f
          BY <1>4, <3>5
        <4> QED BY <3>5, <4>1 DEF Served
      <3>6. CASE r = p /\ h = f /\ taken
        <4>1. d.kind = "evdev"
          BY <1>1, <3>1, <3>6, NotTaken
        <4>2. NoOther(p)
          BY <1>4, <3>6, <4>1 DEF Retry
        <4> QED BY <2>1, <3>6, <4>1, <4>2 DEF Served
      <3> QED BY <3>3, <3>4, <3>5, <3>6
    <2> QED BY <2>2, <2>3, <2>5, <2>6, <2>7
  <1> QED BY <1>3, <1>4 DEF Create

(* What drivers do leaves v4b_create() alone. *)
LEMMA DriverKeeps ==
    ASSUME TableInv, NEW p \in Daemons, NEW c \in Cdevs, cdev_add(p, c) \/ cdev_del(p, c)
    PROVE  TableInv'
  <1> USE DEF TableInv
  <1>1. UNCHANGED <<u_videodev, place, phase, unit_num, found, refused, units, nodes>>
    BY DEF cdev_add, cdev_del, Created
  <1>2. TableTypeOK'
    <2>1. live' \in [Daemons -> SUBSET Cdevs] /\ DOMAIN registry' = Daemons
      BY DEF cdev_add, cdev_del, TableTypeOK
    <2> QED BY <1>1, <2>1 DEF TableTypeOK
  <1>3. RegInv'
    BY RegAdd, RegDel
  <1>4. HoldInv'
    BY <1>1 DEF HoldInv, UnitsOnce, UnitsRight, AtRight, Works, Chosen, Held, UnitOf
  <1>5. NodesRight' /\ FoundRight'
    BY <1>1 DEF NodesRight, Made, Works, UnitOf, FoundRight, Served, ChoiceAlone
  <1> QED BY <1>2, <1>3, <1>4, <1>5

LEMMA TableStep == TableInv /\ [TableNext]_tableVars => TableInv'
  <1> SUFFICES ASSUME TableInv, [TableNext]_tableVars PROVE TableInv'
    OBVIOUS
  <1>1. CASE TableNext
    BY <1>1, BeginKeeps, ScanKeeps, ScanEndKeeps, TakeUnitKeeps, CreateKeeps, DriverKeeps DEF TableNext
  <1>2. CASE UNCHANGED tableVars
    BY <1>2 DEF tableVars, TableInv, TableTypeOK, RegInv, NumbersApart, EntriesRight, RegistryExact,
        HoldInv, UnitsOnce, UnitsRight, AtRight, Works, Chosen, Held, UnitOf, NodesRight, Made,
        FoundRight, Served, ChoiceAlone
  <1> QED BY <1>1, <1>2

(* TableInv is inductive. *)
THEOREM TableInductive == TableSpec => []TableInv
  BY TableInitInv, TableStep, PTL DEF TableSpec

(* For any processes, devices, options -v and number of units: cdev_add()  *)
(* and cdev_del() keep the registry exact; v4b_create() names every file   *)
(* for what it opens, keeps the files of an adapter together and apart     *)
(* from those of any other, and leaves out no device but an evdev one for  *)
(* which cuse has no name.                                                 *)
THEOREM TableAlwaysRight == TableSpec => []TableRight
  <1>1. TableInv => TableRight
    <2> SUFFICES ASSUME TableInv PROVE TableRight
      OBVIOUS
    <2> USE DEF TableInv
    <2>1. RegistryExact
      BY DEF RegInv
    <2>2. NodeOpensItsDevice
      <3> SUFFICES ASSUME NEW x \in nodes, x.owner \in Daemons, x.f \in DOMAIN registry[x.owner],
                          NEW mm, mm = registry[x.owner][x.f].mm
                   PROVE  /\ x.kind \in Dvb <=> mm[1] = "dvb"
                          /\ x.kind \in Dvb => /\ DvbType[x.kind] = mm[2] % 16
                                               /\ x.q = Swap(mm[2] % 16, (mm[2] \div 16) % 4)
                          /\ x.kind \notin Dvb => x.q = 0
        BY DEF NodeOpensItsDevice
      <3>1. x.kind = Decode(x.f).kind /\ x.q = Decode(x.f).q
        BY TableAssumption DEF NodesRight, Made
      <3>2. PICK c \in Cdevs : mm \in Numbers(c) /\ x.f \in Place(mm)
        <4>1. /\ registry[x.owner][x.f].cdev \in live[x.owner] /\ live[x.owner] \subseteq Cdevs
              /\ mm \in Numbers(registry[x.owner][x.f].cdev) /\ x.f \in Place(mm)
          BY DEF RegInv, EntriesRight, TableTypeOK
        <4> QED BY <4>1
      <3>3. Shows(Decode(x.f), mm)
        BY <3>2, NumbersAllowed, PlaceRight
      <3> QED BY <3>1, <3>3, DvbNames DEF Shows
    <2>3. AdapterTogether
      <3> SUFFICES ASSUME ChoiceAlone, NEW x \in nodes, NEW y \in nodes, x.kind \in Dvb, y.kind \in Dvb
                   PROVE  x.unit = y.unit <=> (x.owner = y.owner /\ Decode(x.f).a = Decode(y.f).a)
        BY DEF AdapterTogether, AdapterOf
      <3>1. x.kind # "evdev" /\ y.kind # "evdev"
        BY DvbNames
      <3>2. Made(x) /\ Made(y)
        BY <3>1, TableAssumption DEF NodesRight
      <3>3. GroupOf(x.f) = "dvb" /\ GroupOf(y.f) = "dvb" /\ "dvb" \in Groups
        BY <3>2 DEF Made, GroupOf, Group, Groups
      <3>4. /\ x.unit = unit_num[x.owner]["dvb"][Decode(x.f).a] /\ x.unit >= 0
            /\ y.unit = unit_num[y.owner]["dvb"][Decode(y.f).a]
            /\ x.owner \in Daemons /\ y.owner \in Daemons /\ Works(x.owner) /\ Works(y.owner)
            /\ Decode(x.f).a \in Subdevs /\ Decode(y.f).a \in Subdevs
        BY <3>1, <3>2, <3>3, DecodeRight DEF Made, UnitOf
      <3> QED BY <3>3, <3>4, SameUnit
    <2>4. FileForEach
      BY DEF FoundRight, FileForEach, Served
    <2> QED BY <2>1, <2>2, <2>3, <2>4 DEF TableRight
  <1> QED BY <1>1, TableInductive, PTL
=============================================================================
