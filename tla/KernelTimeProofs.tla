--------------------------- MODULE KernelTimeProofs ---------------------------
(***************************************************************************)
(* KernelTime for every number of nanoseconds, microseconds and            *)
(* milliseconds to the next larger unit, without a bound on the times.     *)
(***************************************************************************)
EXTENDS KernelTime, TLAPS

TimeSpec == [tv_sec : Int, tv_nsec : Int]

(* The types of the two times and of their references. *)
TypeOK == t \in TimeSpec /\ u \in TimeSpec /\ n \in Int /\ m \in Int

(* What is inductive: types, and times that are normal and exact. *)
TimeInv == TypeOK /\ TimeExact

(* A second has at least one nanosecond. *)
LEMMA SecondPositive ==
    /\ USEC_PER_SEC \in Nat /\ USEC_PER_SEC > 0
    /\ NSEC_PER_SEC \in Nat /\ NSEC_PER_SEC > 0
<1>1. \A x, y \in Nat \ {0} : x * y \in Nat \ {0}
  OBVIOUS
<1>2. USEC_PER_SEC \in Nat \ {0}
  BY <1>1, TimeAssumption DEF USEC_PER_SEC
<1>3. NSEC_PER_SEC \in Nat \ {0}
  BY <1>1, <1>2, TimeAssumption DEF NSEC_PER_SEC
<1> QED
  BY <1>2, <1>3

(* Carrying a second over leaves the sum of the parts. *)
LEMMA Distribute ==
    ASSUME NEW x \in Int, NEW y \in Int, NEW k \in Int
    PROVE  /\ (x + y) * k = x * k + y * k
           /\ (x - y) * k = x * k - y * k
           /\ (x + y + 1) * k = x * k + y * k + k
           /\ (x - y - 1) * k = x * k - y * k - k
  OBVIOUS

(* ktime_add(): exact, and normal again after at most one carry. *)
LEMMA AddRight ==
    ASSUME NEW a \in TimeSpec, NEW b \in TimeSpec, Normal(a), Normal(b)
    PROVE  /\ ktime_add(a, b) \in TimeSpec
           /\ Normal(ktime_add(a, b))
           /\ ktime_to_ns(ktime_add(a, b)) = ktime_to_ns(a) + ktime_to_ns(b)
<1> DEFINE s == a.tv_sec + b.tv_sec
           ns == a.tv_nsec + b.tv_nsec
<1>1. a.tv_sec \in Int /\ b.tv_sec \in Int /\ a.tv_nsec \in Int /\ b.tv_nsec \in Int
  BY DEF TimeSpec
<1>2. NSEC_PER_SEC \in Int
  BY SecondPositive
<1>3. s * NSEC_PER_SEC = a.tv_sec * NSEC_PER_SEC + b.tv_sec * NSEC_PER_SEC
  BY <1>1, <1>2, Distribute
<1>4. (s + 1) * NSEC_PER_SEC = a.tv_sec * NSEC_PER_SEC + b.tv_sec * NSEC_PER_SEC + NSEC_PER_SEC
  BY <1>1, <1>2, Distribute
<1>5. a.tv_sec * NSEC_PER_SEC \in Int /\ b.tv_sec * NSEC_PER_SEC \in Int
  BY <1>1, <1>2
<1>6. CASE ns >= NSEC_PER_SEC
  <2>1. ktime_add(a, b) = Time(s + 1, ns - NSEC_PER_SEC)
    BY <1>6 DEF ktime_add
  <2> QED
    BY <2>1, <1>1, <1>2, <1>4, <1>5, <1>6 DEF Time, TimeSpec, Normal, ktime_to_ns
<1>7. CASE ~(ns >= NSEC_PER_SEC)
  <2>1. ktime_add(a, b) = Time(s, ns)
    BY <1>7 DEF ktime_add
  <2> QED
    BY <2>1, <1>1, <1>2, <1>3, <1>5, <1>7 DEF Time, TimeSpec, Normal, ktime_to_ns
<1> QED
  BY <1>6, <1>7

(* ktime_sub(): exact, and normal again after at most one borrow. *)
LEMMA SubRight ==
    ASSUME NEW a \in TimeSpec, NEW b \in TimeSpec, Normal(a), Normal(b)
    PROVE  /\ ktime_sub(a, b) \in TimeSpec
           /\ Normal(ktime_sub(a, b))
           /\ ktime_to_ns(ktime_sub(a, b)) = ktime_to_ns(a) - ktime_to_ns(b)
<1> DEFINE s == a.tv_sec - b.tv_sec
           ns == a.tv_nsec - b.tv_nsec
<1>1. a.tv_sec \in Int /\ b.tv_sec \in Int /\ a.tv_nsec \in Int /\ b.tv_nsec \in Int
  BY DEF TimeSpec
<1>2. NSEC_PER_SEC \in Int
  BY SecondPositive
<1>3. s * NSEC_PER_SEC = a.tv_sec * NSEC_PER_SEC - b.tv_sec * NSEC_PER_SEC
  BY <1>1, <1>2, Distribute
<1>4. (s - 1) * NSEC_PER_SEC = a.tv_sec * NSEC_PER_SEC - b.tv_sec * NSEC_PER_SEC - NSEC_PER_SEC
  BY <1>1, <1>2, Distribute
<1>5. a.tv_sec * NSEC_PER_SEC \in Int /\ b.tv_sec * NSEC_PER_SEC \in Int
  BY <1>1, <1>2
<1>6. CASE ns < 0
  <2>1. ktime_sub(a, b) = Time(s - 1, ns + NSEC_PER_SEC)
    BY <1>6 DEF ktime_sub
  <2> QED
    BY <2>1, <1>1, <1>2, <1>4, <1>5, <1>6 DEF Time, TimeSpec, Normal, ktime_to_ns
<1>7. CASE ~(ns < 0)
  <2>1. ktime_sub(a, b) = Time(s, ns)
    BY <1>7 DEF ktime_sub
  <2> QED
    BY <2>1, <1>1, <1>2, <1>3, <1>5, <1>7 DEF Time, TimeSpec, Normal, ktime_to_ns
<1> QED
  BY <1>6, <1>7

(* Division with a remainder from 0 on, of a number of either sign. *)
LEMMA DivMod ==
    ASSUME NEW x \in Int, NEW y \in Int, y > 0
    PROVE  /\ x \div y \in Int /\ x % y \in Int
           /\ y * (x \div y) <= x /\ x < y * (x \div y) + y
           /\ x % y = x - y * (x \div y)
<1>1. x \div y \in Int /\ x % y \in Int
  OBVIOUS
<1>2. y * (x \div y) <= x /\ x < y * (x \div y) + y
  BY SMTT(30)
<1>3. \A i, j \in Int : j > 0 => i % j = i - j * (i \div j)
  BY Z3T(30)
<1> QED
  BY <1>1, <1>2, <1>3

(* The quotient is the only one with such a remainder. *)
LEMMA DivUnique ==
    ASSUME NEW x \in Int, NEW y \in Int, NEW q \in Int, NEW r \in Int,
           y > 0, x = y * q + r, 0 <= r, r < y
    PROVE  x \div y = q
  BY SMTT(30)

(* ns_to_timespec(): exact and normal for numbers of either sign, although *)
(* C divides towards zero.                                                 *)
LEMMA FromNsRight ==
    ASSUME NEW x \in Int
    PROVE  /\ ns_to_timespec(x) \in TimeSpec
           /\ Normal(ns_to_timespec(x))
           /\ ktime_to_ns(ns_to_timespec(x)) = x
<1> DEFINE N == NSEC_PER_SEC
           q == Quot(x, N)
           rem == Rem(x, N)
<1>1. N \in Int /\ N > 0
  BY SecondPositive
<1>2. q \in Int /\ rem = x - N * q /\ rem < N /\ rem > -N
  <2>1. CASE x >= 0
    <3>1. q = x \div N
      BY <2>1 DEF Quot
    <3>2. N * q <= x /\ x < N * q + N /\ q \in Int
      BY <3>1, <1>1, DivMod
    <3>3. rem = x - N * q
      BY DEF Rem
    <3>4. N * q \in Int
      BY <3>2, <1>1
    <3> HIDE DEF q, rem, N
    <3> QED
      BY <3>2, <3>3, <3>4, <1>1
  <2>2. CASE ~(x >= 0)
    <3>1. -x \in Int
      OBVIOUS
    <3>2. q = -((-x) \div N)
      BY <2>2 DEF Quot
    <3> DEFINE p == (-x) \div N
    <3>3. N * p <= -x /\ -x < N * p + N /\ p \in Int
      BY <3>1, <1>1, DivMod
    <3>4. q = -p
      BY <3>2
    <3>5. rem = x - N * q
      BY DEF Rem
    <3>6. N * p \in Int
      BY <3>3, <1>1
    <3> HIDE DEF q, rem, N, p
    <3>7. N * q = -(N * p)
      BY <3>3, <3>4, <1>1
    <3> QED
      BY <3>3, <3>4, <3>5, <3>6, <3>7, <1>1
  <2> QED
    BY <2>1, <2>2
<1>3. N * q \in Int /\ q * N = N * q /\ (q - 1) * N = N * q - N
  BY <1>1, <1>2
<1>4. CASE x = 0
  <2>1. ns_to_timespec(x) = Time(0, 0)
    BY <1>4 DEF ns_to_timespec
  <2> QED
    BY <2>1, <1>1, <1>4 DEF Time, TimeSpec, Normal, ktime_to_ns
<1>5. CASE x # 0 /\ rem < 0
  <2>1. ns_to_timespec(x) = Time(q - 1, rem + N)
    BY <1>5 DEF ns_to_timespec
  <2>2. rem + N \in Int /\ rem + N >= 0 /\ rem + N < N /\ (q - 1) * N + (rem + N) = x
    <3> HIDE DEF q, rem, N
    <3> QED
      BY <1>1, <1>2, <1>3, <1>5
  <2> QED
    BY <2>1, <2>2, <1>1, <1>2 DEF Time, TimeSpec, Normal, ktime_to_ns
<1>6. CASE x # 0 /\ ~(rem < 0)
  <2>1. ns_to_timespec(x) = Time(q, rem)
    BY <1>6 DEF ns_to_timespec
  <2>2. rem \in Int /\ rem >= 0 /\ rem < N /\ q * N + rem = x
    <3> HIDE DEF q, rem, N
    <3> QED
      BY <1>1, <1>2, <1>3, <1>6
  <2> QED
    BY <2>1, <2>2, <1>1, <1>2 DEF Time, TimeSpec, Normal, ktime_to_ns
<1> QED
  BY <1>4, <1>5, <1>6

(* ktime_add_us(): exact and normal. *)
LEMMA AddUsRight ==
    ASSUME NEW a \in TimeSpec, Normal(a), NEW us \in Nat
    PROVE  /\ ktime_add_us(a, us) \in TimeSpec
           /\ Normal(ktime_add_us(a, us))
           /\ ktime_to_ns(ktime_add_us(a, us)) = ktime_to_ns(a) + us * NSEC_PER_USEC
<1> DEFINE U == USEC_PER_SEC
           K == NSEC_PER_USEC
           q == us \div U
           r == us % U
           v == Time(q, K * r)
<1>1. U \in Int /\ U > 0 /\ K \in Int /\ K > 0 /\ NSEC_PER_SEC = K * U /\ us \in Int
  BY SecondPositive, TimeAssumption DEF NSEC_PER_SEC
<1>2. q \in Int /\ r \in Int /\ r = us - U * q /\ r >= 0 /\ r < U
  <2>1. q \in Int /\ r \in Int /\ U * q <= us /\ us < U * q + U /\ r = us - U * q
    BY <1>1, DivMod
  <2>2. U * q \in Int
    BY <2>1, <1>1
  <2> HIDE DEF q, r, U, K
  <2> QED
    BY <2>1, <2>2, <1>1
<1>3. K * r \in Int /\ K * r >= 0 /\ K * r < K * U /\ q * (K * U) + K * r = us * K
  <2> HIDE DEF q, r, U, K
  <2>1. K * r \in Int /\ K * r >= 0
    BY <1>1, <1>2
  <2>2. K * (U - r) > 0 /\ K * (U - r) = K * U - K * r
    BY <1>1, <1>2
  <2>3. K * U \in Int
    BY <1>1
  <2>4. us = U * q + r
    <3>1. U * q \in Int
      BY <1>1, <1>2
    <3> QED
      BY <3>1, <1>1, <1>2
  <2>5. us * K = q * (K * U) + K * r
    BY <2>4, <1>1, <1>2
  <2> QED
    BY <2>1, <2>2, <2>3, <2>5
<1>4. v \in TimeSpec /\ Normal(v) /\ ktime_to_ns(v) = us * K
  <2> HIDE DEF q, r, U, K
  <2> QED
    BY <1>1, <1>2, <1>3 DEF v, Time, TimeSpec, Normal, ktime_to_ns
<1>5. ktime_add_us(a, us) = ktime_add(a, v)
  BY DEF ktime_add_us, timespec_add
<1> QED
  BY <1>4, <1>5, AddRight

(* The order of two times is that of their nanoseconds. *)
LEMMA LaterSecond ==
    ASSUME NEW a \in TimeSpec, NEW b \in TimeSpec, Normal(a), Normal(b), a.tv_sec > b.tv_sec
    PROVE  ktime_to_ns(a) > ktime_to_ns(b)
<1> DEFINE N == NSEC_PER_SEC
<1>1. N \in Int /\ N > 0
  BY SecondPositive
<1>2. a.tv_sec \in Int /\ b.tv_sec \in Int /\ a.tv_nsec \in Int /\ b.tv_nsec \in Int
  BY DEF TimeSpec
<1>3. a.tv_nsec >= 0 /\ b.tv_nsec < N
  BY DEF Normal
<1>4. (a.tv_sec - b.tv_sec) * N >= N
  <2> HIDE DEF N
  <2>1. \A x, y \in Int : x > 0 /\ y > 0 => x * y >= y
    OBVIOUS
  <2>2. a.tv_sec - b.tv_sec \in Int /\ a.tv_sec - b.tv_sec > 0
    BY <1>2
  <2> QED
    BY <2>1, <2>2, <1>1
<1>5. (a.tv_sec - b.tv_sec) * N = a.tv_sec * N - b.tv_sec * N
  BY <1>1, <1>2, Distribute
<1>6. a.tv_sec * N \in Int /\ b.tv_sec * N \in Int
  BY <1>1, <1>2
<1> QED
  BY <1>1, <1>2, <1>3, <1>4, <1>5, <1>6 DEF ktime_to_ns

LEMMA CompareRight ==
    ASSUME NEW a \in TimeSpec, NEW b \in TimeSpec, Normal(a), Normal(b)
    PROVE  /\ ktime_compare(a, b) = 1 <=> ktime_to_ns(a) > ktime_to_ns(b)
           /\ ktime_compare(a, b) = -1 <=> ktime_to_ns(a) < ktime_to_ns(b)
<1>1. a.tv_sec \in Int /\ b.tv_sec \in Int /\ a.tv_nsec \in Int /\ b.tv_nsec \in Int
  BY DEF TimeSpec
<1>2. ktime_to_ns(a) \in Int /\ ktime_to_ns(b) \in Int
  <2>1. NSEC_PER_SEC \in Int
    BY SecondPositive
  <2> QED
    BY <1>1, <2>1 DEF ktime_to_ns
<1>3. CASE a.tv_sec > b.tv_sec
  <2>1. ktime_to_ns(a) > ktime_to_ns(b)
    BY <1>3, LaterSecond
  <2>2. ktime_compare(a, b) = 1
    BY <1>1, <1>3 DEF ktime_compare
  <2> QED
    BY <2>1, <2>2, <1>2
<1>4. CASE a.tv_sec < b.tv_sec
  <2>1. ktime_to_ns(b) > ktime_to_ns(a)
    BY <1>1, <1>4, LaterSecond
  <2>2. ktime_compare(a, b) = -1
    BY <1>1, <1>4 DEF ktime_compare
  <2> QED
    BY <2>1, <2>2, <1>2
<1>5. CASE a.tv_sec = b.tv_sec
  <2>1. a.tv_sec * NSEC_PER_SEC = b.tv_sec * NSEC_PER_SEC /\ a.tv_sec * NSEC_PER_SEC \in Int
    BY <1>1, <1>5, SecondPositive
  <2> QED
    BY <1>1, <1>5, <2>1 DEF ktime_compare, ktime_to_ns
<1> QED
  BY <1>1, <1>3, <1>4, <1>5

(* Dividing a time into units of k nanoseconds, c of which are a second.   *)
LEMMA UnitRight ==
    ASSUME NEW a \in TimeSpec, NEW k \in Int, NEW c \in Int, k > 0, NSEC_PER_SEC = k * c
    PROVE  a.tv_sec * c + a.tv_nsec \div k = ktime_to_ns(a) \div k
<1> DEFINE s == a.tv_sec
           ns == a.tv_nsec
           q == ns \div k
           r == ns - k * q
<1>1. s \in Int /\ ns \in Int
  BY DEF TimeSpec
<1>2. q \in Int /\ k * q <= ns /\ ns < k * q + k
  BY <1>1, DivMod
<1>3. k * q \in Int
  BY <1>2
<1>4. r \in Int /\ 0 <= r /\ r < k
  BY <1>1, <1>2, <1>3
<1>5. s * (k * c) = k * (s * c) /\ s * c \in Int /\ s * (k * c) \in Int
  BY <1>1
<1>6. k * (s * c + q) = k * (s * c) + k * q
  BY <1>2, <1>5
<1>7. ktime_to_ns(a) = s * (k * c) + ns
  BY DEF ktime_to_ns
<1>8. ktime_to_ns(a) = k * (s * c + q) + r
  BY <1>1, <1>3, <1>5, <1>6, <1>7
<1>9. ktime_to_ns(a) \in Int /\ s * c + q \in Int
  BY <1>1, <1>2, <1>5, <1>7
<1> HIDE DEF q, r, s, ns
<1>10. ktime_to_ns(a) \div k = s * c + q
  BY <1>4, <1>8, <1>9, DivUnique
<1> QED
  BY <1>10 DEF q, s, ns

(* Microseconds and milliseconds of a time. *)
LEMMA UnitsRight ==
    ASSUME NEW a \in TimeSpec
    PROVE  /\ ktime_to_us(a) = ktime_to_ns(a) \div NSEC_PER_USEC
           /\ ktime_to_ms(a) = ktime_to_ns(a) \div (NSEC_PER_USEC * USEC_PER_MSEC)
<1>1. NSEC_PER_USEC \in Int /\ NSEC_PER_USEC > 0 /\ USEC_PER_MSEC \in Int /\ USEC_PER_MSEC > 0
      /\ MSEC_PER_SEC \in Int
  BY TimeAssumption
<1>2. NSEC_PER_SEC = NSEC_PER_USEC * USEC_PER_SEC /\ USEC_PER_SEC \in Int
  BY SecondPositive DEF NSEC_PER_SEC
<1>3. NSEC_PER_SEC = (NSEC_PER_USEC * USEC_PER_MSEC) * MSEC_PER_SEC
  BY <1>1 DEF NSEC_PER_SEC, USEC_PER_SEC
<1>4. NSEC_PER_USEC * USEC_PER_MSEC \in Int /\ NSEC_PER_USEC * USEC_PER_MSEC > 0
  BY <1>1
<1>5. ktime_to_us(a) = ktime_to_ns(a) \div NSEC_PER_USEC
  BY <1>1, <1>2, UnitRight DEF ktime_to_us
<1>6. ktime_to_ms(a) = ktime_to_ns(a) \div (NSEC_PER_USEC * USEC_PER_MSEC)
  BY <1>1, <1>3, <1>4, UnitRight DEF ktime_to_ms
<1> QED
  BY <1>5, <1>6

-----------------------------------------------------------------------------
(* Every step keeps the types and keeps the times exact. *)
THEOREM TimeInvariant == Spec => []TimeInv
<1>1. Init => TimeInv
  <2>1. 0 * NSEC_PER_SEC = 0
    BY SecondPositive
  <2> QED
    BY <2>1, SecondPositive
    DEF Init, TimeInv, TypeOK, TimeSpec, Time, TimeExact, Normal, ktime_to_ns
<1>2. TimeInv /\ [Next]_vars => TimeInv'
  <2> SUFFICES ASSUME TimeInv, [Next]_vars PROVE TimeInv'
    OBVIOUS
  <2> USE DEF TimeInv, TypeOK, TimeExact
  <2>1. CASE Add
    BY <2>1, AddRight DEF Add
  <2>2. CASE Sub
    BY <2>2, SubRight DEF Sub
  <2>3. CASE Keep
    BY <2>3 DEF Keep
  <2>4. ASSUME NEW us \in 0..MaxNs, AddUs(us) PROVE TimeInv'
    <3>1. us \in Nat /\ us * NSEC_PER_USEC \in Int
      BY TimeAssumption
    <3> QED
      BY <2>4, <3>1, AddUsRight DEF AddUs
  <2>5. ASSUME NEW k \in -MaxNs..MaxNs, FromNs(k) PROVE TimeInv'
    <3>1. k \in Int
      BY TimeAssumption
    <3> QED
      BY <2>5, <3>1, FromNsRight DEF FromNs
  <2>6. CASE UNCHANGED vars
    BY <2>6 DEF vars, Normal, ktime_to_ns
  <2> QED
    BY <2>1, <2>2, <2>3, <2>4, <2>5, <2>6 DEF Next
<1> QED
  BY <1>1, <1>2, PTL DEF Spec

(* ktime_add(), ktime_sub(), ktime_add_us() and ns_to_timespec(): exact    *)
(* and normal after any sequence of calls.                                 *)
THEOREM AlwaysExact == Spec => []TimeExact
  BY TimeInvariant, PTL DEF TimeInv

(* ktime_compare() on the times that the other functions compute. *)
THEOREM AlwaysOrdered == Spec => []OrderRight
<1>1. TimeInv => OrderRight
  BY CompareRight DEF TimeInv, TypeOK, TimeExact, OrderRight
<1> QED
  BY <1>1, TimeInvariant, PTL

(* ktime_to_us(), ktime_to_ms() and the differences round down. *)
THEOREM AlwaysRoundsDown == Spec => []UnitsRoundDown
<1>1. TimeInv => UnitsRoundDown
  <2> SUFFICES ASSUME TimeInv PROVE UnitsRoundDown
    OBVIOUS
  <2>1. t \in TimeSpec /\ u \in TimeSpec /\ ktime_to_ns(t) = n /\ ktime_to_ns(u) = m
        /\ Normal(t) /\ Normal(u)
    BY DEF TimeInv, TypeOK, TimeExact
  <2>2. ktime_sub(t, u) \in TimeSpec /\ ktime_to_ns(ktime_sub(t, u)) = n - m
    BY <2>1, SubRight
  <2>3. /\ ktime_to_us(t) = n \div NSEC_PER_USEC
        /\ ktime_to_ms(t) = n \div (NSEC_PER_USEC * USEC_PER_MSEC)
    BY <2>1, UnitsRight
  <2>4. /\ ktime_to_us(ktime_sub(t, u)) = (n - m) \div NSEC_PER_USEC
        /\ ktime_to_ms(ktime_sub(t, u)) = (n - m) \div (NSEC_PER_USEC * USEC_PER_MSEC)
    BY <2>2, UnitsRight
  <2> QED
    BY <2>3, <2>4 DEF UnitsRoundDown, ktime_us_delta, ktime_ms_delta
<1> QED
  BY <1>1, TimeInvariant, PTL

(* Times are exact, ordered and converted right, for any units. *)
THEOREM AlwaysRight == Spec => []TimesRight
  BY AlwaysExact, AlwaysOrdered, AlwaysRoundsDown, PTL DEF TimesRight
=============================================================================
