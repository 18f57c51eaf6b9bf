------------------------------ MODULE KernelTime ------------------------------
(***************************************************************************)
(* Time arithmetic of linux_func.c on struct timespec, whose seconds may   *)
(* be negative and whose nanoseconds must not be.                          *)
(*                                                                         *)
(*   t, u   two times                                                      *)
(*   n, m   the nanoseconds they stand for (reference)                     *)
(***************************************************************************)
EXTENDS Integers

CONSTANTS
    NSEC_PER_USEC, USEC_PER_MSEC, MSEC_PER_SEC,     \* 1000 each in the code
    MaxNs               \* bound: times on either side of zero

ASSUME TimeAssumption ==
    /\ NSEC_PER_USEC \in Nat \ {0} /\ USEC_PER_MSEC \in Nat \ {0} /\ MSEC_PER_SEC \in Nat \ {0}
    /\ MaxNs \in Nat

VARIABLES t, u, n, m

vars == <<t, u, n, m>>

USEC_PER_SEC == USEC_PER_MSEC * MSEC_PER_SEC
NSEC_PER_SEC == NSEC_PER_USEC * USEC_PER_SEC

Time(s, ns) == [tv_sec |-> s, tv_nsec |-> ns]

(* Division of C: towards zero. *)
Quot(x, y) == IF x >= 0 THEN x \div y ELSE -((-x) \div y)
Rem(x, y) == x - y * Quot(x, y)

-----------------------------------------------------------------------------
ktime_to_ns(a) == a.tv_sec * NSEC_PER_SEC + a.tv_nsec

ktime_sub(a, b) ==
    LET s == a.tv_sec - b.tv_sec
        ns == a.tv_nsec - b.tv_nsec
    IN IF ns < 0 THEN Time(s - 1, ns + NSEC_PER_SEC) ELSE Time(s, ns)
AddMutant(a, b) ==
    LET s == a.tv_sec + b.tv_sec
        ns == a.tv_nsec + b.tv_nsec
    IN IF ns > NSEC_PER_SEC THEN Time(s + 1, ns - NSEC_PER_SEC) ELSE Time(s, ns)
ktime_add(a, b) ==
    LET s == a.tv_sec + b.tv_sec
        ns == a.tv_nsec + b.tv_nsec
    IN IF ns >= NSEC_PER_SEC THEN Time(s + 1, ns - NSEC_PER_SEC) ELSE Time(s, ns)
timespec_add(a, b) == ktime_add(a, b)

(* usec is unsigned. *)
ktime_add_us(a, usec) ==
    timespec_add(a, Time(usec \div USEC_PER_SEC, NSEC_PER_USEC * (usec % USEC_PER_SEC)))

ns_to_timespec(nsec) ==
    LET s == Quot(nsec, NSEC_PER_SEC)
        rem == Rem(nsec, NSEC_PER_SEC)
    IN IF nsec = 0 THEN Time(0, 0)
       ELSE IF rem < 0 THEN Time(s - 1, rem + NSEC_PER_SEC) ELSE Time(s, rem)

(* ktime_to_timeval() and ktime_to_us(), ktime_to_ms() *)
ktime_to_us(a) == a.tv_sec * USEC_PER_SEC + a.tv_nsec \div NSEC_PER_USEC
ktime_to_ms(a) == a.tv_sec * MSEC_PER_SEC + a.tv_nsec \div (NSEC_PER_USEC * USEC_PER_MSEC)
ktime_us_delta(last, first) == ktime_to_us(ktime_sub(last, first))
ktime_ms_delta(last, first) == ktime_to_ms(ktime_sub(last, first))

ktime_compare(a, b) ==
    IF a.tv_sec = b.tv_sec
    THEN IF a.tv_nsec > b.tv_nsec THEN 1 ELSE IF a.tv_nsec < b.tv_nsec THEN -1 ELSE 0
    ELSE IF a.tv_sec > b.tv_sec THEN 1 ELSE -1

-----------------------------------------------------------------------------
Init == t = Time(0, 0) /\ u = Time(0, 0) /\ n = 0 /\ m = 0

InBound(k) == -MaxNs <= k /\ k <= MaxNs

Add == t' = ktime_add(t, u) /\ n' = n + m /\ InBound(n + m) /\ UNCHANGED <<u, m>>
Sub == t' = ktime_sub(t, u) /\ n' = n - m /\ InBound(n - m) /\ UNCHANGED <<u, m>>
AddUs(us) ==
    /\ t' = ktime_add_us(t, us) /\ n' = n + us * NSEC_PER_USEC /\ InBound(n + us * NSEC_PER_USEC)
    /\ UNCHANGED <<u, m>>
FromNs(k) == t' = ns_to_timespec(k) /\ n' = k /\ UNCHANGED <<u, m>>
Keep == u' = t /\ m' = n /\ UNCHANGED <<t, n>>

Next ==
    \/ Add \/ Sub \/ Keep
    \/ \E us \in 0..MaxNs : AddUs(us)
    \/ \E k \in -MaxNs..MaxNs : FromNs(k)

Spec == Init /\ [][Next]_vars

-----------------------------------------------------------------------------
(* After any sums and differences, on either side of zero, a time stands   *)
(* for the right number of nanoseconds and has less than a second of them. *)
Normal(a) == a.tv_nsec >= 0 /\ a.tv_nsec < NSEC_PER_SEC
TimeExact ==
    /\ ktime_to_ns(t) = n /\ Normal(t)
    /\ ktime_to_ns(u) = m /\ Normal(u)

(* ktime_compare() orders times as their nanoseconds are ordered. *)
OrderRight ==
    /\ ktime_compare(t, u) = 1 <=> n > m
    /\ ktime_compare(t, u) = -1 <=> n < m

(* Microseconds and milliseconds of a time and of a difference are rounded *)
(* down, on either side of zero.                                           *)
UnitsRoundDown ==
    /\ ktime_to_us(t) = n \div NSEC_PER_USEC
    /\ ktime_to_ms(t) = n \div (NSEC_PER_USEC * USEC_PER_MSEC)
    /\ ktime_us_delta(t, u) = (n - m) \div NSEC_PER_USEC
    /\ ktime_ms_delta(t, u) = (n - m) \div (NSEC_PER_USEC * USEC_PER_MSEC)

(* The times that drivers compute with are exact and normal, are ordered   *)
(* as they should be, and convert to units rounded down (ktime_add() and   *)
(* its like, ktime_compare(), ktime_to_us(), ktime_to_ms()).               *)
TimesRight == TimeExact /\ OrderRight /\ UnitsRoundDown
=============================================================================
