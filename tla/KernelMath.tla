------------------------------ MODULE KernelMath ------------------------------
(***************************************************************************)
(* Functions of linux_func.c that compute with words of W bits (32 or 64   *)
(* in the code), as the code computes them, next to what they are for.     *)
(*                                                                         *)
(*   fn, arg, ret   the last call: function, arguments, answer             *)
(***************************************************************************)
EXTENDS Integers, Sequences, SequencesExt, FiniteSets, Bitwise

CONSTANTS
    W,              \* bits of a word, a power of two
    Sizes,          \* numbers of members and sizes
    Ratios,         \* numerators, denominators and their limits
    Keys, MaxLen    \* what is sorted, and the bound on its length

KernelMathAssumption ==
    /\ W \in {4, 8, 16} /\ Sizes \subseteq 0..(2^W - 1) /\ Ratios \subseteq 0..(2^W - 1)
    /\ MaxLen \in Nat

VARIABLES fn, arg, ret

vars == <<fn, arg, ret>>

Word == 0..(2^W - 1)
Wrap(x) == x % 2^W
SIZE_MAX == 2^W - 1
SSIZE_MAX == 2^(W - 1) - 1

-----------------------------------------------------------------------------
(* int_sqrt(): W / 2 rounds; the root comes down the word as it is found,  *)
(* a one behind it as the next bit to try.                                 *)

int_sqrt(a) ==
    LET round[k \in 0..(W \div 2)] ==
            IF k = 0 THEN [a |-> a, b |-> 2^(W - 2)]
            ELSE LET s == round[k - 1]
                     p == W - 2 * k
                     hit == s.a >= s.b
                 IN [a |-> IF hit THEN s.a - s.b ELSE s.a,
                     b |-> (s.b \div 2) ^^ (IF p = 0 THEN (IF hit THEN 1 ELSE 0)
                                            ELSE (IF hit THEN 7 ELSE 3) * 2^(p - 2))]
    IN round[W \div 2].b

(* fls(), __flsl(): halve the word, keep the half with the highest bit. *)
FlsFrom[h \in 0..W] == [x \in Word |->
    IF h = 0 THEN 1
    ELSE IF x >= 2^h THEN h + FlsFrom[h \div 2][x \div 2^h] ELSE FlsFrom[h \div 2][x]]
fls(x) == IF x = 0 THEN 0 ELSE FlsFrom[W \div 2][x]

rounddown_pow_of_two(x) == IF x = 0 THEN 0 ELSE 2^(fls(x) - 1)
roundup_pow_of_two(x) == IF x = 0 THEN 0 ELSE 2^fls(x - 1)

(* The lowest one and the lowest zero, as masks. *)
__ffs(x) == Wrap(-x) & x
__ffz(x) == Wrap(x + 1) & (SIZE_MAX - x)

(* hweight8(): the bits of pairs, of fours, of all eight, added in place. *)
hweight8(w) ==
    LET a == w - ((w \div 2) & 85)
        b == (a & 51) + ((a \div 4) & 51)
    IN (b + b \div 16) & 15

bitrev8(w) ==
    LET a == (w & 85) * 2 + (w & 170) \div 2
        b == (a & 51) * 4 + (a & 204) \div 4
    IN (b & 15) * 16 + (b & 240) \div 16

ror32(x, n) == LET k == n % W IN IF k = 0 THEN x ELSE Wrap((x \div 2^k) + x * 2^(W - k))

-----------------------------------------------------------------------------
(* Sizes of what is to be allocated; SIZE_MAX is refused by malloc(). *)
array_size(a, b) ==
    LET temp == Wrap(a * b) IN
    IF a = 0 \/ b = 0 THEN 0
    ELSE IF temp \div b # a \/ temp > SSIZE_MAX THEN SIZE_MAX ELSE temp

array3_size(a, b, c) ==
    LET t1 == Wrap(a * b)
        temp == Wrap(t1 * c)
    IN IF a = 0 \/ b = 0 \/ c = 0 THEN 0
       ELSE IF t1 \div b # a \/ temp \div c # t1 \/ temp > SSIZE_MAX THEN SIZE_MAX ELSE temp

struct_size_sub(n, m_size, b_size) ==
    LET temp == Wrap(n * m_size) IN
    IF n > SSIZE_MAX \/ m_size > SSIZE_MAX \/ b_size > SSIZE_MAX THEN SIZE_MAX
    ELSE IF n = 0 THEN b_size
    ELSE IF temp \div n # m_size \/ temp > SSIZE_MAX \/ Wrap(temp + b_size) > SSIZE_MAX
         THEN SIZE_MAX ELSE Wrap(temp + b_size)

-----------------------------------------------------------------------------
RECURSIVE Euclid(_, _)
Euclid(a, b) == IF a % b = 0 THEN b ELSE Euclid(b, a % b)
gcd(x, y) ==
    LET a == IF x < y THEN y ELSE x
        b == IF x < y THEN x ELSE y
    IN IF b = 0 THEN a ELSE Euclid(a, b)

(* rational_best_approximation(): the convergents of the continued         *)
(* fraction until one is out of the limits.                                *)
RECURSIVE Convergent(_, _, _, _, _, _, _, _)
Convergent(n, d, n0, d0, n1, d1, maxn, maxd) ==
    IF n1 > maxn \/ d1 > maxd THEN <<n0, d0>>
    ELSE IF d = 0 THEN <<n1, d1>>
    ELSE Convergent(d, n % d, n1, d1, n0 + (n \div d) * n1, d0 + (n \div d) * d1, maxn, maxd)
rational_best_approximation(n, d, maxn, maxd) == Convergent(n, d, 0, 1, 1, 0, maxn, maxd)

-----------------------------------------------------------------------------
(* sort(): a heap sort in place.  s[r+1] is the element at index r; below  *)
(* is where the heap ends.                                                 *)
Swap(s, i, j) == [s EXCEPT ![i + 1] = s[j + 1], ![j + 1] = s[i + 1]]

RECURSIVE Sift(_, _, _)
SiftMutant(s, r, below) ==
    LET left == 2 * r + 1
        c == IF left < below /\ s[left + 1] < s[left + 2] THEN left + 1 ELSE left
    IN IF left >= below \/ left + 1 >= Len(s) THEN s
       ELSE IF s[r + 1] >= s[c + 1] THEN s ELSE Sift(Swap(s, r, c), c, below)
Sift(s, r, below) ==
    LET left == 2 * r + 1
        c == IF left < below - 1 /\ s[left + 1] < s[left + 2] THEN left + 1 ELSE left
    IN IF left >= below THEN s
       ELSE IF s[r + 1] >= s[c + 1] THEN s ELSE Sift(Swap(s, r, c), c, below)

RECURSIVE Heapify(_, _)
Heapify(s, i) == IF i < 0 THEN s ELSE Heapify(Sift(s, i, Len(s)), i - 1)
RECURSIVE TakeOut(_, _)
TakeOut(s, i) == IF i <= 0 THEN s ELSE TakeOut(Sift(Swap(s, 0, i), 0, i), i - 1)
sort(s) == TakeOut(Heapify(s, Len(s) \div 2 - 1), Len(s) - 1)

-----------------------------------------------------------------------------
Init == fn = "none" /\ arg = <<>> /\ ret = 0

Call(f, a, r) == fn = "none" /\ fn' = f /\ arg' = a /\ ret' = r

OfWord == \E x \in Word :
    \/ Call("int_sqrt", <<x>>, int_sqrt(x))
    \/ Call("fls", <<x>>, fls(x))
    \/ Call("rounddown", <<x>>, rounddown_pow_of_two(x))
    \/ x <= 2^(W - 1) /\ Call("roundup", <<x>>, roundup_pow_of_two(x))
    \/ Call("ffs", <<x>>, __ffs(x))
    \/ Call("ffz", <<x>>, __ffz(x))
    \/ x < 256 /\ Call("hweight8", <<x>>, hweight8(x))
    \/ x < 256 /\ Call("bitrev8", <<x>>, bitrev8(x))
    \/ \E n \in {0, 1, W - 1, W, W + 1} : Call("ror32", <<x, n>>, ror32(x, n))

OfSizes == \E a, b, c \in Sizes :
    \/ Call("array_size", <<a, b>>, array_size(a, b))
    \/ Call("array3_size", <<a, b, c>>, array3_size(a, b, c))
    \/ Call("struct_size_sub", <<a, b, c>>, struct_size_sub(a, b, c))

OfRatios == \E n, d, maxn, maxd \in Ratios :
    /\ maxn > 0 /\ maxd > 0
    /\ Call("rational", <<n, d, maxn, maxd>>, rational_best_approximation(n, d, maxn, maxd))

OfLists == \E k \in 0..MaxLen : \E s \in [1..k -> Keys] : Call("sort", s, sort(s))

Return == fn # "none" /\ fn' = "none" /\ arg' = <<>> /\ ret' = 0

Next == OfWord \/ OfSizes \/ OfRatios \/ OfLists \/ Return

Spec == Init /\ [][Next]_vars

-----------------------------------------------------------------------------
(* int_sqrt() is the root, rounded down, up to the largest word. *)
SqrtIsFloor ==
    fn = "int_sqrt" => ret * ret <= arg[1] /\ (ret + 1) * (ret + 1) > arg[1]

(* The functions on the bits of a word agree with the set of its bits; at  *)
(* zero they answer zero.                                                  *)
Ones(x) == {i \in 0..(W - 1) : (x \div 2^i) % 2 = 1}
Highest(S) == CHOOSE i \in S : \A j \in S : j <= i
Lowest(S) == CHOOSE i \in S : \A j \in S : j >= i
BitsRight ==
    LET x == arg[1] IN
    /\ fn = "fls" => ret = IF x = 0 THEN 0 ELSE Highest(Ones(x)) + 1
    /\ fn = "rounddown" => Ones(ret) = IF x = 0 THEN {} ELSE {Highest(Ones(x))}
    /\ fn = "roundup" => IF x = 0 THEN ret = 0
                         ELSE ret >= x /\ ret < 2 * x /\ Cardinality(Ones(ret)) = 1
    /\ fn = "ffs" => Ones(ret) = IF x = 0 THEN {} ELSE {Lowest(Ones(x))}
    /\ fn = "ffz" => Ones(ret) = IF x = SIZE_MAX THEN {} ELSE {Lowest((0..(W-1)) \ Ones(x))}
    /\ fn = "hweight8" => ret = Cardinality(Ones(x))
    /\ fn = "bitrev8" => Ones(ret) = {7 - i : i \in Ones(x)}
    /\ fn = "ror32" => Ones(ret) = {(i - arg[2]) % W : i \in Ones(x)}

(* A size is exact or SIZE_MAX: a product that overflows is never taken    *)
(* for a small one.                                                        *)
Exact ==
    CASE fn = "array_size" -> arg[1] * arg[2]
      [] fn = "array3_size" -> arg[1] * arg[2] * arg[3]
      [] fn = "struct_size_sub" -> arg[1] * arg[2] + arg[3]
      [] OTHER -> 0
SizesSaturate ==
    fn \in {"array_size", "array3_size", "struct_size_sub"} =>
        /\ Exact <= SSIZE_MAX =>
               \/ ret = Exact
               \/ ret = SIZE_MAX /\ \E i \in DOMAIN arg : arg[i] > SSIZE_MAX
        /\ Exact > SSIZE_MAX => ret = SIZE_MAX

(* The approximation of a ratio stays within its limits, and is the ratio  *)
(* itself, reduced, if that does.                                          *)
RatioRight ==
    LET n == arg[1]  d == arg[2]  g == gcd(n, d) IN
    fn = "rational" =>
        /\ ret[1] <= arg[3] /\ ret[2] <= arg[4]
        /\ g > 0 /\ n \div g <= arg[3] /\ d \div g <= arg[4] =>
               ret = <<n \div g, d \div g>>

(* sort() leaves a permutation of what it was given, in order. *)
Times(s, k) == Cardinality({i \in DOMAIN s : s[i] = k})
SortsAll ==
    fn = "sort" =>
        /\ Len(ret) = Len(arg) /\ \A k \in Keys : Times(ret, k) = Times(arg, k)
        /\ \A i, j \in DOMAIN ret : i < j => ret[i] <= ret[j]
=============================================================================
