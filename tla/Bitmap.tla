-------------------------------- MODULE Bitmap --------------------------------
(***************************************************************************)
(* The bitmaps of linux_func.c: arrays of words, of which the functions    *)
(* promise the first nbits bits.  A word is the set of its bits.           *)
(*                                                                         *)
(*   a, b      two bitmaps                                                 *)
(*   sa, sb    the sets of bits their users think they are (reference)     *)
(*   last      what the last function returned, and the reference for it   *)
(***************************************************************************)
EXTENDS Integers, FiniteSets, FiniteSetsExt

CONSTANTS
    BITS_PER_LONG,
    Bits                \* nbits, not a multiple of BITS_PER_LONG or one

BitmapAssumption == BITS_PER_LONG \in Nat \ {0} /\ Bits \in Nat \ {0}

VARIABLES a, b, sa, sb, last

vars == <<a, b, sa, sb, last>>

BIT_WORD(n) == n \div BITS_PER_LONG
Bit(n) == n % BITS_PER_LONG                     \* BIT_MASK()
BITS_TO_LONGS(n) == (n + BITS_PER_LONG - 1) \div BITS_PER_LONG
Words == 0..(BITS_TO_LONGS(Bits) - 1)
All == 0..(BITS_PER_LONG - 1)                   \* ~0UL
Below(n) == 0..(n - 1)                          \* (1 << n) - 1

Is(m, n) == Bit(n) \in m[BIT_WORD(n)]
Put(m, n, on) ==
    [m EXCEPT ![BIT_WORD(n)] = IF on THEN @ \cup {Bit(n)} ELSE @ \ {Bit(n)}]

-----------------------------------------------------------------------------
(* Functions that change a bitmap. *)
bitmap_zero == [w \in Words |-> {}]
bitmap_fill == [w \in Words |-> All]
bitmap_andnot(p, q) == [w \in Words |-> p[w] \ q[w]]
bitmap_and(p, q) == [w \in Words |-> p[w] \cap q[w]]
bitmap_or(p, q) == [w \in Words |-> p[w] \cup q[w]]

(* Bit by bit: the words of the result keep what is beyond nbits. *)
bitmap_shift_right(dst, src, n) ==
    [w \in Words |-> {x \in All : LET at == w * BITS_PER_LONG + x IN
        IF at >= Bits THEN x \in dst[w] ELSE at < Bits - n /\ Is(src, at + n)}]
bitmap_shift_left(dst, src, n) ==
    [w \in Words |-> {x \in All : LET at == w * BITS_PER_LONG + x IN
        IF at >= Bits THEN x \in dst[w] ELSE at >= n /\ Is(src, at - n)}]

(* bitmap_clear(): whole words and a mask in the first and in the last     *)
(* one; the mask of the first word has the bits in front of start, so      *)
(* bitmap_clear(map, 0, nbits), the call of linux_idr.c, leaves that word. *)
bitmap_clear(m, start, nr) ==
    LET rem == Bit(start)
        first == BIT_WORD(start)
        loop[k \in Nat] ==      \* the state before turn k
            IF k = 0 THEN [m |-> m, nr |-> nr, bits |-> BITS_PER_LONG - rem, mask |-> Below(rem)]
            ELSE LET s == loop[k - 1]
                 IN [m |-> [s.m EXCEPT ![first + k - 1] = @ \ s.mask],
                     nr |-> s.nr - s.bits, bits |-> BITS_PER_LONG, mask |-> All]
        turns == CHOOSE k \in 0..(BITS_TO_LONGS(Bits) + 1) :
                     /\ loop[k].nr < loop[k].bits
                     /\ \A j \in 0..(k - 1) : loop[j].nr >= loop[j].bits
        s == loop[turns]
    IN IF s.nr = 0 THEN s.m
       ELSE [s.m EXCEPT ![first + turns] = @ \ (s.mask \cap Below(Bit(start + nr)))]

-----------------------------------------------------------------------------
(* Functions that look: whole words, then the bits of the last one. *)
Whole(n) == 0..(BIT_WORD(n) - 1)
TailBits(n) == Below(Bit(n))

bitmap_subset(p, q) ==
    /\ \A w \in Whole(Bits) : p[w] \subseteq q[w]
    /\ TailBits(Bits) # {} => (p[BIT_WORD(Bits)] \ q[BIT_WORD(Bits)]) \cap TailBits(Bits) = {}
bitmap_full(p) ==
    /\ \A w \in Whole(Bits) : p[w] = All
    /\ TailBits(Bits) # {} => TailBits(Bits) \subseteq p[BIT_WORD(Bits)]
bitmap_equal(p, q) ==
    /\ \A w \in Whole(Bits) : p[w] = q[w]
    /\ \A x \in TailBits(Bits) : x \in p[BIT_WORD(Bits)] <=> x \in q[BIT_WORD(Bits)]
bitmap_empty(p) ==
    /\ \A w \in Whole(Bits) : p[w] = {}
    /\ \A x \in TailBits(Bits) : x \notin p[BIT_WORD(Bits)]
bitmap_intersects(p, q) ==
    \/ \E w \in Whole(Bits) : p[w] \cap q[w] # {}
    \/ \E x \in TailBits(Bits) : x \in p[BIT_WORD(Bits)] \cap q[BIT_WORD(Bits)]
bitmap_weight(p) == Cardinality({x \in Below(Bits) : Is(p, x)})

(* find_next_bit(), find_next_zero_bit(): the first word without the bits  *)
(* in front of offset, then word by word; beyond size is size.             *)
Find(m, size, offset, zero) ==
    LET from(w) == IF w = BIT_WORD(offset) THEN All \ Below(Bit(offset)) ELSE All
        seen(w) == (IF zero THEN All \ m[w] ELSE m[w]) \cap from(w)
        hit == {w \in Words : w >= BIT_WORD(offset) /\ w * BITS_PER_LONG < size /\ seen(w) # {}}
        at == IF offset >= size \/ hit = {} THEN size
              ELSE Min(hit) * BITS_PER_LONG + Min(seen(Min(hit)))
    IN IF at > size THEN size ELSE at
find_next_bit(m, size, offset) == Find(m, size, offset, FALSE)
find_next_zero_bit(m, size, offset) == Find(m, size, offset, TRUE)

-----------------------------------------------------------------------------
Index == Below(Bits)
Quiet == <<>>

Init == a = bitmap_zero /\ b = bitmap_zero /\ sa = {} /\ sb = {} /\ last = Quiet

Change(m, s) == a' = m /\ sa' = s /\ last' = Quiet /\ UNCHANGED <<b, sb>>
Look(g, w) == last' = <<g, w>> /\ UNCHANGED <<a, b, sa, sb>>

set_bit(n) == Change(Put(a, n, TRUE), sa \cup {n})
clear_bit(n) == Change(Put(a, n, FALSE), sa \ {n})
change_bit(n) == Change(Put(a, n, ~Is(a, n)), IF n \in sa THEN sa \ {n} ELSE sa \cup {n})
test_and_set_bit(n) ==
    a' = Put(a, n, TRUE) /\ sa' = sa \cup {n} /\ last' = <<Is(a, n), n \in sa>>
    /\ UNCHANGED <<b, sb>>
test_and_clear_bit(n) ==
    a' = Put(a, n, FALSE) /\ sa' = sa \ {n} /\ last' = <<Is(a, n), n \in sa>>
    /\ UNCHANGED <<b, sb>>

(* The answer of bitmap_and() and bitmap_andnot() also has the bits beyond *)
(* nbits: it is "not empty" whenever the result is not.                    *)
ChangeSaying(m, s) ==
    /\ a' = m /\ sa' = s /\ UNCHANGED <<b, sb>>
    /\ last' = <<(\E w \in Words : m[w] # {}) \/ s = {}, TRUE>>

bitmap_copy == b' = a /\ sb' = sa /\ last' = Quiet /\ UNCHANGED <<a, sa>>

Changes ==
    \/ \E n \in Index : \/ set_bit(n) \/ clear_bit(n) \/ change_bit(n)
                        \/ test_and_set_bit(n) \/ test_and_clear_bit(n)
    \/ bitmap_copy
    \/ Change(bitmap_zero, {}) \/ Change(bitmap_fill, Index)
    \/ ChangeSaying(bitmap_and(a, b), sa \cap sb)
    \/ ChangeSaying(bitmap_andnot(a, b), sa \ sb)
    \/ Change(bitmap_clear(a, 0, Bits), sa \cap All)
    \/ Change(bitmap_or(a, b), sa \cup sb)
    \/ \E n \in 0..Bits : \/ Change(bitmap_shift_right(a, b, n), {x \in Index : x + n \in sb})
                          \/ Change(bitmap_shift_left(a, b, n), {x \in Index : x - n \in sb})

Looks ==
    \/ Look(bitmap_subset(a, b), sa \subseteq sb) \/ Look(bitmap_full(a), sa = Index)
    \/ Look(bitmap_equal(a, b), sa = sb) \/ Look(bitmap_empty(a), sa = {})
    \/ Look(bitmap_intersects(a, b), sa \cap sb # {})
    \/ Look(bitmap_weight(a), Cardinality(sa))
    \/ \E n \in 0..Bits, size \in (Bits - BITS_PER_LONG)..Bits :
          \/ Look(find_next_bit(a, size, n), Min({size} \cup {x \in sa : x >= n /\ x < size}))
          \/ Look(find_next_zero_bit(a, size, n),
                  Min({size} \cup {x \in Index \ sa : x >= n /\ x < size}))

(* The caller has seen the answer. *)
Return == last # Quiet /\ last' = Quiet /\ UNCHANGED <<a, b, sa, sb>>

Next ==
    \/ last = Quiet /\ (Changes \/ Looks)
    \/ Return

Spec == Init /\ [][Next]_vars

-----------------------------------------------------------------------------
(* Below nbits a bitmap is the set its users think it is, after any calls; *)
(* clearing from bit 0 leaves exactly the first word.                      *)
Agrees == \A n \in Index : (Is(a, n) <=> n \in sa) /\ (Is(b, n) <=> n \in sb)

(* A look at a bitmap says what is true of the set, whatever earlier calls *)
(* left beyond nbits.                                                      *)
LooksTrue == last # Quiet => last[1] = last[2]
=============================================================================
