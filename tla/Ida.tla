---------------------------------- MODULE Ida ----------------------------------
(***************************************************************************)
(* The id allocator without pointers (IDA, linux_idr.c): the leaves of the *)
(* tree hold bitmaps of IDA_BITMAP_BITS ids.  Memory is put on the free    *)
(* list before the lock is taken and taken from it inside, so threads take *)
(* each other's; who finds none starts again.                              *)
(*                                                                         *)
(*   t            the tree; a pointer at level 0 is the set of busy bits   *)
(*   free_bitmap  ida->free_bitmap is there                                *)
(*   pc, from, to where a thread is in ida_simple_get(start, end)          *)
(*   got          its answer: an id or an error                            *)
(*   held         ids allocated and not removed (history)                  *)
(***************************************************************************)
EXTENDS IdrTree

CONSTANTS
    Threads, IDA_BITMAP_BITS, MAX_IDR_FREE,
    Ranges,         \* pairs of start and end
    MaxCalls        \* bound: calls of ida_simple_get()

VARIABLES t, free_bitmap, pc, range, got, held, calls

vars == <<t, free_bitmap, pc, range, got, held, calls>>

Init ==
    /\ t = [EmptyTree EXCEPT !.old = TRUE]
    /\ free_bitmap = FALSE
    /\ pc = [w \in Threads |-> "idle"]
    /\ range = [w \in Threads |-> <<0, 0>>]
    /\ got = [w \in Threads |-> NULL]
    /\ held = {}
    /\ calls = 0

-----------------------------------------------------------------------------
ida_simple_get(w, r) ==
    /\ pc[w] = "idle" /\ calls < MaxCalls
    /\ pc' = [pc EXCEPT ![w] = "pre_get"]
    /\ range' = [range EXCEPT ![w] = r]
    /\ got' = [got EXCEPT ![w] = NULL]
    /\ calls' = calls + 1
    /\ UNCHANGED <<t, free_bitmap, held>>

Answer(w, v) ==
    /\ pc' = [pc EXCEPT ![w] = "idle"]
    /\ got' = [got EXCEPT ![w] = v]

(* ida_pre_get(): one layer after the other up to MAX_IDR_FREE, then the   *)
(* spare bitmap.                                                           *)
PreGetLayer(w) ==
    /\ pc[w] = "pre_get" /\ Len(t.id_free) < MAX_IDR_FREE
    /\ \/ t' = [t EXCEPT !.id_free = <<Zeroed>> \o @] /\ UNCHANGED <<pc, got>>
       \/ Answer(w, ENOMEM) /\ UNCHANGED t
    /\ UNCHANGED <<free_bitmap, range, held, calls>>

PreGetBitmap(w) ==
    /\ pc[w] = "pre_get" /\ Len(t.id_free) >= MAX_IDR_FREE
    /\ \/ free_bitmap' = TRUE /\ pc' = [pc EXCEPT ![w] = "get_new"] /\ UNCHANGED got
       \/ ~free_bitmap /\ Answer(w, ENOMEM) /\ UNCHANGED free_bitmap
    /\ UNCHANGED <<t, range, held, calls>>

(* ida_get_new_above() on a tree and the spare bitmap. *)
Spare(a) == IF a.t.id_free # <<>> THEN [a EXCEPT !.t.id_free = Tail(@)] ELSE a

MarkIfFull(tree, pa, idr_id, busy) ==
    IF Cardinality(busy) = IDA_BITMAP_BITS THEN idr_mark_full(tree, pa, idr_id) ELSE tree

WithBitmap(s) ==
    IF s.t.heap[s.pa[0]].ary[Digit(s.id, 0)] # NULL THEN s.t
    ELSE [s.t EXCEPT !.heap[s.pa[0]].ary[Digit(s.id, 0)] = {}, !.heap[s.pa[0]].count = @ + 1]

SetBit(tree, s, busy) ==
    MarkIfFull([tree EXCEPT !.heap[s.pa[0]].ary[Digit(s.id, 0)] = busy], s.pa, s.id, busy)

RECURSIVE ida_get_new_above(_, _, _, _)
FromBitmap(tree, spare, s, busy, zero) ==
    IF zero = {} THEN ida_get_new_above(tree, spare, s.id + 1, 0)
    ELSE IF s.id * IDA_BITMAP_BITS + Least(zero) > INT_MAX THEN [v |-> ENOSPC, t |-> tree, spare |-> spare]
    ELSE Spare([v |-> s.id * IDA_BITMAP_BITS + Least(zero), spare |-> spare,
                t |-> SetBit(tree, s, busy \cup {Least(zero)})])

(* In the bitmap of the slot, the old one or the spare one. *)
InSlot(s, old, spare, offset) ==
    IF s.id * IDA_BITMAP_BITS > INT_MAX THEN [v |-> ENOSPC, t |-> s.t, spare |-> spare]
    ELSE IF old = NULL /\ ~spare THEN [v |-> EAGAIN, t |-> s.t, spare |-> spare]
    ELSE LET busy == IF old = NULL THEN {} ELSE old
         IN FromBitmap(WithBitmap(s), spare /\ old # NULL, s, busy, (offset..IDA_BITMAP_BITS-1) \ busy)

FromSlot(s, spare, idr_id, offset) ==
    IF s.v < 0 THEN [v |-> IF s.v = ENOMEM THEN EAGAIN ELSE s.v, t |-> s.t, spare |-> spare]
    ELSE InSlot(s, s.t.heap[s.pa[0]].ary[Digit(s.id, 0)], spare, IF s.id = idr_id THEN offset ELSE 0)

ida_get_new_above(tree, spare, idr_id, offset) ==
    FromSlot(idr_get_empty_slot(tree, idr_id), spare, idr_id, offset)

(* ida_remove(): an empty bitmap is taken out of the tree, which expects   *)
(* its bit to be set, and kept as the spare one.                           *)
ClearFull(tree, idr_id, leaf) ==
    [ClearPath(tree, idr_id) EXCEPT !.heap[leaf].bitmap = @ \ {Digit(idr_id, 0)}]

Unset(tree, idr_id, leaf, busy) ==
    IF busy # {} THEN [t |-> [tree EXCEPT !.heap[leaf].ary[Digit(idr_id, 0)] = busy], empty |-> FALSE]
    ELSE [t |-> idr_remove([tree EXCEPT !.heap[leaf].bitmap = @ \cup {Digit(idr_id, 0)}], idr_id),
          empty |-> TRUE]

RemoveBit(tree, idr_id, leaf, bit) ==
    Unset(ClearFull(tree, idr_id, leaf), idr_id, leaf, tree.heap[leaf].ary[Digit(idr_id, 0)] \ {bit})

ida_remove(tree, id) ==
    LET idr_id == id \div IDA_BITMAP_BITS
    IN  RemoveBit(tree, idr_id, LeafOf(Path(tree, idr_id)), id % IDA_BITMAP_BITS)

(* The locked part of ida_simple_get(). *)
TooLarge(w, id) == range[w][2] # 0 /\ id > range[w][2] - 1

GiveBack(w, r, spare) == t' = r.t /\ free_bitmap' = (spare \/ r.empty) /\ Answer(w, ENOSPC)
Got(w, a) ==
    \/ /\ a.v = EAGAIN
       /\ t' = a.t /\ free_bitmap' = a.spare
       /\ pc' = [pc EXCEPT ![w] = "pre_get"]
       /\ UNCHANGED <<got, held>>
    \/ /\ a.v < 0 /\ a.v # EAGAIN
       /\ t' = a.t /\ free_bitmap' = a.spare /\ Answer(w, a.v) /\ UNCHANGED held
    \/ /\ a.v >= 0 /\ TooLarge(w, a.v)
       /\ GiveBack(w, ida_remove(a.t, a.v), a.spare) /\ UNCHANGED held
    \/ /\ a.v >= 0 /\ ~TooLarge(w, a.v)
       /\ t' = a.t /\ free_bitmap' = a.spare /\ Answer(w, a.v) /\ held' = held \cup {a.v}

GetNew(w) ==
    /\ pc[w] = "get_new"
    /\ Got(w, ida_get_new_above(t, free_bitmap, range[w][1] \div IDA_BITMAP_BITS,
                                range[w][1] % IDA_BITMAP_BITS))
    /\ UNCHANGED <<range, calls>>

Removed(r) == t' = r.t /\ free_bitmap' = (free_bitmap \/ r.empty)
ida_simple_remove(id) ==
    /\ id \in held
    /\ Removed(ida_remove([t EXCEPT !.lost = FALSE], id))
    /\ held' = held \ {id}
    /\ UNCHANGED <<pc, range, got, calls>>

-----------------------------------------------------------------------------
Get(w) == PreGetLayer(w) \/ PreGetBitmap(w) \/ GetNew(w)

Done == calls = MaxCalls /\ (\A w \in Threads : pc[w] = "idle") /\ UNCHANGED vars

Next ==
    \/ \E w \in Threads : Get(w) \/ \E r \in Ranges : ida_simple_get(w, r)
    \/ \E id \in held : ida_simple_remove(id)
    \/ Done

Spec == Init /\ [][Next]_vars

-----------------------------------------------------------------------------
(* The bits in the tree are the ids that have been given out; bits of full *)
(* bitmaps and of full layers are marked, no others.                       *)
TreeIsHeldIds ==
    /\ held = {i \in 0..INT_MAX :
                  /\ ToLeaf(t, i \div IDA_BITMAP_BITS) /\ i \div IDA_BITMAP_BITS <= idr_max(t.layers)
                  /\ LET path == Path(t, i \div IDA_BITMAP_BITS)
                         p    == t.heap[path[Len(path)]].ary[Digit(i \div IDA_BITMAP_BITS, 0)]
                     IN  p # NULL /\ i % IDA_BITMAP_BITS \in p}
    /\ \A p \in DOMAIN t.heap, k \in 0..IDR_SIZE-1 :
           k \in t.heap[p].bitmap <=>
               /\ t.heap[p].ary[k] # NULL
               /\ IF t.heap[p].layer = 0 THEN Cardinality(t.heap[p].ary[k]) = IDA_BITMAP_BITS
                  ELSE FullBitmap(t.heap[t.heap[p].ary[k]].bitmap)

(* "Allocates an id in the range start <= id < end, or returns -ENOSPC":   *)
(* a thread that has an answer was given an id of its range that nobody    *)
(* else had, or there was none.                                            *)
AnswersAreRight ==
    [][\A w \in Threads : pc[w] = "get_new" /\ pc'[w] = "idle" =>
          LET S == {i \in range[w][1]..INT_MAX : i \notin held
                      /\ (range[w][2] # 0 => i < range[w][2])}
          IN  IF S = {} THEN got'[w] = ENOSPC ELSE got'[w] = Least(S)]_vars
=============================================================================
