------------------------------- MODULE IdrTree -------------------------------
(***************************************************************************)
(* The radix tree of linux_idr.c as operators on a value t:                *)
(*   heap     the allocated layers, each with its layer, prefix, bitmap    *)
(*            ("a zero bit means space here"), count and ary               *)
(*   top, layers, hint      the fields of struct idr                       *)
(*   id_free  the layers on the free list, with the prefix and the bitmap  *)
(*            they have kept                                               *)
(*   preload  idr_preload_cnt                                              *)
(*   kmem     how many more allocations succeed                            *)
(*   old      allocate from the free list (IDA)                            *)
(*   lost     the last call lost a layer (history)                         *)
(* An int has IDR_SHIFT bits and a sign.  Layers are freed through         *)
(* call_rcu(), whose head shares its memory with the first word of bitmap. *)
(***************************************************************************)
EXTENDS Integers, Sequences, FiniteSets

CONSTANTS
    IDR_BITS,
    IDR_SHIFT,      \* MAX_IDR_SHIFT
    WORD_BITS,      \* bits of the bitmap that rcu_head.next covers
    MaxLayers,      \* bound: layers in memory
    NULL

(* "Leave the possibility of an incomplete final layer": 31 bits, 8 each. *)
IdrAssumption ==
    /\ IDR_BITS \in Nat \ {0} /\ IDR_SHIFT \in Nat /\ WORD_BITS \in Nat
    /\ IDR_SHIFT % IDR_BITS # 0

IDR_SIZE == 2^IDR_BITS
MAX_IDR_LEVEL == (IDR_SHIFT + IDR_BITS - 1) \div IDR_BITS
INT_MAX == 2^IDR_SHIFT - 1

ENOENT == -2
EAGAIN == -11
ENOMEM == -12
ENOSPC == -28
BUG    == -99

(* Wrap-around of int *)
AsInt(x) == ((x + 2^IDR_SHIFT) % 2^(IDR_SHIFT + 1)) - 2^IDR_SHIFT

Least(S) == CHOOSE x \in S : \A y \in S : x <= y

EmptyTree == [heap |-> [n \in {} |-> 0], top |-> NULL, layers |-> 0, hint |-> NULL,
              id_free |-> <<>>, preload |-> 0, kmem |-> 0, old |-> FALSE,
              lost |-> FALSE]

(* the maximum ID which can be allocated given the layers *)
idr_max(layers) ==
    LET bits == layers * IDR_BITS IN 2^(IF bits < IDR_SHIFT THEN bits ELSE IDR_SHIFT) - 1

Digit(id, l)  == (id \div 2^(IDR_BITS * l)) % IDR_SIZE
Above(id, l)  == id \div 2^(IDR_BITS * (l + 1))
Prefix(id, l) == Above(id, l) * 2^(IDR_BITS * (l + 1))

FullBitmap(bitmap) == bitmap = 0..IDR_SIZE-1
-----------------------------------------------------------------------------
Zeroed == [prefix |-> 0, bitmap |-> {}]         \* kmem_cache_zalloc()

LayerAt(t, raw, n) ==
    [node |-> n,
     t |-> [t EXCEPT !.heap = [k \in DOMAIN t.heap \cup {n} |->
                IF k = n THEN [layer |-> 0, prefix |-> raw.prefix, bitmap |-> raw.bitmap, count |-> 0,
                               ary |-> [i \in 0..IDR_SIZE-1 |-> NULL]]
                ELSE t.heap[k]]]]
NewLayer(t, raw) == LayerAt(t, raw, Least((1..MaxLayers) \ DOMAIN t.heap))

(* idr_layer_alloc(): the old interface (IDA) takes from the free list,    *)
(* the new one from memory and then from the preloaded layers.             *)
idr_layer_alloc(t, old) ==
    CASE old /\ t.id_free # <<>> ->
            NewLayer([t EXCEPT !.id_free = [i \in 1..Len(@)-1 |-> @[i+1]]], t.id_free[1])
      [] old /\ t.id_free = <<>> -> [node |-> NULL, t |-> t]
      [] ~old /\ t.kmem > 0 -> NewLayer([t EXCEPT !.kmem = @ - 1], Zeroed)
      [] ~old /\ t.kmem = 0 /\ t.preload > 0 -> NewLayer([t EXCEPT !.preload = @ - 1], Zeroed)
      [] OTHER -> [node |-> NULL, t |-> t]

(* bitmap_clear(bitmap, 0, IDR_SIZE) clears nothing in the first word: its *)
(* mask there has the bits in front of the start (see Bitmap).             *)
Cleared(bitmap) == bitmap \cap 0..WORD_BITS-1

Without(heap, S) == [n \in DOMAIN heap \ S |-> heap[n]]

(* free_layer(): call_rcu() takes a request whose next pointer is not NULL *)
(* for one that is queued already, and does nothing: the layer is lost.    *)
Queued(t, p) == t.heap[p].bitmap \cap 0..WORD_BITS-1 # {}

free_layer(t, p) ==
    [t EXCEPT !.hint = IF @ = p THEN NULL ELSE @,
              !.lost = @ \/ Queued(t, p),
              !.heap = Without(@, {p})]

-----------------------------------------------------------------------------
(* idr_mark_full(): full layers are marked in the layer above. *)
RECURSIVE MarkUp(_, _, _, _)
MarkUp(t, pa, l, id) ==
    IF pa[l] = NULL THEN t
    ELSE LET b  == t.heap[pa[l]].bitmap \cup {Digit(id, l)}
             t2 == [t EXCEPT !.heap[pa[l]].bitmap = b]
         IN  IF FullBitmap(b) THEN MarkUp(t2, pa, l + 1, id) ELSE t2

idr_mark_full(t, pa, id) == MarkUp(t, pa, 0, id)

(* sub_alloc(): down the tree along the bits that are zero, creating the   *)
(* layers that are missing; one up, or back to the top, where a layer has  *)
(* no space after the id.                                                  *)
NeedsGrowth(t, id) == id > idr_max(t.layers)

Child(t, p, m) ==
    IF t.heap[p].ary[m] = NULL THEN idr_layer_alloc(t, t.old) ELSE [node |-> t.heap[p].ary[m], t |-> t]
Linked(t, at, l, p, m, new) ==
    IF t.heap[p].ary[m] # NULL THEN t
    ELSE [new.t EXCEPT !.heap[new.node].layer = l - 1,
                       !.heap[new.node].prefix = Prefix(at, l - 1),
                       !.heap[p].ary[m] = new.node,
                       !.heap[p].count = @ + 1]
At(id, l, m) ==
    IF m = Digit(id, l) THEN id
    ELSE AsInt((id \div 2^(IDR_BITS * l) - Digit(id, l) + m) * 2^(IDR_BITS * l))

RECURSIVE Descend(_, _, _, _, _)
GoUp(t, id, up, l, pa) ==
    IF NeedsGrowth(t, up) THEN [v |-> EAGAIN, id |-> up, t |-> t, pa |-> pa]
    ELSE IF pa[l+1] = NULL THEN [v |-> BUG, id |-> up, t |-> t, pa |-> pa]
    ELSE IF Above(id, l + 1) = Above(up, l + 1)
         THEN Descend(t, up, l + 1, pa[l+1], pa)
         ELSE Descend(t, up, t.layers - 1, t.top, [pa EXCEPT ![t.layers] = NULL])

GoDown(t, at, l, p, m, new, pa) ==
    IF at < 0 THEN [v |-> ENOSPC, id |-> at, t |-> t, pa |-> pa]
    ELSE IF l = 0 THEN [v |-> 0, id |-> at, t |-> t, pa |-> [pa EXCEPT ![0] = p]]
    ELSE IF new.node = NULL THEN [v |-> ENOMEM, id |-> at, t |-> t, pa |-> pa]
    ELSE Descend(Linked(t, at, l, p, m, new), at, l - 1, new.node, [pa EXCEPT ![l] = p])

Descend(t, id, l, p, pa) ==
    LET Z == {m \in Digit(id, l)..IDR_SIZE-1 : m \notin t.heap[p].bitmap}
        m == Least(Z)
    IN
    IF Z = {} THEN GoUp(t, id, AsInt((Above(id, l) + 1) * 2^(IDR_BITS * (l + 1))), l, pa)
    ELSE GoDown(t, At(id, l, m), l, p, m, Child(t, p, m), pa)

sub_alloc(t, id) ==
    Descend(t, id, t.layers - 1, t.top, [l \in 0..MAX_IDR_LEVEL |-> NULL])

(* The top of idr_get_empty_slot(): layers are added at the top until the  *)
(* id fits; an empty top is moved up instead.  If memory runs out the new  *)
(* layers go to the free list.                                             *)
TearDownMutant(t, p) == t

RECURSIVE TearDown(_, _)
TearDown(t, p) ==
    IF p = t.top THEN t
    ELSE TearDown([t EXCEPT !.heap = Without(@, {p}),
                            !.id_free = <<[prefix |-> t.heap[p].prefix,
                                           bitmap |-> Cleared(t.heap[p].bitmap)]>> \o @], t.heap[p].ary[0])

RECURSIVE Grow(_, _, _, _)
GrowOn(t, p, layers, id, new) ==
    IF new.node = NULL THEN [ok |-> FALSE, t |-> TearDown(t, p)]
    ELSE Grow([new.t EXCEPT !.heap[new.node] =
                  [layer |-> layers, prefix |-> Prefix(id, layers), count |-> 1,
                   bitmap |-> @.bitmap \cup (IF FullBitmap(t.heap[p].bitmap) THEN {0} ELSE {}),
                   ary |-> [i \in 0..IDR_SIZE-1 |-> IF i = 0 THEN p ELSE NULL]]],
              new.node, layers + 1, id)

Grow(t, p, layers, id) ==
    IF id <= idr_max(layers) THEN [ok |-> TRUE, t |-> [t EXCEPT !.top = p, !.layers = layers]]
    ELSE IF t.heap[p].count = 0
         THEN Grow([t EXCEPT !.heap[p].layer = @ + 1], p, layers + 1, id)
    ELSE GrowOn(t, p, layers, id, idr_layer_alloc(t, t.old))

RECURSIVE idr_get_empty_slot(_, _)
Again(s) == IF s.v = EAGAIN THEN idr_get_empty_slot(s.t, s.id) ELSE s
Below(g, id) == IF ~g.ok THEN [v |-> ENOMEM, t |-> g.t, id |-> id] ELSE Again(sub_alloc(g.t, id))
FromTop(t, first, id) ==
    IF first.node = NULL THEN [v |-> ENOMEM, t |-> t, id |-> id]
    ELSE Below(Grow(first.t, first.node, IF t.top = NULL THEN 1 ELSE t.layers, id), id)

idr_get_empty_slot(t, id) ==
    FromTop(t, IF t.top = NULL THEN idr_layer_alloc(t, t.old) ELSE [node |-> t.top, t |-> t], id)

idr_fill_slot(t, ptr, id, pa) ==
    idr_mark_full([t EXCEPT !.hint = pa[0],
                            !.heap[pa[0]].ary[Digit(id, 0)] = ptr,
                            !.heap[pa[0]].count = @ + 1], pa, id)

-----------------------------------------------------------------------------
(* The layers from the top down to the one for the id at the lowest level  *)
(* that exists; the path ends at level 0 if all exist.                     *)
RECURSIVE PathFrom(_, _, _, _)
PathFrom(t, p, l, id) ==
    IF p = NULL THEN <<>>
    ELSE <<p>> \o (IF l = 0 THEN <<>> ELSE PathFrom(t, t.heap[p].ary[Digit(id, l)], l - 1, id))

Path(t, id) == PathFrom(t, t.top, t.layers - 1, id)
ToLeaf(t, id) == t.layers > 0 /\ Len(Path(t, id)) = t.layers

(* sub_remove(): the way up frees the layers whose count drops to zero;    *)
(* a layer is freed after the one above has let go of it.                  *)
RECURSIVE DropUp(_, _, _, _)
Dropped(t, path, k, id) ==
    IF t.heap[path[k]].count # 0 THEN t
    ELSE IF k = 1 THEN free_layer([t EXCEPT !.top = NULL, !.layers = 0], path[k])
    ELSE free_layer(DropUp([t EXCEPT !.heap[path[k-1]].ary[Digit(id, t.layers - k + 1)] = NULL],
                           path, k - 1, id), path[k])
DropUp(t, path, k, id) == Dropped([t EXCEPT !.heap[path[k]].count = @ - 1], path, k, id)

(* "clear full bits" of the layers on the path above the lowest *)
ClearAlong(t, path, id) ==
    [t EXCEPT !.heap = [n \in DOMAIN @ |->
        IF \E k \in 1..Len(path) : path[k] = n /\ k < t.layers
        THEN [@[n] EXCEPT !.bitmap = @ \ {Digit(id, t.layers - (CHOOSE k \in 1..Len(path) : path[k] = n))}]
        ELSE @[n]]]
ClearPath(t, id) == ClearAlong(t, Path(t, id), id)

LeafOf(path) == path[Len(path)]
RemoveAlong(t, path, id) ==
    IF path = <<>> \/ Len(path) # t.layers \/ Digit(id, 0) \notin t.heap[LeafOf(path)].bitmap
    THEN ClearAlong(t, path, id)                                    \* idr_remove_warning()
    ELSE DropUp([ClearAlong(t, path, id) EXCEPT !.heap[LeafOf(path)].bitmap = @ \ {Digit(id, 0)},
                                                !.heap[LeafOf(path)].ary[Digit(id, 0)] = NULL],
                path, Len(path), id)
sub_remove(t, id) == RemoveAlong(t, Path(t, id), id)

(* "Single child at leftmost slot: we can shrink the tree." *)
ClearTop(t) == [t EXCEPT !.heap[t.top].bitmap = Cleared(@)]

Shrunk(t) ==
    IF /\ t.top # NULL /\ t.heap[t.top].count = 1 /\ t.layers > 1
       /\ t.heap[t.top].ary[0] # NULL
    THEN free_layer([ClearTop(t) EXCEPT !.top = t.heap[t.top].ary[0], !.layers = @ - 1], t.top)
    ELSE t
idr_remove(t, id) ==
    IF id < 0 \/ id > idr_max(t.layers) THEN t ELSE Shrunk(sub_remove(t, id))

(* idr_find(), with the hint, and idr_find_slowpath() *)
AtEnd(t, path, id) ==
    IF Len(path) # t.heap[t.top].layer + 1 THEN NULL ELSE t.heap[LeafOf(path)].ary[Digit(id, 0)]
idr_find_slowpath(t, id) ==
    IF id < 0 \/ t.top = NULL THEN NULL
    ELSE IF id > idr_max(t.heap[t.top].layer + 1) THEN NULL
    ELSE AtEnd(t, PathFrom(t, t.top, t.heap[t.top].layer, id), id)

idr_find(t, id) ==
    IF t.hint # NULL /\ Prefix(id, 0) = t.heap[t.hint].prefix
    THEN t.heap[t.hint].ary[Digit(id, 0)]
    ELSE idr_find_slowpath(t, id)

(* The walk of idr_for_each(), idr_get_next() and __idr_remove_all(): stk  *)
(* is the backtrack buffer, n the levels below its last element.           *)
Fls(x) == IF x < 0 THEN IDR_SHIFT + 1
          ELSE CHOOSE b \in 0..IDR_SHIFT : x < 2^b /\ (b > 0 => 2^(b-1) <= x)

RECURSIVE Push(_, _, _, _, _)
Push(t, id, n, stk, low) ==
    IF n <= low \/ stk[Len(stk)] = NULL THEN [n |-> n, stk |-> stk, p |-> stk[Len(stk)]]
    ELSE Push(t, id, n - 1, Append(stk, t.heap[stk[Len(stk)]].ary[Digit(id, n - 1)]), low)

Pops(n, bits) == Least({k \in 0..MAX_IDR_LEVEL + 1 : (n + k) * IDR_BITS >= bits})
Pop(stk, k)   == SubSeq(stk, 1, Len(stk) - k)

RECURSIVE EachFrom(_, _, _, _)
EachFrom(t, id, n, stk) ==
    LET w  == Push(t, id, n, stk, 0)
        up == AsInt(id + 2^(IDR_BITS * w.n))
        k  == Pops(w.n, Fls(up))
    IN  IF id < 0 \/ id > idr_max(t.layers) THEN <<>>
        ELSE (IF w.p # NULL THEN <<id>> ELSE <<>>) \o EachFrom(t, up, w.n + k, Pop(w.stk, k))

(* The ids in the order of the calls. *)
idr_for_each(t) == EachFrom(t, 0, t.layers, <<t.top>>)

(* "Make sure we jump to the beginning of the next layer" *)
NextPlace(id, step) == ((id + step) \div step) * step       \* round_up(id + 1, step)

RECURSIVE NextFrom(_, _, _, _)
NextFrom(t, id, n, stk) ==
    LET w    == Push(t, id, n, stk, 0)
        step == 2^(IDR_BITS * w.n)
        up   == AsInt(NextPlace(id, step))
        k    == Pops(w.n, Fls(up))
    IN  IF id < 0 \/ id > idr_max(t.heap[t.top].layer + 1) THEN NULL
        ELSE IF w.p # NULL THEN id
        ELSE NextFrom(t, up, w.n + k, Pop(w.stk, k))

idr_get_next(t, id) ==
    IF t.top = NULL THEN NULL ELSE NextFrom(t, id, t.heap[t.top].layer + 1, <<t.top>>)

(* __idr_remove_all() frees the layers it steps back over. *)
RECURSIVE FreeLast(_, _, _)
FreeLast(t, stk, k) ==
    IF k = 0 \/ Len(stk) = 0 THEN t
    ELSE FreeLast(IF stk[Len(stk)] = NULL THEN t ELSE free_layer(t, stk[Len(stk)]), Pop(stk, 1), k - 1)

RECURSIVE RemoveFrom(_, _, _, _)
RemoveFrom(t, id, n, stk) ==
    LET w       == Push(t, id, n, stk, 1)
        up      == AsInt(id + 2^(IDR_BITS * w.n))
        changed == IF up < 0 THEN IDR_SHIFT + 1                           \* fls(up ^ id)
                   ELSE Least({b \in 0..IDR_SHIFT : up \div 2^b = id \div 2^b})
        k       == Pops(w.n, changed)
    IN  IF id < 0 \/ id > idr_max(t.layers) THEN t
        ELSE RemoveFrom(FreeLast(t, w.stk, k), up, w.n + k, Pop(w.stk, k))

(* Layers that the walk did not free are lost with the pointer to the top. *)
idr_remove_all(t) ==
    LET r == RemoveFrom([t EXCEPT !.top = NULL], 0, t.layers, <<t.top>>)
    IN  [r EXCEPT !.layers = 0, !.lost = @ \/ DOMAIN r.heap # {}, !.heap = EmptyTree.heap]

idr_destroy(t) == [idr_remove_all(t) EXCEPT !.id_free = <<>>]
=============================================================================
