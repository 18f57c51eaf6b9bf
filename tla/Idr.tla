---------------------------------- MODULE Idr ----------------------------------
(***************************************************************************)
(* The id allocator (linux_idr.c): its calls on the tree of IdrTree, with  *)
(* allocations that fail and preloaded layers.  The caller serialises the  *)
(* calls.                                                                  *)
(*                                                                         *)
(*   t      the tree                                                       *)
(*   cur    idr->cur                                                       *)
(*   map    the pointers registered (history)                              *)
(*   req    the last call, ret its answer (history)                        *)
(***************************************************************************)
EXTENDS IdrTree

CONSTANTS
    Ptrs, Starts, CyclicStarts, Ends,   \* arguments of the calls
    MaxIds, MaxKmem, MaxFree            \* bounds: ids in use, allocations of a call,
                                        \* layers on the free list

VARIABLES t, cur, map, req, ret

vars == <<t, cur, map, req, ret>>

Init ==
    /\ t = EmptyTree
    /\ cur = 0
    /\ map = [i \in {} |-> 0]
    /\ req = <<>> /\ ret = NULL

(* "the maximum id (exclusive, <= 0 for max)" *)
InclusiveMutant(end) == IF end > 0 THEN end ELSE INT_MAX
Inclusive(end) == IF end > 0 THEN end - 1 ELSE INT_MAX

(* idr_alloc() on a tree; layers are not taken back if the id found is out *)
(* of range.                                                               *)
Fill(s, ptr, max) ==
    IF s.v < 0 THEN [v |-> s.v, t |-> s.t]
    ELSE IF s.id > max THEN [v |-> ENOSPC, t |-> s.t]
    ELSE [v |-> s.id, t |-> idr_fill_slot(s.t, ptr, s.id, s.pa)]
alloc(tree, ptr, start, end) ==
    IF Inclusive(end) < start THEN [v |-> ENOSPC, t |-> tree]
    ELSE Fill(idr_get_empty_slot(tree, start), ptr, Inclusive(end))

Result(a, ptr) ==
    /\ t' = [a.t EXCEPT !.kmem = 0]
    /\ ret' = a.v
    /\ map' = IF a.v >= 0 THEN [i \in DOMAIN map \cup {a.v} |-> IF i = a.v THEN ptr ELSE map[i]]
              ELSE map

idr_alloc(ptr, start, end) ==
    /\ Cardinality(DOMAIN map) < MaxIds /\ Len(t.id_free) <= MaxFree
    /\ \E k \in 0..MaxKmem : Result(alloc([t EXCEPT !.kmem = k, !.lost = FALSE], ptr, start, end), ptr)
    /\ req' = <<"alloc", start, end>>
    /\ UNCHANGED cur

Restart(a, ptr, start, end) == IF a.v = ENOSPC THEN alloc(a.t, ptr, start, end) ELSE a
Advance(a, ptr) == Result(a, ptr) /\ cur' = IF a.v >= 0 THEN AsInt(a.v + 1) ELSE cur

idr_alloc_cyclic(ptr, start, end) ==
    /\ Cardinality(DOMAIN map) < MaxIds /\ Len(t.id_free) <= MaxFree
    /\ \E k \in 0..MaxKmem :
           Advance(Restart(alloc([t EXCEPT !.kmem = k, !.lost = FALSE], ptr,
                                 IF cur > start THEN cur ELSE start, end), ptr, start, end), ptr)
    /\ req' = <<"cyclic", start, end>>

(* idr_preload(): fills the preload list as far as memory allows. *)
idr_preload ==
    /\ \E n \in t.preload..1 : t' = [t EXCEPT !.preload = n]
    /\ req' = <<>> /\ ret' = NULL
    /\ UNCHANGED <<cur, map>>

Remove(i) ==
    /\ i \in DOMAIN map
    /\ t' = idr_remove([t EXCEPT !.lost = FALSE], i)
    /\ map' = [k \in DOMAIN map \ {i} |-> map[k]]
    /\ req' = <<"remove">> /\ ret' = NULL
    /\ UNCHANGED cur

(* idr_replace(): an id without a set bit is not found. *)
Replaced(leaf, i, ptr) ==
    /\ ret' = t.heap[leaf].ary[Digit(i, 0)]
    /\ t' = [t EXCEPT !.heap[leaf].ary[Digit(i, 0)] = ptr]
    /\ map' = [k \in DOMAIN map \cup {i} |-> IF k = i THEN ptr ELSE map[k]]

idr_replace(i, ptr) ==
    /\ IF /\ t.top # NULL /\ i <= idr_max(t.layers) /\ ToLeaf(t, i)
          /\ Digit(i, 0) \in t.heap[LeafOf(Path(t, i))].bitmap
       THEN Replaced(LeafOf(Path(t, i)), i, ptr)
       ELSE ret' = ENOENT /\ UNCHANGED <<t, map>>
    /\ req' = <<"replace">>
    /\ UNCHANGED cur

(* idr_destroy(); what was allocated is not looked at again. *)
Destroy ==
    /\ t' = idr_destroy([t EXCEPT !.lost = FALSE])
    /\ map' = [i \in {} |-> 0]
    /\ req' = <<>> /\ ret' = NULL
    /\ UNCHANGED cur

Next ==
    \/ \E ptr \in Ptrs, end \in Ends :
          \/ \E start \in Starts : idr_alloc(ptr, start, end)
          \/ \E start \in CyclicStarts : idr_alloc_cyclic(ptr, start, end)
    \/ idr_preload
    \/ \E i \in 0..INT_MAX : Remove(i)
    \/ \E i \in 0..INT_MAX, ptr \in Ptrs : idr_replace(i, ptr)
    \/ Destroy

Spec == Init /\ [][Next]_vars

-----------------------------------------------------------------------------
Layers == DOMAIN t.heap
Children(p) == {i \in 0..IDR_SIZE-1 : t.heap[p].ary[i] # NULL}

(* idr_find() and idr_find_slowpath() find what is registered, also with   *)
(* the hint and after the tree has grown and shrunk.                       *)
FindMatches ==
    \A i \in 0..INT_MAX :
        LET want == IF i \in DOMAIN map THEN map[i] ELSE NULL
        IN  idr_find(t, i) = want /\ idr_find_slowpath(t, i) = want

(* A bit is set exactly if there is no space below it, so that no free id  *)
(* is passed over and no search is in vain; counts are exact, so that no   *)
(* layer is freed with something in it.                                    *)
BitmapsAndCounts ==
    \A p \in Layers :
        /\ t.heap[p].count = Cardinality(Children(p))
        /\ \A i \in 0..IDR_SIZE-1 :
               i \in t.heap[p].bitmap <=>
                   /\ i \in Children(p)
                   /\ t.heap[p].layer > 0 => FullBitmap(t.heap[t.heap[p].ary[i]].bitmap)

(* The top reaches every layer that is in memory. *)
NoLostLayer ==
    \A p \in Layers : p = t.top \/ \E q \in Layers \ {p} :
        t.heap[q].layer > 0 /\ \E i \in Children(q) : t.heap[q].ary[i] = p

(* idr_for_each() calls back for every id, in order, and idr_get_next()    *)
(* finds the next one from anywhere.                                       *)
IterationComplete ==
    /\ LET s == idr_for_each(t) IN
       /\ {s[k] : k \in DOMAIN s} = DOMAIN map
       /\ \A j, k \in DOMAIN s : j < k => s[j] < s[k]
    /\ \A i \in 0..INT_MAX :
           idr_get_next(t, i) = LET S == {k \in DOMAIN map : k >= i}
                                IN  IF S = {} THEN NULL ELSE Least(S)

(* BUG_ON(!p) in sub_alloc() is not reached: the search never leaves the   *)
(* tree at the top, also at the end of the id space.                       *)
NoBug == ret # BUG

(* The allocator is the map it promises to be. *)
Promise == INSTANCE IdMap WITH MaxId <- INT_MAX, Starts <- Starts \cup CyclicStarts
ImplementsMap == Promise!Spec
=============================================================================
