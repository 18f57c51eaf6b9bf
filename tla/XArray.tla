-------------------------------- MODULE XArray --------------------------------
(***************************************************************************)
(* The extensible array (linux_xarray.c) on the radix tree.  Each call is  *)
(* made under the lock; a loop with xa_for_each() takes it anew for every  *)
(* step, so that others change the array in between.                       *)
(*                                                                         *)
(*   root   the tree                                                       *)
(*   map    the entries (history)                                          *)
(*   loop   the loop: its index, whether it has had an entry, and the      *)
(*          entries it must still see (history)                            *)
(*   last   of an xa_alloc() just made: index asked for, index given, and  *)
(*          the free indexes before (history)                              *)
(*                                                                         *)
(* The radix tree (linux_radix.c) comes first, as operators on a value r:  *)
(*   heap           the allocated nodes: slots and count                   *)
(*   rnode, height  the fields of struct radix_tree_root                   *)
(*   kmem           how many more malloc() calls succeed                   *)
(* Arithmetic is unbounded: the 32-bit indexes of xarray never need the    *)
(* height at which radix_max() shifts by more than a word.                 *)
(***************************************************************************)
EXTENDS Integers, Sequences, FiniteSets

CONSTANTS
    MAP_SHIFT, MAX_HEIGHT, NULL,
    Indexes, Items,
    Masks,              \* limits of xa_alloc(): powers of two minus one
    MaxNodes, MaxKmem   \* bounds: nodes, malloc() calls that succeed in one call

RadixAssumption == MAP_SHIFT \in Nat \ {0} /\ MAX_HEIGHT \in Nat \ {0}

XArrayAssumption ==
    Indexes \subseteq Nat /\ Masks \subseteq Nat

VARIABLES root, map, loop, last

vars == <<root, map, loop, last>>

-----------------------------------------------------------------------------
ENOMEM == -12
EEXIST == -17
E2BIG == -7

MAP_SIZE == 2^MAP_SHIFT
EmptyRoot == [heap |-> [n \in {} |-> 0], rnode |-> NULL, height |-> 0, kmem |-> 0]

radix_max(r) == 2^(r.height * MAP_SHIFT) - 1
radix_pos(id, height) == (id \div 2^(MAP_SHIFT * height)) % MAP_SIZE

Lowest(S) == CHOOSE x \in S : \A y \in S : x <= y
Fresh(r) == Lowest((1..MaxNodes) \ DOMAIN r.heap)
EmptyNode == [slots |-> [i \in 0..MAP_SIZE-1 |-> NULL], count |-> 0]

With(r, n, node) ==
    [r EXCEPT !.kmem = @ - 1,
              !.heap = [k \in DOMAIN @ \cup {n} |-> IF k = n THEN node ELSE @[k]]]
Free(r, n) == [r EXCEPT !.heap = [k \in DOMAIN @ \ {n} |-> @[k]]]

CleanRootMutant(r) == r
radix_tree_clean_root_node(r) ==
    IF r.heap[r.rnode].count # 0 THEN r
    ELSE [Free(r, r.rnode) EXCEPT !.rnode = NULL, !.height = 0]

-----------------------------------------------------------------------------
(* The nodes for an index from the root down, as far as they exist. *)
RECURSIVE Down(_, _, _, _)
Down(r, node, height, index) ==
    IF node = NULL THEN <<>>
    ELSE <<node>> \o (IF height = 0 THEN <<>>
                      ELSE Down(r, r.heap[node].slots[radix_pos(index, height)], height - 1, index))

Walk(r, index) == Down(r, r.rnode, r.height - 1, index)

radix_tree_lookup(r, index) ==
    LET w == Walk(r, index) IN
    IF index > radix_max(r) \/ r.rnode = NULL \/ Len(w) < r.height THEN NULL
    ELSE r.heap[w[r.height]].slots[radix_pos(index, 0)]

(* radix_tree_iter_find(): the first index not below the given one that    *)
(* has an item; a slot without one is stepped over at its level, and from  *)
(* the end of a node the search restarts at the root.                      *)
NextSlot(index, step) == ((index + step) \div step) * step
Restart(index, height) == radix_pos(index, height) = 0

RECURSIVE Find(_, _, _, _)
Find(r, index, node, height) ==
    LET step == 2^(MAP_SHIFT * height)
        next == r.heap[node].slots[radix_pos(index, height)]
        up   == NextSlot(index, step)
    IN  IF index > radix_max(r) THEN NULL
        ELSE IF next = NULL
             THEN IF Restart(up, height) THEN Find(r, up, r.rnode, r.height - 1)
                  ELSE Find(r, up, node, height)
        ELSE IF height = 0 THEN index ELSE Find(r, index, next, height - 1)

radix_tree_iter_find(r, index) ==
    IF r.rnode = NULL THEN NULL ELSE Find(r, index, r.rnode, r.height - 1)

(* radix_tree_delete(): a node without items is freed and taken out of the *)
(* one above; w[k] is the node at height r.height - k.                     *)
RECURSIVE Prune(_, _, _, _)
Prune(r, w, k, index) ==
    LET n  == w[k]
        r2 == [r EXCEPT !.heap[n].slots[radix_pos(index, Len(w) - k)] = NULL,
                        !.heap[n].count = @ - 1]
    IN  IF r2.heap[n].count > 0 THEN r2
        ELSE IF k = 1 THEN [Free(r2, n) EXCEPT !.rnode = NULL, !.height = 0]
        ELSE Prune(Free(r2, n), w, k - 1, index)

radix_tree_delete(r, index) ==
    IF radix_tree_lookup(r, index) = NULL THEN r ELSE Prune(r, Walk(r, index), r.height, index)

(* Expansion of the tree by radix_tree_insert() and radix_tree_store(): a  *)
(* root without items is moved up, else a new root is put above.           *)
RECURSIVE Expand(_, _)
Expand(r, index) ==
    IF radix_max(r) >= index THEN [v |-> 0, r |-> r]
    ELSE IF r.height = MAX_HEIGHT THEN [v |-> E2BIG, r |-> radix_tree_clean_root_node(r)]
    ELSE IF r.heap[r.rnode].count = 0 THEN Expand([r EXCEPT !.height = @ + 1], index)
    ELSE IF r.kmem = 0 THEN [v |-> ENOMEM, r |-> r]
    ELSE Expand([With(r, Fresh(r), [slots |-> [EmptyNode.slots EXCEPT ![0] = r.rnode], count |-> 1])
                    EXCEPT !.rnode = Fresh(r), !.height = @ + 1], index)

(* The missing levels are allocated first, all or none, and then linked.   *)
RECURSIVE Link(_, _, _, _)
Link(r, node, height, index) ==
    LET pos  == radix_pos(index, height)
        next == r.heap[node].slots[pos]
        n    == Fresh(r)
        r2   == With(r, n, EmptyNode)
    IN  IF height = 0 THEN [r |-> r, leaf |-> node]
        ELSE IF next # NULL THEN Link(r, next, height - 1, index)
        ELSE Link([r2 EXCEPT !.heap[node].slots[pos] = n, !.heap[node].count = @ + 1],
                  n, height - 1, index)

Missing(r, index) == r.height - Len(Walk(r, index))

MakeRoom(r, index) ==
    LET first == IF r.rnode # NULL THEN r
                 ELSE [With(r, Fresh(r), EmptyNode) EXCEPT !.rnode = Fresh(r), !.height = @ + 1]
        e     == Expand(first, index)
        l     == Link(e.r, e.r.rnode, e.r.height - 1, index)
    IN  IF r.rnode = NULL /\ r.kmem = 0 THEN [v |-> ENOMEM, r |-> r]
        ELSE IF e.v # 0 THEN e
        ELSE IF Missing(e.r, index) > e.r.kmem
             THEN [v |-> ENOMEM, r |-> radix_tree_clean_root_node(e.r)]
        ELSE [v |-> 0, r |-> l.r, leaf |-> l.leaf]

radix_tree_insert(r, index, item) ==
    LET m == MakeRoom(r, index)
        i == radix_pos(index, 0)
    IN  IF m.v # 0 THEN [v |-> m.v, r |-> m.r]
        ELSE IF m.r.heap[m.leaf].slots[i] # NULL THEN [v |-> EEXIST, r |-> m.r]
        ELSE [v |-> 0, r |-> [m.r EXCEPT !.heap[m.leaf].slots[i] = item,
                                         !.heap[m.leaf].count = @ + 1]]

(* radix_tree_store() swaps; a NULL item means delete. *)
CountNew(old) == IF old = NULL THEN 1 ELSE 0

radix_tree_store(r, index, item) ==
    LET m   == MakeRoom(r, index)
        i   == radix_pos(index, 0)
        old == m.r.heap[m.leaf].slots[i]
    IN  IF item = NULL THEN [v |-> 0, r |-> radix_tree_delete(r, index)]
        ELSE IF m.v # 0 THEN [v |-> m.v, r |-> m.r]
        ELSE [v |-> 0, r |-> [m.r EXCEPT !.heap[m.leaf].slots[i] = item,
                                         !.heap[m.leaf].count = @ + CountNew(old)]]

-----------------------------------------------------------------------------
(* The array. *)
NoAlloc == [asked |-> 0, got |-> 0, free |-> {0}]
NoLoop == [index |-> NULL, first |-> TRUE, must |-> {}]

Init ==
    /\ root = EmptyRoot
    /\ map = [i \in {} |-> 0]
    /\ loop = NoLoop
    /\ last = NoAlloc

Set(i, item) == [k \in DOMAIN map \cup {i} |-> IF k = i THEN item ELSE map[k]]
Unset(i) == [k \in DOMAIN map \ {i} |-> map[k]]
Budget(k) == [root EXCEPT !.kmem = k]
Settle(t) == root' = [t EXCEPT !.kmem = 0]

-----------------------------------------------------------------------------
xa_load(i) == radix_tree_lookup(root, i)
xa_empty == radix_tree_iter_find(root, 0) = NULL

xa_insert(i, item) ==
    /\ \E k \in 0..MaxKmem :
           LET s == radix_tree_insert(Budget(k), i, item) IN
           /\ Settle(s.r)
           /\ map' = IF s.v = 0 THEN Set(i, item) ELSE map
    /\ last' = NoAlloc
    /\ UNCHANGED loop

xa_store(i, item) ==
    /\ \E k \in 0..MaxKmem :
           LET s == radix_tree_store(Budget(k), i, item) IN
           /\ Settle(s.r)
           /\ map' = IF s.v # 0 THEN map ELSE IF item = NULL THEN Unset(i) ELSE Set(i, item)
    /\ loop' = [loop EXCEPT !.must = IF item = NULL THEN @ \ {i} ELSE @]
    /\ last' = NoAlloc

xa_erase(i) ==
    /\ root' = radix_tree_delete(root, i)
    /\ map' = Unset(i)
    /\ loop' = [loop EXCEPT !.must = @ \ {i}]
    /\ last' = NoAlloc

(* xa_alloc(), xa_alloc_cyclic(): both start at zero; the cyclic one goes  *)
(* round twice before it gives up.                                         *)
AfterTaken(i, mask) == i + 1

RECURSIVE AllocFrom(_, _, _, _, _)
AllocFrom(t, i, item, mask, rounds) ==
    LET s == radix_tree_insert(t, i, item) IN
    IF s.v # EEXIST THEN [v |-> s.v, r |-> s.r, i |-> i]
    ELSE IF i # mask THEN AllocFrom(t, AfterTaken(i, mask), item, mask, rounds)
    ELSE IF rounds > 0 THEN AllocFrom(t, 0, item, mask, rounds - 1)
    ELSE [v |-> ENOMEM, r |-> t, i |-> i]

xa_alloc(asked, item, mask, rounds) ==
    /\ \E k \in 0..MaxKmem :
           LET s == AllocFrom(Budget(k), 0, item, mask, rounds) IN
           /\ Settle(s.r)
           /\ map' = IF s.v = 0 THEN Set(s.i, item) ELSE map
           /\ last' = IF s.v = 0
                      THEN [asked |-> asked, got |-> s.i, free |-> (0..mask) \ DOMAIN map]
                      ELSE NoAlloc
    /\ UNCHANGED loop

(* xa_destroy(): the loop deletes what it finds, and the tree with it. *)
RECURSIVE DeleteAll(_, _)
DeleteAll(t, index) ==
    LET i == radix_tree_iter_find(t, index) IN
    IF i = NULL THEN t ELSE DeleteAll(radix_tree_delete(t, i), i + 1)

xa_destroy ==
    /\ root' = DeleteAll(root, 0)
    /\ map' = [i \in {} |-> 0]
    /\ loop' = [loop EXCEPT !.must = {}]
    /\ last' = NoAlloc

(* xa_for_each(): xa_next() from the index of the entry before. *)
LoopBegin ==
    /\ loop.index = NULL
    /\ loop' = [index |-> 0, first |-> TRUE, must |-> DOMAIN map]
    /\ last' = NoAlloc
    /\ UNCHANGED <<root, map>>

xa_next ==
    LET i == radix_tree_iter_find(root, IF loop.first THEN loop.index ELSE loop.index + 1) IN
    /\ loop.index # NULL
    /\ loop' = IF i = NULL THEN [loop EXCEPT !.index = NULL]
               ELSE [loop EXCEPT !.index = i, !.first = FALSE, !.must = @ \ {i}]
    /\ last' = NoAlloc
    /\ UNCHANGED <<root, map>>

Next ==
    \/ \E i \in Indexes : xa_erase(i) \/ \E item \in Items : xa_insert(i, item)
    \/ \E i \in Indexes, item \in Items \cup {NULL} : xa_store(i, item)
    \/ \E mask \in Masks, item \in Items, rounds \in 0..1 : \E asked \in {0, mask} :
           xa_alloc(asked, item, mask, rounds)
    \/ xa_destroy \/ LoopBegin \/ xa_next

Spec == Init /\ [][Next]_vars

-----------------------------------------------------------------------------
(* xa_load() answers with the entry stored last, in a tree of any shape    *)
(* that insertions, deletions and failed allocations have left.            *)
LoadMatches ==
    \A i \in Indexes : xa_load(i) = IF i \in DOMAIN map THEN map[i] ELSE NULL

(* Nodes know how many slots they use, none is empty, the root reaches all *)
(* of them: nothing is freed that is in use and nothing is left behind, by *)
(* deletions, failed insertions and xa_destroy().                          *)
NodesExact ==
    /\ root.rnode = NULL <=> root.height = 0
    /\ \A n \in DOMAIN root.heap :
           /\ root.heap[n].count = Cardinality({i \in 0..MAP_SIZE-1 : root.heap[n].slots[i] # NULL})
           /\ root.heap[n].count > 0
           /\ n = root.rnode \/ \E m \in DOMAIN root.heap, i \in 0..MAP_SIZE-1 : root.heap[m].slots[i] = n
    /\ DOMAIN map = {} => DOMAIN root.heap = {}

(* A loop that ends has seen every entry that was there all the time, and  *)
(* xa_empty() means that a loop would see none.                            *)
LoopSeesAll ==
    /\ loop.index = NULL => loop.must = {}
    /\ xa_empty <=> DOMAIN map = {}

(* xa_alloc() gives the lowest free index. *)
AllocGivesLowest == last.got = Lowest(last.free)
=============================================================================
