------------------------------ MODULE MCLibrary ------------------------------
(***************************************************************************)
(* The library below the drivers: times, computations on words, bitmaps,   *)
(* the extensible array and the id allocators.  They share no state here;  *)
(* a behaviour is one of the part it is named for, and the variables of    *)
(* the others keep their initial values.                                   *)
(***************************************************************************)
EXTENDS KernelTime, FiniteSets, Sequences

CONSTANTS NULL, item, p1, w1, w2

VARIABLES part,
    fn, arg, ret,
    a, b, sa, sb, last,
    root, xmap, loop, xlast,
    tree, cur, map, req, iret,
    dtree, dcur, dmap, dreq, dret,
    atree, free_bitmap, pc, range, got, held, calls

M == INSTANCE KernelMath WITH W <- 8, Sizes <- {0, 1, 5, 11, 15, 16, 17, 127, 128},
        Ratios <- {0, 1, 2, 3, 6, 9}, Keys <- {1, 2, 3}, MaxLen <- 6

(* Three words, of which the last is used in part. *)
B == INSTANCE Bitmap WITH BITS_PER_LONG <- 2, Bits <- 5

(* Nodes of two slots; the index 9 is more than the tree can hold. *)
X == INSTANCE XArray WITH MAP_SHIFT <- 1, MAX_HEIGHT <- 3, MaxNodes <- 9, Indexes <- {2, 4, 9},
        Items <- {item}, Masks <- {1}, MaxKmem <- 3, map <- xmap, last <- xlast

(* Layers of four slots: ids of three bits in two layers, ... *)
I == INSTANCE Idr WITH IDR_BITS <- 2, IDR_SHIFT <- 3, WORD_BITS <- 2, MaxLayers <- 8, Ptrs <- {p1},
        Starts <- {0, 6}, CyclicStarts <- {5}, Ends <- {0, 7}, MaxIds <- 4, MaxFree <- 0,
        MaxKmem <- 2, t <- tree, ret <- iret

(* ... and of five bits in three. *)
J == INSTANCE Idr WITH IDR_BITS <- 2, IDR_SHIFT <- 5, WORD_BITS <- 2, MaxLayers <- 8, Ptrs <- {p1},
        Starts <- {0, 31}, CyclicStarts <- {}, Ends <- {0}, MaxIds <- 2, MaxFree <- 0,
        MaxKmem <- 3, t <- dtree, cur <- dcur, map <- dmap, req <- dreq, ret <- dret

A == INSTANCE Ida WITH IDR_BITS <- 2, IDR_SHIFT <- 5, WORD_BITS <- 2, MaxLayers <- 8,
        Threads <- {w1, w2}, IDA_BITMAP_BITS <- 2, MAX_IDR_FREE <- 3,
        Ranges <- {<<0, 0>>, <<7, 9>>, <<31, 0>>}, MaxCalls <- 4, t <- atree

ASSUME PartAssumptions ==
    /\ M!KernelMathAssumption /\ B!BitmapAssumption /\ X!RadixAssumption /\ X!XArrayAssumption
    /\ I!IdrAssumption /\ J!IdrAssumption /\ A!IdrAssumption

mv == <<fn, arg, ret>>
bv == <<a, b, sa, sb, last>>
xv == <<root, xmap, loop, xlast>>
iv == <<tree, cur, map, req, iret>>
jv == <<dtree, dcur, dmap, dreq, dret>>
av == <<atree, free_bitmap, pc, range, got, held, calls>>

SuiteInit ==
    /\ part \in {"time", "math", "bitmap", "xarray", "idr", "deep", "ida"}
    /\ Init /\ M!Init /\ B!Init /\ X!Init /\ I!Init /\ J!Init /\ A!Init

SuiteNext ==
    \/ part = "time" /\ Next /\ UNCHANGED <<part, mv, bv, xv, iv, jv, av>>
    \/ part = "math" /\ M!Next /\ UNCHANGED <<part, vars, bv, xv, iv, jv, av>>
    \/ part = "bitmap" /\ B!Next /\ UNCHANGED <<part, vars, mv, xv, iv, jv, av>>
    \/ part = "xarray" /\ X!Next /\ UNCHANGED <<part, vars, mv, bv, iv, jv, av>>
    \/ part = "idr" /\ I!Next /\ UNCHANGED <<part, vars, mv, bv, xv, jv, av>>
    \/ part = "deep" /\ J!Next /\ UNCHANGED <<part, vars, mv, bv, xv, iv, av>>
    \/ part = "ida" /\ A!Next /\ UNCHANGED <<part, vars, mv, bv, xv, iv, jv>>

SuiteSpec == SuiteInit /\ [][SuiteNext]_<<part, vars, mv, bv, xv, iv, jv, av>>

-----------------------------------------------------------------------------
(* KernelMath: int_sqrt(), fls() and its like, array_size() and its like,  *)
(* rational_best_approximation() and sort() compute what they are named    *)
(* for.  Bitmap: bitmaps are the sets that their users think they are, and *)
(* what bitmap functions and find_next_bit() say of them is true.          *)
WordsRight ==
    /\ M!SqrtIsFloor /\ M!BitsRight /\ M!SizesSaturate /\ M!RatioRight /\ M!SortsAll
    /\ part = "bitmap" => B!Agrees
    /\ B!LooksTrue

(* XArray: xa_load() answers with what was stored last, xa_for_each() sees *)
(* what is there all the time, xa_alloc() gives the lowest free index, and *)
(* nodes of the radix tree are counted, reached and freed exactly.         *)
ArrayRight ==
    /\ part = "xarray" => X!LoadMatches /\ X!NodesExact /\ X!LoopSeesAll
    /\ X!AllocGivesLowest

(* Idr: idr_find(), idr_for_each() and idr_get_next() see what is          *)
(* registered; a bit of a layer is set exactly if there is no space below  *)
(* it; the top reaches every layer; BUG_ON() in sub_alloc() is not         *)
(* reached.  Ida: the ids in the tree are those given out.                 *)
LayersRight ==
    /\ part = "idr" => I!FindMatches /\ I!BitmapsAndCounts /\ I!IterationComplete
    /\ part = "deep" => /\ J!FindMatches /\ J!BitmapsAndCounts /\ J!IterationComplete
                        /\ J!NoLostLayer
    /\ part = "ida" => A!TreeIsHeldIds
    /\ I!NoBug /\ J!NoBug

(* Idr implements IdMap, the allocator that its comments promise, and      *)
(* ida_simple_get() answers with the lowest free id of its range.          *)
IdsAsPromised == I!ImplementsMap /\ A!AnswersAreRight
=============================================================================
