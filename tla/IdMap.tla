-------------------------------- MODULE IdMap --------------------------------
(***************************************************************************)
(* What linux_idr.c promises: a partial map from ids to pointers.          *)
(*                                                                         *)
(*   map   the registered pointers, cur the place for cyclic allocation    *)
(*   req   the last call, ret its answer                                   *)
(***************************************************************************)
EXTENDS Integers

CONSTANTS Ptrs, Starts, Ends, MaxId, NULL, ENOENT, ENOMEM, ENOSPC

VARIABLES map, cur, req, ret

vars == <<map, cur, req, ret>>

Init == map = [i \in {} |-> 0] /\ cur = 0 /\ req = <<>> /\ ret = NULL

(* "Allocate an id in [start, end) and associate it with ptr.  If no ID is *)
(* available in the specified range, returns -ENOSPC.  On memory           *)
(* allocation failure, returns -ENOMEM."  The lowest one is taken.         *)
Last(end) == IF end > 0 THEN end - 1 ELSE MaxId
Candidates(start, end) == (start..Last(end)) \ DOMAIN map
Lowest(S) == CHOOSE i \in S : \A j \in S : i <= j

Put(i, ptr) == map' = [k \in DOMAIN map \cup {i} |-> IF k = i THEN ptr ELSE map[k]]

Alloc(ptr, start, end) ==
    /\ req' = <<"alloc", start, end>>
    /\ UNCHANGED cur
    /\ \/ /\ Candidates(start, end) # {}
          /\ ret' = Lowest(Candidates(start, end))
          /\ Put(Lowest(Candidates(start, end)), ptr)
       \/ Candidates(start, end) = {} /\ ret' = ENOSPC /\ UNCHANGED map
       \/ ret' = ENOMEM /\ UNCHANGED map

(* "prefers to allocate progressively higher ids if it can" *)
AllocCyclic(ptr, start, end) ==
    LET from == IF cur > start THEN cur ELSE start
        C    == IF Candidates(from, end) # {} THEN Candidates(from, end) ELSE Candidates(start, end)
    IN
    /\ req' = <<"cyclic", start, end>>
    /\ \/ /\ C # {}
          /\ ret' = Lowest(C)
          /\ cur' = IF Lowest(C) = MaxId THEN -MaxId - 1 ELSE Lowest(C) + 1
          /\ Put(Lowest(C), ptr)
       \/ C = {} /\ ret' = ENOSPC /\ UNCHANGED <<map, cur>>
       \/ ret' = ENOMEM /\ UNCHANGED <<map, cur>>

Remove(i) ==
    /\ i \in DOMAIN map
    /\ map' = [k \in DOMAIN map \ {i} |-> map[k]]
    /\ req' = <<"remove">> /\ ret' = NULL
    /\ UNCHANGED cur

Replace(i, ptr) ==
    /\ IF i \in DOMAIN map
       THEN map' = [map EXCEPT ![i] = ptr] /\ ret' = map[i]
       ELSE ret' = ENOENT /\ UNCHANGED map
    /\ req' = <<"replace">>
    /\ UNCHANGED cur

Destroy ==
    /\ map' = [i \in {} |-> 0]
    /\ req' = <<>> /\ ret' = NULL
    /\ UNCHANGED cur

Quiet == req' = <<>> /\ ret' = NULL /\ UNCHANGED <<map, cur>>

Next ==
    \/ \E ptr \in Ptrs, start \in Starts, end \in Ends :
          Alloc(ptr, start, end) \/ AllocCyclic(ptr, start, end)
    \/ \E i \in 0..MaxId : Remove(i) \/ \E ptr \in Ptrs : Replace(i, ptr)
    \/ Destroy \/ Quiet

Spec == Init /\ [][Next]_vars
=============================================================================
