------------------------------ MODULE MCUsbUrb ------------------------------
(***************************************************************************)
(* TLC instance of UsbUrb: URBs that all fit into a transfer, as the       *)
(* constants say, or of which one is too long.                             *)
(***************************************************************************)
EXTENDS UsbUrb, TLC

CONSTANT u3

VARIABLE big        \* u3 is too long

B == INSTANCE UsbUrb WITH BigUrbs <- {u3}

BothInit == Init /\ big \in BOOLEAN

BothNext ==
    \/ big /\ B!Next /\ UNCHANGED big
    \/ ~big /\ Next /\ UNCHANGED big

BothSpec == BothInit /\ [][BothNext]_<<vars, big>>

(* The URBs that fit in both cases are interchangeable. *)
Symmetry == Permutations(Urbs \ {u3})
=============================================================================
