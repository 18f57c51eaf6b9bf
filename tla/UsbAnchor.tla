------------------------------ MODULE UsbAnchor ------------------------------
(***************************************************************************)
(* References to URBs and anchors (linux_usb.c): a driver anchors an URB,  *)
(* submits it and, once its URBs are killed, gives up its own reference;   *)
(* the handler takes the URB off the anchor; usb_kill_anchored_urbs() ends *)
(* all that are anchored while handlers and the driver go on.  Nothing     *)
(* else holds a reference: a transfer that works on an URB does not, which *)
(* is why drivers must not free one any earlier.                           *)
(*                                                                         *)
(*   urb       "idle", "queued" or "running"; UsbUrb has the details       *)
(*   refs      urb->kref                                                   *)
(*   own       references of the driver (history)                          *)
(*   anchored  anchor->urb_list                                            *)
(*   cb        the URB whose handler has returned to the transfer callback *)
(*   kpc, kurb usb_kill_anchored_urbs()                                    *)
(*   epc       a thread in usb_wait_anchor_empty_timeout()                 *)
(*   uses      submissions so far                                          *)
(***************************************************************************)
EXTENDS Integers, Sequences, SequencesExt

CONSTANTS
    Urbs, NoUrb,
    MaxUses         \* bound: submissions

ASSUME AnchorAssumption == NoUrb \notin Urbs

VARIABLES urb, refs, own, anchored, cb, kpc, kurb, epc, uses

anchorVars == <<urb, refs, own, anchored, cb, kpc, kurb, epc, uses>>

Alive(u) == refs[u] > 0
Unlocked == cb = NoUrb

AnchorInit ==
    /\ urb = [u \in Urbs |-> "idle"] /\ refs = [u \in Urbs |-> 1] /\ own = [u \in Urbs |-> 1]
    /\ anchored = <<>> /\ cb = NoUrb /\ kpc = "none" /\ kurb = NoUrb /\ epc = "none" /\ uses = 0

(* usb_unanchor_urb(): off the list, then usb_put_urb(); the last one off  *)
(* wakes those who wait for the anchor to be empty.                        *)
PutMutant(r) == r
Put(r) == r - 1
Wakes(a) == a = <<>>        \* usb_anchor_check_wakeup()
Off(a, u) == RemoveAt(a, CHOOSE n \in DOMAIN a : a[n] = u)
Unanchor(u) ==
    IF u \in ToSet(anchored)
    THEN /\ anchored' = Off(anchored, u)
         /\ refs' = [refs EXCEPT ![u] = Put(@)]
         /\ epc' = IF Wakes(anchored') /\ epc = "wait" THEN "awake" ELSE epc
    ELSE UNCHANGED <<anchored, refs, epc>>

-----------------------------------------------------------------------------
(* A driver: anchor and submit, or not submitted and unanchored again. *)
usb_anchor_urb(u) ==
    /\ Unlocked /\ own[u] > 0 /\ urb[u] = "idle" /\ u \notin ToSet(anchored) /\ uses < MaxUses
    /\ kpc # "done"
    /\ uses' = uses + 1
    /\ anchored' = Append(anchored, u)
    /\ refs' = [refs EXCEPT ![u] = @ + 1]
    /\ UNCHANGED <<urb, own, cb, kpc, kurb, epc>>

usb_submit_urb(u) ==
    /\ Unlocked /\ own[u] > 0 /\ urb[u] = "idle" /\ u \in ToSet(anchored)
    /\ \/ urb' = [urb EXCEPT ![u] = "queued"] /\ UNCHANGED <<anchored, refs, epc>>
       \/ Unanchor(u) /\ UNCHANGED urb
    /\ UNCHANGED <<own, cb, kpc, kurb, uses>>

usb_free_urb(u) ==
    /\ Unlocked /\ own[u] > 0
    /\ kpc = "done" /\ urb[u] = "idle" /\ u \notin ToSet(anchored)
    /\ own' = [own EXCEPT ![u] = 0]
    /\ refs' = [refs EXCEPT ![u] = @ - 1]
    /\ UNCHANGED <<urb, anchored, cb, kpc, kurb, epc, uses>>

(* The last reference ends in urb_destroy(), which kills the URB first. *)

-----------------------------------------------------------------------------
Start(u) ==
    /\ Unlocked /\ urb[u] = "queued"
    /\ urb' = [urb EXCEPT ![u] = "running"]
    /\ UNCHANGED <<refs, own, anchored, cb, kpc, kurb, epc, uses>>

(* The transfer ends: the handler runs inside the callback, which has      *)
(* bsd_no_resubmit of the URB to clear when the handler returns.           *)
Callback(u) ==
    /\ Unlocked /\ urb[u] = "running"
    /\ urb' = [urb EXCEPT ![u] = "idle"]
    /\ Unanchor(u)
    /\ cb' = u
    /\ UNCHANGED <<own, kpc, kurb, uses>>

CallbackEnds ==
    /\ cb # NoUrb
    /\ cb' = NoUrb
    /\ UNCHANGED <<urb, refs, own, anchored, kpc, kurb, epc, uses>>

-----------------------------------------------------------------------------
(* usb_kill_anchored_urbs(): the last on the list, with a reference, then  *)
(* usb_kill_urb() without the lock.                                        *)
Get(r) == r + 1

KillNext ==
    /\ Unlocked /\ kpc \in {"none", "next"}
    /\ IF anchored = <<>>
       THEN kpc' = "done" /\ UNCHANGED <<kurb, refs>>
       ELSE /\ kurb' = Last(anchored)
            /\ refs' = [refs EXCEPT ![kurb'] = Get(@)]
            /\ kpc' = "kill"
    /\ UNCHANGED <<urb, own, anchored, cb, epc, uses>>

(* A queued URB is handed back here; of a running one its end is awaited.  *)
KillUrb ==
    /\ Unlocked /\ kpc = "kill" /\ urb[kurb] # "running"
    /\ IF urb[kurb] = "queued"
       THEN urb' = [urb EXCEPT ![kurb] = "idle"] /\ Unanchor(kurb)
       ELSE UNCHANGED <<urb, anchored, refs, epc>>
    /\ kpc' = "put"
    /\ UNCHANGED <<own, cb, kurb, uses>>

KillPut ==
    /\ Unlocked /\ kpc = "put"
    /\ refs' = [refs EXCEPT ![kurb] = @ - 1]
    /\ kpc' = "next" /\ kurb' = NoUrb
    /\ UNCHANGED <<urb, own, anchored, cb, epc, uses>>

(* usb_wait_anchor_empty_timeout() *)
WaitEmpty ==
    /\ Unlocked /\ epc = "none"
    /\ epc' = IF anchored = <<>> THEN "done" ELSE "wait"
    /\ UNCHANGED <<urb, refs, own, anchored, cb, kpc, kurb, uses>>

WaitEnds ==
    /\ Unlocked /\ epc \in {"wait", "awake"}
    /\ epc' = IF epc = "awake" /\ anchored # <<>> THEN "wait" ELSE "done"   \* timeout, or empty
    /\ UNCHANGED <<urb, refs, own, anchored, cb, kpc, kurb, uses>>

Kill == KillNext \/ KillUrb \/ KillPut

AnchorNext ==
    \/ \E u \in Urbs : \/ usb_anchor_urb(u) \/ usb_submit_urb(u) \/ usb_free_urb(u)
                       \/ Start(u) \/ Callback(u)
    \/ CallbackEnds \/ Kill \/ WaitEmpty \/ WaitEnds

AnchorSpec == AnchorInit /\ [][AnchorNext]_anchorVars

-----------------------------------------------------------------------------
(* The count is the references there are: the driver's, the anchor's and   *)
(* that of usb_kill_anchored_urbs().                                       *)
RefsExact ==
    \A u \in Urbs : refs[u] = own[u] + (IF u \in ToSet(anchored) THEN 1 ELSE 0)
                                     + (IF u = kurb THEN 1 ELSE 0)

(* While the driver keeps its reference until all is killed: an URB that   *)
(* is queued, running, anchored or in the hands of a killer is not freed.  *)
UsedIsAlive ==
    \A u \in Urbs : urb[u] # "idle" \/ u \in ToSet(anchored) \/ u \in {kurb, cb} => Alive(u)

(* Who waits for an empty anchor is woken when it is empty. *)
EmptyIsTold == epc = "wait" => anchored # <<>>

(* Together: kref counts the references there are, an URB that anybody     *)
(* works on has not been freed, and who waits for an empty anchor is woken *)
(* when it is empty.                                                       *)
AnchorExact == RefsExact /\ UsedIsAlive /\ EmptyIsTold

(* usb_kill_anchored_urbs() comes back. *)
KillReturns == kpc = "kill" ~> kpc = "done"
=============================================================================
