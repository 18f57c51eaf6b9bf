------------------------------- MODULE UsbUrb -------------------------------
(***************************************************************************)
(* The life of URBs on one endpoint (linux_usb.c).  A driver submits an    *)
(* URB; it waits on the endpoint's list until one of the endpoint's two    *)
(* libusb20 transfers takes it, and is handed back to the driver through   *)
(* its completion handler, which may submit it again.  The handler, the    *)
(* transfer callback and libusb20_tr_start() call each other while the     *)
(* atomic lock is held; "frames" is that call stack, the innermost call    *)
(* last, and a step of any other thread needs it to be empty.              *)
(*                                                                         *)
(*   queue      uhe->bsd_urb_list                                          *)
(*   opened     the transfers uhe->bsd_xfer[] are set up                   *)
(*   priv       priv_sc1 of a transfer: the URB it works on                *)
(*   pending, cancel, restart                                              *)
(*              state of a libusb20 transfer (external)                    *)
(*   status     urb->status                                                *)
(*   hcpriv     urb->hcpriv is USB_HCPRIV_QUEUED                           *)
(*   no_resubmit, reject                                                   *)
(*              urb->bsd_no_resubmit, urb->reject                          *)
(*   killer     a thread inside usb_kill_urb()                             *)
(*   owed       submissions accepted whose handler has not been called     *)
(*   asked      unlink or kill was called since the URB was submitted      *)
(***************************************************************************)
EXTENDS Integers, Sequences, SequencesExt

CONSTANTS
    Urbs,       \* the driver's URBs for this endpoint
    BigUrbs,    \* those longer than the transfers' maximum length
    NoUrb,
    MaxReject   \* bound: nested usb_block_urb() calls

ASSUME UrbAssumption == BigUrbs \subseteq Urbs /\ NoUrb \notin Urbs /\ MaxReject \in Nat

VARIABLES queue, opened, priv, pending, cancel, restart,
          status, hcpriv, no_resubmit, reject, frames, killer, owed, asked

xferVars == <<opened, priv, pending, cancel, restart>>
urbVars == <<status, hcpriv, no_resubmit, owed>>
vars == <<queue, xferVars, urbVars, reject, frames, killer, asked>>

Xfers == {0, 1}
Statuses == {"none", "EINPROGRESS", "ok", "EPIPE", "ECONNRESET", "EFBIG"}
Pcs == {"handler", "clear_setup", "clear_return", "tr_setup", "start_other",
        "return", "start0", "start1"}
Frame(pc, x, u) == [pc |-> pc, x |-> x, urb |-> u]

NoKill == [pc |-> "none", urb |-> NoUrb, x |-> 0, blocked |-> FALSE]

Queued(u) == u \in ToSet(queue)
InFlight(u) == \E x \in Xfers : priv[x] = u
Active(u) == Queued(u) \/ InFlight(u)
Unlocked == frames = <<>>
Top == Last(frames)
Below == Front(frames)

TypeOK ==
    /\ queue \in Seq(Urbs)
    /\ opened \in BOOLEAN
    /\ priv \in [Xfers -> Urbs \cup {NoUrb}]
    /\ pending \in [Xfers -> BOOLEAN]
    /\ cancel \in [Xfers -> BOOLEAN]
    /\ restart \in [Xfers -> BOOLEAN]
    /\ status \in [Urbs -> Statuses]
    /\ hcpriv \in [Urbs -> BOOLEAN]
    /\ no_resubmit \in [Urbs -> BOOLEAN]
    /\ reject \in [Urbs -> 0..MaxReject]
    /\ frames \in Seq([pc : Pcs, x : Xfers, urb : Urbs \cup {NoUrb}])
    /\ killer \in [pc : {"none", "begin", "loop", "returned"},
                   urb : Urbs \cup {NoUrb}, x : Xfers, blocked : BOOLEAN]
    /\ owed \in [Urbs -> Int]
    /\ asked \in [Urbs -> BOOLEAN]

(* usb_init_urb() of every URB; no transfer has been set up. *)
Init ==
    /\ queue = <<>>
    /\ opened = FALSE
    /\ priv = [x \in Xfers |-> NoUrb]
    /\ pending = [x \in Xfers |-> FALSE]
    /\ cancel = [x \in Xfers |-> FALSE]
    /\ restart = [x \in Xfers |-> FALSE]
    /\ status = [u \in Urbs |-> "none"]
    /\ hcpriv = [u \in Urbs |-> FALSE]
    /\ no_resubmit = [u \in Urbs |-> FALSE]
    /\ reject = [u \in Urbs |-> 0]
    /\ frames = <<>>
    /\ killer = NoKill
    /\ owed = [u \in Urbs |-> 0]
    /\ asked = [u \in Urbs |-> FALSE]

-----------------------------------------------------------------------------
(* libusb20_tr_start(): a transfer that is being cancelled is started      *)
(* again after its callback, a pending one is left alone, an idle one      *)
(* calls its callback with LIBUSB20_TRANSFER_START at once.                *)
tr_start(x, stack) ==
    IF pending[x]
    THEN /\ restart' = [restart EXCEPT ![x] = @ \/ cancel[x]]
         /\ frames' = stack
    ELSE /\ frames' = Append(stack, Frame("tr_setup", x, NoUrb))
         /\ UNCHANGED restart

(* libusb20_tr_submit(): ignored for a transfer that is pending already.   *)
tr_submit(x) ==
    /\ pending' = [pending EXCEPT ![x] = TRUE]
    /\ cancel' = [cancel EXCEPT ![x] = @ /\ pending[x]]
    /\ restart' = [restart EXCEPT ![x] = @ /\ pending[x]]

(* Hand u back with status st: the fields that the code sets before it     *)
(* calls (urb->complete)(urb).                                             *)
HandBack(u, st, nr) ==
    /\ status' = [status EXCEPT ![u] = st]
    /\ hcpriv' = [hcpriv EXCEPT ![u] = FALSE]
    /\ no_resubmit' = [no_resubmit EXCEPT ![u] = nr]
    /\ owed' = [owed EXCEPT ![u] = @ - 1]

(* usb_linux_complete(), with the flag that stops the handler's own        *)
(* usb_submit_urb() from starting transfers.                               *)
usb_linux_complete(x, u, st) ==
    /\ HandBack(u, st, TRUE)
    /\ priv' = [priv EXCEPT ![x] = NoUrb]

(* usb_submit_urb() up to the point where it starts the transfers; stack   *)
(* is what it returns to.  A blocked URB is refused, and so is any URB if  *)
(* usb_setup_endpoint() cannot open the transfers.                         *)
StartsMutant(u) == TRUE
StartsTransfers(u) == ~no_resubmit[u]

Rejected(u) == reject[u] # 0

Submit(u, stack) ==
    \/ /\ Rejected(u) \/ ~opened
       /\ frames' = stack
       /\ UNCHANGED <<queue, opened, urbVars, asked>>
    \/ /\ ~Rejected(u)
       /\ opened' = TRUE
       /\ hcpriv' = [hcpriv EXCEPT ![u] = TRUE]
       /\ IF Queued(u)
          THEN UNCHANGED <<queue, status, owed, asked>>
          ELSE /\ queue' = Append(queue, u)
               /\ status' = [status EXCEPT ![u] = "EINPROGRESS"]
               /\ owed' = [owed EXCEPT ![u] = @ + 1]
               /\ asked' = [asked EXCEPT ![u] = FALSE]
       /\ frames' = IF StartsTransfers(u)
                    THEN Append(stack, Frame("start0", 0, u)) ELSE stack
       /\ UNCHANGED no_resubmit

(* A driver thread submits an URB that no transfer is working on. *)
usb_submit_urb(u) ==
    /\ Unlocked
    /\ ~InFlight(u)
    /\ killer.urb # u
    /\ Submit(u, <<>>)
    /\ UNCHANGED <<priv, pending, cancel, restart, reject, killer>>

(* usb_submit_urb_sub() for bsd_xfer[0], then for bsd_xfer[1]. *)
StartFirst ==
    /\ ~Unlocked /\ Top.pc = "start0"
    /\ tr_start(0, Append(Below, [Top EXCEPT !.pc = "start1"]))
    /\ UNCHANGED <<queue, opened, priv, pending, cancel, urbVars, reject, killer, asked>>

StartSecond ==
    /\ ~Unlocked /\ Top.pc = "start1"
    /\ tr_start(1, Below)
    /\ UNCHANGED <<queue, opened, priv, pending, cancel, urbVars, reject, killer, asked>>

-----------------------------------------------------------------------------
(* The transfer callbacks.  libusb20_dev_process(), called by the event    *)
(* thread under the lock, reports that transfer x has ended: it ran, it    *)
(* failed, or it was cancelled.  The callback hands the URB back, and goes *)
(* on to the next URB unless the transfer was cancelled.                   *)
NextPc(st) == IF st = "ECONNRESET" THEN "clear_return" ELSE "clear_setup"

XferEnds(x, st) ==
    /\ Unlocked
    /\ pending[x]
    /\ st = "ECONNRESET" => cancel[x]
    /\ pending' = [pending EXCEPT ![x] = FALSE]
    /\ usb_linux_complete(x, priv[x], st)
    /\ frames' = <<Frame(NextPc(st), x, priv[x]), Frame("handler", x, priv[x])>>
    /\ UNCHANGED <<queue, opened, cancel, restart, reject, killer, asked>>

(* The driver's completion handler. *)
HandlerReturns ==
    /\ ~Unlocked /\ Top.pc = "handler"
    /\ frames' = Below
    /\ UNCHANGED <<queue, xferVars, urbVars, reject, killer, asked>>

(* It submits v again before it returns; as Linux drivers do, not after    *)
(* the URB was unlinked.                                                   *)
HandlerSubmits(v) ==
    /\ ~Unlocked /\ Top.pc = "handler"
    /\ status[Top.urb] # "ECONNRESET"
    /\ Submit(v, Below)
    /\ UNCHANGED <<priv, pending, cancel, restart, reject, killer>>

HandlerResubmits == ~Unlocked /\ HandlerSubmits(Top.urb)

(* After the handler: bsd_no_resubmit is cleared. *)
HandlerDone ==
    /\ ~Unlocked /\ Top.pc \in {"clear_setup", "clear_return"}
    /\ no_resubmit' = [no_resubmit EXCEPT ![Top.urb] = FALSE]
    /\ frames' = Append(Below, [Top EXCEPT !.pc =
                      IF Top.pc = "clear_setup" THEN "tr_setup" ELSE "return"])
    /\ UNCHANGED <<queue, xferVars, status, hcpriv, owed, reject, killer, asked>>

(* tr_setup: take the first URB of the list.  One that is too long for a   *)
(* bulk, interrupt or control transfer is handed back at once.             *)
SetupNothing ==
    /\ ~Unlocked /\ Top.pc = "tr_setup"
    /\ queue = <<>>
    /\ frames' = Append(Below, [Top EXCEPT !.pc = "return"])
    /\ UNCHANGED <<queue, xferVars, urbVars, reject, killer, asked>>

SetupTooBig ==
    /\ ~Unlocked /\ Top.pc = "tr_setup"
    /\ queue # <<>> /\ Head(queue) \in BigUrbs
    /\ queue' = Tail(queue)
    /\ usb_linux_complete(Top.x, Head(queue), "EFBIG")
    /\ frames' = Below \o <<Frame("clear_setup", Top.x, Head(queue)),
                            Frame("handler", Top.x, Head(queue))>>
    /\ UNCHANGED <<opened, pending, cancel, restart, reject, killer, asked>>

SetupTransfer ==
    /\ ~Unlocked /\ Top.pc = "tr_setup"
    /\ queue # <<>> /\ Head(queue) \notin BigUrbs
    /\ queue' = Tail(queue)
    /\ priv' = [priv EXCEPT ![Top.x] = Head(queue)]
    /\ tr_submit(Top.x)
    /\ frames' = Append(Below, [Top EXCEPT !.pc = "start_other"])
    /\ UNCHANGED <<opened, urbVars, reject, killer, asked>>

(* "start the other transfer, if not already started" *)
Other(x) == 1 - x

StartOther ==
    /\ ~Unlocked /\ Top.pc = "start_other"
    /\ tr_start(Other(Top.x), Append(Below, [Top EXCEPT !.pc = "return"]))
    /\ UNCHANGED <<queue, opened, priv, pending, cancel, urbVars, reject, killer, asked>>

(* libusb20 calls the callback again if a restart was requested. *)
CallbackReturns ==
    /\ ~Unlocked /\ Top.pc = "return"
    /\ restart' = [restart EXCEPT ![Top.x] = FALSE]
    /\ frames' = IF restart[Top.x]
                 THEN Append(Below, Frame("tr_setup", Top.x, NoUrb)) ELSE Below
    /\ UNCHANGED <<queue, opened, priv, pending, cancel, urbVars, reject, killer, asked>>

-----------------------------------------------------------------------------
(* Unlinking.  A URB still on the list is taken off and handed back by the *)
(* caller itself.                                                          *)
UnlinkQueued(u) ==
    /\ \E i \in DOMAIN queue : queue[i] = u /\ queue' = RemoveAt(queue, i)
    /\ HandBack(u, "ECONNRESET", no_resubmit[u])
    /\ frames' = <<Frame("handler", 0, u)>>
    /\ UNCHANGED xferVars

(* usb_unlink_bsd(): stop and start the transfers in xs that work on u.    *)
WorksOn(x, u) == priv[x] = u

tr_stop(x) == cancel[x] \/ pending[x]

RestartsMutant(x) == restart[x]
RestartsAfterStop(x) == restart[x] \/ (pending[x] /\ tr_stop(x))

RestartTransfers(xs, u) ==
    LET hit(x) == x \in xs /\ WorksOn(x, u) IN
    /\ cancel' = [x \in Xfers |-> IF hit(x) THEN tr_stop(x) ELSE cancel[x]]
    /\ restart' = [x \in Xfers |-> IF hit(x) THEN RestartsAfterStop(x) ELSE restart[x]]
    /\ UNCHANGED <<queue, opened, priv, pending, urbVars, frames>>

(* Without an endpoint, or with the URB nowhere, nothing happens.          *)
usb_unlink_urb(u) ==
    /\ Unlocked
    /\ asked' = [asked EXCEPT ![u] = TRUE]
    /\ \/ Queued(u) /\ UnlinkQueued(u)
       \/ ~Queued(u) /\ RestartTransfers(Xfers, u)
    /\ UNCHANGED <<reject, killer>>

(* usb_kill_urb(): as unlinking, but an URB that a transfer works on is    *)
(* waited for: bsd_xfer[0] is drained first, then bsd_xfer[1], and each    *)
(* round drops the lock for 10ms.  first is the transfer to look at first. *)
DrainedMutant(x, u) == priv[x] # u \/ cancel[x]
Drained(x, u) == priv[x] # u

DrainRound(u, first, blocked) ==
    LET left == {x \in Xfers : x >= first /\ ~Drained(x, u)} IN
    \/ /\ left = {}
       /\ killer' = [pc |-> "returned", urb |-> u, x |-> 1, blocked |-> blocked]
       /\ UNCHANGED <<queue, xferVars, urbVars, frames>>
    \/ /\ left # {}
       /\ LET x == CHOOSE y \in left : \A z \in left : y <= z IN
          /\ killer' = [pc |-> "loop", urb |-> u, x |-> x, blocked |-> blocked]
          /\ RestartTransfers({x}, u)

usb_kill_urb(u) ==
    /\ Unlocked
    /\ killer = NoKill
    /\ asked' = [asked EXCEPT ![u] = TRUE]
    /\ \/ /\ Queued(u)
          /\ UnlinkQueued(u)
          /\ killer' = [pc |-> "begin", urb |-> u, x |-> 1, blocked |-> reject[u] # 0]
       \/ ~Queued(u) /\ DrainRound(u, 0, reject[u] # 0)
    /\ UNCHANGED reject

DrainAgain ==
    /\ Unlocked
    /\ killer.pc = "loop"
    /\ DrainRound(killer.urb, killer.x, killer.blocked)
    /\ asked' = [asked EXCEPT ![killer.urb] = TRUE]
    /\ UNCHANGED reject

(* The handler called by usb_kill_urb() itself has returned. *)
KillQueuedReturns ==
    /\ Unlocked
    /\ killer.pc = "begin"
    /\ killer' = [killer EXCEPT !.pc = "returned"]
    /\ UNCHANGED <<queue, xferVars, urbVars, reject, frames, asked>>

(* The caller of usb_kill_urb() goes on. *)
KillDone ==
    /\ Unlocked
    /\ killer.pc = "returned"
    /\ killer' = NoKill
    /\ UNCHANGED <<queue, xferVars, urbVars, reject, frames, asked>>

(* usb_block_urb(), usb_poison_urb(). *)
usb_block_urb(u) ==
    /\ Unlocked
    /\ reject[u] < MaxReject
    /\ reject' = [reject EXCEPT ![u] = @ + 1]
    /\ UNCHANGED <<queue, xferVars, urbVars, frames, killer, asked>>

(* usb_unblock_urb(), usb_unpoison_urb(): by whoever blocked it, and not   *)
(* while it is being killed.                                               *)
usb_unblock_urb(u) ==
    /\ Unlocked
    /\ reject[u] > 0
    /\ killer.urb # u
    /\ reject' = [reject EXCEPT ![u] = @ - 1]
    /\ UNCHANGED <<queue, xferVars, urbVars, frames, killer, asked>>

(* usb_set_interface() on another interface of the device: it closes the   *)
(* transfers of every endpoint (usb_linux_cleanup_interface), stops and    *)
(* starts the event thread, and leaves the URBs as they are.  The next     *)
(* submit opens the transfers again.                                       *)
usb_set_interface ==
    /\ Unlocked
    /\ opened
    /\ killer = NoKill
    /\ opened' = FALSE
    /\ priv' = [x \in Xfers |-> NoUrb]
    /\ pending' = [x \in Xfers |-> FALSE]
    /\ cancel' = [x \in Xfers |-> FALSE]
    /\ restart' = [x \in Xfers |-> FALSE]
    /\ UNCHANGED <<queue, urbVars, reject, frames, killer, asked>>

-----------------------------------------------------------------------------
Locked ==
    \/ StartFirst \/ StartSecond \/ StartOther
    \/ SetupNothing \/ SetupTooBig \/ SetupTransfer
    \/ HandlerReturns \/ HandlerDone \/ CallbackReturns

Api ==
    \E u \in Urbs :
        \/ usb_submit_urb(u) \/ usb_unlink_urb(u) \/ usb_kill_urb(u)
        \/ usb_block_urb(u) \/ usb_unblock_urb(u)

EventThread == \E x \in Xfers : \E st \in {"ok", "EPIPE", "ECONNRESET"} : XferEnds(x, st)

Killer == DrainAgain \/ KillQueuedReturns \/ KillDone

(* Drivers whose handlers submit no URB but the one they were called for.  *)
Next == Locked \/ HandlerResubmits \/ Api \/ EventThread \/ Killer

Spec == Init /\ [][Next]_vars

(* Drivers whose handlers submit any idle URB of the endpoint.             *)
HandlerSubmitsOther == \E v \in Urbs : ~Active(v) /\ HandlerSubmits(v)

SpecAnyHandler == Init /\ [][Next \/ HandlerSubmitsOther]_vars

(* Drivers that change an alternate setting while URBs are outstanding on  *)
(* another interface.                                                      *)
SpecAltSetting == Init /\ [][Next \/ usb_set_interface]_vars

(* The report of a cancelled transfer, which the device cannot hold back.  *)
CancelEnds(x) == cancel[x] /\ \E st \in {"ok", "EPIPE", "ECONNRESET"} : XferEnds(x, st)

-----------------------------------------------------------------------------
Places(u) ==
    Cardinality({i \in DOMAIN queue : queue[i] = u})
        + (IF priv[0] = u THEN 1 ELSE 0) + (IF priv[1] = u THEN 1 ELSE 0)

(* Every accepted submission is in exactly one place, the list or one      *)
(* transfer, until its handler is called, and its handler is called once   *)
(* (usb_submit_urb against the callbacks and usb_unlink_urb_sub); hcpriv   *)
(* tells the driver the truth.                                             *)
UrbAccounted ==
    \A u \in Urbs : /\ owed[u] \in {0, 1}
                    /\ owed[u] = Places(u)
                    /\ hcpriv[u] <=> owed[u] = 1

(* A transfer that is running has an URB for the callback to dereference,  *)
(* and an URB given to a transfer belongs to one that is running.          *)
RunningHasUrb ==
    Unlocked => \A x \in Xfers : pending[x] <=> priv[x] # NoUrb

(* Both transfers are busy while an URB waits on the list, so no URB is    *)
(* left behind after a cancel, an error or a resubmit that started         *)
(* nothing ("need double buffering").                                      *)
NoStall ==
    Unlocked /\ queue # <<>> => \A x \in Xfers : pending[x]

(* An URB is handed back with -ECONNRESET only if it was unlinked or       *)
(* killed since it was submitted: cancelling a transfer never hits the URB *)
(* that took the transfer over meanwhile.                                  *)
OnlyAskedAreReset ==
    \A u \in Urbs : status[u] = "ECONNRESET" => asked[u]

(* When usb_kill_urb() returns for an URB that was blocked before, the     *)
(* driver may free it: it is on no list and in no transfer.                *)
BlockedKillIsFinal ==
    killer.pc = "returned" /\ killer.blocked => ~Active(killer.urb)

(* usb_kill_urb() of a blocked URB returns. *)
BlockedKillReturns ==
    killer.pc = "loop" /\ killer.blocked ~> killer.pc = "returned"

(* "make sure that the current URB is not active", which urb_destroy()     *)
(* says usb_kill_urb() does before it frees the URB.                       *)
KillIsFinal == killer.pc = "returned" => ~Active(killer.urb)

(* "doing an alternate setting on one endpoint means we need to kill the   *)
(* URB's on the other endpoints aswell!", says usb_set_interface(): no     *)
(* submission is left without its completion.                              *)
AltSettingKillsUrbs ==
    [][usb_set_interface => \A u \in Urbs : owed'[u] = 0]_vars

(* Transfers and URBs fit together: a callback finds the URB it is about   *)
(* in priv_sc1, and no transfer rests while an URB waits for one.          *)
TransfersBusy == TypeOK /\ RunningHasUrb /\ NoStall

(* Cancelling hits the URBs it was asked for and no others, and the kill   *)
(* of a blocked URB leaves nothing of it behind (usb_unlink_bsd()).        *)
CancelsRight == OnlyAskedAreReset /\ BlockedKillIsFinal
=============================================================================
