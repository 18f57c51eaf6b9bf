-------------------------------- MODULE UsbSg --------------------------------
(***************************************************************************)
(* Transfers that a caller waits for (linux_usb.c): scatter-gather         *)
(* requests, which any thread may cancel while their owner waits, and      *)
(* usb_bulk_msg().  Handlers run inside the transfer callback or inside    *)
(* usb_unlink_urb(), and always under the atomic lock, which is also what  *)
(* io->lock is.  A request has one URB: usb_sg_init() takes one entry.     *)
(*                                                                         *)
(*   sgurb    state of each URB; UsbUrb has the details of how an URB gets *)
(*            from "queued" to its handler                                 *)
(*   reject   usb_block_urb()                                              *)
(*   count, status, done   fields of the request, done of its completion   *)
(*   wpc, i   usb_sg_wait()                                                *)
(*   cpc      threads in usb_sg_cancel()                                   *)
(*   freed    sg_clean() was called                                        *)
(*   result   what the URB of the request ended with (history)             *)
(*   mpc, mstatus, mdone   usb_bulk_msg(), its api_context                 *)
(*   rounds   requests so far                                              *)
(***************************************************************************)
EXTENDS Integers

CONSTANTS
    Cancellers,
    MaxRounds       \* bound: requests

VARIABLES sgurb, reject, count, status, done, wpc, i, cpc, freed, result, mpc, mstatus, mdone, rounds

sg == <<count, status, done, wpc, i, cpc, freed, result, rounds>>
msg == <<mpc, mstatus, mdone>>
sgVars == <<sgurb, reject, sg, msg>>

SgUrbs == {"sg", "msg"}
Errors == {"EPIPE", "EFBIG"}
Active == {"queued", "running", "cancelled"}

SgInit ==
    /\ sgurb = [u \in SgUrbs |-> "none"] /\ reject = [u \in SgUrbs |-> 0]
    /\ count = 0 /\ status = "ok" /\ done = 0 /\ wpc = "none" /\ i = 0
    /\ cpc = [c \in Cancellers |-> "none"] /\ freed = TRUE /\ result = "none" /\ rounds = 0
    /\ mpc = "none" /\ mstatus = "none" /\ mdone = 0

(* complete() when the count is zero, at three places. *)
Complete(n) == done' = IF n = 0 THEN done + 1 ELSE done

-----------------------------------------------------------------------------
(* usb_sg_init() *)
usb_sg_init ==
    /\ wpc = "none" /\ rounds < MaxRounds
    /\ rounds' = rounds + 1
    /\ \/ /\ sgurb' = [sgurb EXCEPT !["sg"] = "idle"] /\ reject' = [reject EXCEPT !["sg"] = 0]
          /\ count' = 1 /\ status' = "ok" /\ done' = 0 /\ freed' = FALSE /\ result' = "none"
          /\ wpc' = "loop" /\ i' = 0
       \/ UNCHANGED <<sgurb, reject, count, status, done, freed, result, wpc, i>>   \* no memory
    /\ UNCHANGED <<cpc, msg>>

(* usb_sg_wait(): the status is looked at with the lock held, the URB is   *)
(* submitted without.                                                      *)
WaitLoop ==
    /\ wpc = "loop"
    /\ IF i < 1 /\ status = "ok"
       THEN wpc' = "submit" /\ UNCHANGED <<count, done>>
       ELSE /\ count' = count - (1 - i) /\ Complete(count')
            /\ wpc' = "wait"
    /\ UNCHANGED <<sgurb, reject, status, i, cpc, freed, result, rounds, msg>>

(* A blocked URB gives ENXIO, which is tried again, as is want of memory;  *)
(* other errors cancel the request.                                        *)
SubmitEntry ==
    /\ wpc = "submit"
    /\ \/ /\ reject["sg"] # 0
          /\ wpc' = "loop" /\ UNCHANGED <<sgurb, i>>
       \/ /\ reject["sg"] = 0
          /\ sgurb' = [sgurb EXCEPT !["sg"] = "queued"] /\ i' = 1 /\ wpc' = "loop"
       \/ /\ reject["sg"] = 0
          /\ wpc' = "cancel" /\ UNCHANGED <<sgurb, i>>
    /\ UNCHANGED <<reject, count, status, done, cpc, freed, result, rounds, msg>>

(* usb_sg_cancel() called by usb_sg_wait(), which then stores the error. *)
SubmitError ==
    /\ wpc = "cancel"
    /\ IF status # "ok" \/ count = 0
       THEN UNCHANGED <<count, done, reject>>
       ELSE /\ reject' = [reject EXCEPT !["sg"] = @ + 1]
            /\ UNCHANGED <<count, done>>        \* the URB is not queued; count goes up and down
    /\ status' = IF status \in {"ok", "ECONNRESET"} THEN "EPIPE" ELSE status
    /\ wpc' = "loop"
    /\ UNCHANGED <<sgurb, i, cpc, freed, result, rounds, msg>>

Awake == done > 0       \* wait_for_completion()

WaitDone ==
    /\ wpc = "wait" /\ Awake
    /\ done' = done - 1
    /\ freed' = TRUE /\ sgurb' = [sgurb EXCEPT !["sg"] = "none"]    \* sg_clean()
    /\ wpc' = "none"
    /\ UNCHANGED <<reject, count, status, i, cpc, result, rounds, msg>>

(* sg_complete(), the handler.  Of several URBs it would unlink the rest. *)
NewStatus(st) == IF status = "ok" /\ st \notin {"ok", "ECONNRESET"} THEN st ELSE status

sg_complete(st) ==
    /\ status' = NewStatus(st)
    /\ count' = count - 1 /\ Complete(count')
    /\ result' = st

-----------------------------------------------------------------------------
(* usb_sg_cancel() by other threads: while a canceller is at work the      *)
(* count is one higher, so that the request stays.                         *)
HoldMutant(n) == n
Hold(n) == n + 1

CancelStart(c) ==
    /\ cpc[c] = "none" /\ ~freed
    /\ IF status # "ok" \/ count = 0
       THEN UNCHANGED <<status, count, cpc>>
       ELSE /\ status' = "ECONNRESET" /\ count' = Hold(count)
            /\ cpc' = [cpc EXCEPT ![c] = "block"]
    /\ UNCHANGED <<sgurb, reject, done, wpc, i, freed, result, rounds, msg>>

CancelBlockMutant(c) ==     \* the URB is neither blocked nor unlinked
    /\ cpc[c] = "block"
    /\ cpc' = [cpc EXCEPT ![c] = "end"]
    /\ UNCHANGED <<sgurb, reject, count, status, done, wpc, i, freed, result, rounds, msg>>
CancelBlock(c) ==
    /\ cpc[c] = "block"
    /\ reject' = [reject EXCEPT !["sg"] = @ + 1]
    /\ cpc' = [cpc EXCEPT ![c] = "unlink"]
    /\ UNCHANGED <<sgurb, count, status, done, wpc, i, freed, result, rounds, msg>>

(* usb_unlink_urb(): an URB on the queue is handed back at once. *)
CancelUnlink(c) ==
    /\ cpc[c] = "unlink"
    /\ cpc' = [cpc EXCEPT ![c] = "end"]
    /\ IF sgurb["sg"] = "queued"
       THEN sgurb' = [sgurb EXCEPT !["sg"] = "idle"] /\ sg_complete("ECONNRESET")
       ELSE /\ sgurb' = [sgurb EXCEPT !["sg"] = IF @ = "running" THEN "cancelled" ELSE @]
            /\ UNCHANGED <<status, count, done, result>>
    /\ UNCHANGED <<reject, wpc, i, freed, rounds, msg>>

CancelEnd(c) ==
    /\ cpc[c] = "end"
    /\ count' = count - 1 /\ Complete(count')
    /\ cpc' = [cpc EXCEPT ![c] = "none"]
    /\ UNCHANGED <<sgurb, reject, status, wpc, i, freed, result, rounds, msg>>

-----------------------------------------------------------------------------
(* usb_bulk_msg() and usb_start_wait_urb() *)
usb_bulk_msg ==
    /\ mpc = "none"
    /\ \/ sgurb' = [sgurb EXCEPT !["msg"] = "queued"] /\ mpc' = "wait"
       \/ UNCHANGED <<sgurb, mpc>>                                \* no memory, or not queued
    /\ mstatus' = "ECONNRESET" /\ mdone' = 0
    /\ UNCHANGED <<reject, sg>>

MsgDone ==
    /\ mpc = "wait" /\ mdone > 0
    /\ mdone' = 0 /\ mpc' = "none"
    /\ sgurb' = [sgurb EXCEPT !["msg"] = "none"]                    \* usb_free_urb()
    /\ UNCHANGED <<reject, sg, mstatus>>

usb_api_blocking_completion(st) == mstatus' = st /\ mdone' = mdone + 1

-----------------------------------------------------------------------------
(* The transfers. *)
StartTransfer(u) ==
    /\ sgurb[u] = "queued"
    /\ sgurb' = [sgurb EXCEPT ![u] = "running"]
    /\ UNCHANGED <<reject, sg, msg>>

Ends(u, st) ==
    /\ sgurb[u] = "running" \/ (sgurb[u] = "cancelled" /\ st = "ECONNRESET")
    /\ sgurb[u] = "running" => st \in {"ok", "EPIPE", "EFBIG"}
    /\ sgurb' = [sgurb EXCEPT ![u] = "idle"]
    /\ IF u = "sg"
       THEN sg_complete(st) /\ UNCHANGED <<msg, wpc, i, cpc, freed, rounds>>
       ELSE usb_api_blocking_completion(st) /\ UNCHANGED <<sg, mpc>>
    /\ UNCHANGED reject

Cancel(c) == CancelStart(c) \/ CancelBlock(c) \/ CancelUnlink(c) \/ CancelEnd(c)
Transfer == \E u \in SgUrbs : StartTransfer(u) \/ \E st \in {"ok", "ECONNRESET"} \cup Errors : Ends(u, st)
Wait == WaitLoop \/ SubmitEntry \/ SubmitError \/ WaitDone

SgNext ==
    \/ usb_sg_init \/ Wait \/ usb_bulk_msg \/ MsgDone \/ Transfer
    \/ \E c \in Cancellers : Cancel(c)

SgSpec == SgInit /\ [][SgNext]_sgVars

-----------------------------------------------------------------------------
(* The request is cleaned up when its URB is back and no canceller works   *)
(* on it.                                                                  *)
CleanedLast ==
    freed => sgurb["sg"] = "none" /\ \A c \in Cancellers : cpc[c] = "none"
NotUnderWay == wpc = "wait" /\ done > 0 => sgurb["sg"] \notin Active

(* The count is what is outstanding: the owner, until it has added up what *)
(* it submitted, the URB, and the cancellers.                              *)
CountExact ==
    ~freed => count = (IF wpc = "wait" THEN 0 ELSE 1 - i) + (IF sgurb["sg"] \in Active THEN 1 ELSE 0)
                      + (IF \E c \in Cancellers : cpc[c] # "none" THEN 1 ELSE 0)

(* A request that reports success has transferred its data. *)
StatusTrue == wpc = "wait" /\ done > 0 /\ status = "ok" => result = "ok"

(* Together: the count of a request is what is outstanding of it; it is    *)
(* cleaned up, and usb_sg_wait() told, when its URB is back and no         *)
(* canceller works on it; if it reports success, its data was transferred. *)
RequestExact == CountExact /\ CleanedLast /\ NotUnderWay /\ StatusTrue

(* A request that was cancelled comes back. *)
CancelledReturns == (wpc # "none" /\ status = "ECONNRESET") ~> wpc = "none"
=============================================================================
