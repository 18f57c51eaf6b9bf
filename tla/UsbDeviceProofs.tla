---------------------------- MODULE UsbDeviceProofs ----------------------------
(***************************************************************************)
(* Theorems about what linux_usb.c does with its device beside the queues  *)
(* of URBs: scatter-gather requests (UsbSg), anchors (UsbAnchor), the      *)
(* event thread (UsbEventThread), the search for device and driver         *)
(* (UsbProbe), and the structures made of the descriptors (UsbTree), for   *)
(* any number of cancelling threads, URBs, submissions, event threads,     *)
(* interfaces, calls, processes, devices, drivers and descriptors.         *)
(***************************************************************************)
EXTENDS UsbSg, UsbAnchor, UsbEventThread, UsbProbe, UsbTree,
        SequenceTheorems, FiniteSetTheorems, WellFoundedInduction, TLAPS

(***************************************************************************)
(* 1. Scatter-gather requests.                                             *)
(***************************************************************************)
UrbStates == {"none", "idle", "queued", "running", "cancelled"}
Results == {"none", "ok", "ECONNRESET", "EPIPE", "EFBIG"}

SgTypeOK ==
    /\ sgurb \in [SgUrbs -> UrbStates]
    /\ reject \in [SgUrbs -> Nat]
    /\ count \in Nat /\ done \in Nat /\ i \in {0, 1} /\ freed \in BOOLEAN
    /\ status \in Results \ {"none"}
    /\ wpc \in {"none", "loop", "submit", "cancel", "wait"}
    /\ cpc \in [Cancellers -> {"none", "block", "unlink", "end"}]
    /\ result \in Results

(* A canceller is at work. *)
Cancelling == \E c \in Cancellers : cpc[c] # "none"

(* Of several threads that cancel a request one goes on: it has changed    *)
(* the status.                                                             *)
OneCanceller ==
    /\ \A c, d \in Cancellers : cpc[c] # "none" /\ cpc[d] # "none" => c = d
    /\ Cancelling => status # "ok"

(* The request is there from usb_sg_init() to the end of usb_sg_wait(). *)
RequestThere == freed <=> wpc = "none"

(* Before the URB is submitted it is idle, and afterwards it is not        *)
(* submitted again.                                                        *)
SubmittedOnce ==
    ~freed => /\ sgurb["sg"] # "none"
              /\ i = 0 => sgurb["sg"] = "idle"
              /\ wpc \in {"submit", "cancel"} => i = 0

(* complete() is called when nothing is outstanding, and then nothing      *)
(* becomes outstanding any more.                                           *)
DoneIsZero == ~freed /\ done > 0 => count = 0

(* Where the status comes from: a request whose status is good has an URB  *)
(* that nobody cancelled, and if it has ended it ended well.               *)
StatusRight ==
    ~freed /\ status = "ok" =>
        /\ sgurb["sg"] # "cancelled"
        /\ wpc = "wait" => i = 1
        /\ i = 1 /\ sgurb["sg"] \notin Active => result = "ok"

SgInv ==
    /\ SgTypeOK
    /\ RequestThere
    /\ OneCanceller
    /\ CountExact
    /\ CleanedLast
    /\ SubmittedOnce
    /\ DoneIsZero
    /\ StatusRight

(***************************************************************************)
(* 2. Anchors.                                                             *)
(***************************************************************************)
AnchorTypeOK ==
    /\ urb \in [Urbs -> {"idle", "queued", "running"}]
    /\ refs \in [Urbs -> Int] /\ own \in [Urbs -> {0, 1}]
    /\ anchored \in Seq(Urbs)
    /\ cb \in Urbs \cup {NoUrb} /\ kurb \in Urbs \cup {NoUrb}
    /\ kpc \in {"none", "next", "kill", "put", "done"}
    /\ epc \in {"none", "wait", "awake", "done"}

(* An URB is on the list once. *)
AnchoredOnce == \A m, n \in DOMAIN anchored : anchored[m] = anchored[n] => m = n

(* The driver has its reference while the URB is submitted or its handler  *)
(* has not come back to the transfer callback.                             *)
UsedIsOwned == \A u \in Urbs : urb[u] # "idle" \/ u = cb => own[u] = 1

(* The killer has a reference exactly while it works on an URB. *)
KillerRight == kurb # NoUrb <=> kpc \in {"kill", "put"}

AnchorInv ==
    /\ AnchorTypeOK
    /\ AnchoredOnce
    /\ RefsExact
    /\ UsedIsOwned
    /\ KillerRight
    /\ EmptyIsTold

(***************************************************************************)
(* 3. The event thread.                                                    *)
(***************************************************************************)
EventTypeOK ==
    /\ started \in BOOLEAN /\ stopping \in BOOLEAN /\ drops \in BOOLEAN /\ failed \in BOOLEAN
    /\ ev \in [Evs -> {"none", "begin", "process", "error", "sleep", "wait", "test", "leave"}]
    /\ pc \in {"create", "await", "idle", "close", "stop", "alt", "shut", "free", "end"}
    /\ op \in {"attach", "set", "detach"}
    /\ open \subseteq Ifaces
    /\ device \in {"open", "gone", "closed", "freed"}

NoThread == \A e \in Evs : ev[e] = "none"

(* There is never a second event thread. *)
OneAtMost == \A e, f \in Evs : ev[e] # "none" /\ ev[f] # "none" => e = f

(* thread_started is set from the first thing the thread does to the last. *)
StartedRight == started <=> \E e \in Evs : ev[e] \notin {"none", "begin"}

(* Only usb_linux_create_event_thread() sees a thread that has not begun.  *)
BeginRight == \A e \in Evs : ev[e] = "begin" => pc = "await"

(* A thread leaves its loop because it was asked to. *)
LeaveRight == \A e \in Evs : ev[e] = "leave" => stopping

(* Which calls of the driver have a thread, and where it may be asked to   *)
(* leave.                                                                  *)
ThreadRight ==
    /\ pc \in {"create", "alt", "shut", "free", "end"} => NoThread
    /\ pc \in {"idle", "await"} => ~stopping
    /\ pc = "await" \/ (pc = "idle" /\ ~failed) => ~NoThread

DeviceRight == device \in {"closed", "freed"} => pc \in {"free", "end"}

(* What usb_set_interface() has not closed yet is in what it has to do. *)
ClosedRight ==
    /\ op = "set" /\ pc = "close" => open \subseteq left
    /\ op = "set" /\ pc = "stop" => open \subseteq left \ {Min(left)}
    /\ pc = "alt" => open = {}

EventInv ==
    /\ EventTypeOK
    /\ OneAtMost
    /\ StartedRight
    /\ BeginRight
    /\ LeaveRight
    /\ ThreadRight
    /\ DeviceRight
    /\ ClosedRight

-----------------------------------------------------------------------------
(* usb_sg_init() finds no canceller at work: the last request is cleaned   *)
(* up.                                                                     *)
LEMMA InitKeeps ==
    ASSUME SgInv, usb_sg_init
    PROVE  SgInv'
  <1> USE DEF SgInv
  <1>1. freed = TRUE /\ \A c \in Cancellers : cpc[c] = "none"
    BY DEF usb_sg_init, RequestThere, CleanedLast
  <1>2. CASE UNCHANGED <<sgurb, reject, count, status, done, freed, result, wpc, i, cpc>>
    BY <1>2 DEF SgTypeOK, RequestThere, OneCanceller, Cancelling, CountExact, CleanedLast,
                SubmittedOnce, DoneIsZero, StatusRight
  <1>3. CASE /\ sgurb' = [sgurb EXCEPT !["sg"] = "idle"] /\ reject' = [reject EXCEPT !["sg"] = 0]
             /\ count' = 1 /\ status' = "ok" /\ done' = 0 /\ freed' = FALSE /\ result' = "none"
             /\ wpc' = "loop" /\ i' = 0 /\ cpc' = cpc
    <2>1. SgTypeOK'
      BY <1>3 DEF SgTypeOK, Results, UrbStates
    <2>2. sgurb'["sg"] = "idle"
      BY <1>3 DEF SgTypeOK, SgUrbs
    <2>3. ~Cancelling' /\ \A c \in Cancellers : cpc'[c] = "none"
      BY <1>1, <1>3 DEF Cancelling
    <2>4. CountExact'
      BY <1>3, <2>2, <2>3 DEF CountExact, Active
    <2>5. OneCanceller'
      BY <2>3 DEF OneCanceller
    <2>6. RequestThere' /\ CleanedLast' /\ SubmittedOnce' /\ DoneIsZero' /\ StatusRight'
      BY <1>3, <2>2, <2>3 DEF RequestThere, CleanedLast, SubmittedOnce, DoneIsZero, StatusRight
    <2> QED
      BY <2>1, <2>4, <2>5, <2>6
  <1> QED
    BY <1>2, <1>3 DEF usb_sg_init

LEMMA WaitLoopKeeps ==
    ASSUME SgInv, WaitLoop
    PROVE  SgInv'
  <1> USE DEF SgInv
  <1>1. SgTypeOK'
    BY DEF WaitLoop, Complete, SgTypeOK, CountExact, RequestThere
  <1>2. RequestThere'
    BY DEF WaitLoop, RequestThere
  <1>3. OneCanceller'
    BY DEF WaitLoop, OneCanceller, Cancelling
  <1>4. CountExact'
    BY DEF WaitLoop, CountExact, SgTypeOK
  <1>5. CleanedLast'
    BY DEF WaitLoop, CleanedLast
  <1>6. SubmittedOnce'
    BY DEF WaitLoop, SubmittedOnce, SgTypeOK
  <1>7. DoneIsZero'
    BY DEF WaitLoop, Complete, DoneIsZero, SgTypeOK, CountExact
  <1>8. StatusRight'
    BY DEF WaitLoop, StatusRight, SgTypeOK
  <1> QED
    BY <1>1, <1>2, <1>3, <1>4, <1>5, <1>6, <1>7, <1>8

LEMMA SubmitKeeps ==
    ASSUME SgInv, SubmitEntry
    PROVE  SgInv'
  <1> USE DEF SgInv
  <1>1. SgTypeOK'
    BY DEF SubmitEntry, SgTypeOK, UrbStates
  <1>2. RequestThere'
    BY DEF SubmitEntry, RequestThere
  <1>3. OneCanceller'
    BY DEF SubmitEntry, OneCanceller, Cancelling
  <1>4. CountExact'
    BY DEF SubmitEntry, SgUrbs, CountExact, SgTypeOK, Active, SubmittedOnce
  <1>5. CleanedLast'
    BY DEF SubmitEntry, CleanedLast, RequestThere
  <1>6. SubmittedOnce'
    BY DEF SubmitEntry, SubmittedOnce, SgTypeOK
  <1>7. DoneIsZero'
    BY DEF SubmitEntry, DoneIsZero
  <1>8. StatusRight'
    BY DEF SubmitEntry, SgUrbs, StatusRight, SgTypeOK, Active
  <1> QED
    BY <1>1, <1>2, <1>3, <1>4, <1>5, <1>6, <1>7, <1>8

LEMMA SubmitErrorKeeps ==
    ASSUME SgInv, SubmitError
    PROVE  SgInv'
  <1> USE DEF SgInv
  <1>1. SgTypeOK'
    BY DEF SubmitError, SgTypeOK, Results
  <1>2. RequestThere'
    BY DEF SubmitError, RequestThere
  <1>3. OneCanceller'
    BY DEF SubmitError, OneCanceller
  <1>4. CountExact'
    BY DEF SubmitError, CountExact
  <1>5. CleanedLast'
    BY DEF SubmitError, CleanedLast
  <1>6. SubmittedOnce'
    BY DEF SubmitError, SubmittedOnce
  <1>7. DoneIsZero'
    BY DEF SubmitError, DoneIsZero
  <1>8. StatusRight'
    BY DEF SubmitError, StatusRight
  <1> QED
    BY <1>1, <1>2, <1>3, <1>4, <1>5, <1>6, <1>7, <1>8

LEMMA WaitDoneKeeps ==
    ASSUME SgInv, WaitDone
    PROVE  SgInv'
  <1> USE DEF SgInv
  <1>1. SgTypeOK'
    BY DEF WaitDone, Awake, SgUrbs, SgTypeOK, UrbStates
  <1>2. RequestThere'
    BY DEF WaitDone, RequestThere
  <1>3. OneCanceller'
    BY DEF WaitDone, OneCanceller, Cancelling
  <1>4. CountExact'
    BY DEF WaitDone, CountExact
  <1>5. CleanedLast'
    BY DEF WaitDone, Awake, SgUrbs, CleanedLast, SgTypeOK, DoneIsZero, CountExact
  <1>6. SubmittedOnce'
    BY DEF WaitDone, SubmittedOnce
  <1>7. DoneIsZero'
    BY DEF WaitDone, DoneIsZero
  <1>8. StatusRight'
    BY DEF WaitDone, StatusRight
  <1> QED
    BY <1>1, <1>2, <1>3, <1>4, <1>5, <1>6, <1>7, <1>8

LEMMA CancelStartKeeps ==
    ASSUME SgInv, NEW c \in Cancellers, CancelStart(c)
    PROVE  SgInv'
  <1> USE DEF SgInv
  <1>1. SgTypeOK'
    BY DEF CancelStart, Hold, SgTypeOK, Results
  <1>2. RequestThere'
    BY DEF CancelStart, RequestThere
  <1>3. OneCanceller'
    BY DEF CancelStart, OneCanceller, Cancelling, SgTypeOK
  <1>4. CountExact'
    BY DEF CancelStart, Hold, CountExact, SgTypeOK, OneCanceller, Cancelling
  <1>5. CleanedLast'
    BY DEF CancelStart, CleanedLast
  <1>6. SubmittedOnce'
    BY DEF CancelStart, SubmittedOnce
  <1>7. DoneIsZero'
    BY DEF CancelStart, DoneIsZero
  <1>8. StatusRight'
    BY DEF CancelStart, StatusRight
  <1> QED
    BY <1>1, <1>2, <1>3, <1>4, <1>5, <1>6, <1>7, <1>8

LEMMA CancelBlockKeeps ==
    ASSUME SgInv, NEW c \in Cancellers, CancelBlock(c)
    PROVE  SgInv'
  <1> USE DEF SgInv
  <1>1. SgTypeOK'
    BY DEF CancelBlock, SgUrbs, SgTypeOK
  <1>2. RequestThere'
    BY DEF CancelBlock, RequestThere
  <1>3. OneCanceller'
    BY DEF CancelBlock, OneCanceller, Cancelling
  <1>4. CountExact'
    BY DEF CancelBlock, CountExact
  <1>5. CleanedLast'
    BY DEF CancelBlock, CleanedLast
  <1>6. SubmittedOnce'
    BY DEF CancelBlock, SubmittedOnce
  <1>7. DoneIsZero'
    BY DEF CancelBlock, DoneIsZero
  <1>8. StatusRight'
    BY DEF CancelBlock, StatusRight
  <1> QED
    BY <1>1, <1>2, <1>3, <1>4, <1>5, <1>6, <1>7, <1>8

LEMMA CancelUnlinkKeeps ==
    ASSUME SgInv, NEW c \in Cancellers, CancelUnlink(c)
    PROVE  SgInv'
  <1> USE DEF SgInv
  <1>1. SgTypeOK'
    BY DEF CancelUnlink, sg_complete, NewStatus, Complete, SgTypeOK, Results, UrbStates, CountExact, CleanedLast
  <1>2. RequestThere'
    BY DEF CancelUnlink, RequestThere
  <1>3. OneCanceller'
    BY DEF CancelUnlink, sg_complete, NewStatus, OneCanceller, Cancelling
  <1>4. CountExact'
    BY DEF CancelUnlink, sg_complete, SgUrbs, CountExact, SgTypeOK, Active
  <1>5. CleanedLast'
    BY DEF CancelUnlink, CleanedLast
  <1>6. SubmittedOnce'
    BY DEF CancelUnlink, SubmittedOnce, SgTypeOK
  <1>7. DoneIsZero'
    BY DEF CancelUnlink, sg_complete, Complete, DoneIsZero, SgTypeOK, CountExact
  <1>8. StatusRight'
    BY DEF CancelUnlink, sg_complete, NewStatus, StatusRight, OneCanceller, Cancelling
  <1> QED
    BY <1>1, <1>2, <1>3, <1>4, <1>5, <1>6, <1>7, <1>8

LEMMA CancelEndKeeps ==
    ASSUME SgInv, NEW c \in Cancellers, CancelEnd(c)
    PROVE  SgInv'
  <1> USE DEF SgInv
  <1>1. SgTypeOK'
    BY DEF CancelEnd, Complete, SgTypeOK, CountExact, CleanedLast
  <1>2. RequestThere'
    BY DEF CancelEnd, RequestThere
  <1>3. OneCanceller'
    BY DEF CancelEnd, OneCanceller, Cancelling
  <1>4. CountExact'
    BY DEF CancelEnd, CountExact, SgTypeOK, OneCanceller
  <1>5. CleanedLast'
    BY DEF CancelEnd, CleanedLast
  <1>6. SubmittedOnce'
    BY DEF CancelEnd, SubmittedOnce
  <1>7. DoneIsZero'
    BY DEF CancelEnd, Complete, DoneIsZero, SgTypeOK, CountExact
  <1>8. StatusRight'
    BY DEF CancelEnd, StatusRight
  <1> QED
    BY <1>1, <1>2, <1>3, <1>4, <1>5, <1>6, <1>7, <1>8

LEMMA MsgKeeps ==
    ASSUME SgInv, usb_bulk_msg \/ MsgDone
    PROVE  SgInv'
  <1> USE DEF SgInv
  <1>1. SgTypeOK'
    BY DEF usb_bulk_msg, MsgDone, sg, SgTypeOK, UrbStates
  <1>2. RequestThere'
    BY DEF usb_bulk_msg, MsgDone, sg, RequestThere
  <1>3. OneCanceller'
    BY DEF usb_bulk_msg, MsgDone, sg, OneCanceller, Cancelling
  <1>4. CountExact'
    BY DEF usb_bulk_msg, MsgDone, sg, SgUrbs, CountExact, SgTypeOK
  <1>5. CleanedLast'
    BY DEF usb_bulk_msg, MsgDone, sg, SgUrbs, CleanedLast, SgTypeOK
  <1>6. SubmittedOnce'
    BY DEF usb_bulk_msg, MsgDone, sg, SgUrbs, SubmittedOnce, SgTypeOK
  <1>7. DoneIsZero'
    BY DEF usb_bulk_msg, MsgDone, sg, DoneIsZero
  <1>8. StatusRight'
    BY DEF usb_bulk_msg, MsgDone, sg, SgUrbs, StatusRight, SgTypeOK
  <1> QED
    BY <1>1, <1>2, <1>3, <1>4, <1>5, <1>6, <1>7, <1>8

LEMMA StartKeeps ==
    ASSUME SgInv, NEW u \in SgUrbs, StartTransfer(u)
    PROVE  SgInv'
  <1> USE DEF SgInv
  <1>1. SgTypeOK'
    BY DEF StartTransfer, sg, SgTypeOK, UrbStates
  <1>2. RequestThere'
    BY DEF StartTransfer, sg, RequestThere
  <1>3. OneCanceller'
    BY DEF StartTransfer, sg, OneCanceller, Cancelling
  <1>4. CountExact'
    BY DEF StartTransfer, sg, CountExact, Active
  <1>5. CleanedLast'
    BY DEF StartTransfer, sg, CleanedLast
  <1>6. SubmittedOnce'
    BY DEF StartTransfer, sg, SubmittedOnce
  <1>7. DoneIsZero'
    BY DEF StartTransfer, sg, DoneIsZero
  <1>8. StatusRight'
    BY DEF StartTransfer, sg, StatusRight, Active
  <1> QED
    BY <1>1, <1>2, <1>3, <1>4, <1>5, <1>6, <1>7, <1>8

LEMMA EndsKeeps ==
    ASSUME SgInv, NEW u \in SgUrbs, NEW st \in {"ok", "ECONNRESET"} \cup Errors, Ends(u, st)
    PROVE  SgInv'
  <1> USE DEF SgInv
  <1>1. SgTypeOK'
    <2>1. sgurb' = [sgurb EXCEPT ![u] = "idle"] /\ sgurb[u] \in Active /\ reject' = reject
      BY DEF Ends, Active
    <2>2. CASE u = "sg"
      <3>1. ~freed /\ count >= 1
        BY <2>1, <2>2 DEF CountExact, CleanedLast, Active, SgTypeOK
      <3>2. /\ count' = count - 1 /\ done' \in Nat
            /\ status' \in Results \ {"none"} /\ result' = st /\ UNCHANGED <<wpc, i, cpc, freed>>
        BY <2>2 DEF Ends, sg_complete, Complete, NewStatus, Results, SgTypeOK
      <3> QED
        BY <2>1, <3>1, <3>2 DEF SgTypeOK, UrbStates, Errors, Results
    <2>3. CASE u # "sg"
      BY <2>1, <2>3 DEF Ends, sg, SgTypeOK, UrbStates
    <2> QED
      BY <2>2, <2>3
  <1>2. RequestThere'
    BY DEF Ends, sg, RequestThere
  <1>3. OneCanceller'
    BY DEF Ends, sg_complete, NewStatus, sg, OneCanceller, Cancelling
  <1>4. CountExact'
    BY DEF Ends, sg_complete, Errors, sg, CountExact, SgTypeOK, Active
  <1>5. CleanedLast'
    BY DEF Ends, sg, SgUrbs, CleanedLast, SgTypeOK
  <1>6. SubmittedOnce'
    BY DEF Ends, sg, SubmittedOnce
  <1>7. DoneIsZero'
    BY DEF Ends, sg_complete, Complete, sg, DoneIsZero, SgTypeOK, CountExact, Active
  <1>8. StatusRight'
    BY DEF Ends, sg_complete, NewStatus, sg, StatusRight
  <1> QED
    BY <1>1, <1>2, <1>3, <1>4, <1>5, <1>6, <1>7, <1>8

LEMMA SgInitInv == SgInit => SgInv
  <1> SUFFICES ASSUME SgInit PROVE SgInv
    OBVIOUS
  <1>1. SgTypeOK
    BY DEF SgInit, SgTypeOK, UrbStates, Results
  <1>2. RequestThere /\ CountExact /\ SubmittedOnce /\ DoneIsZero /\ StatusRight
    BY DEF SgInit, RequestThere, CountExact, SubmittedOnce, DoneIsZero, StatusRight
  <1>3. OneCanceller /\ CleanedLast
    BY DEF SgInit, OneCanceller, Cancelling, CleanedLast, SgUrbs
  <1> QED
    BY <1>1, <1>2, <1>3 DEF SgInv

LEMMA SgNextInv == SgInv /\ [SgNext]_sgVars => SgInv'
  <1> SUFFICES ASSUME SgInv, [SgNext]_sgVars PROVE SgInv'
    OBVIOUS
  <1>1. CASE Wait
    BY <1>1, WaitLoopKeeps, SubmitKeeps, SubmitErrorKeeps, WaitDoneKeeps DEF Wait
  <1>2. ASSUME NEW c \in Cancellers, Cancel(c) PROVE SgInv'
    BY <1>2, CancelStartKeeps, CancelBlockKeeps, CancelUnlinkKeeps, CancelEndKeeps DEF Cancel
  <1>3. CASE Transfer
    BY <1>3, StartKeeps, EndsKeeps DEF Transfer
  <1>4. CASE UNCHANGED sgVars
    BY <1>4 DEF sgVars, sg, SgInv, SgTypeOK, RequestThere, OneCanceller, Cancelling, CountExact,
                CleanedLast, SubmittedOnce, DoneIsZero, StatusRight
  <1> QED
    BY <1>1, <1>2, <1>3, <1>4, InitKeeps, MsgKeeps DEF SgNext

(* In every behaviour of UsbSg one canceller at most works on a request,   *)
(* its URB is submitted once, and nothing becomes outstanding once         *)
(* complete() was called.                                                  *)
THEOREM SgInductive == SgSpec => []SgInv
  BY SgInitInv, SgNextInv, PTL DEF SgSpec

(* The count of a request is what is outstanding of it, usb_sg_wait()      *)
(* comes back and cleans up when its URB is back and no canceller works on *)
(* it, and a request that reports success has transferred its data.        *)
THEOREM Requests == SgSpec => []RequestExact
  <1>1. SgInv => RequestExact
    <2> SUFFICES ASSUME SgInv PROVE RequestExact
      OBVIOUS
    <2>1. CountExact /\ CleanedLast
      BY DEF SgInv
    <2>2. NotUnderWay
      BY DEF SgInv, NotUnderWay, DoneIsZero, CountExact, RequestThere
    <2>3. StatusTrue
      BY <2>2 DEF SgInv, NotUnderWay, StatusTrue, StatusRight, RequestThere
    <2> QED
      BY <2>1, <2>2, <2>3 DEF RequestExact
  <1> QED
    BY <1>1, SgInductive, PTL

-----------------------------------------------------------------------------
(* Taking the n-th element off a list without repetitions. *)
LEMMA RemoveOne ==
    ASSUME NEW a \in Seq(Urbs), \A m, n \in DOMAIN a : a[m] = a[n] => m = n, NEW u \in ToSet(a)
    PROVE  /\ Off(a, u) \in Seq(Urbs)
           /\ ToSet(Off(a, u)) = ToSet(a) \ {u}
           /\ \A m, n \in DOMAIN Off(a, u) : Off(a, u)[m] = Off(a, u)[n] => m = n
  <1> DEFINE j == CHOOSE n \in DOMAIN a : a[n] = u
  <1> DEFINE b == Off(a, u)
  <1>1. j \in 1..Len(a) /\ a[j] = u
    BY DEF ToSet
  <1>2. b = SubSeq(a, 1, j - 1) \o SubSeq(a, j + 1, Len(a))
    BY DEF Off, RemoveAt
  <1> HIDE DEF j
  <1> DEFINE p == SubSeq(a, 1, j - 1)
             q == SubSeq(a, j + 1, Len(a))
  <1>3. p \in Seq(Urbs) /\ Len(p) = j - 1 /\ \A n \in 1..(j - 1) : p[n] = a[n]
    BY <1>1, SubSeqProperties
  <1>4. /\ q \in Seq(Urbs) /\ Len(q) = Len(a) - j
        /\ \A n \in 1..(Len(a) - j) : q[n] = a[j + n]
    BY <1>1, SubSeqProperties
  <1> HIDE DEF p, q, b
  <1>5. /\ b \in Seq(Urbs) /\ Len(b) = Len(a) - 1
        /\ \A n \in 1..Len(b) : b[n] = IF n < j THEN a[n] ELSE a[n + 1]
    <2>1. /\ b \in Seq(Urbs) /\ Len(b) = Len(p) + Len(q)
          /\ \A n \in 1..Len(p) : b[n] = p[n]
          /\ \A n \in 1..Len(q) : b[Len(p) + n] = q[n]
      <3>1. b = p \o q
        BY <1>2 DEF p, q
      <3>2. /\ p \o q \in Seq(Urbs) /\ Len(p \o q) = Len(p) + Len(q)
            /\ \A n \in 1..(Len(p) + Len(q)) :
                  (p \o q)[n] = IF n <= Len(p) THEN p[n] ELSE q[n - Len(p)]
        BY <1>3, <1>4, ConcatProperties
      <3>3. Len(p) \in Nat /\ Len(q) \in Nat
        BY <1>3, <1>4, LenProperties
      <3>4. ASSUME NEW n \in 1..Len(q)
            PROVE  /\ Len(p) + n \in 1..(Len(p) + Len(q)) /\ ~(Len(p) + n <= Len(p))
                   /\ (Len(p) + n) - Len(p) = n
        BY <3>3
      <3>5. \A n \in 1..Len(p) : b[n] = p[n]
        <4>1. \A n \in 1..Len(p) : n \in 1..(Len(p) + Len(q)) /\ n <= Len(p)
          BY <3>3
        <4> QED
          BY <3>1, <3>2, <4>1, Zenon
      <3>6. \A n \in 1..Len(q) : b[Len(p) + n] = q[n]
        <4> SUFFICES ASSUME NEW n \in 1..Len(q) PROVE b[Len(p) + n] = q[n]
          OBVIOUS
        <4>1. b[Len(p) + n] = q[(Len(p) + n) - Len(p)]
          BY <3>1, <3>2, <3>4, Zenon
        <4> QED
          BY <3>4, <4>1, Zenon
      <3> QED
        BY <3>1, <3>2, <3>5, <3>6, Zenon
    <2>2. Len(a) \in Nat /\ j \in Nat /\ j >= 1 /\ Len(b) = Len(a) - 1
      BY <1>1, <1>3, <1>4, <2>1
    <2>3. ASSUME NEW n \in 1..Len(b) PROVE b[n] = IF n < j THEN a[n] ELSE a[n + 1]
      <3>1. CASE n < j
        BY <3>1, <1>3, <2>1, <2>2
      <3>2. CASE ~(n < j)
        <4>1. n - (j - 1) \in 1..Len(q) /\ Len(p) + (n - (j - 1)) = n /\ j + (n - (j - 1)) = n + 1
          BY <3>2, <1>3, <1>4, <2>2
        <4>2. b[n] = q[n - (j - 1)] /\ q[n - (j - 1)] = a[n + 1]
          BY <4>1, <2>1, <1>4
        <4> QED
          BY <3>2, <4>2
      <3> QED
        BY <3>1, <3>2
    <2> QED
      BY <2>1, <2>2, <2>3
  <1>6. DOMAIN a = 1..Len(a) /\ DOMAIN b = 1..Len(b) /\ Len(a) \in Nat /\ Len(b) \in Nat
    BY <1>5, LenProperties
  <1>7. \A m, n \in DOMAIN b : b[m] = b[n] => m = n
    BY <1>1, <1>5, <1>6
  <1>8. ToSet(b) = ToSet(a) \ {u}
    <2>1. ASSUME NEW n \in DOMAIN b PROVE b[n] \in ToSet(a) \ {u}
      <3>1. CASE n < j
        BY <3>1, <1>1, <1>5, <1>6 DEF ToSet
      <3>2. CASE ~(n < j)
        BY <3>2, <1>1, <1>5, <1>6 DEF ToSet
      <3> QED
        BY <3>1, <3>2
    <2>2. ASSUME NEW n \in DOMAIN a, a[n] # u PROVE a[n] \in ToSet(b)
      <3>1. CASE n < j
        <4>1. n \in DOMAIN b /\ b[n] = a[n]
          BY <3>1, <1>1, <1>5, <1>6
        <4> QED
          BY <4>1 DEF ToSet
      <3>2. CASE n > j
        <4>1. n - 1 \in DOMAIN b /\ b[n - 1] = a[(n - 1) + 1] /\ (n - 1) + 1 = n
          BY <3>2, <1>1, <1>5, <1>6
        <4> QED
          BY <4>1 DEF ToSet
      <3> QED
        BY <3>1, <3>2, <2>2, <1>1, <1>6
    <2> QED
      BY <2>1, <2>2 DEF ToSet
  <1> QED
    BY <1>5, <1>7, <1>8 DEF b

(* usb_unanchor_urb() takes the URB off the list, with its reference. *)
LEMMA UnanchorFacts ==
    ASSUME AnchorTypeOK, AnchoredOnce, NEW u \in Urbs, Unanchor(u)
    PROVE  /\ anchored' \in Seq(Urbs)
           /\ ToSet(anchored)' = ToSet(anchored) \ {u}
           /\ AnchoredOnce'
           /\ refs' \in [Urbs -> Int]
           /\ epc' \in {"none", "wait", "awake", "done"}
           /\ EmptyIsTold => EmptyIsTold'
           /\ RefsExact /\ UNCHANGED <<own, kurb>> => RefsExact'
  <1>1. CASE u \in ToSet(anchored)
    <2>1. /\ anchored' = Off(anchored, u)
          /\ refs' = [refs EXCEPT ![u] = refs[u] - 1]
          /\ epc' = IF anchored' = <<>> /\ epc = "wait" THEN "awake" ELSE epc
      BY <1>1 DEF Unanchor, Put, Wakes
    <2>2. /\ Off(anchored, u) \in Seq(Urbs)
          /\ ToSet(Off(anchored, u)) = ToSet(anchored) \ {u}
          /\ \A m, n \in DOMAIN Off(anchored, u) : Off(anchored, u)[m] = Off(anchored, u)[n] => m = n
      BY <1>1, RemoveOne DEF AnchorTypeOK, AnchoredOnce
    <2>3. anchored' \in Seq(Urbs) /\ ToSet(anchored)' = ToSet(anchored) \ {u} /\ AnchoredOnce'
      BY <2>1, <2>2 DEF AnchoredOnce
    <2>4. refs' \in [Urbs -> Int] /\ \A v \in Urbs : refs'[v] = IF v = u THEN refs[v] - 1 ELSE refs[v]
      BY <1>1, <2>1 DEF AnchorTypeOK
    <2>6. ASSUME RefsExact, UNCHANGED <<own, kurb>> PROVE RefsExact'
      <3> SUFFICES ASSUME NEW v \in Urbs
                   PROVE  refs'[v] = own'[v] + (IF v \in ToSet(anchored)' THEN 1 ELSE 0)
                                             + (IF v = kurb' THEN 1 ELSE 0)
        BY DEF RefsExact
      <3>1. refs[v] = own[v] + (IF v \in ToSet(anchored) THEN 1 ELSE 0) + (IF v = kurb THEN 1 ELSE 0)
        BY <2>6 DEF RefsExact
      <3>2. own[v] \in Int
        BY DEF AnchorTypeOK
      <3>3. CASE v = u
        BY <3>1, <3>2, <3>3, <2>3, <2>4, <2>6, <1>1
      <3>4. CASE v # u
        BY <3>1, <3>4, <2>3, <2>4, <2>6
      <3> QED
        BY <3>3, <3>4
    <2>5. epc' \in {"none", "wait", "awake", "done"} /\ (EmptyIsTold => EmptyIsTold')
      BY <2>1 DEF AnchorTypeOK, EmptyIsTold
    <2> QED
      BY <2>3, <2>4, <2>5, <2>6
  <1>2. CASE u \notin ToSet(anchored)
    <2>1. UNCHANGED <<anchored, refs, epc>>
      BY <1>2 DEF Unanchor
    <2>2. ToSet(anchored)' = ToSet(anchored) \ {u} /\ AnchoredOnce'
      BY <1>2, <2>1 DEF AnchoredOnce
    <2>3. EmptyIsTold => EmptyIsTold'
      BY <2>1 DEF EmptyIsTold
    <2>4. RefsExact /\ UNCHANGED <<own, kurb>> => RefsExact'
      BY <2>1 DEF RefsExact
    <2> QED
      BY <1>2, <2>1, <2>2, <2>3, <2>4 DEF AnchorTypeOK
  <1> QED
    BY <1>1, <1>2

(* What a step has to show when it leaves the list and the waiter alone. *)
LEMMA ListFrame ==
    ASSUME UNCHANGED <<anchored, epc>>
    PROVE  /\ ToSet(anchored)' = ToSet(anchored)
           /\ AnchoredOnce => AnchoredOnce'
           /\ EmptyIsTold => EmptyIsTold'
  BY DEF AnchoredOnce, EmptyIsTold

LEMMA AnchorKeeps ==
    ASSUME AnchorInv, NEW u \in Urbs, usb_anchor_urb(u)
    PROVE  AnchorInv'
  <1> USE DEF AnchorInv
  <1>1. /\ u \notin ToSet(anchored) /\ anchored' = Append(anchored, u)
        /\ refs' = [refs EXCEPT ![u] = @ + 1] /\ UNCHANGED <<urb, own, cb, kpc, kurb, epc>>
    BY DEF usb_anchor_urb
  <1>2. /\ anchored' \in Seq(Urbs) /\ Len(anchored') = Len(anchored) + 1
        /\ \A n \in 1..Len(anchored) : anchored'[n] = anchored[n]
        /\ anchored'[Len(anchored) + 1] = u
        /\ Len(anchored) \in Nat /\ DOMAIN anchored = 1..Len(anchored)
        /\ DOMAIN anchored' = 1..(Len(anchored) + 1)
    BY <1>1, AppendProperties, LenProperties DEF AnchorTypeOK
  <1>3. ToSet(anchored)' = ToSet(anchored) \cup {u}
    BY <1>2 DEF ToSet
  <1>4. AnchorTypeOK'
    BY <1>1, <1>2 DEF AnchorTypeOK
  <1>5. AnchoredOnce'
    <2> SUFFICES ASSUME NEW m \in DOMAIN anchored', NEW n \in DOMAIN anchored',
                        anchored'[m] = anchored'[n]
                 PROVE  m = n
      BY DEF AnchoredOnce
    <2>1. \A k \in 1..Len(anchored) : anchored'[k] # u
      BY <1>1, <1>2 DEF ToSet
    <2> QED
      BY <1>2, <2>1 DEF AnchoredOnce
  <1>6. RefsExact'
    BY <1>1, <1>3 DEF RefsExact, AnchorTypeOK
  <1>7. UsedIsOwned' /\ KillerRight'
    BY <1>1 DEF UsedIsOwned, KillerRight
  <1>8. anchored' # <<>>
    BY <1>2, EmptySeq
  <1>9. EmptyIsTold'
    BY <1>8 DEF EmptyIsTold
  <1> QED
    BY <1>4, <1>5, <1>6, <1>7, <1>9

LEMMA AnchorSubmitKeeps ==
    ASSUME AnchorInv, NEW u \in Urbs, usb_submit_urb(u)
    PROVE  AnchorInv'
  <1> USE DEF AnchorInv
  <1>1. /\ cb = NoUrb /\ own[u] > 0 /\ urb[u] = "idle" /\ u \in ToSet(anchored)
        /\ \/ urb' = [urb EXCEPT ![u] = "queued"] /\ UNCHANGED <<anchored, refs, epc>>
           \/ Unanchor(u) /\ UNCHANGED urb
        /\ UNCHANGED <<own, cb, kpc, kurb>>
    BY DEF usb_submit_urb, Unlocked
  <1>2. CASE urb' = [urb EXCEPT ![u] = "queued"] /\ UNCHANGED <<anchored, refs, epc>>
    <2>1. ToSet(anchored)' = ToSet(anchored) /\ AnchoredOnce' /\ EmptyIsTold'
      BY <1>2, ListFrame
    <2>2. AnchorTypeOK'
      BY <1>1, <1>2 DEF AnchorTypeOK
    <2>3. RefsExact'
      BY <1>1, <1>2, <2>1 DEF RefsExact
    <2>4. own[u] = 1
      BY <1>1 DEF AnchorTypeOK
    <2>5. UsedIsOwned' /\ KillerRight'
      BY <1>1, <1>2, <2>4 DEF UsedIsOwned, KillerRight, AnchorTypeOK
    <2> QED
      BY <2>1, <2>2, <2>3, <2>5
  <1>3. CASE Unanchor(u) /\ UNCHANGED urb
    <2>1. /\ anchored' \in Seq(Urbs)
          /\ ToSet(anchored)' = ToSet(anchored) \ {u}
          /\ AnchoredOnce'
          /\ refs' \in [Urbs -> Int]
          /\ epc' \in {"none", "wait", "awake", "done"} /\ EmptyIsTold' /\ RefsExact'
      BY <1>1, <1>3, UnanchorFacts
    <2>2. AnchorTypeOK'
      BY <1>1, <1>3, <2>1 DEF AnchorTypeOK
    <2>4. UsedIsOwned' /\ KillerRight'
      BY <1>1, <1>3 DEF UsedIsOwned, KillerRight
    <2> QED
      BY <2>1, <2>2, <2>4
  <1> QED
    BY <1>1, <1>2, <1>3

LEMMA AnchorFreeKeeps ==
    ASSUME AnchorInv, NEW u \in Urbs, usb_free_urb(u)
    PROVE  AnchorInv'
  <1> USE DEF AnchorInv
  <1>1. /\ cb = NoUrb /\ own[u] > 0 /\ urb[u] = "idle"
        /\ own' = [own EXCEPT ![u] = 0] /\ refs' = [refs EXCEPT ![u] = @ - 1]
        /\ UNCHANGED <<urb, anchored, cb, kpc, kurb, epc>>
    BY DEF usb_free_urb, Unlocked
  <1>2. ToSet(anchored)' = ToSet(anchored) /\ AnchoredOnce' /\ EmptyIsTold'
    BY <1>1, ListFrame
  <1>3. AnchorTypeOK'
    BY <1>1 DEF AnchorTypeOK
  <1>4. own[u] = 1
    BY <1>1 DEF AnchorTypeOK
  <1>5. RefsExact'
    BY <1>1, <1>2, <1>4 DEF RefsExact, AnchorTypeOK
  <1>6. UsedIsOwned' /\ KillerRight'
    BY <1>1, AnchorAssumption DEF UsedIsOwned, KillerRight, AnchorTypeOK
  <1> QED
    BY <1>2, <1>3, <1>5, <1>6

LEMMA AnchorStartKeeps ==
    ASSUME AnchorInv, NEW u \in Urbs, Start(u)
    PROVE  AnchorInv'
  <1> USE DEF AnchorInv
  <1>1. /\ urb[u] = "queued" /\ urb' = [urb EXCEPT ![u] = "running"]
        /\ UNCHANGED <<refs, own, anchored, cb, kpc, kurb, epc>>
    BY DEF Start
  <1>2. ToSet(anchored)' = ToSet(anchored) /\ AnchoredOnce' /\ EmptyIsTold'
    BY <1>1, ListFrame
  <1>3. AnchorTypeOK' /\ RefsExact'
    BY <1>1, <1>2 DEF AnchorTypeOK, RefsExact
  <1>4. UsedIsOwned' /\ KillerRight'
    BY <1>1 DEF UsedIsOwned, KillerRight, AnchorTypeOK
  <1> QED
    BY <1>2, <1>3, <1>4

LEMMA CallbackKeeps ==
    ASSUME AnchorInv, NEW u \in Urbs, Callback(u)
    PROVE  AnchorInv'
  <1> USE DEF AnchorInv
  <1>1. /\ cb = NoUrb /\ urb[u] = "running" /\ urb' = [urb EXCEPT ![u] = "idle"]
        /\ Unanchor(u) /\ cb' = u /\ UNCHANGED <<own, kpc, kurb>>
    BY DEF Callback, Unlocked
  <1>2. /\ anchored' \in Seq(Urbs)
        /\ ToSet(anchored)' = ToSet(anchored) \ {u}
        /\ AnchoredOnce'
        /\ refs' \in [Urbs -> Int]
        /\ epc' \in {"none", "wait", "awake", "done"} /\ EmptyIsTold' /\ RefsExact'
    BY <1>1, UnanchorFacts
  <1>3. AnchorTypeOK'
    BY <1>1, <1>2 DEF AnchorTypeOK
  <1>4. UsedIsOwned' /\ KillerRight'
    BY <1>1 DEF UsedIsOwned, KillerRight, AnchorTypeOK
  <1> QED
    BY <1>2, <1>3, <1>4

(* usb_kill_anchored_urbs() takes its reference while the anchor has one. *)
LEMMA KillNextKeeps ==
    ASSUME AnchorInv, KillNext
    PROVE  AnchorInv'
  <1> USE DEF AnchorInv
  <1>1. /\ kpc \in {"none", "next"} /\ UNCHANGED <<urb, own, anchored, cb, epc>>
        /\ \/ kpc' = "done" /\ UNCHANGED <<kurb, refs>>
           \/ /\ anchored # <<>> /\ kurb' = Last(anchored)
              /\ refs' = [refs EXCEPT ![kurb'] = @ + 1] /\ kpc' = "kill"
    BY DEF KillNext, Get
  <1>2. ToSet(anchored)' = ToSet(anchored) /\ AnchoredOnce' /\ EmptyIsTold'
    BY <1>1, ListFrame
  <1>3. kurb = NoUrb
    BY <1>1 DEF KillerRight
  <1>4. CASE kpc' = "done" /\ UNCHANGED <<kurb, refs>>
    BY <1>1, <1>2, <1>3, <1>4 DEF AnchorTypeOK, RefsExact, UsedIsOwned, KillerRight
  <1>5. CASE /\ anchored # <<>> /\ kurb' = Last(anchored)
             /\ refs' = [refs EXCEPT ![kurb'] = @ + 1] /\ kpc' = "kill"
    <2>1. kurb' \in Urbs /\ kurb' # NoUrb
      <3>1. Len(anchored) \in 1..Len(anchored) /\ DOMAIN anchored = 1..Len(anchored)
        BY <1>5, EmptySeq, LenProperties DEF AnchorTypeOK
      <3> QED
        BY <1>5, <3>1, ElementOfSeq, AnchorAssumption DEF AnchorTypeOK, Last
    <2>2. AnchorTypeOK'
      BY <1>1, <1>5, <2>1 DEF AnchorTypeOK
    <2>3. RefsExact'
      <3> SUFFICES ASSUME NEW v \in Urbs
                   PROVE  refs'[v] = own'[v] + (IF v \in ToSet(anchored)' THEN 1 ELSE 0)
                                             + (IF v = kurb' THEN 1 ELSE 0)
        BY DEF RefsExact
      <3>1. refs[v] = own[v] + (IF v \in ToSet(anchored) THEN 1 ELSE 0)
        <4> HIDE DEF AnchorInv
        <4>1. refs[v] = own[v] + (IF v \in ToSet(anchored) THEN 1 ELSE 0)
                               + (IF v = kurb THEN 1 ELSE 0)
          <5>1. RefsExact
            BY DEF AnchorInv
          <5> QED
            BY <5>1 DEF RefsExact
        <4>2. own[v] \in Int
          BY DEF AnchorInv, AnchorTypeOK
        <4>3. v # kurb
          BY <1>3, AnchorAssumption
        <4> QED
          BY <4>1, <4>2, <4>3
      <3>2. refs'[v] = IF v = kurb' THEN refs[v] + 1 ELSE refs[v]
        BY <1>5, <2>1 DEF AnchorTypeOK
      <3>3. own[v] \in Int /\ refs[v] \in Int
        BY DEF AnchorTypeOK
      <3> QED
        BY <3>1, <3>2, <3>3, <1>1, <1>2
    <2>4. UsedIsOwned' /\ KillerRight'
      BY <1>1, <1>5, <2>1 DEF UsedIsOwned, KillerRight
    <2> QED
      BY <1>2, <2>2, <2>3, <2>4
  <1> QED
    BY <1>1, <1>4, <1>5

LEMMA KillUrbKeeps ==
    ASSUME AnchorInv, KillUrb
    PROVE  AnchorInv'
  <1> USE DEF AnchorInv
  <1>1. /\ kpc = "kill" /\ kpc' = "put" /\ UNCHANGED <<own, cb, kurb>>
        /\ \/ urb' = [urb EXCEPT ![kurb] = "idle"] /\ Unanchor(kurb)
           \/ UNCHANGED <<urb, anchored, refs, epc>>
    BY DEF KillUrb
  <1>2. kurb \in Urbs
    BY <1>1 DEF KillerRight, AnchorTypeOK
  <1>3. CASE urb' = [urb EXCEPT ![kurb] = "idle"] /\ Unanchor(kurb)
    <2>1. /\ anchored' \in Seq(Urbs)
          /\ ToSet(anchored)' = ToSet(anchored) \ {kurb}
          /\ AnchoredOnce'
          /\ refs' \in [Urbs -> Int]
          /\ epc' \in {"none", "wait", "awake", "done"} /\ EmptyIsTold' /\ RefsExact'
      BY <1>1, <1>2, <1>3, UnanchorFacts
    <2>2. AnchorTypeOK'
      BY <1>1, <1>2, <1>3, <2>1 DEF AnchorTypeOK
    <2>3. UsedIsOwned' /\ KillerRight'
      BY <1>1, <1>2, <1>3 DEF UsedIsOwned, KillerRight, AnchorTypeOK
    <2> QED
      BY <2>1, <2>2, <2>3
  <1>4. CASE UNCHANGED <<urb, anchored, refs, epc>>
    <2>1. ToSet(anchored)' = ToSet(anchored) /\ AnchoredOnce' /\ EmptyIsTold'
      BY <1>4, ListFrame
    <2> QED
      BY <1>1, <1>4, <2>1 DEF AnchorTypeOK, RefsExact, UsedIsOwned, KillerRight
  <1> QED
    BY <1>1, <1>3, <1>4

LEMMA KillPutKeeps ==
    ASSUME AnchorInv, KillPut
    PROVE  AnchorInv'
  <1> USE DEF AnchorInv
  <1>1. /\ kpc = "put" /\ kpc' = "next" /\ kurb' = NoUrb
        /\ refs' = [refs EXCEPT ![kurb] = @ - 1] /\ UNCHANGED <<urb, own, anchored, cb, epc>>
    BY DEF KillPut
  <1>2. kurb \in Urbs
    BY <1>1 DEF KillerRight, AnchorTypeOK
  <1>3. ToSet(anchored)' = ToSet(anchored) /\ AnchoredOnce' /\ EmptyIsTold'
    BY <1>1, ListFrame
  <1>4. AnchorTypeOK'
    BY <1>1, <1>2 DEF AnchorTypeOK
  <1>5. RefsExact'
    <2> SUFFICES ASSUME NEW v \in Urbs
                 PROVE  refs'[v] = own'[v] + (IF v \in ToSet(anchored)' THEN 1 ELSE 0)
                                           + (IF v = kurb' THEN 1 ELSE 0)
      BY DEF RefsExact
    <2>1. refs[v] = own[v] + (IF v \in ToSet(anchored) THEN 1 ELSE 0) + (IF v = kurb THEN 1 ELSE 0)
      BY DEF RefsExact
    <2>2. refs'[v] = IF v = kurb THEN refs[v] - 1 ELSE refs[v]
      BY <1>1, <1>2 DEF AnchorTypeOK
    <2>3. own[v] \in Int /\ refs[v] \in Int /\ v # kurb'
      BY <1>1, AnchorAssumption DEF AnchorTypeOK
    <2>4. CASE v = kurb
      BY <2>1, <2>2, <2>3, <2>4, <1>1, <1>3
    <2>5. CASE v # kurb
      BY <2>1, <2>2, <2>3, <2>5, <1>1, <1>3
    <2> QED
      BY <2>4, <2>5
  <1>6. UsedIsOwned' /\ KillerRight'
    BY <1>1 DEF UsedIsOwned, KillerRight
  <1> QED
    BY <1>3, <1>4, <1>5, <1>6

(* Steps that move nothing but the waiter, or end the callback. *)
LEMMA WaiterKeeps ==
    ASSUME AnchorInv, CallbackEnds \/ WaitEmpty \/ WaitEnds
    PROVE  AnchorInv'
  <1> USE DEF AnchorInv
  <1>1. /\ UNCHANGED <<urb, refs, own, anchored, kpc, kurb>>
        /\ \/ cb' = NoUrb /\ epc' = epc
           \/ cb' = cb /\ (epc' = "done" \/ (epc' = "wait" /\ anchored # <<>>))
    BY DEF CallbackEnds, WaitEmpty, WaitEnds
  <1>2. ToSet(anchored)' = ToSet(anchored) /\ AnchoredOnce'
    BY <1>1 DEF AnchoredOnce
  <1>3. EmptyIsTold'
    BY <1>1 DEF EmptyIsTold
  <1>4. AnchorTypeOK' /\ RefsExact' /\ KillerRight'
    BY <1>1, <1>2 DEF AnchorTypeOK, RefsExact, KillerRight
  <1>5. UsedIsOwned'
    BY <1>1, AnchorAssumption DEF UsedIsOwned
  <1> QED
    BY <1>2, <1>3, <1>4, <1>5

LEMMA AnchorInitInv == AnchorInit => AnchorInv
  <1> SUFFICES ASSUME AnchorInit PROVE AnchorInv
    OBVIOUS
  <1>1. anchored = <<>> /\ anchored \in Seq(Urbs) /\ DOMAIN anchored = {} /\ ToSet(anchored) = {}
    BY DEF AnchorInit, ToSet
  <1>2. AnchorTypeOK
    BY <1>1 DEF AnchorInit, AnchorTypeOK
  <1>3. AnchoredOnce /\ RefsExact
    BY <1>1, AnchorAssumption DEF AnchorInit, AnchoredOnce, RefsExact
  <1>4. UsedIsOwned /\ KillerRight /\ EmptyIsTold
    BY DEF AnchorInit, UsedIsOwned, KillerRight, EmptyIsTold
  <1> QED
    BY <1>2, <1>3, <1>4 DEF AnchorInv

LEMMA AnchorNextInv == AnchorInv /\ [AnchorNext]_anchorVars => AnchorInv'
  <1> SUFFICES ASSUME AnchorInv, [AnchorNext]_anchorVars PROVE AnchorInv'
    OBVIOUS
  <1>1. ASSUME NEW u \in Urbs,
               usb_anchor_urb(u) \/ usb_submit_urb(u) \/ usb_free_urb(u) \/ Start(u) \/ Callback(u)
        PROVE  AnchorInv'
    BY <1>1, AnchorKeeps, AnchorSubmitKeeps, AnchorFreeKeeps, AnchorStartKeeps, CallbackKeeps
  <1>2. CASE Kill
    BY <1>2, KillNextKeeps, KillUrbKeeps, KillPutKeeps DEF Kill
  <1>3. CASE CallbackEnds \/ WaitEmpty \/ WaitEnds
    BY <1>3, WaiterKeeps
  <1>4. CASE UNCHANGED anchorVars
    <2>1. UNCHANGED <<urb, refs, own, anchored, cb, kpc, kurb, epc>>
      BY <1>4 DEF anchorVars
    <2>2. ToSet(anchored)' = ToSet(anchored) /\ AnchoredOnce' /\ EmptyIsTold'
      BY <2>1, ListFrame DEF AnchorInv
    <2> QED
      BY <2>1, <2>2 DEF AnchorInv, AnchorTypeOK, RefsExact, UsedIsOwned, KillerRight
  <1> QED
    BY <1>1, <1>2, <1>3, <1>4 DEF AnchorNext

(* In every behaviour of UsbAnchor an URB is on the anchor once, and the   *)
(* driver's reference is there as long as the URB is used.                 *)
THEOREM AnchorInductive == AnchorSpec => []AnchorInv
  BY AnchorInitInv, AnchorNextInv, PTL DEF AnchorSpec

(* kref of an URB counts the references there are, an URB that anybody     *)
(* works on has not been freed, and who waits for an empty anchor is woken *)
(* when it is empty.                                                       *)
THEOREM Anchors == AnchorSpec => []AnchorExact
  <1>1. AnchorInv => AnchorExact
    <2> SUFFICES ASSUME AnchorInv PROVE AnchorExact
      OBVIOUS
    <2>1. UsedIsAlive
      BY DEF AnchorInv, UsedIsAlive, Alive, RefsExact, UsedIsOwned, AnchorTypeOK
    <2> QED
      BY <2>1 DEF AnchorInv, AnchorExact
  <1> QED
    BY <1>1, AnchorInductive, PTL

-----------------------------------------------------------------------------
LEMMA BeginKeeps ==
    ASSUME EventInv, NEW e \in Evs, Begin(e)
    PROVE  EventInv'
  <1> USE DEF EventInv
  <1>1. EventTypeOK'
    BY DEF Begin, Go, EventTypeOK
  <1>2. OneAtMost'
    BY DEF Begin, Go, OneAtMost
  <1>3. StartedRight'
    BY DEF Begin, Go, EventTypeOK, StartedRight
  <1>4. BeginRight'
    BY DEF Begin, Go, BeginRight
  <1>5. LeaveRight'
    BY DEF Begin, Go, LeaveRight
  <1>6. ThreadRight'
    BY DEF Begin, Go, ThreadRight, NoThread
  <1>7. DeviceRight'
    BY DEF Begin, DeviceRight
  <1>8. ClosedRight'
    BY DEF Begin, ClosedRight
  <1> QED
    BY <1>1, <1>2, <1>3, <1>4, <1>5, <1>6, <1>7, <1>8

LEMMA ProcessKeeps ==
    ASSUME EventInv, NEW e \in Evs, Process(e)
    PROVE  EventInv'
  <1> USE DEF EventInv
  <1>1. EventTypeOK'
    BY DEF Process, Go, EventTypeOK
  <1>2. OneAtMost'
    BY DEF Process, Go, EventTypeOK, OneAtMost
  <1>3. StartedRight'
    BY DEF Process, Go, EventTypeOK, StartedRight
  <1>4. BeginRight'
    BY DEF Process, Go, EventTypeOK, BeginRight
  <1>5. LeaveRight'
    BY DEF Process, Go, EventTypeOK, LeaveRight
  <1>6. ThreadRight'
    BY DEF Process, Go, EventTypeOK, ThreadRight, NoThread
  <1>7. DeviceRight'
    BY DEF Process, DeviceRight
  <1>8. ClosedRight'
    BY DEF Process, ClosedRight
  <1> QED
    BY <1>1, <1>2, <1>3, <1>4, <1>5, <1>6, <1>7, <1>8

LEMMA CheckGoneKeeps ==
    ASSUME EventInv, NEW e \in Evs, CheckGone(e)
    PROVE  EventInv'
  <1> USE DEF EventInv
  <1>1. EventTypeOK'
    BY DEF CheckGone, EventTypeOK
  <1>2. OneAtMost'
    BY DEF CheckGone, EventTypeOK, OneAtMost
  <1>3. StartedRight'
    BY DEF CheckGone, EventTypeOK, StartedRight
  <1>4. BeginRight'
    BY DEF CheckGone, EventTypeOK, BeginRight
  <1>5. LeaveRight'
    BY DEF CheckGone, EventTypeOK, LeaveRight
  <1>6. ThreadRight'
    BY DEF CheckGone, EventTypeOK, ThreadRight, NoThread
  <1>7. DeviceRight'
    BY DEF CheckGone, EventTypeOK, DeviceRight
  <1>8. ClosedRight'
    BY DEF CheckGone, EventTypeOK, ClosedRight
  <1> QED
    BY <1>1, <1>2, <1>3, <1>4, <1>5, <1>6, <1>7, <1>8

LEMMA SleepKeeps ==
    ASSUME EventInv, NEW e \in Evs, Sleep(e)
    PROVE  EventInv'
  <1> USE DEF EventInv
  <1>1. EventTypeOK'
    BY DEF Sleep, Go, EventTypeOK
  <1>2. OneAtMost'
    BY DEF Sleep, Go, OneAtMost
  <1>3. StartedRight'
    BY DEF Sleep, Go, StartedRight
  <1>4. BeginRight'
    BY DEF Sleep, Go, BeginRight
  <1>5. LeaveRight'
    BY DEF Sleep, Go, LeaveRight
  <1>6. ThreadRight'
    BY DEF Sleep, Go, ThreadRight, NoThread
  <1>7. DeviceRight'
    BY DEF Sleep, DeviceRight
  <1>8. ClosedRight'
    BY DEF Sleep, ClosedRight
  <1> QED
    BY <1>1, <1>2, <1>3, <1>4, <1>5, <1>6, <1>7, <1>8

LEMMA EventKeeps ==
    ASSUME EventInv, NEW e \in Evs, Event(e)
    PROVE  EventInv'
  <1> USE DEF EventInv
  <1>1. EventTypeOK'
    BY DEF Event, Go, EventTypeOK
  <1>2. OneAtMost'
    BY DEF Event, Go, OneAtMost
  <1>3. StartedRight'
    BY DEF Event, Go, StartedRight
  <1>4. BeginRight'
    BY DEF Event, Go, BeginRight
  <1>5. LeaveRight'
    BY DEF Event, Go, LeaveRight
  <1>6. ThreadRight'
    BY DEF Event, Go, ThreadRight, NoThread
  <1>7. DeviceRight'
    BY DEF Event, DeviceRight
  <1>8. ClosedRight'
    BY DEF Event, ClosedRight
  <1> QED
    BY <1>1, <1>2, <1>3, <1>4, <1>5, <1>6, <1>7, <1>8

LEMMA TestKeeps ==
    ASSUME EventInv, NEW e \in Evs, Test(e)
    PROVE  EventInv'
  <1> USE DEF EventInv
  <1>1. EventTypeOK'
    BY DEF Test, Go, EventTypeOK
  <1>2. OneAtMost'
    BY DEF Test, Go, OneAtMost
  <1>3. StartedRight'
    BY DEF Test, Go, StartedRight
  <1>4. BeginRight'
    BY DEF Test, Go, BeginRight
  <1>5. LeaveRight'
    BY DEF Test, Go, LeaveRight
  <1>6. ThreadRight'
    BY DEF Test, Go, ThreadRight, NoThread
  <1>7. DeviceRight'
    BY DEF Test, DeviceRight
  <1>8. ClosedRight'
    BY DEF Test, ClosedRight
  <1> QED
    BY <1>1, <1>2, <1>3, <1>4, <1>5, <1>6, <1>7, <1>8

LEMMA LeaveKeeps ==
    ASSUME EventInv, NEW e \in Evs, Leave(e)
    PROVE  EventInv'
  <1> USE DEF EventInv
  <1>1. EventTypeOK'
    BY DEF Leave, Go, EventTypeOK
  <1>2. OneAtMost'
    BY DEF Leave, Go, OneAtMost
  <1>3. StartedRight'
    BY DEF Leave, Go, EventTypeOK, OneAtMost, StartedRight
  <1>4. BeginRight'
    BY DEF Leave, Go, BeginRight
  <1>5. LeaveRight'
    BY DEF Leave, Go, LeaveRight
  <1>6. ThreadRight'
    BY DEF Leave, Go, ThreadRight, NoThread, LeaveRight
  <1>7. DeviceRight'
    BY DEF Leave, DeviceRight
  <1>8. ClosedRight'
    BY DEF Leave, ClosedRight
  <1> QED
    BY <1>1, <1>2, <1>3, <1>4, <1>5, <1>6, <1>7, <1>8

LEMMA CreateKeeps ==
    ASSUME EventInv, Create
    PROVE  EventInv'
  <1> USE DEF EventInv
  <1>1. EventTypeOK'
    BY DEF Create, thread, EventTypeOK
  <1>2. OneAtMost'
    BY DEF Create, thread, EventTypeOK, OneAtMost, StartedRight, BeginRight
  <1>3. StartedRight'
    BY DEF Create, thread, EventTypeOK, StartedRight
  <1>4. BeginRight'
    BY DEF Create, thread, BeginRight
  <1>5. LeaveRight'
    BY DEF Create, thread, EventTypeOK, LeaveRight, ThreadRight, NoThread
  <1>6. ThreadRight'
    BY DEF Create, EventTypeOK, ThreadRight, NoThread, StartedRight
  <1>7. DeviceRight'
    BY DEF Create, DeviceRight
  <1>8. ClosedRight'
    BY DEF Create, ClosedRight
  <1> QED
    BY <1>1, <1>2, <1>3, <1>4, <1>5, <1>6, <1>7, <1>8

LEMMA AwaitKeeps ==
    ASSUME EventInv, Await
    PROVE  EventInv'
  <1> USE DEF EventInv
  <1>1. EventTypeOK'
    BY DEF Await, thread, EventTypeOK
  <1>2. OneAtMost'
    BY DEF Await, thread, OneAtMost
  <1>3. StartedRight'
    BY DEF Await, thread, StartedRight
  <1>4. BeginRight'
    BY DEF Await, thread, BeginRight, OneAtMost, StartedRight
  <1>5. LeaveRight'
    BY DEF Await, thread, LeaveRight
  <1>6. ThreadRight'
    BY DEF Await, thread, ThreadRight, NoThread
  <1>7. DeviceRight'
    BY DEF Await, DeviceRight
  <1>8. ClosedRight'
    BY DEF Await, ClosedRight
  <1> QED
    BY <1>1, <1>2, <1>3, <1>4, <1>5, <1>6, <1>7, <1>8

LEMMA SetInterfaceKeeps ==
    ASSUME EventInv, usb_set_interface
    PROVE  EventInv'
  <1> USE DEF EventInv
  <1>1. EventTypeOK'
    BY DEF usb_set_interface, thread, EventTypeOK
  <1>2. OneAtMost'
    BY DEF usb_set_interface, thread, OneAtMost
  <1>3. StartedRight'
    BY DEF usb_set_interface, thread, StartedRight
  <1>4. BeginRight'
    BY DEF usb_set_interface, thread, BeginRight
  <1>5. LeaveRight'
    BY DEF usb_set_interface, thread, LeaveRight
  <1>6. ThreadRight'
    BY DEF usb_set_interface, ThreadRight
  <1>7. DeviceRight'
    BY DEF usb_set_interface, DeviceRight
  <1>8. ClosedRight'
    BY DEF usb_set_interface, Affected, EventTypeOK, ClosedRight
  <1> QED
    BY <1>1, <1>2, <1>3, <1>4, <1>5, <1>6, <1>7, <1>8

LEMMA DetachKeeps ==
    ASSUME EventInv, usb_linux_detach
    PROVE  EventInv'
  <1> USE DEF EventInv
  <1>1. EventTypeOK'
    BY DEF usb_linux_detach, thread, EventTypeOK
  <1>2. OneAtMost'
    BY DEF usb_linux_detach, thread, OneAtMost
  <1>3. StartedRight'
    BY DEF usb_linux_detach, thread, StartedRight
  <1>4. BeginRight'
    BY DEF usb_linux_detach, thread, BeginRight
  <1>5. LeaveRight'
    BY DEF usb_linux_detach, thread, LeaveRight
  <1>6. ThreadRight'
    BY DEF usb_linux_detach, ThreadRight
  <1>7. DeviceRight'
    BY DEF usb_linux_detach, DeviceRight
  <1>8. ClosedRight'
    BY DEF usb_linux_detach, ClosedRight
  <1> QED
    BY <1>1, <1>2, <1>3, <1>4, <1>5, <1>6, <1>7, <1>8

LEMMA CloseKeeps ==
    ASSUME EventInv, CleanupClose
    PROVE  EventInv'
  <1> USE DEF EventInv
  <1>1. EventTypeOK'
    BY DEF CleanupClose, thread, EventTypeOK
  <1>2. OneAtMost'
    BY DEF CleanupClose, thread, OneAtMost
  <1>3. StartedRight'
    BY DEF CleanupClose, thread, StartedRight
  <1>4. BeginRight'
    BY DEF CleanupClose, thread, BeginRight
  <1>5. LeaveRight'
    BY DEF CleanupClose, thread, LeaveRight
  <1>6. ThreadRight'
    BY DEF CleanupClose, ThreadRight
  <1>7. DeviceRight'
    BY DEF CleanupClose, DeviceRight
  <1>8. ClosedRight'
    BY DEF CleanupClose, ClosedRight
  <1> QED
    BY <1>1, <1>2, <1>3, <1>4, <1>5, <1>6, <1>7, <1>8

LEMMA StopKeeps ==
    ASSUME EventInv, CleanupStop
    PROVE  EventInv'
  <1> USE DEF EventInv
  <1>1. EventTypeOK'
    BY DEF CleanupStop, thread, Signalled, EventTypeOK
  <1>2. OneAtMost'
    BY DEF CleanupStop, thread, Signalled, OneAtMost
  <1>3. StartedRight'
    BY DEF CleanupStop, thread, Signalled, StartedRight
  <1>4. BeginRight'
    BY DEF CleanupStop, thread, Signalled, BeginRight
  <1>5. LeaveRight'
    BY DEF CleanupStop, thread, LeaveRight
  <1>6. ThreadRight'
    BY DEF CleanupStop, thread, ThreadRight, NoThread, StartedRight, BeginRight
  <1>7. DeviceRight'
    BY DEF CleanupStop, DeviceRight
  <1>8. ClosedRight'
    BY DEF CleanupStop, ClosedRight
  <1> QED
    BY <1>1, <1>2, <1>3, <1>4, <1>5, <1>6, <1>7, <1>8

LEMMA SetAltKeeps ==
    ASSUME EventInv, SetAlt
    PROVE  EventInv'
  <1> USE DEF EventInv
  <1>1. EventTypeOK'
    BY DEF SetAlt, thread, EventTypeOK
  <1>2. OneAtMost'
    BY DEF SetAlt, thread, OneAtMost
  <1>3. StartedRight'
    BY DEF SetAlt, thread, StartedRight
  <1>4. BeginRight'
    BY DEF SetAlt, thread, BeginRight
  <1>5. LeaveRight'
    BY DEF SetAlt, thread, LeaveRight
  <1>6. ThreadRight'
    BY DEF SetAlt, thread, ThreadRight, NoThread
  <1>7. DeviceRight'
    BY DEF SetAlt, DeviceRight
  <1>8. ClosedRight'
    BY DEF SetAlt, ClosedRight
  <1> QED
    BY <1>1, <1>2, <1>3, <1>4, <1>5, <1>6, <1>7, <1>8

LEMMA ShutKeeps ==
    ASSUME EventInv, Shut
    PROVE  EventInv'
  <1> USE DEF EventInv
  <1>1. EventTypeOK'
    BY DEF Shut, thread, EventTypeOK
  <1>2. OneAtMost'
    BY DEF Shut, thread, OneAtMost
  <1>3. StartedRight'
    BY DEF Shut, thread, StartedRight
  <1>4. BeginRight'
    BY DEF Shut, thread, BeginRight
  <1>5. LeaveRight'
    BY DEF Shut, thread, LeaveRight
  <1>6. ThreadRight'
    BY DEF Shut, thread, ThreadRight, NoThread
  <1>7. DeviceRight'
    BY DEF Shut, DeviceRight
  <1>8. ClosedRight'
    BY DEF Shut, ClosedRight
  <1> QED
    BY <1>1, <1>2, <1>3, <1>4, <1>5, <1>6, <1>7, <1>8

LEMMA FreeDeviceKeeps ==
    ASSUME EventInv, usb_linux_free_device
    PROVE  EventInv'
  <1> USE DEF EventInv
  <1>1. EventTypeOK'
    BY DEF usb_linux_free_device, EventTypeOK
  <1>2. OneAtMost'
    BY DEF usb_linux_free_device, OneAtMost
  <1>3. StartedRight'
    BY DEF usb_linux_free_device, StartedRight, ThreadRight, NoThread
  <1>4. BeginRight'
    BY DEF usb_linux_free_device, BeginRight
  <1>5. LeaveRight'
    BY DEF usb_linux_free_device, LeaveRight, ThreadRight, NoThread
  <1>6. ThreadRight'
    BY DEF usb_linux_free_device, ThreadRight, NoThread
  <1>7. DeviceRight'
    BY DEF usb_linux_free_device, EventTypeOK, DeviceRight
  <1>8. ClosedRight'
    BY DEF usb_linux_free_device, EventTypeOK, ClosedRight
  <1> QED
    BY <1>1, <1>2, <1>3, <1>4, <1>5, <1>6, <1>7, <1>8

LEMMA EventSubmitKeeps ==
    ASSUME EventInv, Submit
    PROVE  EventInv'
  <1> USE DEF EventInv
  <1>1. EventTypeOK'
    BY DEF Submit, thread, EventTypeOK
  <1>2. OneAtMost'
    BY DEF Submit, thread, OneAtMost
  <1>3. StartedRight'
    BY DEF Submit, thread, StartedRight
  <1>4. BeginRight'
    BY DEF Submit, thread, BeginRight
  <1>5. LeaveRight'
    BY DEF Submit, thread, LeaveRight
  <1>6. ThreadRight'
    BY DEF Submit, thread, ThreadRight, NoThread
  <1>7. DeviceRight'
    BY DEF Submit, DeviceRight
  <1>8. ClosedRight'
    BY DEF Submit, ClosedRight
  <1> QED
    BY <1>1, <1>2, <1>3, <1>4, <1>5, <1>6, <1>7, <1>8

LEMMA UnplugKeeps ==
    ASSUME EventInv, Unplug
    PROVE  EventInv'
  <1> USE DEF EventInv
  <1>1. EventTypeOK'
    BY DEF Unplug, thread, EventTypeOK
  <1>2. OneAtMost'
    BY DEF Unplug, thread, OneAtMost
  <1>3. StartedRight'
    BY DEF Unplug, thread, StartedRight
  <1>4. BeginRight'
    BY DEF Unplug, thread, BeginRight
  <1>5. LeaveRight'
    BY DEF Unplug, thread, LeaveRight
  <1>6. ThreadRight'
    BY DEF Unplug, thread, ThreadRight, NoThread
  <1>7. DeviceRight'
    BY DEF Unplug, DeviceRight
  <1>8. ClosedRight'
    BY DEF Unplug, ClosedRight
  <1> QED
    BY <1>1, <1>2, <1>3, <1>4, <1>5, <1>6, <1>7, <1>8

LEMMA EventInitInv == EventInit => EventInv
  <1> SUFFICES ASSUME EventInit PROVE EventInv
    OBVIOUS
  <1>1. EventTypeOK
    BY DEF EventInit, EventTypeOK
  <1>2. OneAtMost /\ StartedRight /\ BeginRight /\ LeaveRight /\ ThreadRight
    BY DEF EventInit, OneAtMost, StartedRight, BeginRight, LeaveRight, ThreadRight, NoThread
  <1>3. DeviceRight /\ ClosedRight
    BY DEF EventInit, DeviceRight, ClosedRight
  <1> QED
    BY <1>1, <1>2, <1>3 DEF EventInv

LEMMA EventNextInv == EventInv /\ [EventNext]_eventVars => EventInv'
  <1> SUFFICES ASSUME EventInv, [EventNext]_eventVars PROVE EventInv'
    OBVIOUS
  <1>1. CASE Driver
    BY <1>1, CreateKeeps, AwaitKeeps, CloseKeeps, StopKeeps, SetAltKeeps, ShutKeeps, FreeDeviceKeeps
       DEF Driver
  <1>2. CASE usb_set_interface \/ usb_linux_detach \/ Submit \/ Unplug
    BY <1>2, SetInterfaceKeeps, DetachKeeps, EventSubmitKeeps, UnplugKeeps
  <1>3. ASSUME NEW e \in Evs, EvStep(e) \/ Event(e) PROVE EventInv'
    BY <1>3, BeginKeeps, ProcessKeeps, CheckGoneKeeps, SleepKeeps, TestKeeps, LeaveKeeps, EventKeeps
       DEF EvStep
  <1>4. CASE UNCHANGED eventVars
    BY <1>4 DEF eventVars, EventInv, EventTypeOK, OneAtMost, StartedRight, BeginRight, LeaveRight,
                ThreadRight, NoThread, DeviceRight, ClosedRight
  <1> QED
    BY <1>1, <1>2, <1>3, <1>4 DEF EventNext

(* In every behaviour of UsbEventThread thread_started says whether a      *)
(* thread is there, and no thread is there when another is created, when   *)
(* the alternate setting changes and when the device is closed.            *)
THEOREM EventInductive == EventSpec => []EventInv
  BY EventInitInv, EventNextInv, PTL DEF EventSpec

(* There is never a second event thread, between the calls there is one    *)
(* that serves events, and none is at the device, nor is a transfer of the *)
(* old setting open, while the alternate setting changes or once the       *)
(* device is closed.                                                       *)
THEOREM Events == EventSpec => []EventsSafe
  <1>1. EventInv => EventsSafe
    <2> SUFFICES ASSUME EventInv PROVE EventsSafe
      OBVIOUS
    <2>1. OneEventThread
      <3> DEFINE S == {e \in Evs : ev[e] # "none"}
      <3>1. CASE S = {}
        BY <3>1, FS_EmptySet DEF OneEventThread
      <3>2. CASE S # {}
        <4>1. PICK e \in S : TRUE
          BY <3>2
        <4>2. S = {e}
          BY <4>1 DEF EventInv, OneAtMost
        <4> QED
          BY <4>2, FS_Singleton DEF OneEventThread
      <3> QED
        BY <3>1, <3>2
    <2>2. EventsServed
      BY DEF EventInv, EventsServed, InLoop, ThreadRight, NoThread, StartedRight, BeginRight, LeaveRight
    <2>3. AloneAtDevice
      BY DEF EventInv, AloneAtDevice, InLoop, ThreadRight, NoThread, DeviceRight
    <2>4. AltKillsAll
      BY DEF EventInv, AltKillsAll, ClosedRight
    <2> QED
      BY <2>1, <2>2, <2>3, <2>4 DEF EventsSafe
  <1> QED
    BY <1>1, EventInductive, PTL

(***************************************************************************)
(* 4. The search for device, interface and driver.                         *)
(***************************************************************************)
(* Some natural numbers have a least one. *)
LEMMA HasLeast ==
    ASSUME NEW S \in SUBSET Nat, S # {}
    PROVE  \E x \in S : \A y \in S : x <= y
  <1> DEFINE R == OpToRel(<, Nat)
  <1>1. \E x \in S : \A y \in S : ~(<<y, x>> \in R)
    <2>1. IsWellFoundedOn(R, Nat)
      BY NatLessThanWellFounded
    <2> HIDE DEF R
    <2> QED
      BY <2>1, WFMin
  <1>2. \A x, y \in Nat : ~(<<y, x>> \in R) => x <= y
    BY DEF OpToRel
  <1> QED
    BY <1>1, <1>2

LEMMA LeastRight ==
    ASSUME NEW S \in SUBSET Nat, S # {}
    PROVE  Min(S) \in S /\ \A y \in S : Min(S) <= y
  BY HasLeast DEF Min

LEMMA MostRight ==
    ASSUME NEW n \in Nat, NEW S, S \subseteq 1..n, S # {}
    PROVE  Max(S) \in S /\ \A y \in S : Max(S) >= y
  <1> DEFINE T == {n - y : y \in S}
  <1>0. \A y \in S : y \in Int /\ n - y \in Nat
    OBVIOUS
  <1>1. T \in SUBSET Nat /\ T # {}
    BY <1>0
  <1>2. PICK t \in T : \A u \in T : t <= u
    BY <1>1, HasLeast
  <1>3. PICK x \in S : t = n - x
    OBVIOUS
  <1>4. ASSUME NEW y \in S PROVE x >= y
    <2>1. t <= n - y
      BY <1>2
    <2> QED
      BY <2>1, <1>0, <1>3
  <1> QED
    BY <1>4 DEF Max

(* Of some places in a row no two have equally many before them. *)
LEMMA CountsDiffer ==
    ASSUME NEW S, IsFiniteSet(S), S \subseteq Nat, NEW m \in S, NEW n \in S,
           Cardinality({x \in S : x < m}) = Cardinality({x \in S : x < n})
    PROVE  m = n
  <1>1. ASSUME NEW j \in S, NEW k \in S, j < k
        PROVE  Cardinality({x \in S : x < j}) # Cardinality({x \in S : x < k})
    <2> DEFINE J == {x \in S : x < j}
               K == {x \in S : x < k}
    <2>0. \A x \in S : x \in Nat
      OBVIOUS
    <2>1. IsFiniteSet(K) /\ J \subseteq K /\ j \in K /\ j \notin J
      <3>1. IsFiniteSet(K)
        BY FS_Subset
      <3>2. ASSUME NEW x \in S, x < j PROVE x < k
        BY <3>2, <2>0, <1>1
      <3>3. ~(j < j)
        BY <2>0
      <3> QED
        BY <3>1, <3>2, <3>3, <1>1
    <2> HIDE DEF J, K
    <2>2. J # K
      BY <2>1
    <2>3. Cardinality(J) # Cardinality(K)
      BY <2>1, <2>2, FS_Subset
    <2> QED
      BY <2>3 DEF J, K
  <1>2. m \in Nat /\ n \in Nat
    OBVIOUS
  <1>3. m < n \/ n < m \/ m = n
    BY <1>2
  <1> QED
    BY <1>1, <1>3

-----------------------------------------------------------------------------
(* First() finds the first entry that fits, if none before it ends the     *)
(* table.                                                                  *)
LEMMA FirstRight ==
    ASSUME NEW table, NEW fits, Len(table) \in Nat
    PROVE  LET n == First(table, fits) IN
           /\ n \in 0..Len(table)
           /\ n # 0 => table[n].flags # {} /\ table[n] \in fits
           /\ \A m \in 1..n - 1 : table[m] \notin fits
  <1> DEFINE I == {m \in 1..Len(table) : table[m].flags = {} \/ table[m] \in fits}
             k == IF I # {} THEN Min(I) ELSE 0
  <1>1. First(table, fits) = IF k = 0 \/ table[k].flags = {} THEN 0 ELSE k
    BY DEF First, SelectInSeq
  <1>2. I # {} => k \in I /\ \A y \in I : k <= y
    <2>1. I \in SUBSET Nat
      OBVIOUS
    <2> HIDE DEF I
    <2> QED
      BY <2>1, LeastRight
  <1> HIDE DEF k
  <1>3. ASSUME k # 0 PROVE k \in I /\ \A y \in I : k <= y
    BY <1>2, <1>3 DEF k
  <1> QED
    BY <1>1, <1>3

(* The conditions of the attach code and of usb_match_one_id() are the     *)
(* same.                                                                   *)
LEMMA SameCondition ==
    ASSUME NEW dev, NEW int, NEW id,
           dev["bcdDevice"] \in Nat, id["DEV_LO"] \in Nat, id["DEV_HI"] \in Nat
    PROVE  usb_match_one_id(dev, int, id)
           <=> /\ \A f \in id.flags \cap DeviceFlags : id[f] = dev[f]
               /\ "DEV_LO" \in id.flags => id["DEV_LO"] <= dev["bcdDevice"]
               /\ "DEV_HI" \in id.flags => id["DEV_HI"] >= dev["bcdDevice"]
               /\ VendorRule(dev, id)
               /\ \A f \in id.flags \cap IntInfo : id[f] = int[f]
  <1>1. usb_match_device(dev, id)
        <=> /\ \A f \in id.flags \cap DeviceFlags : id[f] = dev[f]
            /\ "DEV_LO" \in id.flags => id["DEV_LO"] <= dev["bcdDevice"]
            /\ "DEV_HI" \in id.flags => id["DEV_HI"] >= dev["bcdDevice"]
    <2> DEFINE Differs(f) == CASE f = "DEV_LO" -> id[f] > dev["bcdDevice"]
                               [] f = "DEV_HI" -> id[f] < dev["bcdDevice"]
                               [] f \in DeviceFlags -> id[f] # dev[f]
                               [] OTHER -> FALSE
    <2>1. Differs("DEV_LO") <=> id["DEV_LO"] > dev["bcdDevice"]
      BY DEF DeviceFlags
    <2>2. Differs("DEV_HI") <=> id["DEV_HI"] < dev["bcdDevice"]
      BY DEF DeviceFlags
    <2>3. ASSUME NEW f \in DeviceFlags PROVE Differs(f) <=> id[f] # dev[f]
      BY <2>3 DEF DeviceFlags
    <2>4. ASSUME NEW f, f \notin DeviceFlags \cup {"DEV_LO", "DEV_HI"} PROVE ~Differs(f)
      BY <2>4
    <2>5. usb_match_device(dev, id) <=> ~\E f \in id.flags : Differs(f)
      BY DEF usb_match_device
    <2> HIDE DEF Differs
    <2> QED
      BY <2>1, <2>2, <2>3, <2>4, <2>5
  <1> QED
    BY <1>1 DEF usb_match_one_id, VendorRule

(* A driver that looks itself up finds the entry by which it was attached. *)
(* The last entry of the table has no driver_info, or the driver was found *)
(* before it.                                                              *)
THEOREM Matchers ==
    ASSUME NEW dev, NEW int, NEW table, Len(table) \in Nat, DOMAIN table = 1..Len(table),
           dev["bcdDevice"] \in Nat,
           \A id \in ToSet(table) : id["DEV_LO"] \in Nat /\ id["DEV_HI"] \in Nat,
           \/ \A id \in ToSet(table) : id.flags = {} => id.driver_info = 0
           \/ usb_linux_lookup_id(dev, int, table) # 0
    PROVE  MatchersAgree(dev, int, table)
  <1> DEFINE fits == {id \in ToSet(table) : usb_match_one_id(dev, int, id)}
             n == First(table, fits)
             E == {m \in 1..Len(table) : table[m].flags = {}}
             e == IF E # {} THEN Min(E) ELSE 0
  <1>1. usb_linux_lookup_id(dev, int, table) = n
    <2> DEFINE Fits(id) ==
            /\ \A f \in id.flags \cap DeviceFlags : id[f] = dev[f]
            /\ "DEV_LO" \in id.flags => id["DEV_LO"] <= dev["bcdDevice"]
            /\ "DEV_HI" \in id.flags => id["DEV_HI"] >= dev["bcdDevice"]
            /\ VendorRule(dev, id)
            /\ \A f \in id.flags \cap IntInfo : id[f] = int[f]
    <2>1. usb_linux_lookup_id(dev, int, table) = First(table, {id \in ToSet(table) : Fits(id)})
      BY DEF usb_linux_lookup_id
    <2>2. \A id \in ToSet(table) : Fits(id) <=> usb_match_one_id(dev, int, id)
      BY SameCondition
    <2> HIDE DEF Fits
    <2>3. {id \in ToSet(table) : Fits(id)} = fits
      BY <2>2
    <2> QED
      BY <2>1, <2>3
  <1>2. /\ n \in 0..Len(table)
        /\ n # 0 => table[n].flags # {} /\ table[n] \in fits
        /\ \A m \in 1..n - 1 : table[m] \notin fits
    BY FirstRight
  <1>3. usb_match_id(dev, int, table)
            = IF n # 0 THEN n ELSE IF e # 0 /\ table[e].driver_info # 0 THEN e ELSE 0
    BY DEF usb_match_id, SelectInSeq
  <1>4. e # 0 => e \in E
    <2>0. E \in SUBSET Nat
      OBVIOUS
    <2> HIDE DEF E
    <2>1. E # {} => Min(E) \in E
      BY <2>0, LeastRight
    <2> QED
      BY <2>1
  <1> HIDE DEF n, e
  <1>5. usb_match_id(dev, int, table) = n
    BY <1>1, <1>3, <1>4 DEF ToSet
  <1>6. \A m \in 1..n - 1 : table[m] \in ToSet(table)
    BY <1>2 DEF ToSet
  <1> QED
    BY <1>1, <1>2, <1>5, <1>6 DEF MatchersAgree

-----------------------------------------------------------------------------
(* The strings of a device. *)
LEMMA FilteredRight ==
    ASSUME NEW s \in Seq(STRING)
    PROVE  string_filter(s) # <<>>
  <1> DEFINE t == [n \in 1..Len(s) |-> IF s[n] = "." THEN "-" ELSE s[n]]
             keep == {n \in 1..Len(t) : t[n] # "-"}
  <1>1. string_filter(s) = IF keep = {} THEN Unknown ELSE SubSeq(t, Min(keep), Max(keep))
    BY DEF string_filter
  <1> DEFINE T == {t[n] : n \in 1..Len(s)}
  <1>2. t \in Seq(T) /\ Len(t) \in Nat
    <2>1. Len(s) \in Nat /\ t \in [1..Len(s) -> T]
      OBVIOUS
    <2> HIDE DEF t, T
    <2> QED
      BY <2>1
  <1>3. CASE keep = {}
    BY <1>1, <1>3 DEF Unknown
  <1>4. CASE keep # {}
    <2> HIDE DEF t, T
    <2>1. keep \in SUBSET Nat /\ keep \subseteq 1..Len(t)
      BY <1>2
    <2> HIDE DEF keep
    <2>2. Min(keep) \in keep /\ Max(keep) \in keep /\ Max(keep) >= Min(keep)
      BY <2>1, <1>2, <1>4, LeastRight, MostRight
    <2> DEFINE a == Min(keep)
               b == Max(keep)
    <2>3. a \in 1..Len(t) /\ b \in 1..Len(t) /\ a <= b
      BY <2>1, <2>2, <1>2
    <2> HIDE DEF a, b
    <2>4. Len(SubSeq(t, a, b)) = (b - a) + 1
      BY <2>3, <1>2, SubSeqProperties
    <2>5. Len(SubSeq(t, a, b)) # 0
      BY <2>3, <2>4, <1>2
    <2>6. Len(<<>>) = 0
      OBVIOUS
    <2>7. SubSeq(t, a, b) # <<>>
      BY <2>5, <2>6
    <2> QED
      BY <2>7, <1>1, <1>4 DEF a, b
  <1> QED
    BY <1>3, <1>4

(* The line that -l prints for a device selects this device. *)
LEMMA ListedRight ==
    ASSUME NEW o \in Options, o.want # 0
    PROVE  o.want \in Hosts /\ find_devices(o) = o.want /\ o.name # <<>>
  <1> DEFINE d == o.want
  <1>1. /\ d \in Hosts /\ o.name = Txt(d) /\ o.ser = Ser(d)
        /\ o.match = match_num(d) /\ o.addr = 0
    BY ProbeAssumption
  <1>2. /\ Hosts \subseteq Nat /\ 0 \notin Hosts /\ IsFiniteSet(Hosts)
    <2>1. Hosts \subseteq 1..Len(Bus) /\ Len(Bus) \in Nat
      BY ProbeAssumption DEF Hosts
    <2>2. IsFiniteSet(1..Len(Bus))
      BY <2>1, FS_Interval
    <2>3. IsFiniteSet(Hosts)
      BY <2>1, <2>2, FS_Subset
    <2> QED
      BY <2>1, <2>3
  <1>3. Txt(d) # <<>> /\ Ser(d) # <<>>
    BY <1>1, FilteredRight, ProbeAssumption DEF Txt, Ser
  <1> DEFINE S == {n \in Hosts : Txt(n) = Txt(d) /\ Ser(n) = Ser(d)}
  <1>4. Selected(o) = S
    BY <1>1, <1>3 DEF Selected, Selects
  <1>5. {m \in S : m < d} = {n \in Hosts : n < d /\ Txt(n) = Txt(d) /\ Ser(n) = Ser(d)}
    OBVIOUS
  <1>6. d \in Matched(o)
    BY <1>1, <1>4, <1>5 DEF Matched, match_num
  <1>7. ASSUME NEW n \in Matched(o) PROVE n = d
    <2>1. n \in S /\ d \in S /\ Cardinality({m \in S : m < n}) = Cardinality({m \in S : m < d})
      BY <1>4, <1>6 DEF Matched
    <2>2. S \subseteq Nat /\ IsFiniteSet(S)
      BY <1>2, FS_Subset
    <2> HIDE DEF S, d
    <2>3. \A j, k \in S : Cardinality({x \in S : x < j}) = Cardinality({x \in S : x < k}) => j = k
      BY <2>2, CountsDiffer
    <2> QED
      BY <2>1, <2>3
  <1> QED
    BY <1>1, <1>3, <1>6, <1>7 DEF find_devices

(* What find_devices() returns is a device. *)
LEMMA FindRight ==
    ASSUME NEW o, find_devices(o) # 0
    PROVE  find_devices(o) \in Hosts
  BY DEF find_devices, Matched, Selected

-----------------------------------------------------------------------------
(* The invariant. *)
Stages == {"start", "nomatch", "selected", "daemon", "running", "nodevice",
           "probe", "attached", "gaveup", "ended"}
OptionRecords == [unit : Nat, addr : Nat, index : Nat, name : Seq(STRING), ser : Seq(STRING),
                  match : Nat, fork : BOOLEAN, want : {0} \cup Hosts]
Softcs == [dev : Nat, ui : Nat, udrv : Drivers \cup {0}, id : Nat]

ProbeTypeOK ==
    /\ drivers \in Seq(Drivers)
    /\ opt \in [Procs -> OptionRecords] /\ at \in [Procs -> Stages]
    /\ pid \in [Procs -> {NoPid} \cup (Nat \X Nat \X Nat)]
    /\ sc \in [Procs -> Softcs] /\ first \in [Procs -> Nat]
    /\ tried \in [Procs -> SUBSET (Drivers \X Nat)]

(* A driver is on the list once. *)
DriversOnce == \A m, n \in DOMAIN drivers : drivers[m] = drivers[n] => m = n

(* No two processes have the same pid file. *)
PidOnce == \A p, q \in Procs : pid[p] # NoPid /\ pid[p] = pid[q] => p = q

(* Nothing is chosen before the options are read. *)
NotStarted(p) == at[p] = "start" => opt[p] = NoOpt

(* A process has a pid file from the fork or the scan on, under the key of *)
(* its own command line if that gives the address.                         *)
KeyOf(p) == <<opt[p].unit, opt[p].addr, opt[p].index>>
PidRight(p) ==
    /\ at[p] \in {"start", "selected"} => pid[p] = NoPid
    /\ at[p] = "daemon" => pid[p] = KeyOf(p)
    /\ Busy(p) => pid[p] # NoPid /\ (opt[p].addr # 0 => pid[p] = KeyOf(p))

(* What is handed to probe(). *)
ScRight(p) ==
    Busy(p) =>
        /\ sc[p].dev \in Hosts /\ sc[p].ui \in InterfacesOf(sc[p].dev)
        /\ sc[p].udrv \in ToSet(drivers)
        /\ sc[p].id # 0 /\ sc[p].id = Lookup(sc[p].dev, sc[p].ui, sc[p].udrv)
        /\ opt[p].addr # 0 => Given(opt[p], sc[p].dev)

(* The first choice is the interface that the index of -i counts to. *)
Counted(d) == {ui \in InterfacesOf(d) : DriverAt(d, ui) # 0}
FirstCounted(p) ==
    Busy(p) /\ opt[p].addr # 0 =>
        /\ first[p] \in Counted(sc[p].dev)
        /\ Cardinality({ui \in Counted(sc[p].dev) : ui < first[p]}) = opt[p].index

(* What lies between the first choice and the present one was tried. *)
TriedRight(p) ==
    Busy(p) /\ opt[p].addr # 0 =>
        \A n \in DOMAIN drivers, ui \in InterfacesOf(sc[p].dev) :
            (/\ Lookup(sc[p].dev, ui, drivers[n]) # 0
             /\ ~Before(<<n, ui>>, FirstPlace(p, sc[p].dev))
             /\ Before(<<n, ui>>, <<PlaceOf(sc[p].udrv), sc[p].ui>>))
                => <<drivers[n], ui>> \in tried[p]

(* TriedAll and ListedIsSelected of one process. *)
AllTried(p) ==
    at[p] = "gaveup" /\ opt[p].addr # 0 =>
        \E d \in Hosts :
            /\ Given(opt[p], d) /\ first[p] \in InterfacesOf(d) /\ DriverAt(d, first[p]) # 0
            /\ \A n \in DOMAIN drivers, ui \in InterfacesOf(d) :
                   Lookup(d, ui, drivers[n]) # 0 /\ ~Before(<<n, ui>>, FirstPlace(p, d))
                       => <<drivers[n], ui>> \in tried[p]
ListedOf(p) ==
    opt[p].want # 0 /\ at[p] # "start" => at[p] # "nomatch" /\ Given(opt[p], opt[p].want)

ProcRight(p) ==
    /\ NotStarted(p) /\ PidRight(p) /\ ScRight(p) /\ FirstCounted(p) /\ TriedRight(p)
    /\ AllTried(p) /\ ListedOf(p)

ProbeInv == ProbeTypeOK /\ DriversOnce /\ PidOnce /\ \A p \in Procs : ProcRight(p)

LEMMA LookupType ==
    ASSUME NEW d, NEW ui, NEW drv \in Drivers
    PROVE  Lookup(d, ui, drv) \in Nat
  <1>1. Len(Tables[drv]) \in Nat
    BY ProbeAssumption
  <1>2. usb_linux_lookup_id(Bus[d], Bus[d].ifaces[ui], Tables[drv]) \in Nat
    BY <1>1, FirstRight DEF usb_linux_lookup_id
  <1> QED
    BY <1>2 DEF Lookup

LEMMA DriverAtRight ==
    ASSUME drivers \in Seq(Drivers), NEW d, NEW ui
    PROVE  /\ DriverAt(d, ui) \in 0..Len(drivers)
           /\ DriverAt(d, ui) # 0 => Lookup(d, ui, DriverFor(d, ui)) # 0
  <1> DEFINE I == {n \in 1..Len(drivers) : Lookup(d, ui, drivers[n]) # 0}
  <1>1. DriverAt(d, ui) = IF I # {} THEN Min(I) ELSE 0
    BY DEF DriverAt, SelectInSeq
  <1>2. I \in SUBSET Nat
    OBVIOUS
  <1> HIDE DEF I
  <1>3. I # {} => Min(I) \in I
    BY <1>2, LeastRight
  <1> QED
    BY <1>1, <1>3 DEF I, DriverFor

LEMMA PlaceRight ==
    ASSUME drivers \in Seq(Drivers), DriversOnce, NEW n \in DOMAIN drivers
    PROVE  PlaceOf(drivers[n]) = n
  <1> DEFINE I == {m \in 1..Len(drivers) : drivers[m] = drivers[n]}
  <1>1. I = {n}
    BY DEF DriversOnce
  <1>2. PlaceOf(drivers[n]) = IF I # {} THEN Min(I) ELSE 0
    BY DEF PlaceOf, SelectInSeq
  <1>3. n \in Nat
    OBVIOUS
  <1> HIDE DEF I
  <1>4. Min(I) \in I
    BY <1>1, <1>3, LeastRight
  <1> QED
    BY <1>1, <1>2, <1>4

-----------------------------------------------------------------------------
(* Steps of a process leave the list of drivers and the other processes    *)
(* alone.                                                                  *)
LEMMA SameDrivers ==
    ASSUME drivers' = drivers
    PROVE  /\ \A d, ui : DriverAt(d, ui)' = DriverAt(d, ui)
           /\ \A d : Counted(d)' = Counted(d)
           /\ \A drv : PlaceOf(drv)' = PlaceOf(drv)
  <1>1. \A d, ui : DriverAt(d, ui)' = DriverAt(d, ui)
    BY DEF DriverAt, SelectInSeq
  <1>2. \A drv : PlaceOf(drv)' = PlaceOf(drv)
    BY DEF PlaceOf, SelectInSeq
  <1> QED
    BY <1>1, <1>2 DEF Counted

Alone(p) ==
    \A q \in Procs \ {p} : /\ opt'[q] = opt[q] /\ at'[q] = at[q] /\ pid'[q] = pid[q]
                           /\ sc'[q] = sc[q] /\ first'[q] = first[q] /\ tried'[q] = tried[q]

LEMMA OthersKeep ==
    ASSUME NEW q \in Procs, ProcRight(q), drivers' = drivers,
           opt'[q] = opt[q], at'[q] = at[q], pid'[q] = pid[q],
           sc'[q] = sc[q], first'[q] = first[q], tried'[q] = tried[q]
    PROVE  ProcRight(q)'
  <1>1. NotStarted(q)' /\ PidRight(q)' /\ ListedOf(q)'
    BY DEF ProcRight, NotStarted, PidRight, ListedOf, KeyOf, Busy, Given
  <1>2. ScRight(q)'
    BY DEF ProcRight, ScRight, Busy, Given
  <1>3. FirstCounted(q)'
    BY SameDrivers DEF ProcRight, FirstCounted, Busy
  <1>4. TriedRight(q)'
    BY SameDrivers DEF ProcRight, TriedRight, Busy, FirstPlace
  <1>5. AllTried(q)'
    BY SameDrivers DEF ProcRight, AllTried, FirstPlace, Given
  <1> QED
    BY <1>1, <1>2, <1>3, <1>4, <1>5 DEF ProcRight

LEMMA StepKeeps ==
    ASSUME ProbeInv, NEW p \in Procs, drivers' = drivers, Alone(p),
           ProbeTypeOK', PidOnce', ProcRight(p)'
    PROVE  ProbeInv'
  <1>1. ASSUME NEW q \in Procs PROVE ProcRight(q)'
    <2>1. CASE q = p
      BY <2>1
    <2>2. CASE q # p
      BY <2>2, OthersKeep DEF ProbeInv, Alone
    <2> QED
      BY <2>1, <2>2
  <1>2. DriversOnce'
    BY DEF ProbeInv, DriversOnce
  <1> QED
    BY <1>1, <1>2 DEF ProbeInv

(* A process that is neither probing nor has given up. *)
LEMMA AsideRight ==
    ASSUME NEW p \in Procs, at'[p] \in Stages \ {"start", "probe", "attached", "gaveup"},
           at'[p] = "selected" => pid'[p] = NoPid,
           at'[p] = "daemon" => pid'[p] = KeyOf(p)',
           ListedOf(p)'
    PROVE  ProcRight(p)'
  BY DEF ProcRight, NotStarted, PidRight, ScRight, FirstCounted, TriedRight, AllTried, Busy

(* Processes that lose their pid file, or create one that nobody has. *)
LEMMA PidStep ==
    ASSUME ProbeInv, NEW p \in Procs, NEW key,
           \/ pid' = pid
           \/ pid' = [pid EXCEPT ![p] = NoPid]
           \/ pid' = [pid EXCEPT ![p] = key] /\ \A q \in Procs : pid[q] # key
    PROVE  PidOnce'
  <1>1. pid \in [Procs -> {NoPid} \cup (Nat \X Nat \X Nat)]
    BY DEF ProbeInv, ProbeTypeOK
  <1> QED
    BY <1>1, Zenon DEF ProbeInv, PidOnce

LEMMA MainKeeps == ASSUME ProbeInv, NEW p \in Procs, Main(p) PROVE ProbeInv'
  <1> USE DEF ProbeInv
  <1>1. PICK o \in Options :
            LET d == find_devices(o) IN
            \/ /\ o.name # <<>> \/ o.ser # <<>>
               /\ d = 0 /\ Exit(p, "nomatch") /\ opt' = [opt EXCEPT ![p] = o]
            \/ /\ o.name # <<>> \/ o.ser # <<>>
               /\ d # 0
               /\ opt' = [opt EXCEPT ![p] = [o EXCEPT !.unit = Bus[d].bus, !.addr = Bus[d].addr]]
               /\ at' = [at EXCEPT ![p] = "selected"] /\ UNCHANGED pid
            \/ /\ o.name = <<>> /\ o.ser = <<>>
               /\ opt' = [opt EXCEPT ![p] = o] /\ at' = [at EXCEPT ![p] = "selected"]
               /\ UNCHANGED pid
    BY DEF Main
  <1> DEFINE d == find_devices(o)
             new == [o EXCEPT !.unit = Bus[d].bus, !.addr = Bus[d].addr]
  <1>2. /\ at[p] = "start" /\ drivers' = drivers /\ sc' = sc /\ first' = first /\ tried' = tried
    BY DEF Main
  <1>3. o \in OptionRecords
    BY ProbeAssumption DEF OptionRecords
  <1>4. d # 0 => d \in Hosts /\ Bus[d].bus \in Nat /\ Bus[d].addr \in Nat
    BY FindRight, ProbeAssumption
  <1> HIDE DEF d
  <1>5. d # 0 => new \in OptionRecords
    BY <1>3, <1>4 DEF OptionRecords
  <1>6. pid[p] = NoPid /\ pid \in [Procs -> {NoPid} \cup (Nat \X Nat \X Nat)]
        /\ at \in [Procs -> Stages] /\ opt \in [Procs -> OptionRecords]
    BY <1>2 DEF ProcRight, PidRight, ProbeTypeOK
  <1>7. /\ at'[p] \in {"nomatch", "selected"} /\ pid' = pid
        /\ at' \in [Procs -> Stages] /\ opt' \in [Procs -> OptionRecords]
        /\ opt'[p] = o \/ (d # 0 /\ opt'[p] = new /\ at'[p] = "selected")
        /\ Alone(p)
    <2>1. pid' = pid
      BY <1>1, <1>6 DEF Exit
    <2>2. CASE o.name = <<>> /\ o.ser = <<>>
      BY <2>1, <2>2, <1>1, <1>2, <1>3, <1>6 DEF Alone, Stages
    <2>3. CASE d = 0 /\ at' = [at EXCEPT ![p] = "nomatch"] /\ opt' = [opt EXCEPT ![p] = o]
      BY <2>1, <2>3, <1>2, <1>3, <1>6 DEF Alone, Stages
    <2>4. CASE /\ d # 0 /\ opt' = [opt EXCEPT ![p] = new] /\ at' = [at EXCEPT ![p] = "selected"]
      BY <2>1, <2>4, <1>2, <1>5, <1>6 DEF Alone, Stages
    <2> QED
      BY <2>2, <2>3, <2>4, <1>1 DEF d, Exit
  <1>8. ProbeTypeOK'
    BY <1>2, <1>7 DEF ProbeTypeOK
  <1>9. ListedOf(p)'
    <2>1. CASE o.want = 0
      BY <2>1, <1>3, <1>7 DEF ListedOf, OptionRecords
    <2>2. CASE o.want # 0
      <3>1. o.want \in Hosts /\ d = o.want /\ o.name # <<>>
        BY <2>2, ListedRight DEF d
      <3>2. opt'[p] = new /\ at'[p] = "selected"
        BY <3>1, <2>2, <1>1, <1>6 DEF d
      <3>3. new.unit = Bus[d].bus /\ new.addr = Bus[d].addr /\ new.want = d
        BY <3>1, <1>3 DEF OptionRecords
      <3> QED
        BY <3>2, <3>3 DEF ListedOf, Given
    <2> QED
      BY <2>1, <2>2
  <1>10. PidOnce'
    BY <1>7 DEF PidOnce
  <1>11. ProcRight(p)'
    BY <1>6, <1>7, <1>9, AsideRight DEF Stages
  <1> QED
    BY <1>2, <1>7, <1>8, <1>10, <1>11, StepKeeps

LEMMA BackgroundKeeps == ASSUME ProbeInv, NEW p \in Procs, Background(p) PROVE ProbeInv'
  <1> USE DEF ProbeInv
  <1>1. /\ at[p] = "selected" /\ drivers' = drivers /\ opt' = opt
        /\ sc' = sc /\ first' = first /\ tried' = tried
    BY DEF Background
  <1>2. pid[p] = NoPid /\ KeyOf(p) \in Nat \X Nat \X Nat
    BY <1>1 DEF ProcRight, PidRight, ProbeTypeOK, OptionRecords, KeyOf
  <1>3. pid \in [Procs -> {NoPid} \cup (Nat \X Nat \X Nat)] /\ at \in [Procs -> Stages]
    BY DEF ProbeTypeOK
  <1>4. \/ /\ \A q \in Procs : pid[q] # KeyOf(p)
           /\ pid' = [pid EXCEPT ![p] = KeyOf(p)] /\ at' = [at EXCEPT ![p] = "daemon"]
        \/ pid' = [pid EXCEPT ![p] = NoPid] /\ at' = [at EXCEPT ![p] = "running"]
    BY <1>2 DEF Background, Pidfile, Taken, Exit, KeyOf
  <1>5. PidOnce'
    BY <1>4, PidStep
  <1>6. ProbeTypeOK'
    BY <1>1, <1>2, <1>3, <1>4 DEF ProbeTypeOK, Stages
  <1>7. Alone(p)
    BY <1>1, <1>3, <1>4 DEF Alone
  <1>8. ListedOf(p)'
    BY <1>1, <1>3, <1>4 DEF ProcRight, ListedOf, Given
  <1>9. ProcRight(p)'
    <2>1. KeyOf(p)' = KeyOf(p)
      BY <1>1 DEF KeyOf
    <2>2. \/ at'[p] = "daemon" /\ pid'[p] = KeyOf(p)
          \/ at'[p] = "running"
      BY <1>3, <1>4
    <2> QED
      BY <2>1, <2>2, <1>8, AsideRight DEF Stages
  <1> QED
    BY <1>1, <1>5, <1>6, <1>7, <1>9, StepKeeps

(* A process that exits for any of the reasons but the last two. *)
LEMMA ExitKeeps ==
    ASSUME ProbeInv, NEW p \in Procs, at[p] # "start",
           NEW why \in {"running", "nodevice", "ended"}, Exit(p, why),
           drivers' = drivers, opt' = opt, sc' \in [Procs -> Softcs],
           \A q \in Procs \ {p} : sc'[q] = sc[q], first' = first, tried' = tried
    PROVE  ProbeInv'
  <1> USE DEF ProbeInv
  <1>1. pid \in [Procs -> {NoPid} \cup (Nat \X Nat \X Nat)] /\ at \in [Procs -> Stages]
    BY DEF ProbeTypeOK
  <1>2. pid' = [pid EXCEPT ![p] = NoPid] /\ at' = [at EXCEPT ![p] = why]
    BY DEF Exit
  <1>3. PidOnce'
    BY <1>2, PidStep
  <1>4. ProbeTypeOK'
    BY <1>1, <1>2 DEF ProbeTypeOK, Stages
  <1>5. Alone(p)
    BY <1>1, <1>2 DEF Alone
  <1>6. ListedOf(p)'
    BY <1>1, <1>2 DEF ProcRight, ListedOf, Given
  <1>7. ProcRight(p)'
    BY <1>1, <1>2, <1>6, AsideRight DEF Stages
  <1> QED
    BY <1>3, <1>4, <1>5, <1>7, StepKeeps

LEMMA EndKeeps == ASSUME ProbeInv, NEW p \in Procs, End(p) PROVE ProbeInv'
  <1>1. sc \in [Procs -> Softcs] /\ NoSc \in Softcs
    BY DEF ProbeInv, ProbeTypeOK, Softcs, NoSc
  <1>2. sc' \in [Procs -> Softcs] /\ \A q \in Procs \ {p} : sc'[q] = sc[q]
    BY <1>1 DEF End
  <1> QED
    BY <1>2, ExitKeeps DEF End

LEMMA ProbeOkKeeps == ASSUME ProbeInv, NEW p \in Procs, ProbeOk(p) PROVE ProbeInv'
  <1> USE DEF ProbeInv
  <1>1. /\ at[p] = "probe" /\ at' = [at EXCEPT ![p] = "attached"] /\ drivers' = drivers
        /\ opt' = opt /\ pid' = pid /\ sc' = sc /\ first' = first /\ tried' = tried
    BY DEF ProbeOk
  <1>2. at \in [Procs -> Stages]
    BY DEF ProbeTypeOK
  <1>3. ProbeTypeOK' /\ PidOnce' /\ Alone(p)
    BY <1>1, <1>2 DEF ProbeTypeOK, Stages, PidOnce, Alone
  <1>4. at'[p] = "attached" /\ Busy(p) /\ Busy(p)'
    BY <1>1, <1>2 DEF Busy
  <1>5. NotStarted(p)' /\ PidRight(p)' /\ ListedOf(p)' /\ AllTried(p)'
    BY <1>1, <1>4 DEF ProcRight, NotStarted, PidRight, ListedOf, AllTried, KeyOf, Given
  <1>6. ScRight(p)'
    BY <1>1, <1>4 DEF ProcRight, ScRight, Given
  <1>7. FirstCounted(p)'
    BY <1>1, <1>4, SameDrivers DEF ProcRight, FirstCounted
  <1>8. TriedRight(p)'
    BY <1>1, <1>4, SameDrivers DEF ProcRight, TriedRight, FirstPlace
  <1> QED
    BY <1>1, <1>3, <1>5, <1>6, <1>7, <1>8, StepKeeps DEF ProcRight

-----------------------------------------------------------------------------
(* The scan. *)

(* Of a device given by its address the scan counts the interfaces that    *)
(* have a driver.                                                          *)
LEMMA PassedRight ==
    ASSUME drivers \in Seq(Drivers), NEW o, o.addr # 0, NEW opens \in SUBSET Hosts,
           NEW c \in Candidates(o, opens)
    PROVE  /\ c[2] \in Counted(c[1])
           /\ Passed(c, Candidates(o, opens)) = Cardinality({ui \in Counted(c[1]) : ui < c[2]})
  <1> DEFINE C == Candidates(o, opens)
             d == c[1]
             I == {ui \in Counted(d) : ui < c[2]}
             E == {e \in C : Before(e, c)}
             f == [ui \in I |-> <<d, ui>>]
  <1>1. \A e \in C : /\ e = <<e[1], e[2]>> /\ e[1] \in opens /\ e[2] \in InterfacesOf(e[1])
                     /\ Given(o, e[1]) /\ DriverAt(e[1], e[2]) # 0
    BY DEF Candidates
  <1>2. \A e \in C : e[1] = d
    <2>1. \A e \in C : Bus[e[1]].bus = Bus[d].bus /\ Bus[e[1]].addr = Bus[d].addr
      BY <1>1 DEF Given
    <2>2. \A e \in C : e[1] \in Hosts
      BY <1>1
    <2>3. \A a, b \in Hosts : Bus[a].bus = Bus[b].bus /\ Bus[a].addr = Bus[b].addr => a = b
      BY ProbeAssumption
    <2> QED
      BY <2>1, <2>2, <2>3
  <1>3. \A ui \in Counted(d) : <<d, ui>> \in C
    BY <1>1 DEF Candidates, Counted
  <1>4. /\ d \in Hosts /\ d \in Nat /\ InterfacesOf(d) = 1..Len(Bus[d].ifaces)
        /\ Len(Bus[d].ifaces) \in Nat
    BY <1>1, ProbeAssumption DEF Hosts
  <1> HIDE DEF C, d
  <1>5. \A ui \in Nat : Before(<<d, ui>>, c) <=> ui < c[2]
    BY <1>4 DEF Before, d
  <1>6. I \subseteq 1..Len(Bus[d].ifaces)
    BY <1>4 DEF Counted
  <1>7. f \in Bijection(I, E)
    <2>1. \A ui \in I : <<d, ui>> \in E
      BY <1>3, <1>5, <1>6, <1>4
    <2>2. ASSUME NEW e \in E PROVE \E ui \in I : <<d, ui>> = e
      <3>1. e = <<d, e[2]>> /\ e[2] \in Counted(d)
        BY <1>1, <1>2 DEF Counted
      <3>2. e[2] \in Nat
        BY <3>1, <1>4 DEF Counted
      <3> QED
        BY <3>1, <3>2, <1>5
    <2>3. f \in [I -> E] /\ \A ui \in I : f[ui] = <<d, ui>>
      BY <2>1
    <2> HIDE DEF I, E, f
    <2>4. \A ui, j \in I : f[ui] = f[j] => ui = j
      BY <2>3
    <2>5. \A e \in E : \E ui \in I : f[ui] = e
      BY <2>2, <2>3
    <2> QED
      BY <2>3, <2>4, <2>5 DEF Bijection, Injection, Surjection, IsInjective
  <1>8. IsFiniteSet(I)
    <2>1. IsFiniteSet(1..Len(Bus[d].ifaces))
      BY <1>4, FS_Interval
    <2> HIDE DEF I
    <2> QED
      BY <2>1, <1>6, FS_Subset
  <1>9. Cardinality(E) = Cardinality(I)
    <2> HIDE DEF I, E, f
    <2>1. ExistsBijection(I, E)
      BY <1>7 DEF ExistsBijection
    <2> QED
      BY <2>1, <1>8, FS_Bijection
  <1>10. c[2] \in Counted(d)
    BY <1>1 DEF Counted, C, d
  <1> QED
    BY <1>9, <1>10 DEF Passed, C, d

(* What the scan chooses is a device that it may take, one of its          *)
(* interfaces, and the first driver that knows it.                         *)
LEMMA CandidateRight ==
    ASSUME drivers \in Seq(Drivers), NEW o, NEW opens \in SUBSET Hosts,
           NEW c \in Candidates(o, opens)
    PROVE  LET s == Choice(c[1], c[2], DriverFor(c[1], c[2])) IN
           /\ s \in Softcs /\ s.dev = c[1] /\ s.ui = c[2] /\ s.udrv = DriverFor(c[1], c[2])
           /\ DriverAt(c[1], c[2]) \in DOMAIN drivers
           /\ s.dev \in Hosts /\ s.ui \in InterfacesOf(s.dev) /\ s.udrv \in ToSet(drivers)
           /\ s.id # 0 /\ s.id = Lookup(s.dev, s.ui, s.udrv)
           /\ o.addr # 0 => Given(o, s.dev)
  <1> DEFINE drv == DriverFor(c[1], c[2])
  <1>1. /\ c[1] \in Hosts /\ c[2] \in InterfacesOf(c[1]) /\ DriverAt(c[1], c[2]) # 0
        /\ o.addr # 0 => Given(o, c[1])
    BY DEF Candidates
  <1>2. /\ DriverAt(c[1], c[2]) \in 1..Len(drivers) /\ Lookup(c[1], c[2], drv) # 0
    BY <1>1, DriverAtRight
  <1>3. drv \in Drivers /\ drv \in ToSet(drivers) /\ DriverAt(c[1], c[2]) \in DOMAIN drivers
    BY <1>2 DEF DriverFor, ToSet
  <1>4. c[1] \in Nat /\ c[2] \in Nat
    BY <1>1, ProbeAssumption DEF Hosts
  <1> HIDE DEF drv
  <1>5. Lookup(c[1], c[2], drv) \in Nat
    BY <1>3, LookupType
  <1> QED
    BY <1>1, <1>2, <1>3, <1>4, <1>5 DEF Choice, Softcs, drv

LEMMA ScanKeeps == ASSUME ProbeInv, NEW p \in Procs, Scan(p) PROVE ProbeInv'
  <1> USE DEF ProbeInv
  <1>1. /\ at[p] \in {"daemon", "selected"} /\ drivers' = drivers /\ opt' = opt /\ tried' = tried
    BY DEF Scan
  <1>2. PICK opens \in SUBSET Hosts : TakeFrom(p, Candidates(opt[p], opens))
    BY DEF Scan
  <1>3. /\ pid \in [Procs -> {NoPid} \cup (Nat \X Nat \X Nat)] /\ at \in [Procs -> Stages]
        /\ sc \in [Procs -> Softcs] /\ first \in [Procs -> Nat] /\ drivers \in Seq(Drivers)
        /\ opt \in [Procs -> OptionRecords]
    BY DEF ProbeTypeOK
  <1>4. ASSUME NEW why \in {"running", "nodevice"}, Exit(p, why), sc' = sc, first' = first
        PROVE  ProbeInv'
    BY <1>1, <1>3, <1>4, ExitKeeps
  <1>5. ASSUME NEW c \in Candidates(opt[p], opens), NEW s,
               s = Choice(c[1], c[2], DriverFor(c[1], c[2])),
               Passed(c, Candidates(opt[p], opens)) = Skip(opt[p]),
               Pidfile(p, PidKey(p, s)), sc' = [sc EXCEPT ![p] = s],
               first' = [first EXCEPT ![p] = s.ui], at' = [at EXCEPT ![p] = "probe"]
        PROVE  ProbeInv'
    <2> DEFINE o == opt[p]
    <2>1. /\ s \in Softcs /\ s.dev = c[1] /\ s.ui = c[2] /\ s.udrv = DriverFor(c[1], c[2])
          /\ DriverAt(c[1], c[2]) \in DOMAIN drivers
          /\ s.dev \in Hosts /\ s.ui \in InterfacesOf(s.dev) /\ s.udrv \in ToSet(drivers)
          /\ s.id # 0 /\ s.id = Lookup(s.dev, s.ui, s.udrv)
          /\ o.addr # 0 => Given(o, s.dev)
      BY <1>3, <1>5, CandidateRight
    <2>2. at'[p] = "probe" /\ sc'[p] = s /\ first'[p] = s.ui /\ opt'[p] = o /\ Busy(p)'
      BY <1>1, <1>3, <1>5 DEF Busy
    <2>3. o \in OptionRecords /\ s.ui \in Nat
      BY <1>3, <2>1 DEF Softcs
    <2>4. PidKey(p, s) \in Nat \X Nat \X Nat /\ PidKey(p, s) # NoPid /\ KeyOf(p) # NoPid
      <3>1. Bus[s.dev].bus \in Nat /\ Bus[s.dev].addr \in Nat /\ Skip(o) \in Nat
        BY <2>1, <2>3, ProbeAssumption DEF Skip, OptionRecords
      <3>2. \A x, y, z : <<x, y, z>> # NoPid
        BY DEF NoPid
      <3> QED
        BY <3>1, <3>2 DEF PidKey, KeyOf
    <2>5. o.addr # 0 => PidKey(p, s) = KeyOf(p)
      BY <2>1 DEF PidKey, KeyOf, Given, Skip
    <2>6. \/ pid[p] = KeyOf(p) /\ pid' = pid
          \/ /\ \A q \in Procs : pid[q] # PidKey(p, s)
             /\ pid' = [pid EXCEPT ![p] = PidKey(p, s)]
      BY <1>1, <1>5, <2>4 DEF Pidfile, ProcRight, PidRight
    <2>7. PidOnce'
      BY <2>6, PidStep
    <2>8. ProbeTypeOK'
      BY <1>1, <1>3, <1>5, <2>1, <2>3, <2>4, <2>6 DEF ProbeTypeOK, Stages
    <2>9. Alone(p)
      BY <1>1, <1>3, <1>5, <2>6 DEF Alone
    <2>10. PidRight(p)'
      <3>1. KeyOf(p)' = KeyOf(p)
        BY <1>1 DEF KeyOf
      <3>2. pid'[p] \in {KeyOf(p), PidKey(p, s)} /\ (o.addr # 0 => pid'[p] = KeyOf(p))
        BY <1>3, <2>5, <2>6
      <3> QED
        BY <3>1, <3>2, <2>2, <2>4 DEF PidRight
    <2>11. NotStarted(p)' /\ AllTried(p)' /\ ListedOf(p)'
      BY <1>1, <2>2 DEF ProcRight, NotStarted, AllTried, ListedOf, Given
    <2>12. ScRight(p)'
      BY <1>1, <2>1, <2>2 DEF ScRight, Given
    <2>13. FirstCounted(p)'
      <3>1. CASE o.addr = 0
        BY <3>1, <2>2 DEF FirstCounted
      <3>2. CASE o.addr # 0
        <4>1. /\ c[2] \in Counted(c[1])
              /\ Passed(c, Candidates(o, opens)) = Cardinality({ui \in Counted(c[1]) : ui < c[2]})
          BY <3>2, <1>3, PassedRight
        <4>2. Skip(o) = o.index
          BY <3>2 DEF Skip
        <4> QED
          BY <4>1, <4>2, <1>1, <1>5, <2>1, <2>2, SameDrivers DEF FirstCounted
      <3> QED
        BY <3>1, <3>2
    <2>14. TriedRight(p)'
      <3>1. PlaceOf(s.udrv) = DriverAt(s.dev, s.ui)
        BY <2>1, <1>3, PlaceRight DEF DriverFor
      <3>2. FirstPlace(p, sc[p].dev)' = <<PlaceOf(sc[p].udrv), sc[p].ui>>'
        BY <3>1, <2>2, <1>1, SameDrivers DEF FirstPlace
      <3> QED
        BY <3>2 DEF TriedRight
    <2> QED
      BY <1>1, <2>7, <2>8, <2>9, <2>10, <2>11, <2>12, <2>13, <2>14, StepKeeps DEF ProcRight
  <1> QED
    BY <1>2, <1>4, <1>5 DEF TakeFrom, Take

-----------------------------------------------------------------------------
(* The next choice after a failed probe(). *)
LEMMA LeastPair ==
    ASSUME NEW S, S # {}, S \subseteq Nat \X Nat
    PROVE  \E e \in S : \A f \in S : ~Before(f, e)
  <1> DEFINE N == {e[1] : e \in S}
  <1>1. \A e \in S : e[1] \in Nat /\ e[2] \in Nat
    OBVIOUS
  <1>2. PICK n \in N : \A m \in N : n <= m
    <2>1. N \in SUBSET Nat /\ N # {}
      BY <1>1
    <2> HIDE DEF N
    <2> QED
      BY <2>1, HasLeast
  <1> DEFINE I == {e[2] : e \in {x \in S : x[1] = n}}
  <1>3. PICK ui \in I : \A j \in I : ui <= j
    <2>1. I \in SUBSET Nat /\ I # {}
      BY <1>1, <1>2
    <2> HIDE DEF I
    <2> QED
      BY <2>1, HasLeast
  <1>4. PICK e \in S : e[1] = n /\ e[2] = ui
    BY <1>3
  <1>5. ASSUME NEW f \in S, Before(f, e) PROVE FALSE
    <2>1. n <= f[1] /\ n \in Nat /\ f[1] \in Nat /\ f[2] \in Nat
      BY <1>1, <1>2, <1>4
    <2>2. f[1] = n /\ f[2] < ui
      BY <2>1, <1>4, <1>5 DEF Before
    <2>3. f[2] \in I
      BY <2>2
    <2> QED
      BY <2>1, <2>2, <2>3, <1>1, <1>3, <1>4
  <1> QED
    BY <1>5

LEMMA FollowingRight ==
    ASSUME drivers \in Seq(Drivers), NEW c, c.dev \in Hosts
    PROVE  \/ Left(c) = {} /\ Following(c) = NoSc
           \/ \E n \in DOMAIN drivers, ui \in InterfacesOf(c.dev) :
                  /\ <<n, ui>> \in Left(c) /\ \A f \in Left(c) : ~Before(f, <<n, ui>>)
                  /\ Following(c) = Choice(c.dev, ui, drivers[n])
  <1> DEFINE least == CHOOSE e \in Left(c) : \A f \in Left(c) : ~Before(f, e)
  <1>1. CASE Left(c) = {}
    BY <1>1 DEF Following
  <1>2. CASE Left(c) # {}
    <2>1. /\ Left(c) \subseteq (DOMAIN drivers) \X InterfacesOf(c.dev)
          /\ DOMAIN drivers \subseteq Nat /\ InterfacesOf(c.dev) \subseteq Nat
      <3>1. Len(Bus[c.dev].ifaces) \in Nat /\ InterfacesOf(c.dev) = 1..Len(Bus[c.dev].ifaces)
        BY ProbeAssumption
      <3>2. DOMAIN drivers = 1..Len(drivers) /\ Len(drivers) \in Nat
        OBVIOUS
      <3> QED
        BY <3>1, <3>2 DEF Left
    <2>2. \E e \in Left(c) : \A f \in Left(c) : ~Before(f, e)
      <3>1. Left(c) \subseteq Nat \X Nat
        BY <2>1
      <3> QED
        BY <3>1, <1>2, LeastPair
    <2>3. least \in Left(c) /\ \A f \in Left(c) : ~Before(f, least)
      BY <2>2
    <2>4. Following(c) = Choice(c.dev, least[2], drivers[least[1]])
      BY <1>2 DEF Following
    <2> HIDE DEF least
    <2>5. /\ least = <<least[1], least[2]>>
          /\ least[1] \in DOMAIN drivers /\ least[2] \in InterfacesOf(c.dev)
      BY <2>1, <2>3
    <2> QED
      BY <2>3, <2>4, <2>5
  <1> QED
    BY <1>1, <1>2

LEMMA ProbeFailsKeeps == ASSUME ProbeInv, NEW p \in Procs, ProbeFails(p) PROVE ProbeInv'
  <1> USE DEF ProbeInv
  <1> DEFINE s == sc[p]
             place == <<PlaceOf(s.udrv), s.ui>>
  <1>1. /\ at[p] = "probe" /\ Busy(p) /\ drivers' = drivers /\ opt' = opt /\ first' = first
        /\ tried' = [tried EXCEPT ![p] = @ \cup {<<s.udrv, s.ui>>}]
        /\ sc' = [sc EXCEPT ![p] = Following(s)]
        /\ Following(s) = NoSc => Exit(p, "gaveup")
        /\ Following(s) # NoSc => at' = at /\ pid' = pid
    BY DEF ProbeFails, NextChoice, Busy
  <1>2. /\ pid \in [Procs -> {NoPid} \cup (Nat \X Nat \X Nat)] /\ at \in [Procs -> Stages]
        /\ sc \in [Procs -> Softcs] /\ first \in [Procs -> Nat] /\ drivers \in Seq(Drivers)
        /\ tried \in [Procs -> SUBSET (Drivers \X Nat)]
    BY DEF ProbeTypeOK
  <1>3. /\ s.dev \in Hosts /\ s.ui \in InterfacesOf(s.dev) /\ s.udrv \in ToSet(drivers)
        /\ s.id # 0 /\ s.id = Lookup(s.dev, s.ui, s.udrv)
        /\ opt[p].addr # 0 => Given(opt[p], s.dev)
    BY <1>1 DEF ProcRight, ScRight
  <1>4. /\ PlaceOf(s.udrv) \in DOMAIN drivers /\ drivers[PlaceOf(s.udrv)] = s.udrv
    <2>1. PICK n \in DOMAIN drivers : drivers[n] = s.udrv
      BY <1>3 DEF ToSet
    <2> QED
      BY <2>1, <1>2, PlaceRight
  <1>5. /\ s.udrv \in Drivers /\ s.ui \in Nat /\ s.dev \in Nat
        /\ DOMAIN drivers \subseteq Nat /\ InterfacesOf(s.dev) \subseteq Nat
    <2>1. s.udrv \in Drivers /\ DOMAIN drivers \subseteq Nat
      BY <1>2, <1>4
    <2>2. InterfacesOf(s.dev) = 1..Len(Bus[s.dev].ifaces) /\ Len(Bus[s.dev].ifaces) \in Nat
      BY <1>3, ProbeAssumption
    <2> QED
      BY <2>1, <2>2, <1>2 DEF Softcs
  <1>6. tried' \in [Procs -> SUBSET (Drivers \X Nat)] /\ tried'[p] = tried[p] \cup {<<s.udrv, s.ui>>}
    BY <1>1, <1>2, <1>5
  <1> HIDE DEF s
  <1>7. ASSUME opt[p].addr # 0, NEW n \in DOMAIN drivers, NEW ui \in InterfacesOf(s.dev),
               Lookup(s.dev, ui, drivers[n]) # 0, ~Before(<<n, ui>>, FirstPlace(p, s.dev)),
               <<n, ui>> \notin Left(s)
        PROVE  <<drivers[n], ui>> \in tried'[p]
    <2>1. n \in Nat /\ ui \in Nat /\ PlaceOf(s.udrv) \in Nat /\ s.ui \in Nat
      BY <1>4, <1>5
    <2>2. ~Before(place, <<n, ui>>)
      BY <1>7 DEF Left
    <2>3. Before(<<n, ui>>, place) \/ (n = PlaceOf(s.udrv) /\ ui = s.ui)
      BY <2>1, <2>2 DEF Before
    <2>4. CASE Before(<<n, ui>>, place)
      BY <2>4, <1>1, <1>6, <1>7 DEF ProcRight, TriedRight, s
    <2>5. CASE n = PlaceOf(s.udrv) /\ ui = s.ui
      BY <2>5, <1>4, <1>6
    <2> QED
      BY <2>3, <2>4, <2>5
  <1>8. opt[p].addr # 0 => first[p] \in InterfacesOf(s.dev) /\ DriverAt(s.dev, first[p]) # 0
    BY <1>1 DEF ProcRight, FirstCounted, Counted, s
  <1>9. CASE Left(s) = {} /\ Following(s) = NoSc
    <2>1. /\ at' = [at EXCEPT ![p] = "gaveup"] /\ pid' = [pid EXCEPT ![p] = NoPid]
          /\ sc' = [sc EXCEPT ![p] = NoSc]
      BY <1>1, <1>9 DEF Exit
    <2>2. NoSc \in Softcs
      BY DEF NoSc, Softcs
    <2>3. ProbeTypeOK'
      BY <1>1, <1>2, <1>6, <2>1, <2>2 DEF ProbeTypeOK, Stages
    <2>4. PidOnce'
      BY <2>1, PidStep
    <2>5. Alone(p)
      BY <1>1, <1>2, <2>1 DEF Alone
    <2>6. at'[p] = "gaveup" /\ ~Busy(p)'
      BY <1>2, <2>1 DEF Busy
    <2>7. NotStarted(p)' /\ PidRight(p)' /\ ScRight(p)' /\ FirstCounted(p)' /\ TriedRight(p)'
      BY <2>6 DEF NotStarted, PidRight, ScRight, FirstCounted, TriedRight
    <2>8. ListedOf(p)'
      BY <1>1, <2>6 DEF ProcRight, ListedOf, Given
    <2>9. AllTried(p)'
      <3>1. CASE opt[p].addr = 0
        BY <3>1, <1>1 DEF AllTried
      <3>2. CASE opt[p].addr # 0
        <4>1. PICK d \in Hosts : d = s.dev
          BY <1>3
        <4>2. /\ Given(opt'[p], d) /\ first'[p] \in InterfacesOf(d)
              /\ DriverAt(d, first[p])' # 0 /\ FirstPlace(p, d)' = FirstPlace(p, d)
          BY <4>1, <3>2, <1>1, <1>3, <1>8, SameDrivers DEF FirstPlace
        <4>3. ASSUME NEW n \in DOMAIN drivers, NEW ui \in InterfacesOf(d),
                     Lookup(d, ui, drivers[n]) # 0, ~Before(<<n, ui>>, FirstPlace(p, d))
              PROVE  <<drivers[n], ui>> \in tried'[p]
          BY <4>1, <4>3, <3>2, <1>7, <1>9
        <4> QED
          BY <4>2, <4>3, <1>1 DEF AllTried, Given
      <3> QED
        BY <3>1, <3>2
    <2> QED
      BY <1>1, <2>3, <2>4, <2>5, <2>7, <2>8, <2>9, StepKeeps DEF ProcRight
  <1>10. ASSUME NEW n \in DOMAIN drivers, NEW ui \in InterfacesOf(s.dev),
                <<n, ui>> \in Left(s), \A f \in Left(s) : ~Before(f, <<n, ui>>),
                Following(s) = Choice(s.dev, ui, drivers[n])
         PROVE  ProbeInv'
    <2> DEFINE new == Choice(s.dev, ui, drivers[n])
    <2>1. /\ new.dev = s.dev /\ new.ui = ui /\ new.udrv = drivers[n]
          /\ new.id = Lookup(s.dev, ui, drivers[n]) /\ new.id # 0
      BY <1>10 DEF Choice, Left
    <2>2. drivers[n] \in Drivers /\ drivers[n] \in ToSet(drivers)
      BY <1>2 DEF ToSet
    <2>3. new \in Softcs /\ new # NoSc
      <3>1. Lookup(s.dev, ui, drivers[n]) \in Nat
        BY <2>2, LookupType
      <3>2. new \in Softcs
        BY <3>1, <2>2, <1>5 DEF Choice, Softcs
      <3>3. NoSc.id = 0
        BY DEF NoSc
      <3> QED
        BY <3>2, <3>3, <2>1
    <2> HIDE DEF new
    <2>4. sc' = [sc EXCEPT ![p] = new] /\ at' = at /\ pid' = pid
      BY <1>1, <1>10, <2>3 DEF new
    <2>5. ProbeTypeOK' /\ PidOnce' /\ Alone(p)
      BY <1>1, <1>2, <1>6, <2>3, <2>4 DEF ProbeTypeOK, PidOnce, Alone
    <2>6. sc'[p] = new /\ at'[p] = "probe" /\ Busy(p)'
      BY <1>1, <1>2, <2>4 DEF Busy
    <2>7. NotStarted(p)' /\ PidRight(p)' /\ ListedOf(p)' /\ AllTried(p)'
      BY <1>1, <2>4, <2>6 DEF ProcRight, NotStarted, PidRight, ListedOf, AllTried, KeyOf, Given
    <2>8. ScRight(p)'
      BY <1>1, <1>3, <2>1, <2>2, <2>6 DEF ScRight, Given
    <2>9. FirstCounted(p)'
      BY <1>1, <2>1, <2>6, SameDrivers DEF ProcRight, FirstCounted, s
    <2>10. TriedRight(p)'
      <3>1. CASE opt[p].addr = 0
        BY <3>1, <1>1 DEF TriedRight
      <3>2. CASE opt[p].addr # 0
        <4>1. PlaceOf(sc[p].udrv)' = n
          BY <2>1, <2>6, <1>1, <1>2, PlaceRight, SameDrivers
        <4>2. FirstPlace(p, sc[p].dev)' = FirstPlace(p, s.dev)
          BY <1>1, <2>1, <2>6, SameDrivers DEF FirstPlace
        <4>3. ASSUME NEW m \in DOMAIN drivers, NEW j \in InterfacesOf(s.dev),
                     Lookup(s.dev, j, drivers[m]) # 0, ~Before(<<m, j>>, FirstPlace(p, s.dev)),
                     Before(<<m, j>>, <<n, ui>>)
              PROVE  <<drivers[m], j>> \in tried'[p]
          <5>1. <<m, j>> \notin Left(s)
            BY <4>3, <1>10
          <5> QED
            BY <5>1, <4>3, <3>2, <1>7
        <4> QED
          BY <4>1, <4>2, <4>3, <1>1, <2>1, <2>6 DEF TriedRight
      <3> QED
        BY <3>1, <3>2
    <2> QED
      BY <1>1, <2>5, <2>7, <2>8, <2>9, <2>10, StepKeeps DEF ProcRight
  <1> QED
    BY <1>2, <1>3, <1>9, <1>10, FollowingRight

-----------------------------------------------------------------------------
(* Drivers come and go before the first process reads its options. *)
LEMMA NoneStarted ==
    ASSUME ProbeInv, \A p \in Procs : at[p] = "start",
           opt' = opt, at' = at, pid' = pid, sc' = sc, first' = first, tried' = tried,
           drivers' \in Seq(Drivers), \A m, n \in DOMAIN drivers' : drivers'[m] = drivers'[n] => m = n
    PROVE  ProbeInv'
  <1>1. ProbeTypeOK' /\ DriversOnce' /\ PidOnce'
    BY DEF ProbeInv, ProbeTypeOK, DriversOnce, PidOnce
  <1>2. ASSUME NEW p \in Procs PROVE ProcRight(p)'
    <2>1. NotStarted(p)' /\ PidRight(p)' /\ ListedOf(p)'
      BY DEF ProbeInv, ProcRight, NotStarted, PidRight, ListedOf, KeyOf, Busy
    <2>2. ScRight(p)' /\ FirstCounted(p)' /\ TriedRight(p)' /\ AllTried(p)'
      BY DEF ScRight, FirstCounted, TriedRight, AllTried, Busy
    <2> QED
      BY <2>1, <2>2 DEF ProcRight
  <1> QED
    BY <1>1, <1>2 DEF ProbeInv

LEMMA RegisterKeeps == ASSUME ProbeInv, NEW d \in Drivers, usb_register(d) PROVE ProbeInv'
  <1>1. drivers \in Seq(Drivers) /\ drivers' = <<d>> \o drivers /\ d \notin ToSet(drivers)
    BY DEF usb_register, ProbeInv, ProbeTypeOK
  <1> DEFINE e == <<d>>
  <1>2. e \in Seq(Drivers) /\ Len(e) = 1 /\ e[1] = d
    OBVIOUS
  <1> HIDE DEF e
  <1>3. /\ drivers' \in Seq(Drivers) /\ Len(drivers') = 1 + Len(drivers)
        /\ \A n \in 1..(1 + Len(drivers)) :
              drivers'[n] = IF n <= 1 THEN e[n] ELSE drivers[n - 1]
    BY <1>1, <1>2, ConcatProperties DEF e
  <1>4. Len(drivers) \in Nat /\ DOMAIN drivers = 1..Len(drivers) /\ DOMAIN drivers' = 1..Len(drivers')
    BY <1>1, <1>3, LenProperties
  <1>5. /\ drivers'[1] = d
        /\ \A n \in 2..Len(drivers') : drivers'[n] = drivers[n - 1] /\ n - 1 \in DOMAIN drivers
    BY <1>2, <1>3, <1>4
  <1>6. \A n \in DOMAIN drivers : drivers[n] # d
    BY <1>1 DEF ToSet
  <1>7. ASSUME NEW m \in DOMAIN drivers', NEW n \in DOMAIN drivers', drivers'[m] = drivers'[n]
        PROVE  m = n
    <2>1. m = 1 \/ m \in 2..Len(drivers')
      BY <1>4
    <2>2. n = 1 \/ n \in 2..Len(drivers')
      BY <1>4
    <2>3. CASE m = 1 \/ n = 1
      BY <2>1, <2>2, <2>3, <1>5, <1>6, <1>7
    <2>4. CASE m \in 2..Len(drivers') /\ n \in 2..Len(drivers')
      <3>1. m - 1 = n - 1
        BY <2>4, <1>5, <1>7 DEF ProbeInv, DriversOnce
      <3> QED
        BY <3>1, <2>4
    <2> QED
      BY <2>1, <2>2, <2>3, <2>4
  <1> QED
    BY <1>3, <1>7, NoneStarted DEF usb_register

LEMMA DeregisterKeeps == ASSUME ProbeInv, NEW d \in Drivers, usb_deregister(d) PROVE ProbeInv'
  <1> DEFINE a == drivers
  <1>1. PICK j \in DOMAIN drivers :
            drivers' = SubSeq(drivers, 1, j - 1) \o SubSeq(drivers, j + 1, Len(drivers))
    BY DEF usb_deregister, RemoveAt
  <1>2. drivers \in Seq(Drivers) /\ j \in 1..Len(drivers) /\ Len(drivers) \in Nat /\ DriversOnce
        /\ DOMAIN drivers = 1..Len(drivers)
    BY DEF ProbeInv, ProbeTypeOK
  <1> DEFINE x == SubSeq(drivers, 1, j - 1)
             y == SubSeq(drivers, j + 1, Len(drivers))
  <1>3. x \in Seq(Drivers) /\ Len(x) = j - 1 /\ \A n \in 1..(j - 1) : x[n] = drivers[n]
    BY <1>2, SubSeqProperties
  <1>4. /\ y \in Seq(Drivers) /\ Len(y) = Len(drivers) - j
        /\ \A n \in 1..(Len(drivers) - j) : y[n] = drivers[j + n]
    BY <1>2, SubSeqProperties
  <1>5. drivers' = x \o y
    BY <1>1
  <1> HIDE DEF x, y
  <1>6. /\ drivers' \in Seq(Drivers) /\ Len(drivers') = Len(x) + Len(y)
        /\ \A n \in 1..(Len(x) + Len(y)) :
              drivers'[n] = IF n <= Len(x) THEN x[n] ELSE y[n - Len(x)]
    BY <1>3, <1>4, <1>5, ConcatProperties
  <1>7. /\ Len(drivers') = Len(drivers) - 1 /\ DOMAIN drivers' = 1..(Len(drivers) - 1)
    BY <1>2, <1>3, <1>4, <1>6, LenProperties
  <1>8. ASSUME NEW n \in DOMAIN drivers'
        PROVE  \/ n < j /\ n \in DOMAIN drivers /\ drivers'[n] = drivers[n]
               \/ n >= j /\ n + 1 \in DOMAIN drivers /\ drivers'[n] = drivers[n + 1]
    <2>1. CASE n < j
      BY <2>1, <1>2, <1>3, <1>4, <1>6, <1>7
    <2>2. CASE n >= j
      <3>1. /\ n - (j - 1) \in 1..(Len(drivers) - j) /\ j + (n - (j - 1)) = n + 1
            /\ ~(n <= j - 1) /\ n + 1 \in DOMAIN drivers
        BY <2>2, <1>2, <1>7
      <3>2. drivers'[n] = y[n - (j - 1)]
        BY <3>1, <1>2, <1>3, <1>4, <1>6, <1>7
      <3> QED
        BY <3>1, <3>2, <2>2, <1>4
    <2> QED
      BY <2>1, <2>2, <1>2, <1>7
  <1>9. ASSUME NEW m \in DOMAIN drivers', NEW n \in DOMAIN drivers', drivers'[m] = drivers'[n]
        PROVE  m = n
    BY <1>2, <1>7, <1>8, <1>9 DEF DriversOnce
  <1> QED
    BY <1>6, <1>9, NoneStarted DEF usb_deregister

-----------------------------------------------------------------------------
LEMMA ProbeInitInv == ProbeInit => ProbeInv
  <1> SUFFICES ASSUME ProbeInit PROVE ProbeInv
    OBVIOUS
  <1>1. ProbeTypeOK
    <2>1. NoOpt \in OptionRecords
      BY DEF NoOpt, OptionRecords
    <2>2. NoSc \in Softcs
      BY DEF NoSc, Softcs
    <2> QED
      BY <2>1, <2>2 DEF ProbeInit, ProbeTypeOK, Stages
  <1>2. DriversOnce /\ PidOnce
    BY DEF ProbeInit, DriversOnce, PidOnce
  <1>3. ASSUME NEW p \in Procs PROVE ProcRight(p)
    <2>1. at[p] = "start" /\ pid[p] = NoPid /\ opt[p] = NoOpt
      BY DEF ProbeInit
    <2> QED
      BY <2>1 DEF ProcRight, NotStarted, PidRight, ScRight, FirstCounted, TriedRight, AllTried,
                  ListedOf, Busy
  <1> QED
    BY <1>1, <1>2, <1>3 DEF ProbeInv

LEMMA ProbeStutters == ASSUME ProbeInv, UNCHANGED probeVars PROVE ProbeInv'
  <1>1. ProbeTypeOK' /\ DriversOnce' /\ PidOnce'
    BY DEF probeVars, ProbeInv, ProbeTypeOK, DriversOnce, PidOnce
  <1>2. ASSUME NEW q \in Procs PROVE ProcRight(q)'
    BY OthersKeep DEF ProbeInv, probeVars
  <1> QED
    BY <1>1, <1>2 DEF ProbeInv

LEMMA ProbeNextInv == ProbeInv /\ [ProbeNext]_probeVars => ProbeInv'
  <1> SUFFICES ASSUME ProbeInv, [ProbeNext]_probeVars PROVE ProbeInv'
    OBVIOUS
  <1>1. ASSUME NEW d \in Drivers, usb_register(d) \/ usb_deregister(d) PROVE ProbeInv'
    BY <1>1, RegisterKeeps, DeregisterKeeps
  <1>2. ASSUME NEW p \in Procs, Main(p) \/ Background(p) \/ Scan(p) PROVE ProbeInv'
    BY <1>2, MainKeeps, BackgroundKeeps, ScanKeeps
  <1>3. ASSUME NEW p \in Procs, ProbeOk(p) \/ ProbeFails(p) \/ End(p) PROVE ProbeInv'
    BY <1>3, ProbeOkKeeps, ProbeFailsKeeps, EndKeeps
  <1> QED
    BY <1>1, <1>2, <1>3, ProbeStutters DEF ProbeNext

(* In every behaviour of UsbProbe, for any bus, drivers, processes and     *)
(* command lines: pid files are exact, what is handed to probe() belongs   *)
(* together, and what was passed over was tried.                           *)
THEOREM ProbeInductive == ProbeSpec => []ProbeInv
  BY ProbeInitInv, ProbeNextInv, PTL DEF ProbeSpec

(* A driver is given an entry of its own table that matches its own        *)
(* interface and that it finds when it looks itself up; a process gives up *)
(* only when every driver that matches was tried; processes of one device  *)
(* have different indices and start with different interfaces; and a line  *)
(* that -l prints selects the device it describes.                         *)
THEOREM DriversFit == ProbeSpec => []DriverFits
  <1>1. ProbeInv => DriverFits
    <2> SUFFICES ASSUME ProbeInv PROVE DriverFits
      OBVIOUS
    <2>1. ProbedFits
      <3> SUFFICES ASSUME NEW p \in Procs, Busy(p)
                   PROVE  /\ ~Hub(sc[p].dev, sc[p].ui) /\ sc[p].id # 0
                          /\ sc[p].id = Lookup(sc[p].dev, sc[p].ui, sc[p].udrv)
                          /\ MatchersAgree(Bus[sc[p].dev], Bus[sc[p].dev].ifaces[sc[p].ui],
                                           Tables[sc[p].udrv])
        BY DEF ProbedFits
      <3> DEFINE d == sc[p].dev
                 ui == sc[p].ui
                 drv == sc[p].udrv
      <3>1. d \in Hosts /\ drv \in ToSet(drivers) /\ sc[p].id # 0 /\ sc[p].id = Lookup(d, ui, drv)
        BY DEF ProbeInv, ProcRight, ScRight
      <3>2. drv \in Drivers
        BY <3>1 DEF ProbeInv, ProbeTypeOK, ToSet
      <3> HIDE DEF d, ui, drv
      <3>3. ~Hub(d, ui) /\ usb_linux_lookup_id(Bus[d], Bus[d].ifaces[ui], Tables[drv]) # 0
        BY <3>1 DEF Lookup
      <3>4. /\ Bus[d]["bcdDevice"] \in Nat
            /\ Len(Tables[drv]) \in Nat /\ DOMAIN Tables[drv] = 1..Len(Tables[drv])
            /\ \A id \in ToSet(Tables[drv]) : id["DEV_LO"] \in Nat /\ id["DEV_HI"] \in Nat
        BY <3>1, <3>2, ProbeAssumption
      <3>5. MatchersAgree(Bus[d], Bus[d].ifaces[ui], Tables[drv])
        BY <3>3, <3>4, Matchers
      <3> QED
        BY <3>1, <3>3, <3>5 DEF d, ui, drv
    <2>2. TriedAll /\ ListedIsSelected
      BY DEF ProbeInv, ProcRight, AllTried, ListedOf, TriedAll, ListedIsSelected
    <2>3. OneForEachIndex
      <3> SUFFICES ASSUME NEW p \in Procs, NEW q \in Procs, p # q, Busy(p), Busy(q),
                          sc[p].dev = sc[q].dev, opt[p].addr # 0, opt[q].addr # 0
                   PROVE  Skip(opt[p]) # Skip(opt[q]) /\ first[p] # first[q]
        BY DEF OneForEachIndex
      <3>1. pid[p] = KeyOf(p) /\ pid[q] = KeyOf(q) /\ pid[p] # pid[q]
        BY DEF ProbeInv, ProcRight, PidRight, PidOnce
      <3>2. Given(opt[p], sc[p].dev) /\ Given(opt[q], sc[p].dev)
        BY DEF ProbeInv, ProcRight, ScRight
      <3>3. opt[p].index # opt[q].index
        BY <3>1, <3>2 DEF KeyOf, Given
      <3>4. first[p] # first[q]
        BY <3>3 DEF ProbeInv, ProcRight, FirstCounted
      <3> QED
        BY <3>3, <3>4 DEF Skip
    <2> QED
      BY <2>1, <2>2, <2>3 DEF DriverFits
  <1> QED
    BY <1>1, ProbeInductive, PTL

(***************************************************************************)
(* 5. The structures made of the descriptors.                              *)
(***************************************************************************)
Triples == Nat \X Nat \X Nat

TreeTypeOK ==
    /\ cfg \in Configs /\ build \in {"count", "fill", "failed", "made"}
    /\ iface \in Nat /\ setting \in Nat /\ niface_total \in Nat /\ nedesc \in Nat
    /\ uhi \in Seq([at : Nat \X Nat, endpoint : Nat \ {0}, num : Nat])
    /\ uhe \in Seq(Triples)
    /\ altsetting \in [1..IfaceMax -> Nat] /\ cur_altsetting \in [1..IfaceMax -> Nat]
    /\ intf_assoc \in [1..IfaceMax -> Nat] /\ chosen \in [1..IfaceMax -> Nat]
    /\ ep_in \in [EpNums -> Triples \cup {None}] /\ ep_out \in [EpNums -> Triples \cup {None}]
    /\ track \in Seq([i : Nat, a : Nat, e : Nat])

(* The loops are at a setting that there is, or at the end. *)
LoopRight ==
    /\ iface \in 1..Num + 1
    /\ iface <= Num => setting \in 1..Len(Settings(iface))
    /\ iface > Num => setting = 1

(* The first loop has gone through the settings in order, adding up. *)
Follows(s, t) ==
    LET last == s.a = Len(Settings(s.i)) IN
    /\ t.i = IF last THEN s.i + 1 ELSE s.i
    /\ t.a = IF last THEN 1 ELSE s.a + 1
    /\ t.e = s.e + Len(Settings(s.i)[s.a])
TrackRight ==
    /\ Len(track) = niface_total + 1
    /\ track[1] = [i |-> 1, a |-> 1, e |-> 0]
    /\ \A n \in 1..niface_total : track[n].i <= Num /\ Follows(track[n], track[n + 1])
    /\ \A n \in 1..niface_total + 1 : track[n].e <= nedesc
    /\ build = "count" => track[niface_total + 1] = [i |-> iface, a |-> setting, e |-> nedesc]
    /\ build # "count" => track[niface_total + 1].i > Num /\ track[niface_total + 1].e = nedesc

(* The second loop is where the first was after as many settings, and has  *)
(* put as many endpoints as the first had counted.                         *)
Filled == build \in {"fill", "made"}
PaceSame ==
    /\ ~Filled => uhi = <<>> /\ uhe = <<>>
    /\ Filled => /\ Len(uhi) <= niface_total
                 /\ track[Len(uhi) + 1] = [i |-> iface, a |-> setting, e |-> Len(uhe)]
    /\ build = "made" => iface > Num

(* A setting that was put has its endpoints. *)
SettingRight(h, mem) ==
    /\ h.at[1] \in Ifs /\ h.at[2] \in 1..Len(Settings(h.at[1]))
    /\ h.num = Len(Settings(h.at[1])[h.at[2]])
    /\ h.endpoint + h.num <= Len(mem) + 1
    /\ \A e \in 1..h.num : mem[h.endpoint + e - 1] = <<h.at[1], h.at[2], e>>
SettingsRight == \A n \in 1..Len(uhi) : SettingRight(uhi[n], uhe)

(* An interface has its settings from altsetting on. *)
Placed(f, a) == Filled /\ (f < iface \/ (f = iface /\ a < setting))
AltRight ==
    /\ \A f \in Ifs : \A a \in 1..Len(Settings(f)) : Placed(f, a) =>
           altsetting[f] + a - 1 \in 1..Len(uhi) /\ uhi[altsetting[f] + a - 1].at = <<f, a>>
    /\ build = "fill" /\ setting > 1 => altsetting[iface] + setting = Len(uhi) + 2

(* The selected setting is the one that the device has selected, and the   *)
(* tables lead to its endpoints.                                           *)
ChosenRight ==
    /\ \A f \in Ifs : /\ chosen[f] \in 1..Len(Settings(f))
                      /\ Placed(f, 1) => cur_altsetting[f] = altsetting[f] + chosen[f] - 1
    /\ build # "made" => \A f \in Ifs : chosen[f] = 1
Entered(table, dir, f, a) ==
    \A e \in 1..Len(Settings(f)[a]) :
        Settings(f)[a][e].ep # 0 /\ Settings(f)[a][e].dir = dir =>
            table[Settings(f)[a][e].ep] = <<f, a, e>>
InTable(table, dir) ==
    \A f \in Ifs : Filled /\ f < iface => Entered(table, dir, f, chosen[f])
TablesRight == InTable(ep_in, "in") /\ InTable(ep_out, "out")

LayoutInv == LoopRight /\ TrackRight /\ PaceSame /\ SettingsRight /\ AltRight
ChoiceInv == ChosenRight /\ TablesRight
TreeInv == TreeTypeOK /\ LayoutInv /\ ChoiceInv /\ IadOfInterface
-----------------------------------------------------------------------------
(* Configurations. *)
LEMMA ConfigFacts ==
    ASSUME cfg \in Configs
    PROVE  /\ Num \in Nat /\ Num <= IfaceMax
           /\ \A f \in Ifs : /\ f \in 1..IfaceMax /\ f \in DOMAIN cfg.ifaces /\ f \in Nat
                             /\ Settings(f) \in Seq(Seq(Endpoints)) /\ Len(Settings(f)) >= 1
                             /\ Len(Settings(f)) \in Nat /\ DOMAIN Settings(f) = 1..Len(Settings(f))
  <1>1. cfg.ifaces \in Seq(Interfaces) /\ IfaceMax \in Nat
    BY TreeAssumption
  <1>2. Len(cfg.ifaces) \in Nat /\ DOMAIN cfg.ifaces = 1..Len(cfg.ifaces)
    BY <1>1
  <1>3. Num \in Nat /\ Num <= IfaceMax /\ Num <= Len(cfg.ifaces)
    BY <1>1, <1>2 DEF Num
  <1>4. ASSUME NEW f \in Ifs
        PROVE  f \in 1..IfaceMax /\ f \in DOMAIN cfg.ifaces /\ f \in Nat
    BY <1>1, <1>2, <1>3, <1>4 DEF Ifs
  <1>5. ASSUME NEW f \in Ifs
        PROVE  Settings(f) \in Seq(Seq(Endpoints)) /\ Settings(f) # <<>>
    <2>1. cfg.ifaces[f] \in Interfaces
      BY <1>1, <1>4, <1>5, ElementOfSeq
    <2> QED
      BY <2>1 DEF Settings, Interfaces
  <1>6. ASSUME NEW T, NEW s \in Seq(T), s # <<>>
        PROVE  Len(s) \in Nat /\ Len(s) >= 1 /\ DOMAIN s = 1..Len(s)
    BY <1>6, EmptySeq
  <1> QED
    BY <1>3, <1>4, <1>5, <1>6

LEMMA SettingFacts ==
    ASSUME cfg \in Configs, NEW f \in Ifs, NEW a \in 1..Len(Settings(f))
    PROVE  /\ Settings(f)[a] \in Seq(Endpoints) /\ Len(Settings(f)[a]) \in Nat
           /\ DOMAIN Settings(f)[a] = 1..Len(Settings(f)[a])
           /\ \A e \in 1..Len(Settings(f)[a]) : Settings(f)[a][e] \in Endpoints
  <1>1. Settings(f) \in Seq(Seq(Endpoints)) /\ a \in DOMAIN Settings(f)
    BY ConfigFacts
  <1>2. Settings(f)[a] \in Seq(Endpoints)
    BY <1>1, ElementOfSeq
  <1> QED
    BY <1>2

(* Endpoints of different interfaces, or of one setting, are different. *)
LEMMA Apart ==
    ASSUME cfg \in Configs,
           NEW f \in Ifs, NEW a \in 1..Len(Settings(f)), NEW e \in 1..Len(Settings(f)[a])
    PROVE  /\ \A k \in 1..Len(Settings(f)[a]) :
                  SameEndpoint(Settings(f)[a][e], Settings(f)[a][k]) => e = k
           /\ \A g \in Ifs : \A b \in 1..Len(Settings(g)) : \A k \in 1..Len(Settings(g)[b]) :
                  SameEndpoint(Settings(f)[a][e], Settings(g)[b][k]) => f = g
  <1>1. AddressesApart(cfg)
    BY TreeAssumption
  <1>2. \A g \in Ifs : /\ g \in DOMAIN cfg.ifaces /\ DOMAIN Settings(g) = 1..Len(Settings(g))
                       /\ \A b \in 1..Len(Settings(g)) :
                              DOMAIN Settings(g)[b] = 1..Len(Settings(g)[b])
    BY ConfigFacts, SettingFacts
  <1>3. \A g \in Ifs : \A b \in 1..Len(Settings(g)) : \A k \in 1..Len(Settings(g)[b]) :
            (f # g \/ a = b) /\ SameEndpoint(Settings(f)[a][e], Settings(g)[b][k])
                => f = g /\ e = k
    BY <1>1, <1>2 DEF AddressesApart, Settings
  <1>4. ASSUME NEW k \in 1..Len(Settings(f)[a]),
               SameEndpoint(Settings(f)[a][e], Settings(f)[a][k])
        PROVE  e = k
    BY <1>3, <1>4
  <1> QED
    BY <1>3, <1>4

(* usb_linux_fill_ep_info() enters all endpoints of a setting and disturbs *)
(* none of another interface.                                              *)
LEMMA FillOne ==
    ASSUME NEW table, NEW s, NEW dir, NEW n \in EpNums, NEW e \in Having(s, dir, n),
           \A k \in Having(s, dir, n) : k <= e /\ k = e
    PROVE  Fill(table, s, dir)[n] = s[e]
  <1> DEFINE H == Having(s, dir, n)
             C == CHOOSE x \in H : \A f \in H : f <= x
  <1>1. C \in H
    <2>1. e \in H /\ \A f \in H : f <= e
      OBVIOUS
    <2> HIDE DEF H
    <2> QED BY <2>1
  <1>2. Fill(table, s, dir)[n] = s[C]
    BY DEF Fill
  <1> QED
    BY <1>1, <1>2

LEMMA FillSome ==
    ASSUME cfg \in Configs, NEW table, NEW dir,
           NEW f \in Ifs, NEW a \in 1..Len(Settings(f)),
           NEW s, DOMAIN s = 1..Len(Settings(f)[a]),
           \A e \in 1..Len(Settings(f)[a]) : s[e] = <<f, a, e>>
    PROVE  /\ Entered(Fill(table, s, dir), dir, f, a)
           /\ \A g \in Ifs : \A b \in 1..Len(Settings(g)) :
                  g # f /\ Entered(table, dir, g, b) => Entered(Fill(table, s, dir), dir, g, b)
           /\ table \in [EpNums -> Triples \cup {None}] =>
                  Fill(table, s, dir) \in [EpNums -> Triples \cup {None}]
  <1> DEFINE L == Len(Settings(f)[a])
  <1>1. DOMAIN s = 1..L /\ L \in Nat
    BY SettingFacts
  <1>2. \A e \in 1..L : s[e] = <<f, a, e>> /\ At(s[e]) = Settings(f)[a][e]
    BY DEF At
  <1>3. \A n : \A e \in Having(s, dir, n) :
            /\ e \in 1..L /\ e \in Nat
            /\ Settings(f)[a][e].dir = dir /\ Settings(f)[a][e].ep = n /\ n # 0
    <2> SUFFICES ASSUME NEW n, NEW e \in Having(s, dir, n)
                 PROVE  /\ e \in 1..L /\ e \in Nat
                        /\ Settings(f)[a][e].dir = dir /\ Settings(f)[a][e].ep = n /\ n # 0
      OBVIOUS
    <2>1. e \in DOMAIN s /\ n # 0 /\ At(s[e]).dir = dir /\ At(s[e]).ep = n
      BY DEF Having
    <2>2. e \in 1..L /\ At(s[e]) = Settings(f)[a][e]
      BY <1>1, <1>2, <2>1
    <2>3. e \in Nat
      BY <1>1, <2>2
    <2> QED
      BY <2>1, <2>2, <2>3
  <1>4. ASSUME NEW n, NEW e \in Having(s, dir, n), NEW k \in Having(s, dir, n)
        PROVE  e = k
    <2>1. SameEndpoint(Settings(f)[a][e], Settings(f)[a][k])
      BY <1>3, <1>4 DEF SameEndpoint
    <2>2. e \in 1..Len(Settings(f)[a]) /\ k \in 1..Len(Settings(f)[a])
      BY <1>3, <1>4
    <2>3. \A q \in 1..Len(Settings(f)[a]) :
              SameEndpoint(Settings(f)[a][e], Settings(f)[a][q]) => e = q
      BY <2>2, Apart
    <2> QED
      BY <2>1, <2>2, <2>3
  <1>5. \A n \in EpNums : /\ \A e \in Having(s, dir, n) : Fill(table, s, dir)[n] = s[e]
                          /\ Having(s, dir, n) = {} => Fill(table, s, dir)[n] = table[n]
    <2> SUFFICES ASSUME NEW n \in EpNums
                 PROVE  /\ \A e \in Having(s, dir, n) : Fill(table, s, dir)[n] = s[e]
                        /\ Having(s, dir, n) = {} => Fill(table, s, dir)[n] = table[n]
      OBVIOUS
    <2>1. ASSUME NEW e \in Having(s, dir, n)
          PROVE  Fill(table, s, dir)[n] = s[e]
      <3>1. \A k \in Having(s, dir, n) : k = e
        BY <1>4, <2>1
      <3>2. e <= e
        BY <1>3, <2>1
      <3>3. \A k \in Having(s, dir, n) : k <= e /\ k = e
        BY <3>1, <3>2
      <3> QED
        BY <2>1, <3>3, FillOne
    <2> QED
      BY <2>1 DEF Fill
  <1>6. ASSUME NEW e \in 1..L, Settings(f)[a][e].ep # 0, Settings(f)[a][e].dir = dir
        PROVE  Fill(table, s, dir)[Settings(f)[a][e].ep] = <<f, a, e>>
    <2>1. e \in Having(s, dir, Settings(f)[a][e].ep)
      BY <1>1, <1>2, <1>6 DEF Having
    <2>2. Settings(f)[a][e].ep \in EpNums
      BY SettingFacts DEF Endpoints
    <2> QED
      BY <1>2, <1>5, <2>1, <2>2
  <1>7. ASSUME NEW g \in Ifs, g # f, NEW b \in 1..Len(Settings(g)),
               NEW k \in 1..Len(Settings(g)[b]), Settings(g)[b][k].dir = dir
        PROVE  Fill(table, s, dir)[Settings(g)[b][k].ep] = table[Settings(g)[b][k].ep]
    <2>1. Settings(g)[b][k].ep \in EpNums
      BY SettingFacts DEF Endpoints
    <2>2. ASSUME NEW e \in Having(s, dir, Settings(g)[b][k].ep)
          PROVE  FALSE
      <3>1. SameEndpoint(Settings(f)[a][e], Settings(g)[b][k])
        BY <1>3, <1>7, <2>2 DEF SameEndpoint
      <3>2. e \in 1..Len(Settings(f)[a])
        BY <1>3, <2>2
      <3> QED
        BY <1>7, <3>1, <3>2, Apart
    <2> QED
      BY <1>5, <2>1, <2>2
  <1>8. ASSUME table \in [EpNums -> Triples \cup {None}]
        PROVE  Fill(table, s, dir) \in [EpNums -> Triples \cup {None}]
    <2>1. \A e \in 1..L : s[e] \in Triples
      <3>1. f \in Nat /\ a \in Nat /\ \A e \in 1..L : e \in Nat
        BY ConfigFacts, <1>1
      <3>2. ASSUME NEW e \in 1..L
            PROVE  <<f, a, e>> \in Triples
        BY <3>1, <3>2 DEF Triples
      <3> QED
        BY <1>2, <3>2
    <2>2. \A n \in EpNums : Fill(table, s, dir)[n] \in Triples \cup {None}
      BY <1>3, <1>5, <1>8, <2>1
    <2>3. DOMAIN Fill(table, s, dir) = EpNums
      BY DEF Fill
    <2>4. Fill(table, s, dir) = [n \in EpNums |-> Fill(table, s, dir)[n]]
      BY DEF Fill
    <2> QED
      BY <2>2, <2>4
  <1> QED
    BY <1>6, <1>7, <1>8 DEF Entered

-----------------------------------------------------------------------------
(* The steps of the two loops. *)
LEMMA TreeStarts == TreeInit => TreeInv
  <1> SUFFICES ASSUME TreeInit PROVE TreeInv
    OBVIOUS
  <1> USE DEF TreeInit
  <1>1. cfg \in Configs /\ Num \in Nat
    BY ConfigFacts
  <1>2. TreeTypeOK
    <2>1. NoEndpoints \in [EpNums -> Triples \cup {None}]
      BY DEF NoEndpoints, Ep0, Triples
    <2>2. track \in Seq([i : Nat, a : Nat, e : Nat])
      OBVIOUS
    <2> QED
      BY <1>1, <2>1, <2>2 DEF TreeTypeOK
  <1>3. LoopRight
    BY <1>1, ConfigFacts DEF LoopRight, Ifs
  <1>4. TrackRight /\ PaceSame /\ SettingsRight
    BY DEF TrackRight, PaceSame, SettingsRight
  <1>5. AltRight /\ ChosenRight /\ TablesRight /\ IadOfInterface
    BY <1>1, ConfigFacts
       DEF AltRight, ChosenRight, TablesRight, InTable, IadOfInterface, Filled, Placed
  <1> QED
    BY <1>2, <1>3, <1>4, <1>5 DEF TreeInv, LayoutInv, ChoiceInv

LEMMA SameConfig ==
    ASSUME cfg' = cfg
    PROVE  /\ Num' = Num /\ Ifs' = Ifs /\ num_iad' = num_iad
           /\ \A f : Settings(f)' = Settings(f)
  BY DEF Num, Ifs, Settings, num_iad

LEMMA Advances ==
    ASSUME TreeTypeOK, LoopRight, iface <= Num, Advance, cfg' = cfg
    PROVE  LoopRight' /\ iface' \in Nat /\ setting' \in Nat
  <1>1. Num' = Num /\ \A f : Settings(f)' = Settings(f)
    BY SameConfig
  <1>2. Num \in Nat /\ iface \in Ifs /\ iface \in Nat /\ setting \in Nat
    BY ConfigFacts DEF TreeTypeOK, LoopRight, Ifs
  <1>3. Len(Settings(iface)) \in Nat /\ setting \in 1..Len(Settings(iface))
    BY <1>2, ConfigFacts DEF TreeTypeOK, LoopRight
  <1>4. \A f \in Ifs : Len(Settings(f)) \in Nat /\ Len(Settings(f)) >= 1
    BY ConfigFacts DEF TreeTypeOK
  <1>5. CASE AtLast
    BY <1>1, <1>2, <1>3, <1>4, <1>5 DEF Advance, LoopRight, Ifs
  <1>6. CASE ~AtLast
    BY <1>1, <1>2, <1>3, <1>4, <1>6 DEF Advance, LoopRight, AtLast
  <1> QED
    BY <1>5, <1>6

(* Nothing is built while settings are counted. *)
LEMMA Unbuilt ==
    ASSUME TreeInv, ~Filled, ~Filled', cfg' = cfg, UNCHANGED <<uhi, uhe, chosen, intf_assoc>>
    PROVE  PaceSame' /\ SettingsRight' /\ AltRight' /\ ChosenRight' /\ TablesRight'
           /\ IadOfInterface'
  <1>1. Ifs' = Ifs /\ \A f : Settings(f)' = Settings(f)
    BY SameConfig
  <1>2. uhi = <<>> /\ uhe = <<>> /\ build # "made" /\ build' # "made" /\ build' # "fill"
    BY DEF TreeInv, LayoutInv, PaceSame, Filled
  <1>3. PaceSame' /\ SettingsRight' /\ AltRight' /\ TablesRight' /\ IadOfInterface'
    BY <1>2 DEF PaceSame, SettingsRight, AltRight, Placed, TablesRight, InTable, IadOfInterface
  <1>4. ChosenRight'
    BY <1>1, <1>2 DEF TreeInv, ChoiceInv, ChosenRight, Placed
  <1> QED
    BY <1>3, <1>4

LEMMA CountStep ==
    ASSUME TreeInv, CountSetting
    PROVE  TreeInv'
  <1> USE DEF CountSetting
  <1>1. Num' = Num /\ \A f : Settings(f)' = Settings(f)
    BY SameConfig
  <1>2. Num \in Nat /\ iface \in Ifs /\ setting \in 1..Len(Settings(iface)) /\ cfg \in Configs
    BY ConfigFacts DEF TreeInv, TreeTypeOK, LayoutInv, LoopRight, Ifs
  <1>3. Len(Settings(iface)[setting]) \in Nat
    BY <1>2, SettingFacts
  <1>4. LoopRight' /\ iface' \in Nat /\ setting' \in Nat
    BY Advances DEF TreeInv, LayoutInv
  <1>5. nedesc \in Nat /\ nedesc' \in Nat /\ nedesc <= nedesc'
        /\ niface_total \in Nat /\ niface_total' \in Nat
    BY <1>3 DEF TreeInv, TreeTypeOK
  <1> DEFINE t == [i |-> iface', a |-> setting', e |-> nedesc']
  <1>6. /\ Len(track) = niface_total + 1 /\ track' \in Seq([i : Nat, a : Nat, e : Nat])
        /\ Len(track') = niface_total' + 1 /\ track'[niface_total' + 1] = t
        /\ \A n \in 1..niface_total + 1 : track'[n] = track[n]
    <2>1. t \in [i : Nat, a : Nat, e : Nat] /\ track \in Seq([i : Nat, a : Nat, e : Nat])
      BY <1>4, <1>5 DEF TreeInv, TreeTypeOK
    <2>2. Len(track) = niface_total + 1 /\ track' = Append(track, t)
      BY DEF TreeInv, LayoutInv, TrackRight
    <2> HIDE DEF t
    <2> QED
      BY <1>5, <2>1, <2>2, AppendProperties
  <1>7. TreeTypeOK'
    BY <1>4, <1>5, <1>6 DEF TreeInv, TreeTypeOK
  <1>8. TrackRight'
    <2> DEFINE s == track[niface_total + 1]
    <2>1. s = [i |-> iface, a |-> setting, e |-> nedesc]
      BY DEF TreeInv, LayoutInv, TrackRight
    <2>2. Follows(s, t) /\ s.i <= Num
      BY <2>1, <1>3 DEF Follows, Advance, AtLast
    <2>3. \A n \in 1..niface_total : track[n].i <= Num /\ Follows(track[n], track[n + 1])
      BY DEF TreeInv, LayoutInv, TrackRight
    <2> HIDE DEF t, s
    <2>4. \A n \in 1..niface_total' :
              track'[n].i <= Num /\ Follows(track'[n], track'[n + 1])
      <3> SUFFICES ASSUME NEW n \in 1..niface_total'
                   PROVE  track'[n].i <= Num /\ Follows(track'[n], track'[n + 1])
        OBVIOUS
      <3>1. CASE n = niface_total + 1
        BY <1>5, <1>6, <2>2, <3>1 DEF s
      <3>2. CASE n # niface_total + 1
        <4>1. n \in 1..niface_total /\ n \in 1..niface_total + 1 /\ n + 1 \in 1..niface_total + 1
          BY <1>5, <3>2
        <4> QED
          BY <1>6, <2>3, <4>1
      <3> QED
        BY <3>1, <3>2
    <2>5. \A p, q : Follows(p, q)' <=> Follows(p, q)
      BY <1>1 DEF Follows
    <2>6. \A n \in 1..niface_total' + 1 : track'[n].e <= nedesc'
      <3> SUFFICES ASSUME NEW n \in 1..niface_total' + 1
                   PROVE  track'[n].e <= nedesc'
        OBVIOUS
      <3>1. CASE n = niface_total' + 1
        BY <1>5, <1>6, <3>1 DEF t
      <3>2. CASE n # niface_total' + 1
        <4>1. n \in 1..niface_total + 1
          BY <1>5, <3>2
        <4>2. track[n].e <= nedesc
          BY <4>1 DEF TreeInv, LayoutInv, TrackRight
        <4>3. track \in Seq([i : Nat, a : Nat, e : Nat]) /\ n \in 1..Len(track)
          BY <4>1, <1>6 DEF TreeInv, TreeTypeOK
        <4>4. track[n] \in [i : Nat, a : Nat, e : Nat]
          BY <4>3, ElementOfSeq
        <4>5. track[n].e \in Nat /\ track'[n].e = track[n].e
          BY <1>6, <4>1, <4>4
        <4>6. \A x, y, z \in Nat : x <= y /\ y <= z => x <= z
          OBVIOUS
        <4>7. track[n].e <= nedesc'
          BY <1>5, <4>2, <4>5, <4>6
        <4> QED
          BY <4>5, <4>7
      <3> QED
        BY <3>1, <3>2
    <2>7. track'[1] = [i |-> 1, a |-> 1, e |-> 0]
      BY <1>5, <1>6 DEF TreeInv, LayoutInv, TrackRight
    <2> QED
      BY <1>1, <1>6, <2>4, <2>5, <2>6, <2>7 DEF TrackRight, t, Follows
  <1>9. PaceSame' /\ SettingsRight' /\ AltRight' /\ ChosenRight' /\ TablesRight' /\ IadOfInterface'
    BY Unbuilt DEF Filled
  <1> QED
    BY <1>4, <1>7, <1>8, <1>9 DEF TreeInv, LayoutInv, ChoiceInv

LEMMA AllocateStep ==
    ASSUME TreeInv, Allocate
    PROVE  TreeInv'
  <1> USE DEF Allocate
  <1>1. Num' = Num /\ Ifs' = Ifs /\ \A f : Settings(f)' = Settings(f)
    BY SameConfig
  <1>2. Num \in Nat /\ cfg \in Configs /\ niface_total \in Nat
    BY ConfigFacts DEF TreeInv, TreeTypeOK
  <1>3. TreeTypeOK'
    BY DEF TreeInv, TreeTypeOK
  <1>4. \A f \in Ifs : Len(Settings(f)) \in Nat /\ Len(Settings(f)) >= 1
    BY <1>2, ConfigFacts
  <1>5. LoopRight'
    BY <1>1, <1>2, <1>4 DEF LoopRight, Ifs
  <1>6. TrackRight'
    BY <1>1 DEF TreeInv, LayoutInv, TrackRight, Follows
  <1>7. uhi = <<>> /\ uhe = <<>> /\ track[1] = [i |-> 1, a |-> 1, e |-> 0]
    BY DEF TreeInv, LayoutInv, PaceSame, Filled, TrackRight
  <1>8. PaceSame' /\ SettingsRight'
    BY <1>2, <1>7 DEF PaceSame, SettingsRight
  <1>9. AltRight' /\ ChosenRight' /\ TablesRight' /\ IadOfInterface'
    <2>1. \A f \in Ifs : \A a \in 1..Len(Settings(f)) : ~Placed(f, a)'
      BY <1>2, <1>4 DEF Placed, Ifs
    <2>2. \A f \in Ifs : ~(f < iface') /\ ~Placed(f, 1)'
      BY <1>2 DEF Placed, Ifs
    <2>3. AltRight' /\ IadOfInterface'
      BY <1>1, <2>1 DEF AltRight, IadOfInterface
    <2>4. ChosenRight' /\ TablesRight'
      BY <1>1, <2>2 DEF TreeInv, ChoiceInv, ChosenRight, TablesRight, InTable
    <2> QED
      BY <2>3, <2>4
  <1> QED
    BY <1>3, <1>5, <1>6, <1>8, <1>9 DEF TreeInv, LayoutInv, ChoiceInv

LEMMA FillPuts ==
    ASSUME TreeInv, FillSetting
    PROVE  LET k == Len(Settings(iface)[setting]) IN
           /\ k \in Nat /\ iface \in Ifs /\ setting \in 1..Len(Settings(iface))
           /\ uhi' \in Seq([at : Nat \X Nat, endpoint : Nat \ {0}, num : Nat])
           /\ Len(uhi) \in Nat /\ Len(uhi') = Len(uhi) + 1
           /\ uhi'[Len(uhi) + 1] = [at |-> <<iface, setting>>, endpoint |-> Len(uhe) + 1, num |-> k]
           /\ \A n \in 1..Len(uhi) : uhi'[n] = uhi[n]
           /\ uhe' \in Seq(Triples) /\ Len(uhe) \in Nat /\ Len(uhe') = Len(uhe) + k
           /\ \A n \in 1..Len(uhe) : uhe'[n] = uhe[n]
           /\ \A e \in 1..k : uhe'[Len(uhe) + e] = <<iface, setting, e>>
  <1> DEFINE k == Len(Settings(iface)[setting])
             h == [at |-> <<iface, setting>>, endpoint |-> Len(uhe) + 1, num |-> k]
             t == [e \in 1..k |-> <<iface, setting, e>>]
             R == [at : Nat \X Nat, endpoint : Nat \ {0}, num : Nat]
  <1>1. iface \in Ifs /\ setting \in 1..Len(Settings(iface)) /\ cfg \in Configs
        /\ iface \in Nat /\ setting \in Nat
    BY ConfigFacts DEF FillSetting, TreeInv, TreeTypeOK, LayoutInv, LoopRight, Ifs
  <1>2. k \in Nat
    BY <1>1, SettingFacts
  <1>3. uhi \in Seq(R) /\ uhe \in Seq(Triples) /\ Len(uhe) \in Nat /\ Len(uhi) \in Nat
    BY DEF TreeInv, TreeTypeOK
  <1>4. uhi' = Append(uhi, h) /\ uhe' = uhe \o t
    BY DEF FillSetting
  <1> HIDE DEF k
  <1>5. h \in R
    BY <1>1, <1>2, <1>3
  <1>6. ASSUME NEW e \in 1..k
        PROVE  <<iface, setting, e>> \in Triples
    BY <1>1, <1>2, <1>6 DEF Triples
  <1>7. t \in Seq(Triples) /\ Len(t) = k /\ \A e \in 1..k : t[e] = <<iface, setting, e>>
    BY <1>2, <1>6
  <1>8. /\ uhi' \in Seq(R) /\ Len(uhi') = Len(uhi) + 1 /\ uhi'[Len(uhi) + 1] = h
        /\ \A n \in 1..Len(uhi) : uhi'[n] = uhi[n]
    <2> HIDE DEF h, R, t
    <2> QED BY <1>3, <1>4, <1>5, AppendProperties
  <1>9. /\ uhe' \in Seq(Triples) /\ Len(uhe') = Len(uhe) + k
        /\ \A n \in 1..Len(uhe) : uhe'[n] = uhe[n]
        /\ \A e \in 1..k : uhe'[Len(uhe) + e] = t[e]
    <2> HIDE DEF h, R, t
    <2>1. /\ uhe' \in Seq(Triples) /\ Len(uhe') = Len(uhe) + k
          /\ \A n \in 1..Len(uhe) + k :
                 uhe'[n] = IF n <= Len(uhe) THEN uhe[n] ELSE t[n - Len(uhe)]
      BY <1>2, <1>3, <1>4, <1>7, ConcatProperties
    <2>2. \A n \in 1..Len(uhe) : n \in 1..Len(uhe) + k /\ n <= Len(uhe)
      BY <1>2, <1>3
    <2>3. \A e \in 1..k : /\ Len(uhe) + e \in 1..Len(uhe) + k /\ ~(Len(uhe) + e <= Len(uhe))
                          /\ (Len(uhe) + e) - Len(uhe) = e
      BY <1>2, <1>3
    <2>4. \A n \in 1..Len(uhe) : uhe'[n] = uhe[n]
      BY <2>1, <2>2
    <2>5. \A e \in 1..k : uhe'[Len(uhe) + e] = t[e]
      BY <2>1, <2>3
    <2> QED
      BY <2>1, <2>4, <2>5
  <1> QED
    BY <1>1, <1>2, <1>3, <1>7, <1>8, <1>9 DEF k

LEMMA FillLayout ==
    ASSUME TreeInv, FillSetting
    PROVE  TrackRight' /\ PaceSame' /\ SettingsRight'
  <1> DEFINE k == Len(Settings(iface)[setting])
  <1>1. Num' = Num /\ Ifs' = Ifs /\ \A f : Settings(f)' = Settings(f)
    BY SameConfig DEF FillSetting
  <1>2. TrackRight'
    BY <1>1 DEF FillSetting, TreeInv, LayoutInv, TrackRight, Follows
  <1>3. k \in Nat /\ Len(uhi) \in Nat /\ Len(uhi') = Len(uhi) + 1 /\ Len(uhe) \in Nat
        /\ Len(uhe') = Len(uhe) + k
    BY FillPuts
  <1>4. PaceSame'
    <2> DEFINE m == Len(uhi) + 1
               s == track[m]
    <2>1. /\ niface_total \in Nat /\ Len(uhi) <= niface_total /\ Num \in Nat /\ iface \in Nat
          /\ s = [i |-> iface, a |-> setting, e |-> Len(uhe)] /\ iface <= Num
          /\ track[niface_total + 1].i > Num
          /\ \A n \in 1..niface_total : Follows(track[n], track[n + 1])
      BY ConfigFacts DEF FillSetting, TreeInv, TreeTypeOK, LayoutInv, PaceSame, Filled, TrackRight
    <2>2. m # niface_total + 1
      BY <2>1
    <2>3. m \in 1..niface_total /\ Len(uhi') <= niface_total
      BY <1>3, <2>1, <2>2
    <2>4. Follows(s, track[m + 1])
      BY <2>1, <2>3
    <2>5. track[m + 1].i = iface' /\ track[m + 1].a = setting' /\ track[m + 1].e = Len(uhe')
      BY <1>3, <2>1, <2>4 DEF Follows, FillSetting, Advance, AtLast
    <2>6. track[m + 1] \in [i : Nat, a : Nat, e : Nat]
      <3>1. track \in Seq([i : Nat, a : Nat, e : Nat]) /\ m + 1 \in 1..Len(track)
        <4>1. Len(track) = niface_total + 1 /\ m \in Nat
          BY <1>3 DEF TreeInv, LayoutInv, TrackRight
        <4>2. m + 1 \in 1..Len(track)
          BY <2>1, <2>3, <4>1
        <4> QED
          BY <4>2 DEF TreeInv, TreeTypeOK
      <3> HIDE DEF m
      <3> QED
        BY <3>1, ElementOfSeq
    <2>7. track[m + 1] = [i |-> iface', a |-> setting', e |-> Len(uhe')]
      BY <2>5, <2>6
    <2>8. m + 1 = Len(uhi') + 1 /\ build' = "fill" /\ track' = track /\ niface_total' = niface_total
      BY <1>3 DEF FillSetting
    <2> HIDE DEF m, s
    <2> QED
      BY <2>3, <2>7, <2>8 DEF PaceSame, Filled
  <1>5. \A h, mem : SettingRight(h, mem)' <=> SettingRight(h, mem)
    BY <1>1 DEF SettingRight
  <1>6. ASSUME NEW n \in 1..Len(uhi) + 1
        PROVE  SettingRight(uhi'[n], uhe')
    <2>1. CASE n = Len(uhi) + 1
      <3>1. /\ uhi'[n] = [at |-> <<iface, setting>>, endpoint |-> Len(uhe) + 1, num |-> k]
            /\ iface \in Ifs /\ setting \in 1..Len(Settings(iface))
            /\ \A e \in 1..k : uhe'[Len(uhe) + e] = <<iface, setting, e>>
        BY <2>1, FillPuts
      <3>2. \A e \in 1..k : Len(uhe) + 1 + e - 1 = Len(uhe) + e
        BY <1>3
      <3>3. /\ uhi'[n].at[1] = iface /\ uhi'[n].at[2] = setting
            /\ uhi'[n].endpoint = Len(uhe) + 1 /\ uhi'[n].num = k
        BY <3>1
      <3>4. Len(uhe) + 1 + k <= Len(uhe') + 1
        <4>1. \A x, y \in Nat : x + 1 + y <= (x + y) + 1
          OBVIOUS
        <4> HIDE DEF k
        <4> QED
          BY <1>3, <4>1
      <3>5. \A e \in 1..k : uhe'[Len(uhe) + 1 + e - 1] = <<iface, setting, e>>
        BY <3>1, <3>2
      <3> QED
        BY <3>1, <3>3, <3>4, <3>5 DEF SettingRight
    <2>2. CASE n \in 1..Len(uhi)
      <3>1. uhi'[n] = uhi[n] /\ \A q \in 1..Len(uhe) : uhe'[q] = uhe[q]
        BY <2>2, FillPuts
      <3>2. uhi[n] \in [at : Nat \X Nat, endpoint : Nat \ {0}, num : Nat]
        <4>1. uhi \in Seq([at : Nat \X Nat, endpoint : Nat \ {0}, num : Nat])
          BY DEF TreeInv, TreeTypeOK
        <4> QED
          BY <2>2, <4>1, ElementOfSeq
      <3>3. PICK h : h = uhi[n]
        OBVIOUS
      <3>4. SettingRight(h, uhe)
        BY <2>2, <3>3 DEF TreeInv, LayoutInv, SettingsRight
      <3>5. h.endpoint \in Nat /\ h.endpoint > 0 /\ h.num \in Nat
        BY <3>2, <3>3
      <3>6. h.endpoint + h.num <= Len(uhe) + 1
        BY <3>4 DEF SettingRight
      <3>7. h.endpoint + h.num <= Len(uhe') + 1
        BY <1>3, <3>5, <3>6
      <3>8. \A e \in 1..h.num : h.endpoint + e - 1 \in 1..Len(uhe)
        BY <1>3, <3>5, <3>6
      <3>9. \A e \in 1..h.num : uhe'[h.endpoint + e - 1] = <<h.at[1], h.at[2], e>>
        BY <3>1, <3>4, <3>8 DEF SettingRight
      <3>10. SettingRight(h, uhe')
        BY <3>4, <3>7, <3>9 DEF SettingRight
      <3> QED
        BY <3>1, <3>3, <3>10
    <2> QED
      BY <1>3, <2>1, <2>2
  <1>7. SettingsRight'
    BY <1>3, <1>5, <1>6 DEF SettingsRight
  <1> QED
    BY <1>2, <1>4, <1>7

(* Where the loop is, and the pointers to settings. *)
LEMMA FillPlace ==
    ASSUME TreeInv, FillSetting
    PROVE  /\ cfg \in Configs /\ build = "fill" /\ build' = "fill" /\ chosen' = chosen
           /\ iface \in Ifs /\ setting \in 1..Len(Settings(iface)) /\ iface \in Nat /\ setting \in Nat
           /\ iface \in 1..IfaceMax /\ Len(uhi) \in Nat /\ Len(Settings(iface)) \in Nat
           /\ \A f \in Ifs : /\ f \in 1..IfaceMax /\ f \in Nat
                             /\ Len(Settings(f)) \in Nat /\ 1 \in 1..Len(Settings(f))
  <1>1. cfg \in Configs /\ iface \in Nat /\ setting \in Nat
    BY DEF TreeInv, TreeTypeOK
  <1>2. iface \in Ifs /\ setting \in 1..Len(Settings(iface)) /\ Len(uhi) \in Nat
    BY FillPuts
  <1>3. \A f \in Ifs : /\ f \in 1..IfaceMax /\ f \in Nat
                       /\ Len(Settings(f)) \in Nat /\ 1 \in 1..Len(Settings(f))
    BY <1>1, ConfigFacts
  <1>4. build = "fill" /\ build' = "fill" /\ chosen' = chosen
    BY DEF FillSetting
  <1> QED
    BY <1>1, <1>2, <1>3, <1>4

LEMMA FillPointers ==
    ASSUME TreeInv, FillSetting
    PROVE  /\ altsetting \in [1..IfaceMax -> Nat] /\ cur_altsetting \in [1..IfaceMax -> Nat]
           /\ altsetting' \in [1..IfaceMax -> Nat] /\ cur_altsetting' \in [1..IfaceMax -> Nat]
           /\ \A f \in Ifs : f # iface \/ setting # 1 =>
                  altsetting'[f] = altsetting[f] /\ cur_altsetting'[f] = cur_altsetting[f]
           /\ setting = 1 => altsetting'[iface] = Len(uhi) + 1 /\ cur_altsetting'[iface] = Len(uhi) + 1
  <1>1. /\ altsetting \in [1..IfaceMax -> Nat] /\ cur_altsetting \in [1..IfaceMax -> Nat]
        /\ iface \in 1..IfaceMax /\ Len(uhi) + 1 \in Nat
        /\ \A f \in Ifs : f \in 1..IfaceMax
    BY FillPlace DEF TreeInv, TreeTypeOK
  <1>2. CASE setting = 1
    <2>1. /\ altsetting' = [altsetting EXCEPT ![iface] = Len(uhi) + 1]
          /\ cur_altsetting' = [cur_altsetting EXCEPT ![iface] = Len(uhi) + 1]
      BY <1>2 DEF FillSetting
    <2> QED
      BY <1>1, <1>2, <2>1
  <1>3. CASE setting # 1
    <2>1. altsetting' = altsetting /\ cur_altsetting' = cur_altsetting
      BY <1>3 DEF FillSetting
    <2> QED
      BY <1>1, <1>3, <2>1
  <1> QED
    BY <1>2, <1>3

LEMMA FillAlt ==
    ASSUME TreeInv, FillSetting
    PROVE  AltRight' /\ altsetting' \in [1..IfaceMax -> Nat]
  <1>1. Num' = Num /\ Ifs' = Ifs /\ \A f : Settings(f)' = Settings(f)
    BY SameConfig DEF FillSetting
  <1>2. /\ iface \in Ifs /\ setting \in 1..Len(Settings(iface)) /\ iface \in Nat /\ setting \in Nat
        /\ Len(uhi) \in Nat /\ \A f \in Ifs : f \in 1..IfaceMax /\ f \in Nat /\ Len(Settings(f)) \in Nat
    BY FillPlace
  <1>3. /\ Len(uhi') = Len(uhi) + 1 /\ uhi'[Len(uhi) + 1].at = <<iface, setting>>
        /\ \A n \in 1..Len(uhi) : uhi'[n] = uhi[n]
    <2>1. uhi'[Len(uhi) + 1] = [at |-> <<iface, setting>>, endpoint |-> Len(uhe) + 1,
                                num |-> Len(Settings(iface)[setting])]
      BY FillPuts
    <2>2. Len(uhi') = Len(uhi) + 1 /\ \A n \in 1..Len(uhi) : uhi'[n] = uhi[n]
      BY FillPuts
    <2> QED
      BY <2>1, <2>2
  <1>4. /\ altsetting' \in [1..IfaceMax -> Nat]
        /\ \A f \in Ifs : f # iface => altsetting'[f] = altsetting[f]
        /\ setting = 1 => altsetting'[iface] = Len(uhi) + 1
        /\ setting # 1 => altsetting'[iface] = altsetting[iface]
    BY <1>2, FillPointers
  <1>5. altsetting'[iface] + setting = Len(uhi') + 1 /\ altsetting'[iface] \in Nat
    <2>1. setting # 1 => altsetting[iface] + setting = Len(uhi) + 2
      BY <1>2 DEF TreeInv, LayoutInv, AltRight, FillSetting
    <2> QED
      BY <1>2, <1>3, <1>4, <2>1
  <1>6. build' = "fill" /\ build = "fill"
    BY DEF FillSetting
  <1>7. ASSUME NEW f \in Ifs, NEW a \in 1..Len(Settings(f)), Placed(f, a)'
        PROVE  altsetting'[f] + a - 1 \in 1..Len(uhi') /\ uhi'[altsetting'[f] + a - 1].at = <<f, a>>
    <2>1. CASE f = iface /\ a = setting
      <3>1. altsetting'[iface] + setting - 1 = Len(uhi) + 1
        BY <1>2, <1>3, <1>5
      <3> QED
        BY <1>2, <1>3, <2>1, <3>1
    <2>2. CASE ~(f = iface /\ a = setting)
      <3>1. a \in Nat /\ a >= 1 /\ a <= Len(Settings(f))
        BY <1>2
      <3>2. f < iface' \/ (f = iface' /\ a < setting')
        BY <1>7 DEF Placed
      <3>3. f < iface \/ (f = iface /\ a < setting)
        <4>1. CASE AtLast
          BY <1>2, <2>2, <3>1, <3>2, <4>1 DEF FillSetting, Advance, AtLast
        <4>2. CASE ~AtLast
          BY <1>2, <2>2, <3>1, <3>2, <4>2 DEF FillSetting, Advance, AtLast
        <4> QED
          BY <4>1, <4>2
      <3>4. Placed(f, a)
        BY <1>6, <3>3 DEF Placed, Filled
      <3>5. altsetting[f] + a - 1 \in 1..Len(uhi) /\ uhi[altsetting[f] + a - 1].at = <<f, a>>
        BY <3>4 DEF TreeInv, LayoutInv, AltRight
      <3>6. altsetting'[f] = altsetting[f]
        BY <1>2, <1>4, <3>1, <3>3
      <3> QED
        BY <1>2, <1>3, <3>5, <3>6
    <2> QED
      BY <2>1, <2>2
  <1>8. build' = "fill" /\ setting' > 1 => altsetting'[iface'] + setting' = Len(uhi') + 2
    <2>1. CASE AtLast
      BY <2>1 DEF FillSetting, Advance
    <2>2. CASE ~AtLast
      <3>1. iface' = iface /\ setting' = setting + 1
        BY <2>2 DEF FillSetting, Advance
      <3> QED
        BY <1>2, <1>3, <1>5, <3>1
    <2> QED
      BY <2>1, <2>2
  <1> QED
    BY <1>1, <1>4, <1>7, <1>8 DEF AltRight

(* usb_linux_fill_ep_info() sees the endpoints of the setting. *)
LEMMA SliceRight ==
    ASSUME TreeTypeOK, NEW h, NEW mem, SettingRight(h, mem)
    PROVE  /\ DOMAIN Slice(h, mem) = 1..Len(Settings(h.at[1])[h.at[2]])
           /\ \A e \in 1..Len(Settings(h.at[1])[h.at[2]]) :
                  Slice(h, mem)[e] = <<h.at[1], h.at[2], e>>
  BY DEF SettingRight, Slice

LEMMA FillChoice ==
    ASSUME TreeInv, FillSetting, SettingsRight', AltRight'
    PROVE  /\ cur_altsetting' \in [1..IfaceMax -> Nat]
           /\ ep_in' \in [EpNums -> Triples \cup {None}] /\ ep_out' \in [EpNums -> Triples \cup {None}]
           /\ ChosenRight' /\ TablesRight'
  <1>1. Num' = Num /\ Ifs' = Ifs /\ \A f : Settings(f)' = Settings(f)
    BY SameConfig DEF FillSetting
  <1>2. /\ iface \in Ifs /\ setting \in 1..Len(Settings(iface)) /\ iface \in Nat /\ setting \in Nat
        /\ \A f \in Ifs : /\ f \in 1..IfaceMax /\ f \in Nat
                          /\ Len(Settings(f)) \in Nat /\ 1 \in 1..Len(Settings(f))
        /\ cfg \in Configs
    BY FillPlace
  <1>3. /\ altsetting \in [1..IfaceMax -> Nat] /\ cur_altsetting \in [1..IfaceMax -> Nat]
        /\ ep_in \in [EpNums -> Triples \cup {None}] /\ ep_out \in [EpNums -> Triples \cup {None}]
    BY DEF TreeInv, TreeTypeOK
  <1>4. /\ chosen' = chosen /\ build = "fill" /\ build' = "fill"
        /\ \A f \in Ifs : chosen[f] = 1
    BY FillPlace DEF TreeInv, ChoiceInv, ChosenRight
  <1>5. /\ cur_altsetting' \in [1..IfaceMax -> Nat] /\ altsetting' \in [1..IfaceMax -> Nat]
        /\ \A f \in Ifs : f # iface => /\ cur_altsetting'[f] = cur_altsetting[f]
                                       /\ altsetting'[f] = altsetting[f]
        /\ setting = 1 => cur_altsetting'[iface] = altsetting'[iface]
        /\ setting # 1 => /\ cur_altsetting'[iface] = cur_altsetting[iface]
                          /\ altsetting'[iface] = altsetting[iface]
    BY <1>2, FillPointers
  <1>6. \A f \in Ifs : Placed(f, 1) => cur_altsetting[f] = altsetting[f]
    <2>1. \A f \in Ifs : Placed(f, 1) => cur_altsetting[f] = altsetting[f] + chosen[f] - 1
      BY DEF TreeInv, ChoiceInv, ChosenRight
    <2>2. \A f \in Ifs : altsetting[f] + 1 - 1 = altsetting[f]
      BY <1>2, <1>3
    <2> QED
      BY <1>4, <2>1, <2>2
  <1>7. \A f \in Ifs : Placed(f, 1)' => cur_altsetting'[f] = altsetting'[f]
    <2> SUFFICES ASSUME NEW f \in Ifs, Placed(f, 1)'
                 PROVE  cur_altsetting'[f] = altsetting'[f]
      OBVIOUS
    <2>1. CASE f = iface /\ setting = 1
      BY <1>5, <2>1
    <2>2. CASE ~(f = iface /\ setting = 1)
      <3>1. f < iface' \/ (f = iface' /\ 1 < setting')
        BY DEF Placed
      <3>2. f < iface \/ (f = iface /\ 1 < setting)
        BY <1>2, <2>2, <3>1 DEF FillSetting, Advance, AtLast
      <3>3. Placed(f, 1)
        BY <1>4, <3>2 DEF Placed, Filled
      <3> QED
        BY <1>2, <1>5, <1>6, <3>2, <3>3
    <2> QED
      BY <2>1, <2>2
  <1>8. ChosenRight'
    <2>1. \A f \in Ifs : altsetting'[f] + 1 - 1 = altsetting'[f]
      BY <1>2, <1>5
    <2>2. \A f \in Ifs : chosen[f] \in 1..Len(Settings(f))
      BY DEF TreeInv, ChoiceInv, ChosenRight
    <2> QED
      BY <1>1, <1>4, <1>7, <2>1, <2>2 DEF ChosenRight
  <1>0. \A t, d, f, a : Entered(t, d, f, a)' <=> Entered(t, d, f, a)
    BY <1>1 DEF Entered
  <1>9. CASE ~AtLast
    <2>1. iface' = iface /\ ep_in' = ep_in /\ ep_out' = ep_out
      BY <1>9 DEF FillSetting, Advance
    <2>2. TablesRight'
      BY <1>0, <1>1, <1>4, <2>1 DEF TreeInv, ChoiceInv, TablesRight, InTable, Filled
    <2> QED
      BY <1>3, <1>5, <1>8, <2>1, <2>2
  <1>10. CASE AtLast
    <2>1. iface' = iface + 1 /\ Filled /\ Filled'
      BY <1>4, <1>10 DEF FillSetting, Advance, Filled
    <2>2. PICK s : s = Slice(uhi'[cur_altsetting'[iface]], uhe')
      OBVIOUS
    <2>3. ep_in' = Fill(ep_in, s, "in") /\ ep_out' = Fill(ep_out, s, "out")
      BY <1>10, <2>2 DEF FillSetting, usb_linux_fill_ep_info
    <2>4. PICK h : h = uhi'[cur_altsetting'[iface]]
      OBVIOUS
    <2>5. SettingRight(h, uhe') /\ h.at = <<iface, 1>>
      <3>0. PICK g \in Ifs : g = iface
        BY <1>2
      <3>1. 1 \in 1..Len(Settings(g)) /\ Placed(g, 1)'
        BY <1>2, <2>1, <3>0 DEF Placed
      <3>2. altsetting'[g] + 1 - 1 \in 1..Len(uhi') /\ uhi'[altsetting'[g] + 1 - 1].at = <<g, 1>>
        BY <1>1, <3>1 DEF AltRight
      <3>3. cur_altsetting'[g] = altsetting'[g] + 1 - 1
        <4>1. altsetting'[g] + 1 - 1 = altsetting'[g]
          BY <1>2, <1>5
        <4> QED
          BY <1>7, <3>1, <4>1
      <3> QED
        BY <1>1, <2>4, <3>0, <3>2, <3>3 DEF SettingsRight, SettingRight
    <2>6. 1 \in 1..Len(Settings(iface)) /\ DOMAIN s = 1..Len(Settings(iface)[1])
          /\ \A e \in 1..Len(Settings(iface)[1]) : s[e] = <<iface, 1, e>>
      <3>1. TreeTypeOK
        BY DEF TreeInv
      <3>2. s = Slice(h, uhe') /\ h.at[1] = iface /\ h.at[2] = 1
        BY <2>2, <2>4, <2>5
      <3> QED
        BY <1>2, <2>5, <3>1, <3>2, SliceRight
    <2>7. \A f \in Ifs : f < iface' => f = iface \/ f < iface
      BY <1>2, <2>1
    <2>8. ASSUME NEW table, NEW dir,
                 \A f \in Ifs : f < iface => Entered(table, dir, f, 1)
          PROVE  \A f \in Ifs : f < iface' => Entered(Fill(table, s, dir), dir, f, 1)
      <3>1. /\ Entered(Fill(table, s, dir), dir, iface, 1)
            /\ \A g \in Ifs : g # iface /\ Entered(table, dir, g, 1)
                                 => Entered(Fill(table, s, dir), dir, g, 1)
        <4>1. \A g \in Ifs : 1 \in 1..Len(Settings(g))
          BY <1>2, ConfigFacts
        <4> QED
          BY <1>2, <2>6, <4>1, FillSome
      <3>2. \A f \in Ifs : f < iface => f # iface
        BY <1>2
      <3> QED
        BY <2>7, <2>8, <3>1, <3>2
    <2>9. \A f \in Ifs : f < iface => Entered(ep_in, "in", f, 1) /\ Entered(ep_out, "out", f, 1)
      BY <1>4, <2>1 DEF TreeInv, ChoiceInv, TablesRight, InTable
    <2>10. \A f \in Ifs : f < iface' => Entered(ep_in', "in", f, 1) /\ Entered(ep_out', "out", f, 1)
      BY <2>3, <2>8, <2>9
    <2>12. TablesRight'
      BY <1>0, <1>1, <1>4, <2>10 DEF TablesRight, InTable
    <2>13. /\ ep_in' \in [EpNums -> Triples \cup {None}]
           /\ ep_out' \in [EpNums -> Triples \cup {None}]
      BY <1>2, <1>3, <2>3, <2>6, FillSome
    <2> QED
      BY <1>5, <1>8, <2>12, <2>13
  <1> QED
    BY <1>9, <1>10

LEMMA FillStep ==
    ASSUME TreeInv, FillSetting
    PROVE  TreeInv'
  <1>1. LoopRight' /\ iface' \in Nat /\ setting' \in Nat
    BY Advances DEF TreeInv, LayoutInv, FillSetting
  <1>2. TrackRight' /\ PaceSame' /\ SettingsRight'
    BY FillLayout
  <1>3. AltRight' /\ altsetting' \in [1..IfaceMax -> Nat]
    BY FillAlt
  <1>4. /\ cur_altsetting' \in [1..IfaceMax -> Nat]
        /\ ep_in' \in [EpNums -> Triples \cup {None}] /\ ep_out' \in [EpNums -> Triples \cup {None}]
        /\ ChosenRight' /\ TablesRight'
    BY <1>2, <1>3, FillChoice
  <1>5. /\ uhi' \in Seq([at : Nat \X Nat, endpoint : Nat \ {0}, num : Nat]) /\ uhe' \in Seq(Triples)
    BY FillPuts
  <1>6. build' = "fill" /\ UNCHANGED <<cfg, niface_total, nedesc, intf_assoc, chosen, track>>
    BY DEF FillSetting
  <1>7. TreeTypeOK' /\ IadOfInterface'
    BY <1>1, <1>3, <1>4, <1>5, <1>6 DEF TreeInv, TreeTypeOK, IadOfInterface
  <1> QED
    BY <1>1, <1>2, <1>3, <1>4, <1>7 DEF TreeInv, LayoutInv, ChoiceInv

LEMMA ResolveStep ==
    ASSUME TreeInv, ResolveIads
    PROVE  TreeInv'
  <1>1. Num' = Num /\ Ifs' = Ifs /\ num_iad' = num_iad /\ \A f : Settings(f)' = Settings(f)
    BY SameConfig DEF ResolveIads
  <1>2. /\ build = "fill" /\ build' = "made" /\ iface > Num
        /\ UNCHANGED <<cfg, iface, setting, niface_total, nedesc, uhi, uhe, altsetting,
                       cur_altsetting, ep_in, ep_out, chosen, track>>
    BY DEF ResolveIads
  <1>3. num_iad \in Nat /\ cfg \in Configs
    <2>1. cfg \in Configs
      BY DEF TreeInv, TreeTypeOK
    <2>2. Len(cfg.iads) \in Nat /\ MaxIads \in Nat
      BY <2>1, TreeAssumption
    <2> QED
      BY <2>1, <2>2 DEF num_iad
  <1>4. intf_assoc' \in [1..IfaceMax -> Nat]
    BY <1>3 DEF ResolveIads
  <1>5. TreeTypeOK'
    BY <1>2, <1>4 DEF TreeInv, TreeTypeOK
  <1>6. LoopRight' /\ TrackRight' /\ PaceSame' /\ SettingsRight' /\ AltRight'
    BY <1>1, <1>2 DEF TreeInv, LayoutInv, LoopRight, TrackRight, Follows, PaceSame, Filled,
                      SettingsRight, SettingRight, AltRight, Placed
  <1>7. ChosenRight' /\ TablesRight'
    <2>1. \A f \in Ifs : Placed(f, 1)' <=> Placed(f, 1)
      BY <1>2 DEF Placed, Filled
    <2>2. \A t, d, f, a : Entered(t, d, f, a)' <=> Entered(t, d, f, a)
      BY <1>1 DEF Entered
    <2>3. ChosenRight'
      BY <1>1, <1>2, <2>1 DEF TreeInv, ChoiceInv, ChosenRight
    <2>4. TablesRight'
      BY <1>1, <1>2, <2>2 DEF TreeInv, ChoiceInv, TablesRight, InTable, Filled
    <2> QED
      BY <2>3, <2>4
  <1>8. \A n, inum : Covers(n, inum)' <=> Covers(n, inum)
    BY <1>2 DEF Covers
  <1>9. ASSUME NEW f \in Ifs, Len(Settings(f)) > 1
        PROVE  /\ intf_assoc'[f] # 0 => /\ intf_assoc'[f] <= num_iad
                                        /\ Covers(intf_assoc'[f], cfg.ifaces[f].num)
               /\ \A m \in 1..num_iad : Covers(m, cfg.ifaces[f].num) => intf_assoc'[f] \in 1..m
    <2>1. PICK inum : inum = cfg.ifaces[f].num
      OBVIOUS
    <2>2. PICK n : n = intf_assoc'[f]
      OBVIOUS
    <2>3. n = usb_find_iad(inum)
      BY <1>9, <2>1, <2>2 DEF ResolveIads, ReadNumber
    <2>4. CASE Covering(inum) = {}
      BY <2>1, <2>2, <2>3, <2>4 DEF usb_find_iad, Covering
    <2>5. CASE Covering(inum) # {}
      <3>1. Covering(inum) \in SUBSET Nat
        BY <1>3 DEF Covering
      <3>2. \E x \in Covering(inum) : \A y \in Covering(inum) : x <= y
        BY <2>5, <3>1, HasLeast
      <3>3. n \in Covering(inum) /\ \A y \in Covering(inum) : n <= y
        BY <2>3, <2>5, <3>2 DEF usb_find_iad
      <3>4. n \in 1..num_iad /\ Covers(n, inum)
        BY <3>3 DEF Covering
      <3>5. \A m \in 1..num_iad : Covers(m, inum) => n <= m
        BY <3>3 DEF Covering
      <3> QED
        BY <1>3, <2>1, <2>2, <3>4, <3>5
    <2> QED
      BY <2>4, <2>5
  <1>10. IadOfInterface'
    BY <1>1, <1>2, <1>8, <1>9 DEF IadOfInterface
  <1> QED
    BY <1>5, <1>6, <1>7, <1>10 DEF TreeInv, LayoutInv, ChoiceInv

(* A device that is made has all its settings. *)
LEMMA SettingsMade ==
    ASSUME TreeInv, build = "made", NEW f \in Ifs, NEW a \in 1..Len(Settings(f))
    PROVE  /\ altsetting[f] + a - 1 \in 1..Len(uhi)
           /\ uhi[altsetting[f] + a - 1].at = <<f, a>>
           /\ SettingRight(uhi[altsetting[f] + a - 1], uhe)
  <1>1. iface > Num /\ f < iface
    BY ConfigFacts DEF TreeInv, TreeTypeOK, LayoutInv, PaceSame, Ifs
  <1>2. Placed(f, a)
    BY <1>1 DEF Placed, Filled
  <1> QED
    BY <1>2 DEF TreeInv, LayoutInv, AltRight, SettingsRight

LEMMA SetStep ==
    ASSUME TreeInv, NEW no, NEW alt \in 0..MaxAlt, set_interface(no, alt)
    PROVE  TreeInv'
  <1>1. PICK f \in Ifs :
        /\ build = "made" /\ alt < Len(Settings(f))
        /\ \/ /\ chosen' = [chosen EXCEPT ![f] = alt + 1]
              /\ cur_altsetting' = [cur_altsetting EXCEPT ![f] = altsetting[f] + alt]
              /\ ep_in' = Fill(ep_in, Slice(uhi[altsetting[f] + alt], uhe), "in")
              /\ ep_out' = Fill(ep_out, Slice(uhi[altsetting[f] + alt], uhe), "out")
           \/ UNCHANGED <<chosen, cur_altsetting, ep_in, ep_out>>
        /\ UNCHANGED <<cfg, build, iface, setting, niface_total, nedesc, uhi, uhe, altsetting,
                       intf_assoc, track>>
    BY DEF set_interface, usb_altnum_to_altsetting, usb_linux_fill_ep_info
  <1>2. Num' = Num /\ Ifs' = Ifs /\ num_iad' = num_iad /\ \A g : Settings(g)' = Settings(g)
    BY <1>1, SameConfig
  <1>3. /\ cfg \in Configs /\ alt \in Nat /\ MaxAlt \in Nat
        /\ \A g \in Ifs : g \in 1..IfaceMax /\ g \in Nat /\ Len(Settings(g)) \in Nat
    <2>1. cfg \in Configs /\ alt \in Nat /\ MaxAlt \in Nat
      BY TreeAssumption DEF TreeInv, TreeTypeOK
    <2> QED
      BY <2>1, ConfigFacts
  <1>4. /\ altsetting \in [1..IfaceMax -> Nat] /\ cur_altsetting \in [1..IfaceMax -> Nat]
        /\ chosen \in [1..IfaceMax -> Nat]
        /\ ep_in \in [EpNums -> Triples \cup {None}] /\ ep_out \in [EpNums -> Triples \cup {None}]
    BY DEF TreeInv, TreeTypeOK
  <1>5. LoopRight' /\ TrackRight' /\ PaceSame' /\ SettingsRight' /\ AltRight'
    BY <1>1, <1>2 DEF TreeInv, LayoutInv, LoopRight, TrackRight, Follows, PaceSame, Filled,
                      SettingsRight, SettingRight, AltRight, Placed
  <1>6. \A n, inum : Covers(n, inum)' <=> Covers(n, inum)
    BY <1>1 DEF Covers
  <1>7. IadOfInterface'
    BY <1>1, <1>2, <1>6 DEF TreeInv, IadOfInterface
  <1>8. \A t, d, g, a : Entered(t, d, g, a)' <=> Entered(t, d, g, a)
    BY <1>2 DEF Entered
  <1>9. \A g \in Ifs : Placed(g, 1)' <=> Placed(g, 1)
    BY <1>1 DEF Placed, Filled
  <1>10. \A g \in Ifs : /\ chosen[g] \in 1..Len(Settings(g))
                        /\ cur_altsetting[g] = altsetting[g] + chosen[g] - 1
                        /\ Entered(ep_in, "in", g, chosen[g]) /\ Entered(ep_out, "out", g, chosen[g])
    <2>1. \A g \in Ifs : Filled /\ g < iface /\ Placed(g, 1)
      BY <1>1, ConfigFacts DEF TreeInv, TreeTypeOK, LayoutInv, PaceSame, Ifs, Placed, Filled
    <2> QED
      BY <2>1 DEF TreeInv, ChoiceInv, ChosenRight, TablesRight, InTable
  <1>11. CASE UNCHANGED <<chosen, cur_altsetting, ep_in, ep_out>>
    <2>1. TreeTypeOK'
      BY <1>1, <1>11 DEF TreeInv, TreeTypeOK
    <2>2. ChosenRight' /\ TablesRight'
      BY <1>1, <1>2, <1>8, <1>9, <1>10, <1>11 DEF ChosenRight, TablesRight, InTable
    <2> QED
      BY <1>5, <1>7, <2>1, <2>2 DEF TreeInv, LayoutInv, ChoiceInv
  <1>12. CASE /\ chosen' = [chosen EXCEPT ![f] = alt + 1]
              /\ cur_altsetting' = [cur_altsetting EXCEPT ![f] = altsetting[f] + alt]
              /\ ep_in' = Fill(ep_in, Slice(uhi[altsetting[f] + alt], uhe), "in")
              /\ ep_out' = Fill(ep_out, Slice(uhi[altsetting[f] + alt], uhe), "out")
    <2>1. PICK a \in 1..Len(Settings(f)) : a = alt + 1
      BY <1>1, <1>3
    <2>2. PICK h : h = uhi[altsetting[f] + alt]
      OBVIOUS
    <2>3. PICK s : s = Slice(h, uhe)
      OBVIOUS
    <2>4. altsetting[f] + a - 1 = altsetting[f] + alt /\ altsetting[f] + alt \in Nat /\ a \in Nat
      BY <1>3, <1>4, <2>1
    <2>5. h.at = <<f, a>> /\ SettingRight(h, uhe)
      BY <1>1, <2>2, <2>4, SettingsMade
    <2>6. DOMAIN s = 1..Len(Settings(f)[a])
          /\ \A e \in 1..Len(Settings(f)[a]) : s[e] = <<f, a, e>>
      <3>1. TreeTypeOK /\ h.at[1] = f /\ h.at[2] = a
        BY <2>5 DEF TreeInv
      <3> QED
        BY <2>3, <2>5, <3>1, SliceRight
    <2>7. ep_in' = Fill(ep_in, s, "in") /\ ep_out' = Fill(ep_out, s, "out")
      BY <1>12, <2>2, <2>3
    <2>8. /\ chosen'[f] = a /\ \A g \in Ifs : g # f => chosen'[g] = chosen[g]
          /\ cur_altsetting'[f] = altsetting[f] + a - 1
          /\ \A g \in Ifs : g # f => cur_altsetting'[g] = cur_altsetting[g]
          /\ chosen' \in [1..IfaceMax -> Nat] /\ cur_altsetting' \in [1..IfaceMax -> Nat]
      BY <1>3, <1>4, <1>12, <2>1, <2>4
    <2>9. /\ ep_in' \in [EpNums -> Triples \cup {None}]
          /\ ep_out' \in [EpNums -> Triples \cup {None}]
      BY <1>3, <1>4, <2>6, <2>7, FillSome
    <2>10. TreeTypeOK'
      BY <1>1, <2>8, <2>9 DEF TreeInv, TreeTypeOK
    <2>11. ChosenRight'
      BY <1>1, <1>2, <1>9, <1>10, <2>8 DEF ChosenRight
    <2>12. ASSUME NEW g \in Ifs
           PROVE  Entered(ep_in', "in", g, chosen'[g]) /\ Entered(ep_out', "out", g, chosen'[g])
      <3>1. CASE g = f
        BY <1>3, <2>6, <2>7, <2>8, <3>1, FillSome
      <3>2. CASE g # f
        <4>1. chosen[g] \in 1..Len(Settings(g)) /\ chosen'[g] = chosen[g]
          BY <1>10, <2>8, <3>2
        <4> QED
          BY <1>3, <1>10, <2>6, <2>7, <3>2, <4>1, FillSome
      <3> QED
        BY <3>1, <3>2
    <2>13. TablesRight'
      BY <1>2, <1>8, <2>12 DEF TablesRight, InTable
    <2> QED
      BY <1>5, <1>7, <2>10, <2>11, <2>13 DEF TreeInv, LayoutInv, ChoiceInv
  <1> QED
    BY <1>1, <1>11, <1>12

LEMMA TreeStutters ==
    ASSUME TreeInv, UNCHANGED treeVars
    PROVE  TreeInv'
  <1> USE DEF treeVars
  <1>1. Num' = Num /\ Ifs' = Ifs /\ num_iad' = num_iad /\ \A g : Settings(g)' = Settings(g)
    BY SameConfig
  <1>2. TreeTypeOK'
    BY DEF TreeInv, TreeTypeOK
  <1>3. LoopRight' /\ TrackRight' /\ PaceSame' /\ SettingsRight' /\ AltRight'
    BY <1>1 DEF TreeInv, LayoutInv, LoopRight, TrackRight, Follows, PaceSame, Filled,
                SettingsRight, SettingRight, AltRight, Placed
  <1>4. ChosenRight' /\ TablesRight' /\ IadOfInterface'
    BY <1>1 DEF TreeInv, ChoiceInv, ChosenRight, TablesRight, InTable, Entered, Filled, Placed,
                IadOfInterface, Covers
  <1> QED
    BY <1>2, <1>3, <1>4 DEF TreeInv, LayoutInv, ChoiceInv

(* The invariant of UsbTree holds throughout. *)
THEOREM TreeInductive == TreeSpec => []TreeInv
  <1>1. TreeInit => TreeInv
    BY TreeStarts
  <1>2. TreeInv /\ [TreeNext]_treeVars => TreeInv'
    BY CountStep, AllocateStep, FillStep, ResolveStep, SetStep, TreeStutters DEF TreeNext
  <1> QED
    BY <1>1, <1>2, PTL DEF TreeSpec

-----------------------------------------------------------------------------
(* What follows from the invariant. *)
LEMMA LayoutFollows ==
    ASSUME TreeInv
    PROVE  LayoutFits
  <1>1. /\ niface_total \in Nat /\ nedesc \in Nat /\ Len(uhi) \in Nat /\ Len(uhe) \in Nat
        /\ cfg \in Configs /\ Num \in Nat /\ iface \in Nat
    BY ConfigFacts DEF TreeInv, TreeTypeOK
  <1>2. CASE ~Filled
    BY <1>1, <1>2 DEF TreeInv, LayoutInv, PaceSame, Filled, LayoutFits
  <1>3. CASE Filled
    <2> DEFINE m == Len(uhi) + 1
    <2>1. /\ Len(uhi) <= niface_total
          /\ track[m] = [i |-> iface, a |-> setting, e |-> Len(uhe)]
          /\ \A n \in 1..niface_total + 1 : track[n].e <= nedesc
          /\ \A n \in 1..niface_total : track[n].i <= Num
      BY <1>3 DEF TreeInv, LayoutInv, PaceSame, TrackRight
    <2>2. Len(uhe) <= nedesc
      <3>1. m \in 1..niface_total + 1
        BY <1>1, <2>1
      <3> QED
        BY <2>1, <3>1
    <2>3. ASSUME build = "made"
          PROVE  Len(uhi) = niface_total /\ Len(uhe) = nedesc
      <3>1. iface > Num /\ track[niface_total + 1].e = nedesc
        BY <2>3 DEF TreeInv, LayoutInv, PaceSame, TrackRight
      <3>2. ~(m \in 1..niface_total)
        BY <1>1, <2>1, <3>1
      <3>3. Len(uhi) = niface_total
        BY <1>1, <2>1, <3>2
      <3> QED
        BY <2>1, <3>1, <3>3
    <2>4. ASSUME build = "made", NEW f \in Ifs, NEW a \in 1..Len(Settings(f))
          PROVE  LET h == uhi[usb_altnum_to_altsetting(f, a - 1)] IN
                 /\ h.at = <<f, a>>
                 /\ Slice(h, uhe) = [e \in 1..Len(Settings(f)[a]) |-> <<f, a, e>>]
      <3>1. PICK h : h = uhi[altsetting[f] + a - 1]
        OBVIOUS
      <3>2. h.at = <<f, a>> /\ SettingRight(h, uhe)
        BY <2>4, <3>1, SettingsMade
      <3>3. Slice(h, uhe) = [e \in 1..Len(Settings(f)[a]) |-> <<f, a, e>>]
        <4>1. h.at[1] = f /\ h.at[2] = a
          BY <3>2
        <4>2. /\ h.num = Len(Settings(f)[a])
              /\ \A e \in 1..h.num : uhe[h.endpoint + e - 1] = <<f, a, e>>
          BY <3>2, <4>1 DEF SettingRight
        <4> QED
          BY <4>2 DEF Slice
      <3>4. usb_altnum_to_altsetting(f, a - 1) = altsetting[f] + a - 1
        <4>1. f \in 1..IfaceMax /\ Len(Settings(f)) \in Nat
          BY <1>1, ConfigFacts
        <4>2. altsetting \in [1..IfaceMax -> Nat]
          BY DEF TreeInv, TreeTypeOK
        <4>3. altsetting[f] \in Nat /\ a \in Nat
          BY <4>1, <4>2
        <4> QED
          BY <4>3 DEF usb_altnum_to_altsetting
      <3> QED
        BY <3>1, <3>2, <3>3, <3>4
    <2> QED
      BY <2>1, <2>2, <2>3, <2>4 DEF LayoutFits
  <1> QED
    BY <1>2, <1>3

(* The search sees the endpoints that are in use, and some match is the    *)
(* first one.                                                              *)
LEMMA SearchSees ==
    ASSUME TreeInv, build = "made", NEW f \in Ifs
    PROVE  /\ chosen[f] \in 1..Len(Settings(f))
           /\ Current(f).num = Len(Settings(f)[chosen[f]]) /\ Current(f).num <= Len(uhe)
           /\ \A e \in 1..Current(f).num : Looked(<<f, e>>) = <<f, chosen[f], e>>
           /\ Entered(ep_in, "in", f, chosen[f]) /\ Entered(ep_out, "out", f, chosen[f])
  <1>1. f < iface /\ Filled /\ Placed(f, 1)
    BY ConfigFacts DEF TreeInv, TreeTypeOK, LayoutInv, PaceSame, Ifs, Placed, Filled
  <1>2. /\ chosen[f] \in 1..Len(Settings(f)) /\ cur_altsetting[f] = altsetting[f] + chosen[f] - 1
        /\ Entered(ep_in, "in", f, chosen[f]) /\ Entered(ep_out, "out", f, chosen[f])
    BY <1>1 DEF TreeInv, ChoiceInv, ChosenRight, TablesRight, InTable
  <1>3. PICK h : h = Current(f)
    OBVIOUS
  <1>4. h.at = <<f, chosen[f]>> /\ SettingRight(h, uhe) /\ cur_altsetting[f] \in 1..Len(uhi)
    BY <1>2, <1>3, SettingsMade DEF Current
  <1>5. /\ h.num = Len(Settings(f)[chosen[f]]) /\ h.endpoint + h.num <= Len(uhe) + 1
        /\ \A e \in 1..h.num : uhe[h.endpoint + e - 1] = <<f, chosen[f], e>>
    <2>1. h.at[1] = f /\ h.at[2] = chosen[f]
      BY <1>4
    <2> QED
      BY <1>4, <2>1 DEF SettingRight
  <1>6. h \in [at : Nat \X Nat, endpoint : Nat \ {0}, num : Nat] /\ Len(uhe) \in Nat
    <2>1. uhi \in Seq([at : Nat \X Nat, endpoint : Nat \ {0}, num : Nat]) /\ Len(uhe) \in Nat
      BY DEF TreeInv, TreeTypeOK
    <2> QED
      BY <1>3, <1>4, <2>1, ElementOfSeq DEF Current
  <1>7. h.num <= Len(uhe)
    <2>1. h.num \in Nat /\ h.endpoint \in Nat /\ h.endpoint >= 1
      BY <1>6
    <2> QED
      BY <1>5, <1>6, <2>1
  <1>8. \A e : Looked(<<f, e>>) = uhe[h.endpoint + e - 1]
    BY <1>3 DEF Looked
  <1> QED
    BY <1>2, <1>3, <1>5, <1>7, <1>8

LEMMA FittingRight ==
    ASSUME TreeInv, build = "made", NEW pipe
    PROVE  /\ \A x \in Fitting(pipe) :
                  /\ x[1] \in Ifs /\ x[2] \in 1..Len(Settings(x[1])[chosen[x[1]]])
                  /\ Looked(x) = <<x[1], chosen[x[1]], x[2]>>
                  /\ FitsPipe(Settings(x[1])[chosen[x[1]]][x[2]], pipe)
           /\ \A f \in Ifs : \A e \in 1..Len(Settings(f)[chosen[f]]) :
                  FitsPipe(Settings(f)[chosen[f]][e], pipe) => <<f, e>> \in Fitting(pipe)
  <1>1. cfg \in Configs /\ Len(uhe) \in Nat
    BY DEF TreeInv, TreeTypeOK
  <1>2. ASSUME NEW x \in Fitting(pipe)
        PROVE  /\ x[1] \in Ifs /\ x[2] \in 1..Len(Settings(x[1])[chosen[x[1]]])
               /\ Looked(x) = <<x[1], chosen[x[1]], x[2]>>
               /\ FitsPipe(Settings(x[1])[chosen[x[1]]][x[2]], pipe)
    <2>1. /\ x \in Ifs \X (1..Len(uhe)) /\ x[2] <= Current(x[1]).num
          /\ FitsPipe(At(Looked(x)), pipe)
      BY <1>2 DEF Fitting
    <2>2. PICK f \in Ifs, e \in 1..Len(uhe) : x = <<f, e>>
      BY <2>1
    <2>3. x[1] = f /\ x[2] = e
      BY <2>2
    <2>4. /\ Current(f).num = Len(Settings(f)[chosen[f]]) /\ chosen[f] \in 1..Len(Settings(f))
          /\ \A k \in 1..Current(f).num : Looked(<<f, k>>) = <<f, chosen[f], k>>
      BY SearchSees
    <2>5. e \in 1..Current(f).num
      <3>1. Current(f).num \in Nat /\ e <= Current(f).num
        BY <1>1, <2>1, <2>3, <2>4, SettingFacts
      <3> QED
        BY <1>1, <3>1
    <2>6. Looked(x) = <<f, chosen[f], e>>
      BY <2>2, <2>4, <2>5
    <2>7. At(Looked(x)) = Settings(f)[chosen[f]][e]
      BY <2>6 DEF At
    <2> QED
      BY <2>1, <2>3, <2>4, <2>5, <2>6, <2>7
  <1>3. ASSUME NEW f \in Ifs, NEW e \in 1..Len(Settings(f)[chosen[f]]),
               FitsPipe(Settings(f)[chosen[f]][e], pipe)
        PROVE  <<f, e>> \in Fitting(pipe)
    <2>1. /\ Current(f).num = Len(Settings(f)[chosen[f]]) /\ Current(f).num <= Len(uhe)
          /\ chosen[f] \in 1..Len(Settings(f)) /\ Looked(<<f, e>>) = <<f, chosen[f], e>>
      BY SearchSees
    <2>2. Len(Settings(f)[chosen[f]]) \in Nat
      BY <1>1, <2>1, SettingFacts
    <2>3. e \in 1..Len(uhe) /\ e <= Current(f).num
      BY <1>1, <2>1, <2>2
    <2>4. At(Looked(<<f, e>>)) = Settings(f)[chosen[f]][e]
      BY <2>1 DEF At
    <2> QED
      BY <1>3, <2>3, <2>4 DEF Fitting
  <1> QED
    BY <1>2, <1>3

LEMMA HasFirst ==
    ASSUME NEW S \in SUBSET (Nat \X Nat), S # {}
    PROVE  \E x \in S : \A y \in S : Earlier(x, y)
  <1>1. \A x \in S : x = <<x[1], x[2]>> /\ x[1] \in Nat /\ x[2] \in Nat
    OBVIOUS
  <1> DEFINE A == {x[1] : x \in S}
  <1>2. PICK f \in A : \A g \in A : f <= g
    <2>1. A \in SUBSET Nat /\ A # {}
      BY <1>1
    <2> HIDE DEF A
    <2> QED
      BY <2>1, HasLeast
  <1> DEFINE B == {x[2] : x \in {y \in S : y[1] = f}}
  <1>3. PICK e \in B : \A k \in B : e <= k
    <2>1. B \in SUBSET Nat /\ B # {}
      BY <1>1, <1>2
    <2> HIDE DEF B
    <2> QED
      BY <2>1, HasLeast
  <1>4. PICK x \in S : x[1] = f /\ x[2] = e
    BY <1>3
  <1>5. ASSUME NEW y \in S
        PROVE  Earlier(x, y)
    <2>1. f <= y[1] /\ f \in Nat /\ y[1] \in Nat
      BY <1>1, <1>2
    <2>2. y[1] = f => e <= y[2]
      BY <1>3
    <2> QED
      BY <1>4, <2>1, <2>2 DEF Earlier
  <1> QED
    BY <1>5

LEMMA SearchFinds ==
    ASSUME TreeInv, build = "made", NEW pipe, Fitting(pipe) # {}
    PROVE  \E x \in Fitting(pipe) : usb_find_host_endpoint(pipe) = Looked(x)
  <1>1. Fitting(pipe) \in SUBSET (Nat \X Nat)
    <2>1. Len(uhe) \in Nat /\ \A f \in Ifs : f \in Nat
      BY ConfigFacts DEF TreeInv, TreeTypeOK
    <2>2. Fitting(pipe) \subseteq Ifs \X (1..Len(uhe))
      BY DEF Fitting
    <2> QED
      BY <2>1, <2>2
  <1>2. \E x \in Fitting(pipe) : \A y \in Fitting(pipe) : Earlier(x, y)
    BY <1>1, HasFirst
  <1> DEFINE x == CHOOSE x \in Fitting(pipe) : \A y \in Fitting(pipe) : Earlier(x, y)
  <1>3. x \in Fitting(pipe)
    BY <1>2
  <1>4. usb_find_host_endpoint(pipe) = Looked(x)
    BY DEF usb_find_host_endpoint
  <1> QED
    BY <1>3, <1>4

LEMMA PipesFollow ==
    ASSUME TreeInv
    PROVE  PipesResolve
  <1> SUFFICES ASSUME build = "made"
               PROVE  /\ \A p \in InUse : /\ usb_find_host_endpoint(At(p)) = p
                                          /\ At(p).ep # 0 => usb_pipe_endpoint(At(p)) = p
                      /\ \A pipe \in Endpoints :
                          LET q == usb_find_host_endpoint(pipe) IN
                          /\ q \in InUse \cup {None, Ep0}
                          /\ q = Ep0 => pipe.ep = 0 /\ pipe.type = Control
    BY DEF PipesResolve
  <1>1. cfg \in Configs /\ \A f \in Ifs : f \in Nat /\ f >= 1
    BY ConfigFacts DEF TreeInv, TreeTypeOK, Ifs
  <1>2. \A p : p \in InUse <=> \E f \in Ifs : \E e \in 1..Len(Settings(f)[chosen[f]]) :
                                  p = <<f, chosen[f], e>>
    BY DEF InUse
  <1>3. ASSUME NEW f \in Ifs, NEW e \in 1..Len(Settings(f)[chosen[f]])
        PROVE  /\ usb_find_host_endpoint(Settings(f)[chosen[f]][e]) = <<f, chosen[f], e>>
               /\ Settings(f)[chosen[f]][e].ep # 0 =>
                      usb_pipe_endpoint(Settings(f)[chosen[f]][e]) = <<f, chosen[f], e>>
    <2>1. PICK pipe : pipe = Settings(f)[chosen[f]][e]
      OBVIOUS
    <2>2. /\ chosen[f] \in 1..Len(Settings(f))
          /\ Entered(ep_in, "in", f, chosen[f]) /\ Entered(ep_out, "out", f, chosen[f])
      BY SearchSees
    <2>3. pipe \in Endpoints
      BY <1>1, <2>1, <2>2, SettingFacts
    <2>4. <<f, e>> \in Fitting(pipe)
      BY <2>1, FittingRight DEF FitsPipe
    <2>5. PICK x \in Fitting(pipe) : usb_find_host_endpoint(pipe) = Looked(x)
      BY <2>4, SearchFinds
    <2>6. /\ x[1] \in Ifs /\ x[2] \in 1..Len(Settings(x[1])[chosen[x[1]]])
          /\ Looked(x) = <<x[1], chosen[x[1]], x[2]>>
          /\ FitsPipe(Settings(x[1])[chosen[x[1]]][x[2]], pipe)
      BY <2>5, FittingRight
    <2>7. PICK g \in Ifs : g = x[1]
      BY <2>6
    <2>8. PICK k \in 1..Len(Settings(g)[chosen[g]]) : g = x[1] /\ k = x[2]
      BY <2>6, <2>7
    <2>9. SameEndpoint(Settings(f)[chosen[f]][e], Settings(g)[chosen[g]][k])
      BY <2>1, <2>6, <2>8 DEF FitsPipe, SameEndpoint
    <2>10. f = g
      <3>1. chosen[g] \in 1..Len(Settings(g))
        BY SearchSees
      <3> QED
        BY <1>1, <2>2, <2>9, <3>1, Apart
    <2>11. e = k
      <3>1. \A q \in 1..Len(Settings(f)[chosen[f]]) :
                SameEndpoint(Settings(f)[chosen[f]][e], Settings(f)[chosen[f]][q]) => e = q
        BY <1>1, <2>2, Apart
      <3> QED
        BY <2>9, <2>10, <3>1
    <2>12. usb_find_host_endpoint(pipe) = <<f, chosen[f], e>>
      BY <2>5, <2>6, <2>8, <2>10, <2>11
    <2>13. ASSUME pipe.ep # 0
           PROVE  usb_pipe_endpoint(pipe) = <<f, chosen[f], e>>
      <3>1. pipe.dir = "in" \/ pipe.dir = "out"
        BY <2>3 DEF Endpoints, Dirs
      <3> QED
        BY <2>1, <2>2, <2>13, <3>1 DEF Entered, usb_pipe_endpoint
    <2> QED
      BY <2>1, <2>12, <2>13
  <1>4. ASSUME NEW p \in InUse
        PROVE  usb_find_host_endpoint(At(p)) = p /\ (At(p).ep # 0 => usb_pipe_endpoint(At(p)) = p)
    <2>0. PICK f \in Ifs : \E e \in 1..Len(Settings(f)[chosen[f]]) : p = <<f, chosen[f], e>>
      BY <1>2
    <2>1. PICK e \in 1..Len(Settings(f)[chosen[f]]) : p = <<f, chosen[f], e>>
      BY <2>0
    <2>2. At(p) = Settings(f)[chosen[f]][e]
      BY <2>1 DEF At
    <2> QED
      BY <1>3, <2>1, <2>2
  <1>5. ASSUME NEW pipe \in Endpoints
        PROVE  /\ usb_find_host_endpoint(pipe) \in InUse \cup {None, Ep0}
               /\ usb_find_host_endpoint(pipe) = Ep0 => pipe.ep = 0 /\ pipe.type = Control
    <2>1. CASE Fitting(pipe) = {}
      <3>1. None # Ep0
        <4>1. Ep0 \in Nat \X Nat \X Nat
          BY DEF Ep0
        <4> QED
          BY <4>1, TreeAssumption
      <3> QED
        BY <2>1, <3>1 DEF usb_find_host_endpoint
    <2>2. CASE Fitting(pipe) # {}
      <3>1. PICK x \in Fitting(pipe) : usb_find_host_endpoint(pipe) = Looked(x)
        BY <2>2, SearchFinds
      <3>2. /\ x[1] \in Ifs /\ x[2] \in 1..Len(Settings(x[1])[chosen[x[1]]])
            /\ Looked(x) = <<x[1], chosen[x[1]], x[2]>>
        BY <3>1, FittingRight
      <3>3. PICK q : q = usb_find_host_endpoint(pipe)
        OBVIOUS
      <3>4. q = <<x[1], chosen[x[1]], x[2]>> /\ q \in InUse
        BY <1>2, <3>1, <3>2, <3>3
      <3>5. q # Ep0
        BY <1>1, <3>2, <3>4 DEF Ep0
      <3> QED
        BY <3>3, <3>4, <3>5
    <2> QED
      BY <2>1, <2>2
  <1> QED
    BY <1>4, <1>5

(* UsbTree: for every configuration whose endpoint addresses are apart,    *)
(* usb_linux_create_usb_device() stays within the block whose size it has  *)
(* computed, pipes lead to the endpoints of the settings that the device   *)
(* has selected, and interfaces get the associations they are part of.     *)
THEOREM TreeAlwaysRight == TreeSpec => []TreeRight
  <1>1. TreeInv => TreeRight
    BY LayoutFollows, PipesFollow DEF TreeRight, TreeInv
  <1> QED
    BY <1>1, TreeInductive, PTL
================================================================================
