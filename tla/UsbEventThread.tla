---------------------------- MODULE UsbEventThread ----------------------------
(***************************************************************************)
(* The thread that processes USB events (linux_usb.c): it is started when  *)
(* a device is attached, taken down and started again by every             *)
(* usb_set_interface(), and taken down for good by a detach.  Two plain    *)
(* flags and a signal, which interrupts nothing but a wait for events, are *)
(* all that the two sides have in common.  The driver makes one of these   *)
(* calls at a time.                                                        *)
(*                                                                         *)
(*   started, stopping  sc->thread_started, sc->thread_stopping            *)
(*   ev       each event thread: "none" (not there), "begin", "process",   *)
(*            "error", "sleep", "wait", "test", "leave" (out of the loop)  *)
(*   pc, op   the driver's call: "attach", "set", "detach"                 *)
(*   left     interfaces that usb_linux_cleanup_interface() has to see to  *)
(*   open     interfaces with open transfers                               *)
(*   lock     who has the global atomic lock; what the driver gave up is   *)
(*            in drops                                                     *)
(*   device   "open", "gone" (unplugged), "closed", "freed"                *)
(*   failed   pthread_create() did not give a thread (history)             *)
(*   daemon   "runs" or "exited"                                           *)
(***************************************************************************)
EXTENDS Integers, FiniteSets, FiniteSetsExt

CONSTANTS
    Evs,            \* event threads there may be
    Ifaces,         \* interfaces of the device, numbers
    MaxCalls        \* bound: calls of usb_set_interface()

VARIABLES started, stopping, ev, pc, op, left, open, lock, drops, device, failed, daemon, calls

eventVars == <<started, stopping, ev, pc, op, left, open, lock, drops, device, failed, daemon, calls>>
thread == <<started, stopping, ev>>

EventInit ==
    /\ started = FALSE /\ stopping = FALSE /\ ev = [e \in Evs |-> "none"]
    /\ pc = "create" /\ op = "attach" /\ left = {} /\ open = {}
    /\ lock = "free" /\ drops = FALSE /\ device = "open" /\ failed = FALSE
    /\ daemon = "runs" /\ calls = 0

-----------------------------------------------------------------------------
(* usb_exec() *)

Go(e, from, to) == daemon = "runs" /\ ev[e] = from /\ ev' = [ev EXCEPT ![e] = to]

Begin(e) ==
    /\ Go(e, "begin", "process")
    /\ started' = TRUE
    /\ UNCHANGED <<stopping, pc, op, left, open, lock, drops, device, failed, daemon, calls>>

(* libusb20_dev_process() with the lock: the handlers it calls may submit  *)
(* again to transfers that are open; it fails when the device is gone and  *)
(* may fail for other reasons.                                             *)
Process(e) ==
    /\ lock = "free"
    /\ \/ device # "gone" /\ Go(e, "process", "wait")
       \/ Go(e, "process", "error")
    /\ UNCHANGED <<started, stopping, pc, op, left, open, lock, drops, device, failed, daemon, calls>>

(* The device is asked for: the daemon ends when it is gone. *)
CheckGone(e) ==
    /\ daemon = "runs" /\ ev[e] = "error"
    /\ IF device = "gone"
       THEN daemon' = "exited" /\ UNCHANGED ev
       ELSE /\ ev' = [ev EXCEPT ![e] = IF stopping THEN "leave" ELSE "sleep"]
            /\ UNCHANGED daemon
    /\ UNCHANGED <<started, stopping, pc, op, left, open, lock, drops, device, failed, calls>>

Sleep(e) ==
    /\ Go(e, "sleep", "wait")
    /\ UNCHANGED <<started, stopping, pc, op, left, open, lock, drops, device, failed, daemon, calls>>

(* libusb20_dev_wait_process() comes back for an event; see Stop for the   *)
(* signal.                                                                 *)
Event(e) ==
    /\ Go(e, "wait", "test")
    /\ UNCHANGED <<started, stopping, pc, op, left, open, lock, drops, device, failed, daemon, calls>>

Test(e) ==
    /\ Go(e, "test", IF stopping THEN "leave" ELSE "process")
    /\ UNCHANGED <<started, stopping, pc, op, left, open, lock, drops, device, failed, daemon, calls>>

Leave(e) ==
    /\ Go(e, "leave", "none")
    /\ started' = FALSE
    /\ UNCHANGED <<stopping, pc, op, left, open, lock, drops, device, failed, daemon, calls>>

-----------------------------------------------------------------------------
(* usb_linux_create_event_thread(): the flags, the thread, and a wait for  *)
(* it to begin without the lock.                                           *)

Create ==
    /\ daemon = "runs" /\ pc = "create"
    /\ IF started
       THEN pc' = "idle" /\ lock' = "free" /\ UNCHANGED <<thread, drops, failed>>
       ELSE /\ stopping' = FALSE /\ started' = FALSE
            /\ \/ /\ \E e \in Evs : ev[e] = "none" /\ ev' = [ev EXCEPT ![e] = "begin"]
                  /\ pc' = "await" /\ failed' = FALSE
                  /\ drops' = (lock = "driver") /\ lock' = "free"
               \/ /\ failed' = TRUE /\ pc' = "idle" /\ lock' = "free"
                  /\ UNCHANGED <<ev, drops>>
    /\ UNCHANGED <<op, left, open, device, daemon, calls>>

(* The driver goes back with the lock it had and gives it back in its turn. *)
Await ==
    /\ daemon = "runs" /\ pc = "await" /\ started
    /\ pc' = "idle" /\ drops' = FALSE
    /\ UNCHANGED <<thread, op, left, open, lock, device, failed, daemon, calls>>

-----------------------------------------------------------------------------
(* usb_set_interface(): without the lock, every interface is cleaned up,   *)
(* then the alternate setting is selected.                                 *)
Affected(i) == Ifaces

usb_set_interface ==
    /\ daemon = "runs" /\ pc = "idle" /\ calls < MaxCalls
    /\ calls' = calls + 1 /\ op' = "set" /\ pc' = "close"
    /\ \E i \in Ifaces : left' = Affected(i)
    /\ drops' \in BOOLEAN                   \* called with the lock or without
    /\ UNCHANGED <<thread, open, lock, device, failed, daemon>>

(* usb_linux_detach(): after the driver's disconnect() *)
usb_linux_detach ==
    /\ daemon = "runs" /\ pc = "idle"
    /\ op' = "detach" /\ pc' = "close"
    /\ \E i \in Ifaces : left' = {i}
    /\ UNCHANGED <<thread, open, lock, drops, device, failed, daemon, calls>>

(* usb_linux_cleanup_interface(): closes the transfers of an interface ... *)
CleanupClose ==
    /\ daemon = "runs" /\ pc = "close" /\ left # {}
    /\ open' = open \ {Min(left)}
    /\ pc' = "stop"
    /\ UNCHANGED <<thread, op, left, lock, drops, device, failed, daemon, calls>>

(* ... and sees the thread off: a signal in each turn, which may come when *)
(* the thread is not waiting.                                              *)
Signalled(s) == IF s = "wait" THEN "test" ELSE s

CleanupStopMutant ==
    /\ daemon = "runs" /\ pc = "stop"
    /\ stopping' = TRUE
    /\ ev' = [e \in Evs |-> Signalled(ev[e])]
    /\ left' = left \ {Min(left)}
    /\ pc' = IF left' # {} THEN "close" ELSE IF op = "set" THEN "alt" ELSE "shut"
    /\ UNCHANGED <<started, op, open, lock, drops, device, failed, daemon, calls>>
CleanupStop ==
    /\ daemon = "runs" /\ pc = "stop"
    /\ IF started
       THEN /\ stopping' = TRUE
            /\ ev' = [e \in Evs |-> Signalled(ev[e])]
            /\ UNCHANGED <<started, pc, left>>
       ELSE /\ left' = left \ {Min(left)}
            /\ pc' = IF left' # {} THEN "close" ELSE IF op = "set" THEN "alt" ELSE "shut"
            /\ UNCHANGED thread
    /\ UNCHANGED <<op, open, lock, drops, device, failed, daemon, calls>>

(* libusb20_dev_set_alt_index(), and the lock is taken again. *)
SetAlt ==
    /\ daemon = "runs" /\ pc = "alt"
    /\ pc' = "create"
    /\ lock' = IF drops THEN "driver" ELSE "free"
    /\ UNCHANGED <<thread, op, left, open, drops, device, failed, daemon, calls>>

(* usb_linux_detach_sub(): the device is closed, then all is freed. *)
Shut ==
    /\ daemon = "runs" /\ pc = "shut"
    /\ device' = "closed" /\ pc' = "free"
    /\ UNCHANGED <<thread, op, left, open, lock, drops, failed, daemon, calls>>

usb_linux_free_device ==
    /\ daemon = "runs" /\ pc = "free"
    /\ device' = "freed" /\ open' = {} /\ pc' = "end"
    /\ started' = FALSE /\ stopping' = FALSE
    /\ UNCHANGED <<ev, op, left, lock, drops, failed, daemon, calls>>

(* usb_submit_urb() between the calls: usb_setup_endpoint() *)
Submit ==
    /\ daemon = "runs" /\ pc = "idle"
    /\ \E i \in Ifaces \ open : open' = open \cup {i}
    /\ UNCHANGED <<thread, pc, op, left, lock, drops, device, failed, daemon, calls>>

Unplug ==
    /\ daemon = "runs" /\ device = "open"
    /\ device' = "gone"
    /\ UNCHANGED <<thread, pc, op, left, open, lock, drops, failed, daemon, calls>>

Driver == \/ Create \/ Await \/ CleanupClose \/ CleanupStop \/ SetAlt \/ Shut
          \/ usb_linux_free_device
EvStep(e) == Begin(e) \/ Process(e) \/ CheckGone(e) \/ Sleep(e) \/ Test(e) \/ Leave(e)

EventNext ==
    \/ Driver \/ usb_set_interface \/ usb_linux_detach \/ Submit \/ Unplug
    \/ \E e \in Evs : EvStep(e) \/ Event(e)

EventSpec == EventInit /\ [][EventNext]_eventVars

-----------------------------------------------------------------------------
InLoop(e) == ev[e] \notin {"none", "leave"}

(* There is never a second event thread. *)
OneEventThread == Cardinality({e \in Evs : ev[e] # "none"}) <= 1

(* While the alternate setting changes, and from the moment the device is  *)
(* closed, no event thread is at the device ...                            *)
AloneAtDevice == pc = "alt" \/ device \in {"closed", "freed"} => \A e \in Evs : ~InLoop(e)

(* ... and no interface has a transfer open that belongs to the old        *)
(* setting.                                                                *)
AltKillsAll == pc = "alt" => open = {}

(* Between the calls the events are served: a thread is in its loop and is *)
(* not asked to leave by a request of an earlier call, unless there was no *)
(* thread to be had.                                                       *)
EventsServed ==
    pc = "idle" /\ daemon = "runs" /\ ~failed => started /\ ~stopping /\ \E e \in Evs : InLoop(e)

(* Together: there is never a second event thread, and between the calls   *)
(* there is one that serves events; while the alternate setting changes,   *)
(* and once the device is closed, none is at the device and no transfer of *)
(* the old setting is open.                                                *)
EventsSafe == OneEventThread /\ EventsServed /\ AloneAtDevice /\ AltKillsAll

(* usb_set_interface() and usb_linux_detach() come back, though the signal *)
(* may come at the wrong moment and the thread needs the lock.             *)
CallsReturn == pc = "stop" ~> (pc \in {"idle", "end"} \/ daemon = "exited")

(* An unplugged device ends the daemon, whatever calls are under way.      *)
GoneEnds == device = "gone" ~> (daemon = "exited" \/ failed \/ device = "closed")
=============================================================================
