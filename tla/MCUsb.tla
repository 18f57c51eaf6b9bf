-------------------------------- MODULE MCUsb --------------------------------
(***************************************************************************)
(* USB calls that wait for others, with the scheduling they rely on:       *)
(* scatter-gather requests, anchors, the event thread, and the killing of  *)
(* URBs.  They share no state here; a behaviour is one of the part it is   *)
(* named for, and the variables of the others keep their initial values.   *)
(***************************************************************************)
EXTENDS UsbSg, UsbAnchor, UsbEventThread

VARIABLES part,
    queue, opened, priv, pending, cancel, restart, ustatus, hcpriv, no_resubmit, ureject,
    frames, killer, owed, asked

U == INSTANCE UsbUrb WITH BigUrbs <- {}, MaxReject <- 1, status <- ustatus, reject <- ureject

uv == <<queue, opened, priv, pending, cancel, restart, ustatus, hcpriv, no_resubmit, ureject,
        frames, killer, owed, asked>>

Init ==
    /\ part \in {"sg", "anchor", "event", "urb"}
    /\ SgInit /\ AnchorInit /\ EventInit /\ U!Init

Next ==
    \/ part = "sg" /\ SgNext /\ UNCHANGED <<part, anchorVars, eventVars, uv>>
    \/ part = "anchor" /\ AnchorNext /\ UNCHANGED <<part, sgVars, eventVars, uv>>
    \/ part = "event" /\ EventNext /\ UNCHANGED <<part, sgVars, anchorVars, uv>>
    \/ part = "urb" /\ U!Next /\ UNCHANGED <<part, sgVars, anchorVars, eventVars>>

(* Threads that can go on do.  A transfer that is cancelled or killed      *)
(* ends, one that nobody cancels need not; a wait for events ends when the *)
(* device is gone; the driver does what it has begun.                      *)
Fairness ==
    /\ WF_sgVars(part = "sg" /\ Wait)
    /\ \A u \in SgUrbs : WF_sgVars(part = "sg" /\ (StartTransfer(u) \/ Ends(u, "ECONNRESET")))
    /\ \A c \in Cancellers : WF_sgVars(part = "sg" /\ cpc[c] # "none" /\ Cancel(c))
    /\ WF_anchorVars(part = "anchor" /\ Kill) /\ WF_anchorVars(part = "anchor" /\ CallbackEnds)
    /\ \A u \in Urbs : /\ WF_anchorVars(part = "anchor" /\ Callback(u))
                       /\ WF_anchorVars(part = "anchor" /\ usb_submit_urb(u))
    /\ WF_eventVars(part = "event" /\ Driver)
    /\ \A e \in Evs : /\ WF_eventVars(part = "event" /\ EvStep(e))
                      /\ WF_eventVars(part = "event" /\ device = "gone" /\ Event(e))
    /\ WF_uv(part = "urb" /\ U!Locked)
    /\ \A x \in {0, 1} : SF_uv(part = "urb" /\ U!CancelEnds(x))
    /\ SF_uv(part = "urb" /\ U!DrainAgain) /\ SF_uv(part = "urb" /\ U!KillQueuedReturns)

Spec == Init /\ [][Next]_<<part, sgVars, anchorVars, eventVars, uv>> /\ Fairness

-----------------------------------------------------------------------------
(* usb_sg_wait() of a cancelled request, usb_kill_anchored_urbs(),         *)
(* usb_set_interface(), usb_linux_detach() and usb_kill_urb() of a blocked *)
(* URB return, and an unplugged device ends the daemon.                    *)
WaitsReturn ==
    /\ CancelledReturns /\ KillReturns /\ U!BlockedKillReturns
    /\ CallsReturn /\ GoneEnds
=============================================================================
