------------------------------- MODULE Firmware -------------------------------
(***************************************************************************)
(* Loading firmware (linux_firmware.c): the steps of request_firmware(),   *)
(* any of which may fail, while somebody replaces the file, and            *)
(* request_firmware_nowait(), whose thread calls the driver back.          *)
(*                                                                         *)
(*   pc      where request r is: idle, start, open, seek, alloc, read,     *)
(*           run (kthread_run), created, back (returned), crashed          *)
(*   wait    it is request_firmware_nowait()                               *)
(*   mem     the memory it has: argument, firmware and data                *)
(*   fd      the file is open                                              *)
(*   size    fw->size                                                      *)
(*   ret     its answer                                                    *)
(*   task    its thread: none, called (before the callback), freeing, gone *)
(*   has     the driver has the firmware; calls, how often it was told     *)
(*   wrong   memory was freed twice or used after it was freed             *)
(*   len     the length of the file; changes, how often it was replaced    *)
(***************************************************************************)
EXTENDS Integers, FiniteSets

CONSTANTS
    Requests,
    MaxLen, MaxChanges      \* bounds: length of the file, replacements

VARIABLES pc, wait, mem, fd, size, ret, task, has, calls, wrong, len, changes

fwVars == <<pc, wait, mem, fd, size, ret, task, has, calls, wrong, len, changes>>
own == <<wait, task, has, calls, len, changes>>

EINVAL == -22
ENOMEM == -12
NONE == 1

FwInit ==
    /\ pc = [r \in Requests |-> "idle"] /\ wait = [r \in Requests |-> FALSE]
    /\ mem = [r \in Requests |-> {}] /\ fd = [r \in Requests |-> FALSE]
    /\ size = [r \in Requests |-> 0] /\ ret = [r \in Requests |-> NONE]
    /\ task = [r \in Requests |-> "none"] /\ has = [r \in Requests |-> FALSE]
    /\ calls = [r \in Requests |-> 0] /\ wrong = FALSE
    /\ len \in 0..MaxLen /\ changes = 0

-----------------------------------------------------------------------------
(* free() of some of the memory of a request *)
Free(r, S, keep) ==
    /\ wrong' = (wrong \/ ~(S \subseteq mem[r]))
    /\ mem' = [mem EXCEPT ![r] = (@ \ S) \cup keep]

(* The end of request_firmware(): an error also ends the request around    *)
(* it, which frees its argument.                                           *)
Fail(r, e, S) ==
    /\ Free(r, S \cup (IF wait[r] THEN {"arg"} ELSE {}), {})
    /\ fd' = [fd EXCEPT ![r] = FALSE]
    /\ ret' = [ret EXCEPT ![r] = e]
    /\ pc' = [pc EXCEPT ![r] = "back"]
    /\ UNCHANGED <<size, own>>

Go(r, where) == pc' = [pc EXCEPT ![r] = where]

request_firmware(r) ==
    /\ pc[r] = "idle"
    /\ Go(r, "start")
    /\ UNCHANGED <<wait, mem, fd, size, ret, task, has, calls, wrong, len, changes>>

request_firmware_nowait(r) ==
    /\ pc[r] = "idle"
    /\ wait' = [wait EXCEPT ![r] = TRUE]
    /\ \/ Go(r, "start") /\ mem' = [mem EXCEPT ![r] = {"arg"}] /\ UNCHANGED ret
       \/ Go(r, "back") /\ ret' = [ret EXCEPT ![r] = ENOMEM] /\ UNCHANGED mem
    /\ UNCHANGED <<fd, size, task, has, calls, wrong, len, changes>>

(* The structure is cleared before it is tested for NULL: without memory   *)
(* the program crashes here.                                               *)
Start(r) ==
    /\ pc[r] = "start"
    /\ \/ Go(r, "open") /\ mem' = [mem EXCEPT ![r] = @ \cup {"fw"}]
       \/ Go(r, "crashed") /\ UNCHANGED mem
    /\ UNCHANGED <<fd, size, ret, wrong, own>>

Open(r) ==
    /\ pc[r] = "open"
    /\ \/ /\ Go(r, "seek") /\ fd' = [fd EXCEPT ![r] = TRUE]
          /\ UNCHANGED <<mem, size, ret, wrong, own>>
       \/ Fail(r, EINVAL, {"fw"})

Seek(r) ==
    /\ pc[r] = "seek"
    /\ \/ /\ Go(r, "alloc") /\ size' = [size EXCEPT ![r] = len]
          /\ UNCHANGED <<mem, fd, ret, wrong, own>>
       \/ Fail(r, EINVAL, {"fw"})

Alloc(r) ==
    /\ pc[r] = "alloc"
    /\ \/ /\ Go(r, "read") /\ mem' = [mem EXCEPT ![r] = @ \cup {"data"}]
          /\ UNCHANGED <<fd, size, ret, wrong, own>>
       \/ Fail(r, ENOMEM, {"fw"})

ReadMutant(r) ==
    /\ pc[r] = "read"
    /\ \/ /\ len >= size[r]
          /\ fd' = [fd EXCEPT ![r] = FALSE]
          /\ IF wait[r] THEN Go(r, "run") /\ UNCHANGED <<ret, has>>
             ELSE Go(r, "back") /\ ret' = [ret EXCEPT ![r] = 0] /\ has' = [has EXCEPT ![r] = TRUE]
          /\ UNCHANGED <<wait, mem, size, task, calls, wrong, len, changes>>
       \/ Fail(r, EINVAL, {"fw"})

(* A short read is an error, also after the file has shrunk. *)
Read(r) ==
    /\ pc[r] = "read"
    /\ \/ /\ len >= size[r]
          /\ fd' = [fd EXCEPT ![r] = FALSE]
          /\ IF wait[r] THEN Go(r, "run") /\ UNCHANGED <<ret, has>>
             ELSE Go(r, "back") /\ ret' = [ret EXCEPT ![r] = 0] /\ has' = [has EXCEPT ![r] = TRUE]
          /\ UNCHANGED <<wait, mem, size, task, calls, wrong, len, changes>>
       \/ Fail(r, EINVAL, {"fw", "data"})

(* kthread_run(): without a thread the firmware is released again. *)
Run(r) ==
    /\ pc[r] = "run"
    /\ \/ /\ task' = [task EXCEPT ![r] = "called"]
          /\ Go(r, "created")
          /\ UNCHANGED <<mem, fd, size, ret, wrong, wait, has, calls, len, changes>>
       \/ Fail(r, ENOMEM, {"fw", "data"})

(* The thread runs already, and may be over, when the request returns. *)
Created(r) ==
    /\ pc[r] = "created"
    /\ ret' = [ret EXCEPT ![r] = 0]
    /\ Go(r, "back")
    /\ UNCHANGED <<mem, fd, size, wrong, own>>

(* request_firmware_nowait_task() *)
Callback(r) ==
    /\ task[r] = "called"
    /\ task' = [task EXCEPT ![r] = "freeing"]
    /\ has' = [has EXCEPT ![r] = TRUE] /\ calls' = [calls EXCEPT ![r] = @ + 1]
    /\ wrong' = (wrong \/ ~({"arg", "fw", "data"} \subseteq mem[r]))
    /\ UNCHANGED <<pc, wait, mem, fd, size, ret, len, changes>>

TaskEnd(r) ==
    /\ task[r] = "freeing"
    /\ task' = [task EXCEPT ![r] = "gone"]
    /\ Free(r, {"arg"}, {})
    /\ UNCHANGED <<pc, wait, fd, size, ret, has, calls, len, changes>>

(* The driver releases what it was given, in the callback or later. *)
release_firmware(r) ==
    /\ has[r]
    /\ Free(r, {"fw", "data"}, {})
    /\ has' = [has EXCEPT ![r] = FALSE]
    /\ UNCHANGED <<pc, wait, fd, size, ret, task, calls, len, changes>>

(* Somebody replaces the file. *)
Replace ==
    /\ changes < MaxChanges
    /\ \E k \in 0..MaxLen : len' = k
    /\ changes' = changes + 1
    /\ UNCHANGED <<pc, wait, mem, fd, size, ret, task, has, calls, wrong>>

Over == /\ \A r \in Requests : pc[r] \in {"back", "crashed"} /\ task[r] \in {"none", "gone"}
        /\ UNCHANGED fwVars

Step(r) == Start(r) \/ Open(r) \/ Seek(r) \/ Alloc(r) \/ Read(r) \/ Run(r)
           \/ Created(r)
Crashed == \E r \in Requests : pc[r] = "crashed"

(* After a crash nothing moves. *)
FwNext ==
    \/ ~Crashed /\ \E r \in Requests :
          \/ request_firmware(r) \/ request_firmware_nowait(r) \/ Step(r)
          \/ Callback(r) \/ TaskEnd(r) \/ release_firmware(r)
    \/ ~Crashed /\ Replace
    \/ Crashed /\ UNCHANGED fwVars
    \/ Over

FwSpec == /\ FwInit /\ [][FwNext]_fwVars
        /\ \A r \in Requests :
              /\ WF_fwVars(~Crashed /\ Step(r))
              /\ WF_fwVars(~Crashed /\ Callback(r)) /\ WF_fwVars(~Crashed /\ TaskEnd(r))

-----------------------------------------------------------------------------
(* Nothing is freed twice or used after it was freed; a request that       *)
(* failed has left no memory and no open file, wherever it failed, and one *)
(* that has succeeded only what the driver was given.                      *)
NothingLeft ==
    /\ ~wrong
    /\ \A r \in Requests : pc[r] = "back" =>
          /\ ~fd[r]
          /\ ret[r] < 0 => mem[r] = {}
          /\ ret[r] = 0 /\ task[r] \in {"none", "gone"} =>
                 mem[r] = IF has[r] THEN {"fw", "data"} ELSE {}

(* The driver is called back at most once, and only if its request has     *)
(* not been refused.                                                       *)
ToldOnce ==
    \A r \in Requests : calls[r] <= 1 /\ (calls[r] = 1 => wait[r] /\ ~(ret[r] < 0))

(* When a request has ended, its memory and its file are given back, on    *)
(* every path; request_firmware_nowait() calls back at most once, and      *)
(* never after it has refused the request.                                 *)
FirmwareExact == NothingLeft /\ ToldOnce

(* A request comes back, and one without wait that was accepted calls      *)
(* back, unless the program crashes for lack of memory.                    *)
IsTold ==
    \A r \in Requests :
        /\ pc[r] = "start" ~> pc[r] = "back" \/ Crashed
        /\ wait[r] /\ ret[r] = 0 ~> calls[r] = 1 \/ Crashed
=============================================================================
