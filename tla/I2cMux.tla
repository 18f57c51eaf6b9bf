------------------------------- MODULE I2cMux -------------------------------
(***************************************************************************)
(* Transfers on a tree of I2C adapters (linux_i2c.c, linux_i2c_mux.c).  An *)
(* adapter below a multiplexer does its transfers on its parent with the   *)
(* multiplexer switched to its channel.  A mux-locked multiplexer takes    *)
(* the parent's mux_lock only and leaves the locks above to the transfers  *)
(* it makes; a parent-locked one takes all locks up to a root first and    *)
(* goes on with the functions that do not lock.                            *)
(*                                                                         *)
(* A call is the sequence of its elementary steps (Programs); a thread is  *)
(* at one of them.                                                         *)
(*                                                                         *)
(*   job, pc   the call of each thread and its next step                   *)
(*   ret       what the last transfer or selection returned                *)
(*   tries     try, in the loop of each adapter's transfer                 *)
(*   via       adapters whose selection the thread has made (history)      *)
(*   owner, nest   the locks, which nest: see LinuxMutex                   *)
(*   channel   the adapter each multiplexer is switched to                 *)
(***************************************************************************)
EXTENDS Integers, Sequences, SequencesExt

CONSTANTS
    Threads, Adapters, Root, NoAdapter, NoThread,
    Parent,         \* adapter -> adapter
    Mux,            \* adapter -> its multiplexer, for all but the root
    MuxLocked,      \* adapters of mux-locked multiplexers
    Retries,        \* adap->retries
    MaxJobs         \* bound: calls of each thread

VARIABLES job, pc, ret, tries, via, owner, nest, channel, jobs

vars == <<job, pc, ret, tries, via, owner, nest, channel, jobs>>

Muxes == {Mux[a] : a \in Adapters \ {Root}}
Locks == {"bus"} \cup Adapters          \* bus_lock of the root, mux_lock of every adapter

Step(op, a, n) == [op |-> op, a |-> a, n |-> n]
Each(op, locks) == [i \in 1..Len(locks) |-> Step(op, locks[i], i)]

(* lock_bus(): i2c_adapter_lock_bus(), i2c_mux_lock_bus() with the flag    *)
(* I2C_LOCK_SEGMENT, i2c_parent_lock_bus() ...                             *)
BusLocks(above) ==
    LET locks[a \in Adapters] ==
            IF a = Root THEN <<"bus">>
            ELSE <<Parent[a]>> \o (IF a \in above THEN <<>> ELSE locks[Parent[a]])
    IN locks
UnlockedMuxMutant == [a \in Adapters |-> IF a \in MuxLocked THEN <<>> ELSE BusLocks(MuxLocked)[a]]
SegmentLocks == BusLocks(MuxLocked)
RootLocks == BusLocks({})               \* ... and with I2C_LOCK_ROOT_ADAPTER

(* The loop around a transfer of adapter a. *)
Again(a, body) == <<Step("first", a, 0)>> \o body \o <<Step("again", a, Len(body))>>

(* i2c_transfer(): the same with the locks. *)
Locked(a, body) == Each("lock", SegmentLocks[a]) \o body \o Each("unlock", Reverse(SegmentLocks[a]))

(* Switch, transfer unless that failed, and back in any case. *)
Via(a, body) == <<Step("select", a, Len(body))>> \o body \o <<Step("deselect", a, 0)>>

(* algo->master_xfer(): the hardware of the root, i2c_mux_master_xfer(),   *)
(* __i2c_mux_master_xfer()                                                 *)
Master ==
    LET xfer[a \in Adapters] ==
            IF a = Root THEN <<Step("master", a, 0)>>
            ELSE LET p == Parent[a]
                     up == Again(p, xfer[p])
                 IN Via(a, IF a \in MuxLocked THEN Locked(p, up) ELSE up)
    IN xfer

i2c_transfer(a) == Locked(a, Again(a, Master[a]))
uu_i2c_transfer(a) == Again(a, Master[a])           \* __i2c_transfer()

(* i2c_smbus_xfer(): the adapter's own SMBus transfer, and the emulation   *)
(* if it has not got that one.                                             *)
Smbus(a, body) ==
    LET emulated == i2c_transfer(a)
    IN Locked(a, Again(a, body)) \o <<Step("emulate", a, Len(emulated))>> \o emulated

(* algo->smbus_xfer(): the hardware, i2c_mux_smbus_xfer(),                 *)
(* __i2c_mux_smbus_xfer()                                                  *)
SmbusXfer ==
    LET xfer[a \in Adapters] ==
            IF a = Root THEN <<Step("smbus", a, 0)>>
            ELSE LET p == Parent[a]
                 IN Via(a, IF a \in MuxLocked THEN Smbus(p, xfer[p]) ELSE xfer[p])
    IN xfer

(* trylock_bus(): each lock in turn; one that is taken gives back those    *)
(* before it.  With all of them the caller makes a transfer without locks. *)
TryLocked(a) ==
    LET locks == RootLocks[a]
        body == uu_i2c_transfer(a)
    IN [i \in 1..Len(locks) |-> Step("try", locks[i], 2 * (Len(locks) - i + 1) + Len(body))]
       \o body \o Each("unlock", Reverse(locks))

(* i2c_lock_adapter(), __i2c_transfer(), i2c_unlock_adapter() *)
RootLocked(a) ==
    Each("lock", RootLocks[a]) \o uu_i2c_transfer(a) \o Each("unlock", Reverse(RootLocks[a]))

Calls == {"transfer", "smbus", "try", "root"}
Programs ==
    [c \in Calls |-> [a \in Adapters |->
        CASE c = "transfer" -> i2c_transfer(a)
          [] c = "smbus" -> Smbus(a, SmbusXfer[a])
          [] c = "try" -> TryLocked(a)
          [] c = "root" -> RootLocked(a)]]

-----------------------------------------------------------------------------
NoJob == [call |-> "none", a |-> NoAdapter]
Busy(t) == job[t] # NoJob
Program(t) == Programs[job[t].call][job[t].a]
At(t) == Program(t)[pc[t]]

Init ==
    /\ job = [t \in Threads |-> NoJob] /\ pc = [t \in Threads |-> 0]
    /\ ret = [t \in Threads |-> "ok"] /\ tries = [t \in Threads |-> [a \in Adapters |-> 0]]
    /\ via = [t \in Threads |-> {}]
    /\ owner = [l \in Locks |-> NoThread] /\ nest = [l \in Locks |-> 0]
    /\ channel = [m \in Muxes |-> NoAdapter]
    /\ jobs = [t \in Threads |-> 0]

Begin(t) ==
    /\ ~Busy(t) /\ jobs[t] < MaxJobs
    /\ jobs' = [jobs EXCEPT ![t] = @ + 1]
    /\ \E c \in Calls, a \in Adapters : job' = [job EXCEPT ![t] = [call |-> c, a |-> a]]
    /\ pc' = [pc EXCEPT ![t] = 1] /\ ret' = [ret EXCEPT ![t] = "ok"]
    /\ tries' = [tries EXCEPT ![t] = [a \in Adapters |-> 0]]
    /\ UNCHANGED <<via, owner, nest, channel>>

Return(t) ==
    /\ Busy(t) /\ pc[t] > Len(Program(t))
    /\ job' = [job EXCEPT ![t] = NoJob] /\ pc' = [pc EXCEPT ![t] = 0]
    /\ ret' = [ret EXCEPT ![t] = "ok"] /\ tries' = [tries EXCEPT ![t] = [a \in Adapters |-> 0]]
    /\ UNCHANGED <<via, owner, nest, channel, jobs>>

Does(t, op) == Busy(t) /\ pc[t] <= Len(Program(t)) /\ At(t).op = op
Jump(t, n) == pc' = [pc EXCEPT ![t] = @ + n]

Available(t, l) == owner[l] \in {NoThread, t}
Take(t, l) == owner' = [owner EXCEPT ![l] = t] /\ nest' = [nest EXCEPT ![l] = @ + 1]

Lock(t) ==
    /\ Does(t, "lock") /\ Available(t, At(t).a)
    /\ Take(t, At(t).a) /\ Jump(t, 1)
    /\ UNCHANGED <<job, ret, tries, via, channel, jobs>>

Try(t) ==
    /\ Does(t, "try")
    /\ IF Available(t, At(t).a)
       THEN Take(t, At(t).a) /\ Jump(t, 1)
       ELSE Jump(t, At(t).n) /\ UNCHANGED <<owner, nest>>
    /\ UNCHANGED <<job, ret, tries, via, channel, jobs>>

Unlock(t) ==
    /\ Does(t, "unlock")
    /\ LET l == At(t).a
       IN /\ nest' = [nest EXCEPT ![l] = @ - 1]
          /\ owner' = [owner EXCEPT ![l] = IF nest[l] = 1 THEN NoThread ELSE t]
    /\ Jump(t, 1)
    /\ UNCHANGED <<job, ret, tries, via, channel, jobs>>

(* muxc->select() may fail and leave the multiplexer as it was. *)
Select(t) ==
    /\ Does(t, "select")
    /\ LET a == At(t).a IN
       \/ /\ channel' = [channel EXCEPT ![Mux[a]] = a]
          /\ via' = [via EXCEPT ![t] = @ \cup {a}]
          /\ ret' = [ret EXCEPT ![t] = "ok"] /\ Jump(t, 1)
       \/ /\ \E r \in {"eagain", "error"} : ret' = [ret EXCEPT ![t] = r]
          /\ Jump(t, At(t).n + 1)
          /\ UNCHANGED <<channel, via>>
    /\ UNCHANGED <<job, tries, owner, nest, jobs>>

Deselect(t) ==
    /\ Does(t, "deselect")
    /\ LET a == At(t).a
       IN channel' = [channel EXCEPT ![Mux[a]] = NoAdapter] /\ via' = [via EXCEPT ![t] = @ \ {a}]
    /\ Jump(t, 1)
    /\ UNCHANGED <<job, ret, tries, owner, nest, jobs>>

Hardware(t) ==
    /\ \/ Does(t, "master") /\ \E r \in {"ok", "eagain", "error"} : ret' = [ret EXCEPT ![t] = r]
       \/ Does(t, "smbus") /\ \E r \in {"ok", "eagain", "error", "eopnotsupp"} :
                                  ret' = [ret EXCEPT ![t] = r]
    /\ Jump(t, 1)
    /\ UNCHANGED <<job, tries, via, owner, nest, channel, jobs>>

First(t) ==
    /\ Does(t, "first")
    /\ tries' = [tries EXCEPT ![t][At(t).a] = 0] /\ Jump(t, 1)
    /\ UNCHANGED <<job, ret, via, owner, nest, channel, jobs>>

(* Again after EAGAIN, unless the time is over or the tries are. *)
Retry(t) ==
    /\ Does(t, "again")
    /\ LET a == At(t).a IN
       \/ /\ ret[t] = "eagain" /\ tries[t][a] < Retries
          /\ tries' = [tries EXCEPT ![t][a] = @ + 1] /\ Jump(t, -At(t).n)
       \/ tries' = [tries EXCEPT ![t][a] = 0] /\ Jump(t, 1)
    /\ UNCHANGED <<job, ret, via, owner, nest, channel, jobs>>

Emulate(t) ==
    /\ Does(t, "emulate")
    /\ Jump(t, IF ret[t] = "eopnotsupp" THEN 1 ELSE At(t).n + 1)
    /\ UNCHANGED <<job, ret, tries, via, owner, nest, channel, jobs>>

Go(t) ==
    \/ Lock(t) \/ Try(t) \/ Unlock(t) \/ Select(t) \/ Deselect(t) \/ Hardware(t)
    \/ First(t) \/ Retry(t) \/ Emulate(t) \/ Return(t)

Next == \E t \in Threads : Begin(t) \/ Go(t)

Spec == Init /\ [][Next]_vars

-----------------------------------------------------------------------------
Transfers(t) == Does(t, "master") \/ Does(t, "smbus")

(* A transfer that reaches the hardware does so with every multiplexer on  *)
(* its way switched to its channel.                                        *)
RightChannel == \A t \in Threads : Transfers(t) => \A a \in via[t] : channel[Mux[a]] = a

(* No parent-locked multiplexer off the way is switched on meanwhile: what *)
(* is behind it does not hear the transfer.                                *)
OthersQuiet ==
    \A t \in Threads : Transfers(t) =>
        \A a \in Adapters \ (MuxLocked \cup {Root}) : channel[Mux[a]] = a => a \in via[t]

(* i2c_lock_adapter(), trylock_bus(): who has locked the root adapter, by  *)
(* way of any adapter of the tree, has the hardware to itself.             *)
Inside(u) ==
    /\ Busy(u) /\ job[u].call \in {"root", "try"}
    /\ LET n == Len(RootLocks[job[u].a]) IN n < pc[u] /\ pc[u] <= Len(Program(u)) - n
RootIsMine == \A t, u \in Threads : t # u /\ Transfers(t) => ~Inside(u)

(* Whoever has returned has given back its locks and its selections, also  *)
(* if a selection failed or a lock was not to be had.                      *)
NothingHeld ==
    \A t \in Threads : ~Busy(t) => via[t] = {} /\ \A l \in Locks : owner[l] # t

(* The locks of the tree are taken from the leaves to the root: threads    *)
(* that all wait for one another do not come about.                        *)
NeverStuck == (\E t \in Threads : Busy(t)) => \E t \in Threads : ENABLED Go(t)
=============================================================================
