------------------------------ MODULE MCServices ------------------------------
(***************************************************************************)
(* The services that drivers call: timers, I2C transfers through           *)
(* multiplexers, SMBus transfers, and the lists of the I2C core.  They     *)
(* share no state here; a behaviour is one of the part it is named for,    *)
(* and the variables of the others keep their initial values.              *)
(***************************************************************************)
EXTENDS I2cMux, Smbus, Timer, I2cCore

CONSTANT t1

VARIABLE part

(* A second of four ticks and two jiffies, timer functions that return at  *)
(* once and a clock that nobody sets, as the constants say; and functions  *)
(* that take long, and a clock that is set.                                *)
L == INSTANCE Timer WITH Timers <- {t1}, MaxTime <- 5, MaxNeeded <- 0, SlowFunctions <- TRUE,
        MaxSets <- 1

(* The root has a parent-locked multiplexer with the channels a and d and  *)
(* a mux-locked one with the channel c; another mux-locked one with the    *)
(* channel b is behind a.                                                  *)
MCParent == [x \in Adapters |-> IF x = "b" THEN "a" ELSE "root"]
MCMux == [x \in Adapters |-> CASE x = "b" -> "q" [] x = "c" -> "r" [] OTHER -> "p"]

(* Every driver knows a name of its own. *)
MCNames == [d \in Drivers |-> {d}]
MCLists == {<<1, 2>>, <<2, 1>>, <<3, 2>>, <<3>>}

SuiteInit ==
    /\ part \in {"timer", "slow", "mux", "smbus", "core"}
    /\ Init /\ SmbusInit /\ TimerInit /\ CoreInit

SuiteNext ==
    \/ part = "timer" /\ TimerNext /\ UNCHANGED <<part, vars, smbusVars, coreVars>>
    \/ part = "slow" /\ L!TimerNext /\ UNCHANGED <<part, vars, smbusVars, coreVars>>
    \/ part = "mux" /\ Next /\ UNCHANGED <<part, timerVars, smbusVars, coreVars>>
    \/ part = "smbus" /\ SmbusNext /\ UNCHANGED <<part, timerVars, vars, coreVars>>
    \/ part = "core" /\ CoreNext /\ UNCHANGED <<part, timerVars, vars, smbusVars>>

SuiteSpec == SuiteInit /\ [][SuiteNext]_<<part, timerVars, vars, smbusVars, coreVars>>

-----------------------------------------------------------------------------
(* I2cMux: transfers reach the hardware through the channels of their      *)
(* adapter and no others, alone on the root bus; what is locked or         *)
(* selected is given back, and threads do not wait for one another.        *)
ChannelsRight == RightChannel /\ OthersQuiet /\ RootIsMine /\ NothingHeld /\ NeverStuck

(* Smbus: reads give what the last write stored, results are those of      *)
(* their own transfer, messages fit the buffers, and what nothing has      *)
(* damaged passes the check of its error code.                             *)
TransfersRight == ReadsBack /\ AnswerOfCall /\ InBuffers /\ CleanIsAccepted
=============================================================================
