------------------------------- MODULE I2cCore -------------------------------
(***************************************************************************)
(* Adapters, drivers and clients of the I2C core (linux_i2c.c) and the     *)
(* adapters of a multiplexer (linux_i2c_mux.c).                            *)
(*                                                                         *)
(*   drivers   i2c_driver_head                                             *)
(*   ids       i2c_adapter_idr: number -> adapter, for numbers given out   *)
(*   adapter   each adapter: "new", "added", "gone" (deleted and freed)    *)
(*   nr        its number                                                  *)
(*   mux       muxc->adapter[0 .. num_adapters - 1]                        *)
(*   client    each client: state ("none", "bound", "freed"), driver, addr *)
(*   attached  drivers whose probe() of a client succeeded and whose       *)
(*             remove() was not called (history)                           *)
(***************************************************************************)
EXTENDS Integers, Sequences, SequencesExt, FiniteSets, FiniteSetsExt

CONSTANTS
    Drivers, NoDriver,
    Names,              \* driver -> the names of its id_table
    ChipNames,          \* names clients are made with
    CoreAdapters, BoardNumbers,  \* numbers that boards assign
    FirstNumber, LastNumber,    \* numbers i2c_add_adapter() chooses from
    MaxAdapters,        \* muxc->max_adapters
    Clients,
    Chips,              \* addresses at which a chip answers
    Lists,              \* addr_list arguments, without I2C_CLIENT_END
    OwnProbe            \* i2c_new_probed_device() is given a probe function

(* No two drivers of the daemon know the same name, and no driver is NULL. *)
ASSUME CoreAssumption ==
    /\ NoDriver \notin Drivers
    /\ \A d, e \in Drivers : d # e => Names[d] \cap Names[e] = {}
    /\ BoardNumbers \subseteq Nat /\ FirstNumber \in Nat /\ LastNumber \in Nat
    /\ MaxAdapters \in Nat /\ OwnProbe \in BOOLEAN
    /\ Lists \subseteq Seq(Nat)

VARIABLES drivers, ids, adapter, nr, mux, client, attached

coreVars == <<drivers, ids, adapter, nr, mux, client, attached>>

NoClient == [state |-> "none", driver |-> NoDriver, addr |-> 0, scanned |-> FALSE]

CoreInit ==
    /\ drivers = <<>> /\ ids = <<>> /\ mux = <<>>
    /\ adapter = [a \in CoreAdapters |-> "new"] /\ nr = [a \in CoreAdapters |-> 0]
    /\ client = [c \in Clients |-> NoClient] /\ attached = [c \in Clients |-> {}]

Used == DOMAIN ids
With(n, a) == [m \in Used \cup {n} |-> IF m = n THEN a ELSE ids[m]]

i2c_register_driver(d) ==
    /\ d \notin ToSet(drivers)
    /\ drivers' = Append(drivers, d)
    /\ UNCHANGED <<ids, adapter, nr, mux, client, attached>>

(* Modules are unloaded when their clients are gone. *)
i2c_del_driver(d) ==
    /\ d \in ToSet(drivers) /\ \A c \in Clients : d \notin attached[c]
    /\ drivers' = RemoveAt(drivers, CHOOSE n \in DOMAIN drivers : drivers[n] = d)
    /\ UNCHANGED <<ids, adapter, nr, mux, client, attached>>

-----------------------------------------------------------------------------
(* i2c_register_adapter() may fail: the number is not given back. *)
Register(a, n, ok) ==
    /\ ids' = With(n, a) /\ nr' = [nr EXCEPT ![a] = n]
    /\ adapter' = [adapter EXCEPT ![a] = IF ok THEN "added" ELSE "gone"]

i2c_add_numbered_adapter(a) ==
    /\ adapter[a] = "new"
    /\ \E n \in BoardNumbers \ Used, ok \in BOOLEAN : Register(a, n, ok)     \* EBUSY if it is used
    /\ UNCHANGED <<drivers, mux, client, attached>>

(* idr_alloc() from 128 on: the first that is free. *)
FreeNumber == (FirstNumber..LastNumber) \ Used

i2c_add_adapter(a) ==
    /\ adapter[a] = "new" /\ FreeNumber # {}
    /\ \E ok \in BOOLEAN : Register(a, Min(FreeNumber), ok)
    /\ UNCHANGED <<drivers, mux, client, attached>>

(* i2c_del_adapter() does nothing; the driver frees its adapter. *)
i2c_del_adapter(a) ==
    /\ adapter[a] = "added" /\ a \notin ToSet(mux)
    /\ adapter' = [adapter EXCEPT ![a] = "gone"]
    /\ UNCHANGED <<drivers, ids, nr, mux, client, attached>>

MuxRoom == Len(mux) < MaxAdapters

i2c_mux_add_adapter(a) ==
    /\ adapter[a] = "new" /\ MuxRoom
    /\ \E ok \in BOOLEAN :
          /\ \/ \E n \in BoardNumbers \ Used : Register(a, n, ok)        \* force_nr
             \/ FreeNumber # {} /\ Register(a, Min(FreeNumber), ok)
          /\ mux' = IF ok THEN Append(mux, a) ELSE mux
    /\ UNCHANGED <<drivers, client, attached>>

DelAll == adapter' = [a \in CoreAdapters |-> IF a \in ToSet(mux) THEN "gone" ELSE adapter[a]] /\ mux' = <<>>

i2c_mux_del_adapters ==
    /\ mux # <<>> /\ DelAll
    /\ UNCHANGED <<drivers, ids, nr, client, attached>>

-----------------------------------------------------------------------------
(* i2c_new_device(): every driver of the list that knows the name is       *)
(* tried, also after one has succeeded; the last one tried decides.        *)
Knowing(name) == {n \in DOMAIN drivers : name \in Names[drivers[n]]}
Tried(name) == {drivers[n] : n \in Knowing(name)}

LastDriverMutant(name, ok) == drivers[Max(Knowing(name))]
LastDriver(name, ok) == LET d == drivers[Max(Knowing(name))] IN IF ok[d] THEN d ELSE NoDriver

NewDevice(c, name, addr, scanned) ==
    /\ client[c].state = "none" /\ Knowing(name) # {}
    /\ \E ok \in [Drivers -> BOOLEAN] :
          LET d == LastDriver(name, ok)
          IN /\ client' = [client EXCEPT ![c] = [state |-> IF d = NoDriver THEN "freed" ELSE "bound",
                                                 driver |-> d, addr |-> addr, scanned |-> scanned]]
             /\ attached' = [attached EXCEPT ![c] = {e \in Tried(name) : ok[e]}]
    /\ UNCHANGED <<drivers, ids, adapter, nr, mux>>

i2c_new_device(c) == \E name \in ChipNames, addr \in Chips : NewDevice(c, name, addr, FALSE)

(* i2c_new_probed_device(): the first address at which probe() finds a     *)
(* chip; without probe() the first of the list.                            *)
Probed(list) == {n \in DOMAIN list : OwnProbe => list[n] \in Chips}

i2c_new_probed_device(c) ==
    \E name \in ChipNames, list \in Lists :
        Probed(list) # {} /\ NewDevice(c, name, list[Min(Probed(list))], TRUE)

i2c_unregister_device(c) ==
    /\ client[c].state = "bound"
    /\ attached' = [attached EXCEPT ![c] = @ \ {client[c].driver}]
    /\ client' = [client EXCEPT ![c].state = "freed"]
    /\ UNCHANGED <<drivers, ids, adapter, nr, mux>>

(* The memory of a client is used again. *)
Reuse(c) ==
    /\ client[c].state = "freed" /\ attached[c] = {}
    /\ client' = [client EXCEPT ![c] = NoClient]
    /\ UNCHANGED <<drivers, ids, adapter, nr, mux, attached>>

CoreNext ==
    \/ \E d \in Drivers : i2c_register_driver(d) \/ i2c_del_driver(d)
    \/ \E a \in CoreAdapters : \/ i2c_add_numbered_adapter(a) \/ i2c_add_adapter(a)
                               \/ i2c_del_adapter(a) \/ i2c_mux_add_adapter(a)
    \/ i2c_mux_del_adapters
    \/ \E c \in Clients : \/ i2c_new_device(c) \/ i2c_new_probed_device(c)
                          \/ i2c_unregister_device(c) \/ Reuse(c)

CoreSpec == CoreInit /\ [][CoreNext]_coreVars

-----------------------------------------------------------------------------
Added == {a \in CoreAdapters : adapter[a] = "added"}

(* Adapters in use have different numbers, chosen by boards or by the      *)
(* core, after any history of failed and deleted ones.                     *)
NumbersDiffer == \A a, b \in Added : a # b => nr[a] # nr[b]

(* A multiplexer has its adapters, no more than there is room for, and     *)
(* none that is freed.                                                     *)
MuxHasLive == Len(mux) <= MaxAdapters /\ ToSet(mux) \subseteq Added

(* "The behaviour exposed to Linux is defined by the driver managing the   *)
(* device": a client that is there has one driver attached, and no driver  *)
(* is attached to a client that is freed.                                  *)
OneDriver ==
    \A c \in Clients : attached[c] = (IF client[c].state = "bound" THEN {client[c].driver} ELSE {})

(* A client made from a list of addresses with a probe function is at one  *)
(* where a chip answers.                                                   *)
AtAChip ==
    \A c \in Clients :
        OwnProbe /\ client[c].scanned /\ client[c].state = "bound" => client[c].addr \in Chips

(* I2cCore: adapters have different numbers, those of a multiplexer are    *)
(* alive, a client is probed and removed by one driver, and                *)
(* i2c_new_probed_device() makes clients only where a chip answers.        *)
CoreRight == NumbersDiffer /\ MuxHasLive /\ OneDriver /\ AtAChip
=============================================================================
