------------------------------- MODULE UsbProbe -------------------------------
(***************************************************************************)
(* How a webcamd process finds its USB device and driver: the selection by *)
(* name and serial number that -l prints (webcamd.c), the pid file that    *)
(* keeps a second process away, and the search for an interface and a      *)
(* driver (linux_usb.c).  Several processes do it at once on one bus; what *)
(* they share is the pid files.                                            *)
(*                                                                         *)
(*   drivers   usb_linux_driver_list, the same in every process            *)
(*   opt       command line: unit and addr of -d (addr 0: none), index of  *)
(*             -i, name of -N and ser of -S (empty: none), match of -M,    *)
(*             fork for -B, and the device it was listed for (history)     *)
(*   at        how far a process is                                        *)
(*   pid       its pid file: the key, or NoPid                             *)
(*   sc        its softc: device, interface, driver and id entry           *)
(*   first     the interface it chose first (history)                      *)
(*   tried     <<driver, interface>> pairs whose probe() failed (history)  *)
(***************************************************************************)
EXTENDS Integers, Sequences, SequencesExt, FiniteSets

CONSTANTS
    Procs,
    Bus,            \* the devices in the order of libusb20_be_device_foreach()
    Tables,         \* driver |-> its id_table
    Options         \* command lines, as a set of records

VARIABLES drivers, opt, at, pid, sc, first, tried

probeVars == <<drivers, opt, at, pid, sc, first, tried>>

Drivers == DOMAIN Tables
NoPid == <<>>
NoSc == [dev |-> 0, ui |-> 0, udrv |-> 0, id |-> 0]
NoOpt == [unit |-> 0, addr |-> 0, index |-> 0, name |-> <<>>, ser |-> <<>>, match |-> 0,
          fork |-> FALSE, want |-> 0]

-----------------------------------------------------------------------------
(* Matching of a driver's table of device ids with an interface.  The      *)
(* attach code has a function of its own for it, and drivers call the one  *)
(* they know from Linux; a driver that is attached through one entry and   *)
(* then looks itself up must find the same entry.  A device and an         *)
(* interface are records of descriptor fields; an id has the set of fields *)
(* it compares (match_flags), their values, and driver_info.  A table ends *)
(* with an id without flags.                                               *)
DeviceFlags == {"VENDOR", "PRODUCT", "DEV_CLASS", "DEV_SUBCLASS", "DEV_PROTOCOL"}
IntInfo == {"INT_CLASS", "INT_SUBCLASS", "INT_PROTOCOL"}    \* USB_DEVICE_ID_MATCH_INT_INFO
VendorSpec == 255

First(table, fits) ==
    LET n == SelectInSeq(table, LAMBDA id : id.flags = {} \/ id \in fits)
    IN IF n = 0 \/ table[n].flags = {} THEN 0 ELSE n

(* usb_linux_lookup_id(): an entry is passed over if one of its fields     *)
(* differs; a device of a vendor's own class is not attached by interface  *)
(* alone.  The place of the entry that matches, 0 if there is none.        *)
VendorRule(dev, id) ==
    ~(dev["DEV_CLASS"] = VendorSpec /\ "VENDOR" \notin id.flags /\ id.flags \cap IntInfo # {})

usb_linux_lookup_id(dev, int, table) ==
    First(table, {id \in ToSet(table) :
        /\ \A f \in id.flags \cap DeviceFlags : id[f] = dev[f]
        /\ "DEV_LO" \in id.flags => id["DEV_LO"] <= dev["bcdDevice"]
        /\ "DEV_HI" \in id.flags => id["DEV_HI"] >= dev["bcdDevice"]
        /\ VendorRule(dev, id)
        /\ \A f \in id.flags \cap IntInfo : id[f] = int[f]})

(* The functions of Linux: a mismatch in any compared field is no match. *)
usb_match_device(dev, id) ==
    ~\E f \in id.flags :
        CASE f = "DEV_LO" -> id[f] > dev["bcdDevice"]
          [] f = "DEV_HI" -> id[f] < dev["bcdDevice"]
          [] f \in DeviceFlags -> id[f] # dev[f]
          [] OTHER -> FALSE

usb_match_one_id(dev, int, id) ==
    /\ usb_match_device(dev, id)
    /\ \/ dev["DEV_CLASS"] # VendorSpec
       \/ "VENDOR" \in id.flags
       \/ id.flags \cap IntInfo = {}
    /\ ~\E f \in id.flags \cap IntInfo : id[f] # int[f]

(* The entry that ends the table matches anything if it has a driver_info. *)
usb_match_id(dev, int, table) ==
    LET n == First(table, {id \in ToSet(table) : usb_match_one_id(dev, int, id)})
        e == SelectInSeq(table, LAMBDA id : id.flags = {})
    IN IF n # 0 THEN n ELSE IF e # 0 /\ table[e].driver_info # 0 THEN e ELSE 0

-----------------------------------------------------------------------------
(* string_filter(): other characters become "-", none of them at the ends. *)
Unknown == <<"u", "n", "k">>
string_filter(s) ==
    LET t == [n \in 1..Len(s) |-> IF s[n] = "." THEN "-" ELSE s[n]]
        keep == {n \in 1..Len(t) : t[n] # "-"}
    IN IF keep = {} THEN Unknown ELSE SubSeq(t, Min(keep), Max(keep))

Txt(n) == string_filter(Bus[n].txt)
Ser(n) == string_filter(Bus[n].ser)
Hosts == {n \in DOMAIN Bus : Bus[n].host}

(* find_devices() with -l: the index printed for a device counts those     *)
(* before it with the same name and serial number (new_match()).           *)
match_num(d) == Cardinality({n \in Hosts : n < d /\ Txt(n) = Txt(d) /\ Ser(n) = Ser(d)})

(* find_devices() otherwise: the device that fits and has u_match_index    *)
(* others before it that fit, 0 if there is no such device.                *)
Given(o, d) == Bus[d].bus = o.unit /\ Bus[d].addr = o.addr
Selects(o, n) ==
    /\ o.name \in {<<>>, Txt(n)}
    /\ o.ser \in {<<>>, Ser(n)}
    /\ o.addr # 0 => Given(o, n)

Selected(o) == {n \in Hosts : Selects(o, n)}
Matched(o) == {n \in Selected(o) : Cardinality({m \in Selected(o) : m < n}) = o.match}
find_devices(o) == IF Matched(o) = {} THEN 0 ELSE CHOOSE n \in Matched(o) : TRUE

-----------------------------------------------------------------------------
(* usb_linux_probe_p() *)
InterfacesOf(d) == DOMAIN Bus[d].ifaces
Hub(d, i) == Bus[d].ifaces[i]["INT_CLASS"] = 9
Lookup(d, i, drv) ==
    IF Hub(d, i) THEN 0 ELSE usb_linux_lookup_id(Bus[d], Bus[d].ifaces[i], Tables[drv])
Choice(d, i, drv) == [dev |-> d, ui |-> i, udrv |-> drv, id |-> Lookup(d, i, drv)]

(* The place in the list of the first driver that knows an interface, or 0. *)
DriverAt(d, i) == SelectInSeq(drivers, LAMBDA drv : Lookup(d, i, drv) # 0)
DriverFor(d, i) == drivers[DriverAt(d, i)]
Whole(d, i) ==
    LET drv == DriverFor(d, i)
    IN DriverAt(d, i) # 0 /\ Tables[drv][Lookup(d, i, drv)].flags \cap IntInfo = {}

(* The interfaces that the scan counts, of the devices that can be opened: *)
(* those with a driver.  If the device is not given by address, a driver   *)
(* that does not ask for particular interfaces has the whole device.       *)
Candidates(o, opens) ==
    {c \in UNION {{d} \X InterfacesOf(d) : d \in opens} :
        /\ o.addr # 0 => Given(o, c[1])
        /\ DriverAt(c[1], c[2]) # 0
        /\ o.addr = 0 => \A i \in 1..c[2] - 1 : ~Whole(c[1], i)}
Before(c, e) == c[1] < e[1] \/ (c[1] = e[1] /\ c[2] < e[2])
Passed(c, all) == Cardinality({e \in all : Before(e, c)})
Skip(o) == IF o.addr # 0 THEN o.index ELSE o.unit

(* libusb20 lists devices under their bus and address, which no two share. *)
(* The lines that -l prints are among the command lines.                   *)
ASSUME ProbeAssumption ==
    /\ Len(Bus) \in Nat /\ DOMAIN Bus = 1..Len(Bus)
    /\ \A d \in Hosts : /\ Bus[d].bus \in Nat /\ Bus[d].addr \in Nat \ {0}
                        /\ Bus[d]["bcdDevice"] \in Nat
                        /\ Bus[d].txt \in Seq(STRING) /\ Bus[d].ser \in Seq(STRING)
                        /\ Len(Bus[d].ifaces) \in Nat /\ InterfacesOf(d) = 1..Len(Bus[d].ifaces)
    /\ \A d, e \in Hosts : Bus[d].bus = Bus[e].bus /\ Bus[d].addr = Bus[e].addr => d = e
    /\ \A drv \in Drivers :
           /\ Len(Tables[drv]) \in Nat /\ DOMAIN Tables[drv] = 1..Len(Tables[drv])
           /\ \A id \in ToSet(Tables[drv]) : id["DEV_LO"] \in Nat /\ id["DEV_HI"] \in Nat
    /\ Options \subseteq [unit : Nat, addr : Nat, index : Nat,
                          name : Seq(STRING), ser : Seq(STRING),
                          match : Nat, fork : BOOLEAN, want : {0} \cup Hosts]
    /\ \A o \in Options : o.want # 0 =>
           /\ o.name = Txt(o.want) /\ o.ser = Ser(o.want) /\ o.match = match_num(o.want)
           /\ o.addr = 0

-----------------------------------------------------------------------------
ProbeInit ==
    /\ drivers = <<>>
    /\ opt = [p \in Procs |-> NoOpt] /\ at = [p \in Procs |-> "start"]
    /\ pid = [p \in Procs |-> NoPid] /\ sc = [p \in Procs |-> NoSc]
    /\ first = [p \in Procs |-> 0] /\ tried = [p \in Procs |-> {}]

(* linux_init(): drivers register themselves; one whose module cannot be   *)
(* set up deregisters.                                                     *)
usb_register(d) ==
    /\ \A p \in Procs : at[p] = "start"
    /\ d \notin ToSet(drivers)
    /\ drivers' = <<d>> \o drivers
    /\ UNCHANGED <<opt, at, pid, sc, first, tried>>

usb_deregister(d) ==
    /\ \A p \in Procs : at[p] = "start"
    /\ \E n \in DOMAIN drivers : drivers[n] = d /\ drivers' = RemoveAt(drivers, n)
    /\ UNCHANGED <<opt, at, pid, sc, first, tried>>

(* exit(), with v4b_exit() *)
Exit(p, why) == at' = [at EXCEPT ![p] = why] /\ pid' = [pid EXCEPT ![p] = NoPid]

(* main(): options, find_devices() *)
Main(p) ==
    /\ at[p] = "start" /\ drivers # <<>>
    /\ \E o \in Options :
        IF o.name # <<>> \/ o.ser # <<>>
        THEN LET d == find_devices(o) IN
             IF d = 0
             THEN Exit(p, "nomatch") /\ opt' = [opt EXCEPT ![p] = o]
             ELSE /\ opt' = [opt EXCEPT ![p] = [o EXCEPT !.unit = Bus[d].bus, !.addr = Bus[d].addr]]
                  /\ at' = [at EXCEPT ![p] = "selected"]
                  /\ UNCHANGED pid
        ELSE opt' = [opt EXCEPT ![p] = o] /\ at' = [at EXCEPT ![p] = "selected"] /\ UNCHANGED pid
    /\ UNCHANGED <<drivers, sc, first, tried>>

(* pidfile_create(): nothing if the process has one already. *)
Pidfile(p, key) ==
    IF pid[p] # NoPid THEN UNCHANGED pid
    ELSE (\A q \in Procs : pid[q] # key) /\ pid' = [pid EXCEPT ![p] = key]
Taken(p, key) == pid[p] = NoPid /\ \E q \in Procs : pid[q] = key

Background(p) ==
    LET key == <<opt[p].unit, opt[p].addr, opt[p].index>> IN
    /\ at[p] = "selected" /\ opt[p].fork
    /\ \/ Pidfile(p, key) /\ at' = [at EXCEPT ![p] = "daemon"]
       \/ Taken(p, key) /\ Exit(p, "running")
    /\ UNCHANGED <<drivers, opt, sc, first, tried>>

(* The scan, the pid file unless there is one, and the structures for the  *)
(* device, for which memory may be short.                                  *)
PidKey(p, c) == <<Bus[c.dev].bus, Bus[c.dev].addr, Skip(opt[p])>>

Take(p, c, key) ==
    \/ /\ Pidfile(p, key)
       /\ sc' = [sc EXCEPT ![p] = c] /\ first' = [first EXCEPT ![p] = c.ui]
       /\ at' = [at EXCEPT ![p] = "probe"]
    \/ Taken(p, key) /\ Exit(p, "running") /\ UNCHANGED <<sc, first>>
    \/ ~Taken(p, key) /\ Exit(p, "nodevice") /\ UNCHANGED <<sc, first>>

TakeFrom(p, all) ==
    \/ \E c \in all :
        /\ Passed(c, all) = Skip(opt[p])
        /\ LET s == Choice(c[1], c[2], DriverFor(c[1], c[2])) IN Take(p, s, PidKey(p, s))
    \/ /\ Cardinality(all) <= Skip(opt[p])
       /\ Exit(p, "nodevice") /\ UNCHANGED <<sc, first>>

Scan(p) ==
    /\ at[p] = "daemon" \/ (at[p] = "selected" /\ ~opt[p].fork)
    /\ \E opens \in SUBSET Hosts : TakeFrom(p, Candidates(opt[p], opens))
    /\ UNCHANGED <<drivers, opt, tried>>

(* udrv->probe() *)
ProbeOk(p) ==
    /\ at[p] = "probe"
    /\ at' = [at EXCEPT ![p] = "attached"]
    /\ UNCHANGED <<drivers, opt, pid, sc, first, tried>>

(* It fails: the next interface that the driver knows, then the drivers    *)
(* that follow, from the first interface on, until one is left.  A pair is *)
(* a place in the list of drivers and an interface.                        *)
PlaceOf(drv) == SelectInSeq(drivers, LAMBDA e : e = drv)
Left(c) ==
    {e \in (DOMAIN drivers) \X InterfacesOf(c.dev) :
        Lookup(c.dev, e[2], drivers[e[1]]) # 0 /\ Before(<<PlaceOf(c.udrv), c.ui>>, e)}
Following(c) ==
    IF Left(c) = {} THEN NoSc
    ELSE LET e == CHOOSE e \in Left(c) : \A f \in Left(c) : ~Before(f, e)
         IN Choice(c.dev, e[2], drivers[e[1]])

StaleIdMutant(c) == LET f == Following(c) IN IF f = NoSc THEN NoSc ELSE [f EXCEPT !.id = c.id]
NextChoice(c) == Following(c)

ProbeFails(p) ==
    /\ at[p] = "probe"
    /\ tried' = [tried EXCEPT ![p] = @ \cup {<<sc[p].udrv, sc[p].ui>>}]
    /\ LET c == NextChoice(sc[p]) IN
       /\ sc' = [sc EXCEPT ![p] = c]
       /\ IF c = NoSc THEN Exit(p, "gaveup") ELSE UNCHANGED <<at, pid>>
    /\ UNCHANGED <<drivers, opt, first>>

(* The process ends: a signal, or the device was unplugged (usb_exec()). *)
End(p) ==
    /\ at[p] = "attached"
    /\ Exit(p, "ended")
    /\ sc' = [sc EXCEPT ![p] = NoSc]
    /\ UNCHANGED <<drivers, opt, first, tried>>

ProbeNext ==
    \/ \E d \in Drivers : usb_register(d) \/ usb_deregister(d)
    \/ \E p \in Procs : \/ Main(p) \/ Background(p) \/ Scan(p)
                        \/ ProbeOk(p) \/ ProbeFails(p) \/ End(p)

ProbeSpec == ProbeInit /\ [][ProbeNext]_probeVars

-----------------------------------------------------------------------------
Busy(p) == at[p] \in {"probe", "attached"}

(* usb_match_id(), by which drivers look themselves up, finds the entry by *)
(* which usb_linux_probe_p() attaches them, and by usb_match_one_id()      *)
(* nothing before it fits.                                                 *)
MatchersAgree(dev, int, table) ==
    LET n == usb_linux_lookup_id(dev, int, table) IN
    /\ usb_match_id(dev, int, table) = n
    /\ n # 0 => usb_match_one_id(dev, int, table[n])
    /\ \A m \in 1..n - 1 : ~usb_match_one_id(dev, int, table[m])

(* A driver gets an interface that is in its table, with the entry that    *)
(* says so, however many interfaces and drivers were tried before, and     *)
(* finds this entry when it looks itself up.                               *)
ProbedFits ==
    \A p \in Procs : Busy(p) =>
        LET s == sc[p] IN
        /\ ~Hub(s.dev, s.ui)
        /\ s.id # 0 /\ s.id = Lookup(s.dev, s.ui, s.udrv)
        /\ MatchersAgree(Bus[s.dev], Bus[s.dev].ifaces[s.ui], Tables[s.udrv])

(* Two processes with the same device and the same -i do not run both: the *)
(* second says that webcamd is already running.  With different -i they    *)
(* start with different interfaces.  (For devices given by address.)       *)
OneForEachIndex ==
    \A p, q \in Procs : /\ p # q /\ Busy(p) /\ Busy(q) /\ sc[p].dev = sc[q].dev
                        /\ opt[p].addr # 0 /\ opt[q].addr # 0
        => Skip(opt[p]) # Skip(opt[q]) /\ first[p] # first[q]

(* A process gives up only when it has tried every interface that the      *)
(* first driver knows from the first choice on, and all interfaces with    *)
(* the drivers behind it.  (For a device given by address.)                *)
FirstPlace(p, d) == <<DriverAt(d, first[p]), first[p]>>
TriedAll ==
    \A p \in Procs : at[p] = "gaveup" /\ opt[p].addr # 0 =>
        \E d \in Hosts :
            /\ Given(opt[p], d) /\ first[p] \in InterfacesOf(d) /\ DriverAt(d, first[p]) # 0
            /\ \A n \in DOMAIN drivers, i \in InterfacesOf(d) :
                   Lookup(d, i, drivers[n]) # 0 /\ ~Before(<<n, i>>, FirstPlace(p, d))
                       => <<drivers[n], i>> \in tried[p]

(* "List the available USB devices and the needed command line for binding *)
(* to the given device": the line that -l prints for a device selects it.  *)
ListedIsSelected ==
    \A p \in Procs : opt[p].want # 0 /\ at[p] # "start" =>
        at[p] # "nomatch" /\ Given(opt[p], opt[p].want)

(* The driver that a process attaches fits: it is given the entry of its   *)
(* own table that matches its own interface, every driver that matches is  *)
(* tried, processes of one device get different interfaces, and a line     *)
(* that -l prints selects the device it describes.                         *)
DriverFits == ProbedFits /\ TriedAll /\ OneForEachIndex /\ ListedIsSelected
=============================================================================
