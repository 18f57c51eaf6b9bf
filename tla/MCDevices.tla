------------------------------ MODULE MCDevices ------------------------------
(***************************************************************************)
(* From a USB device to open files: matching, the search for device and    *)
(* driver, the structures that drivers see, the files below /dev, and the  *)
(* requests to open files.  They share no state here; a behaviour is one   *)
(* of the part it is named for, and the variables of the others are empty  *)
(* or keep their initial values.                                           *)
(***************************************************************************)
EXTENDS UsbProbe, UsbTree, CharDevice, DeviceTable, TLC

CONSTANTS p1, p2, f1, f2,
          MaxIds    \* bound: entries of a table of ids before its end

VARIABLE part

-----------------------------------------------------------------------------
(* UsbProbe: every table of ids up to MaxIds, against every device and     *)
(* interface of a few values.                                              *)
MatchDevs == [{"VENDOR", "PRODUCT", "bcdDevice"} -> {1, 2}]
MatchDevice(d, c) == [f \in DeviceFlags \cup {"bcdDevice"} |->
                         IF f \in DOMAIN d THEN d[f] ELSE IF f = "DEV_CLASS" THEN c ELSE 1]
Value == [f \in DeviceFlags \cup IntInfo \cup {"DEV_LO", "DEV_HI"} |-> IF f = "DEV_LO" THEN 2 ELSE 1]
FlagSets == {{"VENDOR"}, {"VENDOR", "PRODUCT"}, {"VENDOR", "DEV_LO"}, {"VENDOR", "DEV_HI"}, IntInfo,
             {"INT_CLASS"}, {"INT_SUBCLASS"}, {"VENDOR", "INT_PROTOCOL"}, {"DEV_CLASS"},
             {"DEV_SUBCLASS", "DEV_PROTOCOL", "INT_CLASS"}, {}}
MatchId(flags) ==
    [f \in DOMAIN Value \cup {"flags", "driver_info"} |->
        IF f = "flags" THEN flags ELSE IF f = "driver_info" THEN 0 ELSE Value[f]]

ASSUME MatchersChecked ==
    \A d \in MatchDevs, c \in {1, VendorSpec}, i \in [IntInfo -> {1, 2}],
       t \in BoundedSeq({MatchId(fs) : fs \in FlagSets}, MaxIds) :
        MatchersAgree(MatchDevice(d, c), i, t)

(* UsbProbe: three devices, one composite with a hub interface, and two of *)
(* the same name that a filtered character tells apart or not.             *)
Ifc(c) == [f \in IntInfo |-> IF f = "INT_CLASS" THEN c ELSE 1]
Dev(addr, host, vendor, txt, ser, ints) ==
    [bus |-> 0, addr |-> addr, host |-> host, txt |-> txt, ser |-> ser, ifaces |-> ints,
     VENDOR |-> vendor, PRODUCT |-> 1, bcdDevice |-> 1, DEV_CLASS |-> 0,
     DEV_SUBCLASS |-> 0, DEV_PROTOCOL |-> 0]
Cam(addr, txt, ser) == Dev(addr, TRUE, 2, txt, ser, <<Ifc(14)>>)
McBus == <<Dev(1, FALSE, 9, <<"h">>, <<>>, <<Ifc(9)>>),
           Dev(2, TRUE, 1, <<"c", "a">>, <<"1">>, <<Ifc(3), Ifc(9), Ifc(14), Ifc(14)>>),
           Cam(3, <<"c", "a", ".">>, <<>>),
           Cam(4, <<".", "c", "a">>, <<".">>)>>
Id(flags, vendor, c) ==
    [flags |-> flags, VENDOR |-> vendor, PRODUCT |-> 1, DEV_CLASS |-> 0, DEV_SUBCLASS |-> 0,
     DEV_PROTOCOL |-> 0, DEV_LO |-> 0, DEV_HI |-> 9, INT_CLASS |-> c, INT_SUBCLASS |-> 1,
     INT_PROTOCOL |-> 1, driver_info |-> 0]
McTables == <<<<Id({"VENDOR", "PRODUCT"}, 3, 0), Id({"INT_CLASS"}, 0, 14), Id({}, 0, 0)>>,
              <<Id({"VENDOR"}, 1, 0), Id({"VENDOR"}, 2, 0)>>>>

(* -d with -i, in the foreground and in the background, the lines that -l  *)
(* prints, -d with a unit only, and -N with the name of what is no device. *)
ByAddr(i, fork) == [NoOpt EXCEPT !.addr = 2, !.index = i, !.fork = fork]
Listed(d) == [NoOpt EXCEPT !.name = Txt(d), !.ser = Ser(d), !.match = match_num(d), !.want = d]
McOptions == {ByAddr(0, TRUE), ByAddr(0, FALSE), ByAddr(1, TRUE), ByAddr(3, FALSE)}
             \cup {Listed(d) : d \in Hosts}
             \cup {[NoOpt EXCEPT !.unit = 3], [NoOpt EXCEPT !.name = <<"h">>]}

(* UsbTree: interfaces whose settings have the same endpoints in different *)
(* places, none, or others; numbers that are not consecutive; interfaces   *)
(* without alternate settings, with a control endpoint, and too many.      *)
E(n, dir, type) == [ep |-> n, dir |-> dir, type |-> type]
B1 == E(1, "in", "bulk")
B2 == E(2, "out", "bulk")
I1 == E(1, "in", "isoc")
I3 == E(3, "in", "isoc")
Eps == {B1, B2, I1, E(1, "out", "bulk")}
SettingsOf(eps) ==
    {s \in {<<>>} \cup {<<e>> : e \in eps} \cup {<<e, f>> : e, f \in eps} :
        \A m, n \in DOMAIN s : m # n => s[m].ep # s[n].ep \/ s[m].dir # s[n].dir}
Iface(num, s) == [num |-> num, settings |-> s]
Iad(first_if, count) == [first |-> first_if, count |-> count]
McConfigs ==
    {[ifaces |-> <<Iface(0, <<a, b>>), Iface(2, <<c, <<I3>>, <<>>>>)>>,
      iads |-> <<Iad(0, 0), Iad(2, 1), Iad(0, 1)>>] : a, b \in SettingsOf(Eps), c \in {<<>>, <<I3>>}}
    \cup {[ifaces |-> <<Iface(1, <<<<B1>>, <<I1>>>>), Iface(0, <<<<B2>>, <<>>>>),
                        Iface(3, <<<<I3>>, <<>>>>)>>, iads |-> <<>>],
          [ifaces |-> <<Iface(0, <<<<B2>>>>), Iface(1, <<<<>>, <<E(4, "out", Control), I1>>>>)>>,
           iads |-> <<Iad(0, 2)>>]}

(* CharDevice: the files of two drivers with different methods, one file   *)
(* with room for its mappings, ...                                         *)
McMethods == (f1 :> {"open", "release", "read", "mmap", "ioctl", "compat_ioctl"})
             @@ (f2 :> {"open", "release", "write", "mmap", "ioctl"})
C == INSTANCE CharDevice WITH Files <- {f1}, Offsets <- {0, 3, 4}, Lens <- {0, 1, 4}
(* ... and both files with few. *)
C2 == INSTANCE CharDevice WITH Offsets <- {2}, Lens <- {3}

(* DeviceTable: two processes that take the units there are, ... *)
McMm == ("frontend00" :> <<"dvb", 3>>) @@ ("frontend01" :> <<"dvb", 19>>)
        @@ ("demux00" :> <<"dvb", 4>>) @@ ("demux10" :> <<"dvb", 68>>)
        @@ ("evdev" :> <<"input", 64>>) @@ ("lirc" :> <<"lirc", 6>>)
McCdevs == DOMAIN McMm
McCount == [c \in McCdevs |-> IF c = "lirc" THEN 4 ELSE 1]
McNodes == {[kind |-> "evdev", unit |-> 0, q |-> 0, owner |-> "kernel", f |-> -1]}
McVideoUnits == {-1, 1}
D == INSTANCE DeviceTable WITH Cdevs <- {"demux00", "frontend01", "evdev"}
(* ... and one that was given the unit 1 with -v, and has more devices. *)
D1 == INSTANCE DeviceTable WITH Daemons <- {p1}, Cdevs <- McCdevs \ {"evdev"}

-----------------------------------------------------------------------------
SuiteInit ==
    /\ part \in {"probe", "tree", "file", "files", "processes", "process"}
    /\ ProbeInit
    /\ TreeInit
    /\ part # "tree" => cfg = CHOOSE c \in Configs : TRUE
    /\ CharInit
    /\ TableInit
    /\ u_videodev = [p \in Daemons |-> IF part = "process" /\ p = p1 THEN 1 ELSE -1]

SuiteNext ==
    \/ part = "probe" /\ ProbeNext /\ UNCHANGED <<part, treeVars, charVars, tableVars>>
    \/ part = "tree" /\ TreeNext /\ UNCHANGED <<part, probeVars, charVars, tableVars>>
    \/ part = "file" /\ C!CharNext /\ UNCHANGED <<part, probeVars, treeVars, tableVars>>
    \/ part = "files" /\ C2!CharNext /\ UNCHANGED <<part, probeVars, treeVars, tableVars>>
    \/ part = "processes" /\ D!TableNext /\ UNCHANGED <<part, probeVars, treeVars, charVars>>
    \/ part = "process" /\ D1!TableNext /\ UNCHANGED <<part, probeVars, treeVars, charVars>>

SuiteSpec == SuiteInit /\ [][SuiteNext]_<<part, probeVars, treeVars, charVars, tableVars>>
=============================================================================
