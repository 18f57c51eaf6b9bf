----------------------------- MODULE DeviceTable -----------------------------
(***************************************************************************)
(* How a kernel device number becomes a file below /dev: the registry of   *)
(* character devices (linux_func.c) and v4b_create() (webcamd.c), which    *)
(* scans it and asks cuse for a device file per device found.  Several     *)
(* webcamd processes share the unit numbers and the names of cuse, and     *)
(* drivers add and remove devices while the scan runs.                     *)
(*                                                                         *)
(*   u_videodev per process: the option -v, -1 if not given                *)
(*   live       per process: the cdevs added                               *)
(*   registry   per process: cdev_registry and cdev_mm, without the NULLs, *)
(*              by the number f_v4b = kind * SUB_MAX + subdev              *)
(*   place, phase   per process: where v4b_create() is                     *)
(*   unit_num   per process: the units, by group and adapter; -1 is none   *)
(*   found      per process: the numbers v4b_create() could open (history) *)
(*   refused    per process: the numbers whose name cuse refused when no   *)
(*              other unit could be tried (history)                        *)
(*   units      cuse: the allocated units and their holders, per group     *)
(*   nodes      cuse: the files: kind, unit, q, and who serves what        *)
(***************************************************************************)
EXTENDS Integers, Sequences, FiniteSets

CONSTANTS
    Daemons,        \* the processes
    VideoUnits,     \* what -v may say
    Cdevs,          \* the devices drivers may add, and of each:
    Mm, Count,      \*   the first number <<major, minor>>, how many numbers
    dvb_swap_fe,
    KernelNodes,    \* device files of the kernel's own drivers
    MaxUnit         \* bound: units that cuse has, per group

VARIABLES u_videodev, live, registry, place, phase, unit_num, found, refused, units, nodes

tableVars == <<u_videodev, live, registry, place, phase, unit_num, found, refused, units, nodes>>

-----------------------------------------------------------------------------
F_V4B_SUBDEV_MAX == 8
F_V4B_SUBSUBDEV_MAX == 4
SUB_MAX == F_V4B_SUBDEV_MAX * F_V4B_SUBSUBDEV_MAX

Number == [video |-> 0, audio |-> 1, ca |-> 2, demux |-> 3, dvr |-> 4, frontend |-> 5,
           osd |-> 6, sec |-> 7, dvbvideo |-> 8, lirc |-> 9, evdev |-> 10, joydev |-> 11,
           roccat |-> 12]
Kinds == DOMAIN Number
F_V4B_MAX == 13

(* The kinds of a DVB adapter, with their type in a minor number. *)
DvbType == [dvbvideo |-> 0, audio |-> 1, sec |-> 2, frontend |-> 3, demux |-> 4, dvr |-> 5,
            ca |-> 6, osd |-> 8]
Dvb == DOMAIN DvbType

(* The letter in front of webcamd_devnames[]: the group of the unit numbers. *)
Group(kind) == IF kind \in Dvb THEN "dvb" ELSE kind
Groups == {"video", "dvb", "lirc", "evdev", "joydev", "roccat"}
Subdevs == 0..F_V4B_SUBDEV_MAX-1

(* cdev_set_device(): the place of a device number, {} if it has none. *)
Xor(m, n) == 2 * (((m \div 2) + (n \div 2)) % 2) + ((m + n) % 2)
Swap(type, id) == IF type = 3 THEN Xor(id, dvb_swap_fe) ELSE id

SlotOf(kind, subdev) == Number[kind] * SUB_MAX + subdev
Small(kind, subdev) == IF subdev < F_V4B_SUBDEV_MAX THEN {SlotOf(kind, subdev)} ELSE {}

DvbPlace(minor) ==
    LET adapter == ((minor \div 64) % 1024) % 256
        type    == minor % 16
        id      == Swap(type, (minor \div 16) % 4)
    IN  {SlotOf(k, adapter + F_V4B_SUBDEV_MAX * id) :
            k \in {k \in Dvb : DvbType[k] = type /\ adapter < F_V4B_SUBDEV_MAX}}

Place(mm) ==
    LET major == mm[1]  minor == mm[2] IN
    CASE major = "input" /\ minor \div 64 = 1 -> Small("evdev", minor % 64)
      [] major = "input" /\ minor \div 64 = 0 -> Small("joydev", minor % 64)
      [] major \in {"lirc", "roccat", "video"} -> Small(major, minor % 256)
      [] major = "dvb" -> DvbPlace(minor)
      [] OTHER -> {}

Numbers(c) == {<<Mm[c][1], Mm[c][2] + k>> : k \in 0..Count[c]-1}
Places(c) == UNION {Place(mm) : mm \in Numbers(c)}

(* Minor numbers are those that Linux gives out (the code keeps their low  *)
(* bits); of the kernel's own drivers evdev alone shares names with webcamd. *)
MinorMax(major) == IF major = "dvb" THEN 16384 ELSE IF major = "input" THEN 1024 ELSE 256

ASSUME TableAssumption ==
    /\ dvb_swap_fe \in 0..3 /\ MaxUnit \in Nat
    /\ VideoUnits \subseteq {-1} \cup Nat
    /\ \A c \in Cdevs : /\ Mm[c] \in STRING \X Nat /\ Count[c] \in Nat \ {0}
                        /\ Mm[c][2] + Count[c] <= MinorMax(Mm[c][1])
    /\ \A x \in KernelNodes : x.kind = "evdev" /\ x.owner \notin Daemons

-----------------------------------------------------------------------------
TableInit ==
    /\ u_videodev \in [Daemons -> VideoUnits]
    /\ live = [p \in Daemons |-> {}]
    /\ registry = [p \in Daemons |-> <<>>]
    /\ place = [p \in Daemons |-> 0]
    /\ phase = [p \in Daemons |-> "start"]
    /\ unit_num = [p \in Daemons |-> [g \in Groups |-> [a \in Subdevs |-> -1]]]
    /\ found = [p \in Daemons |-> {}]
    /\ refused = [p \in Daemons |-> {}]
    /\ units = [g \in Groups |-> {}]
    /\ nodes = KernelNodes

Created == UNCHANGED <<u_videodev, place, phase, unit_num, found, refused, units, nodes>>

(* cdev_add() of a driver, which uses numbers that are free. *)
cdev_add(p, c) ==
    /\ phase[p] # "exit"
    /\ \A d \in live[p] : Numbers(c) \cap Numbers(d) = {}
    /\ c \notin live[p]
    /\ live' = [live EXCEPT ![p] = @ \cup {c}]
    /\ registry' = [registry EXCEPT ![p] =
           [f \in DOMAIN @ \cup Places(c) |->
               IF f \in Places(c)
               THEN [cdev |-> c, mm |-> CHOOSE mm \in Numbers(c) : f \in Place(mm)] ELSE @[f]]]
    /\ Created

(* cdev_del(), also of cdev_device_add() when device_add() fails. *)
cdev_del(p, c) ==
    /\ c \in live[p]
    /\ live' = [live EXCEPT ![p] = @ \ {c}]
    /\ registry' = [registry EXCEPT ![p] = [f \in DOMAIN @ \ Places(c) |-> @[f]]]
    /\ Created

(* The numbers for which cdev_get_device() finds a device. *)
Present(p) == DOMAIN registry[p]

-----------------------------------------------------------------------------
(* v4b_create() *)
KindOf(f) == CHOOSE k \in Kinds : Number[k] = f \div SUB_MAX
DecodeMutant(f) ==
    [kind |-> KindOf(f),
     a    |-> f % F_V4B_SUBDEV_MAX,
     q    |-> (f \div F_V4B_SUBSUBDEV_MAX) % F_V4B_SUBSUBDEV_MAX]
Decode(f) ==
    [kind |-> KindOf(f),
     a    |-> f % F_V4B_SUBDEV_MAX,
     q    |-> (f \div F_V4B_SUBDEV_MAX) % F_V4B_SUBSUBDEV_MAX]
GroupOf(f) == Group(Decode(f).kind)
UnitOf(p, f) == unit_num[p][GroupOf(f)][Decode(f).a]

CreateBegin(p) ==
    /\ phase[p] = "start"
    /\ phase' = [phase EXCEPT ![p] = "scan"]
    /\ unit_num' = [unit_num EXCEPT ![p] =
           [g \in Groups |-> [a \in Subdevs |->
               IF u_videodev[p] < 0 THEN -1 ELSE u_videodev[p] + a]]]
    /\ UNCHANGED <<u_videodev, live, registry, place, found, refused, units, nodes>>

(* The next number with a device, passing by those without; linux_open()   *)
(* may fail in the driver.                                                 *)
Ahead(p) == {f \in Present(p) : f >= place[p]}

ScanNext(p) ==
    /\ phase[p] = "scan"
    /\ \E f \in Ahead(p) :
        /\ \A g \in Ahead(p) : f <= g
        /\ \/ /\ phase' = [phase EXCEPT ![p] = "unit"]
              /\ found' = [found EXCEPT ![p] = @ \cup {f}]
              /\ place' = [place EXCEPT ![p] = f]
           \/ /\ place' = [place EXCEPT ![p] = f + 1]
              /\ UNCHANGED <<phase, found>>
    /\ UNCHANGED <<u_videodev, live, registry, unit_num, refused, units, nodes>>

ScanEnd(p) ==
    /\ phase[p] = "scan" /\ Ahead(p) = {}
    /\ phase' = [phase EXCEPT ![p] = "done"]
    /\ UNCHANGED <<u_videodev, live, registry, place, unit_num, found, refused, units, nodes>>

(* cuse: units are given out once; a process that ends gives all back.     *)
Free(g) == (0..MaxUnit) \ {x[1] : x \in units[g]}

Alloc(p, g, a) ==
    \E u \in Free(g) :
        /\ \A v \in Free(g) : u <= v
        /\ unit_num' = [unit_num EXCEPT ![p][g][a] = u]
        /\ units' = [units EXCEPT ![g] = @ \cup {<<u, p>>}]

(* v4b_errx() *)
ExitProcess(p) ==
    /\ phase' = [phase EXCEPT ![p] = "exit"]
    /\ nodes' = {x \in nodes : x.owner # p}
    /\ live' = [live EXCEPT ![p] = {}]
    /\ registry' = [registry EXCEPT ![p] = <<>>]
    /\ found' = [found EXCEPT ![p] = {}]
    /\ units' = [g \in Groups |-> {x \in units[g] : x[2] # p}]
    /\ UNCHANGED <<u_videodev, place, unit_num, refused>>

TakeUnit(p) ==
    LET f == place[p] IN
    /\ phase[p] = "unit"
    /\ \/ /\ UnitOf(p, f) < 0 /\ Free(GroupOf(f)) = {}
          /\ ExitProcess(p)
       \/ /\ IF UnitOf(p, f) < 0 THEN Alloc(p, GroupOf(f), Decode(f).a)
                                 ELSE UNCHANGED <<unit_num, units>>
          /\ phase' = [phase EXCEPT ![p] = "create"]
          /\ UNCHANGED <<u_videodev, live, registry, place, found, refused, nodes>>

IsTaken(kind, u, q) == \E x \in nodes : x.kind = kind /\ x.unit = u /\ x.q = q

(* A name that is taken is an error of cuse; only for evdev the next unit  *)
(* is tried.                                                               *)
NoOther(p) == u_videodev[p] >= 0 \/ Free("evdev") = {}
Retry(p, f) == Decode(f).kind = "evdev" /\ ~NoOther(p)

Create(p) ==
    LET f == place[p]  d == Decode(f)  taken == IsTaken(d.kind, UnitOf(p, f), d.q) IN
    /\ phase[p] = "create"
    /\ \/ /\ taken /\ Retry(p, f)
          /\ Alloc(p, GroupOf(f), d.a)
          /\ UNCHANGED <<place, phase, refused, nodes>>
       \/ /\ ~(taken /\ Retry(p, f))
          /\ nodes' = IF taken THEN nodes
                      ELSE nodes \cup {[kind |-> d.kind, unit |-> UnitOf(p, f), q |-> d.q,
                                        owner |-> p, f |-> f]}
          /\ refused' = IF taken /\ NoOther(p) THEN [refused EXCEPT ![p] = @ \cup {f}] ELSE refused
          /\ place' = [place EXCEPT ![p] = @ + 1]
          /\ phase' = [phase EXCEPT ![p] = "scan"]
          /\ UNCHANGED <<unit_num, units>>
    /\ UNCHANGED <<u_videodev, live, registry, found>>

TableNext ==
    \E p \in Daemons :
        \/ CreateBegin(p) \/ ScanNext(p) \/ ScanEnd(p) \/ TakeUnit(p) \/ Create(p)
        \/ \E c \in Cdevs : cdev_add(p, c) \/ cdev_del(p, c)

TableSpec == TableInit /\ [][TableNext]_tableVars

-----------------------------------------------------------------------------
(* The registry holds the devices that are there and no other, each where  *)
(* its number belongs: frontends that dvb_swap_fe exchanges, ranges that   *)
(* are added and removed at once, and numbers that are too large.          *)
RegistryExact ==
    \A p \in Daemons :
        /\ \A f \in DOMAIN registry[p] : registry[p][f].cdev \in live[p]
        /\ \A c \in live[p] : \A mm \in Numbers(c) : \A f \in Place(mm) :
               f \in DOMAIN registry[p] /\ registry[p][f] = [cdev |-> c, mm |-> mm]

(* A device file opens a device of the kind its name says: v4b_create()    *)
(* takes numbers apart the way cdev_set_device() puts them together.       *)
NodeOpensItsDevice ==
    \A x \in nodes : x.owner \in Daemons /\ x.f \in DOMAIN registry[x.owner] =>
        LET mm == registry[x.owner][x.f].mm IN
        /\ x.kind \in Dvb <=> mm[1] = "dvb"
        /\ x.kind \in Dvb => /\ DvbType[x.kind] = mm[2] % 16
                             /\ x.q = Swap(mm[2] % 16, (mm[2] \div 16) % 4)
        /\ x.kind \notin Dvb => x.q = 0

(* Units that the user chooses with -v are not known to cuse: a process    *)
(* that has one is the only one.                                           *)
ChoiceAlone ==
    \A p, r \in Daemons :
        u_videodev[p] >= 0 /\ phase[p] # "start" /\ phase[r] # "start" => p = r

(* The files of one DVB adapter are in one directory, and two adapters are *)
(* never in the same, whichever process serves them.                       *)
AdapterOf(x) == <<x.owner, Decode(x.f).a>>
AdapterTogether ==
    ChoiceAlone =>
        \A x, y \in {z \in nodes : z.kind \in Dvb} : x.unit = y.unit <=> AdapterOf(x) = AdapterOf(y)

(* When v4b_create() is done, each device that it could open has its file, *)
(* except an evdev device whose names cuse refused until no unit was left. *)
FileForEach ==
    ChoiceAlone =>
        \A p \in Daemons : phase[p] = "done" =>
            \A f \in found[p] : \/ \E x \in nodes : x.owner = p /\ x.f = f
                                \/ Decode(f).kind = "evdev" /\ f \in refused[p]

(* DeviceTable: cdev_registry holds the devices that are there, each in    *)
(* its place; a file of v4b_create() opens a device of the kind its name   *)
(* says; the files of a DVB adapter are together; no device is left out.   *)
TableRight == RegistryExact /\ NodeOpensItsDevice /\ AdapterTogether /\ FileForEach
=============================================================================
