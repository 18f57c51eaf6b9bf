------------------------------- MODULE UsbTree -------------------------------
(***************************************************************************)
(* The tree of structures that drivers see of a USB device (linux_usb.c):  *)
(* usb_linux_create_usb_device() builds it in one block of memory whose    *)
(* size it computes first, usb_set_interface() selects alternate settings, *)
(* and pipes are resolved to endpoints in two ways, by a search through    *)
(* the selected settings and by the tables ep_in and ep_out.               *)
(*                                                                         *)
(* A configuration is a sequence of interfaces, each with its number and a *)
(* sequence of settings, the first of which libusb20 keeps apart from the  *)
(* others.  A setting is a sequence of endpoints, an endpoint the record   *)
(* of its number, direction and type.  An endpoint is named by its place   *)
(* <<interface, setting, endpoint>>.                                       *)
(*                                                                         *)
(*   cfg            the configuration                                      *)
(*   build          what usb_linux_create_usb_device() does: it counts,    *)
(*                  fills, has "failed", or the device is "made"           *)
(*   iface, setting the place of its loops                                 *)
(*   niface_total, nedesc   what it has counted                            *)
(*   uhi            the settings: which one it is, the index of its first  *)
(*                  endpoint in uhe, bNumEndpoints                         *)
(*   uhe            the endpoints                                          *)
(*   altsetting, cur_altsetting, intf_assoc   of each interface: indices   *)
(*                  into uhi; the association, 0 is NULL                   *)
(*   ep_in, ep_out  tables by endpoint number                              *)
(*   chosen         the settings that the device has selected (external)   *)
(*   track          where the first loop was before each setting, and how  *)
(*                  many endpoints it had counted (history)                *)
(***************************************************************************)
EXTENDS Integers, Sequences

CONSTANTS
    Configs,        \* the configurations to try
    IfaceMax,       \* USB_LINUX_IFACE_MAX
    MaxIads,        \* USB_MAXIADS
    MaxAlt,         \* bound: the largest alternate setting that a driver asks for
    None            \* no endpoint

VARIABLES cfg, build, iface, setting, niface_total, nedesc, uhi, uhe, altsetting, cur_altsetting,
          intf_assoc, ep_in, ep_out, chosen, track

treeVars == <<cfg, build, iface, setting, niface_total, nedesc, uhi, uhe, altsetting,
              cur_altsetting, intf_assoc, ep_in, ep_out, chosen, track>>

Control == "control"
EpNums == 0..15
Dirs == {"in", "out"}
Endpoints == [ep : EpNums, dir : Dirs, type : {Control, "isoc", "bulk", "interrupt"}]
Interfaces == [num : 0..255, settings : Seq(Seq(Endpoints)) \ {<<>>}]

(* An endpoint address belongs to one interface and is once in a setting;  *)
(* a control endpoint has both directions of its number.                   *)
SameEndpoint(e, f) == e.ep = f.ep /\ (e.dir = f.dir \/ (e.type = Control /\ f.type = Control))
AddressesApart(c) ==
    \A i, j \in DOMAIN c.ifaces :
        \A a \in DOMAIN c.ifaces[i].settings, b \in DOMAIN c.ifaces[j].settings :
            i # j \/ a = b =>
                \A e \in DOMAIN c.ifaces[i].settings[a], f \in DOMAIN c.ifaces[j].settings[b] :
                    SameEndpoint(c.ifaces[i].settings[a][e], c.ifaces[j].settings[b][f])
                        => i = j /\ e = f

ASSUME TreeAssumption ==
    /\ IfaceMax \in Nat /\ MaxIads \in Nat /\ MaxAlt \in Nat
    /\ None \notin Nat \X Nat \X Nat
    /\ \A c \in Configs : /\ c.ifaces \in Seq(Interfaces)
                          /\ c.iads \in Seq([first : Nat, count : Nat])
                          /\ AddressesApart(c)

Num == IF Len(cfg.ifaces) > IfaceMax THEN IfaceMax ELSE Len(cfg.ifaces)
Ifs == 1..Num
Settings(i) == cfg.ifaces[i].settings
At(p) == Settings(p[1])[p[2]][p[3]]

Ep0 == <<0, 0, 0>>
NoEndpoints == [n \in EpNums |-> IF n = 0 THEN Ep0 ELSE None]

TreeInit ==
    /\ cfg \in Configs
    /\ build = "count" /\ iface = 1 /\ setting = 1 /\ niface_total = 0 /\ nedesc = 0
    /\ uhi = <<>> /\ uhe = <<>>
    /\ altsetting = [i \in 1..IfaceMax |-> 0] /\ cur_altsetting = [i \in 1..IfaceMax |-> 0]
    /\ intf_assoc = [i \in 1..IfaceMax |-> 0]
    /\ ep_in = NoEndpoints /\ ep_out = NoEndpoints
    /\ chosen = [i \in 1..IfaceMax |-> 1]
    /\ track = <<[i |-> 1, a |-> 1, e |-> 0]>>

-----------------------------------------------------------------------------
(* usb_linux_create_usb_device(), a step for each setting.  Its two loops  *)
(* go through interfaces and settings in the same order.                   *)
AtLast == setting = Len(Settings(iface))
Advance ==
    /\ iface' = IF AtLast THEN iface + 1 ELSE iface
    /\ setting' = IF AtLast THEN 1 ELSE setting + 1

(* First pass: how many structures. *)
CountSetting ==
    /\ build = "count" /\ iface <= Num
    /\ niface_total' = niface_total + 1
    /\ nedesc' = nedesc + Len(Settings(iface)[setting])
    /\ Advance
    /\ track' = Append(track, [i |-> iface', a |-> setting', e |-> nedesc'])
    /\ UNCHANGED <<cfg, build, uhi, uhe, altsetting, cur_altsetting, intf_assoc, ep_in, ep_out,
                   chosen>>

Allocate ==
    /\ build = "count" /\ iface > Num
    /\ build' \in {"fill", "failed"}
    /\ iface' = 1 /\ setting' = 1
    /\ UNCHANGED <<cfg, niface_total, nedesc, uhi, uhe, altsetting, cur_altsetting, intf_assoc,
                   ep_in, ep_out, chosen, track>>

(* What a setting h of uhi leads to in the array mem of endpoints. *)
Slice(h, mem) == [e \in 1..h.num |-> mem[h.endpoint + e - 1]]

(* usb_linux_fill_ep_info(): no endpoint 0, no entry is taken out again. *)
Having(s, dir, n) == {e \in DOMAIN s : n # 0 /\ At(s[e]).dir = dir /\ At(s[e]).ep = n}
Fill(table, s, dir) ==
    [n \in EpNums |-> IF Having(s, dir, n) = {} THEN table[n]
                      ELSE s[CHOOSE e \in Having(s, dir, n) : \A f \in Having(s, dir, n) : f <= e]]
FillMutant(table, s, dir) ==
    [n \in EpNums |-> IF table[n] # None THEN table[n] ELSE Fill(table, s, dir)[n]]
usb_linux_fill_ep_info(table, s, dir) == Fill(table, s, dir)

(* Second pass: the settings and their endpoints are put one after the     *)
(* other; after the last setting of an interface its first is selected.    *)
FillSetting ==
    LET eps == Settings(iface)[setting]
        s   == Slice(uhi'[cur_altsetting'[iface]], uhe')
    IN
    /\ build = "fill" /\ iface <= Num
    /\ uhi' = Append(uhi, [at |-> <<iface, setting>>, endpoint |-> Len(uhe) + 1, num |-> Len(eps)])
    /\ uhe' = uhe \o [e \in 1..Len(eps) |-> <<iface, setting, e>>]
    /\ IF setting = 1
       THEN /\ altsetting' = [altsetting EXCEPT ![iface] = Len(uhi) + 1]
            /\ cur_altsetting' = [cur_altsetting EXCEPT ![iface] = Len(uhi) + 1]
       ELSE UNCHANGED <<altsetting, cur_altsetting>>
    /\ IF AtLast
       THEN /\ ep_in' = usb_linux_fill_ep_info(ep_in, s, "in")
            /\ ep_out' = usb_linux_fill_ep_info(ep_out, s, "out")
       ELSE UNCHANGED <<ep_in, ep_out>>
    /\ Advance
    /\ UNCHANGED <<cfg, build, niface_total, nedesc, intf_assoc, chosen, track>>

(* The interface associations, wherever in the configuration they are      *)
(* found, as far as there is room for them.                                *)
num_iad == IF Len(cfg.iads) > MaxIads THEN MaxIads ELSE Len(cfg.iads)
Covers(n, inum) ==
    cfg.iads[n].count # 0 /\ inum \in cfg.iads[n].first..cfg.iads[n].first + cfg.iads[n].count - 1

Covering(inum) == {n \in 1..num_iad : Covers(n, inum)}
usb_find_iad(inum) ==
    IF Covering(inum) = {} THEN 0
    ELSE CHOOSE n \in Covering(inum) : \A m \in Covering(inum) : n <= m

(* An interface is resolved by the number in its first alternate setting.  *)
(* One without alternates has none: what is read there is some other       *)
(* setting, or no setting at all.                                          *)
ReadNumber(i) == IF Len(Settings(i)) > 1 THEN {cfg.ifaces[i].num} ELSE 0..255

ResolveIads ==
    /\ build = "fill" /\ iface > Num
    /\ intf_assoc' \in [1..IfaceMax -> 0..num_iad]
    /\ \A i \in Ifs : \E inum \in ReadNumber(i) : intf_assoc'[i] = usb_find_iad(inum)
    /\ \A i \in 1..IfaceMax : i > Num => intf_assoc'[i] = 0
    /\ build' = "made"
    /\ UNCHANGED <<cfg, iface, setting, niface_total, nedesc, uhi, uhe, altsetting, cur_altsetting,
                   ep_in, ep_out, chosen, track>>

-----------------------------------------------------------------------------
(* usb_ifnum_to_if(): interface numbers need not be consecutive. *)
IfNumber(i) == cfg.ifaces[uhi[altsetting[i]].at[1]].num
usb_ifnum_to_if(no, i) == IfNumber(i) = no /\ \A j \in 1..i-1 : IfNumber(j) # no

(* usb_altnum_to_altsetting(), for a setting that the interface has. *)
usb_altnum_to_altsetting(i, alt) == altsetting[i] + alt

(* usb_set_interface(): the device may refuse. *)
set_interface(no, alt) ==
    \E i \in Ifs :
        LET h == usb_altnum_to_altsetting(i, alt)  s == Slice(uhi[h], uhe) IN
        /\ build = "made"
        /\ usb_ifnum_to_if(no, i) /\ alt < Len(Settings(i))
        /\ \/ /\ chosen' = [chosen EXCEPT ![i] = alt + 1]
              /\ cur_altsetting' = [cur_altsetting EXCEPT ![i] = h]
              /\ ep_in' = usb_linux_fill_ep_info(ep_in, s, "in")
              /\ ep_out' = usb_linux_fill_ep_info(ep_out, s, "out")
           \/ UNCHANGED <<chosen, cur_altsetting, ep_in, ep_out>>
        /\ UNCHANGED <<cfg, build, iface, setting, niface_total, nedesc, uhi, uhe, altsetting,
                       intf_assoc, track>>

TreeNext ==
    \/ CountSetting \/ Allocate \/ FillSetting \/ ResolveIads
    \/ \E j \in DOMAIN cfg.ifaces : \E alt \in 0..MaxAlt : set_interface(cfg.ifaces[j].num, alt)

TreeSpec == TreeInit /\ [][TreeNext]_treeVars

-----------------------------------------------------------------------------
(* Pipes.  usb_find_host_endpoint() goes through the selected settings; of *)
(* a control pipe the direction does not count.                            *)
Current(i) == uhi[cur_altsetting[i]]
Looked(x) == uhe[Current(x[1]).endpoint + x[2] - 1]
FitsPipe(e, pipe) == e.ep = pipe.ep /\ e.type = pipe.type /\ (pipe.type = Control \/ e.dir = pipe.dir)
Fitting(pipe) ==
    {x \in Ifs \X (1..Len(uhe)) : x[2] <= Current(x[1]).num /\ FitsPipe(At(Looked(x)), pipe)}
Earlier(x, y) == x[1] < y[1] \/ (x[1] = y[1] /\ x[2] <= y[2])

usb_find_host_endpoint(pipe) ==
    IF Fitting(pipe) # {}
    THEN Looked(CHOOSE x \in Fitting(pipe) : \A y \in Fitting(pipe) : Earlier(x, y))
    ELSE IF pipe.type = Control /\ pipe.ep = 0 THEN Ep0 ELSE None

(* usb_pipe_endpoint() and usb_maxpacket() use the tables. *)
usb_pipe_endpoint(pipe) == IF pipe.dir = "in" THEN ep_in[pipe.ep] ELSE ep_out[pipe.ep]

-----------------------------------------------------------------------------
(* The second pass stays within what the first pass counted and fills it,  *)
(* and each setting finds its own endpoints.                               *)
LayoutFits ==
    /\ Len(uhi) <= niface_total /\ Len(uhe) <= nedesc
    /\ build = "made" =>
        /\ Len(uhi) = niface_total /\ Len(uhe) = nedesc
        /\ \A i \in Ifs : \A a \in 1..Len(Settings(i)) :
            LET h == uhi[usb_altnum_to_altsetting(i, a - 1)] IN
            h.at = <<i, a>> /\ Slice(h, uhe) = [e \in 1..Len(Settings(i)[a]) |-> <<i, a, e>>]

(* An endpoint that the device has selected is found through its pipe, by  *)
(* the search and by the tables alike, and the search finds no other.      *)
InUse == UNION {{<<i, chosen[i], e>> : e \in 1..Len(Settings(i)[chosen[i]])} : i \in Ifs}
PipesResolve ==
    build = "made" =>
        /\ \A p \in InUse : /\ usb_find_host_endpoint(At(p)) = p
                            /\ At(p).ep # 0 => usb_pipe_endpoint(At(p)) = p
        /\ \A pipe \in Endpoints :
            LET q == usb_find_host_endpoint(pipe) IN
            q \in InUse \cup {None, Ep0} /\ (q = Ep0 => pipe.ep = 0 /\ pipe.type = Control)

(* "resolve all IADs": an interface with alternate settings gets the first *)
(* association it is part of, if it is part of one.  What one without them *)
(* gets is accidental.                                                     *)
IadOfInterface ==
    build = "made" =>
        \A i \in Ifs : Len(Settings(i)) > 1 =>
            LET inum == cfg.ifaces[i].num IN
            /\ intf_assoc[i] # 0 => intf_assoc[i] <= num_iad /\ Covers(intf_assoc[i], inum)
            /\ \A m \in 1..num_iad : Covers(m, inum) => intf_assoc[i] \in 1..m

(* UsbTree: usb_linux_create_usb_device() stays within the block whose     *)
(* size it has computed, pipes lead to the endpoints of the settings that  *)
(* are selected, and interfaces get the associations they are part of.     *)
TreeRight == LayoutFits /\ PipesResolve /\ IadOfInterface
=============================================================================
