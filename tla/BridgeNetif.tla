---------------------------- MODULE BridgeNetif ----------------------------
(***************************************************************************)
(* How the bridge gives its data-forwarding ("LAN") netifs addresses that  *)
(* collide neither with each other nor with the networks its external      *)
(* ("WAN") netifs join: src/bridge_common.c, the part of src/bridge_wifi.c *)
(* that restores the softAP's address from flash, and the GOT_IP handlers. *)
(*                                                                         *)
(* An address is reduced to its network segment, the address under the     *)
(* mask of the segment prefix, and a mask to the number of segments it     *)
(* spans.  Segments are numbered; segment 0 is "no address".  Code between *)
(* two calls that may block (flash, the TCP/IP task) is one action.        *)
(***************************************************************************)
EXTENDS Integers, Sequences, Functions

CONSTANTS
    LanOrder,       \* the LAN netifs, as esp_bridge_create_all_netif() makes them
    WanOrder,       \* the WAN netifs, likewise
    Softap,         \* the LAN netif that reads its address back from NVS
    MaxSegment,
    DefaultPrefix,  \* NET_SEGMENT_IP_PREFIX_DEFAULT_IP
    Prefixes,       \* those set_net_segment_ip_prefix() is called with
    Width,          \* WAN netif -> segments its netmask spans
    WanSegments,    \* where a DHCP server outside may put a WAN netif
    CustomSegments, \* those set_ip_info() is called with
    Special,        \* segments of loopback, multicast, ... addresses
    CustomChecks,   \* what each registered check rejects, latest first
    Main,           \* the task that creates the netifs and calls the API
    EventTask       \* the task of the default event loop

LAN     == Range(LanOrder)
WAN     == Range(WanOrder)
Netif   == LAN \cup WAN
Segment == 1..MaxSegment
NoAddress == 0
Address == Segment \cup {NoAddress}
Task    == {Main, EventTask}

PowersOfTwo == {1, 2, 4, 8, 16, 32, 64, 128, 256, 512, 1024}

\* subnet_ip_is_valid(): the bit at the mask's end is clear, so a prefix has
\* room for two segments at least.
ValidPrefix(p) == p \in Segment /\ p % 2 = 0

ASSUME BridgeNetifAssumption ==
    /\ LAN \cap WAN = {} /\ Softap \in LAN
    /\ LanOrder \in Seq(LAN) /\ WanOrder \in Seq(WAN)
    /\ \A i, j \in DOMAIN LanOrder : LanOrder[i] = LanOrder[j] => i = j
    /\ \A i, j \in DOMAIN WanOrder : WanOrder[i] = WanOrder[j] => i = j
    /\ MaxSegment \in 1..2047     \* as far as PowersOfTwo reaches
    /\ \A p \in Prefixes \cup {DefaultPrefix} : ValidPrefix(p)
    /\ Width \in [WAN -> PowersOfTwo]
    /\ WanSegments \cup CustomSegments \cup Special \subseteq Segment
    /\ CustomChecks \in Seq(SUBSET Segment)

VARIABLES
    list,           \* bridge_link
    conflictCheck,  \* bridge_netif_t.conflict_check
    addr,           \* the address of each netif
    prefix,         \* net_segment_ip_prefix
    nvsAddr,        \* the softAP's entry in NVS: its address
    nvsCheck,       \* ... and its "_check" key (FALSE if missing, see Load)
    nvsPrefix,      \* NVS_KEY_NET_SEGMENT_PREFIX
    pending,        \* WAN netifs whose GOT_IP event waits for the event task
    task            \* what each task is doing: its program counter and locals

nvsVars == <<nvsAddr, nvsCheck, nvsPrefix>>
vars == <<list, conflictCheck, addr, prefix, nvsVars, pending, task>>

Idle == [pc |-> "idle", netif |-> Softap, cand |-> NoAddress, check |-> FALSE, save |-> FALSE,
         ret |-> "idle", ok |-> TRUE, todo |-> 1, wans |-> <<>>, savePrefix |-> FALSE]

\* At power-on app_main() creates the netifs.
Booting == [t \in Task |-> IF t = Main THEN [Idle EXCEPT !.pc = "create"] ELSE Idle]

Init ==
    /\ list = <<>>
    /\ conflictCheck = [n \in Netif |-> FALSE]
    /\ addr = [n \in Netif |-> NoAddress]
    /\ prefix = DefaultPrefix
    /\ nvsAddr = NoAddress /\ nvsCheck = FALSE /\ nvsPrefix = NoAddress
    /\ pending = {}
    /\ task = Booting

\* Operators named Bug_... are plausible mistakes in the operation they stand
\* beside; no action uses them.  Each breaks a property of this module.

-----------------------------------------------------------------------------
(* Choosing a segment *)

\* 1 << __builtin_ctz(p)
LowBit(p) == CHOOSE b \in PowersOfTwo : p % b = 0 /\ p % (2 * b) # 0

\* esp_bridge_netif_get_network_segment_info(): the first and last segment
PrefixRange(p) == p..(p + LowBit(p) - 1)

ASSUME PrefixAssumption ==
    \A p \in Prefixes \cup {DefaultPrefix} : PrefixRange(p) \subseteq Segment

Bug_UsedByLan(n, s) == \E m \in (LAN \cap Range(list)) \ {n} : addr[m] = s

\* esp_bridge_netif_network_segment_is_used()
Used(n, s) == \E m \in Range(list) \ {n} : addr[m] = s

Rejected(s) == \E i \in DOMAIN CustomChecks : s \in CustomChecks[i]

Bug_FreeIgnoringLan(n) ==
    {s \in PrefixRange(prefix) : s \notin Special /\ ~Rejected(s) /\ \A w \in WAN : addr[w] # s}

Free(n) == {s \in PrefixRange(prefix) : s \notin Special /\ ~Used(n, s) /\ ~Rejected(s)}

\* esp_bridge_netif_request_ip(): the first free one; NoAddress is ESP_FAIL.
RequestIp(n) ==
    IF Free(n) = {} THEN NoAddress ELSE CHOOSE s \in Free(n) : \A r \in Free(n) : s <= r

-----------------------------------------------------------------------------
(* esp_bridge_netif_set_ip_info() of a LAN netif *)

\* The call: netif n, segment s; the caller goes on at r.
CallSetIp(t, n, s, check, save, r) ==
    task' = [task EXCEPT ![t].pc = "setip", ![t].netif = n, ![t].cand = s, ![t].check = check,
                         ![t].save = save, ![t].ret = r, ![t].ok = TRUE]

Return(t, ok) ==
    task' = [task EXCEPT ![t] = IF task[t].ret = "idle" THEN Idle
                                ELSE [task[t] EXCEPT !.pc = task[t].ret, !.ok = ok]]

Goto(t, label) == task' = [task EXCEPT ![t].pc = label]

\* conflict_check first; then an address outside the prefix is refused, and
\* one the netif has already is only saved.
SetIp(t) ==
    /\ task[t].pc = "setip"
    /\ conflictCheck' = [conflictCheck EXCEPT ![task[t].netif] = task[t].check]
    /\ \/ task[t].cand \notin PrefixRange(prefix) /\ Return(t, FALSE)
       \/ /\ task[t].cand \in PrefixRange(prefix)
          /\ addr[task[t].netif] = task[t].cand
          /\ IF task[t].save THEN Goto(t, "saveAddr") ELSE Return(t, TRUE)
       \/ /\ task[t].cand \in PrefixRange(prefix)
          /\ addr[task[t].netif] # task[t].cand
          /\ Goto(t, "assign")
    /\ UNCHANGED <<list, addr, prefix, nvsVars, pending>>

\* The DHCP server stops, the address is set, the server starts.
Assign(t) ==
    /\ task[t].pc = "assign"
    /\ addr' = [addr EXCEPT ![task[t].netif] = task[t].cand]
    /\ IF task[t].save THEN Goto(t, "saveAddr") ELSE Return(t, TRUE)
    /\ UNCHANGED <<list, conflictCheck, prefix, nvsVars, pending>>

\* esp_bridge_save_ip_info_to_nvs() writes two keys.  Only the softAP's are
\* ever read back.
SaveAddr(t) ==
    /\ task[t].pc = "saveAddr"
    /\ nvsAddr' = IF task[t].netif = Softap THEN task[t].cand ELSE nvsAddr
    /\ Goto(t, "saveCheck")
    /\ UNCHANGED <<list, conflictCheck, addr, prefix, nvsCheck, nvsPrefix, pending>>

SaveCheck(t) ==
    /\ task[t].pc = "saveCheck"
    /\ nvsCheck' = IF task[t].netif = Softap THEN task[t].check ELSE nvsCheck
    /\ Return(t, TRUE)
    /\ UNCHANGED <<list, conflictCheck, addr, prefix, nvsAddr, nvsPrefix, pending>>

-----------------------------------------------------------------------------
(* esp_bridge_create_all_netif() *)

Creating(t) == LanOrder[task[t].todo]
NextToCreate(t) == task' = [task EXCEPT ![t].pc = "create", ![t].todo = @ + 1]

\* _esp_bridge_netif_list_add(): conflict_check is whatever malloc() found.
ListAdd(n) ==
    /\ list' = Append(list, n)
    /\ \E garbage \in BOOLEAN : conflictCheck' = [conflictCheck EXCEPT ![n] = garbage]

\* esp_bridge_create_netif() and the list_add that follows it
CreateNetif(t) ==
    /\ task[t].pc = "create" /\ task[t].todo <= Len(LanOrder) /\ Creating(t) # Softap
    /\ addr' = [addr EXCEPT ![Creating(t)] = RequestIp(Creating(t))]
    /\ ListAdd(Creating(t))
    /\ NextToCreate(t)
    /\ UNCHANGED <<prefix, nvsVars, pending>>

\* esp_bridge_create_softap_netif(): the address saved, else a new one.  A
\* missing "_check" key reads as 0.
CreateSoftap(t) ==
    /\ task[t].pc = "create" /\ task[t].todo <= Len(LanOrder) /\ Creating(t) = Softap
    /\ ListAdd(Softap)
    /\ LET saved == nvsAddr # NoAddress
           s     == IF saved THEN nvsAddr ELSE RequestIp(Softap)
       IN IF s = NoAddress THEN NextToCreate(t)
          ELSE CallSetIp(t, Softap, s, saved => nvsCheck, TRUE, "softap")
    /\ UNCHANGED <<addr, prefix, nvsVars, pending>>

Bug_NoSecondTry(t) ==
    /\ task[t].pc = "softap"
    /\ NextToCreate(t)
    /\ UNCHANGED <<list, conflictCheck, addr, prefix, nvsVars, pending>>

\* The address saved is of another prefix: a new one.
SoftapSet(t) ==
    /\ task[t].pc = "softap"
    /\ IF task[t].ok \/ RequestIp(Softap) = NoAddress
       THEN NextToCreate(t)
       ELSE CallSetIp(t, Softap, RequestIp(Softap), task[t].check, TRUE, "softapAgain")
    /\ UNCHANGED <<list, conflictCheck, addr, prefix, nvsVars, pending>>

SoftapSetAgain(t) ==
    /\ task[t].pc = "softapAgain"
    /\ NextToCreate(t)
    /\ UNCHANGED <<list, conflictCheck, addr, prefix, nvsVars, pending>>

\* The WAN netifs come last.
CreateWan(t) ==
    /\ task[t].pc = "create" /\ task[t].todo > Len(LanOrder)
    /\ list' = list \o WanOrder
    /\ task' = [task EXCEPT ![t] = Idle]
    /\ UNCHANGED <<conflictCheck, addr, prefix, nvsVars, pending>>

Create(t) == CreateNetif(t) \/ CreateSoftap(t) \/ SoftapSet(t) \/ SoftapSetAgain(t) \/ CreateWan(t)

-----------------------------------------------------------------------------
(* esp_bridge_netif_network_segment_conflict_update() *)

\* ip4_addr_netcmp() under both masks.  A LAN netif without an address has
\* an empty mask too and compares equal to anything.
SameNetwork(n, w) == addr[n] = NoAddress \/ addr[n] \div Width[w] = addr[w] \div Width[w]

\* Of several custom checks the last one's answer stands.
LastCheckRejects(s) ==
    CustomChecks # <<>> /\ s \in CustomChecks[Len(CustomChecks)]

Conflicting(n, w) ==
    n \in LAN /\ conflictCheck[n] /\ (SameNetwork(n, w) \/ LastCheckRejects(addr[n]))

\* The first netif of the list that has to move.
FirstConflict(w) == {i \in DOMAIN list : Conflicting(list[i], w)
                                         /\ \A j \in 1..(i - 1) : ~Conflicting(list[j], w)}

\* One WAN netif: skipped without an address; without a conflict done; with
\* one, the LAN netif moves, and the search ends there.
Update(t) ==
    /\ task[t].pc = "update"
    /\ task[t].wans # <<>>
    /\ LET w == Head(task[t].wans)
       IN \/ (addr[w] = NoAddress \/ FirstConflict(w) = {}) /\ Goto(t, "updated")
          \/ /\ addr[w] # NoAddress
             /\ \E i \in FirstConflict(w) :
                   task' = [task EXCEPT ![t] =
                       IF RequestIp(list[i]) = NoAddress THEN Idle
                       ELSE [@ EXCEPT !.pc = "assign", !.netif = list[i], !.ret = "updated",
                                      !.cand = RequestIp(list[i]), !.save = FALSE]]
    /\ UNCHANGED <<list, conflictCheck, addr, prefix, nvsVars, pending>>

Bug_UpdatedPastTheEnd(t) ==
    /\ task[t].pc = "updated"
    /\ task' = [task EXCEPT ![t] = [Idle EXCEPT !.pc = "update", !.wans = Tail(task[t].wans)]]
    /\ UNCHANGED <<list, conflictCheck, addr, prefix, nvsVars, pending>>

\* On to the next WAN netif.
Updated(t) ==
    /\ task[t].pc = "updated"
    /\ task' = [task EXCEPT ![t] =
           IF Tail(@.wans) = <<>> THEN Idle
           ELSE [Idle EXCEPT !.pc = "update", !.wans = Tail(task[t].wans)]]
    /\ UNCHANGED <<list, conflictCheck, addr, prefix, nvsVars, pending>>

CallUpdate(t, wans) == task' = [task EXCEPT ![t].pc = "update", ![t].wans = wans]

\* ip_event_sta_got_ip_handler(), got_ip_event_handler()
HandleGotIp(w) ==
    /\ task[EventTask].pc = "idle"
    /\ w \in pending
    /\ pending' = pending \ {w}
    /\ CallUpdate(EventTask, <<w>>)
    /\ UNCHANGED <<list, conflictCheck, addr, prefix, nvsVars>>

-----------------------------------------------------------------------------
(* esp_bridge_netif_set_net_segment_ip_prefix() *)

\* With one mask, "need_set_ip" is that the prefix changes.
SetPrefix(t, p, save) ==
    /\ task[t].pc = "idle"
    /\ prefix' = p
    /\ task' = [task EXCEPT ![t] =
           [Idle EXCEPT !.pc = "prefix", !.savePrefix = save,
                        !.todo = IF p = prefix THEN Len(list) + 1 ELSE 1]]
    /\ UNCHANGED <<list, conflictCheck, addr, nvsVars, pending>>

\* Each LAN netif of the list gets a new address, which is always saved.
Reallocate(t) ==
    /\ task[t].pc = "prefix"
    /\ task[t].todo <= Len(list)
    /\ LET n == list[task[t].todo]
           s == RequestIp(n)
       IN task' = [task EXCEPT ![t] =
              IF n \in LAN /\ s # NoAddress
              THEN [task[t] EXCEPT !.todo = @ + 1, !.pc = "setip", !.netif = n, !.cand = s,
                                   !.check = TRUE, !.save = TRUE, !.ret = "prefix"]
              ELSE [task[t] EXCEPT !.todo = @ + 1]]
    /\ UNCHANGED <<list, conflictCheck, addr, prefix, nvsVars, pending>>

PrefixDone(t) ==
    /\ task[t].pc = "prefix"
    /\ task[t].todo > Len(list)
    /\ nvsPrefix' = IF task[t].savePrefix THEN prefix ELSE nvsPrefix
    /\ task' = [task EXCEPT ![t] = Idle]
    /\ UNCHANGED <<list, conflictCheck, addr, prefix, nvsAddr, nvsCheck, pending>>

-----------------------------------------------------------------------------
(* The other calls of the API *)

\* set_ip_info() does not compare with the other netifs: the caller gives an
\* address that none of them has.
CallSetIpInfo(t, n, s, check, save) ==
    /\ task[t].pc = "idle"
    /\ ~Used(n, s)
    /\ CallSetIp(t, n, s, check, save, "idle")
    /\ UNCHANGED <<list, conflictCheck, addr, prefix, nvsVars, pending>>

\* set_ip_info(NULL): the address in NVS is erased, its "_check" key is not.
EraseIpInfo(t, n, check) ==
    /\ task[t].pc = "idle"
    /\ conflictCheck' = [conflictCheck EXCEPT ![n] = check]
    /\ nvsAddr' = IF n = Softap THEN NoAddress ELSE nvsAddr
    /\ UNCHANGED <<list, addr, prefix, nvsCheck, nvsPrefix, pending, task>>

SetConflictCheck(t, n, enable) ==
    /\ task[t].pc = "idle"
    /\ conflictCheck' = [conflictCheck EXCEPT ![n] = enable]
    /\ UNCHANGED <<list, addr, prefix, nvsVars, pending, task>>

\* conflict_update(NULL): every WAN netif in turn; without one it does nothing.
CallUpdateAll(t) ==
    /\ task[t].pc = "idle" /\ WanOrder # <<>>
    /\ CallUpdate(t, WanOrder)
    /\ UNCHANGED <<list, conflictCheck, addr, prefix, nvsVars, pending>>

Call(t) ==
    \/ \E n \in LAN, s \in CustomSegments, check, save \in BOOLEAN :
          CallSetIpInfo(t, n, s, check, save)
    \/ \E n \in LAN, check \in BOOLEAN : EraseIpInfo(t, n, check) \/ SetConflictCheck(t, n, check)
    \/ \E p \in Prefixes, save \in BOOLEAN : SetPrefix(t, p, save)
    \/ CallUpdateAll(t)

Run(t) ==
    \/ Create(t)
    \/ SetIp(t) \/ Assign(t) \/ SaveAddr(t) \/ SaveCheck(t)
    \/ Update(t) \/ Updated(t)
    \/ Reallocate(t) \/ PrefixDone(t)

-----------------------------------------------------------------------------
(* Outside *)

\* DHCP gives a WAN netif an address and posts GOT_IP.
WanGotIp(w, s) ==
    /\ w \in Range(list)
    /\ addr[w] # s
    /\ addr' = [addr EXCEPT ![w] = s]
    /\ pending' = pending \cup {w}
    /\ UNCHANGED <<list, conflictCheck, prefix, nvsVars, task>>

WanLostIp(w) ==
    /\ addr[w] # NoAddress
    /\ addr' = [addr EXCEPT ![w] = NoAddress]
    /\ UNCHANGED <<list, conflictCheck, prefix, nvsVars, pending, task>>

\* A reset at any point; the prefix is read back from NVS when first used.
Reboot ==
    /\ list # <<>>
    /\ list' = <<>>
    /\ conflictCheck' = [n \in Netif |-> FALSE]
    /\ addr' = [n \in Netif |-> NoAddress]
    /\ prefix' = IF nvsPrefix = NoAddress THEN DefaultPrefix ELSE nvsPrefix
    /\ pending' = {}
    /\ task' = Booting
    /\ UNCHANGED nvsVars

Next ==
    \/ \E t \in Task : Run(t)
    \/ Call(Main)
    \/ \E w \in WAN : HandleGotIp(w) \/ WanLostIp(w) \/ (\E s \in WanSegments : WanGotIp(w, s))
    \/ Reboot

Spec == Init /\ [][Next]_vars

-----------------------------------------------------------------------------
Frame ==
    [pc : {"idle", "create", "softap", "softapAgain", "setip", "assign", "saveAddr", "saveCheck",
           "update", "updated", "prefix"},
     netif : LAN, cand : Address, check : BOOLEAN, save : BOOLEAN,
     ret : {"idle", "softap", "softapAgain", "updated", "prefix"}, ok : BOOLEAN,
     todo : 1..(Len(LanOrder) + Len(WanOrder) + 1), wans : Seq(WAN), savePrefix : BOOLEAN]

TypeOK ==
    /\ list \in Seq(Netif)
    /\ \A i, j \in DOMAIN list : list[i] = list[j] => i = j
    /\ conflictCheck \in [Netif -> BOOLEAN]
    /\ addr \in [Netif -> Address]
    /\ prefix \in Segment
    /\ nvsAddr \in Address /\ nvsCheck \in BOOLEAN /\ nvsPrefix \in Address
    /\ pending \subseteq WAN
    /\ task \in [Task -> Frame]
    /\ \A t \in Task : task[t].pc \in {"update", "updated"} => task[t].wans # <<>>

\* No two data-forwarding netifs hand out addresses of one segment, through
\* re-allocations, changes of the prefix and reboots.
SegmentsUnique ==
    \A m, n \in LAN : m # n /\ addr[m] # NoAddress => addr[m] # addr[n]

\* When conflict_update has gone through a WAN netif, no LAN netif that is
\* checked for conflicts is in that netif's network (unless the WAN netif has
\* got another address meanwhile).
UpdateResolves ==
    \A t \in Task : task[t].pc = "updated" =>
        LET w == Head(task[t].wans)
        IN addr[w] # NoAddress /\ w \notin pending =>
               \A n \in LAN : conflictCheck[n] => ~SameNetwork(n, w)

\* Between calls every LAN netif has an address within the current prefix,
\* whichever of the prefix and the softAP's address were in NVS at the last
\* reset.
AddressesInPrefix ==
    list # <<>> /\ (\A t \in Task : task[t].pc = "idle") =>
        \A n \in LAN : addr[n] \in PrefixRange(prefix)
=============================================================================
