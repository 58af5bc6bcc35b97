------------------------- MODULE BridgeNetifProofs -------------------------
(***************************************************************************)
(* Theorems about BridgeNetif, for any netifs, segments, checks, masks and *)
(* any number of calls, events and resets, as long as one task makes all   *)
(* calls: the default event loop's.                                        *)
(***************************************************************************)
EXTENDS BridgeNetif, FiniteSetTheorems, WellFoundedInduction, TLAPS

\* The API is called from handlers of the default event loop only.
OneCaller == EventTask = Main

F == task[Main]

-----------------------------------------------------------------------------
(* Segments *)

LEMMA LowBitType == \A p \in Segment : LowBit(p) \in PowersOfTwo
  <1> SUFFICES ASSUME NEW p \in Segment
               PROVE  \E b \in PowersOfTwo : p % b = 0 /\ p % (2 * b) # 0
    BY DEF LowBit
  <1>1. p \in 1..2047
    BY BridgeNetifAssumption DEF Segment
  <1>2. p % 1 = 0
    <2>1. \A k \in Nat : k % 1 = 0
      OBVIOUS
    <2> QED
      BY <1>1, <2>1
  <1>3. p % 2048 # 0
    <2>1. p \in Nat /\ 0 < p /\ p < 2048
      BY <1>1
    <2> QED
      BY <2>1, SMTT(20)
  <1> QED
    BY <1>1, <1>2, <1>3 DEF PowersOfTwo

\* The prefixes there are
KnownPrefix == Prefixes \cup {DefaultPrefix}

LEMMA RangeType ==
  ASSUME NEW p \in KnownPrefix
  PROVE  /\ p \in Segment /\ PrefixRange(p) \subseteq Segment
         /\ PrefixRange(p) \subseteq Nat /\ NoAddress \notin PrefixRange(p)
  BY BridgeNetifAssumption, PrefixAssumption DEF ValidPrefix, Segment, KnownPrefix, NoAddress

\* A set of natural numbers has a least element.
LEMMA LeastExists ==
  ASSUME NEW S \in SUBSET Nat, S # {}
  PROVE  \E s \in S : \A r \in S : s <= r
  <1>1. PICK s \in S : \A r \in S : ~(<<r, s>> \in OpToRel(<, Nat))
    BY NatLessThanWellFounded, WFMin
  <1>2. \A r \in S : ~(r < s)
    BY <1>1 DEF OpToRel
  <1> QED
    BY <1>2

\* esp_bridge_netif_request_ip() returns a free segment, or fails for want of one.
LEMMA Requested ==
  ASSUME prefix \in KnownPrefix, NEW n
  PROVE  \/ RequestIp(n) \in Free(n)
         \/ RequestIp(n) = NoAddress /\ Free(n) = {}
  <1>1. Free(n) \in SUBSET Nat
    BY RangeType DEF Free
  <1>2. ASSUME Free(n) # {} PROVE RequestIp(n) \in Free(n)
    BY <1>1, <1>2, LeastExists DEF RequestIp
  <1> QED
    BY <1>2 DEF RequestIp

\* A segment requested is in the prefix, and no other netif of the list has it.
LEMMA RequestedUnused ==
  ASSUME prefix \in KnownPrefix, NEW n, RequestIp(n) # NoAddress
  PROVE  /\ RequestIp(n) \in PrefixRange(prefix) /\ RequestIp(n) \in Segment
         /\ \A m \in Range(list) \ {n} : addr[m] # RequestIp(n)
  BY Requested, RangeType DEF Free, Used

LEMMA RequestType ==
  ASSUME prefix \in KnownPrefix, NEW n
  PROVE  RequestIp(n) \in Address
  BY Requested, RangeType DEF Free, Address

-----------------------------------------------------------------------------
(* The task's frame *)

\* The only task goes on with the frame g.
LEMMA Goes ==
  ASSUME OneCaller, task \in [Task -> Frame], NEW g \in Frame, task' = [task EXCEPT ![Main] = g]
  PROVE  task' \in [Task -> Frame] /\ F' = g
  BY DEF F, OneCaller, Task

LEMMA FrameType ==
  ASSUME OneCaller, task \in [Task -> Frame]
  PROVE  F \in Frame
  BY DEF F, OneCaller, Task

\* The labels of a frame
Caller == {"idle", "softap", "softapAgain", "updated", "prefix"}
Label == {"idle", "create", "softap", "softapAgain", "setip", "assign", "saveAddr", "saveCheck",
          "update", "updated", "prefix"}

LEMMA Sizes ==
  /\ Len(LanOrder) \in Nat /\ Len(WanOrder) \in Nat
  /\ 1 \in 1..(Len(LanOrder) + Len(WanOrder) + 1)
  BY BridgeNetifAssumption

LEMMA IdleType == Idle \in Frame /\ Softap \in LAN
  BY Sizes, BridgeNetifAssumption DEF Idle, Frame, Address

LEMMA GotoFrame ==
  ASSUME OneCaller, task \in [Task -> Frame], NEW label \in Label, Goto(Main, label)
  PROVE  task' \in [Task -> Frame] /\ F' = [F EXCEPT !.pc = label]
  <1> DEFINE g == [F EXCEPT !.pc = label]
  <1>1. g \in Frame
    BY FrameType DEF Frame, Label
  <1>2. task' = [task EXCEPT ![Main] = g]
    BY DEF Goto, F, OneCaller, Task
  <1> QED
    BY <1>1, <1>2, Goes

LEMMA ReturnFrame ==
  ASSUME OneCaller, task \in [Task -> Frame], NEW ok \in BOOLEAN, Return(Main, ok)
  PROVE  /\ task' \in [Task -> Frame]
         /\ F.ret = "idle" => F' = Idle
         /\ F.ret # "idle" => F' = [F EXCEPT !.pc = F.ret, !.ok = ok]
  <1> DEFINE g == IF F.ret = "idle" THEN Idle ELSE [F EXCEPT !.pc = F.ret, !.ok = ok]
  <1>1. g \in Frame
    <2>1. F.ret \in Label
      BY FrameType DEF Frame, Label
    <2>2. [F EXCEPT !.pc = F.ret, !.ok = ok] \in Frame
      BY <2>1, FrameType DEF Frame, Label
    <2> QED
      BY <2>2, IdleType
  <1>2. task' = [task EXCEPT ![Main] = g]
    BY DEF Return, F, OneCaller, Task
  <1>3. task' \in [Task -> Frame] /\ F' = g
    BY <1>1, <1>2, Goes
  <1> QED
    BY <1>3

\* The caller goes on with set_ip_info(); todo and wans are its own.
LEMMA SetIpFrame ==
  ASSUME OneCaller, task \in [Task -> Frame],
         NEW n \in LAN, NEW s \in Address, NEW check \in BOOLEAN, NEW save \in BOOLEAN, NEW r \in Caller,
         CallSetIp(Main, n, s, check, save, r)
  PROVE  /\ task' \in [Task -> Frame]
         /\ F'.pc = "setip" /\ F'.netif = n /\ F'.cand = s /\ F'.check = check /\ F'.save = save
         /\ F'.ret = r /\ F'.todo = F.todo /\ F'.wans = F.wans
  <1> DEFINE g == [F EXCEPT !.pc = "setip", !.netif = n, !.cand = s, !.check = check, !.save = save,
                            !.ret = r, !.ok = TRUE]
  <1>1. g \in Frame
    BY FrameType DEF Frame, Caller
  <1>2. task' = [task EXCEPT ![Main] = g]
    BY DEF CallSetIp, F, OneCaller, Task
  <1>3. /\ g.pc = "setip" /\ g.netif = n /\ g.cand = s /\ g.check = check /\ g.save = save
        /\ g.ret = r /\ g.todo = F.todo /\ g.wans = F.wans
    BY FrameType DEF Frame
  <1> HIDE DEF g
  <1> QED
    BY <1>1, <1>2, <1>3, Goes

LEMMA NextToCreateFrame ==
  ASSUME OneCaller, task \in [Task -> Frame], F.todo <= Len(LanOrder), NextToCreate(Main)
  PROVE  task' \in [Task -> Frame] /\ F' = [F EXCEPT !.pc = "create", !.todo = F.todo + 1]
  <1> DEFINE g == [F EXCEPT !.pc = "create", !.todo = F.todo + 1]
  <1>1. F.todo \in 1..(Len(LanOrder) + Len(WanOrder) + 1)
    BY FrameType DEF Frame
  <1>2. F.todo + 1 \in 1..(Len(LanOrder) + Len(WanOrder) + 1)
    BY <1>1, Sizes
  <1>3. g \in Frame
    BY <1>2, FrameType DEF Frame
  <1>4. task' = [task EXCEPT ![Main] = g]
    BY DEF NextToCreate, F, OneCaller, Task
  <1> QED
    BY <1>3, <1>4, Goes

LEMMA UpdateFrame ==
  ASSUME OneCaller, task \in [Task -> Frame], NEW wans \in Seq(WAN), CallUpdate(Main, wans)
  PROVE  task' \in [Task -> Frame] /\ F' = [F EXCEPT !.pc = "update", !.wans = wans]
  <1> DEFINE g == [F EXCEPT !.pc = "update", !.wans = wans]
  <1>1. g \in Frame
    BY FrameType DEF Frame
  <1>2. task' = [task EXCEPT ![Main] = g]
    BY DEF CallUpdate, F, OneCaller, Task
  <1> QED
    BY <1>1, <1>2, Goes

\* A frame of a set, with some fields changed, keeps the others.
LEMMA Changed ==
  ASSUME NEW f \in Frame
  PROVE  /\ \A l : LET g == [f EXCEPT !.pc = l]
                   IN  /\ g.pc = l /\ g.netif = f.netif /\ g.cand = f.cand /\ g.check = f.check
                       /\ g.save = f.save /\ g.ret = f.ret /\ g.ok = f.ok /\ g.todo = f.todo
                       /\ g.wans = f.wans
         /\ \A l, b : LET g == [f EXCEPT !.pc = l, !.ok = b]
                   IN  /\ g.pc = l /\ g.netif = f.netif /\ g.cand = f.cand /\ g.check = f.check
                       /\ g.save = f.save /\ g.ret = f.ret /\ g.ok = b /\ g.todo = f.todo
                       /\ g.wans = f.wans
  BY DEF Frame
-----------------------------------------------------------------------------
(* Steps *)

\* What a step can be when the event task is the only caller
LEMMA NextCases ==
  ASSUME OneCaller, Next
  PROVE  \/ CreateNetif(Main) \/ CreateSoftap(Main) \/ SoftapSet(Main) \/ SoftapSetAgain(Main)
         \/ CreateWan(Main)
         \/ SetIp(Main) \/ Assign(Main) \/ SaveAddr(Main) \/ SaveCheck(Main)
         \/ Update(Main) \/ Updated(Main) \/ Reallocate(Main) \/ PrefixDone(Main)
         \/ \E n \in LAN, s \in CustomSegments, check, save \in BOOLEAN :
               CallSetIpInfo(Main, n, s, check, save)
         \/ \E n \in LAN, check \in BOOLEAN :
               EraseIpInfo(Main, n, check) \/ SetConflictCheck(Main, n, check)
         \/ \E p \in Prefixes, save \in BOOLEAN : SetPrefix(Main, p, save)
         \/ CallUpdateAll(Main)
         \/ \E w \in WAN : HandleGotIp(w)
         \/ \E w \in WAN : WanLostIp(w)
         \/ \E w \in WAN, s \in WanSegments : WanGotIp(w, s)
         \/ Reboot
  <1>1. CASE \E t \in Task : Run(t)
    BY <1>1 DEF OneCaller, Task, Run, Create
  <1>2. CASE Call(Main)
    BY <1>2 DEF Call
  <1>3. CASE \E w \in WAN : HandleGotIp(w) \/ WanLostIp(w) \/ (\E s \in WanSegments : WanGotIp(w, s))
    BY <1>3
  <1>4. CASE Reboot
    BY <1>4
  <1> QED
    BY <1>1, <1>2, <1>3, <1>4 DEF Next

-----------------------------------------------------------------------------
(* The list *)

\* What _esp_bridge_netif_list_add() does to a list without duplicates
Distinct(s) == s \in Seq(Netif) /\ \A i, j \in DOMAIN s : s[i] = s[j] => i = j

LEMMA AppendDistinct ==
  ASSUME NEW s, Distinct(s), NEW n \in Netif \ Range(s)
  PROVE  /\ Distinct(Append(s, n)) /\ Len(Append(s, n)) = Len(s) + 1
         /\ Range(Append(s, n)) = Range(s) \cup {n}
  <1> DEFINE a == Append(s, n)
  <1>1. a \in Seq(Netif) /\ Len(a) = Len(s) + 1 /\ Len(s) \in Nat /\ DOMAIN s = 1..Len(s)
        /\ DOMAIN a = 1..(Len(s) + 1) /\ a[Len(s) + 1] = n
        /\ \A i \in 1..Len(s) : a[i] = s[i]
    BY DEF Distinct
  <1>2. Range(a) = Range(s) \cup {n}
    BY <1>1 DEF Range
  <1>3. \A i \in 1..Len(s) : a[i] # n
    BY <1>1 DEF Range
  <1>4. \A i, j \in DOMAIN a : a[i] = a[j] => i = j
    BY <1>1, <1>3 DEF Distinct
  <1> HIDE DEF a
  <1> QED
    BY <1>1, <1>2, <1>4 DEF Distinct, a

LEMMA ConcatDistinct ==
  ASSUME NEW s, Distinct(s), Range(s) \subseteq LAN
  PROVE  /\ Distinct(s \o WanOrder) /\ Len(s \o WanOrder) = Len(s) + Len(WanOrder)
         /\ Range(s) \subseteq Range(s \o WanOrder) /\ WAN \subseteq Range(s \o WanOrder)
  <1> DEFINE c == s \o WanOrder
  <1>1. WanOrder \in Seq(Netif) /\ s \in Seq(Netif)
    BY BridgeNetifAssumption DEF Distinct, Netif
  <1>2. /\ c \in Seq(Netif) /\ Len(c) = Len(s) + Len(WanOrder)
        /\ Len(s) \in Nat /\ Len(WanOrder) \in Nat
        /\ DOMAIN s = 1..Len(s) /\ DOMAIN WanOrder = 1..Len(WanOrder)
        /\ DOMAIN c = 1..(Len(s) + Len(WanOrder))
        /\ \A i \in 1..Len(s) : c[i] = s[i]
        /\ \A i \in 1..(Len(s) + Len(WanOrder)) : i > Len(s) => c[i] = WanOrder[i - Len(s)]
    BY <1>1
  <1>3. Range(s) \subseteq Range(c)
    BY <1>2 DEF Range
  <1>4. WAN \subseteq Range(c)
    <2> SUFFICES ASSUME NEW j \in 1..Len(WanOrder)
                 PROVE  WanOrder[j] \in Range(c)
      BY <1>2 DEF WAN, Range
    <2>1. c[j + Len(s)] = WanOrder[j] /\ j + Len(s) \in DOMAIN c
      BY <1>2
    <2> QED
      BY <2>1 DEF Range
  <1>5. ASSUME NEW i \in DOMAIN c, NEW j \in DOMAIN c, c[i] = c[j]
        PROVE  i = j
    <2>1. CASE i <= Len(s) /\ j <= Len(s)
      BY <1>2, <1>5, <2>1 DEF Distinct
    <2>2. CASE i > Len(s) /\ j > Len(s)
      <3>1. i - Len(s) \in DOMAIN WanOrder /\ j - Len(s) \in DOMAIN WanOrder
        BY <1>2, <2>2
      <3>2. WanOrder[i - Len(s)] = WanOrder[j - Len(s)]
        BY <1>2, <1>5, <2>2
      <3>3. i - Len(s) = j - Len(s)
        BY <3>1, <3>2, BridgeNetifAssumption
      <3> QED
        BY <3>3, <1>2
    <2>3. \A k \in DOMAIN c : /\ k <= Len(s) => c[k] \in LAN
                              /\ k > Len(s) => c[k] \in WAN
      <3> SUFFICES ASSUME NEW k \in DOMAIN c
                   PROVE  /\ k <= Len(s) => c[k] \in LAN
                          /\ k > Len(s) => c[k] \in WAN
        OBVIOUS
      <3>1. ASSUME k <= Len(s) PROVE c[k] \in LAN
        BY <1>2, <3>1 DEF Range
      <3>2. ASSUME k > Len(s) PROVE c[k] \in WAN
        <4>1. k - Len(s) \in 1..Len(WanOrder)
          BY <1>2, <3>2
        <4> QED
          BY <1>2, <4>1, <3>2 DEF WAN, Range
      <3> QED
        BY <3>1, <3>2
    <2> QED
      BY <1>2, <1>5, <2>1, <2>2, <2>3, BridgeNetifAssumption
  <1> HIDE DEF c
  <1> QED
    BY <1>2, <1>3, <1>4, <1>5 DEF Distinct, c
\* The first k LAN netifs
FirstLan(k) == {LanOrder[i] : i \in 1..k}

LEMMA FirstLans ==
  /\ FirstLan(0) = {} /\ FirstLan(Len(LanOrder)) = LAN
  /\ \A k \in Nat : FirstLan(k) \subseteq FirstLan(k + 1)
  /\ \A k \in 1..Len(LanOrder) : /\ LanOrder[k] \in LAN \ FirstLan(k - 1)
                                 /\ FirstLan(k) = FirstLan(k - 1) \cup {LanOrder[k]}
                                 /\ FirstLan(k) \subseteq LAN
  <1>1. Len(LanOrder) \in Nat /\ DOMAIN LanOrder = 1..Len(LanOrder)
        /\ \A k \in 1..Len(LanOrder) : LanOrder[k] \in LAN
    BY BridgeNetifAssumption DEF LAN, Range
  <1>2. FirstLan(0) = {} /\ FirstLan(Len(LanOrder)) = LAN
    BY <1>1 DEF FirstLan, LAN, Range
  <1>3. \A k \in Nat : FirstLan(k) \subseteq FirstLan(k + 1)
    BY DEF FirstLan
  <1>4. ASSUME NEW k \in 1..Len(LanOrder)
        PROVE  /\ LanOrder[k] \in LAN \ FirstLan(k - 1)
               /\ FirstLan(k) = FirstLan(k - 1) \cup {LanOrder[k]}
               /\ FirstLan(k) \subseteq LAN
    <2>1. \A i \in 1..(k - 1) : LanOrder[i] # LanOrder[k]
      <3>1. \A i, j \in DOMAIN LanOrder : LanOrder[i] = LanOrder[j] => i = j
        BY BridgeNetifAssumption
      <3> QED
        BY <1>1, <3>1
    <2>2. 1..k = 1..(k - 1) \cup {k}
      BY <1>1
    <2> QED
      BY <1>1, <2>1, <2>2 DEF FirstLan
  <1> QED
    BY <1>2, <1>3, <1>4

-----------------------------------------------------------------------------
(* Types, and what is on the list *)

\* In set_ip_info(), or in the part of it that conflict_update() shares: the
\* operation that called it has the frame's return label.
Sub == {"setip", "assign", "saveAddr", "saveCheck"}
Phase == IF F.pc \in Sub THEN F.ret ELSE F.pc

\* The value of each variable but the list
TypeInv ==
    /\ conflictCheck \in [Netif -> BOOLEAN]
    /\ addr \in [Netif -> Address]
    /\ prefix \in KnownPrefix
    /\ nvsAddr \in Address /\ nvsCheck \in BOOLEAN /\ nvsPrefix \in KnownPrefix \cup {NoAddress}
    /\ pending \subseteq WAN
    /\ task \in [Task -> Frame]

\* The LAN netifs are listed in their order, then the WAN netifs; only
\* after that does anything but the creation run.
ListInv ==
    /\ Distinct(list)
    /\ Phase = "create" => /\ F.todo \in 1..(Len(LanOrder) + 1) /\ Len(list) = F.todo - 1
                           /\ Range(list) = FirstLan(F.todo - 1)
    /\ Phase \in {"softap", "softapAgain"} =>
           /\ F.todo \in 1..Len(LanOrder) /\ Len(list) = F.todo
           /\ Range(list) = FirstLan(F.todo) /\ LanOrder[F.todo] = Softap
    /\ Phase \notin {"create", "softap", "softapAgain"} =>
           Netif \subseteq Range(list) /\ Len(list) = Len(LanOrder) + Len(WanOrder)
    /\ F.pc \in Sub => F.netif \in Range(list)

\* There is a WAN netif left to go through while conflict_update() does.
WansInv == Phase \in {"update", "updated"} => F.wans # <<>>

BasicInv == TypeInv /\ ListInv /\ WansInv

LEMMA BasicTypes == ASSUME OneCaller, BasicInv PROVE TypeOK
  <1>1. prefix \in Segment /\ nvsPrefix \in Address
    BY RangeType DEF BasicInv, TypeInv, Address
  <1>2. list \in Seq(Netif) /\ \A i, j \in DOMAIN list : list[i] = list[j] => i = j
    BY DEF BasicInv, ListInv, Distinct
  <1>3. \A t \in Task : task[t].pc \in {"update", "updated"} => task[t].wans # <<>>
    BY DEF BasicInv, WansInv, Phase, Sub, F, OneCaller, Task
  <1> QED
    BY <1>1, <1>2, <1>3 DEF BasicInv, TypeInv, TypeOK
\* A step within set_ip_info(), or its end: the operation that called it is
\* where it was.
LEMMA SubStep ==
  ASSUME OneCaller, task \in [Task -> Frame], F.pc \in Sub,
         (\E l \in Sub : Goto(Main, l)) \/ (\E ok \in BOOLEAN : Return(Main, ok))
  PROVE  /\ task' \in [Task -> Frame] /\ Phase' = Phase
         /\ Phase # "idle" => F'.todo = F.todo /\ F'.wans = F.wans
         /\ F'.pc \in Sub => /\ F'.netif = F.netif /\ F'.cand = F.cand /\ F'.check = F.check
                             /\ F'.save = F.save
         /\ F.ret = "idle" \/ F'.netif = F.netif
  <1>1. F \in Frame /\ F.ret \in Caller /\ F.ret \notin Sub /\ Phase = F.ret
    BY FrameType DEF Frame, Caller, Sub, Phase
  <1>2. CASE \E l \in Sub : Goto(Main, l)
    <2>1. PICK l \in Sub : Goto(Main, l)
      BY <1>2
    <2>2. l \in Label
      BY DEF Label, Sub
    <2>3. task' \in [Task -> Frame] /\ F' = [F EXCEPT !.pc = l]
      BY <2>1, <2>2, GotoFrame
    <2>4. /\ F'.pc = l /\ F'.netif = F.netif /\ F'.cand = F.cand /\ F'.check = F.check
          /\ F'.save = F.save /\ F'.ret = F.ret /\ F'.todo = F.todo /\ F'.wans = F.wans
      BY <1>1, <2>3, Changed
    <2> QED
      BY <1>1, <2>3, <2>4 DEF Phase
  <1>3. CASE \E ok \in BOOLEAN : Return(Main, ok)
    <2>1. PICK ok \in BOOLEAN : Return(Main, ok)
      BY <1>3
    <2>2. CASE F.ret = "idle"
      <3>1. task' \in [Task -> Frame] /\ F' = Idle
        BY <2>1, <2>2, ReturnFrame
      <3>2. F'.pc = "idle"
        BY <3>1 DEF Idle
      <3> QED
        BY <1>1, <2>2, <3>1, <3>2 DEF Phase, Sub
    <2>3. CASE F.ret # "idle"
      <3>1. task' \in [Task -> Frame] /\ F' = [F EXCEPT !.pc = F.ret, !.ok = ok]
        BY <2>1, <2>3, ReturnFrame
      <3>2. F'.pc = F.ret /\ F'.netif = F.netif /\ F'.todo = F.todo /\ F'.wans = F.wans
        BY <1>1, <3>1, Changed
      <3> QED
        BY <1>1, <3>1, <3>2 DEF Phase
    <2> QED
      BY <2>2, <2>3
  <1> QED
    BY <1>2, <1>3

\* Where the operation goes on when set_ip_info() returns
LEMMA ReturnTo ==
  ASSUME OneCaller, task \in [Task -> Frame], NEW ok \in BOOLEAN, Return(Main, ok)
  PROVE  F'.pc = F.ret /\ F'.pc \in Caller /\ (F.ret # "idle" => F'.ok = ok)
  <1>1. F \in Frame /\ F.ret \in Caller
    BY FrameType DEF Frame, Caller
  <1>2. CASE F.ret = "idle"
    BY <1>1, <1>2, ReturnFrame DEF Idle
  <1>3. CASE F.ret # "idle"
    <2>1. F' = [F EXCEPT !.pc = F.ret, !.ok = ok]
      BY <1>3, ReturnFrame
    <2> QED
      BY <1>1, <1>3, <2>1, Changed
  <1> QED
    BY <1>2, <1>3

\* The list and the operation under way do not change.
LEMMA ListKept ==
  ASSUME ListInv, list' = list, Phase' = Phase,
         Phase \in {"create", "softap", "softapAgain"} => F'.todo = F.todo,
         F'.pc \in Sub => F'.netif \in Range(list)
  PROVE  ListInv'
  <1>1. Distinct(list)' /\ Range(list)' = Range(list) /\ Len(list)' = Len(list)
    BY DEF ListInv, Distinct, Range
  <1>2. Phase \in {"create", "softap", "softapAgain"} =>
          /\ FirstLan(F.todo - 1)' = FirstLan(F.todo - 1) /\ FirstLan(F.todo)' = FirstLan(F.todo)
          /\ LanOrder[F.todo]' = LanOrder[F.todo]
    BY DEF FirstLan
  <1>3. (Phase = "create" => /\ F.todo \in 1..(Len(LanOrder) + 1) /\ Len(list) = F.todo - 1
                             /\ Range(list) = FirstLan(F.todo - 1))'
    BY <1>1, <1>2 DEF ListInv
  <1>4. (Phase \in {"softap", "softapAgain"} =>
           /\ F.todo \in 1..Len(LanOrder) /\ Len(list) = F.todo
           /\ Range(list) = FirstLan(F.todo) /\ LanOrder[F.todo] = Softap)'
    BY <1>1, <1>2 DEF ListInv
  <1> QED
    BY <1>1, <1>3, <1>4 DEF ListInv
\* Only the creation is in the labels "create", "softap" and "softapAgain".
Making == {"create", "softap", "softapAgain"}

LEMMA AllListed ==
  ASSUME ListInv, Phase \notin Making
  PROVE  /\ LAN \subseteq Range(list) /\ Netif \subseteq Range(list)
         /\ Len(list) = Len(LanOrder) + Len(WanOrder)
  BY DEF ListInv, Making, Netif

\* A new netif is listed behind the first todo - 1.
LEMMA Listing ==
  ASSUME OneCaller, BasicInv, F.pc = "create", F.todo <= Len(LanOrder), ListAdd(LanOrder[F.todo])
  PROVE  /\ F.todo \in 1..Len(LanOrder) /\ LanOrder[F.todo] \in LAN
         /\ Distinct(list)' /\ Len(list') = F.todo /\ Range(list') = FirstLan(F.todo)
         /\ Range(list) = FirstLan(F.todo - 1) /\ LanOrder[F.todo] \notin Range(list)
         /\ conflictCheck' \in [Netif -> BOOLEAN]
  <1> DEFINE n == LanOrder[F.todo]
  <1>1. Phase = "create"
    BY DEF Phase, Sub
  <1>2. F.todo \in 1..(Len(LanOrder) + 1) /\ Len(list) = F.todo - 1 /\ Range(list) = FirstLan(F.todo - 1)
        /\ Distinct(list) /\ conflictCheck \in [Netif -> BOOLEAN]
    BY <1>1 DEF BasicInv, ListInv, TypeInv
  <1>3. F.todo \in 1..Len(LanOrder)
    BY <1>2, Sizes
  <1>4. n \in LAN \ FirstLan(F.todo - 1) /\ FirstLan(F.todo) = FirstLan(F.todo - 1) \cup {n}
    BY <1>3, FirstLans
  <1>5. list' = Append(list, n)
    BY DEF ListAdd
  <1>6. Distinct(Append(list, n)) /\ Len(Append(list, n)) = Len(list) + 1
        /\ Range(Append(list, n)) = Range(list) \cup {n}
    BY <1>2, <1>4, AppendDistinct DEF Netif
  <1>7. Distinct(list)'
    BY <1>5, <1>6 DEF Distinct
  <1>8. conflictCheck' \in [Netif -> BOOLEAN]
    BY <1>2 DEF ListAdd
  <1>9. Len(list') = F.todo
    BY <1>2, <1>5, <1>6
  <1> QED
    BY <1>2, <1>3, <1>4, <1>5, <1>6, <1>7, <1>8, <1>9

LEMMA CreateNetifBasic ==
  ASSUME OneCaller, BasicInv, CreateNetif(Main)
  PROVE  BasicInv'
  <1>1. F.pc = "create" /\ F.todo <= Len(LanOrder) /\ Creating(Main) = LanOrder[F.todo]
        /\ ListAdd(LanOrder[F.todo]) /\ NextToCreate(Main)
    BY DEF CreateNetif, F, Creating
  <1>2. task \in [Task -> Frame] /\ prefix \in KnownPrefix /\ addr \in [Netif -> Address]
    BY DEF BasicInv, TypeInv
  <1>3. task' \in [Task -> Frame] /\ F' = [F EXCEPT !.pc = "create", !.todo = F.todo + 1]
    BY <1>1, <1>2, NextToCreateFrame
  <1>4. F'.pc = "create" /\ F'.todo = F.todo + 1
    BY <1>2, <1>3, FrameType DEF Frame
  <1>5. Phase' = "create" /\ F'.pc \notin Sub
    BY <1>4 DEF Phase, Sub
  <1>6. addr' \in [Netif -> Address]
    BY <1>1, <1>2, RequestType DEF CreateNetif
  <1>7. TypeInv'
    BY <1>1, <1>2, <1>3, <1>6, Listing DEF CreateNetif, BasicInv, TypeInv, nvsVars
  <1>8. ListInv'
    <2>1. F.todo \in 1..Len(LanOrder) /\ Distinct(list)' /\ Len(list') = F.todo
          /\ Range(list') = FirstLan(F.todo)
      BY <1>1, Listing
    <2>2. F'.todo \in 1..(Len(LanOrder) + 1) /\ F'.todo - 1 = F.todo
      BY <1>4, <2>1, Sizes
    <2>3. Range(list)' = FirstLan(F.todo - 1)'
      BY <2>1, <2>2 DEF FirstLan, Range
    <2> QED
      BY <1>5, <2>1, <2>2, <2>3 DEF ListInv
  <1> QED
    BY <1>5, <1>7, <1>8 DEF BasicInv, WansInv

LEMMA CreateSoftapBasic ==
  ASSUME OneCaller, BasicInv, CreateSoftap(Main)
  PROVE  BasicInv'
  <1> DEFINE saved == nvsAddr # NoAddress
             s == IF saved THEN nvsAddr ELSE RequestIp(Softap)
             c == saved => nvsCheck
  <1>1. F.pc = "create" /\ F.todo <= Len(LanOrder) /\ LanOrder[F.todo] = Softap
        /\ ListAdd(LanOrder[F.todo])
        /\ IF s = NoAddress THEN NextToCreate(Main)
           ELSE CallSetIp(Main, Softap, s, c, TRUE, "softap")
    BY DEF CreateSoftap, F, Creating
  <1>2. task \in [Task -> Frame] /\ prefix \in KnownPrefix /\ nvsAddr \in Address /\ nvsCheck \in BOOLEAN
    BY DEF BasicInv, TypeInv
  <1>3. s \in Address /\ c \in BOOLEAN /\ Softap \in LAN
    BY <1>2, RequestType, IdleType
  <1>4. F.todo \in 1..Len(LanOrder) /\ Distinct(list)' /\ Len(list') = F.todo
        /\ Range(list') = FirstLan(F.todo) /\ conflictCheck' \in [Netif -> BOOLEAN]
        /\ Softap \in Range(list')
    <2>1. LanOrder[F.todo] \in FirstLan(F.todo)
      BY <1>1, Listing DEF FirstLan
    <2> QED
      BY <1>1, <2>1, Listing
  <1>5. CASE s = NoAddress
    <2>1. task' \in [Task -> Frame] /\ F' = [F EXCEPT !.pc = "create", !.todo = F.todo + 1]
      BY <1>1, <1>2, <1>5, NextToCreateFrame
    <2>2. F'.pc = "create" /\ F'.todo = F.todo + 1
      BY <1>2, <2>1, FrameType DEF Frame
    <2>3. Phase' = "create" /\ F'.pc \notin Sub
      BY <2>2 DEF Phase, Sub
    <2>4. TypeInv'
      BY <1>4, <2>1 DEF CreateSoftap, BasicInv, TypeInv, nvsVars
    <2>5. F'.todo \in 1..(Len(LanOrder) + 1) /\ F'.todo - 1 = F.todo
      BY <1>4, <2>2, Sizes
    <2>6. Range(list)' = FirstLan(F.todo - 1)'
      BY <1>4, <2>5 DEF FirstLan, Range
    <2>7. ListInv'
      BY <1>4, <2>3, <2>5, <2>6 DEF ListInv
    <2> QED
      BY <2>3, <2>4, <2>7 DEF BasicInv, WansInv
  <1>6. CASE s # NoAddress
    <2>1. CallSetIp(Main, Softap, s, c, TRUE, "softap")
      BY <1>1, <1>6
    <2>2. "softap" \in Caller
      BY DEF Caller
    <2>3. \A check, save \in BOOLEAN : CallSetIp(Main, Softap, s, check, save, "softap") =>
             /\ task' \in [Task -> Frame]
             /\ F'.pc = "setip" /\ F'.ret = "softap" /\ F'.netif = Softap /\ F'.todo = F.todo
      <3> HIDE DEF s
      <3> QED
        BY <1>2, <1>3, <2>2, SetIpFrame
    <2>4. /\ task' \in [Task -> Frame]
          /\ F'.pc = "setip" /\ F'.ret = "softap" /\ F'.netif = Softap /\ F'.todo = F.todo
      BY <1>3, <2>1, <2>3
    <2>5. Phase' = "softap"
      BY <2>4 DEF Phase, Sub
    <2>6. TypeInv'
      BY <1>4, <2>4 DEF CreateSoftap, BasicInv, TypeInv, nvsVars
    <2>7. Range(list)' = FirstLan(F.todo)' /\ LanOrder[F.todo]' = Softap
      BY <1>1, <1>4, <2>4 DEF FirstLan, Range
    <2>8. ListInv'
      BY <1>4, <2>4, <2>5, <2>7 DEF ListInv
    <2> QED
      BY <2>5, <2>6, <2>8 DEF BasicInv, WansInv
  <1> QED
    BY <1>5, <1>6
\* The softAP is made, and the next netif is to be.
LEMMA SoftapMade ==
  ASSUME OneCaller, BasicInv, F.pc \in {"softap", "softapAgain"}, NextToCreate(Main), list' = list
  PROVE  /\ task' \in [Task -> Frame] /\ F'.pc = "create" /\ Phase' = "create" /\ F'.todo = F.todo + 1
         /\ ListInv' /\ WansInv'
  <1>1. Phase = F.pc /\ Phase \in {"softap", "softapAgain"}
    BY DEF Phase, Sub
  <1>2. task \in [Task -> Frame] /\ Distinct(list) /\ F.todo \in 1..Len(LanOrder) /\ Len(list) = F.todo
        /\ Range(list) = FirstLan(F.todo)
    BY <1>1 DEF BasicInv, TypeInv, ListInv
  <1>3. F.todo <= Len(LanOrder)
    BY <1>2, Sizes
  <1>4. task' \in [Task -> Frame] /\ F' = [F EXCEPT !.pc = "create", !.todo = F.todo + 1]
    BY <1>2, <1>3, NextToCreateFrame
  <1>5. F'.pc = "create" /\ F'.todo = F.todo + 1
    BY <1>2, <1>4, FrameType DEF Frame
  <1>6. Phase' = "create" /\ F'.pc \notin Sub
    BY <1>5 DEF Phase, Sub
  <1>7. F'.todo \in 1..(Len(LanOrder) + 1) /\ F'.todo - 1 = F.todo
    BY <1>2, <1>5, Sizes
  <1>8. Range(list)' = FirstLan(F.todo - 1)' /\ Distinct(list)' /\ Len(list)' = F.todo
    BY <1>2, <1>7 DEF FirstLan, Range, Distinct
  <1>9. ListInv'
    BY <1>6, <1>7, <1>8 DEF ListInv
  <1> QED
    BY <1>4, <1>5, <1>6, <1>9 DEF WansInv

LEMMA SoftapSetBasic ==
  ASSUME OneCaller, BasicInv, SoftapSet(Main)
  PROVE  BasicInv'
  <1> DEFINE s == RequestIp(Softap)
  <1>1. F.pc = "softap" /\ (F.ok \/ s = NoAddress \/ s # NoAddress)
        /\ IF F.ok \/ s = NoAddress THEN NextToCreate(Main)
           ELSE CallSetIp(Main, Softap, s, F.check, TRUE, "softapAgain")
    BY DEF SoftapSet, F
  <1>2. task \in [Task -> Frame] /\ prefix \in KnownPrefix /\ list' = list
    BY DEF BasicInv, TypeInv, SoftapSet
  <1>3. s \in Address /\ F.check \in BOOLEAN /\ Softap \in LAN
    BY <1>2, RequestType, IdleType, FrameType DEF Frame
  <1>4. CASE NextToCreate(Main)
    <2>1. task' \in [Task -> Frame] /\ ListInv' /\ WansInv'
      BY <1>1, <1>2, <1>4, SoftapMade
    <2> QED
      BY <2>1 DEF SoftapSet, BasicInv, TypeInv, nvsVars
  <1>5. CASE CallSetIp(Main, Softap, s, F.check, TRUE, "softapAgain")
    <2>1. "softapAgain" \in Caller
      BY DEF Caller
    <2>2. \A check, save \in BOOLEAN : CallSetIp(Main, Softap, s, check, save, "softapAgain") =>
             /\ task' \in [Task -> Frame]
             /\ F'.pc = "setip" /\ F'.ret = "softapAgain" /\ F'.netif = Softap /\ F'.todo = F.todo
      <3> HIDE DEF s
      <3> QED
        BY <1>2, <1>3, <2>1, SetIpFrame
    <2>3. /\ task' \in [Task -> Frame]
          /\ F'.pc = "setip" /\ F'.ret = "softapAgain" /\ F'.netif = Softap /\ F'.todo = F.todo
      BY <1>3, <1>5, <2>2
    <2>4. Phase' = "softapAgain" /\ Phase = "softap"
      BY <1>1, <2>3 DEF Phase, Sub
    <2>5. Distinct(list) /\ F.todo \in 1..Len(LanOrder) /\ Len(list) = F.todo
          /\ Range(list) = FirstLan(F.todo) /\ LanOrder[F.todo] = Softap
      BY <2>4 DEF BasicInv, ListInv
    <2>6. Softap \in Range(list)
      BY <2>5 DEF FirstLan
    <2>7. Distinct(list)' /\ Range(list)' = FirstLan(F.todo)' /\ LanOrder[F.todo]' = Softap
      <3>1. F'.todo = F.todo /\ list' = list
        BY <1>2, <2>3
      <3> QED
        BY <2>5, <3>1 DEF FirstLan, Range, Distinct
    <2>8. ListInv'
      BY <1>2, <2>3, <2>4, <2>5, <2>6, <2>7 DEF ListInv, Range
    <2>9. TypeInv'
      BY <2>3 DEF SoftapSet, BasicInv, TypeInv, nvsVars
    <2> QED
      BY <2>4, <2>8, <2>9 DEF BasicInv, WansInv
  <1> QED
    BY <1>1, <1>4, <1>5

LEMMA SoftapSetAgainBasic ==
  ASSUME OneCaller, BasicInv, SoftapSetAgain(Main)
  PROVE  BasicInv'
  <1>1. F.pc = "softapAgain" /\ NextToCreate(Main) /\ list' = list
    BY DEF SoftapSetAgain, F
  <1>2. task' \in [Task -> Frame] /\ ListInv' /\ WansInv'
    BY <1>1, SoftapMade
  <1> QED
    BY <1>2 DEF SoftapSetAgain, BasicInv, TypeInv, nvsVars

\* The task is idle next.
LEMMA GoesIdle ==
  ASSUME OneCaller, task \in [Task -> Frame], task' = [task EXCEPT ![Main] = Idle]
  PROVE  task' \in [Task -> Frame] /\ F' = Idle /\ F'.pc = "idle" /\ Phase' = "idle"
  <1>1. task' \in [Task -> Frame] /\ F' = Idle
    BY IdleType, Goes
  <1>2. F'.pc = "idle"
    BY <1>1 DEF Idle
  <1> QED
    BY <1>1, <1>2 DEF Phase, Sub

LEMMA CreateWanBasic ==
  ASSUME OneCaller, BasicInv, CreateWan(Main)
  PROVE  BasicInv'
  <1>1. F.pc = "create" /\ F.todo > Len(LanOrder) /\ list' = list \o WanOrder
        /\ task' = [task EXCEPT ![Main] = Idle]
    BY DEF CreateWan, F
  <1>2. Phase = "create"
    BY <1>1 DEF Phase, Sub
  <1>3. Distinct(list) /\ F.todo \in 1..(Len(LanOrder) + 1) /\ Len(list) = F.todo - 1
        /\ Range(list) = FirstLan(F.todo - 1) /\ task \in [Task -> Frame]
    BY <1>2 DEF BasicInv, TypeInv, ListInv
  <1>4. F.todo - 1 = Len(LanOrder)
    BY <1>1, <1>3, Sizes
  <1>5. Range(list) = LAN
    BY <1>3, <1>4, FirstLans
  <1>6. Distinct(list') /\ Len(list') = Len(LanOrder) + Len(WanOrder) /\ Netif \subseteq Range(list')
    BY <1>1, <1>3, <1>4, <1>5, ConcatDistinct DEF Netif
  <1>7. task' \in [Task -> Frame] /\ F'.pc = "idle" /\ Phase' = "idle"
    BY <1>1, <1>3, GoesIdle
  <1>8. ListInv'
    BY <1>6, <1>7 DEF ListInv, Sub, Range, Distinct
  <1>9. TypeInv'
    BY <1>7 DEF CreateWan, BasicInv, TypeInv, nvsVars
  <1> QED
    BY <1>7, <1>8, <1>9 DEF BasicInv, WansInv
\* A step of set_ip_info() keeps what the operation that called it relies on.
LEMMA SubBasic ==
  ASSUME OneCaller, BasicInv, F.pc \in Sub, list' = list,
         (\E l \in Sub : Goto(Main, l)) \/ (\E ok \in BOOLEAN : Return(Main, ok))
  PROVE  task' \in [Task -> Frame] /\ ListInv' /\ WansInv'
  <1>1. task \in [Task -> Frame]
    BY DEF BasicInv, TypeInv
  <1>2. /\ task' \in [Task -> Frame] /\ Phase' = Phase
        /\ Phase # "idle" => F'.todo = F.todo /\ F'.wans = F.wans
        /\ F'.pc \in Sub => F'.netif = F.netif
    BY <1>1, SubStep
  <1>3. F.netif \in Range(list)
    BY DEF BasicInv, ListInv
  <1>4. ListInv'
    BY <1>2, <1>3, ListKept DEF BasicInv
  <1>5. WansInv'
    BY <1>2 DEF BasicInv, WansInv
  <1> QED
    BY <1>2, <1>4, <1>5

LEMMA SetIpMoves ==
  ASSUME OneCaller, BasicInv, SetIp(Main)
  PROVE  /\ F.pc = "setip" /\ F.pc \in Sub /\ F.netif \in LAN /\ F.cand \in Address /\ F.check \in BOOLEAN
         /\ conflictCheck' = [conflictCheck EXCEPT ![F.netif] = F.check]
         /\ (\E l \in Sub : Goto(Main, l)) \/ (\E ok \in BOOLEAN : Return(Main, ok))
  <1>1. F.pc = "setip" /\ conflictCheck' = [conflictCheck EXCEPT ![F.netif] = F.check]
    BY DEF SetIp, F
  <1>2. F \in Frame
    BY FrameType DEF BasicInv, TypeInv
  <1>3. F.netif \in LAN /\ F.cand \in Address /\ F.check \in BOOLEAN
    BY <1>2 DEF Frame
  <1>4. Goto(Main, "saveAddr") \/ Goto(Main, "assign") \/ Return(Main, TRUE) \/ Return(Main, FALSE)
    BY DEF SetIp
  <1>5. (\E l \in Sub : Goto(Main, l)) \/ (\E ok \in BOOLEAN : Return(Main, ok))
    BY <1>4 DEF Sub
  <1> QED
    BY <1>1, <1>3, <1>5 DEF Sub

LEMMA SetIpBasic ==
  ASSUME OneCaller, BasicInv, SetIp(Main)
  PROVE  BasicInv'
  <1>1. list' = list
    BY DEF SetIp
  <1>2. task' \in [Task -> Frame] /\ ListInv' /\ WansInv'
    BY <1>1, SetIpMoves, SubBasic
  <1>3. TypeInv'
    <2>1. conflictCheck' \in [Netif -> BOOLEAN]
      BY SetIpMoves DEF BasicInv, TypeInv
    <2> QED
      BY <1>2, <2>1 DEF SetIp, BasicInv, TypeInv, nvsVars
  <1> QED
    BY <1>2, <1>3 DEF BasicInv

LEMMA AssignMoves ==
  ASSUME OneCaller, BasicInv, Assign(Main)
  PROVE  /\ F.pc = "assign" /\ F.pc \in Sub /\ F.netif \in LAN /\ F.cand \in Address
         /\ addr' = [addr EXCEPT ![F.netif] = F.cand]
         /\ (\E l \in Sub : Goto(Main, l)) \/ (\E ok \in BOOLEAN : Return(Main, ok))
  <1>1. F.pc = "assign" /\ addr' = [addr EXCEPT ![F.netif] = F.cand]
    BY DEF Assign, F
  <1>2. F \in Frame
    BY FrameType DEF BasicInv, TypeInv
  <1>3. F.netif \in LAN /\ F.cand \in Address
    BY <1>2 DEF Frame
  <1>4. Goto(Main, "saveAddr") \/ Return(Main, TRUE)
    BY DEF Assign
  <1>5. (\E l \in Sub : Goto(Main, l)) \/ (\E ok \in BOOLEAN : Return(Main, ok))
    BY <1>4 DEF Sub
  <1> QED
    BY <1>1, <1>3, <1>5 DEF Sub

LEMMA AssignBasic ==
  ASSUME OneCaller, BasicInv, Assign(Main)
  PROVE  BasicInv'
  <1>1. list' = list
    BY DEF Assign
  <1>2. task' \in [Task -> Frame] /\ ListInv' /\ WansInv'
    BY <1>1, AssignMoves, SubBasic
  <1>3. TypeInv'
    <2>1. addr' \in [Netif -> Address]
      BY AssignMoves DEF BasicInv, TypeInv
    <2> QED
      BY <1>2, <2>1 DEF Assign, BasicInv, TypeInv, nvsVars
  <1> QED
    BY <1>2, <1>3 DEF BasicInv

LEMMA SaveBasic ==
  ASSUME OneCaller, BasicInv, SaveAddr(Main) \/ SaveCheck(Main)
  PROVE  BasicInv' /\ F.pc \in {"saveAddr", "saveCheck"}
         /\ ((\E l \in Sub : Goto(Main, l)) \/ (\E ok \in BOOLEAN : Return(Main, ok)))
         /\ UNCHANGED <<list, conflictCheck, addr, prefix, nvsPrefix, pending>>
         /\ nvsAddr' \in {nvsAddr, F.cand}
  <1>1. F.pc \in {"saveAddr", "saveCheck"} /\ UNCHANGED <<list, conflictCheck, addr, prefix, nvsPrefix, pending>>
        /\ (Goto(Main, "saveCheck") \/ Return(Main, TRUE))
        /\ nvsAddr' \in {nvsAddr, F.cand} /\ nvsCheck' \in {nvsCheck, F.check}
    BY DEF SaveAddr, SaveCheck, F
  <1>2. F \in Frame
    BY FrameType DEF BasicInv, TypeInv
  <1>3. (\E l \in Sub : Goto(Main, l)) \/ (\E ok \in BOOLEAN : Return(Main, ok))
    BY <1>1 DEF Sub
  <1>4. task' \in [Task -> Frame] /\ ListInv' /\ WansInv'
    <2>1. F.pc \in Sub
      BY <1>1 DEF Sub
    <2> QED
      BY <1>1, <1>3, <2>1, SubBasic
  <1>5. F.cand \in Address /\ F.check \in BOOLEAN
    BY <1>2 DEF Frame
  <1>6. TypeInv'
    BY <1>1, <1>4, <1>5 DEF BasicInv, TypeInv
  <1> QED
    BY <1>1, <1>3, <1>4, <1>6 DEF BasicInv
\* What conflict_update() does with one WAN netif
LEMMA UpdateMoves ==
  ASSUME OneCaller, BasicInv, Update(Main)
  PROVE  /\ F.pc = "update" /\ Phase = "update" /\ F.wans # <<>>
         /\ UNCHANGED <<list, conflictCheck, addr, prefix, nvsAddr, nvsCheck, nvsPrefix, pending>>
         /\ task' \in [Task -> Frame]
         /\ \/ /\ addr[Head(F.wans)] = NoAddress \/ FirstConflict(Head(F.wans)) = {}
               /\ F'.pc = "updated" /\ F'.wans = F.wans /\ Phase' = "updated"
            \/ /\ F'.pc = "idle" /\ Phase' = "idle"
               /\ \E i \in FirstConflict(Head(F.wans)) : RequestIp(list[i]) = NoAddress
            \/ /\ F'.pc = "assign" /\ F'.wans = F.wans /\ Phase' = "updated" /\ F'.save = FALSE
               /\ \E i \in FirstConflict(Head(F.wans)) :
                     /\ i \in DOMAIN list /\ list[i] \in LAN /\ F'.netif = list[i]
                     /\ RequestIp(list[i]) # NoAddress /\ F'.cand = RequestIp(list[i])
  <1> DEFINE w == Head(F.wans)
  <1>1. F.pc = "update" /\ Phase = "update" /\ F.wans # <<>>
        /\ UNCHANGED <<list, conflictCheck, addr, prefix, nvsAddr, nvsCheck, nvsPrefix, pending>>
    BY DEF Update, F, Phase, Sub, nvsVars
  <1>2. task \in [Task -> Frame] /\ F \in Frame /\ prefix \in KnownPrefix
    BY FrameType DEF BasicInv, TypeInv
  <1>3. CASE (addr[w] = NoAddress \/ FirstConflict(w) = {}) /\ Goto(Main, "updated")
    <2>1. "updated" \in Label
      BY DEF Label
    <2>2. task' \in [Task -> Frame] /\ F' = [F EXCEPT !.pc = "updated"]
      BY <1>2, <1>3, <2>1, GotoFrame
    <2>3. F'.pc = "updated" /\ F'.wans = F.wans
      BY <1>2, <2>2, Changed
    <2>4. Phase' = "updated"
      BY <2>3 DEF Phase, Sub
    <2> QED
      BY <1>1, <1>3, <2>2, <2>3, <2>4
  <1>4. ASSUME NEW i \in FirstConflict(w), RequestIp(list[i]) = NoAddress,
               task' = [task EXCEPT ![Main] = Idle]
        PROVE  task' \in [Task -> Frame] /\ F'.pc = "idle" /\ Phase' = "idle"
    BY <1>2, <1>4, GoesIdle
  <1>5. ASSUME NEW i \in FirstConflict(w), RequestIp(list[i]) # NoAddress,
               task' = [task EXCEPT ![Main] =
                   [@ EXCEPT !.pc = "assign", !.netif = list[i], !.ret = "updated",
                             !.cand = RequestIp(list[i]), !.save = FALSE]]
        PROVE  /\ task' \in [Task -> Frame] /\ F'.pc = "assign" /\ F'.wans = F.wans /\ Phase' = "updated"
               /\ F'.save = FALSE
               /\ i \in DOMAIN list /\ list[i] \in LAN /\ F'.netif = list[i] /\ F'.cand = RequestIp(list[i])
    <2> DEFINE g == [F EXCEPT !.pc = "assign", !.netif = list[i], !.ret = "updated",
                              !.cand = RequestIp(list[i]), !.save = FALSE]
    <2>1. i \in DOMAIN list /\ list[i] \in LAN
      BY DEF FirstConflict, Conflicting
    <2>2. RequestIp(list[i]) \in Address
      BY <1>2, RequestType
    <2>3. g \in Frame
      BY <1>2, <2>1, <2>2 DEF Frame
    <2>4. task' = [task EXCEPT ![Main] = g]
      BY <1>2, <1>5 DEF F, OneCaller, Task
    <2>5. g.pc = "assign" /\ g.wans = F.wans /\ g.ret = "updated" /\ g.netif = list[i]
          /\ g.cand = RequestIp(list[i]) /\ g.save = FALSE
      BY <1>2 DEF Frame
    <2> HIDE DEF g
    <2>6. task' \in [Task -> Frame] /\ F' = g
      BY <1>2, <2>3, <2>4, Goes
    <2>7. Phase' = "updated"
      BY <2>5, <2>6 DEF Phase, Sub
    <2> QED
      BY <2>1, <2>5, <2>6, <2>7
  <1>6. \/ (addr[w] = NoAddress \/ FirstConflict(w) = {}) /\ Goto(Main, "updated")
        \/ \E i \in FirstConflict(w) :
              task' = [task EXCEPT ![Main] =
                  IF RequestIp(list[i]) = NoAddress THEN Idle
                  ELSE [@ EXCEPT !.pc = "assign", !.netif = list[i], !.ret = "updated",
                                 !.cand = RequestIp(list[i]), !.save = FALSE]]
    BY DEF Update, F
  <1>7. CASE \E i \in FirstConflict(w) :
              task' = [task EXCEPT ![Main] =
                  IF RequestIp(list[i]) = NoAddress THEN Idle
                  ELSE [@ EXCEPT !.pc = "assign", !.netif = list[i], !.ret = "updated",
                                 !.cand = RequestIp(list[i]), !.save = FALSE]]
    <2>1. PICK i \in FirstConflict(w) :
              task' = [task EXCEPT ![Main] =
                  IF RequestIp(list[i]) = NoAddress THEN Idle
                  ELSE [@ EXCEPT !.pc = "assign", !.netif = list[i], !.ret = "updated",
                                 !.cand = RequestIp(list[i]), !.save = FALSE]]
      BY <1>7
    <2>2. CASE RequestIp(list[i]) = NoAddress
      BY <1>1, <1>4, <2>1, <2>2
    <2>3. CASE RequestIp(list[i]) # NoAddress
      <3>1. task' = [task EXCEPT ![Main] =
                   [@ EXCEPT !.pc = "assign", !.netif = list[i], !.ret = "updated",
                             !.cand = RequestIp(list[i]), !.save = FALSE]]
        BY <2>1, <2>3
      <3>2. /\ task' \in [Task -> Frame] /\ F'.pc = "assign" /\ F'.wans = F.wans /\ Phase' = "updated"
            /\ F'.save = FALSE
            /\ i \in DOMAIN list /\ list[i] \in LAN /\ F'.netif = list[i] /\ F'.cand = RequestIp(list[i])
        BY <1>5, <2>3, <3>1
      <3> QED
        BY <1>1, <2>3, <3>2
    <2> QED
      BY <2>2, <2>3
  <1> QED
    BY <1>3, <1>6, <1>7, <1>1

LEMMA UpdateBasic ==
  ASSUME OneCaller, BasicInv, Update(Main)
  PROVE  BasicInv'
  <1>1. Netif \subseteq Range(list) /\ Len(list) = Len(LanOrder) + Len(WanOrder) /\ Distinct(list)
    BY UpdateMoves, AllListed DEF BasicInv, ListInv, Making
  <1>2. list' = list /\ Phase' \in {"updated", "idle"} /\ (F'.pc \in Sub => F'.netif \in LAN)
        /\ (Phase' # "idle" => F'.wans # <<>>)
    BY UpdateMoves DEF Sub
  <1>3. ListInv'
    BY <1>1, <1>2 DEF ListInv, Distinct, Range, Netif
  <1>4. TypeInv'
    BY UpdateMoves DEF BasicInv, TypeInv
  <1> QED
    BY <1>2, <1>3, <1>4 DEF BasicInv, WansInv

LEMMA UpdatedMoves ==
  ASSUME OneCaller, BasicInv, Updated(Main)
  PROVE  /\ F.pc = "updated" /\ Phase = "updated" /\ task' \in [Task -> Frame]
         /\ UNCHANGED <<list, conflictCheck, addr, prefix, nvsAddr, nvsCheck, nvsPrefix, pending>>
         /\ \/ F'.pc = "idle" /\ Phase' = "idle"
            \/ F'.pc = "update" /\ Phase' = "update" /\ F'.wans # <<>>
  <1>1. F.pc = "updated" /\ Phase = "updated"
        /\ UNCHANGED <<list, conflictCheck, addr, prefix, nvsAddr, nvsCheck, nvsPrefix, pending>>
        /\ task' = [task EXCEPT ![Main] = IF Tail(@.wans) = <<>> THEN Idle
                                          ELSE [Idle EXCEPT !.pc = "update", !.wans = Tail(task[Main].wans)]]
    BY DEF Updated, F, Phase, Sub, nvsVars
  <1>2. task \in [Task -> Frame] /\ F \in Frame /\ F.wans # <<>>
    BY <1>1, FrameType DEF BasicInv, TypeInv, WansInv
  <1>3. Tail(F.wans) \in Seq(WAN)
    BY <1>2 DEF Frame
  <1>4. CASE Tail(F.wans) = <<>>
    <2>1. task' = [task EXCEPT ![Main] = Idle]
      BY <1>1, <1>2, <1>4 DEF F, OneCaller, Task
    <2> QED
      BY <1>1, <1>2, <2>1, GoesIdle
  <1>5. CASE Tail(F.wans) # <<>>
    <2> DEFINE g == [Idle EXCEPT !.pc = "update", !.wans = Tail(F.wans)]
    <2>1. g \in Frame
      BY <1>3, IdleType DEF Frame
    <2>2. task' = [task EXCEPT ![Main] = g]
      BY <1>1, <1>2, <1>5 DEF F, OneCaller, Task
    <2>3. g.pc = "update" /\ g.wans = Tail(F.wans)
      BY IdleType DEF Frame
    <2> HIDE DEF g
    <2>4. task' \in [Task -> Frame] /\ F' = g
      BY <1>2, <2>1, <2>2, Goes
    <2> QED
      BY <1>1, <1>5, <2>3, <2>4 DEF Phase, Sub
  <1> QED
    BY <1>4, <1>5

LEMMA UpdatedBasic ==
  ASSUME OneCaller, BasicInv, Updated(Main)
  PROVE  BasicInv'
  <1>1. Netif \subseteq Range(list) /\ Len(list) = Len(LanOrder) + Len(WanOrder) /\ Distinct(list)
    BY UpdatedMoves, AllListed DEF BasicInv, ListInv, Making
  <1>2. list' = list /\ Phase' \in {"update", "idle"} /\ F'.pc \notin Sub
        /\ (Phase' # "idle" => F'.wans # <<>>)
    BY UpdatedMoves DEF Sub
  <1>3. ListInv'
    BY <1>1, <1>2 DEF ListInv, Distinct, Range
  <1>4. TypeInv'
    BY UpdatedMoves DEF BasicInv, TypeInv
  <1> QED
    BY <1>2, <1>3, <1>4 DEF BasicInv, WansInv
\* One netif of the list, after the prefix has changed
LEMMA ReallocateMoves ==
  ASSUME OneCaller, BasicInv, Reallocate(Main)
  PROVE  /\ F.pc = "prefix" /\ Phase = "prefix" /\ F.todo \in DOMAIN list
         /\ UNCHANGED <<list, conflictCheck, addr, prefix, nvsAddr, nvsCheck, nvsPrefix, pending>>
         /\ task' \in [Task -> Frame] /\ Phase' = "prefix" /\ F'.todo = F.todo + 1
         /\ \/ /\ F'.pc = "setip" /\ list[F.todo] \in LAN /\ F'.netif = list[F.todo]
               /\ RequestIp(list[F.todo]) # NoAddress /\ F'.cand = RequestIp(list[F.todo])
            \/ /\ F'.pc = "prefix"
               /\ list[F.todo] \notin LAN \/ RequestIp(list[F.todo]) = NoAddress
  <1> DEFINE n == list[F.todo]
             s == RequestIp(n)
  <1>1. F.pc = "prefix" /\ Phase = "prefix" /\ F.todo <= Len(list)
        /\ UNCHANGED <<list, conflictCheck, addr, prefix, nvsAddr, nvsCheck, nvsPrefix, pending>>
        /\ task' = [task EXCEPT ![Main] =
              IF n \in LAN /\ s # NoAddress
              THEN [F EXCEPT !.todo = F.todo + 1, !.pc = "setip", !.netif = n, !.cand = s,
                             !.check = TRUE, !.save = TRUE, !.ret = "prefix"]
              ELSE [F EXCEPT !.todo = F.todo + 1]]
    BY DEF Reallocate, F, Phase, Sub, nvsVars
  <1>2. task \in [Task -> Frame] /\ F \in Frame /\ prefix \in KnownPrefix
        /\ F.todo \in 1..(Len(LanOrder) + Len(WanOrder) + 1)
    BY FrameType DEF BasicInv, TypeInv, Frame
  <1>3. Len(list) = Len(LanOrder) + Len(WanOrder) /\ list \in Seq(Netif)
    BY <1>1, AllListed DEF BasicInv, ListInv, Making, Distinct
  <1>4. F.todo \in DOMAIN list /\ F.todo + 1 \in 1..(Len(LanOrder) + Len(WanOrder) + 1)
    BY <1>1, <1>2, <1>3, Sizes
  <1>5. CASE n \in LAN /\ s # NoAddress
    <2> DEFINE g == [F EXCEPT !.todo = F.todo + 1, !.pc = "setip", !.netif = n, !.cand = s,
                              !.check = TRUE, !.save = TRUE, !.ret = "prefix"]
    <2>1. s \in Address
      BY <1>2, RequestType
    <2>2. g \in Frame
      BY <1>2, <1>4, <1>5, <2>1 DEF Frame
    <2>3. task' = [task EXCEPT ![Main] = g]
      BY <1>1, <1>2, <1>5 DEF F, OneCaller, Task
    <2>4. g.pc = "setip" /\ g.todo = F.todo + 1 /\ g.ret = "prefix" /\ g.netif = n /\ g.cand = s
      BY <1>2 DEF Frame
    <2> HIDE DEF g
    <2>5. task' \in [Task -> Frame] /\ F' = g
      BY <1>2, <2>2, <2>3, Goes
    <2> QED
      BY <1>1, <1>4, <1>5, <2>4, <2>5 DEF Phase, Sub
  <1>6. CASE ~(n \in LAN /\ s # NoAddress)
    <2> DEFINE g == [F EXCEPT !.todo = F.todo + 1]
    <2>1. g \in Frame
      BY <1>2, <1>4 DEF Frame
    <2>2. task' = [task EXCEPT ![Main] = g]
      BY <1>1, <1>2, <1>6 DEF F, OneCaller, Task
    <2>3. g.pc = "prefix" /\ g.todo = F.todo + 1
      BY <1>1, <1>2 DEF Frame
    <2> HIDE DEF g
    <2>4. task' \in [Task -> Frame] /\ F' = g
      BY <1>2, <2>1, <2>2, Goes
    <2> QED
      BY <1>1, <1>4, <1>6, <2>3, <2>4 DEF Phase, Sub
  <1> QED
    BY <1>5, <1>6

\* While the creation is over and stays over, the list is what it was.
LEMMA AfterCreation ==
  ASSUME ListInv, Phase \notin Making, list' = list, Phase' \notin Making,
         F'.pc \in Sub => F'.netif \in LAN
  PROVE  ListInv'
  <1>1. Netif \subseteq Range(list) /\ Len(list) = Len(LanOrder) + Len(WanOrder) /\ Distinct(list)
    BY AllListed DEF ListInv
  <1> QED
    BY <1>1 DEF ListInv, Making, Distinct, Range, Netif

LEMMA ReallocateBasic ==
  ASSUME OneCaller, BasicInv, Reallocate(Main)
  PROVE  BasicInv'
  <1>1. list' = list /\ Phase = "prefix" /\ Phase' = "prefix" /\ (F'.pc \in Sub => F'.netif \in LAN)
    BY ReallocateMoves DEF Sub
  <1>2. ListInv'
    BY <1>1, AfterCreation DEF BasicInv, Making
  <1>3. TypeInv'
    BY ReallocateMoves DEF BasicInv, TypeInv
  <1> QED
    BY <1>1, <1>2, <1>3 DEF BasicInv, WansInv

LEMMA PrefixDoneBasic ==
  ASSUME OneCaller, BasicInv, PrefixDone(Main)
  PROVE  BasicInv' /\ F.pc = "prefix" /\ Phase = "prefix" /\ F.todo > Len(list)
         /\ F'.pc = "idle" /\ Phase' = "idle"
         /\ UNCHANGED <<list, conflictCheck, addr, prefix, nvsAddr, nvsCheck, pending>>
  <1>1. F.pc = "prefix" /\ Phase = "prefix" /\ F.todo > Len(list)
        /\ UNCHANGED <<list, conflictCheck, addr, prefix, nvsAddr, nvsCheck, pending>>
        /\ nvsPrefix' \in {prefix, nvsPrefix}
        /\ task' = [task EXCEPT ![Main] = Idle]
    BY DEF PrefixDone, F, Phase, Sub
  <1>2. task' \in [Task -> Frame] /\ F'.pc = "idle" /\ Phase' = "idle"
    BY <1>1, GoesIdle DEF BasicInv, TypeInv
  <1>3. ListInv'
    BY <1>1, <1>2, AfterCreation DEF BasicInv, Making, Sub
  <1>4. TypeInv'
    BY <1>1, <1>2 DEF BasicInv, TypeInv
  <1> QED
    BY <1>1, <1>2, <1>3, <1>4 DEF BasicInv, WansInv

LEMMA SetPrefixMoves ==
  ASSUME OneCaller, BasicInv, NEW p \in Prefixes, NEW save \in BOOLEAN, SetPrefix(Main, p, save)
  PROVE  /\ F.pc = "idle" /\ Phase = "idle" /\ prefix' = p
         /\ UNCHANGED <<list, conflictCheck, addr, nvsAddr, nvsCheck, nvsPrefix, pending>>
         /\ task' \in [Task -> Frame] /\ F'.pc = "prefix" /\ Phase' = "prefix"
         /\ F'.todo = IF p = prefix THEN Len(list) + 1 ELSE 1
  <1> DEFINE k == IF p = prefix THEN Len(list) + 1 ELSE 1
             g == [Idle EXCEPT !.pc = "prefix", !.savePrefix = save, !.todo = k]
  <1>1. F.pc = "idle" /\ Phase = "idle" /\ prefix' = p
        /\ UNCHANGED <<list, conflictCheck, addr, nvsAddr, nvsCheck, nvsPrefix, pending>>
        /\ task' = [task EXCEPT ![Main] = g]
    BY DEF SetPrefix, F, Phase, Sub, nvsVars
  <1>2. task \in [Task -> Frame] /\ Len(list) = Len(LanOrder) + Len(WanOrder)
    BY <1>1, AllListed DEF BasicInv, TypeInv, Making
  <1>3. k \in 1..(Len(LanOrder) + Len(WanOrder) + 1)
    BY <1>2, Sizes
  <1> HIDE DEF k
  <1>4. g \in Frame
    BY <1>3, IdleType DEF Frame
  <1>5. g.pc = "prefix" /\ g.todo = k
    BY IdleType DEF Frame
  <1> HIDE DEF g
  <1>6. task' \in [Task -> Frame] /\ F' = g
    BY <1>1, <1>2, <1>4, Goes
  <1> QED
    BY <1>1, <1>5, <1>6 DEF Phase, Sub, k

LEMMA SetPrefixBasic ==
  ASSUME OneCaller, BasicInv, NEW p \in Prefixes, NEW save \in BOOLEAN, SetPrefix(Main, p, save)
  PROVE  BasicInv'
  <1>1. ListInv'
    BY SetPrefixMoves, AfterCreation DEF BasicInv, Making, Sub
  <1>2. TypeInv'
    BY SetPrefixMoves DEF BasicInv, TypeInv, KnownPrefix
  <1> QED
    BY <1>1, <1>2, SetPrefixMoves DEF BasicInv, WansInv

LEMMA CallSetIpInfoMoves ==
  ASSUME OneCaller, BasicInv, NEW n \in LAN, NEW s \in CustomSegments,
         NEW check \in BOOLEAN, NEW save \in BOOLEAN, CallSetIpInfo(Main, n, s, check, save)
  PROVE  /\ F.pc = "idle" /\ Phase = "idle" /\ ~Used(n, s) /\ s \in Segment
         /\ UNCHANGED <<list, conflictCheck, addr, prefix, nvsAddr, nvsCheck, nvsPrefix, pending>>
         /\ task' \in [Task -> Frame] /\ F'.pc = "setip" /\ F'.netif = n /\ F'.cand = s /\ Phase' = "idle"
  <1>1. F.pc = "idle" /\ Phase = "idle" /\ ~Used(n, s) /\ CallSetIp(Main, n, s, check, save, "idle")
        /\ UNCHANGED <<list, conflictCheck, addr, prefix, nvsAddr, nvsCheck, nvsPrefix, pending>>
    BY DEF CallSetIpInfo, F, Phase, Sub, nvsVars
  <1>2. task \in [Task -> Frame] /\ s \in Segment /\ s \in Address /\ "idle" \in Caller
    BY BridgeNetifAssumption DEF BasicInv, TypeInv, Address, Caller
  <1>3. task' \in [Task -> Frame] /\ F'.pc = "setip" /\ F'.netif = n /\ F'.cand = s /\ F'.ret = "idle"
    BY <1>1, <1>2, SetIpFrame
  <1> QED
    BY <1>1, <1>2, <1>3 DEF Phase, Sub

LEMMA CallSetIpInfoBasic ==
  ASSUME OneCaller, BasicInv, NEW n \in LAN, NEW s \in CustomSegments,
         NEW check \in BOOLEAN, NEW save \in BOOLEAN, CallSetIpInfo(Main, n, s, check, save)
  PROVE  BasicInv'
  <1>1. ListInv'
    BY CallSetIpInfoMoves, AfterCreation DEF BasicInv, Making, Sub
  <1>2. TypeInv'
    BY CallSetIpInfoMoves DEF BasicInv, TypeInv
  <1> QED
    BY <1>1, <1>2, CallSetIpInfoMoves DEF BasicInv, WansInv

\* conflict_update() is called, by the API or by a handler.
LEMMA CallUpdateBasic ==
  ASSUME OneCaller, BasicInv, F.pc = "idle", NEW wans \in Seq(WAN), wans # <<>>, CallUpdate(Main, wans),
         UNCHANGED <<list, conflictCheck, addr, prefix, nvsAddr, nvsCheck, nvsPrefix>>, pending' \subseteq WAN
  PROVE  BasicInv' /\ Phase = "idle" /\ Phase' = "update" /\ F'.pc = "update"
  <1>1. task \in [Task -> Frame] /\ F \in Frame
    BY FrameType DEF BasicInv, TypeInv
  <1>2. task' \in [Task -> Frame] /\ F' = [F EXCEPT !.pc = "update", !.wans = wans]
    BY <1>1, UpdateFrame
  <1>3. F'.pc = "update" /\ F'.wans = wans
    BY <1>1, <1>2 DEF Frame
  <1>4. Phase = "idle" /\ Phase' = "update"
    BY <1>3 DEF Phase, Sub
  <1>5. ListInv'
    BY <1>3, <1>4, AfterCreation DEF BasicInv, Making, Sub
  <1>6. TypeInv'
    BY <1>2 DEF BasicInv, TypeInv
  <1> QED
    BY <1>3, <1>4, <1>5, <1>6 DEF BasicInv, WansInv

LEMMA CallUpdateAllBasic ==
  ASSUME OneCaller, BasicInv, CallUpdateAll(Main)
  PROVE  BasicInv' /\ Phase = "idle" /\ Phase' = "update" /\ F'.pc = "update"
         /\ UNCHANGED <<list, conflictCheck, addr, prefix, nvsAddr, nvsCheck, nvsPrefix, pending>>
  <1>1. F.pc = "idle" /\ WanOrder # <<>> /\ CallUpdate(Main, WanOrder)
        /\ UNCHANGED <<list, conflictCheck, addr, prefix, nvsAddr, nvsCheck, nvsPrefix, pending>>
    BY DEF CallUpdateAll, F, nvsVars
  <1>2. WanOrder \in Seq(WAN) /\ pending' \subseteq WAN
    BY <1>1, BridgeNetifAssumption DEF BasicInv, TypeInv
  <1> QED
    BY <1>1, <1>2, CallUpdateBasic

LEMMA HandleGotIpBasic ==
  ASSUME OneCaller, BasicInv, NEW w \in WAN, HandleGotIp(w)
  PROVE  BasicInv' /\ Phase = "idle" /\ Phase' = "update" /\ F'.pc = "update"
         /\ UNCHANGED <<list, conflictCheck, addr, prefix, nvsAddr, nvsCheck, nvsPrefix>>
  <1>1. F.pc = "idle" /\ CallUpdate(Main, <<w>>) /\ pending' = pending \ {w}
        /\ UNCHANGED <<list, conflictCheck, addr, prefix, nvsAddr, nvsCheck, nvsPrefix>>
    BY DEF HandleGotIp, OneCaller, F, nvsVars
  <1>2. <<w>> \in Seq(WAN) /\ <<w>> # <<>> /\ pending' \subseteq WAN
    BY <1>1 DEF BasicInv, TypeInv
  <1> QED
    BY <1>1, <1>2, CallUpdateBasic
\* The other steps leave the list and the task alone, or start over.
LEMMA TaskKept ==
  ASSUME BasicInv, UNCHANGED <<list, task>>
  PROVE  F' = F /\ Phase' = Phase /\ ListInv' /\ WansInv' /\ task' \in [Task -> Frame]
  <1>1. F' = F
    BY DEF F
  <1>2. Phase' = Phase
    BY <1>1 DEF Phase
  <1>3. F'.pc \in Sub => F'.netif \in Range(list)
    BY <1>1 DEF BasicInv, ListInv
  <1>4. ListInv'
    BY <1>1, <1>2, <1>3, ListKept DEF BasicInv
  <1> QED
    BY <1>1, <1>2, <1>4 DEF BasicInv, TypeInv, WansInv

LEMMA PolicyBasic ==
  ASSUME OneCaller, BasicInv, NEW n \in LAN, NEW check \in BOOLEAN,
         EraseIpInfo(Main, n, check) \/ SetConflictCheck(Main, n, check)
  PROVE  BasicInv' /\ F.pc = "idle" /\ UNCHANGED <<list, addr, prefix, nvsPrefix, pending, task>>
         /\ nvsAddr' \in {nvsAddr, NoAddress}
  <1>1. /\ F.pc = "idle" /\ UNCHANGED <<list, addr, prefix, nvsCheck, nvsPrefix, pending, task>>
        /\ conflictCheck' = [conflictCheck EXCEPT ![n] = check] /\ nvsAddr' \in {nvsAddr, NoAddress}
    BY DEF EraseIpInfo, SetConflictCheck, F, nvsVars
  <1>2. conflictCheck' \in [Netif -> BOOLEAN] /\ nvsAddr' \in Address
    BY <1>1 DEF BasicInv, TypeInv, Address
  <1>3. TypeInv'
    BY <1>1, <1>2 DEF BasicInv, TypeInv
  <1> QED
    BY <1>1, <1>3, TaskKept DEF BasicInv

\* DHCP outside gives or takes the address of a WAN netif.
LEMMA WanBasic ==
  ASSUME OneCaller, BasicInv, NEW w \in WAN,
         WanLostIp(w) \/ \E s \in WanSegments : WanGotIp(w, s)
  PROVE  /\ BasicInv'
         /\ UNCHANGED <<list, conflictCheck, prefix, nvsAddr, nvsPrefix, task>>
         /\ pending \subseteq pending'
         /\ \A n \in Netif : n # w => addr'[n] = addr[n]
         /\ addr'[w] = NoAddress \/ w \in pending'
  <1>1. PICK s \in Address : /\ addr' = [addr EXCEPT ![w] = s]
                             /\ pending' = pending \/ pending' = pending \cup {w}
                             /\ s = NoAddress \/ w \in pending'
                             /\ UNCHANGED <<list, conflictCheck, prefix, nvsAddr, nvsCheck, nvsPrefix, task>>
    <2>1. CASE WanLostIp(w)
      BY <2>1 DEF WanLostIp, Address, nvsVars
    <2>2. ASSUME NEW s \in WanSegments, WanGotIp(w, s)
          PROVE  /\ s \in Address /\ addr' = [addr EXCEPT ![w] = s] /\ pending' = pending \cup {w}
                 /\ UNCHANGED <<list, conflictCheck, prefix, nvsAddr, nvsCheck, nvsPrefix, task>>
      BY <2>2, BridgeNetifAssumption DEF WanGotIp, Address, nvsVars
    <2>3. CASE \E s \in WanSegments : WanGotIp(w, s)
      <3>1. PICK s \in WanSegments : WanGotIp(w, s)
        BY <2>3
      <3>2. /\ s \in Address /\ addr' = [addr EXCEPT ![w] = s] /\ pending' = pending \cup {w}
            /\ UNCHANGED <<list, conflictCheck, prefix, nvsAddr, nvsCheck, nvsPrefix, task>>
        BY <2>2, <3>1
      <3>3. w \in pending'
        BY <3>2
      <3> QED
        BY <3>2, <3>3
    <2> QED
      BY <2>1, <2>3
  <1>2. addr \in [Netif -> Address] /\ w \in Netif /\ pending \subseteq WAN
    BY DEF BasicInv, TypeInv, Netif
  <1>3. addr' \in [Netif -> Address] /\ pending' \subseteq WAN /\ pending \subseteq pending'
    BY <1>1, <1>2
  <1>4. TypeInv'
    BY <1>1, <1>3 DEF BasicInv, TypeInv
  <1>5. addr'[w] = s /\ \A n \in Netif : n # w => addr'[n] = addr[n]
    BY <1>1, <1>2
  <1> QED
    BY <1>1, <1>3, <1>4, <1>5, TaskKept DEF BasicInv

\* The frame in which app_main() begins
LEMMA Boot ==
  ASSUME OneCaller
  PROVE  /\ Booting \in [Task -> Frame] /\ Booting[Main].pc = "create" /\ Booting[Main].todo = 1
         /\ Distinct(<<>>) /\ Range(<<>>) = FirstLan(0)
  <1>1. [Idle EXCEPT !.pc = "create"] \in Frame
    BY IdleType DEF Frame
  <1>2. [Idle EXCEPT !.pc = "create"].pc = "create" /\ [Idle EXCEPT !.pc = "create"].todo = 1
    BY DEF Idle
  <1>3. Booting = [t \in Task |-> [Idle EXCEPT !.pc = "create"]] /\ Main \in Task
    BY DEF Booting, OneCaller, Task
  <1>4. Distinct(<<>>) /\ Range(<<>>) = FirstLan(0)
    BY DEF Distinct, Range, FirstLan
  <1> QED
    BY <1>1, <1>2, <1>3, <1>4

LEMMA InitBasic ==
  ASSUME OneCaller, Init
  PROVE  BasicInv /\ list = <<>> /\ F.pc = "create" /\ Phase = "create"
  <1>1. task = Booting /\ list = <<>>
    BY DEF Init
  <1>2. task \in [Task -> Frame] /\ F.pc = "create" /\ F.todo = 1 /\ Phase = "create"
    BY <1>1, Boot DEF F, Phase, Sub
  <1>3. ListInv
    <2>1. F.todo \in 1..(Len(LanOrder) + 1) /\ Len(list) = F.todo - 1
      BY <1>1, <1>2, Sizes
    <2>2. F.todo - 1 = 0
      BY <1>2
    <2>3. Range(list) = FirstLan(F.todo - 1)
      BY <1>1, <2>2, Boot
    <2> QED
      BY <1>1, <1>2, <2>1, <2>3, Boot DEF ListInv, Sub
  <1>4. TypeInv
    BY <1>2 DEF Init, TypeInv, KnownPrefix, Address
  <1> QED
    BY <1>1, <1>2, <1>3, <1>4 DEF BasicInv, WansInv

LEMMA RebootBasic ==
  ASSUME OneCaller, BasicInv, Reboot
  PROVE  /\ BasicInv' /\ list' = <<>> /\ F'.pc = "create" /\ Phase' = "create"
         /\ addr' = [n \in Netif |-> NoAddress] /\ nvsAddr' = nvsAddr
  <1>1. /\ list' = <<>> /\ task' = Booting /\ addr' = [n \in Netif |-> NoAddress]
        /\ conflictCheck' = [n \in Netif |-> FALSE] /\ pending' = {}
        /\ UNCHANGED <<nvsAddr, nvsCheck, nvsPrefix>>
        /\ prefix' = IF nvsPrefix = NoAddress THEN DefaultPrefix ELSE nvsPrefix
    BY DEF Reboot, nvsVars
  <1>2. task' \in [Task -> Frame] /\ F'.pc = "create" /\ F'.todo = 1
    BY <1>1, Boot DEF F
  <1>3. Phase' = "create"
    BY <1>2 DEF Phase, Sub
  <1>4. ListInv'
    <2>1. F'.todo \in 1..(Len(LanOrder) + 1) /\ Len(list') = F'.todo - 1 /\ F'.todo - 1 = 0
      BY <1>1, <1>2, Sizes
    <2>2. FirstLan(F.todo - 1)' = FirstLan(0) /\ Range(list)' = Range(<<>>) /\ Distinct(list)'
      BY <1>1, <2>1, Boot DEF FirstLan, Range, Distinct
    <2> QED
      BY <1>1, <1>2, <1>3, <2>1, <2>2, Boot DEF ListInv, Sub
  <1>5. prefix' \in KnownPrefix
    BY <1>1 DEF BasicInv, TypeInv, KnownPrefix
  <1>6. TypeInv'
    BY <1>1, <1>2, <1>5 DEF BasicInv, TypeInv, Address
  <1> QED
    BY <1>1, <1>2, <1>3, <1>4, <1>6 DEF BasicInv, WansInv

LEMMA BasicStep ==
  ASSUME OneCaller, BasicInv, [Next]_vars
  PROVE  BasicInv'
  <1>1. CASE UNCHANGED vars
    <2>1. TypeInv'
      BY <1>1 DEF vars, nvsVars, BasicInv, TypeInv
    <2> QED
      BY <1>1, <2>1, TaskKept DEF vars, BasicInv
  <1>2. CASE Next
    BY <1>2, NextCases, CreateNetifBasic, CreateSoftapBasic, SoftapSetBasic, SoftapSetAgainBasic,
       CreateWanBasic, SetIpBasic, AssignBasic, SaveBasic, UpdateBasic, UpdatedBasic, ReallocateBasic,
       PrefixDoneBasic, SetPrefixBasic, CallSetIpInfoBasic, PolicyBasic, CallUpdateAllBasic,
       HandleGotIpBasic, WanBasic, RebootBasic
  <1> QED
    BY <1>1, <1>2

\* Every value has its type, and no netif is on the list twice.
THEOREM TypeCorrect == ASSUME OneCaller PROVE Spec => []TypeOK
  <1>1. Init => BasicInv
    BY InitBasic
  <1>2. BasicInv /\ [Next]_vars => BasicInv'
    BY BasicStep
  <1>3. BasicInv => TypeOK
    BY BasicTypes
  <1> QED
    BY <1>1, <1>2, <1>3, PTL DEF Spec
-----------------------------------------------------------------------------
(* No two LAN netifs have one segment *)

\* esp_bridge_create_all_netif() begins with the softAP, which is therefore
\* alone when its saved address is restored without a look at the others.
SoftapFirst == LanOrder[1] = Softap

\* No other LAN netif has the segment s.
Alone(n, s) == s # NoAddress /\ \A m \in LAN \ {n} : addr[m] # s

\* A LAN netif without an address is one not made yet; an address about to be
\* set is nobody else's.
UniqueInv ==
    /\ \A n \in LAN \ Range(list) : addr[n] = NoAddress
    /\ SegmentsUnique
    /\ F.pc \in {"setip", "assign"} => Alone(F.netif, F.cand)

\* A segment that request_ip() has found
LEMMA RequestAlone ==
  ASSUME BasicInv, UniqueInv, NEW n \in Netif, RequestIp(n) # NoAddress
  PROVE  Alone(n, RequestIp(n))
  <1>1. \A m \in Range(list) \ {n} : addr[m] # RequestIp(n)
    BY RequestedUnused DEF BasicInv, TypeInv
  <1> QED
    BY <1>1 DEF UniqueInv, Alone

\* A netif gets a segment that no other LAN netif has.
LEMMA Given ==
  ASSUME BasicInv, UniqueInv, NEW n \in LAN, NEW s, s = NoAddress \/ Alone(n, s),
         addr' = [addr EXCEPT ![n] = s]
  PROVE  SegmentsUnique'
  <1>1. addr \in [Netif -> Address] /\ n \in Netif
    BY DEF BasicInv, TypeInv, Netif
  <1>2. addr'[n] = s /\ \A m \in LAN \ {n} : addr'[m] = addr[m]
    BY <1>1 DEF Netif
  <1> SUFFICES ASSUME NEW k \in LAN, NEW m \in LAN, k # m, addr'[k] # NoAddress
               PROVE  addr'[k] # addr'[m]
    BY DEF SegmentsUnique
  <1>3. CASE k = n
    BY <1>2, <1>3 DEF Alone
  <1>4. CASE m = n
    BY <1>2, <1>4 DEF Alone
  <1>5. CASE k # n /\ m # n
    BY <1>2, <1>5 DEF UniqueInv, SegmentsUnique
  <1> QED
    BY <1>3, <1>4, <1>5

\* The LAN netifs keep list and addresses, and no new address is to be set.
LEMMA UniqueKept ==
  ASSUME BasicInv, UniqueInv, list' = list, \A n \in LAN : addr'[n] = addr[n],
         F'.pc \in {"setip", "assign"} => Alone(F'.netif, F'.cand)
  PROVE  UniqueInv'
  <1>1. SegmentsUnique'
    BY DEF UniqueInv, SegmentsUnique
  <1>2. \A n \in LAN \ Range(list') : addr'[n] = NoAddress
    BY DEF UniqueInv
  <1>3. F'.pc \in {"setip", "assign"} => Alone(F.netif, F.cand)'
    BY DEF Alone
  <1> QED
    BY <1>1, <1>2, <1>3 DEF UniqueInv, Range

\* set_ip_info() sets the address it was called with.
LEMMA SetIpUnique ==
  ASSUME OneCaller, BasicInv, UniqueInv, SetIp(Main)
  PROVE  UniqueInv'
  <1>1. task \in [Task -> Frame]
    BY DEF BasicInv, TypeInv
  <1>2. F'.pc \in Sub => F'.netif = F.netif /\ F'.cand = F.cand
    BY <1>1, SetIpMoves, SubStep
  <1>3. F'.pc \in {"setip", "assign"} => Alone(F'.netif, F'.cand)
    BY <1>2, SetIpMoves DEF UniqueInv, Sub
  <1> QED
    BY <1>3, UniqueKept DEF SetIp

LEMMA AssignUnique ==
  ASSUME OneCaller, BasicInv, UniqueInv, Assign(Main)
  PROVE  UniqueInv'
  <1>1. Alone(F.netif, F.cand) /\ F.netif \in Range(list) /\ list' = list /\ F.netif \in LAN
        /\ addr' = [addr EXCEPT ![F.netif] = F.cand]
    BY AssignMoves DEF UniqueInv, BasicInv, ListInv, Assign
  <1>2. SegmentsUnique'
    BY <1>1, Given
  <1>3. \A n \in LAN \ Range(list') : addr'[n] = NoAddress
    BY <1>1 DEF UniqueInv, BasicInv, TypeInv, Netif
  <1>4. F'.pc \notin {"setip", "assign"}
    <2>1. F \in Frame /\ F.ret \in Caller
      BY FrameType DEF BasicInv, TypeInv, Frame, Caller
    <2>2. CASE Goto(Main, "saveAddr")
      <3>1. F' = [F EXCEPT !.pc = "saveAddr"]
        BY <2>2, GotoFrame DEF BasicInv, TypeInv, Label
      <3> QED
        BY <2>1, <3>1, Changed
    <2>3. CASE Return(Main, TRUE)
      BY <2>3, ReturnTo DEF BasicInv, TypeInv, Caller
    <2> QED
      BY <2>2, <2>3 DEF Assign
  <1> QED
    BY <1>2, <1>3, <1>4 DEF UniqueInv, Range

LEMMA SaveUnique ==
  ASSUME OneCaller, BasicInv, UniqueInv, SaveAddr(Main) \/ SaveCheck(Main)
  PROVE  UniqueInv'
  <1>1. F \in Frame /\ F.ret \in Caller /\ task \in [Task -> Frame]
    BY FrameType DEF BasicInv, TypeInv, Frame, Caller
  <1>2. CASE Goto(Main, "saveCheck")
    <2>1. F' = [F EXCEPT !.pc = "saveCheck"]
      BY <1>1, <1>2, GotoFrame DEF Label
    <2>2. F'.pc \notin {"setip", "assign"}
      BY <1>1, <2>1, Changed
    <2> QED
      BY <2>2, UniqueKept, SaveBasic
  <1>3. CASE Return(Main, TRUE)
    <2>1. F'.pc \notin {"setip", "assign"}
      BY <1>1, <1>3, ReturnTo DEF Caller
    <2> QED
      BY <2>1, UniqueKept, SaveBasic
  <1> QED
    BY <1>2, <1>3 DEF SaveAddr, SaveCheck

LEMMA CreateNetifUnique ==
  ASSUME OneCaller, BasicInv, UniqueInv, CreateNetif(Main)
  PROVE  UniqueInv'
  <1> DEFINE n == LanOrder[F.todo]
  <1>1. F.pc = "create" /\ F.todo <= Len(LanOrder) /\ ListAdd(n) /\ NextToCreate(Main)
        /\ addr' = [addr EXCEPT ![n] = RequestIp(n)]
    BY DEF CreateNetif, F, Creating
  <1>2. n \in LAN /\ Range(list') = FirstLan(F.todo) /\ Range(list) = FirstLan(F.todo - 1)
        /\ F.todo \in 1..Len(LanOrder)
    BY <1>1, Listing
  <1>3. Range(list') = Range(list) \cup {n}
    BY <1>2, FirstLans
  <1>4. RequestIp(n) = NoAddress \/ Alone(n, RequestIp(n))
    BY <1>2, RequestAlone DEF Netif
  <1> HIDE DEF n
  <1>5. SegmentsUnique'
    BY <1>1, <1>2, <1>4, Given
  <1>6. \A m \in LAN \ Range(list') : addr'[m] = NoAddress
    BY <1>1, <1>2, <1>3 DEF UniqueInv, BasicInv, TypeInv, Netif
  <1>7. F'.pc = "create"
    <2>1. F' = [F EXCEPT !.pc = "create", !.todo = F.todo + 1] /\ F \in Frame
      BY <1>1, NextToCreateFrame, FrameType DEF BasicInv, TypeInv
    <2> QED
      BY <2>1 DEF Frame
  <1> QED
    BY <1>5, <1>6, <1>7 DEF UniqueInv, Range
\* The softAP's saved address, or a new one, is set next.
LEMMA CreateSoftapMoves ==
  ASSUME OneCaller, BasicInv, CreateSoftap(Main)
  PROVE  /\ F.pc = "create" /\ F.todo \in 1..Len(LanOrder) /\ LanOrder[F.todo] = Softap /\ Softap \in LAN
         /\ ListAdd(LanOrder[F.todo]) /\ UNCHANGED <<addr, prefix, nvsAddr, nvsCheck, nvsPrefix, pending>>
         /\ \/ F'.pc = "create" /\ nvsAddr = NoAddress /\ RequestIp(Softap) = NoAddress
            \/ /\ F'.pc = "setip" /\ F'.netif = Softap /\ F'.cand # NoAddress
               /\ F'.cand = IF nvsAddr # NoAddress THEN nvsAddr ELSE RequestIp(Softap)
               /\ Phase' = "softap"
  <1> DEFINE saved == nvsAddr # NoAddress
             s == IF saved THEN nvsAddr ELSE RequestIp(Softap)
             c == saved => nvsCheck
  <1>1. F.pc = "create" /\ F.todo <= Len(LanOrder) /\ LanOrder[F.todo] = Softap
        /\ ListAdd(LanOrder[F.todo]) /\ UNCHANGED <<addr, prefix, nvsAddr, nvsCheck, nvsPrefix, pending>>
        /\ IF s = NoAddress THEN NextToCreate(Main)
           ELSE CallSetIp(Main, Softap, s, c, TRUE, "softap")
    BY DEF CreateSoftap, F, Creating, nvsVars
  <1>2. task \in [Task -> Frame] /\ prefix \in KnownPrefix /\ nvsAddr \in Address /\ nvsCheck \in BOOLEAN
    BY DEF BasicInv, TypeInv
  <1>3. s \in Address /\ c \in BOOLEAN /\ Softap \in LAN
    BY <1>2, RequestType, IdleType
  <1>4. F.todo \in 1..Len(LanOrder)
    BY <1>1, Listing
  <1>5. CASE s = NoAddress
    <2>1. F' = [F EXCEPT !.pc = "create", !.todo = F.todo + 1]
      BY <1>1, <1>2, <1>5, NextToCreateFrame
    <2>2. F'.pc = "create"
      BY <1>2, <2>1, FrameType DEF Frame
    <2> QED
      BY <1>1, <1>3, <1>4, <1>5, <2>2
  <1>6. CASE s # NoAddress
    <2>1. CallSetIp(Main, Softap, s, c, TRUE, "softap") /\ "softap" \in Caller
      BY <1>1, <1>6 DEF Caller
    <2>2. \A check, save \in BOOLEAN : CallSetIp(Main, Softap, s, check, save, "softap") =>
             F'.pc = "setip" /\ F'.ret = "softap" /\ F'.netif = Softap /\ F'.cand = s
      <3> HIDE DEF s
      <3> QED
        BY <1>2, <1>3, <2>1, SetIpFrame
    <2>3. F'.pc = "setip" /\ F'.ret = "softap" /\ F'.netif = Softap /\ F'.cand = s
      BY <1>3, <2>1, <2>2
    <2>4. Phase' = "softap"
      BY <2>3 DEF Phase, Sub
    <2> QED
      BY <1>1, <1>3, <1>4, <1>6, <2>3, <2>4
  <1> QED
    BY <1>5, <1>6

LEMMA CreateSoftapUnique ==
  ASSUME OneCaller, SoftapFirst, BasicInv, UniqueInv, CreateSoftap(Main)
  PROVE  UniqueInv'
  <1>1. F.todo = 1
    BY CreateSoftapMoves, Sizes, BridgeNetifAssumption DEF SoftapFirst
  <1>2. Range(list) = {}
    <2>1. Range(list) = FirstLan(0)
      BY <1>1, CreateSoftapMoves, Listing, Sizes
    <2> QED
      BY <2>1, FirstLans
  <1>3. \A n \in LAN : addr[n] = NoAddress
    BY <1>2 DEF UniqueInv
  <1>4. addr' = addr
    BY CreateSoftapMoves
  <1>5. F'.pc \in {"setip", "assign"} => Alone(F.netif, F.cand)'
    BY <1>3, <1>4, CreateSoftapMoves DEF Alone
  <1>6. SegmentsUnique'
    BY <1>3, <1>4 DEF SegmentsUnique
  <1> QED
    BY <1>3, <1>4, <1>5, <1>6 DEF UniqueInv

\* The second try, after the saved address was refused
LEMMA SoftapSetMoves ==
  ASSUME OneCaller, BasicInv, SoftapSet(Main)
  PROVE  /\ F.pc = "softap" /\ Phase = "softap" /\ Softap \in LAN
         /\ UNCHANGED <<list, conflictCheck, addr, prefix, nvsAddr, nvsCheck, nvsPrefix, pending>>
         /\ \/ F'.pc = "create" /\ Phase' = "create" /\ F'.todo = F.todo + 1
               /\ (F.ok \/ RequestIp(Softap) = NoAddress)
            \/ /\ F'.pc = "setip" /\ F'.netif = Softap /\ F'.cand # NoAddress
               /\ F'.cand = RequestIp(Softap) /\ Phase' = "softapAgain"
               /\ F'.todo = F.todo
  <1> DEFINE s == RequestIp(Softap)
  <1>1. /\ F.pc = "softap" /\ Phase = "softap"
        /\ UNCHANGED <<list, conflictCheck, addr, prefix, nvsAddr, nvsCheck, nvsPrefix, pending>>
        /\ IF F.ok \/ s = NoAddress THEN NextToCreate(Main)
           ELSE CallSetIp(Main, Softap, s, F.check, TRUE, "softapAgain")
    BY DEF SoftapSet, F, Phase, Sub, nvsVars
  <1>2. task \in [Task -> Frame] /\ prefix \in KnownPrefix
    BY DEF BasicInv, TypeInv
  <1>3. s \in Address /\ F.check \in BOOLEAN /\ Softap \in LAN
    BY <1>2, RequestType, IdleType, FrameType DEF Frame
  <1>4. CASE F.ok \/ s = NoAddress
    <2>1. NextToCreate(Main) /\ F.pc \in {"softap", "softapAgain"} /\ list' = list
      BY <1>1, <1>4
    <2>2. F'.pc = "create" /\ Phase' = "create" /\ F'.todo = F.todo + 1
      BY <2>1, SoftapMade
    <2> QED
      BY <1>1, <1>3, <1>4, <2>2
  <1>5. CASE ~(F.ok \/ s = NoAddress)
    <2>1. CallSetIp(Main, Softap, s, F.check, TRUE, "softapAgain") /\ "softapAgain" \in Caller
      BY <1>1, <1>5 DEF Caller
    <2>2. \A check, save \in BOOLEAN : CallSetIp(Main, Softap, s, check, save, "softapAgain") =>
             /\ F'.pc = "setip" /\ F'.ret = "softapAgain" /\ F'.netif = Softap /\ F'.cand = s
             /\ F'.todo = F.todo
      <3> HIDE DEF s
      <3> QED
        BY <1>2, <1>3, <2>1, SetIpFrame
    <2>3. F'.pc = "setip" /\ F'.ret = "softapAgain" /\ F'.netif = Softap /\ F'.cand = s /\ F'.todo = F.todo
      BY <1>3, <2>1, <2>2
    <2>4. Phase' = "softapAgain"
      BY <2>3 DEF Phase, Sub
    <2> QED
      BY <1>1, <1>3, <1>5, <2>3, <2>4
  <1> QED
    BY <1>4, <1>5

LEMMA SoftapSetAgainMoves ==
  ASSUME OneCaller, BasicInv, SoftapSetAgain(Main)
  PROVE  /\ F.pc = "softapAgain" /\ Phase = "softapAgain"
         /\ F'.pc = "create" /\ Phase' = "create" /\ F'.todo = F.todo + 1
         /\ UNCHANGED <<list, conflictCheck, addr, prefix, nvsAddr, nvsCheck, nvsPrefix, pending>>
  <1>1. F.pc = "softapAgain" /\ Phase = "softapAgain" /\ NextToCreate(Main)
        /\ UNCHANGED <<list, conflictCheck, addr, prefix, nvsAddr, nvsCheck, nvsPrefix, pending>>
    BY DEF SoftapSetAgain, F, Phase, Sub, nvsVars
  <1> QED
    BY <1>1, SoftapMade

LEMMA SoftapSetUnique ==
  ASSUME OneCaller, BasicInv, UniqueInv, SoftapSet(Main) \/ SoftapSetAgain(Main)
  PROVE  UniqueInv'
  <1>1. list' = list /\ addr' = addr
    BY SoftapSetMoves, SoftapSetAgainMoves
  <1>2. F'.pc \in {"setip", "assign"} => Alone(F'.netif, F'.cand)
    BY SoftapSetMoves, SoftapSetAgainMoves, RequestAlone DEF Netif
  <1> QED
    BY <1>1, <1>2, UniqueKept

\* The last netifs are listed: those are the WAN netifs.
LEMMA CreateWanMoves ==
  ASSUME OneCaller, BasicInv, CreateWan(Main)
  PROVE  /\ F.pc = "create" /\ Phase = "create" /\ Range(list) = LAN /\ LAN \subseteq Range(list')
         /\ F'.pc = "idle" /\ Phase' = "idle"
         /\ UNCHANGED <<conflictCheck, addr, prefix, nvsAddr, nvsCheck, nvsPrefix, pending>>
  <1>1. F.pc = "create" /\ Phase = "create" /\ F.todo > Len(LanOrder) /\ list' = list \o WanOrder
        /\ UNCHANGED <<conflictCheck, addr, prefix, nvsAddr, nvsCheck, nvsPrefix, pending>>
        /\ task' = [task EXCEPT ![Main] = Idle]
    BY DEF CreateWan, F, Phase, Sub, nvsVars
  <1>2. F.todo \in 1..(Len(LanOrder) + 1) /\ Range(list) = FirstLan(F.todo - 1) /\ Distinct(list)
    BY <1>1 DEF BasicInv, ListInv
  <1>3. F.todo - 1 = Len(LanOrder)
    BY <1>1, <1>2, Sizes
  <1>4. Range(list) = LAN
    BY <1>2, <1>3, FirstLans
  <1>5. LAN \subseteq Range(list')
    BY <1>1, <1>2, <1>4, ConcatDistinct
  <1>6. F'.pc = "idle" /\ Phase' = "idle"
    BY <1>1, GoesIdle DEF BasicInv, TypeInv
  <1> QED
    BY <1>1, <1>4, <1>5, <1>6

LEMMA CreateWanUnique ==
  ASSUME OneCaller, BasicInv, UniqueInv, CreateWan(Main)
  PROVE  UniqueInv'
  <1>1. SegmentsUnique' /\ \A n \in LAN \ Range(list') : addr'[n] = NoAddress
    BY CreateWanMoves DEF UniqueInv, SegmentsUnique
  <1> QED
    BY <1>1, CreateWanMoves DEF UniqueInv, Range

LEMMA UpdateUnique ==
  ASSUME OneCaller, BasicInv, UniqueInv, Update(Main) \/ Updated(Main) \/ Reallocate(Main)
  PROVE  UniqueInv'
  <1>1. list' = list /\ addr' = addr
    BY UpdateMoves, UpdatedMoves, ReallocateMoves
  <1>2. F'.pc \in {"setip", "assign"} => Alone(F'.netif, F'.cand)
    <2>1. ASSUME Update(Main) PROVE F'.pc \in {"setip", "assign"} => Alone(F'.netif, F'.cand)
      BY <2>1, UpdateMoves, RequestAlone DEF Netif
    <2>2. ASSUME Updated(Main) PROVE F'.pc \notin {"setip", "assign"}
      BY <2>2, UpdatedMoves
    <2>3. ASSUME Reallocate(Main) PROVE F'.pc \in {"setip", "assign"} => Alone(F'.netif, F'.cand)
      BY <2>3, ReallocateMoves, RequestAlone DEF Netif
    <2> QED
      BY <2>1, <2>2, <2>3
  <1> QED
    BY <1>1, <1>2, UniqueKept

\* The caller of set_ip_info() gives an address that nobody has.
LEMMA CallSetIpInfoUnique ==
  ASSUME OneCaller, BasicInv, UniqueInv, NEW n \in LAN, NEW s \in CustomSegments,
         NEW check \in BOOLEAN, NEW save \in BOOLEAN, CallSetIpInfo(Main, n, s, check, save)
  PROVE  UniqueInv'
  <1>1. F.pc = "idle" /\ Phase = "idle" /\ ~Used(n, s) /\ s \in Segment /\ list' = list /\ addr' = addr
        /\ F'.netif = n /\ F'.cand = s
    BY CallSetIpInfoMoves
  <1>2. LAN \subseteq Range(list)
    BY <1>1, AllListed DEF BasicInv, Making
  <1>3. s # NoAddress
    BY <1>1, BridgeNetifAssumption DEF Segment, NoAddress
  <1>4. Alone(n, s)
    BY <1>1, <1>2, <1>3 DEF Used, Alone
  <1> QED
    BY <1>1, <1>4, UniqueKept
\* The remaining steps
LEMMA OtherUnique ==
  ASSUME OneCaller, BasicInv, UniqueInv,
         \/ PrefixDone(Main)
         \/ \E p \in Prefixes, save \in BOOLEAN : SetPrefix(Main, p, save)
         \/ \E n \in LAN, check \in BOOLEAN :
               EraseIpInfo(Main, n, check) \/ SetConflictCheck(Main, n, check)
         \/ CallUpdateAll(Main)
         \/ \E w \in WAN : HandleGotIp(w)
         \/ \E w \in WAN : WanLostIp(w)
         \/ \E w \in WAN, s \in WanSegments : WanGotIp(w, s)
         \/ UNCHANGED vars
  PROVE  UniqueInv'
  <1>1. CASE PrefixDone(Main) \/ \E p \in Prefixes, save \in BOOLEAN : SetPrefix(Main, p, save)
    BY <1>1, PrefixDoneBasic, SetPrefixMoves, UniqueKept
  <1>2. CASE CallUpdateAll(Main) \/ \E w \in WAN : HandleGotIp(w)
    BY <1>2, CallUpdateAllBasic, HandleGotIpBasic, UniqueKept
  <1>3. CASE \E n \in LAN, check \in BOOLEAN :
               EraseIpInfo(Main, n, check) \/ SetConflictCheck(Main, n, check)
    <2>1. F' = F /\ list' = list /\ addr' = addr /\ F.pc = "idle"
      BY <1>3, PolicyBasic, TaskKept
    <2> QED
      BY <2>1, UniqueKept
  <1>4. CASE (\E w \in WAN : WanLostIp(w)) \/ \E w \in WAN, s \in WanSegments : WanGotIp(w, s)
    <2>1. \E w \in WAN : WanLostIp(w) \/ \E s \in WanSegments : WanGotIp(w, s)
      <3>1. CASE \E w \in WAN : WanLostIp(w)
        BY <3>1
      <3>2. CASE \E w \in WAN, s \in WanSegments : WanGotIp(w, s)
        BY <3>2
      <3> QED
        BY <1>4, <3>1, <3>2
    <2>2. list' = list /\ task' = task /\ \A n \in LAN : addr'[n] = addr[n]
      <3> PICK w \in WAN : WanLostIp(w) \/ \E s \in WanSegments : WanGotIp(w, s)
        BY <2>1
      <3>1. /\ UNCHANGED <<list, conflictCheck, prefix, nvsAddr, nvsPrefix, task>>
            /\ \A n \in Netif : n # w => addr'[n] = addr[n]
        BY WanBasic
      <3>2. \A n \in LAN : n \in Netif /\ n # w
        BY BridgeNetifAssumption DEF Netif
      <3> QED
        BY <3>1, <3>2
    <2>3. F' = F
      BY <2>2 DEF F
    <2>4. F'.pc \in {"setip", "assign"} => Alone(F'.netif, F'.cand)
      BY <2>3 DEF UniqueInv
    <2> QED
      BY <2>2, <2>4, UniqueKept
  <1>5. CASE UNCHANGED vars
    <2>1. list' = list /\ addr' = addr /\ F' = F
      BY <1>5 DEF vars, F
    <2>2. F'.pc \in {"setip", "assign"} => Alone(F'.netif, F'.cand)
      BY <2>1 DEF UniqueInv
    <2> QED
      BY <2>1, <2>2, UniqueKept
  <1> QED
    BY <1>1, <1>2, <1>3, <1>4, <1>5

\* After a reset no netif has an address.
LEMMA Unaddressed ==
  ASSUME addr = [n \in Netif |-> NoAddress], F.pc = "create"
  PROVE  UniqueInv
  BY DEF UniqueInv, SegmentsUnique, Netif

LEMMA RebootUnique ==
  ASSUME OneCaller, BasicInv, Reboot
  PROVE  UniqueInv'
  <1>1. addr' = [n \in Netif |-> NoAddress] /\ F'.pc = "create"
    BY RebootBasic
  <1> QED
    BY <1>1 DEF UniqueInv, SegmentsUnique, Netif

LEMMA UniqueStep ==
  ASSUME OneCaller, SoftapFirst, BasicInv, UniqueInv, [Next]_vars
  PROVE  UniqueInv'
  <1>1. CASE UNCHANGED vars
    BY <1>1, OtherUnique
  <1>2. CASE Next
    BY <1>2, NextCases, CreateNetifUnique, CreateSoftapUnique, SoftapSetUnique, CreateWanUnique,
       SetIpUnique, AssignUnique, SaveUnique, UpdateUnique, CallSetIpInfoUnique, OtherUnique, RebootUnique
  <1> QED
    BY <1>1, <1>2

\* No two data-forwarding netifs ever have one segment, however calls, GOT_IP
\* events, conflicts, changes of the prefix and resets follow each other.
THEOREM SegmentsStayUnique == ASSUME OneCaller, SoftapFirst PROVE Spec => []SegmentsUnique
  <1>1. Init => BasicInv /\ UniqueInv
    BY InitBasic, Unaddressed DEF Init
  <1>2. BasicInv /\ UniqueInv /\ [Next]_vars => (BasicInv /\ UniqueInv)'
    BY BasicStep, UniqueStep
  <1>3. UniqueInv => SegmentsUnique
    BY DEF UniqueInv
  <1> QED
    BY <1>1, <1>2, <1>3, PTL DEF Spec
-----------------------------------------------------------------------------
(* Every LAN netif has an address of the prefix *)

\* The segments of a prefix that request_ip() may choose
Usable(p) == {s \in PrefixRange(p) : s \notin Special /\ ~Rejected(s)}

\* No prefix is smaller than the bridge.
EnoughSegments == \A p \in KnownPrefix : Cardinality(Usable(p)) >= Cardinality(Netif)

LEMMA NetifsFinite == IsFiniteSet(Netif)
  <1>1. ASSUME NEW S, NEW s \in Seq(S) PROVE IsFiniteSet(Range(s))
    <2>1. s \in Surjection(1..Len(s), Range(s))
      BY DEF Range, Surjection
    <2>2. Len(s) \in Int /\ 1 \in Int
      OBVIOUS
    <2>3. IsFiniteSet(1..Len(s))
      BY <2>2, FS_Interval
    <2> QED
      BY <2>1, <2>3, FS_Surjection
  <1>2. IsFiniteSet(LAN) /\ IsFiniteSet(WAN)
    BY <1>1, BridgeNetifAssumption DEF LAN, WAN
  <1> QED
    BY <1>2, FS_Union DEF Netif

\* Then request_ip() always finds a segment: the other netifs cannot have
\* them all.
LEMMA NeverFull ==
  ASSUME EnoughSegments, BasicInv, NEW n \in Netif
  PROVE  /\ RequestIp(n) \in PrefixRange(prefix) /\ RequestIp(n) # NoAddress
         /\ ~Rejected(RequestIp(n))
  <1> DEFINE U == Usable(prefix)
             O == Netif \ {n}
             T == {addr[m] : m \in O}
  <1>1. prefix \in KnownPrefix /\ Distinct(list)
    BY DEF BasicInv, TypeInv, ListInv
  <1>2. Free(n) # {}
    <2> SUFFICES ASSUME Free(n) = {} PROVE FALSE
      OBVIOUS
    <2>1. U \subseteq T
      <3> SUFFICES ASSUME NEW s \in U PROVE s \in T
        OBVIOUS
      <3>1. Used(n, s)
        BY DEF Free, Usable
      <3>2. PICK m \in Range(list) \ {n} : addr[m] = s
        BY <3>1 DEF Used
      <3>3. m \in Netif
        BY <1>1, <3>2 DEF Distinct, Range
      <3> QED
        BY <3>2, <3>3
    <2>2. IsFiniteSet(O) /\ Cardinality(O) = Cardinality(Netif) - 1
      BY NetifsFinite, FS_RemoveElement
    <2>3. [m \in O |-> addr[m]] \in Surjection(O, T)
      BY DEF Surjection
    <2>4. IsFiniteSet(T) /\ Cardinality(T) <= Cardinality(O)
      <3> HIDE DEF O, T
      <3> QED
        BY <2>2, <2>3, FS_Surjection
    <2>5. IsFiniteSet(U) /\ Cardinality(U) <= Cardinality(T)
      <3> HIDE DEF U, T
      <3> QED
        BY <2>1, <2>4, FS_Subset
    <2>6. Cardinality(U) >= Cardinality(Netif)
      BY <1>1 DEF EnoughSegments
    <2>7. Cardinality(U) \in Nat /\ Cardinality(T) \in Nat /\ Cardinality(Netif) \in Nat
      BY <2>4, <2>5, NetifsFinite, FS_CardinalityType
    <2> HIDE DEF U, T, O
    <2> QED
      BY <2>2, <2>4, <2>5, <2>6, <2>7
  <1>3. RequestIp(n) \in Free(n)
    BY <1>1, <1>2, Requested
  <1>4. RequestIp(n) \in PrefixRange(prefix) /\ ~Rejected(RequestIp(n))
    BY <1>3 DEF Free
  <1> QED
    BY <1>1, <1>4, RangeType
Served(n) == addr[n] \in PrefixRange(prefix)

\* The LAN netifs that the operation under way has not come to yet
Unserved ==
    {n \in LAN : \/ n \notin Range(list)
                 \/ Phase \in {"softap", "softapAgain"} /\ n = Softap
                 \/ Phase = "prefix" /\ \E i \in DOMAIN list : i >= F.todo /\ list[i] = n
                 \/ Phase = "prefix" /\ F.pc \in Sub /\ n = F.netif}

\* The other LAN netifs have an address of the prefix; so does the one that
\* set_ip_info() has just set, or is certain to set.
PrefixInv ==
    /\ \A n \in LAN \ Unserved : Served(n)
    /\ F.pc \in Sub /\ Phase \in {"softap", "softapAgain"} => F.netif = Softap
    /\ F.pc = "setip" /\ Phase \in {"softapAgain", "prefix"} => F.cand \in PrefixRange(prefix)
    /\ F.pc = "assign" => F.cand \in PrefixRange(prefix)
    /\ F.pc \in {"saveAddr", "saveCheck"} => Served(F.netif)
    /\ (F.pc = "softap" /\ F.ok) \/ F.pc = "softapAgain" => Served(Softap)

\* A step within set_ip_info(): nothing that is served stops being so, and the
\* netif in question is, once the label says so.
LEMMA SubServed ==
  ASSUME OneCaller, BasicInv, PrefixInv, F.pc \in Sub, list' = list, prefix' = prefix,
         task' \in [Task -> Frame],
         \/ \E l \in Sub \ {"setip"} : Goto(Main, l) /\ (l = "assign" => F.cand \in PrefixRange(prefix))
         \/ \E ok \in BOOLEAN : /\ Return(Main, ok)
                                /\ ~ok => Phase \notin {"softapAgain", "prefix"}
                                /\ ok => addr'[F.netif] \in PrefixRange(prefix),
         F'.pc \in {"saveAddr", "saveCheck"} => addr'[F.netif] \in PrefixRange(prefix),
         \A n \in LAN : Served(n) => addr'[n] \in PrefixRange(prefix)
  PROVE  PrefixInv'
  <1>1. task \in [Task -> Frame] /\ F \in Frame /\ F.ret \in Caller /\ F.netif \in LAN
    BY FrameType DEF BasicInv, TypeInv, Frame, Caller
  <1>2. (\E l \in Sub : Goto(Main, l)) \/ (\E ok \in BOOLEAN : Return(Main, ok))
    OBVIOUS
  <1>3. /\ Phase' = Phase /\ (Phase # "idle" => F'.todo = F.todo)
        /\ F'.pc \in Sub => F'.netif = F.netif /\ F'.cand = F.cand
    BY <1>1, <1>2, SubStep
  <1>4. Phase = F.ret
    BY DEF Phase
  <1>5. CASE \E l \in Sub \ {"setip"} : Goto(Main, l) /\ (l = "assign" => F.cand \in PrefixRange(prefix))
    <2>1. PICK l \in Sub \ {"setip"} : Goto(Main, l) /\ (l = "assign" => F.cand \in PrefixRange(prefix))
      BY <1>5
    <2>2. F' = [F EXCEPT !.pc = l]
      BY <1>1, <2>1, GotoFrame DEF Sub, Label
    <2>3. F'.pc = l
      BY <1>1, <2>2, Changed
    <2>4. F'.netif = F.netif /\ F'.cand = F.cand /\ F'.pc \in Sub /\ F'.pc # "setip"
      BY <1>3, <2>1, <2>3
    <2>5. Unserved' = Unserved
      BY <1>3, <2>4 DEF Unserved, Range
    <2>6. \A n \in LAN \ Unserved' : addr'[n] \in PrefixRange(prefix)
      BY <2>5 DEF PrefixInv
    <2>7. F'.pc = "assign" => F'.cand \in PrefixRange(prefix)
      BY <2>1, <2>3, <2>4
    <2>8. F'.pc \in {"setip", "assign", "saveAddr", "saveCheck"}
      BY <2>4 DEF Sub
    <2>9. F'.pc \in Sub /\ Phase' \in {"softap", "softapAgain"} => F'.netif = Softap
      BY <1>3, <2>4 DEF PrefixInv
    <2> QED
      BY <2>4, <2>6, <2>7, <2>8, <2>9 DEF PrefixInv, Served, PrefixRange
  <1>6. CASE \E ok \in BOOLEAN : /\ Return(Main, ok)
                                 /\ ~ok => Phase \notin {"softapAgain", "prefix"}
                                 /\ ok => addr'[F.netif] \in PrefixRange(prefix)
    <2>1. PICK ok \in BOOLEAN : /\ Return(Main, ok)
                                /\ ~ok => Phase \notin {"softapAgain", "prefix"}
                                /\ ok => addr'[F.netif] \in PrefixRange(prefix)
      BY <1>6
    <2>2. F'.pc = F.ret /\ F'.pc \in Caller /\ (F.ret # "idle" => F'.ok = ok)
      BY <1>1, <2>1, ReturnTo
    <2>3. F'.pc \notin Sub
      BY <2>2 DEF Caller, Sub
    <2>4. Phase \in {"softapAgain", "prefix"} => addr'[F.netif] \in PrefixRange(prefix)
      BY <2>1
    <2>5. Phase \in {"softap", "softapAgain"} => F.netif = Softap
      BY DEF PrefixInv
    <2>6. \A n \in LAN \ Unserved' : addr'[n] \in PrefixRange(prefix)
      <3> SUFFICES ASSUME NEW n \in LAN, n \notin Unserved'
                   PROVE  addr'[n] \in PrefixRange(prefix)
        OBVIOUS
      <3>1. CASE n \notin Unserved
        BY <3>1 DEF PrefixInv
      <3>2. CASE n \in Unserved
        <4>1. Phase = "prefix" /\ n = F.netif
          BY <1>3, <2>3, <3>2 DEF Unserved, Range
        <4> QED
          BY <2>4, <4>1
      <3> QED
        BY <3>1, <3>2
    <2>7. F'.pc = "softapAgain" => addr'[Softap] \in PrefixRange(prefix)
      BY <1>4, <2>2, <2>4, <2>5
    <2>8. F'.pc = "softap" /\ F'.ok => addr'[Softap] \in PrefixRange(prefix)
      BY <1>4, <2>1, <2>2, <2>5
    <2>9. F'.pc \notin {"setip", "assign", "saveAddr", "saveCheck"}
      BY <2>3 DEF Sub
    <2> QED
      BY <2>3, <2>6, <2>7, <2>8, <2>9 DEF PrefixInv, Served, PrefixRange
  <1> QED
    BY <1>5, <1>6
LEMMA SetIpServes ==
  ASSUME OneCaller, BasicInv, PrefixInv, SetIp(Main)
  PROVE  PrefixInv'
  <1>1. F.pc = "setip" /\ F.pc \in Sub /\ F.netif \in LAN
    BY SetIpMoves
  <1>2. list' = list /\ prefix' = prefix /\ addr' = addr /\ task' \in [Task -> Frame]
    BY SetIpBasic DEF SetIp, BasicInv, TypeInv
  <1>3. \A n \in LAN : Served(n) => addr'[n] \in PrefixRange(prefix)
    BY <1>2 DEF Served
  <1>4. F \in Frame /\ F.ret \in Caller /\ task \in [Task -> Frame]
    BY FrameType DEF BasicInv, TypeInv, Frame, Caller
  <1>5. CASE F.cand \notin PrefixRange(prefix) /\ Return(Main, FALSE)
    <2>1. Phase \notin {"softapAgain", "prefix"}
      BY <1>1, <1>5 DEF PrefixInv
    <2>2. F'.pc \notin {"saveAddr", "saveCheck"}
      BY <1>4, <1>5, ReturnTo DEF Caller
    <2>3. \E ok \in BOOLEAN : /\ Return(Main, ok)
                              /\ ~ok => Phase \notin {"softapAgain", "prefix"}
                              /\ ok => addr'[F.netif] \in PrefixRange(prefix)
      BY <1>5, <2>1
    <2> QED
      BY <1>1, <1>2, <1>3, <2>2, <2>3, SubServed
  <1>6. CASE /\ F.cand \in PrefixRange(prefix) /\ addr[F.netif] = F.cand
             /\ Goto(Main, "saveAddr") \/ Return(Main, TRUE)
    <2>1. addr'[F.netif] \in PrefixRange(prefix)
      BY <1>2, <1>6
    <2>2. \/ \E l \in Sub \ {"setip"} : Goto(Main, l) /\ (l = "assign" => F.cand \in PrefixRange(prefix))
          \/ \E ok \in BOOLEAN : /\ Return(Main, ok)
                                 /\ ~ok => Phase \notin {"softapAgain", "prefix"}
                                 /\ ok => addr'[F.netif] \in PrefixRange(prefix)
      BY <1>6, <2>1 DEF Sub
    <2> QED
      BY <1>1, <1>2, <1>3, <2>1, <2>2, SubServed
  <1>7. CASE F.cand \in PrefixRange(prefix) /\ Goto(Main, "assign")
    <2>1. \E l \in Sub \ {"setip"} : Goto(Main, l) /\ (l = "assign" => F.cand \in PrefixRange(prefix))
      BY <1>7 DEF Sub
    <2>2. F'.pc \notin {"saveAddr", "saveCheck"}
      <3>1. F' = [F EXCEPT !.pc = "assign"]
        BY <1>4, <1>7, GotoFrame DEF Label
      <3> QED
        BY <1>4, <3>1, Changed
    <2> QED
      BY <1>1, <1>2, <1>3, <2>1, <2>2, SubServed
  <1> QED
    BY <1>5, <1>6, <1>7 DEF SetIp, F

LEMMA AssignServes ==
  ASSUME OneCaller, BasicInv, PrefixInv, Assign(Main)
  PROVE  PrefixInv'
  <1>1. F.pc = "assign" /\ F.pc \in Sub /\ F.netif \in LAN /\ addr' = [addr EXCEPT ![F.netif] = F.cand]
    BY AssignMoves
  <1>2. list' = list /\ prefix' = prefix /\ task' \in [Task -> Frame]
    BY AssignBasic DEF Assign, BasicInv, TypeInv
  <1>3. F.cand \in PrefixRange(prefix)
    BY <1>1 DEF PrefixInv
  <1>4. addr'[F.netif] \in PrefixRange(prefix)
        /\ \A n \in LAN : Served(n) => addr'[n] \in PrefixRange(prefix)
    BY <1>1, <1>3 DEF Served, BasicInv, TypeInv, Netif
  <1>5. \/ \E l \in Sub \ {"setip"} : Goto(Main, l) /\ (l = "assign" => F.cand \in PrefixRange(prefix))
        \/ \E ok \in BOOLEAN : /\ Return(Main, ok)
                               /\ ~ok => Phase \notin {"softapAgain", "prefix"}
                               /\ ok => addr'[F.netif] \in PrefixRange(prefix)
    <2>1. addr'[F.netif] \in PrefixRange(prefix)
      BY <1>4
    <2>2. CASE Goto(Main, "saveAddr")
      BY <2>2 DEF Sub
    <2>3. CASE Return(Main, TRUE)
      BY <2>1, <2>3
    <2> QED
      BY <2>2, <2>3 DEF Assign
  <1> QED
    BY <1>1, <1>2, <1>4, <1>5, SubServed

LEMMA SaveServes ==
  ASSUME OneCaller, BasicInv, PrefixInv, SaveAddr(Main) \/ SaveCheck(Main)
  PROVE  PrefixInv'
  <1>1. F.pc \in {"saveAddr", "saveCheck"} /\ F.pc \in Sub
        /\ list' = list /\ prefix' = prefix /\ addr' = addr /\ task' \in [Task -> Frame]
    BY SaveBasic DEF Sub, BasicInv, TypeInv
  <1>2. addr'[F.netif] \in PrefixRange(prefix)
        /\ \A n \in LAN : Served(n) => addr'[n] \in PrefixRange(prefix)
    BY <1>1 DEF PrefixInv, Served
  <1>3. \/ \E l \in Sub \ {"setip"} : Goto(Main, l) /\ (l = "assign" => F.cand \in PrefixRange(prefix))
        \/ \E ok \in BOOLEAN : /\ Return(Main, ok)
                               /\ ~ok => Phase \notin {"softapAgain", "prefix"}
                               /\ ok => addr'[F.netif] \in PrefixRange(prefix)
    <2>1. addr'[F.netif] \in PrefixRange(prefix)
      BY <1>2
    <2>2. CASE Goto(Main, "saveCheck")
      BY <2>2 DEF Sub
    <2>3. CASE Return(Main, TRUE)
      BY <2>1, <2>3
    <2> QED
      BY <2>2, <2>3 DEF SaveAddr, SaveCheck
  <1> QED
    BY <1>1, <1>2, <1>3, SubServed

\* Labels of no concern to set_ip_info(): only who is served matters.
LEMMA ServedByLabel ==
  ASSUME F'.pc \in {"idle", "create", "update", "updated", "prefix"},
         \A n \in LAN \ Unserved' : Served(n)'
  PROVE  PrefixInv'
  BY DEF PrefixInv, Sub

LEMMA CreateNetifServes ==
  ASSUME OneCaller, EnoughSegments, BasicInv, PrefixInv, CreateNetif(Main)
  PROVE  PrefixInv'
  <1> DEFINE n == LanOrder[F.todo]
  <1>1. F.pc = "create" /\ F.todo <= Len(LanOrder) /\ ListAdd(n) /\ NextToCreate(Main)
        /\ addr' = [addr EXCEPT ![n] = RequestIp(n)] /\ prefix' = prefix
    BY DEF CreateNetif, F, Creating
  <1>2. n \in LAN /\ Range(list') = FirstLan(F.todo) /\ Range(list) = FirstLan(F.todo - 1)
        /\ F.todo \in 1..Len(LanOrder)
    BY <1>1, Listing
  <1>3. Range(list') = Range(list) \cup {n}
    BY <1>2, FirstLans
  <1>4. F'.pc = "create" /\ F' = [F EXCEPT !.pc = "create", !.todo = F.todo + 1]
    <2>1. F' = [F EXCEPT !.pc = "create", !.todo = F.todo + 1] /\ F \in Frame
      BY <1>1, NextToCreateFrame, FrameType DEF BasicInv, TypeInv
    <2> QED
      BY <2>1 DEF Frame
  <1>5. RequestIp(n) \in PrefixRange(prefix)
    BY <1>2, NeverFull DEF Netif
  <1> HIDE DEF n
  <1>6. ASSUME NEW m \in LAN, m \notin Unserved' PROVE addr'[m] \in PrefixRange(prefix)
    <2>1. m \in Range(list')
      BY <1>6 DEF Unserved, Range
    <2>2. CASE m = n
      BY <1>1, <1>5, <2>2 DEF BasicInv, TypeInv, Netif
    <2>3. CASE m # n
      <3>1. m \in Range(list)
        BY <1>3, <2>1, <2>3
      <3>2. Phase = "create"
        BY <1>1 DEF Phase, Sub
      <3>3. Served(m)
        BY <3>1, <3>2 DEF PrefixInv, Unserved
      <3> QED
        BY <1>1, <2>3, <3>3 DEF Served, BasicInv, TypeInv, Netif
    <2> QED
      BY <2>2, <2>3
  <1>7. \A m \in LAN \ Unserved' : Served(m)'
    BY <1>1, <1>6 DEF Served, PrefixRange
  <1> QED
    BY <1>4, <1>7, ServedByLabel

LEMMA CreateSoftapServes ==
  ASSUME OneCaller, EnoughSegments, BasicInv, PrefixInv, CreateSoftap(Main)
  PROVE  PrefixInv'
  <1>1. F.pc = "create" /\ Softap \in LAN /\ addr' = addr /\ prefix' = prefix
    BY CreateSoftapMoves
  <1>2. F'.pc = "setip" /\ F'.netif = Softap /\ Phase' = "softap"
    <2>1. RequestIp(Softap) # NoAddress
      BY <1>1, NeverFull DEF Netif
    <2> QED
      BY <2>1, CreateSoftapMoves
  <1>3. Range(list') = Range(list) \cup {Softap}
    BY CreateSoftapMoves, Listing, FirstLans, Sizes
  <1>4. \A n \in LAN \ Unserved' : Served(n)'
    <2> SUFFICES ASSUME NEW n \in LAN, n \notin Unserved' PROVE Served(n)'
      OBVIOUS
    <2>1. n \in Range(list') /\ n # Softap
      BY <1>2 DEF Unserved, Range
    <2>2. n \in Range(list) /\ Phase = "create"
      BY <1>1, <1>3, <2>1 DEF Phase, Sub
    <2>3. Served(n)
      BY <2>2 DEF PrefixInv, Unserved
    <2> QED
      BY <1>1, <2>3 DEF Served, PrefixRange
  <1> QED
    BY <1>2, <1>4 DEF PrefixInv
LEMMA SoftapSetServes ==
  ASSUME OneCaller, EnoughSegments, BasicInv, PrefixInv, SoftapSet(Main)
  PROVE  PrefixInv'
  <1>1. /\ F.pc = "softap" /\ Phase = "softap" /\ Softap \in LAN
        /\ list' = list /\ addr' = addr /\ prefix' = prefix
    BY SoftapSetMoves
  <1>2. RequestIp(Softap) # NoAddress /\ RequestIp(Softap) \in PrefixRange(prefix)
    BY <1>1, NeverFull DEF Netif
  <1>3. \A n \in LAN \cap Range(list) : n # Softap => Served(n)
    BY <1>1 DEF PrefixInv, Unserved
  <1>4. CASE F'.pc = "create" /\ Phase' = "create" /\ F.ok
    <2>1. Served(Softap)
      BY <1>1, <1>4 DEF PrefixInv
    <2>2. \A n \in LAN \ Unserved' : Served(n)
      BY <1>1, <1>3, <2>1 DEF Unserved, Range
    <2>3. \A n \in LAN \ Unserved' : Served(n)'
      BY <1>1, <2>2 DEF Served, PrefixRange
    <2> QED
      BY <1>4, <2>3, ServedByLabel
  <1>5. CASE F'.pc = "setip" /\ F'.netif = Softap /\ F'.cand = RequestIp(Softap) /\ Phase' = "softapAgain"
    <2>1. \A n \in LAN \ Unserved' : Served(n)
      BY <1>1, <1>3, <1>5 DEF Unserved, Range
    <2>2. \A n \in LAN \ Unserved' : Served(n)'
      BY <1>1, <2>1 DEF Served, PrefixRange
    <2>3. F'.cand \in PrefixRange(prefix)'
      BY <1>1, <1>2, <1>5 DEF PrefixRange
    <2> QED
      BY <1>5, <2>2, <2>3 DEF PrefixInv
  <1> QED
    BY <1>2, <1>4, <1>5, SoftapSetMoves

LEMMA SoftapSetAgainServes ==
  ASSUME OneCaller, BasicInv, PrefixInv, SoftapSetAgain(Main)
  PROVE  PrefixInv'
  <1>1. /\ F.pc = "softapAgain" /\ Phase = "softapAgain" /\ F'.pc = "create" /\ Phase' = "create"
        /\ list' = list /\ addr' = addr /\ prefix' = prefix
    BY SoftapSetAgainMoves
  <1>2. \A n \in LAN \cap Range(list) : Served(n)
    BY <1>1 DEF PrefixInv, Unserved
  <1>3. \A n \in LAN \ Unserved' : Served(n)
    BY <1>1, <1>2 DEF Unserved, Range
  <1>4. \A n \in LAN \ Unserved' : Served(n)'
    BY <1>1, <1>3 DEF Served, PrefixRange
  <1> QED
    BY <1>1, <1>4, ServedByLabel

LEMMA CreateWanServes ==
  ASSUME OneCaller, BasicInv, PrefixInv, CreateWan(Main)
  PROVE  PrefixInv'
  <1>1. F.pc = "create" /\ Phase = "create" /\ Range(list) = LAN /\ F'.pc = "idle"
        /\ addr' = addr /\ prefix' = prefix
    BY CreateWanMoves
  <1>2. \A n \in LAN : Served(n)
    BY <1>1 DEF PrefixInv, Unserved
  <1>3. \A n \in LAN \ Unserved' : Served(n)'
    BY <1>1, <1>2 DEF Served, PrefixRange
  <1> QED
    BY <1>1, <1>3, ServedByLabel

\* Outside the creation and a change of the prefix, every LAN netif is served.
LEMMA AllServed ==
  ASSUME BasicInv, PrefixInv, Phase \in {"idle", "update", "updated"}
  PROVE  \A n \in LAN : Served(n)
  <1>1. LAN \subseteq Range(list)
    BY AllListed DEF BasicInv, Making
  <1> QED
    BY <1>1 DEF PrefixInv, Unserved

LEMMA UpdateServes ==
  ASSUME OneCaller, EnoughSegments, BasicInv, PrefixInv, Update(Main) \/ Updated(Main)
  PROVE  PrefixInv'
  <1>1. Phase \in {"update", "updated"} /\ list' = list /\ addr' = addr /\ prefix' = prefix
    BY UpdateMoves, UpdatedMoves
  <1>2. \A n \in LAN \ Unserved' : Served(n)'
    BY <1>1, AllServed DEF Served, PrefixRange
  <1>3. CASE F'.pc \in {"idle", "update", "updated"}
    BY <1>2, <1>3, ServedByLabel
  <1>4. CASE /\ F'.pc = "assign" /\ Phase' = "updated"
             /\ \E i \in DOMAIN list : list[i] \in LAN /\ F'.cand = RequestIp(list[i])
    <2>1. F'.cand \in PrefixRange(prefix)
      BY <1>4, NeverFull DEF Netif
    <2>2. F'.cand \in PrefixRange(prefix)'
      BY <1>1, <2>1 DEF PrefixRange
    <2> QED
      BY <1>2, <1>4, <2>2 DEF PrefixInv
  <1> QED
    BY <1>3, <1>4, UpdateMoves, UpdatedMoves

LEMMA ReallocateServes ==
  ASSUME OneCaller, EnoughSegments, BasicInv, PrefixInv, Reallocate(Main)
  PROVE  PrefixInv'
  <1> DEFINE k == list[F.todo]
  <1>1. /\ F.pc = "prefix" /\ Phase = "prefix" /\ F.todo \in DOMAIN list /\ Phase' = "prefix"
        /\ list' = list /\ addr' = addr /\ prefix' = prefix /\ F'.todo = F.todo + 1
    BY ReallocateMoves
  <1>2. k \in Netif /\ F.todo \in Nat
    BY <1>1 DEF BasicInv, ListInv, Distinct
  <1>3. RequestIp(k) # NoAddress /\ RequestIp(k) \in PrefixRange(prefix)
    BY <1>2, NeverFull
  <1>4. \A n \in LAN \ Unserved' : n # k => n \notin Unserved
    <2> SUFFICES ASSUME NEW n \in LAN, n \notin Unserved', n # k, n \in Unserved PROVE FALSE
      OBVIOUS
    <2>1. n \in Range(list)
      BY <1>1 DEF Unserved, Range
    <2>2. PICK i \in DOMAIN list : i >= F.todo /\ list[i] = n
      BY <1>1, <2>1 DEF Unserved, Sub
    <2>3. i # F.todo /\ i \in Nat
      BY <2>2 DEF BasicInv, ListInv, Distinct
    <2>4. i >= F'.todo
      BY <1>1, <1>2, <2>2, <2>3
    <2> QED
      BY <1>1, <2>2, <2>4 DEF Unserved
  <1>5. \A n \in LAN \ Unserved' : n # k
    <2>1. (F'.pc = "setip" /\ F'.netif = k) \/ k \notin LAN
      BY <1>3, ReallocateMoves
    <2> QED
      BY <1>1, <2>1 DEF Unserved, Sub
  <1>6. \A n \in LAN \ Unserved' : Served(n)'
    BY <1>1, <1>4, <1>5 DEF PrefixInv, Served, PrefixRange
  <1>7. CASE F'.pc = "prefix"
    BY <1>6, <1>7, ServedByLabel
  <1>8. CASE F'.pc = "setip" /\ F'.cand = RequestIp(k)
    <2>1. F'.cand \in PrefixRange(prefix)'
      BY <1>1, <1>3, <1>8 DEF PrefixRange
    <2> QED
      BY <1>1, <1>6, <1>8, <2>1 DEF PrefixInv
  <1> QED
    BY <1>7, <1>8, ReallocateMoves

LEMMA PrefixDoneServes ==
  ASSUME OneCaller, BasicInv, PrefixInv, PrefixDone(Main)
  PROVE  PrefixInv'
  <1>1. /\ F.pc = "prefix" /\ Phase = "prefix" /\ F.todo > Len(list) /\ F'.pc = "idle"
        /\ addr' = addr /\ prefix' = prefix
    BY PrefixDoneBasic
  <1>2. LAN \subseteq Range(list) /\ list \in Seq(Netif) /\ F.todo \in Nat
    BY <1>1, AllListed, FrameType, Sizes DEF BasicInv, Making, ListInv, Distinct, TypeInv, Frame
  <1>3. \A i \in DOMAIN list : ~(i >= F.todo)
    BY <1>1, <1>2
  <1>4. \A n \in LAN : Served(n)
    BY <1>1, <1>2, <1>3 DEF PrefixInv, Unserved, Sub
  <1>5. \A n \in LAN \ Unserved' : Served(n)'
    BY <1>1, <1>4 DEF Served, PrefixRange
  <1> QED
    BY <1>1, <1>5, ServedByLabel

LEMMA SetPrefixServes ==
  ASSUME OneCaller, BasicInv, PrefixInv, NEW p \in Prefixes, NEW save \in BOOLEAN, SetPrefix(Main, p, save)
  PROVE  PrefixInv'
  <1>1. /\ F.pc = "idle" /\ Phase = "idle" /\ prefix' = p /\ list' = list /\ addr' = addr
        /\ F'.pc = "prefix" /\ Phase' = "prefix" /\ F'.todo = IF p = prefix THEN Len(list) + 1 ELSE 1
    BY SetPrefixMoves
  <1>2. LAN \subseteq Range(list) /\ list \in Seq(Netif)
    BY <1>1, AllListed DEF BasicInv, Making, ListInv, Distinct
  <1>3. \A n \in LAN \ Unserved' : Served(n)'
    <2>1. CASE p = prefix
      BY <1>1, <2>1, AllServed DEF Served, PrefixRange
    <2>2. CASE p # prefix
      <3> SUFFICES ASSUME NEW n \in LAN PROVE n \in Unserved'
        OBVIOUS
      <3>1. PICK i \in DOMAIN list : list[i] = n
        BY <1>2 DEF Range
      <3>2. i >= F'.todo
        BY <1>1, <1>2, <2>2
      <3> QED
        BY <1>1, <3>1, <3>2 DEF Unserved
    <2> QED
      BY <2>1, <2>2
  <1> QED
    BY <1>1, <1>3, ServedByLabel

LEMMA CallSetIpInfoServes ==
  ASSUME OneCaller, BasicInv, PrefixInv, NEW n \in LAN, NEW s \in CustomSegments,
         NEW check \in BOOLEAN, NEW save \in BOOLEAN, CallSetIpInfo(Main, n, s, check, save)
  PROVE  PrefixInv'
  <1>1. Phase = "idle" /\ F'.pc = "setip" /\ Phase' = "idle" /\ addr' = addr /\ prefix' = prefix
    BY CallSetIpInfoMoves
  <1>2. \A m \in LAN \ Unserved' : Served(m)'
    BY <1>1, AllServed DEF Served, PrefixRange
  <1> QED
    BY <1>1, <1>2 DEF PrefixInv

LEMMA CallUpdateServes ==
  ASSUME OneCaller, BasicInv, PrefixInv, CallUpdateAll(Main) \/ \E w \in WAN : HandleGotIp(w)
  PROVE  PrefixInv'
  <1>1. Phase = "idle" /\ F'.pc = "update" /\ addr' = addr /\ prefix' = prefix
    BY CallUpdateAllBasic, HandleGotIpBasic
  <1>2. \A m \in LAN \ Unserved' : Served(m)'
    BY <1>1, AllServed DEF Served, PrefixRange
  <1> QED
    BY <1>1, <1>2, ServedByLabel

\* Nothing that matters to a LAN netif changes.
LEMMA ServedKept ==
  ASSUME OneCaller, BasicInv, PrefixInv, UNCHANGED <<list, prefix, task>>, \A n \in LAN : addr'[n] = addr[n]
  PROVE  PrefixInv'
  <1>1. F' = F /\ Phase' = Phase
    BY TaskKept
  <1>2. Unserved' = Unserved
    BY <1>1 DEF Unserved, Range
  <1>3. \A n \in LAN : Served(n)' <=> Served(n)
    BY DEF Served, PrefixRange
  <1>4. \A n \in LAN \ Unserved' : Served(n)'
    BY <1>2, <1>3 DEF PrefixInv
  <1>5. F.netif \in LAN /\ Softap \in LAN
    BY FrameType, IdleType DEF BasicInv, TypeInv, Frame
  <1>6. PrefixRange(prefix)' = PrefixRange(prefix)
    BY DEF PrefixRange
  <1>7. (F.netif)' = F.netif /\ (F.cand)' = F.cand /\ (F.pc)' = F.pc /\ (F.ok)' = F.ok
    BY <1>1
  <1>8. (F.pc \in {"saveAddr", "saveCheck"} => Served(F.netif))'
    <2>1. Served(F.netif)' <=> Served(F.netif)
      BY <1>3, <1>5, <1>6, <1>7 DEF Served
    <2> QED
      BY <1>7, <2>1 DEF PrefixInv
  <1>9. ((F.pc = "softap" /\ F.ok) \/ F.pc = "softapAgain" => Served(Softap))'
    BY <1>3, <1>5, <1>7 DEF PrefixInv
  <1> QED
    BY <1>1, <1>4, <1>6, <1>7, <1>8, <1>9 DEF PrefixInv
\* After a reset no netif is on the list.
LEMMA InitServes ==
  ASSUME list = <<>>, F.pc = "create"
  PROVE  PrefixInv
  <1>1. LAN \ Unserved = {}
    BY DEF Unserved, Range
  <1> QED
    BY <1>1 DEF PrefixInv, Sub

LEMMA RebootServes ==
  ASSUME OneCaller, BasicInv, Reboot
  PROVE  PrefixInv'
  <1>1. list' = <<>> /\ F'.pc = "create"
    BY RebootBasic
  <1>2. \A n \in LAN \ Unserved' : Served(n)'
    BY <1>1 DEF Unserved, Range
  <1> QED
    BY <1>1, <1>2, ServedByLabel

LEMMA OtherServes ==
  ASSUME OneCaller, BasicInv, PrefixInv,
         \/ \E n \in LAN, check \in BOOLEAN :
               EraseIpInfo(Main, n, check) \/ SetConflictCheck(Main, n, check)
         \/ \E w \in WAN : WanLostIp(w)
         \/ \E w \in WAN, s \in WanSegments : WanGotIp(w, s)
         \/ UNCHANGED vars
  PROVE  PrefixInv'
  <1>1. UNCHANGED <<list, prefix, task>> /\ \A n \in LAN : addr'[n] = addr[n]
    <2>1. CASE \E n \in LAN, check \in BOOLEAN :
               EraseIpInfo(Main, n, check) \/ SetConflictCheck(Main, n, check)
      BY <2>1, PolicyBasic
    <2>2. ASSUME NEW w \in WAN, WanLostIp(w) \/ \E s \in WanSegments : WanGotIp(w, s)
          PROVE  UNCHANGED <<list, prefix, task>> /\ \A n \in LAN : addr'[n] = addr[n]
      <3>1. /\ UNCHANGED <<list, prefix, task>>
            /\ \A n \in Netif : n # w => addr'[n] = addr[n]
        BY <2>2, WanBasic
      <3>2. \A n \in LAN : n \in Netif /\ n # w
        BY BridgeNetifAssumption DEF Netif
      <3> QED
        BY <3>1, <3>2
    <2>3. CASE \E w \in WAN : WanLostIp(w)
      BY <2>2, <2>3
    <2>4. CASE \E w \in WAN, s \in WanSegments : WanGotIp(w, s)
      BY <2>2, <2>4
    <2>5. CASE UNCHANGED vars
      BY <2>5 DEF vars
    <2> QED
      BY <2>1, <2>3, <2>4, <2>5
  <1> QED
    BY <1>1, ServedKept

LEMMA PrefixStep ==
  ASSUME OneCaller, EnoughSegments, BasicInv, PrefixInv, [Next]_vars
  PROVE  PrefixInv'
  <1>1. CASE UNCHANGED vars
    BY <1>1, OtherServes
  <1>2. CASE Next
    BY <1>2, NextCases, CreateNetifServes, CreateSoftapServes, SoftapSetServes, SoftapSetAgainServes,
       CreateWanServes, SetIpServes, AssignServes, SaveServes, UpdateServes, ReallocateServes,
       PrefixDoneServes, SetPrefixServes, CallSetIpInfoServes, CallUpdateServes, OtherServes, RebootServes
  <1> QED
    BY <1>1, <1>2

\* Between calls every data-forwarding netif has an address of the prefix in
\* force, whatever was in flash at the last reset and whichever of its two
\* keys a reset has kept from being written.
THEOREM AddressesStayInPrefix ==
  ASSUME OneCaller, EnoughSegments
  PROVE  Spec => []AddressesInPrefix
  <1>1. Init => BasicInv /\ PrefixInv
    BY InitBasic, InitServes
  <1>2. BasicInv /\ PrefixInv /\ [Next]_vars => (BasicInv /\ PrefixInv)'
    BY BasicStep, PrefixStep
  <1>3. BasicInv /\ PrefixInv => AddressesInPrefix
    <2> SUFFICES ASSUME BasicInv, PrefixInv, \A t \in Task : task[t].pc = "idle"
                 PROVE  \A n \in LAN : Served(n)
      BY DEF AddressesInPrefix, Served
    <2>1. Phase = "idle"
      BY DEF F, Phase, Sub, Task
    <2> QED
      BY <2>1, AllServed
  <1> QED
    BY <1>1, <1>2, <1>3, PTL DEF Spec
-----------------------------------------------------------------------------
(* conflict_update() resolves every conflict *)

\* The WAN networks are as large as the bridge's own.
SameMask == \A w \in WAN : Width[w] = 1

\* set_ip_info() is not called with an address that the check deciding alone
\* in conflict_update() rejects: such a netif would be moved in place of one
\* that is in conflict.
CustomAllowed == \A s \in CustomSegments : ~LastCheckRejects(s)

AllowedInv ==
    /\ \A n \in LAN : ~LastCheckRejects(addr[n])
    /\ ~LastCheckRejects(nvsAddr)
    /\ F.pc \in Sub => ~LastCheckRejects(F.cand)

LEMMA RequestAllowed ==
  /\ ~LastCheckRejects(NoAddress)
  /\ EnoughSegments /\ BasicInv => \A n \in Netif : ~LastCheckRejects(RequestIp(n))
  <1>1. CustomChecks # <<>> => Len(CustomChecks) \in DOMAIN CustomChecks
                               /\ CustomChecks[Len(CustomChecks)] \subseteq Segment
    BY BridgeNetifAssumption
  <1>2. NoAddress \notin Segment
    BY BridgeNetifAssumption DEF NoAddress, Segment
  <1>3. ~LastCheckRejects(NoAddress)
    BY <1>1, <1>2 DEF LastCheckRejects
  <1>4. ASSUME EnoughSegments, BasicInv, NEW n \in Netif PROVE ~LastCheckRejects(RequestIp(n))
    BY <1>1, <1>4, NeverFull DEF LastCheckRejects, Rejected
  <1> QED
    BY <1>3, <1>4

\* The addresses of the LAN netifs and in flash do not change, nor does the
\* address about to be set; or a new one is allowed.
LEMMA AllowedKept ==
  ASSUME AllowedInv, \A n \in LAN : addr'[n] = addr[n],
         nvsAddr' \in {nvsAddr, F.cand, NoAddress}, nvsAddr' = F.cand => F.pc \in Sub \/ nvsAddr' = nvsAddr,
         F'.pc \in Sub => \/ F.pc \in Sub /\ F'.cand = F.cand
                          \/ ~LastCheckRejects(F'.cand)
  PROVE  AllowedInv'
  <1>1. \A n \in LAN : ~LastCheckRejects(addr'[n])
    BY DEF AllowedInv
  <1>2. ~LastCheckRejects(nvsAddr')
    BY RequestAllowed DEF AllowedInv
  <1>3. F'.pc \in Sub => ~LastCheckRejects(F'.cand)
    BY DEF AllowedInv
  <1> QED
    BY <1>1, <1>2, <1>3 DEF AllowedInv, LastCheckRejects

LEMMA SubAllowed ==
  ASSUME OneCaller, BasicInv, AllowedInv, SetIp(Main) \/ Assign(Main) \/ SaveAddr(Main) \/ SaveCheck(Main)
  PROVE  AllowedInv'
  <1>1. F.pc \in Sub /\ ((\E l \in Sub : Goto(Main, l)) \/ (\E ok \in BOOLEAN : Return(Main, ok)))
    BY SetIpMoves, AssignMoves, SaveBasic DEF Sub
  <1>2. F'.pc \in Sub => F'.cand = F.cand
    BY <1>1, SubStep DEF BasicInv, TypeInv
  <1>3. CASE SetIp(Main)
    <2>1. addr' = addr /\ nvsAddr' = nvsAddr
      BY <1>3 DEF SetIp, nvsVars
    <2> QED
      BY <1>1, <1>2, <2>1, AllowedKept
  <1>4. CASE SaveAddr(Main) \/ SaveCheck(Main)
    <2>1. addr' = addr /\ nvsAddr' \in {nvsAddr, F.cand}
      BY <1>4, SaveBasic
    <2> QED
      BY <1>1, <1>2, <2>1, AllowedKept
  <1>5. CASE Assign(Main)
    <2>1. addr' = [addr EXCEPT ![F.netif] = F.cand] /\ nvsAddr' = nvsAddr
      BY <1>5, AssignMoves DEF Assign, nvsVars
    <2>2. \A n \in LAN : addr'[n] = addr[n] \/ addr'[n] = F.cand
      BY <2>1 DEF BasicInv, TypeInv, Netif
    <2>3. \A n \in LAN : ~LastCheckRejects(addr'[n])
      BY <1>1, <2>2 DEF AllowedInv
    <2>4. F'.pc \in Sub => ~LastCheckRejects(F'.cand)
      BY <1>1, <1>2 DEF AllowedInv
    <2> QED
      BY <2>1, <2>3, <2>4 DEF AllowedInv, LastCheckRejects
  <1> QED
    BY <1>3, <1>4, <1>5

LEMMA CreateNetifAllowed ==
  ASSUME OneCaller, EnoughSegments, BasicInv, AllowedInv, CreateNetif(Main)
  PROVE  AllowedInv'
  <1> DEFINE n == LanOrder[F.todo]
  <1>1. F.pc = "create" /\ F.todo <= Len(LanOrder) /\ ListAdd(n) /\ NextToCreate(Main)
        /\ addr' = [addr EXCEPT ![n] = RequestIp(n)] /\ nvsAddr' = nvsAddr
    BY DEF CreateNetif, F, Creating, nvsVars
  <1>2. n \in LAN
    BY <1>1, Listing
  <1>3. F'.pc = "create"
    <2>1. F' = [F EXCEPT !.pc = "create", !.todo = F.todo + 1] /\ F \in Frame
      BY <1>1, NextToCreateFrame, FrameType DEF BasicInv, TypeInv
    <2> QED
      BY <2>1 DEF Frame
  <1>4. ~LastCheckRejects(RequestIp(n))
    BY <1>2, RequestAllowed DEF Netif
  <1> HIDE DEF n
  <1>5. \A m \in LAN : addr'[m] = addr[m] \/ addr'[m] = RequestIp(n)
    BY <1>1, <1>2 DEF BasicInv, TypeInv, Netif
  <1>6. \A m \in LAN : ~LastCheckRejects(addr'[m])
    BY <1>4, <1>5 DEF AllowedInv
  <1> QED
    BY <1>1, <1>3, <1>6 DEF AllowedInv, LastCheckRejects, Sub

LEMMA CreateSoftapAllowed ==
  ASSUME OneCaller, EnoughSegments, BasicInv, AllowedInv, CreateSoftap(Main)
  PROVE  AllowedInv'
  <1>1. ~LastCheckRejects(RequestIp(Softap))
    BY IdleType, RequestAllowed DEF Netif
  <1>2. F'.pc \in Sub => ~LastCheckRejects(F'.cand)
    BY <1>1, CreateSoftapMoves DEF AllowedInv, Sub
  <1>3. addr' = addr /\ nvsAddr' = nvsAddr
    BY CreateSoftapMoves
  <1> QED
    BY <1>2, <1>3, AllowedKept

LEMMA CallerAllowed ==
  ASSUME OneCaller, EnoughSegments, BasicInv, AllowedInv,
         \/ SoftapSet(Main) \/ SoftapSetAgain(Main) \/ CreateWan(Main)
         \/ Update(Main) \/ Updated(Main) \/ Reallocate(Main) \/ PrefixDone(Main)
         \/ \E p \in Prefixes, save \in BOOLEAN : SetPrefix(Main, p, save)
         \/ CallUpdateAll(Main) \/ \E w \in WAN : HandleGotIp(w)
  PROVE  AllowedInv'
  <1>1. \A n \in LAN : ~LastCheckRejects(RequestIp(n))
    BY RequestAllowed DEF Netif
  <1>2. CASE SoftapSet(Main) \/ SoftapSetAgain(Main) \/ CreateWan(Main)
    <2>1. addr' = addr /\ nvsAddr' = nvsAddr /\ (F'.pc \in Sub => ~LastCheckRejects(F'.cand))
      BY <1>1, <1>2, SoftapSetMoves, SoftapSetAgainMoves, CreateWanMoves, IdleType DEF Sub
    <2> QED
      BY <2>1, AllowedKept
  <1>3. CASE Update(Main)
    <2>1. addr' = addr /\ nvsAddr' = nvsAddr /\ (F'.pc \in Sub => ~LastCheckRejects(F'.cand))
      BY <1>1, <1>3, UpdateMoves DEF Sub
    <2> QED
      BY <2>1, AllowedKept
  <1>4. CASE Updated(Main) \/ Reallocate(Main)
    <2>1. addr' = addr /\ nvsAddr' = nvsAddr /\ (F'.pc \in Sub => ~LastCheckRejects(F'.cand))
      BY <1>1, <1>4, UpdatedMoves, ReallocateMoves DEF Sub
    <2> QED
      BY <2>1, AllowedKept
  <1>5. CASE \/ PrefixDone(Main) \/ CallUpdateAll(Main) \/ \E w \in WAN : HandleGotIp(w)
             \/ \E p \in Prefixes, save \in BOOLEAN : SetPrefix(Main, p, save)
    <2>1. addr' = addr /\ nvsAddr' = nvsAddr /\ F'.pc \notin Sub
      BY <1>5, PrefixDoneBasic, CallUpdateAllBasic, HandleGotIpBasic, SetPrefixMoves DEF Sub
    <2> QED
      BY <2>1, AllowedKept
  <1> QED
    BY <1>2, <1>3, <1>4, <1>5

LEMMA CallSetIpInfoAllowed ==
  ASSUME OneCaller, CustomAllowed, BasicInv, AllowedInv, NEW n \in LAN, NEW s \in CustomSegments,
         NEW check \in BOOLEAN, NEW save \in BOOLEAN, CallSetIpInfo(Main, n, s, check, save)
  PROVE  AllowedInv'
  <1>1. addr' = addr /\ nvsAddr' = nvsAddr /\ F'.cand = s
    BY CallSetIpInfoMoves
  <1>2. ~LastCheckRejects(F'.cand)
    BY <1>1 DEF CustomAllowed
  <1> QED
    BY <1>1, <1>2, AllowedKept

LEMMA OtherAllowed ==
  ASSUME OneCaller, BasicInv, AllowedInv,
         \/ \E n \in LAN, check \in BOOLEAN :
               EraseIpInfo(Main, n, check) \/ SetConflictCheck(Main, n, check)
         \/ \E w \in WAN : WanLostIp(w)
         \/ \E w \in WAN, s \in WanSegments : WanGotIp(w, s)
         \/ UNCHANGED vars
  PROVE  AllowedInv'
  <1>1. task' = task /\ nvsAddr' \in {nvsAddr, NoAddress} /\ \A n \in LAN : addr'[n] = addr[n]
    <2>1. CASE \E n \in LAN, check \in BOOLEAN :
               EraseIpInfo(Main, n, check) \/ SetConflictCheck(Main, n, check)
      BY <2>1, PolicyBasic
    <2>2. ASSUME NEW w \in WAN, WanLostIp(w) \/ \E s \in WanSegments : WanGotIp(w, s)
          PROVE  task' = task /\ nvsAddr' = nvsAddr /\ \A n \in LAN : addr'[n] = addr[n]
      <3>1. /\ UNCHANGED <<nvsAddr, task>>
            /\ \A n \in Netif : n # w => addr'[n] = addr[n]
        BY <2>2, WanBasic
      <3>2. \A n \in LAN : n \in Netif /\ n # w
        BY BridgeNetifAssumption DEF Netif
      <3> QED
        BY <3>1, <3>2
    <2>3. CASE \E w \in WAN : WanLostIp(w)
      BY <2>2, <2>3
    <2>4. CASE \E w \in WAN, s \in WanSegments : WanGotIp(w, s)
      BY <2>2, <2>4
    <2>5. CASE UNCHANGED vars
      BY <2>5 DEF vars, nvsVars
    <2> QED
      BY <2>1, <2>3, <2>4, <2>5
  <1>2. F' = F
    BY <1>1 DEF F
  <1>3. \A n \in LAN : ~LastCheckRejects(addr'[n])
    BY <1>1 DEF AllowedInv
  <1>4. ~LastCheckRejects(nvsAddr') /\ (F'.pc \in Sub => ~LastCheckRejects(F'.cand))
    BY <1>1, <1>2, RequestAllowed DEF AllowedInv
  <1> QED
    BY <1>3, <1>4 DEF AllowedInv, LastCheckRejects

\* No LAN netif has an address that the last check rejects.
LEMMA AllowedStep ==
  ASSUME OneCaller, EnoughSegments, CustomAllowed, BasicInv, AllowedInv, [Next]_vars
  PROVE  AllowedInv'
  <1>1. CASE Reboot
    <2>1. addr' = [n \in Netif |-> NoAddress] /\ nvsAddr' = nvsAddr /\ F'.pc = "create"
      BY <1>1, RebootBasic
    <2>2. \A n \in LAN : ~LastCheckRejects(addr'[n])
      BY <2>1, RequestAllowed DEF Netif
    <2> QED
      BY <2>1, <2>2 DEF AllowedInv, LastCheckRejects, Sub
  <1>2. CASE UNCHANGED vars
    BY <1>2, OtherAllowed
  <1>3. CASE Next /\ ~Reboot
    BY <1>3, NextCases, CreateNetifAllowed, CreateSoftapAllowed, SubAllowed, CallerAllowed,
       CallSetIpInfoAllowed, OtherAllowed
  <1> QED
    BY <1>1, <1>2, <1>3
\* The WAN netif that conflict_update() is at, and whether its answer stands:
\* it still has the address it had then.
At == Head(F.wans)
Stands == addr[At] # NoAddress /\ At \notin pending

\* Behind it, no checked LAN netif has its segment, but for the one that is
\* being moved; and that one is being moved to another segment.
ResolvedInv ==
    Phase = "updated" =>
        /\ F.pc # "setip"
        /\ Stands => /\ \A n \in LAN : conflictCheck[n] /\ addr[n] = addr[At] =>
                                          F.pc = "assign" /\ n = F.netif
                     /\ F.pc = "assign" => F.cand # addr[At]

\* With one mask for all, to be in one network is to have one segment.
LEMMA OneMask ==
  ASSUME SameMask, BasicInv, NEW n \in LAN, NEW w \in WAN, addr[n] # NoAddress
  PROVE  SameNetwork(n, w) <=> addr[n] = addr[w]
  <1>1. addr[n] \in Nat /\ addr[w] \in Nat /\ Width[w] = 1
    BY BridgeNetifAssumption DEF BasicInv, TypeInv, Netif, Address, Segment, NoAddress, SameMask
  <1>2. \A a \in Nat : a \div 1 = a
    OBVIOUS
  <1>3. addr[n] \div Width[w] = addr[n] /\ addr[w] \div Width[w] = addr[w]
    BY <1>1, <1>2
  <1> QED
    BY <1>3 DEF SameNetwork

LEMMA AtType == ASSUME OneCaller, BasicInv, Phase \in {"update", "updated"} PROVE At \in WAN /\ F.wans # <<>>
  <1>1. F.wans \in Seq(WAN) /\ F.wans # <<>>
    BY FrameType DEF BasicInv, TypeInv, WansInv, Frame
  <1> QED
    BY <1>1 DEF At

\* If some netif of the list conflicts, then there is a first that does.
LEMMA FirstExists ==
  ASSUME BasicInv, NEW w, NEW n \in Range(list), Conflicting(n, w)
  PROVE  FirstConflict(w) # {}
  <1> DEFINE S == {i \in DOMAIN list : Conflicting(list[i], w)}
  <1>1. DOMAIN list = 1..Len(list) /\ Len(list) \in Nat
    BY DEF BasicInv, ListInv, Distinct
  <1>2. S \in SUBSET Nat /\ S # {}
    BY <1>1 DEF Range
  <1>3. PICK i \in S : \A r \in S : i <= r
    BY <1>2, LeastExists
  <1>4. \A j \in 1..(i - 1) : j \in DOMAIN list /\ ~(i <= j)
    BY <1>1, <1>3
  <1>5. \A j \in 1..(i - 1) : ~Conflicting(list[j], w)
    BY <1>3, <1>4
  <1> QED
    BY <1>3, <1>5 DEF FirstConflict

LEMMA UpdateResolved ==
  ASSUME OneCaller, EnoughSegments, SameMask, BasicInv, UniqueInv, PrefixInv, AllowedInv, Update(Main)
  PROVE  ResolvedInv'
  <1>1. /\ F.pc = "update" /\ Phase = "update"
        /\ conflictCheck' = conflictCheck /\ addr' = addr /\ pending' = pending /\ list' = list
    BY UpdateMoves
  <1>2. At \in WAN /\ Netif \subseteq Range(list) /\ \A n \in LAN : Served(n)
    BY <1>1, AtType, AllListed, AllServed DEF BasicInv, Making
  <1>3. \A n \in LAN : addr[n] # NoAddress
    BY <1>2, RangeType DEF Served, BasicInv, TypeInv
  <1>4. CASE F'.pc = "updated" /\ F'.wans = F.wans /\ (addr[At] = NoAddress \/ FirstConflict(At) = {})
    <2> SUFFICES ASSUME Stands', NEW n \in LAN, conflictCheck[n], addr[n] = addr[At] PROVE FALSE
      BY <1>1, <1>4 DEF ResolvedInv, At
    <2>1. addr[At] # NoAddress
      BY <1>1, <1>4 DEF Stands, At
    <2>2. Conflicting(n, At)
      BY <1>2, <1>3, OneMask DEF Conflicting
    <2> QED
      BY <1>2, <1>4, <2>1, <2>2, FirstExists DEF Netif
  <1>5. CASE F'.pc = "idle" /\ Phase' = "idle"
    BY <1>5 DEF ResolvedInv
  <1>6. CASE /\ F'.pc = "assign" /\ F'.wans = F.wans
             /\ \E i \in FirstConflict(At) :
                   /\ i \in DOMAIN list /\ list[i] \in LAN /\ F'.netif = list[i]
                   /\ RequestIp(list[i]) # NoAddress /\ F'.cand = RequestIp(list[i])
    <2>1. PICK i \in FirstConflict(At) :
                   /\ i \in DOMAIN list /\ list[i] \in LAN /\ F'.netif = list[i]
                   /\ RequestIp(list[i]) # NoAddress /\ F'.cand = RequestIp(list[i])
      BY <1>6
    <2>2. Conflicting(list[i], At)
      BY <2>1 DEF FirstConflict
    <2>3. SameNetwork(list[i], At)
      BY <2>1, <2>2 DEF Conflicting, AllowedInv
    <2>4. addr[list[i]] = addr[At]
      BY <1>2, <1>3, <2>1, <2>3, OneMask
    <2>5. \A n \in LAN : addr[n] = addr[At] => n = list[i]
      BY <1>3, <2>1, <2>4 DEF UniqueInv, SegmentsUnique
    <2>6. F'.cand # addr[At]
      <3>1. At \in Range(list) \ {list[i]}
        BY <1>2, <2>1, BridgeNetifAssumption DEF Netif
      <3> QED
        BY <2>1, <3>1, RequestedUnused DEF BasicInv, TypeInv
    <2>7. At' = At
      BY <1>6 DEF At
    <2> QED
      BY <1>1, <1>6, <2>1, <2>5, <2>6, <2>7 DEF ResolvedInv
  <1> QED
    BY <1>4, <1>5, <1>6, UpdateMoves DEF At

\* The netif that is moved gets another segment than the WAN netif's.
LEMMA AssignResolved ==
  ASSUME OneCaller, BasicInv, ResolvedInv, Assign(Main)
  PROVE  ResolvedInv'
  <1>1. /\ F.pc = "assign" /\ F.pc \in Sub /\ F.netif \in LAN /\ addr' = [addr EXCEPT ![F.netif] = F.cand]
        /\ conflictCheck' = conflictCheck /\ pending' = pending
    BY AssignMoves DEF Assign
  <1>2. Phase' = Phase /\ (Phase # "idle" => F'.wans = F.wans)
    BY AssignMoves, SubStep DEF BasicInv, TypeInv
  <1>3. F'.pc \notin {"setip", "assign"}
    <2>1. F \in Frame /\ F.ret \in Caller
      BY FrameType DEF BasicInv, TypeInv, Frame, Caller
    <2>2. CASE Goto(Main, "saveAddr")
      <3>1. F' = [F EXCEPT !.pc = "saveAddr"]
        BY <2>2, GotoFrame DEF BasicInv, TypeInv, Label
      <3> QED
        BY <2>1, <3>1, Changed
    <2>3. CASE Return(Main, TRUE)
      BY <2>3, ReturnTo DEF BasicInv, TypeInv, Caller
    <2> QED
      BY <2>2, <2>3 DEF Assign
  <1> SUFFICES ASSUME Phase = "updated", Stands'
               PROVE  \A n \in LAN : conflictCheck[n] => addr'[n] # addr'[At']
    BY <1>1, <1>2, <1>3 DEF ResolvedInv
  <1>4. At' = At /\ At \in WAN
    BY <1>2, AtType DEF At
  <1>5. addr'[At] = addr[At] /\ addr'[F.netif] = F.cand
        /\ \A n \in LAN : n # F.netif => addr'[n] = addr[n]
    BY <1>1, <1>4, BridgeNetifAssumption DEF BasicInv, TypeInv, Netif
  <1>6. Stands
    BY <1>1, <1>4, <1>5 DEF Stands
  <1> QED
    BY <1>1, <1>4, <1>5, <1>6 DEF ResolvedInv

\* No LAN netif changes, and the WAN netif's address stands only if it did.
LEMMA ResolvedKept ==
  ASSUME OneCaller, BasicInv, ResolvedInv, conflictCheck' = conflictCheck,
         \A n \in LAN : addr'[n] = addr[n],
         Phase' = "updated" =>
             /\ Phase = "updated" /\ F'.wans = F.wans /\ F'.pc # "setip" /\ F.pc # "assign"
             /\ F'.pc # "assign" /\ addr' = addr /\ pending' = pending
  PROVE  ResolvedInv'
  <1> SUFFICES ASSUME Phase' = "updated" PROVE ResolvedInv'
    BY DEF ResolvedInv
  <1>1. At' = At /\ (Stands' => Stands)
    BY DEF At, Stands
  <1> QED
    BY <1>1 DEF ResolvedInv

LEMMA SaveResolved ==
  ASSUME OneCaller, BasicInv, ResolvedInv, SaveAddr(Main) \/ SaveCheck(Main)
  PROVE  ResolvedInv'
  <1>1. F \in Frame /\ F.ret \in Caller /\ task \in [Task -> Frame]
    BY FrameType DEF BasicInv, TypeInv, Frame, Caller
  <1>2. F'.pc \notin {"setip", "assign"}
    <2>1. CASE Goto(Main, "saveCheck")
      <3>1. F' = [F EXCEPT !.pc = "saveCheck"]
        BY <1>1, <2>1, GotoFrame DEF Label
      <3> QED
        BY <1>1, <3>1, Changed
    <2>2. CASE Return(Main, TRUE)
      BY <1>1, <2>2, ReturnTo DEF Caller
    <2> QED
      BY <2>1, <2>2 DEF SaveAddr, SaveCheck
  <1>3. F.pc \in {"saveAddr", "saveCheck"} /\ F.pc \in Sub
        /\ conflictCheck' = conflictCheck /\ addr' = addr /\ pending' = pending
    BY SaveBasic DEF Sub
  <1>4. Phase' = Phase /\ (Phase # "idle" => F'.wans = F.wans)
    BY <1>1, <1>3, SaveBasic, SubStep
  <1> QED
    BY <1>2, <1>3, <1>4, ResolvedKept

\* An address a WAN netif has just got is pending; one it has lost is none.
LEMMA WanResolved ==
  ASSUME OneCaller, BasicInv, ResolvedInv, NEW w \in WAN,
         WanLostIp(w) \/ \E s \in WanSegments : WanGotIp(w, s)
  PROVE  ResolvedInv'
  <1>1. /\ conflictCheck' = conflictCheck /\ F' = F /\ Phase' = Phase /\ pending \subseteq pending'
        /\ \A n \in Netif : n # w => addr'[n] = addr[n]
        /\ addr'[w] = NoAddress \/ w \in pending'
    BY WanBasic, TaskKept
  <1>2. \A n \in LAN : addr'[n] = addr[n]
    BY <1>1, BridgeNetifAssumption DEF Netif
  <1> SUFFICES ASSUME Phase = "updated", Stands' PROVE ResolvedInv'
    BY <1>1 DEF ResolvedInv
  <1>3. At' = At /\ At \in WAN
    BY <1>1, AtType DEF At
  <1>4. At # w
    BY <1>1, <1>3 DEF Stands
  <1>5. addr'[At] = addr[At] /\ At \notin pending
    BY <1>1, <1>3, <1>4 DEF Stands, Netif
  <1>6. Stands
    BY <1>3, <1>5 DEF Stands
  <1> QED
    BY <1>1, <1>2, <1>3, <1>5, <1>6 DEF ResolvedInv

\* The steps outside conflict_update()
LEMMA OtherResolved ==
  ASSUME OneCaller, BasicInv, ResolvedInv,
         \/ CreateNetif(Main) \/ CreateSoftap(Main) \/ SoftapSet(Main) \/ SoftapSetAgain(Main)
         \/ CreateWan(Main) \/ SetIp(Main) \/ Updated(Main) \/ Reallocate(Main) \/ PrefixDone(Main)
         \/ \E n \in LAN, s \in CustomSegments, check, save \in BOOLEAN :
               CallSetIpInfo(Main, n, s, check, save)
         \/ \E n \in LAN, check \in BOOLEAN :
               EraseIpInfo(Main, n, check) \/ SetConflictCheck(Main, n, check)
         \/ \E p \in Prefixes, save \in BOOLEAN : SetPrefix(Main, p, save)
         \/ CallUpdateAll(Main)
         \/ \E w \in WAN : HandleGotIp(w)
         \/ Reboot
  PROVE  ResolvedInv'
  <1> SUFFICES Phase' # "updated"
    BY DEF ResolvedInv
  <1>1. CASE CreateNetif(Main)
    <2>1. F.pc = "create" /\ F.todo <= Len(LanOrder) /\ NextToCreate(Main) /\ F \in Frame
      BY <1>1, FrameType DEF CreateNetif, F, BasicInv, TypeInv
    <2>2. F' = [F EXCEPT !.pc = "create", !.todo = F.todo + 1]
      BY <2>1, NextToCreateFrame DEF BasicInv, TypeInv
    <2> QED
      BY <2>1, <2>2 DEF Frame, Phase, Sub
  <1>2. CASE CreateSoftap(Main) \/ SoftapSet(Main) \/ SoftapSetAgain(Main) \/ CreateWan(Main)
    BY <1>2, CreateSoftapMoves, SoftapSetMoves, SoftapSetAgainMoves, CreateWanMoves DEF Phase, Sub
  <1>3. CASE SetIp(Main)
    <2>1. F.pc = "setip" /\ Phase' = Phase
      BY <1>3, SetIpMoves, SubStep DEF BasicInv, TypeInv
    <2> QED
      BY <2>1 DEF ResolvedInv
  <1>4. CASE Updated(Main) \/ Reallocate(Main) \/ PrefixDone(Main) \/ Reboot
    BY <1>4, UpdatedMoves, ReallocateMoves, PrefixDoneBasic, RebootBasic
  <1>5. CASE \/ \E n \in LAN, s \in CustomSegments, check, save \in BOOLEAN :
                   CallSetIpInfo(Main, n, s, check, save)
             \/ \E p \in Prefixes, save \in BOOLEAN : SetPrefix(Main, p, save)
             \/ CallUpdateAll(Main)
             \/ \E w \in WAN : HandleGotIp(w)
    BY <1>5, CallSetIpInfoMoves, SetPrefixMoves, CallUpdateAllBasic, HandleGotIpBasic
  <1>6. CASE \E n \in LAN, check \in BOOLEAN :
               EraseIpInfo(Main, n, check) \/ SetConflictCheck(Main, n, check)
    <2>1. F.pc = "idle" /\ Phase' = Phase
      BY <1>6, PolicyBasic, TaskKept
    <2> QED
      BY <2>1 DEF Phase, Sub
  <1> QED
    BY <1>1, <1>2, <1>3, <1>4, <1>5, <1>6

LEMMA ResolvedStep ==
  ASSUME OneCaller, EnoughSegments, SameMask, BasicInv, UniqueInv, PrefixInv, AllowedInv, ResolvedInv,
         [Next]_vars
  PROVE  ResolvedInv'
  <1>1. CASE UNCHANGED vars
    BY <1>1 DEF vars, ResolvedInv, Stands, At, Phase, F
  <1>2. CASE Next
    BY <1>2, NextCases, UpdateResolved, AssignResolved, SaveResolved, WanResolved, OtherResolved
  <1> QED
    BY <1>1, <1>2

\* When conflict_update() has gone through a WAN netif, no LAN netif that is
\* checked for conflicts is in its network, unless the WAN netif has got
\* another address meanwhile.
THEOREM UpdatesResolve ==
  ASSUME OneCaller, SoftapFirst, EnoughSegments, SameMask, CustomAllowed
  PROVE  Spec => []UpdateResolves
  <1> DEFINE Inv == BasicInv /\ UniqueInv /\ PrefixInv /\ AllowedInv /\ ResolvedInv
  <1>1. Init => Inv
    <2> SUFFICES ASSUME Init PROVE AllowedInv /\ ResolvedInv
      BY InitBasic, Unaddressed, InitServes DEF Init
    <2>1. AllowedInv
      BY InitBasic, RequestAllowed DEF Init, AllowedInv, Sub, Netif
    <2> QED
      BY <2>1, InitBasic DEF ResolvedInv
  <1>2. Inv /\ [Next]_vars => Inv'
    BY BasicStep, UniqueStep, PrefixStep, AllowedStep, ResolvedStep
  <1>3. Inv => UpdateResolves
    <2> SUFFICES ASSUME Inv, F.pc = "updated", Stands, NEW n \in LAN, conflictCheck[n]
                 PROVE  ~SameNetwork(n, At)
      BY DEF UpdateResolves, F, Stands, At, OneCaller, Task
    <2>1. Phase = "updated"
      BY DEF Phase, Sub
    <2>2. At \in WAN /\ addr[n] # addr[At]
      BY <2>1, AtType DEF ResolvedInv
    <2>3. addr[n] # NoAddress
      BY <2>1, AllServed, RangeType DEF Served, BasicInv, TypeInv
    <2> QED
      BY <2>2, <2>3, OneMask
  <1> QED
    BY <1>1, <1>2, <1>3, PTL DEF Spec
=============================================================================
