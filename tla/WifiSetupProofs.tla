--------------------------- MODULE WifiSetupProofs ---------------------------
(***************************************************************************)
(* Theorems about WifiSetup, for every set of access points, all timeouts  *)
(* and every number of forms, updates and restarts.                        *)
(***************************************************************************)
EXTENDS WifiSetup, FiniteSetTheorems, TLAPS

-----------------------------------------------------------------------------
(* Firmware updates *)

\* The two slots: each is the other's other.
LEMMA Slots ==
  /\ \A s \in Slot : Other(s) \in Slot /\ Other(s) # s
  /\ \A s, t \in Slot : s = t \/ t = Other(s)
  <1>1. "ota_0" # "ota_1"
    OBVIOUS
  <1>2. Other("ota_0") = "ota_1" /\ Other("ota_1") = "ota_0"
    BY <1>1 DEF Other, Slot
  <1> QED
    BY <1>1, <1>2 DEF Slot

\* The images: their type, and the one that runs is whole.
OtaInv ==
    /\ boot \in Slot /\ running \in Slot
    /\ image \in [Slot -> {"whole", "part"}]
    /\ RestartBoots

\* Only an update and a restart touch the images.
LEMMA OtaFrame ==
  Next => \/ UNCHANGED <<boot, running, image>>
          \/ OtaBegin \/ OtaEnd \/ Restart
  <1> SUFFICES ASSUME Next PROVE UNCHANGED <<boot, running, image>> \/ OtaBegin \/ OtaEnd \/ Restart
    OBVIOUS
  <1>1. CASE JoinOk \/ LinkDown
    BY <1>1 DEF JoinOk, LinkDown, stationUnchanged, ota
  <1>2. CASE Dispatch
    BY <1>2 DEF Dispatch, OnDisconnected, OnGotIp, OnStaStart, OnCredFail, OnCredSuccess, OnEnd,
                eventUnchanged, ota
  <1>3. CASE AcceptResult \/ \E c \in Forms[app] : Post(c)
    BY <1>3 DEF AcceptResult, Post, httpdUnchanged, ota
  <1>4. CASE Applying
    BY <1>4 DEF Applying, Apply, Direct, Announce, Listen, Prepare, Filter, Scan, Pick, Skip, Connected,
                TimedOut, NextRound, ReleaseTimer, ReleaseGroup, Report, TellPhone, httpdUnchanged,
                filterUnchanged, ota
  <1>5. CASE OtaChunk \/ OtaFails
    BY <1>5 DEF OtaChunk, OtaFails
  <1>6. CASE TimerTask
    BY <1>6 DEF TimerTask, Command, Poll, Finish, StopTimer, Success, SetBits, timerUnchanged, ota
  <1>7. CASE Main
    BY <1>7 DEF Main, MainWeb, MainBegin, MainProvisioned, MainStart, MainCreate, MainArm, mainUnchanged, ota
  <1>8. CASE Expire \/ ExpirePost \/ (\E c \in AP : Credentials(c)) \/ MgrStop \/ MgrEnd
    BY <1>8 DEF Expire, ExpirePost, Credentials, MgrStop, MgrEnd, provUnchanged, ota
  <1>9. CASE PowerCycle \/ Panic
    BY <1>9 DEF PowerCycle, Panic
  <1> QED
    BY <1>1, <1>2, <1>3, <1>4, <1>5, <1>6, <1>7, <1>8, <1>9 DEF Next

LEMMA OtaInvHolds == Spec => []OtaInv
  <1>1. Init => OtaInv
    BY DEF Init, OtaInv, RestartBoots, Slot
  <1>2. OtaInv /\ [Next]_vars => OtaInv'
    <2> SUFFICES ASSUME OtaInv, [Next]_vars PROVE OtaInv'
      OBVIOUS
    <2> USE DEF OtaInv, RestartBoots
    <2>1. CASE OtaBegin
      BY <2>1, Slots DEF OtaBegin, Update
    <2>2. CASE OtaEnd
      BY <2>2, Slots DEF OtaEnd, Update
    <2>3. CASE Restart
      <3>1. running' \in Slot /\ image[running'] = "whole"
        BY <2>3, Slots DEF Restart
      <3> QED
        BY <2>3, <3>1 DEF Restart
    <2>4. CASE UNCHANGED <<boot, running, image>>
      BY <2>4
    <2> QED
      BY <2>1, <2>2, <2>3, <2>4, OtaFrame DEF vars, ota
  <1> QED
    BY <1>1, <1>2, PTL DEF Spec

\* The slot the firmware runs from stays complete through any sequence of
\* updates that fail, succeed or are cut off, and of restarts (ota_post_handler()).
THEOREM AlwaysBootable == Spec => []RestartBoots
  <1>1. OtaInv => RestartBoots
    BY DEF OtaInv
  <1> QED
    BY <1>1, OtaInvHolds, PTL

-----------------------------------------------------------------------------
(* The end of provisioning *)

Event == {"got_ip", "disconnected", "cred_fail", "cred_success", "end", "sta_start"}

NoEnd(s) == \A i \in 1..Len(s) : s[i] # "end"

\* A queue without "end" stays so while other events join it ...
LEMMA NoEndAppend ==
  ASSUME NEW s \in Seq(Event), NEW e \in Event
  PROVE  /\ Append(s, e) \in Seq(Event)
         /\ NoEnd(s) /\ e # "end" => NoEnd(Append(s, e))
  BY DEF NoEnd

\* ... and when its head leaves, which is not an "end".
LEMMA NoEndTail ==
  ASSUME NEW s \in Seq(Event), s # <<>>
  PROVE  /\ Tail(s) \in Seq(Event) /\ Head(s) \in Event
         /\ NoEnd(s) => NoEnd(Tail(s)) /\ Head(s) # "end"
  <1>1. Tail(s) \in Seq(Event) /\ Head(s) \in Event
    OBVIOUS
  <1>2. ASSUME NoEnd(s) PROVE NoEnd(Tail(s)) /\ Head(s) # "end"
    <2>1. Len(Tail(s)) = Len(s) - 1 /\ Len(s) \in Nat \ {0}
      OBVIOUS
    <2>2. \A i \in 1..Len(Tail(s)) : Tail(s)[i] = s[i + 1] /\ i + 1 \in 1..Len(s)
      BY <2>1
    <2>3. NoEnd(Tail(s))
      BY <1>2, <2>2 DEF NoEnd
    <2>4. 1 \in 1..Len(s) /\ Head(s) = s[1]
      BY <2>1
    <2> QED
      BY <1>2, <2>3, <2>4 DEF NoEnd
  <1> QED
    BY <1>1, <1>2

\* Until app_main() has armed the timer no end can come, neither from the
\* timer nor from the manager, who has no credentials; and whoever has deleted
\* the timer has also put an end to what the handler reacts to.
DeleteInv ==
    /\ events \in Seq(Event)
    /\ main \in {"web", "begin", "status", "start", "create", "arm", "done"}
    /\ main \notin {"arm", "done"} => ptimer = "none"
    /\ main = "arm" => ptimer = "created"
    /\ main # "done" => /\ cred = "none" /\ mgr \notin {"stopping", "stopped"}
                        /\ pcb = "idle" /\ NoEnd(events)
    /\ \/ deletes = 0
       \/ deletes = 1 /\ ptimer = "deleted" /\ ~wifi_prov_status /\ main = "done"

\* What the station, the web server and the timer task do leaves provisioning alone.
LEMMA ProvFrame ==
  ASSUME \/ JoinOk \/ LinkDown \/ AcceptResult \/ Applying \/ TimerTask
         \/ OtaBegin \/ OtaChunk \/ OtaFails \/ OtaEnd
         \/ \E c \in Forms[app] : Post(c)
  PROVE  /\ UNCHANGED <<main, wifi_prov_status, mgr, cred, ptimer, pcb, deletes>>
         /\ events' \in {events, Append(events, "got_ip"), Append(events, "disconnected")}
  <1>1. CASE JoinOk \/ LinkDown
    BY <1>1 DEF JoinOk, LinkDown, stationUnchanged, prov
  <1>2. CASE AcceptResult \/ \E c \in Forms[app] : Post(c)
    BY <1>2 DEF AcceptResult, Post, httpdUnchanged, prov, station
  <1>3. CASE Applying
    <2>1. CASE Direct \/ Prepare \/ Pick
      BY <2>1 DEF Direct, Prepare, Pick, WifiConnect, Disconnected, httpdUnchanged, prov
    <2>2. CASE ~(Direct \/ Prepare \/ Pick)
      BY <1>3, <2>2 DEF Applying, Apply, Announce, Listen, Filter, Scan, Skip, Connected, TimedOut, NextRound,
           ReleaseTimer, ReleaseGroup, Report, TellPhone, httpdUnchanged, filterUnchanged, prov, station
    <2> QED
      BY <2>1, <2>2
  <1>4. CASE OtaBegin \/ OtaChunk \/ OtaFails \/ OtaEnd
    BY <1>4 DEF OtaBegin, OtaChunk, OtaFails, OtaEnd, otaUnchanged, prov, station
  <1>5. CASE TimerTask
    BY <1>5 DEF TimerTask, Command, Poll, Finish, StopTimer, Success, SetBits, timerUnchanged, prov, station
  <1> QED
    BY <1>1, <1>2, <1>3, <1>4, <1>5

LEMMA DeleteInvHolds == Spec => []DeleteInv
  <1>1. Init => DeleteInv
    BY DEF Init, Start, DeleteInv, NoEnd, Event
  <1>2. DeleteInv /\ [Next]_vars => DeleteInv'
    <2> SUFFICES ASSUME DeleteInv, [Next]_vars PROVE DeleteInv'
      OBVIOUS
    <2> USE DEF DeleteInv
    <2>0. /\ {"got_ip", "disconnected", "cred_fail", "cred_success", "end", "sta_start"} = Event
          /\ events \in Seq(Event)
      BY DEF Event
    <2>1. CASE \/ JoinOk \/ LinkDown \/ AcceptResult \/ Applying \/ TimerTask
               \/ OtaBegin \/ OtaChunk \/ OtaFails \/ OtaEnd
               \/ \E c \in Forms[app] : Post(c)
      <3>1. /\ UNCHANGED <<main, wifi_prov_status, mgr, cred, ptimer, pcb, deletes>>
            /\ events' \in {events, Append(events, "got_ip"), Append(events, "disconnected")}
        BY <2>1, ProvFrame
      <3>2. events' \in Seq(Event) /\ (NoEnd(events) => NoEnd(events'))
        BY <3>1, <2>0, NoEndAppend
      <3> QED
        BY <3>1, <3>2
    <2>2. CASE Dispatch
      <3> DEFINE rest == Tail(events)
      <3>1. /\ rest \in Seq(Event) /\ (NoEnd(events) => NoEnd(rest) /\ Head(events) # "end")
            /\ \A e \in Event : /\ Append(rest, e) \in Seq(Event)
                                /\ NoEnd(rest) /\ e # "end" => NoEnd(Append(rest, e))
        BY <2>2, <2>0, NoEndTail, NoEndAppend DEF Dispatch
      <3>2. UNCHANGED <<main, pcb>>
        BY <2>2 DEF Dispatch, OnDisconnected, OnGotIp, OnStaStart, OnCredFail, OnCredSuccess, OnEnd, eventUnchanged
      <3> HIDE DEF rest
      <3>3. CASE OnDisconnected
        BY <3>1, <3>2, <3>3, <2>0 DEF OnDisconnected, rest
      <3>4. CASE OnGotIp
        BY <3>1, <3>2, <3>4, <2>0 DEF OnGotIp, rest
      <3>5. CASE OnStaStart
        BY <3>1, <3>2, <3>5, <2>0 DEF OnStaStart, rest
      <3>6. CASE OnCredFail
        <4>1. events' \in {rest, Append(rest, "disconnected")}
          BY <3>6 DEF OnCredFail, rest, Disconnected
        <4>2. cred' \in {cred, "none"} /\ UNCHANGED <<wifi_prov_status, mgr, ptimer, deletes>>
          BY <3>6 DEF OnCredFail
        <4> QED
          BY <3>1, <3>2, <4>1, <4>2, <2>0
      <3>7. CASE OnCredSuccess
        BY <3>1, <3>2, <3>7, <2>0 DEF OnCredSuccess, rest
      <3>8. CASE OnEnd
        <4>1. main = "done"
          BY <3>1, <3>8 DEF OnEnd
        <4>2. events' \in {rest, Append(rest, "end")}
          BY <3>8 DEF OnEnd, rest
        <4>3. events' \in Seq(Event)
          BY <3>1, <4>2, <2>0
        <4>4. CASE ProvIgnores
          BY <3>2, <3>8, <4>1, <4>3, <4>4 DEF OnEnd, ProvIgnores
        <4>5. CASE ~ProvIgnores
          <5>1. deletes = 0
            BY <4>5 DEF ProvIgnores
          <5> QED
            BY <3>2, <3>8, <4>1, <4>3, <4>5, <5>1 DEF OnEnd
        <4> QED
          BY <4>4, <4>5
      <3> QED
        BY <2>2, <3>3, <3>4, <3>5, <3>6, <3>7, <3>8 DEF Dispatch
    <2>3. CASE Main
      <3>1. CASE MainWeb \/ MainBegin \/ MainProvisioned \/ MainCreate \/ MainArm
        BY <3>1 DEF MainWeb, MainBegin, MainProvisioned, MainCreate, MainArm, ArmTimer, station, prov
      <3>2. CASE MainStart
        <4>1. events' \in {events, Append(events, "sta_start")}
          BY <3>2 DEF MainStart
        <4>2. events' \in Seq(Event) /\ (NoEnd(events) => NoEnd(events'))
          BY <4>1, <2>0, NoEndAppend
        <4> QED
          BY <3>2, <4>2 DEF MainStart
      <3> QED
        BY <2>3, <3>1, <3>2 DEF Main
    <2>4. CASE Expire \/ MgrStop
      BY <2>4 DEF Expire, MgrStop, provUnchanged, station
    <2>5. CASE ExpirePost \/ MgrEnd
      <3>1. events' \in Seq(Event)
        BY <2>5, <2>0, NoEndAppend DEF ExpirePost, MgrEnd
      <3> QED
        BY <2>5, <3>1 DEF ExpirePost, MgrEnd, provUnchanged
    <2>6. ASSUME NEW c \in AP, Credentials(c) PROVE DeleteInv'
      <3>1. events' \in Seq(Event)
        BY <2>6, <2>0, NoEndAppend DEF Credentials, WifiConnect, Disconnected
      <3> QED
        BY <2>6, <3>1 DEF Credentials, provUnchanged
    <2>7. CASE PowerCycle \/ Panic
      <3>1. <<>> \in Seq(Event) /\ NoEnd(<<>>)
        BY DEF NoEnd
      <3> QED
        BY <2>7, <3>1 DEF PowerCycle, Panic, Restart
    <2>8. CASE UNCHANGED vars
      BY <2>8 DEF vars, station, prov
    <2> QED
      BY <2>1, <2>2, <2>3, <2>4, <2>5, <2>6, <2>7, <2>8 DEF Next
  <1> QED
    BY <1>1, <1>2, PTL DEF Spec

\* NETWORK_PROV_END comes from the timer's callback and from the manager it has
\* stopped, in either order; wifi_prov_status, which the first of them clears,
\* keeps the handler from deleting the timer twice (wifi_prov_mgr.c).
THEOREM TimerDeletedOnce == Spec => []OneDelete
  <1>1. DeleteInv => OneDelete
    BY DEF DeleteInv, OneDelete
  <1> QED
    BY <1>1, DeleteInvHolds, PTL

-----------------------------------------------------------------------------
(* The web server's attempts *)

\* The scan filter's variables are a record of these fields.
ScanShape ==
    /\ sf = [avail |-> sf.avail, max_try |-> sf.max_try, count |-> sf.count, last_scan |-> sf.last_scan,
             list |-> sf.list, failed |-> sf.failed, ok |-> sf.ok, phone |-> sf.phone, phase |-> sf.phase]
    /\ sf.count \in Nat /\ sf.last_scan \in BOOLEAN /\ sf.ok \in BOOLEAN

\* The last scan leaves time for one attempt, and only an attempt shortens the list.
HeadInv ==
    /\ httpd = "prepare" => sf.avail \in Int /\ ~sf.last_scan
    /\ httpd \in {"scan", "pick", "wait", "refused", "next"} =>
          /\ sf.avail \in Nat /\ sf.max_try = sf.avail \div TRY_CONNECT_TIMEOUT
          /\ sf.last_scan => sf.avail <= LAST_SCAN_TIMEOUT
    /\ httpd = "pick" /\ sf.count = 0 => sf.list # <<>>
    /\ httpd \in {"wait", "refused"} => sf.count > 0
    /\ timeout \in Nat

\* Whatever says that the station is connected goes back to an event handled
\* since the form was applied, and nothing of it outlives the attempt.
OkInv ==
    /\ flag \/ cb \in {"OK", "set"} \/ group = "set" \/ sf.ok => heard
    /\ httpd \notin {"scan", "pick", "wait", "refused", "next", "timer", "group"} => group = "none"
    /\ httpd \notin {"scan", "pick", "wait", "refused", "next", "timer", "group", "report"} => ~sf.ok
    /\ status = "OK" /\ httpd \notin {"direct", "announce", "prepare"} => heard

WebInv == ScanShape /\ HeadInv /\ OkInv

LEMMA WebInit == Init => WebInv
  BY WifiSetupAssumption DEF Init, Start, WebInv, ScanShape, HeadInv, OkInv, NoScan

\* A list a scan returns is not empty.
LEMMA ScansNotEmpty == \A l \in Scans : l # <<>>
  <1> SUFFICES ASSUME NEW n \in 1..Cardinality(AP), NEW l \in [1..n -> AP] PROVE l # <<>>
    BY DEF Scans
  <1>1. Cardinality(AP) \in Nat
    BY WifiSetupAssumption, FS_CardinalityType
  <1>2. 1 \in DOMAIN l
    BY <1>1
  <1> QED
    BY <1>2

\* In less time than two attempts take there is one attempt, or none.
LEMMA OneAttempt ==
  ASSUME NEW T \in Nat \ {0}, NEW a \in Nat, a < 2 * T
  PROVE  a \div T <= 1
  OBVIOUS

\* A round that takes some of the time, but not all, leaves some.
LEMMA TimeLeft ==
  ASSUME NEW a \in Nat, NEW d \in 0..a, d # a
  PROVE  a - d \in Nat /\ a - d <= a
  OBVIOUS

\* The timeouts are natural numbers.
LEMMA Timeouts ==
  /\ TRY_CONNECT_TIMEOUT \in Nat \ {0} /\ LAST_SCAN_TIMEOUT \in Nat /\ BROADCAST_TIME \in Nat
  /\ WEB_RECONNECT_TIMEOUT \in Nat /\ WIFI_MAX_RECONNECT_TIMEOUT \in Nat
  /\ LAST_SCAN_TIMEOUT < 2 * TRY_CONNECT_TIMEOUT
  BY WifiSetupAssumption

\* Of the filter's variables only the result is left.
LEMMA Ended ==
  ASSUME ScanShape, FilterEnds
  PROVE  ScanShape' /\ sf'.ok = sf.ok /\ httpd' = "timer"
  BY DEF ScanShape, FilterEnds, NoScan

\* Steps that leave the attempt alone, or only add what was heard.
LEMMA WebFrame ==
  ASSUME WebInv,
         \/ JoinOk \/ LinkDown \/ Dispatch \/ Main
         \/ OtaChunk \/ Expire \/ ExpirePost \/ MgrStop \/ MgrEnd
         \/ \E c \in AP : Credentials(c)
  PROVE  WebInv'
  <1> USE DEF WebInv, ScanShape, HeadInv, OkInv
  <1>1. CASE JoinOk \/ LinkDown
    BY <1>1 DEF JoinOk, LinkDown, stationUnchanged, timerTask, result, history
  <1>2. CASE Dispatch
    BY <1>2 DEF Dispatch, OnDisconnected, OnGotIp, GotIp, OnStaStart, OnCredFail, OnCredSuccess, OnEnd,
                eventUnchanged, timerTask
  <1>3. CASE OtaChunk
    BY <1>3 DEF OtaChunk, otaUnchanged, timerTask, result, history
  <1>4. CASE Main
    <2>1. /\ UNCHANGED <<httpd, sf, group, cb, status, flag, heard>>
          /\ timeout' \in {timeout, WEB_RECONNECT_TIMEOUT}
      BY <1>4 DEF Main, MainWeb, MainBegin, MainProvisioned, MainStart, MainCreate, MainArm,
                  mainUnchanged, timerTask, result, history
    <2> QED
      BY <2>1, Timeouts
  <1>5. CASE Expire \/ ExpirePost \/ MgrStop \/ MgrEnd \/ \E c \in AP : Credentials(c)
    BY <1>5 DEF Expire, ExpirePost, Credentials, MgrStop, MgrEnd, provUnchanged, timerTask, result, history
  <1> QED
    BY <1>1, <1>2, <1>3, <1>4, <1>5

LEMMA WebNext == WebInv /\ [Next]_vars => WebInv'
  <1> SUFFICES ASSUME WebInv, [Next]_vars PROVE WebInv'
    OBVIOUS
  <1> USE DEF WebInv, ScanShape, HeadInv, OkInv, httpdUnchanged, station, timerTask, history, result
  <1>1. CASE AcceptResult \/ (\E c \in Forms[app] : Post(c))
    BY <1>1 DEF AcceptResult, Post
  <1>2. ASSUME NEW udp \in BOOLEAN, Apply(udp) PROVE WebInv'
    <2>1. CASE httpd' = "direct"
      BY <1>2, <2>1 DEF Apply, Slept, ClearFlag
    <2>2. CASE httpd' # "direct"
      <3>1. PICK found \in BOOLEAN :
              sf' = [NoScan EXCEPT !.phone = found, !.avail = timeout - BROADCAST_TIME]
        BY <1>2, <2>2 DEF Apply
      <3>4. ScanShape' /\ sf'.ok = FALSE /\ sf'.last_scan = FALSE /\ sf'.avail = timeout - BROADCAST_TIME
        BY <3>1 DEF NoScan
      <3>2. sf'.avail \in Int
        BY <3>4, Timeouts
      <3>3. httpd' = "prepare"
        BY <1>2, <2>2 DEF Apply
      <3> QED
        BY <1>2, <3>2, <3>3, <3>4 DEF Apply, Slept, ClearFlag
    <2> QED
      BY <2>1, <2>2
  <1>3. CASE Direct \/ Announce \/ Listen
    BY <1>3 DEF Direct, Announce, Listen, NewTimer
  <1>4. CASE Prepare
    <2>1. CASE sf.avail <= 0
      <3>1. FilterEnds /\ httpd = "prepare" /\ group' = "clear" /\ status' = "CONNECTING"
            /\ UNCHANGED <<flag, cb, heard, timeout>>
        BY <1>4, <2>1 DEF Prepare
      <3>2. ScanShape' /\ sf'.ok = sf.ok /\ httpd' = "timer"
        BY <3>1, Ended
      <3> QED
        BY <3>1, <3>2
    <2>2. CASE ~(sf.avail <= 0)
      <3>1. sf' = [sf EXCEPT !.max_try = sf.avail \div TRY_CONNECT_TIMEOUT] /\ httpd' = "scan"
        BY <1>4, <2>2 DEF Prepare
      <3>2. ScanShape'
        BY <3>1
      <3>3. HeadInv'
        BY <1>4, <3>1, <2>2, Timeouts DEF Prepare
      <3>4. OkInv'
        BY <1>4, <3>1 DEF Prepare, NewTimer
      <3> QED
        BY <3>2, <3>3, <3>4
    <2> QED
      BY <2>1, <2>2
  <1>5. CASE Scan
    <2> USE <1>5 DEF Scan, filterUnchanged
    <2>1. CASE httpd' = "timer"
      <3>1. FilterEnds
        BY <2>1
      <3>2. ScanShape' /\ sf'.ok = sf.ok
        BY <3>1, Ended
      <3> QED
        BY <2>1, <3>2
    <2>2. CASE httpd' # "timer"
      <3>1. PICK l \in Scans :
              sf' = [sf EXCEPT !.last_scan = @ \/ LastScan(sf.avail), !.count = 0, !.list = l, !.phase = "match"]
        BY <2>2 DEF FilterEnds
      <3>2. httpd' = "pick"
        BY <2>2 DEF FilterEnds
      <3>3. l # <<>>
        BY ScansNotEmpty
      <3>4. ScanShape'
        BY <3>1 DEF LastScan
      <3>5. HeadInv'
        BY <3>1, <3>2, <3>3 DEF LastScan
      <3>6. OkInv'
        BY <2>2, <3>1, <3>2
      <3> QED
        BY <3>4, <3>5, <3>6
    <2> QED
      BY <2>1, <2>2
  <1>6. CASE Pick
    BY <1>6 DEF Pick
  <1>7. CASE Skip
    BY <1>7 DEF Skip, filterUnchanged
  <1>8. CASE Connected
    <2> USE <1>8 DEF Connected, PhaseOver, filterUnchanged
    <2>1. ScanShape'
      OBVIOUS
    <2>2. HeadInv'
      OBVIOUS
    <2>3. OkInv'
      OBVIOUS
    <2> QED
      BY <2>1, <2>2, <2>3
  <1>9. CASE TimedOut
    <2> USE <1>9 DEF TimedOut, PhaseOver, filterUnchanged
    <2>1. ScanShape'
      OBVIOUS
    <2>2. HeadInv'
      OBVIOUS
    <2>3. OkInv'
      OBVIOUS
    <2> QED
      BY <2>1, <2>2, <2>3
  <1>10. CASE NextRound
    <2>0. /\ UNCHANGED <<flag, cb, group, heard, status, timeout>>
          /\ httpd = "next" /\ httpd' \in {"timer", "scan"}
      BY <1>10 DEF NextRound, FilterEnds, filterUnchanged
    <2>1. CASE httpd' = "timer"
      <3>1. FilterEnds
        BY <1>10, <2>1 DEF NextRound
      <3>2. ScanShape' /\ sf'.ok = sf.ok
        BY <3>1, Ended
      <3> QED
        BY <2>0, <2>1, <3>2
    <2>2. CASE httpd' = "scan"
      <3>1. PICK d \in 0..sf.avail :
              /\ d # 0 /\ d # sf.avail
              /\ sf' = [sf EXCEPT !.list = <<>>, !.avail = @ - d,
                                  !.max_try = (sf.avail - d) \div TRY_CONNECT_TIMEOUT]
        BY <1>10, <2>2 DEF NextRound, FilterEnds
      <3>2. sf.avail - d \in Nat /\ sf.avail - d <= sf.avail /\ sf.avail \in Nat
        <4>1. sf.avail \in Nat
          BY <2>0
        <4> QED
          BY <3>1, <4>1, TimeLeft
      <3>3. /\ sf'.avail = sf.avail - d /\ sf'.last_scan = sf.last_scan /\ sf'.ok = sf.ok
            /\ sf'.max_try = (sf.avail - d) \div TRY_CONNECT_TIMEOUT
            /\ ScanShape'
        BY <3>1
      <3>4. sf'.last_scan => sf'.avail <= LAST_SCAN_TIMEOUT
        <4> SUFFICES ASSUME sf'.last_scan PROVE sf'.avail <= LAST_SCAN_TIMEOUT
          OBVIOUS
        <4>1. sf.avail <= LAST_SCAN_TIMEOUT
          BY <2>0, <3>3
        <4> QED
          BY <3>2, <3>3, <4>1, Timeouts
      <3> QED
        BY <2>0, <2>2, <3>2, <3>3, <3>4
    <2> QED
      BY <2>0, <2>1, <2>2
  <1>11. CASE ReleaseTimer \/ ReleaseGroup \/ Report \/ TellPhone
    <2>1. CASE ReleaseTimer \/ ReleaseGroup \/ TellPhone
      BY <1>11, <2>1 DEF ReleaseTimer, ReleaseGroup, TellPhone
    <2>2. CASE Report
      <3>1. ScanShape' /\ ~sf'.ok
        BY <2>2 DEF Report, NoScan
      <3> QED
        BY <2>2, <3>1 DEF Report
    <2> QED
      BY <1>11, <2>1, <2>2
  <1>12. CASE OtaBegin \/ OtaFails \/ OtaEnd
    BY <1>12 DEF OtaBegin, OtaFails, OtaEnd, otaUnchanged
  <1>13. CASE TimerTask
    BY <1>13 DEF TimerTask, Command, Poll, Finish, StopTimer, Success, SetBits, timerUnchanged
  <1>14. CASE PowerCycle \/ Panic
    <2>1. Restart
      BY <1>14 DEF PowerCycle, Panic
    <2>2. ScanShape' /\ ~sf'.ok
      BY <2>1 DEF Restart, NoScan
    <2> QED
      BY <2>1, <2>2, Timeouts DEF Restart
  <1>15. CASE UNCHANGED vars
    BY <1>15 DEF vars
  <1> QED
    BY <1>1, <1>2, <1>3, <1>4, <1>5, <1>6, <1>7, <1>8, <1>9, <1>10, <1>11, <1>12, <1>13, <1>14, <1>15,
       WebFrame DEF Next, Applying, Filter

LEMMA WebInvHolds == Spec => []WebInv
  BY WebInit, WebNext, PTL DEF Spec

\* "OK" is never reported on the strength of an address the station had before
\* the form was applied, whatever the driver, the timers and the user do.
THEOREM OkIsFresh == Spec => []OkNeedsGotIp
  <1>1. WebInv => OkNeedsGotIp
    BY DEF WebInv, OkInv, OkNeedsGotIp
  <1> QED
    BY <1>1, WebInvHolds, PTL

\* esp_web_start_scan_filter() reads the first entry of its list by signal
\* strength only where no attempt has taken an entry away: the last scan is one
\* attempt long because LAST_SCAN_TIMEOUT is less than two of them.
THEOREM ListNotEmpty == Spec => []HeadExists
  <1>1. WebInv => HeadExists
    <2> SUFFICES ASSUME WebInv, httpd = "pick", sf.phase = "rssi", Enters PROVE sf.list # <<>>
      BY DEF HeadExists
    <2>1. sf.last_scan /\ sf.count < sf.max_try
      BY DEF Enters
    <2>2. sf.avail \in Nat /\ sf.avail < 2 * TRY_CONNECT_TIMEOUT
      BY <2>1, Timeouts DEF WebInv, HeadInv
    <2>5. sf.max_try = sf.avail \div TRY_CONNECT_TIMEOUT
      BY DEF WebInv, HeadInv
    <2>3. sf.max_try <= 1
      BY <2>2, <2>5, OneAttempt, Timeouts
    <2>4. sf.max_try \in Int
      BY <2>2, <2>5, Timeouts
    <2> QED
      BY <2>1, <2>3, <2>4 DEF WebInv, ScanShape, HeadInv
  <1> QED
    BY <1>1, WebInvHolds, PTL

-----------------------------------------------------------------------------
(* The timers of the attempts *)

Timer == [fn : {"status", "success"}, state : {"created", "running", "stopped", "deleted"}]

TimerTypes ==
    /\ timers \in Seq(Timer) /\ handle \in 0..Len(timers) /\ connect_count \in Nat \ {0}
    /\ cb \in {"idle", "OK", "FAIL", "stop", "drain", "set"}
    /\ status \in {"NOT_START", "CONNECTING", "FAIL", "OK"}
    /\ httpd \in {"idle", "delay", "direct", "announce", "listen", "prepare", "scan", "pick", "wait", "refused", "next",
                  "timer", "group", "report", "udp", "ota"}

Cmd(c, i) == [cmd |-> c, id |-> i]

\* Timer i is the only one that is not deleted, and the commands q wait.
Only(i, fn, state, q) ==
    /\ i \in 1..Len(timers) /\ timers[i] = [fn |-> fn, state |-> state]
    /\ \A j \in 1..Len(timers) : j # i => timers[j].state = "deleted"
    /\ cmds = q

\* All timers are deleted and no command waits; one is about to start; it runs;
\* it is about to be deleted.
Quiet == (\A j \in 1..Len(timers) : timers[j].state = "deleted") /\ cmds = <<>>
Starting(i, fn) == Only(i, fn, "created", <<Cmd("start", i)>>)
Going(i, fn)    == Only(i, fn, "running", <<>>)
Ending(i, fn)   == \/ Only(i, fn, "created", <<Cmd("start", i), Cmd("stop", i), Cmd("delete", i)>>)
                   \/ Only(i, fn, "running", <<Cmd("stop", i), Cmd("delete", i)>>)
                   \/ Only(i, fn, "stopped", <<Cmd("delete", i)>>)

\* The timer of a scan has been released, or there is none.
Released ==
    /\ Quiet \/ \E i \in 1..Len(timers) : Ending(i, "success")
    /\ cb \in {"idle", "set"} /\ connect_count = 1

\* The timer of a connection without a scan waits or polls, and ends by itself.
Polling ==
    \/ Starting(handle, "status") /\ cb = "idle" /\ connect_count = 1
    \/ Going(handle, "status") /\ cb \in {"idle", "OK", "FAIL"}
Stopping ==
    /\ connect_count = 1
    /\ \/ Going(handle, "status") /\ cb = "stop"
       \/ Ending(handle, "status") /\ cb = "drain"

\* Where the HTTP server's task is, what is reported and which timer there is
\* go together.  An attempt begins when the one before it has left no timer.
Attempt ==
    /\ httpd \in {"direct", "announce", "listen", "prepare"} =>
          Quiet /\ cb = "idle" /\ connect_count = 1
    /\ httpd \in {"listen", "scan", "pick", "wait", "refused", "next", "timer"} => status = "CONNECTING"
    /\ httpd \in {"scan", "pick", "wait", "refused", "next", "timer"} =>
          /\ Starting(handle, "success") \/ Going(handle, "success")
          /\ cb \in {"idle", "set"} /\ connect_count = 1
    /\ httpd \in {"group", "report", "udp"} => Released
    /\ httpd \in {"delay", "udp"} => status # "CONNECTING"
    /\ httpd \in {"idle", "delay", "ota"} =>
          IF status = "CONNECTING" THEN Polling ELSE Released \/ Stopping

\* A command changes the state of the one timer.
LEMMA OnlySteps ==
  ASSUME TimerTypes, NEW i, NEW fn, NEW s, NEW q, Only(i, fn, s, q),
         NEW t \in {"created", "running", "stopped", "deleted"}, NEW rest,
         timers' = [timers EXCEPT ![i].state = t], cmds' = rest
  PROVE  /\ timers' \in Seq(Timer) /\ Len(timers') = Len(timers)
         /\ Only(i, fn, t, rest)'
         /\ t = "deleted" => \A j \in 1..Len(timers') : timers'[j].state = "deleted"
  <1>1. timers \in Seq(Timer) /\ i \in 1..Len(timers) /\ timers[i] = [fn |-> fn, state |-> s]
    BY DEF TimerTypes, Only
  <1>2. timers[i] \in Timer
    BY <1>1
  <1>3. [timers[i] EXCEPT !.state = t] = [fn |-> fn, state |-> t]
    BY <1>1
  <1>4. [fn |-> fn, state |-> t] \in Timer
    BY <1>1, <1>2 DEF Timer
  <1>5. timers' = [timers EXCEPT ![i] = [fn |-> fn, state |-> t]]
    BY <1>1, <1>3
  <1>6. timers' \in Seq(Timer) /\ Len(timers') = Len(timers)
    BY <1>1, <1>4, <1>5
  <1>7. timers'[i] = [fn |-> fn, state |-> t] /\ \A j \in 1..Len(timers) : j # i => timers'[j] = timers[j]
    BY <1>1, <1>5
  <1>8. Only(i, fn, t, rest)'
    BY <1>1, <1>6, <1>7 DEF Only
  <1>9. t = "deleted" => \A j \in 1..Len(timers') : timers'[j].state = "deleted"
    BY <1>6, <1>7 DEF Only
  <1> QED
    BY <1>6, <1>8, <1>9

\* The first command of a queue, and what is left.
LEMMA FirstCommand ==
  ASSUME NEW a, NEW b, NEW c
  PROVE  /\ Head(<<a>>) = a /\ Tail(<<a>>) = <<>> /\ Len(<<a>>) = 1 /\ <<a>> # <<>>
         /\ Head(<<a, b>>) = a /\ Tail(<<a, b>>) = <<b>> /\ Len(<<a, b>>) = 2 /\ <<a, b>> # <<>>
         /\ Head(<<a, b, c>>) = a /\ Tail(<<a, b, c>>) = <<b, c>> /\ Len(<<a, b, c>>) = 3
         /\ <<a, b, c>> # <<>>
  OBVIOUS

\* Two commands queued behind one.
LEMMA TwoMore == \A a, b, c : <<a>> \o <<b, c>> = <<a, b, c>>
  <1> TAKE a, b, c
  <1> DEFINE S == {a, b, c}
             s == <<a>> \o <<b, c>>
  <1>1. <<a>> \in Seq(S) /\ <<b, c>> \in Seq(S) /\ Len(<<a>>) = 1 /\ Len(<<b, c>>) = 2
    OBVIOUS
  <1>2. s \in Seq(S) /\ Len(s) = 3
    BY <1>1
  <1>3. s[1] = a /\ s[2] = b /\ s[3] = c
    BY <1>1
  <1>4. \A q \in Seq(S) : Len(q) = 3 => q = <<q[1], q[2], q[3]>>
    OBVIOUS
  <1> HIDE DEF s, S
  <1> QED
    BY <1>2, <1>3, <1>4 DEF s

\* What the timer task makes of the timer the first command is for.
LEMMA CommandDoes ==
  ASSUME Command, NEW c \in {"start", "stop", "delete"}, NEW i, Head(cmds) = Cmd(c, i)
  PROVE  /\ c = "start" => timers' = [timers EXCEPT ![i].state = "running"]
         /\ c = "stop" => timers' = [timers EXCEPT ![i].state = "stopped"]
         /\ c = "delete" => timers' = [timers EXCEPT ![i].state = "deleted"]
         /\ cmds' = Tail(cmds) /\ cb' = IF Len(cmds) = 1 THEN "idle" ELSE cb
  <1>1. Head(cmds).cmd = c /\ Head(cmds).id = i
    BY DEF Cmd
  <1> QED
    BY <1>1 DEF Command

\* The timer task executes the commands that wait, one after the other.
LEMMA CommandSteps ==
  ASSUME TimerTypes, Command, NEW i, NEW fn, Starting(i, fn) \/ Ending(i, fn)
  PROVE  /\ timers' \in Seq(Timer) /\ Len(timers') = Len(timers)
         /\ Starting(i, fn) => Going(i, fn)' /\ cb' = "idle"
         /\ Ending(i, fn) => \/ Ending(i, fn)' /\ cb' = cb
                             \/ Quiet' /\ cb' = "idle"
  <1>1. ASSUME Starting(i, fn)
        PROVE  /\ timers' \in Seq(Timer) /\ Len(timers') = Len(timers)
               /\ Going(i, fn)' /\ cb' = "idle"
    <2>1. cmds = <<Cmd("start", i)>>
      BY <1>1 DEF Starting, Only
    <2>2. /\ timers' = [timers EXCEPT ![i].state = "running"] /\ cmds' = <<>> /\ cb' = "idle"
      BY <2>1, FirstCommand, CommandDoes
    <2> QED
      BY <1>1, <2>2, OnlySteps DEF Starting, Going
  <1>2. ASSUME Only(i, fn, "created", <<Cmd("start", i), Cmd("stop", i), Cmd("delete", i)>>)
        PROVE  /\ timers' \in Seq(Timer) /\ Len(timers') = Len(timers)
               /\ Ending(i, fn)' /\ cb' = cb
    <2>1. cmds = <<Cmd("start", i), Cmd("stop", i), Cmd("delete", i)>>
      BY <1>2 DEF Only
    <2>2. /\ timers' = [timers EXCEPT ![i].state = "running"]
          /\ cmds' = <<Cmd("stop", i), Cmd("delete", i)>> /\ cb' = cb
      BY <2>1, FirstCommand, CommandDoes
    <2> QED
      BY <1>2, <2>2, OnlySteps DEF Ending
  <1>3. ASSUME Only(i, fn, "running", <<Cmd("stop", i), Cmd("delete", i)>>)
        PROVE  /\ timers' \in Seq(Timer) /\ Len(timers') = Len(timers)
               /\ Ending(i, fn)' /\ cb' = cb
    <2>1. cmds = <<Cmd("stop", i), Cmd("delete", i)>>
      BY <1>3 DEF Only
    <2>2. /\ timers' = [timers EXCEPT ![i].state = "stopped"]
          /\ cmds' = <<Cmd("delete", i)>> /\ cb' = cb
      BY <2>1, FirstCommand, CommandDoes
    <2> QED
      BY <1>3, <2>2, OnlySteps DEF Ending
  <1>4. ASSUME Only(i, fn, "stopped", <<Cmd("delete", i)>>)
        PROVE  /\ timers' \in Seq(Timer) /\ Len(timers') = Len(timers)
               /\ Quiet' /\ cb' = "idle"
    <2>1. cmds = <<Cmd("delete", i)>>
      BY <1>4 DEF Only
    <2>2. /\ timers' = [timers EXCEPT ![i].state = "deleted"]
          /\ cmds' = <<>> /\ cb' = "idle"
      BY <2>1, FirstCommand, CommandDoes
    <2> QED
      BY <1>4, <2>2, OnlySteps DEF Quiet
  <1>5. Starting(i, fn) => ~Ending(i, fn)
    <2> SUFFICES ASSUME Starting(i, fn), Ending(i, fn) PROVE FALSE
      OBVIOUS
    <2>1. cmds = <<Cmd("start", i)>> /\ timers[i].state = "created"
      BY DEF Starting, Only
    <2>2. Len(cmds) = 3
      BY <2>1, FirstCommand DEF Ending, Only
    <2> QED
      BY <2>1, <2>2, FirstCommand
  <1> QED
    BY <1>1, <1>2, <1>3, <1>4, <1>5 DEF Ending

\* A new timer, when all are deleted, is the one that starts.
LEMMA NewTimerSteps ==
  ASSUME TimerTypes, Quiet, NEW fn \in {"status", "success"}, NewTimer(fn)
  PROVE  /\ timers' \in Seq(Timer) /\ handle' \in 0..Len(timers') /\ Starting(handle, fn)'
  <1> DEFINE t == [fn |-> fn, state |-> "created"]
             n == Len(timers) + 1
  <1>1. timers \in Seq(Timer) /\ t \in Timer /\ Len(timers) \in Nat
    BY DEF TimerTypes, Timer
  <1>2. timers' = Append(timers, t) /\ handle' = n
    BY DEF NewTimer
  <1>3. cmds' = <<Cmd("start", n)>>
    BY DEF NewTimer, Quiet, Cmd
  <1> HIDE DEF t
  <1>4. /\ timers' \in Seq(Timer) /\ Len(timers') = n /\ timers'[n] = t
        /\ \A j \in 1..Len(timers) : timers'[j] = timers[j]
    BY <1>1, <1>2
  <1>5. \A j \in 1..n : j # n => j \in 1..Len(timers)
    BY <1>1
  <1>6. n \in 1..n /\ n \in 0..n
    BY <1>1
  <1> QED
    BY <1>2, <1>3, <1>4, <1>5, <1>6 DEF Starting, Only, Quiet, t

AttemptInv == TimerTypes /\ Attempt

\* Where no timer, handle or command changes, neither does what is said of them.
LEMMA TimersStay ==
  ASSUME UNCHANGED <<handle, timers, cmds>>
  PROVE  /\ Quiet' <=> Quiet
         /\ \A i, fn : /\ Starting(i, fn)' <=> Starting(i, fn)
                       /\ Going(i, fn)' <=> Going(i, fn)
                       /\ Ending(i, fn)' <=> Ending(i, fn)
         /\ UNCHANGED <<cb, connect_count>> => /\ Released' <=> Released
                                               /\ Polling' <=> Polling
                                               /\ Stopping' <=> Stopping
  <1>1. Quiet' <=> Quiet
    BY DEF Quiet
  <1>2. \A i, fn, s, q : Only(i, fn, s, q)' <=> Only(i, fn, s, q)
    BY DEF Only
  <1>3. \A i, fn : /\ Starting(i, fn)' <=> Starting(i, fn)
                   /\ Going(i, fn)' <=> Going(i, fn)
                   /\ Ending(i, fn)' <=> Ending(i, fn)
    BY <1>2 DEF Starting, Going, Ending
  <1>4. ASSUME UNCHANGED <<cb, connect_count>>
        PROVE  /\ Released' <=> Released
               /\ Polling' <=> Polling
               /\ Stopping' <=> Stopping
    <2>1. Released' <=> Released
      BY <1>1, <1>3, <1>4 DEF Released
    <2>2. Polling' <=> Polling
      BY <1>3, <1>4 DEF Polling
    <2>3. Stopping' <=> Stopping
      BY <1>3, <1>4 DEF Stopping
    <2> QED
      BY <2>1, <2>2, <2>3
  <1> QED
    BY <1>1, <1>3, <1>4

\* Only the HTTP server, the timer task and a restart touch an attempt.
LEMMA AttemptFrame ==
  Next => \/ UNCHANGED <<status, httpd, timerTask>>
          \/ AcceptResult \/ Applying \/ TimerTask \/ OtaBegin \/ OtaFails \/ OtaEnd \/ Restart
          \/ \E c \in Forms[app] : Post(c)
  <1> SUFFICES ASSUME Next
               PROVE  \/ UNCHANGED <<status, httpd, timerTask>>
                      \/ AcceptResult \/ Applying \/ TimerTask \/ OtaBegin \/ OtaFails \/ OtaEnd
                      \/ Restart \/ \E c \in Forms[app] : Post(c)
    OBVIOUS
  <1>1. CASE JoinOk \/ LinkDown
    BY <1>1 DEF JoinOk, LinkDown, stationUnchanged, result
  <1>2. CASE Dispatch
    BY <1>2 DEF Dispatch, OnDisconnected, OnGotIp, OnStaStart, OnCredFail, OnCredSuccess, OnEnd,
                eventUnchanged
  <1>3. CASE OtaChunk
    BY <1>3 DEF OtaChunk, otaUnchanged, result
  <1>4. CASE Main
    BY <1>4 DEF Main, MainWeb, MainBegin, MainProvisioned, MainStart, MainCreate, MainArm, mainUnchanged, result
  <1>5. CASE Expire \/ ExpirePost \/ (\E c \in AP : Credentials(c)) \/ MgrStop \/ MgrEnd
    BY <1>5 DEF Expire, ExpirePost, Credentials, MgrStop, MgrEnd, provUnchanged, result
  <1>6. CASE PowerCycle \/ Panic
    BY <1>6 DEF PowerCycle, Panic
  <1> QED
    BY <1>1, <1>2, <1>3, <1>4, <1>5, <1>6 DEF Next

\* The HTTP server's task while it takes requests.
LEMMA AttemptIdle ==
  ASSUME AttemptInv,
         AcceptResult \/ OtaBegin \/ OtaFails \/ OtaEnd \/ \E c \in Forms[app] : Post(c)
  PROVE  AttemptInv'
  <1>1. UNCHANGED <<handle, timers, cmds, cb, connect_count>>
    BY DEF AcceptResult, OtaBegin, OtaFails, OtaEnd, Post, httpdUnchanged, otaUnchanged, timerTask
  <1>2. /\ httpd \in {"idle", "ota"} /\ httpd' \in {"idle", "delay", "ota"}
        /\ \/ status' = status
           \/ status # "CONNECTING" /\ status' = "NOT_START"
        /\ httpd' = "delay" => status' # "CONNECTING"
    BY DEF AcceptResult, OtaBegin, OtaFails, OtaEnd, Post, httpdUnchanged, otaUnchanged, result
  <1>3. TimerTypes'
    BY <1>1, <1>2 DEF AttemptInv, TimerTypes
  <1>4. status' = "CONNECTING" <=> status = "CONNECTING"
    BY <1>2
  <1>5. Attempt'
    BY <1>1, <1>2, <1>4, TimersStay DEF AttemptInv, Attempt
  <1> QED
    BY <1>3, <1>5 DEF AttemptInv

\* Once the handler has slept no timer of an earlier attempt is left.
LEMMA AttemptBegins ==
  ASSUME AttemptInv, NEW udp \in BOOLEAN, Apply(udp)
  PROVE  AttemptInv'
  <1>1. /\ UNCHANGED <<status, handle, timers, cmds, cb, connect_count>>
        /\ httpd = "delay" /\ httpd' \in {"direct", "prepare"} /\ cb = "idle" /\ cmds = <<>>
    BY DEF Apply, Slept, httpdUnchanged, timerTask
  <1>2. TimerTypes'
    BY <1>1 DEF AttemptInv, TimerTypes
  <1>3. Released
    BY <1>1 DEF AttemptInv, Attempt, Stopping
  <1>4. Quiet /\ connect_count = 1
    BY <1>1, <1>3, FirstCommand DEF Released, Ending, Only
  <1>5. Attempt'
    BY <1>1, <1>4, TimersStay DEF AttemptInv, Attempt
  <1> QED
    BY <1>2, <1>5 DEF AttemptInv

\* An attempt up to its timer.
LEMMA AttemptPrepares ==
  ASSUME AttemptInv, Direct \/ Announce \/ Listen \/ Prepare
  PROVE  AttemptInv'
  <1>1. Quiet /\ cb = "idle" /\ connect_count = 1 /\ UNCHANGED <<cb, connect_count>>
    BY DEF AttemptInv, Attempt, Direct, Announce, Listen, Prepare, httpdUnchanged, timerTask
  <1>2. CASE Direct
    <2>1. /\ UNCHANGED <<handle, timers, cmds>>
          /\ \/ httpd' = "announce" /\ status' = status
             \/ httpd' = "idle" /\ status' = "NOT_START"
      BY <1>2 DEF Direct, httpdUnchanged, timerTask
    <2>2. TimerTypes'
      BY <1>1, <2>1 DEF AttemptInv, TimerTypes
    <2>3. Quiet' /\ Released'
      BY <1>1, <2>1, TimersStay DEF Released
    <2>4. Attempt'
      BY <1>1, <2>1, <2>3 DEF Attempt
    <2> QED
      BY <2>2, <2>4 DEF AttemptInv
  <1>3. CASE Announce
    <2>1. UNCHANGED <<handle, timers, cmds>> /\ httpd' = "listen" /\ status' = "CONNECTING"
      BY <1>3 DEF Announce, httpdUnchanged, timerTask
    <2>2. TimerTypes'
      BY <1>1, <2>1 DEF AttemptInv, TimerTypes
    <2>3. Attempt'
      BY <1>1, <2>1, TimersStay DEF Attempt
    <2> QED
      BY <2>2, <2>3 DEF AttemptInv
  <1>4. CASE Listen
    <2>1. status = "CONNECTING" /\ status' = status /\ httpd' = "idle" /\ NewTimer("status")
      BY <1>4 DEF Listen, AttemptInv, Attempt, result
    <2>2. timers' \in Seq(Timer) /\ handle' \in 0..Len(timers') /\ Starting(handle, "status")'
      BY <1>1, <2>1, NewTimerSteps DEF AttemptInv
    <2>3. TimerTypes'
      BY <1>1, <2>1, <2>2 DEF AttemptInv, TimerTypes
    <2>4. Polling'
      BY <1>1, <2>2 DEF Polling
    <2>5. Attempt'
      BY <2>1, <2>4 DEF Attempt
    <2> QED
      BY <2>3, <2>5 DEF AttemptInv
  <1>5. CASE Prepare
    <2>1. status' = "CONNECTING" /\ httpd' \in {"timer", "scan"} /\ NewTimer("success")
      BY <1>5 DEF Prepare, FilterEnds
    <2>2. timers' \in Seq(Timer) /\ handle' \in 0..Len(timers') /\ Starting(handle, "success")'
      BY <1>1, <2>1, NewTimerSteps DEF AttemptInv
    <2>3. TimerTypes'
      BY <1>1, <2>1, <2>2 DEF AttemptInv, TimerTypes
    <2>4. Attempt'
      BY <1>1, <2>1, <2>2 DEF Attempt
    <2> QED
      BY <2>3, <2>4 DEF AttemptInv
  <1> QED
    BY <1>2, <1>3, <1>4, <1>5

\* The scan filter, under one timer.
LEMMA AttemptScans ==
  ASSUME AttemptInv, Filter
  PROVE  AttemptInv'
  <1>1. UNCHANGED <<status, handle, timers, cmds, cb, connect_count>>
    BY DEF Filter, Scan, Pick, Skip, Connected, TimedOut, NextRound, filterUnchanged, httpdUnchanged, timerTask
  <1>2. httpd \in {"scan", "pick", "wait", "refused", "next"} /\ httpd' \in {"scan", "pick", "wait", "refused", "next", "timer"}
    BY DEF Filter, Scan, Pick, Skip, Connected, TimedOut, NextRound, FilterEnds, PhaseOver
  <1>3. TimerTypes'
    BY <1>1, <1>2 DEF AttemptInv, TimerTypes
  <1>4. Attempt'
    BY <1>1, <1>2, TimersStay DEF AttemptInv, Attempt
  <1> QED
    BY <1>3, <1>4 DEF AttemptInv

\* The timer of a scan is released, and the result reported.
LEMMA AttemptEnds ==
  ASSUME AttemptInv, ReleaseTimer \/ ReleaseGroup \/ Report \/ TellPhone
  PROVE  AttemptInv'
  <1>1. CASE ReleaseTimer
    <2>1. /\ UNCHANGED <<status, timers, cb, connect_count>> /\ handle' = 0
          /\ httpd = "timer" /\ httpd' = "group"
          /\ cmds' = cmds \o <<Cmd("stop", handle), Cmd("delete", handle)>>
      BY <1>1 DEF ReleaseTimer, httpdUnchanged, result, Cmd
    <2>2. Starting(handle, "success") \/ Going(handle, "success")
      BY <2>1 DEF AttemptInv, Attempt
    <2>3. ASSUME NEW i, i = handle
          PROVE  i \in 1..Len(timers') /\ Ending(i, "success")'
      <3>1. CASE Starting(handle, "success")
        <4>1. cmds' = <<Cmd("start", i), Cmd("stop", i), Cmd("delete", i)>>
          <5>1. cmds = <<Cmd("start", i)>>
            BY <2>3, <3>1 DEF Starting, Only
          <5> QED
            BY <2>1, <2>3, <5>1, TwoMore
        <4> QED
          BY <2>1, <2>3, <3>1, <4>1 DEF Starting, Ending, Only
      <3>2. CASE Going(handle, "success")
        <4>1. cmds' = <<Cmd("stop", i), Cmd("delete", i)>>
          BY <2>1, <2>3, <3>2 DEF Going, Only
        <4> QED
          BY <2>1, <2>3, <3>2, <4>1 DEF Going, Ending, Only
      <3> QED
        BY <2>2, <3>1, <3>2
    <2>4. Released'
      BY <2>1, <2>3 DEF AttemptInv, Attempt, Released
    <2>5. TimerTypes'
      BY <2>1 DEF AttemptInv, TimerTypes
    <2>6. Attempt'
      BY <2>1, <2>4 DEF Attempt
    <2> QED
      BY <2>5, <2>6 DEF AttemptInv
  <1>2. CASE ReleaseGroup \/ Report \/ TellPhone
    <2>1. /\ UNCHANGED <<handle, timers, cmds, cb, connect_count>>
          /\ httpd \in {"group", "report", "udp"} /\ httpd' \in {"report", "udp", "idle"}
          /\ status' \in {status, "OK", "FAIL", "NOT_START"}
          /\ httpd' # "report" => status' # "CONNECTING"
      BY <1>2 DEF ReleaseGroup, Report, TellPhone, AttemptInv, Attempt, httpdUnchanged, result, timerTask
    <2>2. Released'
      BY <2>1, TimersStay DEF AttemptInv, Attempt
    <2>3. TimerTypes'
      BY <2>1 DEF AttemptInv, TimerTypes
    <2>4. Attempt'
      BY <2>1, <2>2 DEF Attempt
    <2> QED
      BY <2>3, <2>4 DEF AttemptInv
  <1> QED
    BY <1>1, <1>2

\* The one timer that is alive, if there is one, is the one that fires.
LEMMA WhoFires ==
  ASSUME AttemptInv, NEW fn, Fires(fn)
  PROVE  /\ fn = "status" => /\ httpd \in {"idle", "delay", "ota"} /\ status = "CONNECTING"
                             /\ Going(handle, "status")
         /\ fn = "success" => \/ httpd \in {"scan", "pick", "wait", "refused", "next", "timer"}
                              \/ httpd \in {"group", "report", "udp"}
                              \/ /\ httpd \in {"idle", "delay", "ota"} /\ status # "CONNECTING"
                                 /\ Released
  <1>1. cb = "idle"
    BY DEF Fires
  <1>2. PICK k \in 1..Len(timers) : timers[k] = [fn |-> fn, state |-> "running"]
    <2>1. DOMAIN timers = 1..Len(timers)
      BY DEF AttemptInv, TimerTypes
    <2> QED
      BY <2>1 DEF Fires
  <1>3. timers[k].state = "running" /\ timers[k].fn = fn
    BY <1>2
  <1>4. ~Quiet
    BY <1>3 DEF Quiet
  <1>5. ASSUME NEW i, NEW f, NEW s, NEW q, Only(i, f, s, q)
        PROVE  s = "running" /\ f = fn
    <2>1. timers[i].state = s /\ timers[i].fn = f
      BY <1>5 DEF Only
    <2>2. k = i
      BY <1>3, <1>5 DEF Only
    <2> QED
      BY <1>3, <2>1, <2>2
  <1>6. \A i, f : Starting(i, f) \/ Going(i, f) \/ Ending(i, f) => f = fn
    BY <1>5 DEF Starting, Going, Ending
  <1>7. \A i, f : ~Starting(i, f)
    BY <1>5 DEF Starting
  <1>8. Released => fn = "success"
    BY <1>4, <1>6 DEF Released
  <1>9. /\ Polling => fn = "status" /\ Going(handle, "status")
        /\ ~Stopping
    BY <1>1, <1>6, <1>7 DEF Polling, Stopping
  <1>10. httpd \notin {"direct", "announce", "listen", "prepare"}
    BY <1>4 DEF AttemptInv, Attempt
  <1>11. httpd \in {"scan", "pick", "wait", "refused", "next", "timer"} => fn = "success"
    BY <1>6 DEF AttemptInv, Attempt
  <1>12. httpd \in {"group", "report", "udp"} => fn = "success"
    BY <1>8 DEF AttemptInv, Attempt
  <1>13. httpd \in {"idle", "delay", "ota"} =>
            IF status = "CONNECTING" THEN fn = "status" /\ Going(handle, "status")
            ELSE fn = "success" /\ Released
    BY <1>8, <1>9 DEF AttemptInv, Attempt
  <1> QED
    BY <1>10, <1>11, <1>12, <1>13 DEF AttemptInv, TimerTypes

\* The timer task executes a command.
LEMMA AttemptCommand ==
  ASSUME AttemptInv, Command
  PROVE  AttemptInv'
  <1>1. UNCHANGED <<status, httpd, handle, connect_count>> /\ cb \in {"idle", "drain"} /\ cmds # <<>>
    BY DEF Command, timerUnchanged
  <1>2. ~Quiet /\ (\A i, fn : ~Going(i, fn))
    BY <1>1 DEF Quiet, Going, Only
  <1>3. \A i, fn : Starting(i, fn) \/ Ending(i, fn) =>
           timers' \in Seq(Timer) /\ Len(timers') = Len(timers)
    BY CommandSteps DEF AttemptInv
  <1>4. cb' \in {cb, "idle"}
    BY DEF Command
  <1>5. ASSUME NEW i, NEW fn, Starting(i, fn) \/ Ending(i, fn)
        PROVE  TimerTypes'
    BY <1>1, <1>3, <1>4, <1>5 DEF AttemptInv, TimerTypes
  <1>6. ASSUME NEW fn, Starting(handle, fn)
        PROVE  Going(handle, fn)' /\ cb' = "idle" /\ TimerTypes'
    <2>1. ASSUME NEW i, i = handle
          PROVE  Going(i, fn)' /\ cb' = "idle"
      BY <1>6, <2>1, CommandSteps DEF AttemptInv
    <2> QED
      BY <1>1, <1>5, <1>6, <2>1
  <1>7. ASSUME NEW fn, Ending(handle, fn)
        PROVE  /\ TimerTypes'
               /\ \/ Ending(handle, fn)' /\ cb' = cb
                  \/ Quiet' /\ cb' = "idle"
    <2>1. ASSUME NEW i, i = handle
          PROVE  \/ Ending(i, fn)' /\ cb' = cb
                 \/ Quiet' /\ cb' = "idle"
      BY <1>7, <2>1, CommandSteps DEF AttemptInv
    <2> QED
      BY <1>1, <1>5, <1>7, <2>1
  <1>8. Released => TimerTypes' /\ Released'
    <2> HAVE Released
    <2>1. PICK i \in 1..Len(timers) : Ending(i, "success")
      BY <1>2 DEF Released
    <2>2. /\ TimerTypes' /\ Len(timers') = Len(timers)
          /\ Ending(i, "success")' \/ Quiet'
      BY <1>3, <1>5, <2>1, CommandSteps DEF AttemptInv
    <2> QED
      BY <1>1, <1>4, <2>2 DEF Released
  <1>9. Polling => TimerTypes' /\ Polling'
    <2> HAVE Polling
    <2>1. Starting(handle, "status")
      BY <1>2 DEF Polling
    <2> QED
      BY <1>6, <2>1 DEF Polling
  <1>10. Stopping => TimerTypes' /\ (Stopping' \/ Released')
    <2> HAVE Stopping
    <2>1. Ending(handle, "status") /\ cb = "drain" /\ connect_count = 1
      BY <1>2 DEF Stopping
    <2> QED
      BY <1>1, <1>7, <2>1 DEF Stopping, Released
  <1>11. CASE httpd \in {"direct", "announce", "listen", "prepare"}
    BY <1>2, <1>11 DEF AttemptInv, Attempt
  <1>12. CASE httpd \in {"scan", "pick", "wait", "refused", "next", "timer"}
    <2>1. status = "CONNECTING" /\ Starting(handle, "success") /\ connect_count = 1
      BY <1>2, <1>12 DEF AttemptInv, Attempt
    <2>2. TimerTypes' /\ Going(handle, "success")' /\ cb' = "idle"
      BY <1>6, <2>1
    <2>3. Attempt'
      BY <1>1, <1>12, <2>1, <2>2 DEF Attempt
    <2> QED
      BY <2>2, <2>3 DEF AttemptInv
  <1>13. CASE httpd \in {"group", "report", "udp"}
    <2>1. TimerTypes' /\ Released'
      BY <1>8, <1>13 DEF AttemptInv, Attempt
    <2>2. Attempt'
      BY <1>1, <1>13, <2>1 DEF AttemptInv, Attempt
    <2> QED
      BY <2>1, <2>2 DEF AttemptInv
  <1>14. CASE httpd \in {"idle", "delay", "ota"}
    <2>1. TimerTypes' /\ (IF status = "CONNECTING" THEN Polling' ELSE Released' \/ Stopping')
      BY <1>8, <1>9, <1>10, <1>14 DEF AttemptInv, Attempt
    <2>2. Attempt'
      BY <1>1, <1>14, <2>1 DEF AttemptInv, Attempt
    <2> QED
      BY <2>1, <2>2 DEF AttemptInv
  <1> QED
    BY <1>11, <1>12, <1>13, <1>14 DEF AttemptInv, TimerTypes

\* The callbacks of the timers.
LEMMA AttemptFires ==
  ASSUME AttemptInv, Poll \/ Finish \/ StopTimer \/ Success \/ SetBits
  PROVE  AttemptInv'
  <1>1. httpd' = httpd
    BY DEF Poll, Finish, StopTimer, Success, SetBits, timerUnchanged
  <1>2. CASE Poll
    <2>1. /\ UNCHANGED <<handle, timers, cmds, status>> /\ connect_count' \in {connect_count, connect_count + 1}
          /\ cb' \in {"FAIL", "OK", "idle"}
      BY <1>2 DEF Poll, CountPoll
    <2>2. httpd \in {"idle", "delay", "ota"} /\ status = "CONNECTING" /\ Going(handle, "status")
      BY <1>2, WhoFires DEF Poll
    <2>3. Polling'
      BY <2>1, <2>2, TimersStay DEF Polling
    <2>4. connect_count' \in Nat \ {0}
      BY <2>1 DEF AttemptInv, TimerTypes
    <2>5. TimerTypes'
      BY <1>1, <2>1, <2>4 DEF AttemptInv, TimerTypes
    <2>6. Attempt'
      BY <1>1, <2>1, <2>2, <2>3 DEF AttemptInv, Attempt
    <2> QED
      BY <2>5, <2>6 DEF AttemptInv
  <1>3. CASE Finish
    <2>1. /\ UNCHANGED <<handle, timers, cmds>> /\ connect_count' = 1 /\ cb' = "stop"
          /\ cb \in {"OK", "FAIL"} /\ status' = cb
      BY <1>3 DEF Finish, ResetCount
    <2>2. httpd \in {"idle", "delay", "ota"} /\ Polling
      BY <2>1 DEF AttemptInv, TimerTypes, Attempt, Released, Stopping
    <2>3. Stopping'
      BY <2>1, <2>2, TimersStay DEF Polling, Stopping
    <2>4. TimerTypes'
      BY <1>1, <2>1 DEF AttemptInv, TimerTypes
    <2>5. Attempt'
      BY <1>1, <2>1, <2>2, <2>3 DEF Attempt
    <2> QED
      BY <2>4, <2>5 DEF AttemptInv
  <1>4. CASE StopTimer
    <2>1. /\ UNCHANGED <<handle, timers, status, connect_count>> /\ cb = "stop" /\ cb' = "drain"
          /\ cmds' = cmds \o <<Cmd("stop", handle), Cmd("delete", handle)>>
      BY <1>4 DEF StopTimer, Cmd, timerUnchanged
    <2>2. /\ httpd \in {"idle", "delay", "ota"} /\ status # "CONNECTING"
          /\ Going(handle, "status") /\ connect_count = 1
      BY <2>1 DEF AttemptInv, TimerTypes, Attempt, Polling, Released, Stopping
    <2>3. cmds' = <<Cmd("stop", handle), Cmd("delete", handle)>>
      BY <2>1, <2>2 DEF Going, Only
    <2>4. Only(handle, "status", "running", <<Cmd("stop", handle), Cmd("delete", handle)>>)'
      BY <2>1, <2>2, <2>3 DEF Going, Only, Cmd
    <2>5. Stopping'
      BY <2>1, <2>2, <2>4 DEF Stopping, Ending
    <2>6. TimerTypes'
      BY <1>1, <2>1 DEF AttemptInv, TimerTypes
    <2>7. Attempt'
      BY <1>1, <2>1, <2>2, <2>5 DEF Attempt
    <2> QED
      BY <2>6, <2>7 DEF AttemptInv
  <1>5. CASE Success
    <2>1. UNCHANGED <<handle, timers, cmds, status, connect_count>> /\ cb' = "set"
      BY <1>5 DEF Success, timerUnchanged
    <2>2. \/ httpd \in {"scan", "pick", "wait", "refused", "next", "timer"}
          \/ httpd \in {"group", "report", "udp"}
          \/ httpd \in {"idle", "delay", "ota"} /\ status # "CONNECTING" /\ Released
      BY <1>5, WhoFires DEF Success
    <2>3. Released => Released'
      BY <2>1, TimersStay DEF Released
    <2>4. TimerTypes'
      BY <1>1, <2>1 DEF AttemptInv, TimerTypes
    <2>5. Attempt'
      BY <1>1, <2>1, <2>2, <2>3, TimersStay DEF AttemptInv, Attempt
    <2> QED
      BY <2>4, <2>5 DEF AttemptInv
  <1>6. CASE SetBits
    <2>1. UNCHANGED <<handle, timers, cmds, status, connect_count>> /\ cb = "set" /\ cb' = "idle"
      BY <1>6 DEF SetBits, timerUnchanged
    <2>2. Released => Released'
      BY <2>1, TimersStay DEF Released
    <2>3. ~Polling /\ ~Stopping
      BY <2>1 DEF Polling, Stopping
    <2>4. TimerTypes'
      BY <1>1, <2>1 DEF AttemptInv, TimerTypes
    <2>5. Attempt'
      BY <1>1, <2>1, <2>2, <2>3, TimersStay DEF AttemptInv, Attempt
    <2> QED
      BY <2>4, <2>5 DEF AttemptInv
  <1> QED
    BY <1>2, <1>3, <1>4, <1>5, <1>6

LEMMA AttemptInvHolds == Spec => []AttemptInv
  <1>1. Init => AttemptInv
    <2> SUFFICES ASSUME Init PROVE AttemptInv
      OBVIOUS
    <2>1. /\ timers = <<>> /\ cmds = <<>> /\ handle = 0 /\ cb = "idle" /\ connect_count = 1
          /\ httpd = "idle" /\ status = "NOT_START"
      BY DEF Init, Start
    <2>2. TimerTypes
      BY <2>1 DEF TimerTypes
    <2>3. Released
      BY <2>1 DEF Released, Quiet
    <2>4. Attempt
      BY <2>1, <2>3 DEF Attempt
    <2> QED
      BY <2>2, <2>4 DEF AttemptInv
  <1>2. AttemptInv /\ [Next]_vars => AttemptInv'
    <2> SUFFICES ASSUME AttemptInv, [Next]_vars PROVE AttemptInv'
      OBVIOUS
    <2>1. CASE UNCHANGED <<status, httpd, timerTask>>
      <3>1. UNCHANGED <<status, httpd, handle, timers, cmds, cb, connect_count>>
        BY <2>1 DEF timerTask
      <3>2. TimerTypes'
        BY <3>1 DEF AttemptInv, TimerTypes
      <3>3. Attempt'
        BY <3>1, TimersStay DEF AttemptInv, Attempt
      <3> QED
        BY <3>2, <3>3 DEF AttemptInv
    <2>2. CASE AcceptResult \/ OtaBegin \/ OtaFails \/ OtaEnd \/ \E c \in Forms[app] : Post(c)
      BY <2>2, AttemptIdle
    <2>3. CASE Applying
      BY <2>3, AttemptBegins, AttemptPrepares, AttemptScans, AttemptEnds DEF Applying
    <2>4. CASE TimerTask
      BY <2>4, AttemptCommand, AttemptFires DEF TimerTask
    <2>5. CASE Restart
      <3>1. /\ timers' = <<>> /\ cmds' = <<>> /\ handle' = 0 /\ cb' = "idle" /\ connect_count' = 1
            /\ httpd' = "idle" /\ status' = "NOT_START"
        BY <2>5 DEF Restart
      <3>2. TimerTypes'
        BY <3>1 DEF TimerTypes
      <3>3. Released'
        BY <3>1 DEF Released, Quiet
      <3>4. Attempt'
        BY <3>1, <3>3 DEF Attempt
      <3> QED
        BY <3>2, <3>4 DEF AttemptInv
    <2>6. CASE UNCHANGED vars
      BY <2>1, <2>6 DEF vars, result
    <2> QED
      BY <2>1, <2>2, <2>3, <2>4, <2>5, <2>6, AttemptFrame
  <1> QED
    BY <1>1, <1>2, PTL DEF Spec

\* Which commands wait for the one timer: none for another, none behind a deletion.
LEMMA CommandsOfOne ==
  ASSUME NEW i,
         \/ cmds = <<>> \/ cmds = <<Cmd("start", i)>>
         \/ cmds = <<Cmd("start", i), Cmd("stop", i), Cmd("delete", i)>>
         \/ cmds = <<Cmd("stop", i), Cmd("delete", i)>>
         \/ cmds = <<Cmd("delete", i)>>
  PROVE  \A k \in DOMAIN cmds :
            /\ cmds[k].id = i /\ cmds[k] \in [cmd : {"start", "stop", "delete"}, id : {i}]
            /\ \A j \in 1..(k - 1) : cmds[j] # Cmd("delete", i)
  <1>1. CASE cmds = <<>>
    BY <1>1
  <1>2. CASE cmds = <<Cmd("start", i)>>
    BY <1>2 DEF Cmd
  <1>3. CASE cmds = <<Cmd("delete", i)>>
    BY <1>3 DEF Cmd
  <1>4. CASE cmds = <<Cmd("stop", i), Cmd("delete", i)>>
    <2>1. DOMAIN cmds = 1..2 /\ cmds[1] = Cmd("stop", i) /\ cmds[2] = Cmd("delete", i)
      BY <1>4
    <2>2. \A k \in 1..2 : \A j \in 1..(k - 1) : j = 1
      OBVIOUS
    <2>3. \A k \in 1..2 : k = 1 \/ k = 2
      OBVIOUS
    <2> QED
      BY <2>1, <2>2, <2>3 DEF Cmd
  <1>5. CASE cmds = <<Cmd("start", i), Cmd("stop", i), Cmd("delete", i)>>
    <2>1. /\ DOMAIN cmds = 1..3
          /\ cmds[1] = Cmd("start", i) /\ cmds[2] = Cmd("stop", i) /\ cmds[3] = Cmd("delete", i)
      BY <1>5
    <2>2. \A k \in 1..3 : \A j \in 1..(k - 1) : j = 1 \/ j = 2
      OBVIOUS
    <2>3. \A k \in 1..3 : k = 1 \/ k = 2 \/ k = 3
      OBVIOUS
    <2> QED
      BY <2>1, <2>2, <2>3 DEF Cmd
  <1> QED
    BY <1>1, <1>2, <1>3, <1>4, <1>5

\* A timer that is alive is the handle's or is to be deleted.
LEMMA OneOwned ==
  ASSUME TimerTypes, NEW i, NEW fn,
         \/ i = handle /\ (Starting(i, fn) \/ Going(i, fn))
         \/ Ending(i, fn)
  PROVE  /\ TimersOwned
         /\ \A k \in DOMAIN timers : timers[k].state # "deleted" => k = i
  <1>1. DOMAIN timers = 1..Len(timers)
    BY DEF TimerTypes
  <1>2. /\ \A j \in 1..Len(timers) : j # i => timers[j].state = "deleted"
        /\ i \in 1..Len(timers) /\ timers[i].state # "deleted" /\ i # 0
    BY DEF Starting, Going, Ending, Only
  <1>3. \/ cmds = <<>> \/ cmds = <<Cmd("start", i)>>
        \/ cmds = <<Cmd("start", i), Cmd("stop", i), Cmd("delete", i)>>
        \/ cmds = <<Cmd("stop", i), Cmd("delete", i)>>
        \/ cmds = <<Cmd("delete", i)>>
    BY DEF Starting, Going, Ending, Only
  <1>4. Ending(i, fn) => \E k \in DOMAIN cmds : cmds[k] = Cmd("delete", i)
    <2>1. CASE cmds = <<Cmd("start", i), Cmd("stop", i), Cmd("delete", i)>>
      <3>1. 3 \in DOMAIN cmds /\ cmds[3] = Cmd("delete", i)
        BY <2>1
      <3> QED
        BY <3>1
    <2>2. CASE cmds = <<Cmd("stop", i), Cmd("delete", i)>>
      <3>1. 2 \in DOMAIN cmds /\ cmds[2] = Cmd("delete", i)
        BY <2>2
      <3> QED
        BY <3>1
    <2>3. CASE cmds = <<Cmd("delete", i)>>
      <3>1. 1 \in DOMAIN cmds /\ cmds[1] = Cmd("delete", i)
        BY <2>3
      <3> QED
        BY <3>1
    <2> QED
      BY <2>1, <2>2, <2>3 DEF Ending, Only
  <1>5. i = handle \/ Pending("delete", i)
    BY <1>4 DEF Pending, Cmd
  <1>6. \A k \in DOMAIN cmds :
           /\ cmds[k].id = i
           /\ \A j \in 1..(k - 1) : cmds[j] # [cmd |-> "delete", id |-> i]
    BY <1>3, CommandsOfOne DEF Cmd
  <1>7. TimersOwned
    BY <1>1, <1>2, <1>5, <1>6 DEF TimersOwned
  <1> QED
    BY <1>1, <1>2, <1>7

LEMMA QuietOwned == TimerTypes /\ Quiet => TimersOwned
  BY DEF TimerTypes, Quiet, TimersOwned

\* Which of these it is says what the properties need.
LEMMA TimerShape ==
  ASSUME AttemptInv
  PROVE  /\ TimersOwned
         /\ FreshCount
         /\ httpd \in {"idle", "delay", "ota"} /\ status = "CONNECTING" => Polling
  <1>1. TimerTypes /\ Attempt
    BY DEF AttemptInv
  <1>2. \/ Quiet /\ connect_count = 1
        \/ \E fn : (Starting(handle, fn) /\ connect_count = 1) \/ Going(handle, fn)
        \/ \E i, fn : Ending(i, fn) /\ connect_count = 1
    <2>1. Released => \/ Quiet /\ connect_count = 1
                      \/ \E i, fn : Ending(i, fn) /\ connect_count = 1
      BY DEF Released
    <2>2. Polling => \E fn : (Starting(handle, fn) /\ connect_count = 1) \/ Going(handle, fn)
      BY DEF Polling
    <2>3. Stopping => \/ \E fn : Going(handle, fn)
                      \/ \E i, fn : Ending(i, fn) /\ connect_count = 1
      BY DEF Stopping
    <2>4. CASE httpd \in {"direct", "announce", "listen", "prepare"}
      BY <1>1, <2>4 DEF Attempt
    <2>5. CASE httpd \in {"scan", "pick", "wait", "refused", "next", "timer"}
      BY <1>1, <2>5 DEF Attempt
    <2>6. CASE httpd \in {"group", "report", "udp"}
      BY <1>1, <2>1, <2>6 DEF Attempt
    <2>7. CASE httpd \in {"idle", "delay", "ota"}
      BY <1>1, <2>1, <2>2, <2>3, <2>7 DEF Attempt
    <2> QED
      BY <1>1, <2>4, <2>5, <2>6, <2>7 DEF TimerTypes
  <1>3. TimersOwned
    BY <1>1, <1>2, OneOwned, QuietOwned
  <1>4. FreshCount
    <2> SUFFICES ASSUME NEW k \in DOMAIN timers, timers[k] = [fn |-> "status", state |-> "created"]
                 PROVE  connect_count = 1
      BY DEF FreshCount
    <2>1. k \in 1..Len(timers) /\ timers[k].state = "created"
      BY <1>1 DEF TimerTypes
    <2>2. \A fn : ~Going(handle, fn)
      BY <2>1 DEF Going, Only
    <2> QED
      BY <1>2, <2>2
  <1> QED
    BY <1>1, <1>3, <1>4 DEF Attempt

\* One timer for one attempt, through the handle all attempts share, whatever
\* the server's task does while the timer task is at work: the timer that ends
\* "connecting" runs, none is lost or used after its deletion, and each attempt
\* counts its polls from one (listen_sta_connect_status_timer_cb() and
\* esp_web_apply_wifi_connect_info()).
THEOREM EveryAttemptTimed == Spec => []AttemptsTimed
  <1>1. AttemptInv => AttemptsTimed
    <2> SUFFICES ASSUME AttemptInv PROVE AttemptsTimed
      OBVIOUS
    <2>1. SomeoneListens
      <3> SUFFICES ASSUME status = "CONNECTING", httpd \in {"idle", "delay", "ota"}
                   PROVE  /\ handle # 0 /\ timers[handle].fn = "status"
                          /\ timers[handle].state \in {"created", "running"}
                          /\ ~Pending("stop", handle) /\ ~Pending("delete", handle)
        BY DEF SomeoneListens
      <3>1. /\ handle \in 1..Len(timers) /\ timers[handle].fn = "status"
            /\ timers[handle].state \in {"created", "running"}
            /\ cmds = <<>> \/ cmds = <<Cmd("start", handle)>>
        BY TimerShape DEF Polling, Starting, Going, Only
      <3>2. \A k \in DOMAIN cmds : cmds[k].cmd = "start"
        BY <3>1 DEF Cmd
      <3>3. ~Pending("stop", handle) /\ ~Pending("delete", handle)
        BY <3>2 DEF Pending
      <3> QED
        BY <3>1, <3>3
    <2> QED
      BY <2>1, TimerShape DEF AttemptsTimed
  <1> QED
    BY <1>1, AttemptInvHolds, PTL

-----------------------------------------------------------------------------
(* Types *)

StationTypes ==
    /\ app \in SUBSET {"web", "prov"} /\ conf \in AP \union {NoAP}
    /\ sta \in [ap : AP \union {NoAP}, link : {"off", "joining", "up"}]
    /\ ssid \in AP \union {NoAP} /\ aim \in AP \union {NoAP}

ScanTypes ==
    /\ sf \in [avail : Int, max_try : Int, count : Nat, last_scan : BOOLEAN, list : Seq(AP),
               failed : SUBSET AP, ok : BOOLEAN, phone : BOOLEAN, phase : {"match", "virtual", "rssi"}]
    /\ timeout \in {WIFI_MAX_RECONNECT_TIMEOUT, WEB_RECONNECT_TIMEOUT}
    /\ group \in {"none", "clear", "set"}

HistoryTypes ==
    /\ flag \in BOOLEAN /\ heard \in BOOLEAN /\ reached \in BOOLEAN
    /\ posts \in Nat /\ otas \in Nat /\ restarts \in Nat /\ left \in 0..2

ProvTypes ==
    /\ wifi_prov_status \in BOOLEAN
    /\ mgr \in {"none", "init", "running", "stopping", "stopped"} /\ cred \in {"none", "trying", "ok"}
    /\ retries \in 0..(PROV_MGR_MAX_RETRY_CNT - 1)
    /\ ptimer \in {"none", "created", "armed", "off", "deleted"} /\ pcb \in {"idle", "post"}

\* Joining an access point, or none.
LEMMA JoiningType ==
  \A c \in AP \union {NoAP} : Joining(c) \in [ap : AP \union {NoAP}, link : {"off", "joining", "up"}]
  BY DEF Joining

\* The application never changes; an SSID is one of the form.
LEMMA StationNext == StationTypes /\ ScanTypes /\ [Next]_vars => StationTypes'
  <1> SUFFICES ASSUME StationTypes, ScanTypes, [Next]_vars PROVE StationTypes'
    OBVIOUS
  <1> USE DEF StationTypes
  <1>1. CASE JoinOk \/ LinkDown
    <2>1. sta' = [sta EXCEPT !.link = "up"] \/ sta' = [sta EXCEPT !.link = "off"]
      BY <1>1 DEF JoinOk, LinkDown
    <2> QED
      BY <1>1, <2>1 DEF JoinOk, LinkDown, stationUnchanged, history, result
  <1>2. CASE Dispatch
    <2>1. UNCHANGED <<app, ssid, aim>>
      BY <1>2 DEF Dispatch, OnDisconnected, OnGotIp, OnStaStart, OnCredFail, OnCredSuccess, OnEnd,
                  eventUnchanged
    <2>2. conf' \in {conf, NoAP} /\ sta' \in {sta, Joining(conf), Joining(NoAP)}
      BY <1>2 DEF Dispatch, OnDisconnected, OnGotIp, OnStaStart, OnCredFail, OnCredSuccess, OnEnd, Connect
    <2> QED
      BY <2>1, <2>2, JoiningType
  <1>3. CASE \E c \in Forms[app] : Post(c)
    <2>1. Forms[app] \subseteq AP \union {NoAP}
      BY WifiSetupAssumption
    <2> QED
      BY <1>3, <2>1 DEF Post, station, history, httpdUnchanged
  <1>4. CASE Applying
    <2>1. CASE \E udp \in BOOLEAN : Apply(udp)
      BY <2>1 DEF Apply, station, httpdUnchanged
    <2>2. CASE Direct
      <3>1. \E c \in {ssid, conf} : conf' = c /\ sta' = Joining(c)
        BY <2>2 DEF Direct, WifiConnect
      <3> QED
        BY <2>2, <3>1, JoiningType DEF Direct, httpdUnchanged
    <2>3. CASE Prepare
      BY <2>3, JoiningType DEF Prepare, httpdUnchanged, history
    <2>4. CASE Pick
      <3>1. PICK i \in Candidates : /\ aim' = sf.list[i]
                                    /\ \E c \in {sf.list[i], conf} : conf' = c /\ sta' = Joining(c)
        BY <2>4 DEF Pick, WifiConnect
      <3>2. sf.list[i] \in AP
        <4>1. i \in DOMAIN sf.list /\ sf.list \in Seq(AP)
          BY DEF Candidates, ScanTypes
        <4> QED
          BY <4>1
      <3> QED
        BY <2>4, <3>1, <3>2, JoiningType DEF Pick, httpdUnchanged
    <2>5. CASE Announce \/ Listen \/ ReleaseTimer \/ Report \/ TellPhone
      BY <2>5 DEF Announce, Listen, ReleaseTimer, Report, TellPhone, station, result, history, httpdUnchanged
    <2>6. CASE ReleaseGroup
      BY <2>6 DEF ReleaseGroup, station, history, httpdUnchanged
    <2>7. CASE Scan \/ Skip \/ Connected \/ TimedOut \/ NextRound
      BY <2>7 DEF Scan, Skip, Connected, TimedOut, NextRound, filterUnchanged, httpdUnchanged
    <2> QED
      BY <1>4, <2>1, <2>2, <2>3, <2>4, <2>5, <2>6, <2>7 DEF Applying, Filter
  <1>5. CASE AcceptResult
    BY <1>5 DEF AcceptResult, station, history, httpdUnchanged
  <1>6. CASE OtaBegin \/ OtaChunk \/ OtaFails \/ OtaEnd
    BY <1>6 DEF OtaBegin, OtaChunk, OtaFails, OtaEnd, otaUnchanged, station, result, history
  <1>7. CASE TimerTask
    BY <1>7 DEF TimerTask, Command, Poll, Finish, StopTimer, Success, SetBits, timerUnchanged, station
  <1>8. CASE Main
    BY <1>8 DEF Main, MainWeb, MainBegin, MainProvisioned, MainStart, MainCreate, MainArm, mainUnchanged,
                station, result, history
  <1>9. CASE Expire \/ ExpirePost \/ MgrStop \/ MgrEnd
    BY <1>9 DEF Expire, ExpirePost, MgrStop, MgrEnd, provUnchanged, station, result
  <1>10. ASSUME NEW c \in AP, Credentials(c) PROVE StationTypes'
    BY <1>10, JoiningType DEF Credentials, WifiConnect, provUnchanged, result
  <1>11. CASE PowerCycle \/ Panic
    <2>1. sta' = Joining(conf) /\ conf' = conf /\ app' = app /\ ssid' = NoAP /\ aim' = NoAP
      BY <1>11 DEF PowerCycle, Panic, Restart
    <2> QED
      BY <2>1, JoiningType
  <1>12. CASE UNCHANGED vars
    BY <1>12 DEF vars, station, result, history
  <1> QED
    BY <1>1, <1>2, <1>3, <1>4, <1>5, <1>6, <1>7, <1>8, <1>9, <1>10, <1>11, <1>12 DEF Next

\* A scan's list is a sequence of access points, and stays one without an entry.
LEMMA ListTypes ==
  /\ \A l \in Scans : l \in Seq(AP)
  /\ \A l \in Seq(AP) : \A i \in DOMAIN l : RemoveAt(l, i) \in Seq(AP)
  <1>1. \A l \in Scans : l \in Seq(AP)
    <2> SUFFICES ASSUME NEW n \in 1..Cardinality(AP), NEW l \in [1..n -> AP] PROVE l \in Seq(AP)
      BY DEF Scans
    <2>1. n \in Nat
      BY WifiSetupAssumption, FS_CardinalityType
    <2> QED
      BY <2>1
  <1>2. ASSUME NEW l \in Seq(AP), NEW i \in DOMAIN l PROVE RemoveAt(l, i) \in Seq(AP)
    <2>1. i \in 1..Len(l) /\ Len(l) \in Nat
      OBVIOUS
    <2>2. SubSeq(l, 1, i - 1) \in Seq(AP) /\ SubSeq(l, i + 1, Len(l)) \in Seq(AP)
      BY <2>1
    <2> QED
      BY <2>2 DEF RemoveAt
  <1> QED
    BY <1>1, <1>2

LEMMA ScanNext == StationTypes /\ ScanTypes /\ [Next]_vars => ScanTypes'
  <1> SUFFICES ASSUME StationTypes, ScanTypes, [Next]_vars PROVE ScanTypes'
    OBVIOUS
  <1> USE DEF ScanTypes
  <1>0. /\ WIFI_MAX_RECONNECT_TIMEOUT \in Int /\ WEB_RECONNECT_TIMEOUT \in Int /\ BROADCAST_TIME \in Int
        /\ TRY_CONNECT_TIMEOUT \in Nat \ {0}
        /\ timeout \in Int /\ sf.avail \in Int
        /\ \A a \in Int : a \div TRY_CONNECT_TIMEOUT \in Int
    BY Timeouts
  <1>1. NoScan \in [avail : Int, max_try : Int, count : Nat, last_scan : BOOLEAN, list : Seq(AP),
               failed : SUBSET AP, ok : BOOLEAN, phone : BOOLEAN, phase : {"match", "virtual", "rssi"}]
    BY DEF NoScan
  <1>ended. ASSUME sf' = [NoScan EXCEPT !.ok = sf.ok], timeout' = timeout, group' \in {"none", "clear", "set"}
        PROVE  ScanTypes'
    <2>1. sf.ok \in BOOLEAN
      OBVIOUS
    <2> QED
      BY <1>1, <1>ended, <2>1
  <1>2. ASSUME UNCHANGED <<sf, timeout>>, group' \in {"none", "clear", "set"} PROVE ScanTypes'
    BY <1>2
  <1>3. CASE \/ JoinOk \/ LinkDown \/ Dispatch \/ AcceptResult \/ TimerTask
             \/ OtaBegin \/ OtaChunk \/ OtaFails \/ OtaEnd
             \/ \E c \in Forms[app] : Post(c)
    <2>1. UNCHANGED <<sf, timeout>> /\ group' \in {group, "set"}
      <3>1. CASE JoinOk \/ LinkDown
        BY <3>1 DEF JoinOk, LinkDown, stationUnchanged
      <3>2. CASE Dispatch
        BY <3>2 DEF Dispatch, OnDisconnected, OnGotIp, OnStaStart, OnCredFail, OnCredSuccess, OnEnd,
                    eventUnchanged
      <3>3. CASE AcceptResult \/ \E c \in Forms[app] : Post(c)
        BY <3>3 DEF AcceptResult, Post, httpdUnchanged
      <3>4. CASE TimerTask
        BY <3>4 DEF TimerTask, Command, Poll, Finish, StopTimer, Success, SetBits, timerUnchanged
      <3>5. CASE OtaBegin \/ OtaChunk \/ OtaFails \/ OtaEnd
        BY <3>5 DEF OtaBegin, OtaChunk, OtaFails, OtaEnd, otaUnchanged
      <3> QED
        BY <1>3, <3>1, <3>2, <3>3, <3>4, <3>5
    <2> QED
      BY <1>2, <2>1
  <1>4. CASE Expire \/ ExpirePost \/ (\E c \in AP : Credentials(c)) \/ MgrStop \/ MgrEnd
    <2>1. UNCHANGED <<sf, timeout, group>>
      BY <1>4 DEF Expire, ExpirePost, Credentials, MgrStop, MgrEnd, provUnchanged
    <2> QED
      BY <1>2, <2>1
  <1>5. CASE Main
    <2>1. UNCHANGED <<sf, group>> /\ timeout' \in {timeout, WEB_RECONNECT_TIMEOUT}
      BY <1>5 DEF Main, MainWeb, MainBegin, MainProvisioned, MainStart, MainCreate, MainArm, mainUnchanged
    <2> QED
      BY <2>1
  <1>6. ASSUME NEW udp \in BOOLEAN, Apply(udp) PROVE ScanTypes'
    <2>1. UNCHANGED <<timeout, group>>
      BY <1>6 DEF Apply, httpdUnchanged
    <2>2. \/ sf' = sf
          \/ \E found \in BOOLEAN :
                sf' = [NoScan EXCEPT !.phone = found, !.avail = timeout - BROADCAST_TIME]
      BY <1>6 DEF Apply
    <2>3. timeout - BROADCAST_TIME \in Int
      BY <1>0
    <2> QED
      BY <1>1, <2>1, <2>2, <2>3
  <1>7. CASE Direct \/ Announce \/ Listen \/ ReleaseTimer \/ ReleaseGroup \/ TellPhone
    <2>1. UNCHANGED <<sf, timeout>> /\ group' \in {group, "none"}
      BY <1>7 DEF Direct, Announce, Listen, ReleaseTimer, ReleaseGroup, TellPhone, httpdUnchanged
    <2> QED
      BY <1>2, <2>1
  <1>8. CASE Report
    BY <1>1, <1>8 DEF Report, httpdUnchanged
  <1>9. CASE Prepare
    <2>1. sf' = [NoScan EXCEPT !.ok = sf.ok] \/ sf' = [sf EXCEPT !.max_try = sf.avail \div TRY_CONNECT_TIMEOUT]
      BY <1>9 DEF Prepare, FilterEnds
    <2>2. sf.avail \div TRY_CONNECT_TIMEOUT \in Int
      BY <1>0
    <2> QED
      BY <1>9, <1>ended, <2>1, <2>2 DEF Prepare, httpdUnchanged
  <1>10. CASE Scan
    <2>1. \/ sf' = [NoScan EXCEPT !.ok = sf.ok]
          \/ \E l \in Seq(AP) :
                sf' = [sf EXCEPT !.last_scan = @ \/ LastScan(sf.avail), !.count = 0, !.list = l, !.phase = "match"]
      BY <1>10, ListTypes DEF Scan, FilterEnds
    <2>2. (sf.last_scan \/ LastScan(sf.avail)) \in BOOLEAN
      BY DEF LastScan
    <2>3. UNCHANGED <<timeout, group>>
      BY <1>10 DEF Scan, filterUnchanged, httpdUnchanged
    <2>4. CASE sf' = [NoScan EXCEPT !.ok = sf.ok]
      BY <1>ended, <2>3, <2>4
    <2>5. ASSUME NEW l \in Seq(AP), NEW last \in BOOLEAN,
                 sf' = [sf EXCEPT !.last_scan = last, !.count = 0, !.list = l, !.phase = "match"]
          PROVE  ScanTypes'
      BY <2>3, <2>5
    <2> QED
      BY <2>1, <2>2, <2>4, <2>5
  <1>11. CASE Pick
    BY <1>11 DEF Pick, httpdUnchanged
  <1>12. CASE Skip
    BY <1>12 DEF Skip, After, filterUnchanged, httpdUnchanged
  <1>13. CASE Connected
    BY <1>13 DEF Connected, After, filterUnchanged, httpdUnchanged
  <1>14. CASE TimedOut
    <2>1. PICK i \in DOMAIN sf.list :
             /\ sf.list[i] = aim
             /\ sf' = [sf EXCEPT !.failed = @ \union {aim}, !.phase = After(sf.phase), !.list = RemoveAt(@, i)]
      BY <1>14 DEF TimedOut
    <2>2. sf.list \in Seq(AP) /\ RemoveAt(sf.list, i) \in Seq(AP) /\ aim \in AP
      BY <2>1, ListTypes
    <2> QED
      BY <1>14, <2>1, <2>2 DEF TimedOut, After, filterUnchanged, httpdUnchanged
  <1>15. CASE NextRound
    <2>1. \/ sf' = [NoScan EXCEPT !.ok = sf.ok]
          \/ \E d \in 0..sf.avail :
                sf' = [sf EXCEPT !.list = <<>>, !.avail = @ - d,
                                 !.max_try = (sf.avail - d) \div TRY_CONNECT_TIMEOUT]
      BY <1>15 DEF NextRound, FilterEnds
    <2>2. \A d \in 0..sf.avail : /\ sf.avail - d \in Int
                                 /\ (sf.avail - d) \div TRY_CONNECT_TIMEOUT \in Int
      BY <1>0
    <2>3. UNCHANGED <<timeout, group>>
      BY <1>15 DEF NextRound, filterUnchanged, httpdUnchanged
    <2>4. <<>> \in Seq(AP)
      OBVIOUS
    <2>5. CASE sf' = [NoScan EXCEPT !.ok = sf.ok]
      BY <1>ended, <2>3, <2>5
    <2>6. ASSUME NEW a \in Int, NEW m \in Int,
                 sf' = [sf EXCEPT !.list = <<>>, !.avail = a, !.max_try = m]
          PROVE  ScanTypes'
      BY <2>3, <2>4, <2>6
    <2>7. ASSUME NEW d \in 0..sf.avail,
                 sf' = [sf EXCEPT !.list = <<>>, !.avail = @ - d,
                                  !.max_try = (sf.avail - d) \div TRY_CONNECT_TIMEOUT]
          PROVE  ScanTypes'
      <3>1. sf.avail - d \in Int /\ (sf.avail - d) \div TRY_CONNECT_TIMEOUT \in Int
        BY <2>2
      <3>2. sf' = [sf EXCEPT !.list = <<>>, !.avail = sf.avail - d,
                             !.max_try = (sf.avail - d) \div TRY_CONNECT_TIMEOUT]
        BY <2>7
      <3> QED
        BY <2>6, <3>1, <3>2
    <2> QED
      BY <2>1, <2>5, <2>7
  <1>16. CASE PowerCycle \/ Panic
    BY <1>1, <1>16 DEF PowerCycle, Panic, Restart
  <1>17. CASE UNCHANGED vars
    BY <1>17 DEF vars
  <1> QED
    BY <1>3, <1>4, <1>5, <1>6, <1>7, <1>8, <1>9, <1>10, <1>11, <1>12, <1>13, <1>14, <1>15, <1>16, <1>17
       DEF Next, Applying, Filter

LEMMA HistoryNext == HistoryTypes /\ [Next]_vars => HistoryTypes'
  <1> SUFFICES ASSUME HistoryTypes, [Next]_vars PROVE HistoryTypes'
    OBVIOUS
  <1> USE DEF HistoryTypes
  <1>1. CASE JoinOk \/ LinkDown
    BY <1>1 DEF JoinOk, LinkDown, stationUnchanged, history, result, ota, bounds
  <1>2. CASE Dispatch
    BY <1>2 DEF Dispatch, OnDisconnected, OnGotIp, GotIp, OnStaStart, OnCredFail, OnCredSuccess, OnEnd,
                eventUnchanged, ota, bounds
  <1>3. ASSUME NEW c \in Forms[app], Post(c) PROVE HistoryTypes'
    <2>1. posts' \in Nat
      BY <1>3 DEF Post
    <2> QED
      BY <1>3, <2>1 DEF Post, history, ota, httpdUnchanged
  <1>4. CASE Applying
    <2>1. UNCHANGED <<posts, otas, restarts, left>>
      BY <1>4 DEF Applying, Apply, Direct, Announce, Listen, Prepare, Filter, Scan, Pick, Skip, Connected,
                  TimedOut, NextRound, ReleaseTimer, ReleaseGroup, Report, TellPhone, httpdUnchanged,
                  filterUnchanged, ota
    <2>2. flag' \in {flag, FALSE} /\ heard' \in {heard, FALSE} /\ reached' \in {reached, FALSE}
      BY <1>4 DEF Applying, Apply, ClearFlag, Direct, Announce, Listen, Prepare, Filter, Scan, Pick, Skip,
                  Connected, TimedOut, NextRound, ReleaseTimer, ReleaseGroup, Report, TellPhone,
                  filterUnchanged, result, history
    <2> QED
      BY <2>1, <2>2
  <1>5. CASE AcceptResult
    BY <1>5 DEF AcceptResult, history, ota, httpdUnchanged
  <1>6. CASE OtaBegin
    <2>1. otas' \in Nat
      BY <1>6 DEF OtaBegin
    <2> QED
      BY <1>6, <2>1 DEF OtaBegin, otaUnchanged, result, history
  <1>7. CASE OtaChunk
    <2>1. left' \in 0..2
      BY <1>7 DEF OtaChunk
    <2> QED
      BY <1>7, <2>1 DEF OtaChunk, otaUnchanged, result, history
  <1>8. CASE OtaFails \/ OtaEnd
    BY <1>8 DEF OtaFails, OtaEnd, otaUnchanged, result, history
  <1>9. CASE TimerTask
    BY <1>9 DEF TimerTask, Command, Poll, Finish, StopTimer, Success, SetBits, timerUnchanged, ota, bounds
  <1>10. CASE Main
    BY <1>10 DEF Main, MainWeb, MainBegin, MainProvisioned, MainStart, MainCreate, MainArm, mainUnchanged,
                 result, history, ota, bounds
  <1>11. CASE Expire \/ ExpirePost \/ (\E c \in AP : Credentials(c)) \/ MgrStop \/ MgrEnd
    BY <1>11 DEF Expire, ExpirePost, Credentials, MgrStop, MgrEnd, provUnchanged, result, ota, bounds
  <1>12. CASE PowerCycle
    <2>1. restarts' \in Nat
      BY <1>12 DEF PowerCycle
    <2>2. flag' = FALSE /\ heard' = FALSE /\ reached' = FALSE
      BY <1>12 DEF PowerCycle, Restart
    <2>3. left' \in 0..2 /\ UNCHANGED <<posts, otas>>
      BY <1>12 DEF PowerCycle, Restart
    <2> QED
      BY <2>1, <2>2, <2>3
  <1>13. CASE Panic
    <2>1. flag' = FALSE /\ heard' = FALSE /\ reached' = FALSE
      BY <1>13 DEF Panic, Restart
    <2>2. left' \in 0..2 /\ UNCHANGED <<posts, otas, restarts>>
      BY <1>13 DEF Panic, Restart
    <2> QED
      BY <2>1, <2>2
  <1>14. CASE UNCHANGED vars
    BY <1>14 DEF vars, history, result, ota, bounds
  <1> QED
    BY <1>1, <1>2, <1>3, <1>4, <1>5, <1>6, <1>7, <1>8, <1>9, <1>10, <1>11, <1>12, <1>13, <1>14 DEF Next

\* retries stays below its limit: the failure that would reach it sets it to zero.
LEMMA ProvNext == ProvTypes /\ [Next]_vars => ProvTypes'
  <1> SUFFICES ASSUME ProvTypes, [Next]_vars PROVE ProvTypes'
    OBVIOUS
  <1> USE DEF ProvTypes
  <1>1. CASE \/ JoinOk \/ LinkDown \/ AcceptResult \/ Applying \/ TimerTask
             \/ OtaBegin \/ OtaChunk \/ OtaFails \/ OtaEnd
             \/ \E c \in Forms[app] : Post(c)
    <2>1. UNCHANGED <<wifi_prov_status, mgr, cred, ptimer, pcb>>
      BY <1>1, ProvFrame
    <2>2. retries' = retries
      <3>1. CASE JoinOk \/ LinkDown
        BY <3>1 DEF JoinOk, LinkDown, stationUnchanged, prov
      <3>2. CASE AcceptResult \/ \E c \in Forms[app] : Post(c)
        BY <3>2 DEF AcceptResult, Post, httpdUnchanged, prov
      <3>3. CASE Applying
        BY <3>3 DEF Applying, Apply, Direct, Announce, Listen, Prepare, Filter, Scan, Pick, Skip, Connected,
                    TimedOut, NextRound, ReleaseTimer, ReleaseGroup, Report, TellPhone, httpdUnchanged,
                    filterUnchanged, prov
      <3>4. CASE TimerTask
        BY <3>4 DEF TimerTask, Command, Poll, Finish, StopTimer, Success, SetBits, timerUnchanged, prov
      <3>5. CASE OtaBegin \/ OtaChunk \/ OtaFails \/ OtaEnd
        BY <3>5 DEF OtaBegin, OtaChunk, OtaFails, OtaEnd, otaUnchanged, prov
      <3> QED
        BY <1>1, <3>1, <3>2, <3>3, <3>4, <3>5
    <2> QED
      BY <2>1, <2>2
  <1>2. CASE Dispatch
    <2>1. PROV_MGR_MAX_RETRY_CNT \in Nat \ {0}
      BY WifiSetupAssumption
    <2>2. CASE OnCredFail
      <3>1. ~Exhausted => retries + 1 \in 0..(PROV_MGR_MAX_RETRY_CNT - 1)
        BY <2>1 DEF Exhausted
      <3>2. retries' \in 0..(PROV_MGR_MAX_RETRY_CNT - 1)
        BY <2>1, <2>2, <3>1 DEF OnCredFail
      <3>3. cred' \in {cred, "none"} /\ UNCHANGED <<wifi_prov_status, mgr, ptimer, pcb>>
        BY <2>2 DEF OnCredFail, eventUnchanged
      <3> QED
        BY <3>2, <3>3
    <2>3. CASE OnDisconnected \/ OnGotIp \/ OnStaStart \/ OnCredSuccess \/ OnEnd
      <3>1. retries' \in 0..(PROV_MGR_MAX_RETRY_CNT - 1)
        BY <2>1, <2>3 DEF OnDisconnected, OnGotIp, OnStaStart, OnCredSuccess, OnEnd
      <3>2. /\ wifi_prov_status' \in BOOLEAN /\ mgr' \in {mgr, "none"} /\ cred' \in {cred, "ok", "none"}
            /\ ptimer' \in {ptimer, "deleted"} /\ pcb' = pcb
        BY <2>3 DEF OnDisconnected, OnGotIp, OnStaStart, OnCredSuccess, OnEnd, eventUnchanged
      <3> QED
        BY <3>1, <3>2
    <2> QED
      BY <1>2, <2>2, <2>3 DEF Dispatch
  <1>3. CASE Main
    <2>1. /\ wifi_prov_status' \in BOOLEAN /\ mgr' \in {mgr, "none", "init", "running"}
          /\ UNCHANGED <<cred, pcb, retries>> /\ ptimer' \in {ptimer, "created", "armed"}
      BY <1>3 DEF Main, MainWeb, MainBegin, MainProvisioned, MainStart, MainCreate, MainArm, ArmTimer, prov
    <2> QED
      BY <2>1
  <1>4. CASE Expire \/ ExpirePost \/ (\E c \in AP : Credentials(c)) \/ MgrStop \/ MgrEnd
    BY <1>4 DEF Expire, ExpirePost, Credentials, MgrStop, MgrEnd
  <1>5. CASE PowerCycle \/ Panic
    <2>1. 0 \in 0..(PROV_MGR_MAX_RETRY_CNT - 1)
      BY WifiSetupAssumption
    <2> QED
      BY <1>5, <2>1 DEF PowerCycle, Panic, Restart
  <1>6. CASE UNCHANGED vars
    BY <1>6 DEF vars, prov
  <1> QED
    BY <1>1, <1>2, <1>3, <1>4, <1>5, <1>6 DEF Next

LEMMA TypesInit == Init => StationTypes /\ ScanTypes /\ HistoryTypes /\ ProvTypes
  <1> SUFFICES ASSUME Init PROVE StationTypes /\ ScanTypes /\ HistoryTypes /\ ProvTypes
    OBVIOUS
  <1>1. StationTypes
    BY JoiningType DEF Init, Start, StationTypes
  <1>2. ScanTypes
    <2>1. sf = NoScan /\ timeout = WIFI_MAX_RECONNECT_TIMEOUT /\ group = "none"
      BY DEF Init, Start
    <2> QED
      BY <2>1 DEF ScanTypes, NoScan
  <1>3. HistoryTypes
    <2>1. posts \in Nat /\ otas \in Nat /\ restarts \in Nat
      BY WifiSetupAssumption DEF Init
    <2>2. flag = FALSE /\ heard = FALSE /\ reached = FALSE
      BY DEF Init, Start
    <2>3. left \in 0..2
      BY DEF Init, Start
    <2> QED
      BY <2>1, <2>2, <2>3 DEF HistoryTypes
  <1>4. ProvTypes
    <2>1. 0 \in 0..(PROV_MGR_MAX_RETRY_CNT - 1)
      BY WifiSetupAssumption
    <2> QED
      BY <2>1 DEF Init, Start, ProvTypes
  <1> QED
    BY <1>1, <1>2, <1>3, <1>4

\* The invariants of the three parts and these types are all of TypeOK.
LEMMA TypesAreAll ==
  OtaInv /\ DeleteInv /\ AttemptInv /\ StationTypes /\ ScanTypes /\ HistoryTypes /\ ProvTypes => TypeOK
  <1> SUFFICES ASSUME OtaInv, DeleteInv, AttemptInv, StationTypes, ScanTypes, HistoryTypes, ProvTypes
               PROVE  TypeOK
    OBVIOUS
  <1>1. \A i \in DOMAIN events :
           events[i] \in {"got_ip", "disconnected", "cred_fail", "cred_success", "end", "sta_start"}
    <2>1. events \in Seq(Event)
      BY DEF DeleteInv
    <2> QED
      BY <2>1 DEF Event
  <1>2. /\ \A i \in DOMAIN timers :
              timers[i] \in [fn : {"status", "success"}, state : {"created", "running", "stopped", "deleted"}]
        /\ handle \in 0..Len(timers) /\ connect_count \in Nat \ {0}
        /\ cb \in {"idle", "OK", "FAIL", "stop", "drain", "set"}
        /\ status \in {"NOT_START", "CONNECTING", "FAIL", "OK"}
        /\ httpd \in {"idle", "delay", "direct", "announce", "listen", "prepare", "scan", "pick", "wait",
                      "refused", "next", "timer", "group", "report", "udp", "ota"}
    <2>1. timers \in Seq(Timer)
      BY DEF AttemptInv, TimerTypes
    <2>2. \A i \in DOMAIN timers :
             timers[i] \in [fn : {"status", "success"}, state : {"created", "running", "stopped", "deleted"}]
      <3>1. \A i \in DOMAIN timers : timers[i] \in Timer
        BY <2>1
      <3> QED
        BY <3>1 DEF Timer
    <2> QED
      BY <2>2 DEF AttemptInv, TimerTypes
  <1>3. \A k \in DOMAIN cmds : cmds[k] \in [cmd : {"start", "stop", "delete"}, id : 0..Len(timers)]
    <2>1. Quiet \/ \E i, fn : Starting(i, fn) \/ Going(i, fn) \/ Ending(i, fn)
      BY DEF AttemptInv, TimerTypes, Attempt, Released, Polling, Stopping
    <2>2. CASE Quiet
      BY <2>2 DEF Quiet
    <2>3. ASSUME NEW i, NEW fn, Starting(i, fn) \/ Going(i, fn) \/ Ending(i, fn)
          PROVE  \A k \in DOMAIN cmds : cmds[k] \in [cmd : {"start", "stop", "delete"}, id : 0..Len(timers)]
      <3>1. i \in 1..Len(timers) /\ Len(timers) \in Nat
        BY <2>3 DEF Starting, Going, Ending, Only, AttemptInv, TimerTypes
      <3>2. \/ cmds = <<>> \/ cmds = <<Cmd("start", i)>>
            \/ cmds = <<Cmd("start", i), Cmd("stop", i), Cmd("delete", i)>>
            \/ cmds = <<Cmd("stop", i), Cmd("delete", i)>>
            \/ cmds = <<Cmd("delete", i)>>
        BY <2>3 DEF Starting, Going, Ending, Only
      <3>3. \A k \in DOMAIN cmds : cmds[k] \in [cmd : {"start", "stop", "delete"}, id : {i}]
        BY <3>2, CommandsOfOne
      <3>4. i \in 0..Len(timers)
        BY <3>1
      <3> QED
        BY <3>3, <3>4
    <2> QED
      BY <2>1, <2>2, <2>3
  <1>4. deletes \in Nat /\ main \in {"web", "begin", "status", "start", "create", "arm", "done"}
    BY DEF DeleteInv
  <1> QED
    BY <1>1, <1>2, <1>3, <1>4 DEF TypeOK, OtaInv, StationTypes, ScanTypes, HistoryTypes, ProvTypes

\* Every variable keeps its type, with any number of forms, updates and restarts.
THEOREM TypeCorrect == Spec => []TypeOK
  <1>1. /\ StationTypes /\ ScanTypes /\ HistoryTypes /\ ProvTypes /\ [Next]_vars
           => (StationTypes /\ ScanTypes /\ HistoryTypes /\ ProvTypes)'
    BY StationNext, ScanNext, HistoryNext, ProvNext
  <1> QED
    BY <1>1, TypesInit, TypesAreAll, OtaInvHolds, DeleteInvHolds, AttemptInvHolds, PTL DEF Spec
=============================================================================
