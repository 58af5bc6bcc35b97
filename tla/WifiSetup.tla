----------------------------- MODULE WifiSetup -----------------------------
(***************************************************************************)
(* How the station gets its access point: the web server's form            *)
(* (web_server.c), provisioning over BLE (wifi_prov_mgr.c), the handlers    *)
(* of bridge_wifi.c, and the firmware update the web server also takes.    *)
(*                                                                         *)
(* Four tasks of the firmware work on the same state: the HTTP server, the *)
(* FreeRTOS timer task, the event loop and app_main(); esp_timer has a     *)
(* fifth.  The Wi-Fi driver, the phone and the provisioning manager are    *)
(* external: nothing is assumed of an answer except the attempt it is for. *)
(***************************************************************************)
EXTENDS Integers, SequencesExt, FiniteSets

CONSTANTS
    AP, NoAP,       \* access points with a security the filter accepts; the empty SSID
    Match,          \* those whose BSSID resembles the phone's address
    Virtual,        \* those with a virtual BSSID
    WIFI_MAX_RECONNECT_TIMEOUT,  \* s_web_wifi_reconnect_timeout at first, and ...
    WEB_RECONNECT_TIMEOUT,       \* ... once StartWebServer() has set it
    BROADCAST_TIME,              \* kept back for telling the phone
    TRY_CONNECT_TIMEOUT, LAST_SCAN_TIMEOUT, TIMER_POLLING_PERIOD,
    PROV_MGR_MAX_RETRY_CNT,
    MaxEvents,      \* bound: the event loop's queue
    Forms,          \* bound: the SSIDs posted, by what the application contains
    MaxPosts, MaxOtas, MaxRestarts  \* bounds: forms and updates posted, restarts by the user

ASSUME WifiSetupAssumption ==
    /\ IsFiniteSet(AP) /\ NoAP \notin AP /\ Match \subseteq AP /\ Virtual \subseteq AP
    /\ {WIFI_MAX_RECONNECT_TIMEOUT, WEB_RECONNECT_TIMEOUT, BROADCAST_TIME, TRY_CONNECT_TIMEOUT,
        LAST_SCAN_TIMEOUT, TIMER_POLLING_PERIOD, PROV_MGR_MAX_RETRY_CNT, MaxEvents} \subseteq Nat \ {0}
    /\ LAST_SCAN_TIMEOUT < 2 * TRY_CONNECT_TIMEOUT
    /\ Forms \in [SUBSET {"web", "prov"} -> SUBSET (AP \union {NoAP})]
    /\ {MaxPosts, MaxOtas, MaxRestarts} \subseteq Nat

VARIABLES
    app,            \* what the application was built with
    main,           \* how far app_main() has come
    \* the station and the default event loop
    conf, sta, events,
    \* web_server.c
    status,         \* s_wifi_sta_connection_info.config_status
    ssid,           \* s_wifi_sta_connect_config.ssid
    flag,           \* s_sta_got_ip_flag
    timeout,        \* s_web_wifi_reconnect_timeout
    httpd, sf,      \* the HTTP server's task: where it is; the scan filter's variables
    group,          \* s_wifi_sta_connect_event_group: none, or its CONNECTED bit
    handle, timers, \* s_wifi_sta_connect_timer_handler; the timers created
    cmds, cb,       \* the timer task: its command queue, the callback it is in
    connect_count,  \* static in listen_sta_connect_status_timer_cb()
    boot, running, image, left,     \* the two slots; chunks of the update still to come
    \* wifi_prov_mgr.c
    wifi_prov_status, mgr, cred, retries,
    ptimer, pcb,    \* deinit_wifi_prov_mgr_timer; its callback
    deletes,        \* calls of esp_timer_delete()
    \* history and bounds
    heard,          \* a GOT_IP was handled since the form was applied
    aim, reached,   \* the access point asked for; the station got an address there
    posts, otas, restarts   \* how many are left

station  == <<conf, sta, events>>
result   == <<status, ssid, flag>>
timerTask == <<handle, timers, cmds, cb, connect_count>>
ota      == <<boot, running, image, left>>
prov     == <<wifi_prov_status, mgr, cred, retries, ptimer, pcb, deletes>>
history  == <<heard, aim, reached>>
bounds   == <<posts, otas, restarts>>
vars == <<app, main, station, result, timeout, httpd, sf, group, timerTask, ota, prov, history, bounds>>

Slot == {"ota_0", "ota_1"}
Other(s) == CHOOSE x \in Slot : x # s

\* esp_web_start_scan_filter()'s variables
NoScan == [avail |-> 0, max_try |-> 0, count |-> 0, last_scan |-> FALSE, list |-> <<>>,
           failed |-> {}, ok |-> FALSE, phone |-> FALSE, phase |-> "match"]

TypeOK ==
    /\ app \in SUBSET {"web", "prov"} /\ main \in {"web", "begin", "status", "start", "create", "arm", "done"}
    /\ conf \in AP \union {NoAP}
    /\ sta \in [ap : AP \union {NoAP}, link : {"off", "joining", "up"}]
    /\ \A i \in DOMAIN events :
          events[i] \in {"got_ip", "disconnected", "cred_fail", "cred_success", "end", "sta_start"}
    /\ status \in {"NOT_START", "CONNECTING", "FAIL", "OK"} /\ ssid \in AP \union {NoAP}
    /\ {flag, wifi_prov_status, heard, reached} \subseteq BOOLEAN
    /\ timeout \in {WIFI_MAX_RECONNECT_TIMEOUT, WEB_RECONNECT_TIMEOUT}
    /\ httpd \in {"idle", "delay", "direct", "announce", "listen", "prepare", "scan", "pick", "wait",
                  "refused", "next", "timer", "group", "report", "udp", "ota"}
    /\ sf \in [avail : Int, max_try : Int, count : Nat, last_scan : BOOLEAN, list : Seq(AP),
               failed : SUBSET AP, ok : BOOLEAN, phone : BOOLEAN, phase : {"match", "virtual", "rssi"}]
    /\ group \in {"none", "clear", "set"}
    /\ handle \in 0..Len(timers)
    /\ \A i \in DOMAIN timers :
          timers[i] \in [fn : {"status", "success"}, state : {"created", "running", "stopped", "deleted"}]
    /\ \A i \in DOMAIN cmds : cmds[i] \in [cmd : {"start", "stop", "delete"}, id : 0..Len(timers)]
    /\ cb \in {"idle", "OK", "FAIL", "stop", "drain", "set"}
    /\ connect_count \in Nat \ {0}
    /\ {boot, running} \subseteq Slot /\ image \in [Slot -> {"whole", "part"}] /\ left \in 0..2
    /\ mgr \in {"none", "init", "running", "stopping", "stopped"}
    /\ cred \in {"none", "trying", "ok"} /\ retries \in 0..(PROV_MGR_MAX_RETRY_CNT - 1)
    /\ ptimer \in {"none", "created", "armed", "off", "deleted"} /\ pcb \in {"idle", "post"}
    /\ {deletes, posts, otas, restarts} \subseteq Nat
    /\ aim \in AP \union {NoAP}

Start(link) ==
    /\ main = "web" /\ sta = link /\ events = <<>>
    /\ status = "NOT_START" /\ ssid = NoAP /\ flag = FALSE
    /\ timeout = WIFI_MAX_RECONNECT_TIMEOUT
    /\ httpd = "idle" /\ sf = NoScan /\ group = "none"
    /\ handle = 0 /\ timers = <<>> /\ cmds = <<>> /\ cb = "idle" /\ connect_count = 1
    /\ left = 0
    /\ wifi_prov_status = FALSE /\ mgr = "none" /\ cred = "none" /\ retries = 0
    /\ ptimer = "none" /\ pcb = "idle" /\ deletes = 0
    /\ heard = FALSE /\ aim = NoAP /\ reached = FALSE

\* app_main() has created the netifs and called esp_wifi_connect().
Joining(c) == [ap |-> c, link |-> IF c = NoAP THEN "off" ELSE "joining"]

Init ==
    /\ app \in SUBSET {"web", "prov"} /\ app # {}
    /\ conf \in AP \union {NoAP} /\ Start(Joining(conf))
    /\ boot = "ota_0" /\ running = "ota_0" /\ image = [s \in Slot |-> "whole"]
    /\ posts \in 0..MaxPosts /\ otas \in 0..MaxOtas /\ restarts \in 0..MaxRestarts

\* Operators named Bug_... are plausible mistakes in the operation they stand
\* beside; no action uses them.

-----------------------------------------------------------------------------
(* The Wi-Fi driver and the event loop *)

Room == Len(events) < MaxEvents

\* esp_wifi_connect() does nothing for a station that is joined or joining.
Connect(s, c) == IF s.link = "off" THEN Joining(c) ELSE s

\* esp_wifi_disconnect()
Disconnected(evs) == IF sta.link = "off" THEN evs ELSE Append(evs, "disconnected")

\* esp_web_wifi_connect(): set the configuration, disconnect, connect.
WifiConnect(c) ==
    /\ conf' = c /\ sta' = Joining(c) /\ events' = Disconnected(events)

stationUnchanged == <<app, main, result, timeout, httpd, sf, group, timerTask, ota, prov, bounds>>

JoinOk ==
    /\ sta.link = "joining" /\ Room
    /\ sta' = [sta EXCEPT !.link = "up"] /\ events' = Append(events, "got_ip")
    /\ reached' = (reached \/ sta.ap = aim)
    /\ UNCHANGED <<conf, heard, aim, stationUnchanged>>

\* It could not join, or the link is lost.
LinkDown ==
    /\ sta.link # "off" /\ Room
    /\ sta' = [sta EXCEPT !.link = "off"] /\ events' = Append(events, "disconnected")
    /\ UNCHANGED <<conf, history, stationUnchanged>>

\* event_handler() of wifi_prov_mgr.c, for the events it answers
Bug_ProvIgnores == FALSE
ProvIgnores == ~wifi_prov_status

GotIp == flag' = ("web" \in app \/ flag)

eventUnchanged == <<app, main, status, ssid, timeout, httpd, sf, group, timerTask, ota, pcb, aim, reached, bounds>>

\* wifi_event_sta_disconnected_handler() connects again; the provisioning
\* manager reports the failure of credentials it was given.
OnDisconnected ==
    /\ Head(events) = "disconnected"
    /\ sta' = Connect(sta, conf)
    /\ events' = IF mgr = "running" /\ cred = "trying" THEN Append(Tail(events), "cred_fail") ELSE Tail(events)
    /\ UNCHANGED <<conf, flag, heard, wifi_prov_status, mgr, cred, retries, ptimer, deletes, eventUnchanged>>

OnGotIp ==
    /\ Head(events) = "got_ip"
    /\ GotIp /\ heard' = TRUE
    /\ LET accepted == mgr = "running" /\ cred = "trying"
       IN  /\ cred' = IF accepted THEN "ok" ELSE cred
           /\ events' = IF accepted THEN Append(Tail(events), "cred_success") ELSE Tail(events)
    /\ UNCHANGED <<conf, sta, wifi_prov_status, mgr, retries, ptimer, deletes, eventUnchanged>>

OnStaStart ==
    /\ Head(events) = "sta_start"
    /\ sta' = IF ProvIgnores THEN sta ELSE Connect(sta, conf)
    /\ events' = Tail(events)
    /\ UNCHANGED <<conf, flag, heard, wifi_prov_status, mgr, cred, retries, ptimer, deletes, eventUnchanged>>

\* After PROV_MGR_MAX_RETRY_CNT failures the manager forgets the credentials.
Bug_Exhausted == retries >= PROV_MGR_MAX_RETRY_CNT
Exhausted == retries + 1 >= PROV_MGR_MAX_RETRY_CNT

OnCredFail ==
    /\ Head(events) = "cred_fail"
    /\ IF ProvIgnores \/ ~Exhausted
       THEN /\ retries' = IF ProvIgnores THEN retries ELSE retries + 1
            /\ events' = Tail(events)
            /\ UNCHANGED <<conf, sta, cred>>
       ELSE /\ retries' = 0 /\ cred' = "none"
            /\ conf' = NoAP /\ sta' = Joining(NoAP) /\ events' = Disconnected(Tail(events))
    /\ UNCHANGED <<flag, heard, wifi_prov_status, mgr, ptimer, deletes, eventUnchanged>>

OnCredSuccess ==
    /\ Head(events) = "cred_success"
    /\ retries' = IF ProvIgnores THEN retries ELSE 0
    /\ events' = Tail(events)
    /\ UNCHANGED <<conf, sta, flag, heard, wifi_prov_status, mgr, cred, ptimer, deletes, eventUnchanged>>

\* NETWORK_PROV_END: delete the timer, whatever its callback is doing, and
\* the manager, which reports the end of a service that was still running.
OnEnd ==
    /\ Head(events) = "end"
    /\ IF ProvIgnores
       THEN events' = Tail(events) /\ UNCHANGED <<wifi_prov_status, mgr, cred, ptimer, deletes>>
       ELSE /\ ptimer' = IF ptimer = "none" THEN ptimer ELSE "deleted"
            /\ deletes' = IF ptimer = "none" THEN deletes ELSE deletes + 1
            /\ mgr' = "none" /\ cred' = "none"
            /\ events' = IF mgr \in {"running", "stopping"} THEN Append(Tail(events), "end") ELSE Tail(events)
            /\ wifi_prov_status' = FALSE
    /\ UNCHANGED <<conf, sta, flag, heard, retries, eventUnchanged>>

Dispatch ==
    /\ events # <<>>
    /\ OnDisconnected \/ OnGotIp \/ OnStaStart \/ OnCredFail \/ OnCredSuccess \/ OnEnd

-----------------------------------------------------------------------------
(* The HTTP server: /setstainfo and /getresult *)

httpdUnchanged == <<app, main, timeout, ota, prov, otas, restarts>>

\* config_wifi_post_handler() accepts the form.  A form it refuses, for the
\* status or for its contents, changes nothing.  c = NoAP is a form without an
\* SSID; udp says whether WeChat posted it or a browser.
Post(c) ==
    /\ httpd = "idle" /\ "web" \in app /\ status # "CONNECTING"
    /\ posts > 0 /\ posts' = posts - 1
    /\ ssid' = c
    /\ httpd' = "delay"
    /\ UNCHANGED <<station, status, flag, sf, group, timerTask, history, httpdUnchanged>>

\* The handler has slept 300 ms, and the timer task has finished what it was at.
Bug_Slept == TRUE
Slept == cb = "idle" /\ cmds = <<>>

Bug_ClearFlag == UNCHANGED flag
ClearFlag == flag' = FALSE

\* esp_web_get_mobile_phone_mac() and the start of esp_web_apply_wifi_connect_info()
Apply(udp) ==
    /\ httpd = "delay" /\ Slept
    /\ ClearFlag /\ heard' = FALSE /\ aim' = ssid /\ reached' = FALSE
    /\ IF ssid # NoAP \/ ~udp
       THEN httpd' = "direct" /\ UNCHANGED sf
       ELSE /\ httpd' = "prepare"
            /\ \E found \in BOOLEAN :
                  sf' = [NoScan EXCEPT !.phone = found, !.avail = timeout - BROADCAST_TIME]
    /\ UNCHANGED <<station, status, ssid, group, timerTask, posts, httpdUnchanged>>

\* esp_web_try_connect() without waiting.  The driver may refuse the configuration.
Direct ==
    /\ httpd = "direct"
    /\ \/ WifiConnect(ssid) /\ httpd' = "announce" /\ UNCHANGED status
       \/ WifiConnect(conf) /\ httpd' = "idle" /\ status' = "NOT_START"
    /\ reached' = FALSE
    /\ UNCHANGED <<ssid, flag, sf, group, timerTask, heard, aim, posts, httpdUnchanged>>

Announce ==
    /\ httpd = "announce" /\ httpd' = "listen"
    /\ status' = "CONNECTING"
    /\ UNCHANGED <<station, ssid, flag, sf, group, timerTask, history, posts, httpdUnchanged>>

\* xTimerCreate() and xTimerStart()
NewTimer(fn) ==
    /\ timers' = Append(timers, [fn |-> fn, state |-> "created"])
    /\ handle' = Len(timers) + 1
    /\ cmds' = Append(cmds, [cmd |-> "start", id |-> Len(timers) + 1])

Listen ==
    /\ httpd = "listen" /\ httpd' = "idle"
    /\ NewTimer("status")
    /\ UNCHANGED <<station, result, sf, group, cb, connect_count, history, posts, httpdUnchanged>>

\* The filter returns, and its variables are gone.
FilterEnds == httpd' = "timer" /\ sf' = [NoScan EXCEPT !.ok = sf.ok]

\* Without an SSID: disconnect, create the event group and the timer.
Prepare ==
    /\ httpd = "prepare"
    /\ sta' = Joining(NoAP) /\ events' = Disconnected(events)
    /\ group' = "clear" /\ NewTimer("success") /\ status' = "CONNECTING"
    /\ IF sf.avail <= 0
       THEN FilterEnds
       ELSE httpd' = "scan" /\ sf' = [sf EXCEPT !.max_try = sf.avail \div TRY_CONNECT_TIMEOUT]
    /\ UNCHANGED <<conf, ssid, flag, cb, connect_count, history, posts, httpdUnchanged>>

\* The access points that pass esp_web_check_ap_info(), strongest first
Scans == {l \in UNION {[1..n -> AP] : n \in 1..Cardinality(AP)} :
             \A i, j \in DOMAIN l : l[i] = l[j] => i = j}

filterUnchanged == <<conf, sta, events, ssid, status, flag, timerTask, heard, posts, httpdUnchanged>>

Bug_LastScan(avail) == avail <= 2 * TRY_CONNECT_TIMEOUT
LastScan(avail) == avail <= LAST_SCAN_TIMEOUT

\* No attempt left, or a scan that fails or finds nothing: the filter ends.
Scan ==
    /\ httpd = "scan"
    /\ \/ FilterEnds
       \/ /\ sf.max_try > 0 /\ httpd' = "pick"
          /\ \E l \in Scans :
                sf' = [sf EXCEPT !.last_scan = @ \/ LastScan(sf.avail), !.count = 0, !.list = l, !.phase = "match"]
    /\ UNCHANGED <<group, aim, reached, filterUnchanged>>

\* Where in the list the entries of a phase are that are not on the fail list
Candidates ==
    LET fits(a) == CASE sf.phase = "match" -> sf.phone /\ a \in Match
                     [] sf.phase = "virtual" -> a \in Virtual
                     [] OTHER -> a = sf.list[1]
    IN  {i \in DOMAIN sf.list : fits(sf.list[i]) /\ sf.list[i] \notin sf.failed}

\* The later phases are for the last scan, and while attempts are left.
Enters == sf.phase = "match" \/ (sf.last_scan /\ ~sf.ok /\ sf.count < sf.max_try)

\* esp_web_try_connect() waits even when the driver refuses the configuration.
Pick ==
    /\ httpd = "pick" /\ Enters /\ sf.count < sf.max_try
    /\ \E i \in Candidates :
          /\ \A j \in Candidates : i <= j
          /\ aim' = sf.list[i]
          /\ \/ WifiConnect(sf.list[i]) /\ httpd' = "wait"
             \/ WifiConnect(conf) /\ httpd' = "refused"
    /\ reached' = FALSE
    /\ sf' = [sf EXCEPT !.count = @ + 1]
    /\ UNCHANGED <<group, ssid, status, flag, timerTask, heard, posts, httpdUnchanged>>

After(phase) == IF phase = "match" THEN "virtual" ELSE "rssi"

Skip ==
    /\ httpd = "pick" /\ (Enters => Candidates = {})
    /\ IF sf.phase = "rssi"
       THEN httpd' = "next" /\ UNCHANGED sf
       ELSE UNCHANGED httpd /\ sf' = [sf EXCEPT !.phase = After(sf.phase)]
    /\ UNCHANGED <<group, aim, reached, filterUnchanged>>

PhaseOver == httpd' = IF sf.phase = "rssi" THEN "next" ELSE "pick"

\* xEventGroupWaitBits() returns with the bit, and clears it.
Connected ==
    /\ httpd = "wait" /\ group = "set"
    /\ group' = "clear" /\ PhaseOver
    /\ sf' = [sf EXCEPT !.ok = TRUE, !.phase = After(sf.phase)]
    /\ UNCHANGED <<aim, reached, filterUnchanged>>

\* It times out, or the driver had refused, whatever the bit says: the access
\* point goes from the list to the fail list.
TimedOut ==
    /\ (httpd = "wait" /\ group # "set") \/ httpd = "refused"
    /\ group' = (IF group = "set" THEN "clear" ELSE group) /\ PhaseOver
    /\ \E i \in DOMAIN sf.list :
          /\ sf.list[i] = aim
          /\ sf' = [sf EXCEPT !.failed = @ \union {aim}, !.phase = After(sf.phase),
                              !.list = RemoveAt(@, i)]
    /\ UNCHANGED <<aim, reached, filterUnchanged>>

\* The end of a round, which took d of the time.
NextRound ==
    /\ httpd = "next"
    /\ \/ sf.ok /\ FilterEnds
       \/ /\ ~sf.ok
          /\ \E d \in 0..sf.avail :
                IF d = 0 \/ d = sf.avail
                THEN FilterEnds
                ELSE /\ httpd' = "scan"
                     /\ sf' = [sf EXCEPT !.list = <<>>, !.avail = @ - d,
                                         !.max_try = (sf.avail - d) \div TRY_CONNECT_TIMEOUT]
    /\ UNCHANGED <<group, aim, reached, filterUnchanged>>

\* esp_web_apply_wifi_connect_info() releases the timer, ...
ReleaseTimer ==
    /\ httpd = "timer" /\ httpd' = "group"
    /\ cmds' = cmds \o <<[cmd |-> "stop", id |-> handle], [cmd |-> "delete", id |-> handle]>>
    /\ handle' = 0
    /\ UNCHANGED <<station, result, sf, group, timers, cb, connect_count, history, posts, httpdUnchanged>>

\* ... the event group and the form.
ReleaseGroup ==
    /\ httpd = "group" /\ httpd' = "report"
    /\ group' = "none" /\ ssid' = NoAP
    /\ UNCHANGED <<station, status, flag, sf, timerTask, history, posts, httpdUnchanged>>

Report ==
    /\ httpd = "report"
    /\ IF sf.ok THEN status' = "OK" /\ httpd' = "udp"
                ELSE status' = "FAIL" /\ httpd' = "idle"
    /\ sf' = NoScan
    /\ UNCHANGED <<station, ssid, flag, group, timerTask, history, posts, httpdUnchanged>>

\* The address is broadcast until the phone answers, 20 times at most.
TellPhone ==
    /\ httpd = "udp" /\ httpd' = "idle"
    /\ \E created \in BOOLEAN : status' = IF created THEN status ELSE "NOT_START"
    /\ UNCHANGED <<station, ssid, flag, sf, group, timerTask, history, posts, httpdUnchanged>>

\* accept_wifi_result_post_handler()
AcceptResult ==
    /\ httpd = "idle" /\ status \in {"FAIL", "OK"}
    /\ status' = "NOT_START" /\ ssid' = NoAP
    /\ UNCHANGED <<station, flag, httpd, sf, group, timerTask, history, posts, httpdUnchanged>>

Filter == Scan \/ Pick \/ Skip \/ Connected \/ TimedOut \/ NextRound
Applying == (\E udp \in BOOLEAN : Apply(udp)) \/ Direct \/ Announce \/ Listen \/ Prepare \/ Filter
               \/ ReleaseTimer \/ ReleaseGroup \/ Report \/ TellPhone

-----------------------------------------------------------------------------
(* The HTTP server: /setotadata *)

otaUnchanged == <<app, main, station, result, timeout, sf, group, timerTask, prov, history, posts, restarts>>

\* esp_ota_get_next_update_partition(NULL)
Bug_Update == Other(boot)
Update == Other(running)

\* An update too large, or one esp_ota_begin() refuses, changes nothing.
OtaBegin ==
    /\ httpd = "idle" /\ "web" \in app /\ otas > 0 /\ otas' = otas - 1
    /\ httpd' = "ota" /\ left' = 2
    /\ image' = [image EXCEPT ![Update] = "part"]
    /\ UNCHANGED <<boot, running, otaUnchanged>>

OtaChunk ==
    /\ httpd = "ota" /\ left > 0 /\ left' = left - 1
    /\ UNCHANGED <<boot, running, image, httpd, otas, otaUnchanged>>

\* The connection or the flash fails.
OtaFails ==
    /\ httpd = "ota" /\ left > 0 /\ httpd' = "idle" /\ left' = 0
    /\ UNCHANGED <<boot, running, image, otas, otaUnchanged>>

\* esp_web_ota_end(): esp_ota_end() finds the image valid or not.
OtaEnd ==
    /\ httpd = "ota" /\ left = 0 /\ httpd' = "idle"
    /\ \/ UNCHANGED <<image, boot>>
       \/ image' = [image EXCEPT ![Update] = "whole"] /\ boot' = Update
    /\ UNCHANGED <<running, left, otas, otaUnchanged>>

-----------------------------------------------------------------------------
(* The timer task *)

timerUnchanged == <<app, main, station, ssid, timeout, httpd, sf, ota, prov, aim, reached, bounds, heard>>

Command ==
    /\ cmds # <<>> /\ cb \in {"idle", "drain"}
    /\ LET c == Head(cmds)
           state == CASE c.cmd = "start" -> "running" [] c.cmd = "stop" -> "stopped" [] OTHER -> "deleted"
       IN  timers' = [timers EXCEPT ![c.id].state = state]
    /\ cmds' = Tail(cmds)
    /\ cb' = IF Len(cmds) = 1 THEN "idle" ELSE cb
    /\ UNCHANGED <<status, flag, group, handle, connect_count, timerUnchanged>>

Fires(fn) == cb = "idle" /\ \E i \in DOMAIN timers : timers[i] = [fn |-> fn, state |-> "running"]

\* listen_sta_connect_status_timer_cb()
Polls == timeout \div TIMER_POLLING_PERIOD

Bug_CountPoll == UNCHANGED connect_count
CountPoll == connect_count' = connect_count + 1

Poll ==
    /\ Fires("status")
    /\ IF connect_count >= Polls THEN cb' = "FAIL" /\ UNCHANGED connect_count
       ELSE IF flag THEN cb' = "OK" /\ UNCHANGED connect_count
       ELSE cb' = "idle" /\ CountPoll
    /\ UNCHANGED <<status, flag, group, handle, timers, cmds, timerUnchanged>>

ResetCount == connect_count' = 1

Finish ==
    /\ cb \in {"OK", "FAIL"} /\ cb' = "stop"
    /\ ResetCount /\ flag' = FALSE /\ status' = cb
    /\ UNCHANGED <<group, handle, timers, cmds, timerUnchanged>>

\* The commands of the timer task itself wait in its queue as well.
StopTimer ==
    /\ cb = "stop" /\ cb' = "drain"
    /\ cmds' = cmds \o <<[cmd |-> "stop", id |-> handle], [cmd |-> "delete", id |-> handle]>>
    /\ UNCHANGED <<status, flag, group, handle, timers, connect_count, timerUnchanged>>

\* listen_sta_connect_success_timer_cb()
Success ==
    /\ Fires("success") /\ status = "CONNECTING" /\ flag
    /\ flag' = FALSE /\ cb' = "set"
    /\ UNCHANGED <<status, group, handle, timers, cmds, connect_count, timerUnchanged>>

SetBits ==
    /\ cb = "set" /\ group # "none"
    /\ group' = "set" /\ cb' = "idle"
    /\ UNCHANGED <<status, flag, handle, timers, cmds, connect_count, timerUnchanged>>

TimerTask == Command \/ Poll \/ Finish \/ StopTimer \/ Success \/ SetBits

-----------------------------------------------------------------------------
(* app_main(), esp_timer and the provisioning manager *)

mainUnchanged == <<app, result, httpd, sf, group, timerTask, ota, history, bounds>>

\* StartWebServer() sets the timeout after it has started the server.
MainWeb ==
    /\ main = "web"
    /\ main' = IF "prov" \in app THEN "begin" ELSE "done"
    /\ timeout' = IF "web" \in app THEN WEB_RECONNECT_TIMEOUT ELSE timeout
    /\ UNCHANGED <<station, prov, mainUnchanged>>

\* esp_bridge_wifi_prov_mgr()
MainBegin ==
    /\ main = "begin" /\ main' = "status"
    /\ wifi_prov_status' = TRUE /\ mgr' = "init"
    /\ UNCHANGED <<station, timeout, cred, retries, ptimer, pcb, deletes, mainUnchanged>>

\* A station that has a configuration counts as provisioned.
MainProvisioned ==
    /\ main = "status" /\ conf # NoAP
    /\ main' = "done" /\ mgr' = "none"
    /\ UNCHANGED <<station, timeout, wifi_prov_status, cred, retries, ptimer, pcb, deletes, mainUnchanged>>

\* Starting the service may start the station.
MainStart ==
    /\ main = "status" /\ conf = NoAP
    /\ main' = "create" /\ mgr' = "running"
    /\ \E first \in BOOLEAN : events' = IF first THEN Append(events, "sta_start") ELSE events
    /\ UNCHANGED <<conf, sta, timeout, wifi_prov_status, cred, retries, ptimer, pcb, deletes, mainUnchanged>>

MainCreate ==
    /\ main = "create" /\ main' = "arm"
    /\ ptimer' = "created"
    /\ UNCHANGED <<station, timeout, wifi_prov_status, mgr, cred, retries, pcb, deletes, mainUnchanged>>

ArmTimer == ptimer' = "armed"

MainArm ==
    /\ main = "arm" /\ main' = "done"
    /\ ArmTimer
    /\ UNCHANGED <<station, timeout, wifi_prov_status, mgr, cred, retries, pcb, deletes, mainUnchanged>>

Main == MainWeb \/ MainBegin \/ MainProvisioned \/ MainStart \/ MainCreate \/ MainArm

provUnchanged == <<app, main, result, timeout, httpd, sf, group, timerTask, ota, heard, aim, bounds>>

\* deinit_wifi_prov_mgr_timer_callback(): stop the service, ...
Expire ==
    /\ ptimer = "armed" /\ pcb = "idle"
    /\ ptimer' = "off" /\ pcb' = "post"
    /\ mgr' = IF mgr = "running" THEN "stopping" ELSE mgr
    /\ UNCHANGED <<station, wifi_prov_status, cred, retries, deletes, reached, provUnchanged>>

\* ... and report its end, which the manager does as well.
ExpirePost ==
    /\ pcb = "post" /\ pcb' = "idle"
    /\ events' = Append(events, "end")
    /\ UNCHANGED <<conf, sta, wifi_prov_status, mgr, cred, retries, ptimer, deletes, reached, provUnchanged>>

\* The phone sends credentials.  It needs longer to pair than app_main() to arm the timer.
Credentials(c) ==
    /\ mgr = "running" /\ cred = "none" /\ main = "done"
    /\ cred' = "trying" /\ WifiConnect(c)
    /\ UNCHANGED <<wifi_prov_status, mgr, retries, ptimer, pcb, deletes, reached, provUnchanged>>

\* The manager stops by itself once the credentials have proved good.
MgrStop ==
    /\ mgr = "running" /\ cred = "ok" /\ mgr' = "stopping"
    /\ UNCHANGED <<station, wifi_prov_status, cred, retries, ptimer, pcb, deletes, reached, provUnchanged>>

MgrEnd ==
    /\ mgr = "stopping" /\ mgr' = "stopped"
    /\ events' = Append(events, "end")
    /\ UNCHANGED <<conf, sta, wifi_prov_status, cred, retries, ptimer, pcb, deletes, reached, provUnchanged>>

-----------------------------------------------------------------------------
(* Restarts *)

\* The bootloader takes the configured slot, or the other when that is incomplete.
Restart ==
    /\ running' = IF image[boot] = "whole" THEN boot ELSE Other(boot)
    /\ main' = "web" /\ sta' = Joining(conf) /\ events' = <<>>
    /\ status' = "NOT_START" /\ ssid' = NoAP /\ flag' = FALSE
    /\ timeout' = WIFI_MAX_RECONNECT_TIMEOUT
    /\ httpd' = "idle" /\ sf' = NoScan /\ group' = "none"
    /\ handle' = 0 /\ timers' = <<>> /\ cmds' = <<>> /\ cb' = "idle" /\ connect_count' = 1
    /\ left' = 0
    /\ wifi_prov_status' = FALSE /\ mgr' = "none" /\ cred' = "none" /\ retries' = 0
    /\ ptimer' = "none" /\ pcb' = "idle" /\ deletes' = 0
    /\ heard' = FALSE /\ aim' = NoAP /\ reached' = FALSE
    /\ UNCHANGED <<app, conf, boot, image, posts, otas>>

PowerCycle == restarts > 0 /\ restarts' = restarts - 1 /\ Restart

\* An assertion of FreeRTOS fails: xEventGroupSetBits() is given the event group
\* that ReleaseGroup has deleted, or xTimerStart() a timer there was no memory for.
Panic ==
    /\ (cb = "set" /\ group = "none") \/ httpd \in {"listen", "prepare"}
    /\ Restart /\ UNCHANGED restarts

Next ==
    \/ JoinOk \/ LinkDown \/ Dispatch
    \/ \E c \in Forms[app] : Post(c)
    \/ Applying \/ AcceptResult
    \/ OtaBegin \/ OtaChunk \/ OtaFails \/ OtaEnd
    \/ TimerTask \/ Main
    \/ Expire \/ ExpirePost \/ (\E c \in AP : Credentials(c)) \/ MgrStop \/ MgrEnd
    \/ PowerCycle \/ Panic

Spec == Init /\ [][Next]_vars

\* The firmware's tasks run, its timers expire, and a service that was told to
\* stop does.  Users, phones and access points need do nothing.
Fairness ==
    /\ WF_vars(Dispatch) /\ WF_vars(Applying) /\ WF_vars(TimerTask) /\ WF_vars(Main)
    /\ WF_vars(Expire \/ ExpirePost) /\ WF_vars(MgrEnd)

FairSpec == Spec /\ Fairness

-----------------------------------------------------------------------------
(* Properties *)

Pending(cmd, id) == \E i \in DOMAIN cmds : cmds[i] = [cmd |-> cmd, id |-> id]

\* While the page says "connecting", either the HTTP server's task is at it or
\* the timer that will end it runs: no callback of an earlier attempt has
\* stopped it through the shared handle.
SomeoneListens ==
    status = "CONNECTING" /\ httpd \in {"idle", "delay", "ota"} =>
        /\ handle # 0 /\ timers[handle].fn = "status"
        /\ timers[handle].state \in {"created", "running"}
        /\ ~Pending("stop", handle) /\ ~Pending("delete", handle)

\* No timer is lost and none is used after its deletion: a timer that is alive
\* is the handle's or about to be deleted, and no command follows a deletion.
TimersOwned ==
    /\ \A i \in DOMAIN timers : timers[i].state # "deleted" => i = handle \/ Pending("delete", i)
    /\ \A i \in DOMAIN cmds :
          /\ cmds[i].id # 0 /\ timers[cmds[i].id].state # "deleted"
          /\ \A j \in 1..(i - 1) : cmds[j] # [cmd |-> "delete", id |-> cmds[i].id]

\* Every attempt gets all its polls: connect_count, static in the callback, is
\* back at one when the next timer starts.
FreshCount ==
    \A i \in DOMAIN timers : timers[i] = [fn |-> "status", state |-> "created"] => connect_count = 1

\* One timer for one attempt, through a handle all attempts share, though the
\* server's task creates and deletes timers while the timer task is at work.
AttemptsTimed == SomeoneListens /\ TimersOwned /\ FreshCount

\* The attempt by signal strength reads the first entry of the list, which the
\* attempts before it may have emptied: it is then never entered.
HeadExists == httpd = "pick" /\ sf.phase = "rssi" /\ Enters => sf.list # <<>>

\* "OK" is never reported on the strength of an address the station had before
\* the form was applied.
OkNeedsGotIp == status = "OK" /\ httpd \in {"idle", "delay", "ota", "udp"} => heard

\* The slot the firmware runs from stays complete through any sequence of
\* updates, failures and restarts, so that a restart finds an image.
RestartBoots == image[running] = "whole"

\* NETWORK_PROV_END arrives twice, from the timer's callback and from the
\* manager it has stopped; the timer is deleted once.
OneDelete == deletes <= 1

\* The page does not say "connecting" for ever.
ConnectingEnds == status = "CONNECTING" ~> status # "CONNECTING"

\* Provisioning that was started ends, whatever the phone does.
ProvEnds == main = "arm" ~> ~wifi_prov_status

\* Neither way of setting the station up goes on for ever.
SetupEnds == ConnectingEnds /\ ProvEnds

\* web_server.c:956: the flag is there "to check whether sta has connected to
\* appointed ap".  An address from the access point the station leaves sets it too.
ConnectedToAppointed == status = "OK" /\ httpd \in {"idle", "udp"} => reached
=============================================================================
