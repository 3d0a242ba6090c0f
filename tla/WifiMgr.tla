------------------------------ MODULE WifiMgr ------------------------------
(***************************************************************************)
(* The Wi-Fi state machine (network_manager.cpp) between the operator's    *)
(* keys and the driver.  The keys and poll() run in loop(); the driver     *)
(* works in its own task and reports by events, which wait in its queue,   *)
(* are recorded as flags, and are consumed by the next poll().             *)
(*                                                                         *)
(* Time is abstract: a timeout or a retry may find its moment come at any  *)
(* poll.  The device may lose its power between any two steps.             *)
(***************************************************************************)
EXTENDS Integers, Sequences

CONSTANTS
  BackoffStart,   \* kBackoffStartMs
  BackoffMax,     \* kBackoffMaxMs
  MaxPosted       \* bound: no new step of the driver or a key beyond it

ASSUME BackoffType == BackoffStart \in Nat \ {0} /\ BackoffMax \in Nat
ASSUME BackoffOrder == BackoffStart <= BackoffMax
ASSUME MaxPostedType == MaxPosted \in Nat

VARIABLES
  state,           \* s_state
  mode,            \* s_mode
  ssid,            \* s_ssid is not empty
  found,           \* s_scanCount > 0
  error,           \* s_error: what the info screen says
  retryAt,         \* s_retryAt: 0, or the length of the wait under way
  backoff,         \* s_backoffMs
  evGotIp,         \* s_evGotIp
  evDisconnected,  \* s_evDisconnected with s_evReason
  evApStop,        \* s_evApStop
  handlers,        \* halInitSta() has registered the station's handlers
  nvs,             \* the stored configuration: role, and credentials present
  link,            \* driver: the station's link
  ap,              \* driver: the access point is on the air
  posted,          \* driver: events not yet recorded
  discarded,       \* history: the poll that connected discarded a disconnect
  calm             \* environment: keys, power and network are quiet from here

manager == <<state, mode, ssid, found, error, retryAt, backoff>>
flags == <<evGotIp, evDisconnected, evApStop>>
driver == <<link, ap, posted>>
vars == <<manager, flags, handlers, nvs, driver, discarded, calm>>

Listing == {"SCANNING", "SCAN_DONE", "SCAN_FAILED"}   \* on the scan screens
Attached == {"CONNECTING", "CONNECTED", "CONNECT_FAILED", "DISCONNECTED"}
States == {"IDLE", "AP_UP", "AP_FAILED"} \union Listing \union Attached

\* Reasons of a disconnect.
Reasons == {"wrong password", "signal lost"}

\* reasonIsTerminal(): another attempt would end like this one.
Terminal(reason) == reason = "wrong password"

Errors == Reasons \union {"", "other"}
Busy == {"joining", "addressing"}   \* the driver is at work on a begin
Events == Reasons \union {"got ip", "ap stop"}

SmallerOf(a, b) == IF a <= b THEN a ELSE b

Tell(events, cond, e) == IF cond THEN Append(events, e) ELSE events

Room == Len(posted) < MaxPosted

-----------------------------------------------------------------------------
(* Helpers of the manager.                                                 *)

\* clearEvents(): the access point's flag is not among them.
ClearEvents == evGotIp' = FALSE /\ evDisconnected' = "" /\ UNCHANGED evApStop

CancelRetry == retryAt' = 0

\* Fault: every wait is the first one.
ScheduleRetryFlat == retryAt' = BackoffStart /\ UNCHANGED backoff

\* scheduleRetry(): waits `backoff` and doubles it for the next time.
ScheduleRetry ==
  /\ retryAt' = backoff
  /\ backoff' = SmallerOf(2 * backoff, BackoffMax)

\* The driver gives the link up, and tells so if there was one.
LoseLink(cond) ==
  /\ link' = IF cond THEN "down" ELSE link
  /\ posted' = Tell(posted, cond /\ link # "down", "signal lost")

\* beginAssociation(): a begin during a session tears that session down first
\* and reports it; the call itself may fail.
Associate(ok) ==
  /\ ClearEvents
  /\ state' = IF ok THEN "CONNECTING" ELSE "CONNECT_FAILED"
  /\ error' = IF ok THEN "" ELSE "other"
  /\ link' = IF ok THEN "joining" ELSE link
  /\ posted' = Tell(posted, ok /\ link # "down", "signal lost")
  /\ UNCHANGED <<ap, discarded>>

\* The body of connectWithSaved() and retry(): the waits start from the
\* shortest again.
Rejoin(ok) ==
  /\ backoff' = BackoffStart
  /\ CancelRetry
  /\ Associate(ok)

\* halStartAp(): the radio is cycled when it is not in the access point's role
\* already, which ends a station's session and an access point's; it may fail.
HalStartAp(ok, cycled) ==
  /\ link # "down" => cycled
  /\ link' = IF cycled THEN "down" ELSE link
  /\ posted' = Tell(Tell(posted, cycled /\ link # "down", "signal lost"),
                    cycled /\ ap, "ap stop")
  /\ ap' = (ok \/ (ap /\ ~cycled))

\* disconnectCurrent(), outside the scan screens.
Drop ==
  LET attached == state \in Attached
      apUp == state = "AP_UP"
  IN /\ link' = IF attached THEN "down" ELSE link
     /\ ap' = (ap /\ ~apUp)
     /\ posted' = Tell(Tell(posted, attached /\ link # "down", "signal lost"),
                       apUp, "ap stop")
     /\ evApStop' = (evApStop /\ ~apUp)

-----------------------------------------------------------------------------
(* begin() and what setup() does after it.                                 *)

Init ==
  /\ nvs = [mode |-> "STATION", saved |-> FALSE]
  /\ mode = "STATION"
  /\ handlers = TRUE
  /\ ssid = FALSE
  /\ found = FALSE
  /\ error = ""
  /\ state = "IDLE"
  /\ retryAt = 0
  /\ backoff = BackoffStart
  /\ evGotIp = FALSE /\ evDisconnected = "" /\ evApStop = FALSE
  /\ link = "down" /\ ap = FALSE /\ posted = << >>
  /\ discarded = FALSE
  /\ calm = FALSE

\* A power cycle clears the RAM.  A station with credentials joins
\* (connectWithSaved), an access point does nothing by itself.  The station's
\* handlers are registered by halInitSta(), which the access point's path
\* through begin() does not call.
Restart(ok) ==
  LET station == nvs.mode = "STATION"
      joins == station /\ nvs.saved
  IN /\ ~calm
     /\ mode' = nvs.mode
     /\ handlers' = station
     /\ ssid' = joins
     /\ found' = FALSE
     /\ error' = IF joins /\ ~ok THEN "other" ELSE ""
     /\ state' = IF ~joins THEN "IDLE" ELSE IF ok THEN "CONNECTING" ELSE "CONNECT_FAILED"
     /\ retryAt' = 0
     /\ backoff' = BackoffStart
     /\ evGotIp' = FALSE /\ evDisconnected' = "" /\ evApStop' = FALSE
     /\ link' = IF joins /\ ok THEN "joining" ELSE "down"
     /\ ap' = FALSE /\ posted' = << >>
     /\ discarded' = FALSE
     /\ UNCHANGED <<nvs, calm>>

-----------------------------------------------------------------------------
(* The operator's keys (handleKeyboard, handleWifiScreen in main.cpp).     *)

Key == ~calm /\ Room

\* The end of startScan(): the call may fail.
Scan(ok) ==
  /\ CancelRetry
  /\ evGotIp' = FALSE /\ evDisconnected' = ""
  /\ found' = FALSE
  /\ state' = IF ok THEN "SCANNING" ELSE "SCAN_FAILED"
  /\ error' = IF ok THEN "" ELSE "other"

\* C as a station: startScan().
StartScan(ok) ==
  /\ Key
  /\ mode = "STATION"
  /\ state \notin Listing
  /\ Scan(ok)
  /\ UNCHANGED <<mode, ssid, backoff, evApStop, handlers, nvs, driver, discarded, calm>>

\* C as an access point: disconnectCurrent() first.  The mode stays.
SwitchToScan(ok) ==
  /\ Key
  /\ mode = "ACCESS_POINT"
  /\ state \notin Listing
  /\ Drop
  /\ Scan(ok)
  /\ UNCHANGED <<mode, ssid, backoff, handlers, nvs, discarded, calm>>

\* Fault: backing out leaves a retry scheduled.
CancelKeepingRetry ==
  /\ Key
  /\ state # "AP_UP"
  /\ LoseLink(state \in {"CONNECTING", "SCANNING"})
  /\ ClearEvents
  /\ error' = ""
  /\ state' = "IDLE"
  /\ UNCHANGED <<mode, ssid, found, retryAt, backoff, handlers, nvs, ap, discarded, calm>>

\* cancel(): ESC in the scan list, ENTER or ESC on the info screen while
\* connecting, A unless the access point is up.
Cancel ==
  /\ Key
  /\ state # "AP_UP"
  /\ LoseLink(state \in {"CONNECTING", "SCANNING"})
  /\ CancelRetry
  /\ ClearEvents
  /\ error' = ""
  /\ state' = "IDLE"
  /\ UNCHANGED <<mode, ssid, found, backoff, handlers, nvs, ap, discarded, calm>>

\* connect(): a network of the list is chosen, with its password if it wants
\* one.  netConfigSaveSingle() stores the credentials and keeps the stored role.
Connect(ok) ==
  /\ Key
  /\ state = "SCAN_DONE" /\ found
  /\ ssid' = TRUE
  /\ nvs' = [nvs EXCEPT !.saved = TRUE]
  /\ backoff' = BackoffStart
  /\ CancelRetry
  /\ Associate(ok)
  /\ UNCHANGED <<mode, found, handlers, calm>>

\* R on the info screen: retry().
Retry(ok) ==
  /\ Key
  /\ state \notin Listing
  /\ ssid
  /\ Rejoin(ok)
  /\ UNCHANGED <<mode, ssid, found, handlers, nvs, calm>>

\* Fault: the network's name stays in RAM, for R to join again.
ForgetKeepingName ==
  /\ Key
  /\ mode = "STATION"
  /\ state \notin Listing
  /\ LoseLink(TRUE)
  /\ nvs' = [mode |-> "STATION", saved |-> FALSE]
  /\ backoff' = BackoffStart
  /\ CancelRetry
  /\ ClearEvents
  /\ error' = ""
  /\ state' = "IDLE"
  /\ UNCHANGED <<ssid, mode, found, handlers, ap, discarded, calm>>

\* X and Y on the info screen of a station: disconnectAndForget() erases the
\* whole "net" namespace.
Forget ==
  /\ Key
  /\ mode = "STATION"
  /\ state \notin Listing
  /\ LoseLink(TRUE)
  /\ nvs' = [mode |-> "STATION", saved |-> FALSE]
  /\ ssid' = FALSE
  /\ backoff' = BackoffStart
  /\ CancelRetry
  /\ ClearEvents
  /\ error' = ""
  /\ state' = "IDLE"
  /\ UNCHANGED <<mode, found, handlers, ap, discarded, calm>>

\* X on the info screen of an access point: disconnectCurrent().
DropCurrent ==
  /\ Key
  /\ mode = "ACCESS_POINT"
  /\ state \notin Listing
  /\ Drop
  /\ IF state \in Attached
       THEN CancelRetry /\ evGotIp' = FALSE /\ evDisconnected' = ""
       ELSE UNCHANGED <<retryAt, evGotIp, evDisconnected>>
  /\ error' = ""
  /\ state' = "IDLE"
  /\ UNCHANGED <<mode, ssid, found, backoff, handlers, nvs, discarded, calm>>

\* ENTER in the access point's password field, which A opens after a cancel():
\* startAp().  The role is stored before the call.
StartAp(ok, cycled) ==
  /\ Key
  /\ state = "IDLE"
  /\ HalStartAp(ok, cycled)
  /\ nvs' = [nvs EXCEPT !.mode = "ACCESS_POINT"]
  /\ evApStop' = FALSE
  /\ state' = IF ok THEN "AP_UP" ELSE "AP_FAILED"
  /\ mode' = IF ok THEN "ACCESS_POINT" ELSE mode
  /\ error' = IF ok THEN "" ELSE "other"
  /\ UNCHANGED <<ssid, found, retryAt, backoff, evGotIp, evDisconnected,
                 handlers, discarded, calm>>

KeyPress ==
  \/ \E ok \in BOOLEAN : StartScan(ok) \/ SwitchToScan(ok) \/ Connect(ok) \/ Retry(ok)
  \/ Cancel
  \/ Forget
  \/ DropCurrent
  \/ \E ok, cycled \in BOOLEAN : StartAp(ok, cycled)

-----------------------------------------------------------------------------
(* poll().                                                                 *)

Awaiting == {"CONNECTING", "CONNECT_FAILED", "DISCONNECTED"}

\* An address is looked for first, in every state; one that comes too late is
\* thrown away in the same call that goes on to the branch of the state.
GotIpFirst == evGotIp /\ state \in Awaiting

\* A disconnect recorded since the last poll is discarded with the address.
PollGotIp ==
  /\ GotIpFirst
  /\ evGotIp' = FALSE
  /\ evDisconnected' = ""
  /\ discarded' = (evDisconnected # "")
  /\ backoff' = BackoffStart
  /\ CancelRetry
  /\ error' = ""
  /\ state' = "CONNECTED"
  /\ UNCHANGED <<mode, ssid, found, evApStop, handlers, nvs, driver, calm>>

\* The scan ends, with an entry or without one, or takes too long.  Results
\* that cannot be read count as none, and nothing is said of them.
PollScan(entries, inTime) ==
  /\ state = "SCANNING"
  /\ state' = IF inTime THEN "SCAN_DONE" ELSE "SCAN_FAILED"
  /\ found' = (inTime /\ entries)
  /\ error' \in IF ~inTime THEN {"other"} ELSE IF entries THEN {""} ELSE {error, "other"}
  /\ evGotIp' = FALSE
  /\ UNCHANGED <<mode, ssid, retryAt, backoff, evDisconnected, evApStop,
                 handlers, nvs, driver, discarded, calm>>

\* Fault: the branch of the state comes before the look for an address.
PollRefusedFirst ==
  /\ state = "CONNECTING"
  /\ evDisconnected # ""
  /\ state' = "CONNECT_FAILED"
  /\ error' = evDisconnected
  /\ IF Terminal(evDisconnected)
       THEN CancelRetry /\ UNCHANGED backoff
       ELSE ScheduleRetry
  /\ evDisconnected' = ""
  /\ UNCHANGED <<mode, ssid, found, evGotIp, evApStop, handlers, nvs, driver, discarded, calm>>

\* The association fails.  A wrong password is final, all else is retried.
PollRefused ==
  /\ state = "CONNECTING" /\ ~GotIpFirst
  /\ evDisconnected # ""
  /\ state' = "CONNECT_FAILED"
  /\ error' = evDisconnected
  /\ IF Terminal(evDisconnected)
       THEN CancelRetry /\ UNCHANGED backoff
       ELSE ScheduleRetry
  /\ evDisconnected' = ""
  /\ UNCHANGED <<mode, ssid, found, evGotIp, evApStop, handlers, nvs, driver, discarded, calm>>

\* No event for kConnectTimeoutMs.
PollTimeout ==
  /\ state = "CONNECTING" /\ ~GotIpFirst
  /\ evDisconnected = ""
  /\ Room
  /\ calm => link \notin Busy /\ posted = << >>
  /\ LoseLink(TRUE)
  /\ state' = "CONNECT_FAILED"
  /\ error' = "other"
  /\ ScheduleRetry
  /\ UNCHANGED <<mode, ssid, found, flags, handlers, nvs, ap, discarded, calm>>

\* The link is lost.
PollLost ==
  /\ state = "CONNECTED"
  /\ evDisconnected # ""
  /\ state' = "DISCONNECTED"
  /\ error' = evDisconnected
  /\ ScheduleRetry
  /\ evDisconnected' = ""
  /\ evGotIp' = FALSE
  /\ UNCHANGED <<mode, ssid, found, evApStop, handlers, nvs, driver, discarded, calm>>

\* A retry is due.  Once calm, events do not stay in the queue for as long as
\* a wait, and the driver answers within the longest one.
PollRetry(ok) ==
  /\ state \in {"CONNECT_FAILED", "DISCONNECTED"} /\ ~GotIpFirst
  /\ retryAt # 0
  /\ Room
  /\ calm => /\ ok
             /\ posted = << >>
             /\ retryAt = BackoffMax => link \notin Busy
  /\ CancelRetry
  /\ Associate(ok)
  /\ UNCHANGED <<mode, ssid, found, backoff, handlers, nvs, calm>>

\* The access point has stopped.
PollApStop ==
  /\ state = "AP_UP"
  /\ evApStop
  /\ evApStop' = FALSE
  /\ error' = ""
  /\ state' = "IDLE"
  /\ evGotIp' = FALSE
  /\ UNCHANGED <<mode, ssid, found, retryAt, backoff, evDisconnected,
                 handlers, nvs, driver, discarded, calm>>

\* Nothing to do in this state, or not yet.
PollIdle ==
  /\ ~GotIpFirst
  /\ ~(state \in {"CONNECTING", "CONNECTED"} /\ evDisconnected # "")
  /\ ~(state = "AP_UP" /\ evApStop)
  /\ evGotIp' = FALSE
  /\ UNCHANGED <<manager, evDisconnected, evApStop, handlers, nvs, driver, discarded, calm>>

Poll ==
  \/ PollGotIp
  \/ \E entries, inTime \in BOOLEAN : PollScan(entries, inTime)
  \/ PollRefused
  \/ PollTimeout
  \/ PollLost
  \/ \E ok \in BOOLEAN : PollRetry(ok)
  \/ PollApStop
  \/ PollIdle

-----------------------------------------------------------------------------
(* The driver and its event task.                                          *)

Associated ==
  /\ link = "joining"
  /\ link' = "addressing"
  /\ UNCHANGED <<manager, flags, handlers, nvs, ap, posted, discarded, calm>>

Addressed ==
  /\ link = "addressing"
  /\ Room
  /\ link' = "up"
  /\ posted' = Append(posted, "got ip")
  /\ UNCHANGED <<manager, flags, handlers, nvs, ap, discarded, calm>>

Broken(reason) ==
  /\ ~calm
  /\ link # "down"
  /\ Room
  /\ link' = "down"
  /\ posted' = Append(posted, reason)
  /\ UNCHANGED <<manager, flags, handlers, nvs, ap, discarded, calm>>

\* The handlers record the oldest event: notifyGotIp, notifyDisconnected,
\* notifyApStop.  Without handlers the station's events are lost.
Deliver ==
  /\ posted # << >>
  /\ posted' = Tail(posted)
  /\ evGotIp' = (evGotIp \/ (Head(posted) = "got ip" /\ handlers))
  /\ evDisconnected' = IF Head(posted) \in Reasons /\ handlers
                         THEN Head(posted) ELSE evDisconnected
  /\ evApStop' = (evApStop \/ Head(posted) = "ap stop")
  /\ UNCHANGED <<manager, handlers, nvs, link, ap, discarded, calm>>

\* From here on nobody presses a key, the power stays on and the network is
\* within reach and answers.
Calm ==
  /\ ~calm
  /\ calm' = TRUE
  /\ UNCHANGED <<manager, flags, handlers, nvs, driver, discarded>>

Driver == Associated \/ Addressed \/ (\E reason \in Reasons : Broken(reason)) \/ Deliver

Next ==
  \/ KeyPress
  \/ Poll
  \/ Driver
  \/ \E ok \in BOOLEAN : Restart(ok)
  \/ Calm

Spec == Init /\ [][Next]_vars

\* loop() polls for ever, the event task and the driver are never starved.
FairSpec == Spec /\ WF_vars(Poll) /\ WF_vars(Associated) /\ WF_vars(Addressed) /\ WF_vars(Deliver)

-----------------------------------------------------------------------------
TypeOK ==
  /\ state \in States
  /\ mode \in {"STATION", "ACCESS_POINT"}
  /\ ssid \in BOOLEAN /\ found \in BOOLEAN
  /\ error \in Errors
  /\ retryAt \in 0..BackoffMax
  /\ backoff \in BackoffStart..BackoffMax
  /\ evGotIp \in BOOLEAN /\ evApStop \in BOOLEAN
  /\ evDisconnected \in Reasons \union {""}
  /\ handlers \in BOOLEAN
  /\ nvs \in [mode : {"STATION", "ACCESS_POINT"}, saved : BOOLEAN]
  /\ link \in {"down", "up"} \union Busy /\ ap \in BOOLEAN
  /\ posted \in Seq(Events)
  /\ discarded \in BOOLEAN /\ calm \in BOOLEAN

\* An automatic attempt is scheduled only while the device waits after a
\* failure, always after a lost link ("retry pending"), and never while the
\* screen tells the operator that the password is wrong.
RetryDiscipline ==
  /\ retryAt # 0 => state \in {"CONNECT_FAILED", "DISCONNECTED"}
  /\ state = "DISCONNECTED" => retryAt # 0
  /\ state = "CONNECT_FAILED" /\ error = "wrong password" => retryAt = 0

\* The device believes itself connected only if the link is up, or news of
\* its loss is on the way, or the poll that connected discarded a disconnect
\* recorded together with the address.
Bad(events) == \E i \in 1..Len(events) : events[i] \in Reasons

BadNews == evDisconnected # "" \/ Bad(posted)

ConnectedIsReal == state = "CONNECTED" => link = "up" \/ BadNews \/ discarded

\* A station that is connected connects again after a power cycle, unless the
\* device was an access point before (network.md:35: "keep the link up across
\* reboots and dropouts"; the stored role is never taken back).
ConnectedAcrossReboots ==
  state = "CONNECTED" /\ nvs.mode = "STATION" => nvs.saved

Trying ==
  \/ state \in {"CONNECTING", "DISCONNECTED"}
  \/ state = "CONNECT_FAILED" /\ retryAt # 0

\* Once keys, power and network are quiet, attempts come to an end: the
\* device is connected for good or waits for the operator.  A device booted
\* as an access point is excepted, it never hears of the station's events.
AttemptsEnd == [](calm /\ handlers => <>[]~Trying)

=============================================================================
