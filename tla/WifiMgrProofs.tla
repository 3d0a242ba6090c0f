--------------------------- MODULE WifiMgrProofs ---------------------------
(***************************************************************************)
(* What TLAPS proves of WifiMgr, for every pair of backoff times and every *)
(* bound on the event queue.                                               *)
(***************************************************************************)
EXTENDS WifiMgr, SequenceTheorems, TLAPS

\* Every address in the queue is followed by news of the link's loss.
Followed(events) ==
  \A i \in 1..Len(events) : events[i] = "got ip" =>
    \E j \in 1..Len(events) : j > i /\ events[j] \in Reasons

\* The link's loss is never out of sight: an address in the queue, on its way
\* or believed, with the link not up, has the loss on the way behind it.
NewsInv ==
  /\ link = "up" \/ Followed(posted)
  /\ evGotIp => handlers /\ (link = "up" \/ BadNews)
  /\ state = "CONNECTED" => handlers /\ (link = "up" \/ BadNews \/ discarded)

-----------------------------------------------------------------------------
(* The event queue.                                                        *)

\* Adding one event at the end.
LEMMA OneMore ==
  ASSUME NEW s, NEW t, NEW n \in Nat,
         Len(s) = n, Len(t) = n + 1,
         \A i \in 1..n : t[i] = s[i]
  PROVE  /\ Bad(s) => Bad(t)
         /\ Followed(s) /\ t[n + 1] # "got ip" => Followed(t)
         /\ t[n + 1] \in Reasons => Bad(t) /\ Followed(t)
<1>1. \A i \in 1..(n + 1) : i \in 1..n \/ i = n + 1
      OBVIOUS
<1>2. n + 1 \in 1..(n + 1) /\ \A i \in 1..n : i \in 1..(n + 1) /\ n + 1 > i
      OBVIOUS
<1>3. Bad(s) => Bad(t)
      BY <1>2 DEF Bad
<1>4. Followed(s) /\ t[n + 1] # "got ip" => Followed(t)
  <2> SUFFICES ASSUME Followed(s), t[n + 1] # "got ip",
                      NEW i \in 1..(n + 1), t[i] = "got ip"
               PROVE  \E j \in 1..(n + 1) : j > i /\ t[j] \in Reasons
      BY Zenon DEF Followed
  <2>1. i \in 1..n /\ s[i] = "got ip"
        BY Zenon, <1>1
  <2>2. PICK j \in 1..n : j > i /\ s[j] \in Reasons
        BY Zenon, <2>1 DEF Followed
  <2> QED BY Zenon, <2>2, <1>2
<1>5. ASSUME t[n + 1] \in Reasons PROVE Followed(t)
  <2>1. t[n + 1] # "got ip"
        BY <1>5 DEF Reasons
  <2> SUFFICES ASSUME NEW i \in 1..(n + 1), t[i] = "got ip"
               PROVE  \E j \in 1..(n + 1) : j > i /\ t[j] \in Reasons
      BY Zenon DEF Followed
  <2>2. i \in 1..n
        BY Zenon, <1>1, <2>1
  <2> QED BY Zenon, <2>2, <1>2, <1>5
<1>6. t[n + 1] \in Reasons => Bad(t)
      BY Zenon, <1>2 DEF Bad
<1> QED BY <1>3, <1>4, <1>5, <1>6

\* What Append gives.
LEMMA AppendOne ==
  ASSUME NEW s \in Seq(Events), NEW r \in Events
  PROVE  /\ Append(s, r) \in Seq(Events)
         /\ Len(s) \in Nat /\ Len(Append(s, r)) = Len(s) + 1
         /\ \A i \in 1..Len(s) : Append(s, r)[i] = s[i]
         /\ Append(s, r)[Len(s) + 1] = r
BY AppendProperties, LenProperties

\* A lost link told last follows everything told before.
LEMMA TellLost ==
  ASSUME NEW s \in Seq(Events), NEW r \in Reasons, NEW c
  PROVE  /\ Tell(s, c, r) \in Seq(Events)
         /\ Bad(s) => Bad(Tell(s, c, r))
         /\ Followed(s) => Followed(Tell(s, c, r))
         /\ c => Bad(Tell(s, c, r)) /\ Followed(Tell(s, c, r))
<1>1. CASE ~c
      BY <1>1 DEF Tell
<1>2. CASE c
  <2>1. Tell(s, c, r) = Append(s, r)
        BY <1>2 DEF Tell
  <2>2. r \in Events /\ r # "got ip"
        BY DEF Events, Reasons
  <2>3. /\ Append(s, r) \in Seq(Events)
        /\ Len(s) \in Nat /\ Len(Append(s, r)) = Len(s) + 1
        /\ \A i \in 1..Len(s) : Append(s, r)[i] = s[i]
        /\ Append(s, r)[Len(s) + 1] = r
        BY Zenon, <2>2, AppendOne
  <2>5. Bad(Append(s, r)) /\ Followed(Append(s, r))
        BY Zenon, <2>2, <2>3, OneMore
  <2> QED BY Zenon, <2>1, <2>3, <2>5
<1> QED BY <1>1, <1>2

\* The access point's event hides none of the station's.
LEMMA TellStop ==
  ASSUME NEW s \in Seq(Events), NEW c
  PROVE  /\ Tell(s, c, "ap stop") \in Seq(Events)
         /\ Bad(s) => Bad(Tell(s, c, "ap stop"))
         /\ Followed(s) => Followed(Tell(s, c, "ap stop"))
<1>1. CASE ~c
      BY <1>1 DEF Tell
<1>2. CASE c
  <2> DEFINE r == "ap stop"
  <2>1. Tell(s, c, r) = Append(s, r)
        BY <1>2 DEF Tell
  <2>2. r \in Events /\ r # "got ip"
        BY DEF Events
  <2>3. /\ Append(s, r) \in Seq(Events)
        /\ Len(s) \in Nat /\ Len(Append(s, r)) = Len(s) + 1
        /\ \A i \in 1..Len(s) : Append(s, r)[i] = s[i]
        /\ Append(s, r)[Len(s) + 1] = r
        BY Zenon, <2>2, AppendOne
  <2>5. (Bad(s) => Bad(Append(s, r))) /\ (Followed(s) => Followed(Append(s, r)))
        BY Zenon, <2>2, <2>3, OneMore
  <2> QED BY Zenon, <2>1, <2>3, <2>5
<1> QED BY <1>1, <1>2

\* What is left of the queue when its head is taken.
LEMMA TakeHead ==
  ASSUME NEW s \in Seq(Events), s # << >>
  PROVE  /\ Head(s) \in Events
         /\ Tail(s) \in Seq(Events)
         /\ Bad(s) => Head(s) \in Reasons \/ Bad(Tail(s))
         /\ Followed(s) => Followed(Tail(s))
         /\ Followed(s) /\ Head(s) = "got ip" => Bad(Tail(s))
<1> DEFINE t == Tail(s)
           n == Len(t)
<1>1. /\ t \in Seq(Events) /\ n \in Nat /\ Len(s) = n + 1
      /\ Head(s) = s[1] /\ Head(s) \in Events
      /\ \A i \in 1..n : t[i] = s[i + 1]
      OBVIOUS
<1> HIDE DEF t
<1> HIDE DEF n
<1>n. n \in Nat
      BY Zenon, <1>1
<1>a. /\ 1 \in 1..(n + 1) /\ 0 \in 0..n /\ 0 + 1 = 1
      /\ \A i \in 1..n : i + 1 \in 1..(n + 1) /\ i \in 0..n
      BY <1>n
<1>2. \A j \in 1..(n + 1) : j = 1 \/ (j - 1 \in 1..n /\ t[j - 1] = s[j])
  <2> SUFFICES ASSUME NEW j \in 1..(n + 1), j # 1
               PROVE  j - 1 \in 1..n /\ t[j - 1] = s[j]
      OBVIOUS
  <2>1. j - 1 \in 1..n /\ (j - 1) + 1 = j
        BY <1>1
  <2>2. t[j - 1] = s[(j - 1) + 1]
        BY Zenon, <2>1, <1>1
  <2> QED BY Zenon, <2>1, <2>2
<1>3. Bad(s) => Head(s) \in Reasons \/ Bad(t)
  <2> SUFFICES ASSUME NEW j \in 1..(n + 1), s[j] \in Reasons, s[1] \notin Reasons
               PROVE  \E i \in 1..n : t[i] \in Reasons
      BY <1>1 DEF Bad, n
  <2> QED BY Zenon, <1>2
<1>4. ASSUME NEW i \in 0..n, NEW j \in 1..(n + 1), j > i + 1, s[j] \in Reasons
      PROVE  \E k \in 1..n : k > i /\ t[k] \in Reasons
  <2>1. j # 1 /\ j - 1 > i
        BY <1>1, <1>4
  <2> QED BY Zenon, <2>1, <1>2, <1>4
<1>5. ASSUME Followed(s) PROVE Followed(t)
  <2> SUFFICES ASSUME NEW i \in 1..n, t[i] = "got ip"
               PROVE  \E k \in 1..n : k > i /\ t[k] \in Reasons
      BY Zenon DEF Followed, n
  <2>1. i + 1 \in 1..(n + 1) /\ i \in 0..n
        BY Zenon, <1>a
  <2>2. s[i + 1] = "got ip"
        BY Zenon, <1>1
  <2>3. PICK j \in 1..(n + 1) : j > i + 1 /\ s[j] \in Reasons
        BY Zenon, <2>1, <2>2, <1>5, <1>1 DEF Followed
  <2> QED BY Zenon, <2>1, <2>3, <1>4
<1>6. Followed(s) /\ Head(s) = "got ip" => Bad(t)
  <2> SUFFICES ASSUME Followed(s), s[1] = "got ip"
               PROVE  \E k \in 1..n : t[k] \in Reasons
      BY <1>1 DEF Bad, n
  <2>1. 1 \in 1..(n + 1) /\ 0 \in 0..n /\ 0 + 1 = 1
        BY Zenon, <1>a
  <2>2. PICK j \in 1..(n + 1) : j > 1 /\ s[j] \in Reasons
        BY Zenon, <2>1, <1>1 DEF Followed
  <2>3. j > 0 + 1
        BY Zenon, <2>1, <2>2
  <2> QED BY Zenon, <2>1, <2>2, <2>3, <1>4
<1> QED BY Zenon, <1>1, <1>3, <1>5, <1>6 DEF t

-----------------------------------------------------------------------------
(* Type correctness.                                                       *)

\* What the manager is doing and says.
StateTyped ==
  /\ state \in States
  /\ mode \in {"STATION", "ACCESS_POINT"}
  /\ error \in Errors

\* The waits.
WaitsTyped ==
  /\ retryAt \in 0..BackoffMax
  /\ backoff \in BackoffStart..BackoffMax

BitsTyped ==
  /\ ssid \in BOOLEAN /\ found \in BOOLEAN
  /\ evGotIp \in BOOLEAN /\ evApStop \in BOOLEAN
  /\ handlers \in BOOLEAN
  /\ ap \in BOOLEAN
  /\ discarded \in BOOLEAN /\ calm \in BOOLEAN

\* What the driver says and what is stored.
DriverTyped ==
  /\ evDisconnected \in Reasons \union {""}
  /\ nvs \in [mode : {"STATION", "ACCESS_POINT"}, saved : BOOLEAN]
  /\ link \in {"down", "up"} \union Busy

\* The type invariant, in the parts proved one by one.
LEMMA TypeParts ==
  TypeOK <=> StateTyped /\ WaitsTyped /\ BitsTyped /\ DriverTyped /\ posted \in Seq(Events)
BY Zenon DEF TypeOK, StateTyped, WaitsTyped, BitsTyped, DriverTyped

\* The manager's state, role and message.
LEMMA StateStep ==
  ASSUME StateTyped, evDisconnected \in Reasons \union {""}, nvs.mode \in {"STATION", "ACCESS_POINT"}, [Next]_vars
  PROVE  StateTyped'
<1> USE DEF StateTyped, States, Listing, Attached, Errors
<1>1. CASE \E ok \in BOOLEAN : StartScan(ok)
      BY Zenon, <1>1 DEF StartScan, Scan
<1>2. CASE \E ok \in BOOLEAN : SwitchToScan(ok)
      BY Zenon, <1>2 DEF SwitchToScan, Scan, Drop
<1>3. CASE Cancel
      BY Zenon, <1>3 DEF Cancel
<1>4. CASE \E ok \in BOOLEAN : Connect(ok)
      BY Zenon, <1>4 DEF Connect, Associate
<1>5. CASE \E ok \in BOOLEAN : Retry(ok)
      BY Zenon, <1>5 DEF Retry, Rejoin, Associate
<1>6. CASE Forget
      BY Zenon, <1>6 DEF Forget
<1>7. CASE DropCurrent
      BY Zenon, <1>7 DEF DropCurrent, Drop
<1>8. CASE \E ok, cycled \in BOOLEAN : StartAp(ok, cycled)
      BY Zenon, <1>8 DEF StartAp, HalStartAp
<1>9. CASE PollGotIp
      BY Zenon, <1>9 DEF PollGotIp
<1>10. CASE \E entries, inTime \in BOOLEAN : PollScan(entries, inTime)
      BY Zenon, <1>10 DEF PollScan
<1>11. CASE PollRefused
      BY Zenon, <1>11 DEF PollRefused, Terminal
<1>12. CASE PollTimeout
      BY Zenon, <1>12 DEF PollTimeout
<1>13. CASE PollLost
      BY Zenon, <1>13 DEF PollLost
<1>14. CASE \E ok \in BOOLEAN : PollRetry(ok)
      BY Zenon, <1>14 DEF PollRetry, Associate
<1>15. CASE PollApStop
      BY Zenon, <1>15 DEF PollApStop
<1>16. CASE PollIdle
      BY Zenon, <1>16 DEF PollIdle, manager
<1>17. CASE Associated
      BY Zenon, <1>17 DEF Associated, manager
<1>18. CASE Addressed
      BY Zenon, <1>18 DEF Addressed, manager
<1>19. CASE \E reason \in Reasons : Broken(reason)
      BY Zenon, <1>19 DEF Broken, manager
<1>20. CASE Deliver
      BY Zenon, <1>20 DEF Deliver, manager
<1>21. CASE \E ok \in BOOLEAN : Restart(ok)
      BY Zenon, <1>21 DEF Restart
<1>22. CASE Calm
      BY Zenon, <1>22 DEF Calm, manager
<1>23. CASE UNCHANGED vars
      BY Zenon, <1>23 DEF vars, manager
<1> QED BY Zenon, <1>1, <1>2, <1>3, <1>4, <1>5, <1>6, <1>7, <1>8, <1>9, <1>10,
           <1>11, <1>12, <1>13, <1>14, <1>15, <1>16, <1>17, <1>18, <1>19,
           <1>20, <1>21, <1>22, <1>23 DEF Next, KeyPress, Poll, Driver

\* The doubled wait is capped.
LEMMA Doubling ==
  ASSUME WaitsTyped, ScheduleRetry PROVE WaitsTyped' /\ retryAt' # 0
BY BackoffType, BackoffOrder DEF WaitsTyped, ScheduleRetry, SmallerOf

\* Waits begun anew.
LEMMA Restarted ==
  ASSUME retryAt' = 0, backoff' = BackoffStart PROVE WaitsTyped'
BY BackoffType, BackoffOrder DEF WaitsTyped

\* Waits left alone, or the one under way cancelled.
LEMMA Waiting ==
  ASSUME WaitsTyped, retryAt' = retryAt \/ retryAt' = 0, backoff' = backoff PROVE WaitsTyped'
BY BackoffType DEF WaitsTyped

\* The waits.
LEMMA WaitsStep ==
  ASSUME WaitsTyped, [Next]_vars
  PROVE  WaitsTyped'
<1>1. CASE \E ok \in BOOLEAN : StartScan(ok)
      BY Zenon, <1>1, Waiting DEF StartScan, Scan, CancelRetry
<1>2. CASE \E ok \in BOOLEAN : SwitchToScan(ok)
      BY Zenon, <1>2, Waiting DEF SwitchToScan, Scan, CancelRetry
<1>3. CASE Cancel
      BY Zenon, <1>3, Waiting DEF Cancel, CancelRetry
<1>4. CASE \E ok \in BOOLEAN : Connect(ok)
      BY Zenon, <1>4, Restarted DEF Connect, Associate, CancelRetry
<1>5. CASE \E ok \in BOOLEAN : Retry(ok)
      BY Zenon, <1>5, Restarted DEF Retry, Rejoin, Associate, CancelRetry
<1>6. CASE Forget
      BY Zenon, <1>6, Restarted DEF Forget, CancelRetry
<1>7. CASE DropCurrent
      BY Zenon, <1>7, Waiting DEF DropCurrent, CancelRetry
<1>8. CASE \E ok, cycled \in BOOLEAN : StartAp(ok, cycled)
      BY Zenon, <1>8, Waiting DEF StartAp, HalStartAp
<1>9. CASE PollGotIp
      BY Zenon, <1>9, Restarted DEF PollGotIp, CancelRetry
<1>10. CASE \E entries, inTime \in BOOLEAN : PollScan(entries, inTime)
      BY Zenon, <1>10, Waiting DEF PollScan
<1>11. CASE PollRefused
      BY Zenon, <1>11, Doubling, Waiting DEF PollRefused, Terminal, CancelRetry
<1>12. CASE PollTimeout
      BY Zenon, <1>12, Doubling DEF PollTimeout
<1>13. CASE PollLost
      BY Zenon, <1>13, Doubling DEF PollLost
<1>14. CASE \E ok \in BOOLEAN : PollRetry(ok)
      BY Zenon, <1>14, Waiting DEF PollRetry, Associate, CancelRetry
<1>15. CASE PollApStop
      BY Zenon, <1>15, Waiting DEF PollApStop
<1>16. CASE PollIdle
      BY Zenon, <1>16, Waiting DEF PollIdle, manager
<1>17. CASE Associated
      BY Zenon, <1>17, Waiting DEF Associated, manager
<1>18. CASE Addressed
      BY Zenon, <1>18, Waiting DEF Addressed, manager
<1>19. CASE \E reason \in Reasons : Broken(reason)
      BY Zenon, <1>19, Waiting DEF Broken, manager
<1>20. CASE Deliver
      BY Zenon, <1>20, Waiting DEF Deliver, manager
<1>21. CASE \E ok \in BOOLEAN : Restart(ok)
      BY Zenon, <1>21, Restarted DEF Restart
<1>22. CASE Calm
      BY Zenon, <1>22, Waiting DEF Calm, manager
<1>23. CASE UNCHANGED vars
      BY Zenon, <1>23, Waiting DEF vars, manager
<1> QED BY Zenon, <1>1, <1>2, <1>3, <1>4, <1>5, <1>6, <1>7, <1>8, <1>9, <1>10,
           <1>11, <1>12, <1>13, <1>14, <1>15, <1>16, <1>17, <1>18, <1>19,
           <1>20, <1>21, <1>22, <1>23 DEF Next, KeyPress, Poll, Driver

\* The flags stay flags.
LEMMA BitsStep ==
  ASSUME BitsTyped, [Next]_vars
  PROVE  BitsTyped'
<1> USE DEF BitsTyped
<1>1. CASE \E ok \in BOOLEAN : StartScan(ok)
      BY Zenon, <1>1 DEF StartScan, Scan, driver
<1>2. CASE \E ok \in BOOLEAN : SwitchToScan(ok)
      BY Zenon, <1>2 DEF SwitchToScan, Scan, Drop
<1>3. CASE Cancel
      BY Zenon, <1>3 DEF Cancel, LoseLink, ClearEvents
<1>4. CASE \E ok \in BOOLEAN : Connect(ok)
      BY Zenon, <1>4 DEF Connect, Associate, ClearEvents
<1>5. CASE \E ok \in BOOLEAN : Retry(ok)
      BY Zenon, <1>5 DEF Retry, Rejoin, Associate, ClearEvents
<1>6. CASE Forget
      BY Zenon, <1>6 DEF Forget, LoseLink, ClearEvents
<1>7. CASE DropCurrent
      BY Zenon, <1>7 DEF DropCurrent, Drop
<1>8. CASE \E ok, cycled \in BOOLEAN : StartAp(ok, cycled)
      BY Zenon, <1>8 DEF StartAp, HalStartAp
<1>9. CASE PollGotIp
      BY Zenon, <1>9 DEF PollGotIp, driver
<1>10. CASE \E entries, inTime \in BOOLEAN : PollScan(entries, inTime)
      BY Zenon, <1>10 DEF PollScan, driver
<1>11. CASE PollRefused
      BY Zenon, <1>11 DEF PollRefused, Terminal, driver
<1>12. CASE PollTimeout
      BY Zenon, <1>12 DEF PollTimeout, LoseLink, flags
<1>13. CASE PollLost
      BY Zenon, <1>13 DEF PollLost, driver
<1>14. CASE \E ok \in BOOLEAN : PollRetry(ok)
      BY Zenon, <1>14 DEF PollRetry, Associate, ClearEvents
<1>15. CASE PollApStop
      BY Zenon, <1>15 DEF PollApStop, driver
<1>16. CASE PollIdle
      BY Zenon, <1>16 DEF PollIdle, manager, driver
<1>17. CASE Associated
      BY Zenon, <1>17 DEF Associated, manager, flags
<1>18. CASE Addressed
      BY Zenon, <1>18 DEF Addressed, manager, flags
<1>19. CASE \E reason \in Reasons : Broken(reason)
      BY Zenon, <1>19 DEF Broken, manager, flags
<1>20. CASE Deliver
      BY Zenon, <1>20 DEF Deliver, manager
<1>21. CASE \E ok \in BOOLEAN : Restart(ok)
      BY Zenon, <1>21 DEF Restart
<1>22. CASE Calm
      BY Zenon, <1>22 DEF Calm, manager, flags, driver
<1>23. CASE UNCHANGED vars
      BY Zenon, <1>23 DEF vars, manager, flags, driver
<1> QED BY Zenon, <1>1, <1>2, <1>3, <1>4, <1>5, <1>6, <1>7, <1>8, <1>9, <1>10,
           <1>11, <1>12, <1>13, <1>14, <1>15, <1>16, <1>17, <1>18, <1>19,
           <1>20, <1>21, <1>22, <1>23 DEF Next, KeyPress, Poll, Driver

\* The link, the recorded reason and the stored configuration.
LEMMA DriverStep ==
  ASSUME DriverTyped, posted \in Seq(Events), [Next]_vars
  PROVE  DriverTyped'
<1> USE DEF DriverTyped, Busy, Reasons
<1>1. CASE \E ok \in BOOLEAN : StartScan(ok)
      BY Zenon, <1>1 DEF StartScan, Scan, driver
<1>2. CASE \E ok \in BOOLEAN : SwitchToScan(ok)
      BY Zenon, <1>2 DEF SwitchToScan, Scan, Drop
<1>3. CASE Cancel
      BY Zenon, <1>3 DEF Cancel, LoseLink, ClearEvents
<1>4. CASE \E ok \in BOOLEAN : Connect(ok)
      BY Zenon, <1>4 DEF Connect, Associate, ClearEvents
<1>5. CASE \E ok \in BOOLEAN : Retry(ok)
      BY Zenon, <1>5 DEF Retry, Rejoin, Associate, ClearEvents
<1>6. CASE Forget
      BY Zenon, <1>6 DEF Forget, LoseLink, ClearEvents
<1>7. CASE DropCurrent
      BY Zenon, <1>7 DEF DropCurrent, Drop
<1>8. CASE \E ok, cycled \in BOOLEAN : StartAp(ok, cycled)
      BY Zenon, <1>8 DEF StartAp, HalStartAp
<1>9. CASE PollGotIp
      BY Zenon, <1>9 DEF PollGotIp, driver
<1>10. CASE \E entries, inTime \in BOOLEAN : PollScan(entries, inTime)
      BY Zenon, <1>10 DEF PollScan, driver
<1>11. CASE PollRefused
      BY Zenon, <1>11 DEF PollRefused, Terminal, driver
<1>12. CASE PollTimeout
      BY Zenon, <1>12 DEF PollTimeout, LoseLink, flags
<1>13. CASE PollLost
      BY Zenon, <1>13 DEF PollLost, driver
<1>14. CASE \E ok \in BOOLEAN : PollRetry(ok)
      BY Zenon, <1>14 DEF PollRetry, Associate, ClearEvents
<1>15. CASE PollApStop
      BY Zenon, <1>15 DEF PollApStop, driver
<1>16. CASE PollIdle
      BY Zenon, <1>16 DEF PollIdle, manager, driver
<1>17. CASE Associated
      BY Zenon, <1>17 DEF Associated, manager, flags
<1>18. CASE Addressed
      BY Zenon, <1>18 DEF Addressed, manager, flags
<1>19. CASE \E reason \in Reasons : Broken(reason)
      BY Zenon, <1>19 DEF Broken, manager, flags
<1>20. CASE Deliver
      BY Zenon, <1>20 DEF Deliver, manager
<1>21. CASE \E ok \in BOOLEAN : Restart(ok)
      BY Zenon, <1>21 DEF Restart
<1>22. CASE Calm
      BY Zenon, <1>22 DEF Calm, manager, flags, driver
<1>23. CASE UNCHANGED vars
      BY Zenon, <1>23 DEF vars, manager, flags, driver
<1> QED BY Zenon, <1>1, <1>2, <1>3, <1>4, <1>5, <1>6, <1>7, <1>8, <1>9, <1>10,
           <1>11, <1>12, <1>13, <1>14, <1>15, <1>16, <1>17, <1>18, <1>19,
           <1>20, <1>21, <1>22, <1>23 DEF Next, KeyPress, Poll, Driver


\* A step of the manager hides no news of the queue, and a link that goes
\* down is told last.
Carried ==
  /\ posted' \in Seq(Events)
  /\ Bad(posted) => Bad(posted')
  /\ Followed(posted) => Followed(posted')
  /\ link = "up" /\ link' # "up" => Bad(posted') /\ Followed(posted')

\* A step that tells nothing and leaves a link that is up alone.
LEMMA Untouched ==
  ASSUME posted \in Seq(Events), UNCHANGED posted, link = "up" => link' = "up"
  PROVE  Carried
BY Zenon DEF Carried

\* A step that takes the link or the access point down and tells so.
LEMMA Told ==
  ASSUME posted \in Seq(Events), NEW c, NEW d, link = "up" /\ link' # "up" => c,
         posted' = Tell(Tell(posted, c, "signal lost"), d, "ap stop")
  PROVE  Carried
<1> DEFINE s == Tell(posted, c, "signal lost")
<1>1. "signal lost" \in Reasons
      BY DEF Reasons
<1>2. /\ s \in Seq(Events)
      /\ Bad(posted) => Bad(s)
      /\ Followed(posted) => Followed(s)
      /\ c => Bad(s) /\ Followed(s)
      BY Zenon, <1>1, TellLost
<1>3. /\ posted' \in Seq(Events)
      /\ Bad(s) => Bad(posted')
      /\ Followed(s) => Followed(posted')
      BY Zenon, <1>2, TellStop
<1> QED BY Zenon, <1>2, <1>3 DEF Carried

\* A step that takes the link down and tells so.
LEMMA ToldLost ==
  ASSUME posted \in Seq(Events), NEW c, link = "up" /\ link' # "up" => c,
         posted' = Tell(posted, c, "signal lost")
  PROVE  Carried
<1>1. posted' = Tell(Tell(posted, c, "signal lost"), FALSE, "ap stop")
      BY DEF Tell
<1> QED BY Zenon, <1>1, Told

\* A link broken for any reason is told.
LEMMA ToldOther ==
  ASSUME posted \in Seq(Events), NEW r \in Reasons, posted' = Append(posted, r)
  PROVE  Carried
<1>1. posted' = Tell(posted, TRUE, r)
      BY DEF Tell
<1> QED BY Zenon, <1>1, TellLost DEF Carried

\* Every step but an address, a delivery and a restart.
Plain ==
  \/ KeyPress \/ Poll \/ Associated \/ Calm \/ UNCHANGED vars
  \/ \E reason \in Reasons : Broken(reason)

\* Every plain step carries the news.
LEMMA PlainStep ==
  ASSUME posted \in Seq(Events), Plain
  PROVE  Carried
<1>1. CASE \E ok \in BOOLEAN : StartScan(ok)
      BY Zenon, <1>1, Untouched DEF StartScan, driver
<1>2. CASE \E ok \in BOOLEAN : SwitchToScan(ok)
      BY Zenon, <1>2, Told DEF SwitchToScan, Drop
<1>3. CASE Cancel
      BY Zenon, <1>3, ToldLost DEF Cancel, LoseLink
<1>4. CASE \E ok \in BOOLEAN : Connect(ok)
      BY Zenon, <1>4, ToldLost DEF Connect, Associate
<1>5. CASE \E ok \in BOOLEAN : Retry(ok)
      BY Zenon, <1>5, ToldLost DEF Retry, Rejoin, Associate
<1>6. CASE Forget
      BY Zenon, <1>6, ToldLost DEF Forget, LoseLink
<1>7. CASE DropCurrent
      BY Zenon, <1>7, Told DEF DropCurrent, Drop
<1>8. CASE \E ok, cycled \in BOOLEAN : StartAp(ok, cycled)
      BY Zenon, <1>8, Told DEF StartAp, HalStartAp
<1>9. CASE PollGotIp
      BY Zenon, <1>9, Untouched DEF PollGotIp, driver
<1>10. CASE \E entries, inTime \in BOOLEAN : PollScan(entries, inTime)
      BY Zenon, <1>10, Untouched DEF PollScan, driver
<1>11. CASE PollRefused
      BY Zenon, <1>11, Untouched DEF PollRefused, Terminal, driver
<1>12. CASE PollTimeout
      BY Zenon, <1>12, ToldLost DEF PollTimeout, LoseLink
<1>13. CASE PollLost
      BY Zenon, <1>13, Untouched DEF PollLost, driver
<1>14. CASE \E ok \in BOOLEAN : PollRetry(ok)
      BY Zenon, <1>14, ToldLost DEF PollRetry, Associate
<1>15. CASE PollApStop
      BY Zenon, <1>15, Untouched DEF PollApStop, driver
<1>16. CASE PollIdle
      BY Zenon, <1>16, Untouched DEF PollIdle, driver
<1>17. CASE Associated
      BY Zenon, <1>17, Untouched DEF Associated
<1>18. CASE \E reason \in Reasons : Broken(reason)
      BY Zenon, <1>18, ToldOther DEF Broken
<1>19. CASE Calm
      BY Zenon, <1>19, Untouched DEF Calm, driver
<1>20. CASE UNCHANGED vars
      BY Zenon, <1>20, Untouched DEF vars, driver
<1> QED BY Zenon, <1>1, <1>2, <1>3, <1>4, <1>5, <1>6, <1>7, <1>8, <1>9, <1>10,
           <1>11, <1>12, <1>13, <1>14, <1>15, <1>16, <1>17, <1>18, <1>19, <1>20
           DEF Plain, KeyPress, Poll

\* The queue keeps its type.
LEMMA PostedStep ==
  ASSUME posted \in Seq(Events), [Next]_vars
  PROVE  posted' \in Seq(Events)
<1>1. CASE Plain
      BY Zenon, <1>1, PlainStep DEF Carried
<1>2. CASE Addressed
  <2>1. posted' = Append(posted, "got ip") /\ "got ip" \in Events
        BY Zenon, <1>2 DEF Addressed, Events
  <2> QED BY Zenon, <2>1, AppendOne
<1>3. CASE Deliver
  <2>1. posted # << >> /\ posted' = Tail(posted)
        BY Zenon, <1>3 DEF Deliver
  <2> QED BY Zenon, <2>1, TakeHead
<1>4. CASE \E ok \in BOOLEAN : Restart(ok)
  <2>1. posted' = << >>
        BY Zenon, <1>4 DEF Restart
  <2> QED BY <2>1
<1> QED BY Zenon, <1>1, <1>2, <1>3, <1>4 DEF Next, Driver, Plain

\* Flags and state that a step leaves alone, or clears.
LEMMA NewsKept ==
  ASSUME NewsInv, Carried, evGotIp' => evGotIp,
         UNCHANGED <<evDisconnected, handlers>>,
         state' = "CONNECTED" => state = "CONNECTED" /\ discarded' = discarded
  PROVE  NewsInv'
BY Zenon DEF NewsInv, Carried, BadNews

\* Flags cleared, or the state left, with the queue carried on.
LEMMA NewsCleared ==
  ASSUME NewsInv, Carried, ~evGotIp', state' # "CONNECTED"
  PROVE  NewsInv'
BY Zenon DEF NewsInv, Carried

\* The queue after a power cycle.
LEMMA EmptyFollowed == Followed(<< >>)
<1>1. Len(<< >>) = 0
      BY EmptySeq
<1>2. 1..0 = {}
      OBVIOUS
<1> QED BY Zenon, <1>1, <1>2 DEF Followed

\* Every step keeps the news.
LEMMA NewsStep ==
  ASSUME StateTyped, posted \in Seq(Events), NewsInv, [Next]_vars
  PROVE  NewsInv'
<1>1. CASE \E ok \in BOOLEAN : StartScan(ok)
  <2>1. Carried
        BY Zenon, <1>1, PlainStep DEF Plain, KeyPress, Poll
  <2> QED BY Zenon, <1>1, <2>1, NewsCleared DEF StartScan, Scan
<1>2. CASE \E ok \in BOOLEAN : SwitchToScan(ok)
  <2>1. Carried
        BY Zenon, <1>2, PlainStep DEF Plain, KeyPress, Poll
  <2> QED BY Zenon, <1>2, <2>1, NewsCleared DEF SwitchToScan, Scan, Drop, Attached
<1>3. CASE Cancel
  <2>1. Carried
        BY Zenon, <1>3, PlainStep DEF Plain, KeyPress, Poll
  <2> QED BY Zenon, <1>3, <2>1, NewsCleared DEF Cancel, ClearEvents
<1>4. CASE \E ok \in BOOLEAN : Connect(ok)
  <2>1. Carried
        BY Zenon, <1>4, PlainStep DEF Plain, KeyPress, Poll
  <2> QED BY Zenon, <1>4, <2>1, NewsCleared DEF Connect, Associate, ClearEvents
<1>5. CASE \E ok \in BOOLEAN : Retry(ok)
  <2>1. Carried
        BY Zenon, <1>5, PlainStep DEF Plain, KeyPress, Poll
  <2> QED BY Zenon, <1>5, <2>1, NewsCleared DEF Retry, Rejoin, Associate, ClearEvents
<1>6. CASE Forget
  <2>1. Carried
        BY Zenon, <1>6, PlainStep DEF Plain, KeyPress, Poll
  <2> QED BY Zenon, <1>6, <2>1, NewsCleared DEF Forget, ClearEvents
<1>7. CASE DropCurrent
  <2>1. Carried
        BY Zenon, <1>7, PlainStep DEF Plain, KeyPress, Poll
  <2> QED BY Zenon, <1>7, <2>1, NewsKept, NewsCleared DEF DropCurrent, Drop,
             Attached
<1>8. CASE \E ok, cycled \in BOOLEAN : StartAp(ok, cycled)
  <2>1. Carried
        BY Zenon, <1>8, PlainStep DEF Plain, KeyPress, Poll
  <2>2. state' # "CONNECTED"
        BY Zenon, <1>8 DEF StartAp, HalStartAp
  <2>3. UNCHANGED <<evGotIp, evDisconnected, handlers>>
        BY Zenon, <1>8 DEF StartAp, HalStartAp
  <2> QED BY Zenon, <2>1, <2>2, <2>3, NewsKept
<1>9. CASE PollGotIp
  <2>1. UNCHANGED <<link, posted, handlers>> /\ evGotIp /\ ~evGotIp'
        BY Zenon, <1>9 DEF PollGotIp, GotIpFirst, driver
  <2>2. evDisconnected # "" => discarded'
        BY Zenon, <1>9 DEF PollGotIp, GotIpFirst, Awaiting
  <2>3. handlers /\ (link = "up" \/ evDisconnected # "" \/ Bad(posted))
        BY Zenon, <2>1 DEF NewsInv, BadNews
  <2> QED BY Zenon, <2>1, <2>2, <2>3 DEF NewsInv, BadNews
<1>10. CASE \E entries, inTime \in BOOLEAN : PollScan(entries, inTime)
  <2>1. Carried
        BY Zenon, <1>10, PlainStep DEF Plain, KeyPress, Poll
  <2> QED BY Zenon, <1>10, <2>1, NewsCleared DEF PollScan
<1>11. CASE PollRefused
  <2>1. Carried
        BY Zenon, <1>11, PlainStep DEF Plain, KeyPress, Poll
  <2> QED BY Zenon, <1>11, <2>1, NewsCleared DEF PollRefused, Terminal, GotIpFirst, Awaiting
<1>12. CASE PollTimeout
  <2>1. Carried
        BY Zenon, <1>12, PlainStep DEF Plain, KeyPress, Poll
  <2> QED BY Zenon, <1>12, <2>1, NewsKept DEF PollTimeout, GotIpFirst,
             Awaiting, flags
<1>13. CASE PollLost
  <2>1. Carried
        BY Zenon, <1>13, PlainStep DEF Plain, KeyPress, Poll
  <2> QED BY Zenon, <1>13, <2>1, NewsCleared DEF PollLost
<1>14. CASE \E ok \in BOOLEAN : PollRetry(ok)
  <2>1. Carried
        BY Zenon, <1>14, PlainStep DEF Plain, KeyPress, Poll
  <2> QED BY Zenon, <1>14, <2>1, NewsCleared DEF PollRetry, GotIpFirst,
             Awaiting, Associate, ClearEvents
<1>15. CASE PollApStop
  <2>1. Carried
        BY Zenon, <1>15, PlainStep DEF Plain, KeyPress, Poll
  <2> QED BY Zenon, <1>15, <2>1, NewsCleared DEF PollApStop
<1>16. CASE PollIdle
  <2>1. Carried
        BY Zenon, <1>16, PlainStep DEF Plain, KeyPress, Poll
  <2> QED BY Zenon, <1>16, <2>1, NewsKept DEF PollIdle, GotIpFirst, Awaiting,
             manager
<1>17. CASE Associated
  <2>1. Carried
        BY Zenon, <1>17, PlainStep DEF Plain, KeyPress, Poll
  <2> QED BY Zenon, <1>17, <2>1, NewsKept DEF Associated, manager, flags
<1>18. CASE Addressed
  <2>1. link' = "up" /\ UNCHANGED <<state, evGotIp, handlers>>
        BY Zenon, <1>18 DEF Addressed, manager, flags
  <2> QED BY Zenon, <2>1 DEF NewsInv
<1>19. CASE \E reason \in Reasons : Broken(reason)
  <2>1. Carried
        BY Zenon, <1>19, PlainStep DEF Plain, KeyPress, Poll
  <2>2. UNCHANGED <<state, evGotIp, evDisconnected, handlers, discarded>>
        BY Zenon, <1>19 DEF Broken, manager, flags
  <2> QED BY Zenon, <2>1, <2>2, NewsKept
<1>20. CASE Deliver
  <2>1. /\ posted # << >> /\ posted' = Tail(posted)
        /\ evGotIp' => evGotIp \/ (Head(posted) = "got ip" /\ handlers)
        /\ evDisconnected' = IF Head(posted) \in Reasons /\ handlers
                                THEN Head(posted) ELSE evDisconnected
        /\ UNCHANGED <<state, link, handlers, discarded>>
    <3>1. posted # << >> /\ posted' = Tail(posted)
          BY Zenon, <1>20 DEF Deliver
    <3>2. evGotIp' => evGotIp \/ (Head(posted) = "got ip" /\ handlers)
          BY Zenon, <1>20 DEF Deliver
    <3>3. evDisconnected' = IF Head(posted) \in Reasons /\ handlers
                              THEN Head(posted) ELSE evDisconnected
          BY Zenon, <1>20 DEF Deliver
    <3>4. UNCHANGED <<state, link, handlers, discarded>>
          BY Zenon, <1>20 DEF Deliver, manager
    <3> QED BY Zenon, <3>1, <3>2, <3>3, <3>4
  <2>2. /\ Bad(posted) => Head(posted) \in Reasons \/ Bad(posted')
        /\ Followed(posted) => Followed(posted')
        /\ Followed(posted) /\ Head(posted) = "got ip" => Bad(posted')
        BY Zenon, <2>1, TakeHead
  <2>3. "" \notin Reasons
        BY DEF Reasons
  <2>4. handlers /\ BadNews => BadNews'
        BY Zenon, <2>1, <2>2, <2>3 DEF BadNews
  <2>5. link' = "up" \/ Followed(posted')
        BY Zenon, <2>1, <2>2 DEF NewsInv
  <2>6. evGotIp' => handlers' /\ (link' = "up" \/ BadNews')
        BY Zenon, <2>1, <2>2, <2>4 DEF NewsInv, BadNews
  <2>7. state' = "CONNECTED" => handlers' /\ (link' = "up" \/ BadNews' \/ discarded')
        BY Zenon, <2>1, <2>4 DEF NewsInv
  <2> QED BY Zenon, <2>5, <2>6, <2>7 DEF NewsInv
<1>21. CASE \E ok \in BOOLEAN : Restart(ok)
  <2>1. posted' = << >> /\ ~evGotIp' /\ state' # "CONNECTED"
        BY Zenon, <1>21 DEF Restart
  <2>2. Followed(posted')
        BY Zenon, <2>1, EmptyFollowed
  <2> QED BY Zenon, <2>1, <2>2 DEF NewsInv
<1>22. CASE Calm
  <2>1. Carried
        BY Zenon, <1>22, PlainStep DEF Plain, KeyPress, Poll
  <2> QED BY Zenon, <1>22, <2>1, NewsKept DEF Calm, manager, flags
<1>23. CASE UNCHANGED vars
  <2>1. Carried
        BY Zenon, <1>23, PlainStep DEF Plain, KeyPress, Poll
  <2> QED BY Zenon, <1>23, <2>1, NewsKept DEF vars, manager, flags
<1> QED BY Zenon, <1>1, <1>2, <1>3, <1>4, <1>5, <1>6, <1>7, <1>8, <1>9, <1>10,
           <1>11, <1>12, <1>13, <1>14, <1>15, <1>16, <1>17, <1>18, <1>19,
           <1>20, <1>21, <1>22, <1>23 DEF Next, KeyPress, Poll, Driver

-----------------------------------------------------------------------------
(* The retries.                                                            *)

\* With no retry pending only a lost link breaks the discipline.
LEMMA NoRetry ==
  ASSUME retryAt' = 0, state' # "DISCONNECTED"
  PROVE  RetryDiscipline'
BY Zenon DEF RetryDiscipline

\* Every step keeps the discipline; a wait that is scheduled is never zero.
LEMMA RetryStep ==
  ASSUME WaitsTyped, RetryDiscipline, [Next]_vars
  PROVE  RetryDiscipline'
<1>1. CASE \E ok \in BOOLEAN : StartScan(ok)
      BY Zenon, <1>1, NoRetry DEF StartScan, Scan, CancelRetry
<1>2. CASE \E ok \in BOOLEAN : SwitchToScan(ok)
      BY Zenon, <1>2, NoRetry DEF SwitchToScan, Scan, CancelRetry
<1>3. CASE Cancel
      BY Zenon, <1>3, NoRetry DEF Cancel, CancelRetry
<1>4. CASE \E ok \in BOOLEAN : Connect(ok)
      BY Zenon, <1>4, NoRetry DEF Connect, Associate, CancelRetry
<1>5. CASE \E ok \in BOOLEAN : Retry(ok)
      BY Zenon, <1>5, NoRetry DEF Retry, Rejoin, Associate, CancelRetry
<1>6. CASE Forget
      BY Zenon, <1>6, NoRetry DEF Forget, CancelRetry
<1>7. CASE DropCurrent
  <2>1. retryAt' = 0 /\ state' # "DISCONNECTED"
        BY Zenon, <1>7 DEF DropCurrent, CancelRetry, Attached, RetryDiscipline
  <2> QED BY Zenon, <2>1, NoRetry
<1>8. CASE \E ok, cycled \in BOOLEAN : StartAp(ok, cycled)
  <2>1. retryAt' = 0 /\ state' # "DISCONNECTED"
        BY Zenon, <1>8 DEF StartAp, HalStartAp, RetryDiscipline
  <2> QED BY Zenon, <2>1, NoRetry
<1>9. CASE PollGotIp
      BY Zenon, <1>9, NoRetry DEF PollGotIp, CancelRetry
<1>10. CASE \E entries, inTime \in BOOLEAN : PollScan(entries, inTime)
  <2>1. retryAt' = 0 /\ state' # "DISCONNECTED"
        BY Zenon, <1>10 DEF PollScan, RetryDiscipline
  <2> QED BY Zenon, <2>1, NoRetry
<1>11. CASE PollRefused
  <2>1. CASE evDisconnected = "wrong password"
        BY Zenon, <1>11, <2>1, NoRetry DEF PollRefused, Terminal, CancelRetry
  <2>2. CASE evDisconnected # "wrong password"
    <3>1. ScheduleRetry /\ state' = "CONNECT_FAILED" /\ error' # "wrong password"
          BY Zenon, <1>11, <2>2 DEF PollRefused, Terminal
    <3> QED BY Zenon, <3>1, Doubling DEF RetryDiscipline
  <2> QED BY Zenon, <2>1, <2>2
<1>12. CASE PollTimeout
  <2>1. ScheduleRetry /\ state' = "CONNECT_FAILED" /\ error' # "wrong password"
        BY Zenon, <1>12 DEF PollTimeout
  <2> QED BY Zenon, <2>1, Doubling DEF RetryDiscipline
<1>13. CASE PollLost
  <2>1. ScheduleRetry /\ state' = "DISCONNECTED"
        BY Zenon, <1>13 DEF PollLost
  <2> QED BY Zenon, <2>1, Doubling DEF RetryDiscipline
<1>14. CASE \E ok \in BOOLEAN : PollRetry(ok)
      BY Zenon, <1>14, NoRetry DEF PollRetry, Associate, CancelRetry
<1>15. CASE PollApStop
  <2>1. retryAt' = 0 /\ state' # "DISCONNECTED"
        BY Zenon, <1>15 DEF PollApStop, RetryDiscipline
  <2> QED BY Zenon, <2>1, NoRetry
<1>16. CASE PollIdle
  <2>1. UNCHANGED <<state, error, retryAt>>
        BY Zenon, <1>16 DEF PollIdle, manager
  <2> QED BY Zenon, <2>1 DEF RetryDiscipline
<1>17. CASE Associated
  <2>1. UNCHANGED <<state, error, retryAt>>
        BY Zenon, <1>17 DEF Associated, manager
  <2> QED BY Zenon, <2>1 DEF RetryDiscipline
<1>18. CASE Addressed
  <2>1. UNCHANGED <<state, error, retryAt>>
        BY Zenon, <1>18 DEF Addressed, manager
  <2> QED BY Zenon, <2>1 DEF RetryDiscipline
<1>19. CASE \E reason \in Reasons : Broken(reason)
  <2>1. UNCHANGED <<state, error, retryAt>>
        BY Zenon, <1>19 DEF Broken, manager
  <2> QED BY Zenon, <2>1 DEF RetryDiscipline
<1>20. CASE Deliver
  <2>1. UNCHANGED <<state, error, retryAt>>
        BY Zenon, <1>20 DEF Deliver, manager
  <2> QED BY Zenon, <2>1 DEF RetryDiscipline
<1>21. CASE \E ok \in BOOLEAN : Restart(ok)
      BY Zenon, <1>21, NoRetry DEF Restart
<1>22. CASE Calm
  <2>1. UNCHANGED <<state, error, retryAt>>
        BY Zenon, <1>22 DEF Calm, manager
  <2> QED BY Zenon, <2>1 DEF RetryDiscipline
<1>23. CASE UNCHANGED vars
  <2>1. UNCHANGED <<state, error, retryAt>>
        BY Zenon, <1>23 DEF vars, manager
  <2> QED BY Zenon, <2>1 DEF RetryDiscipline
<1> QED BY Zenon, <1>1, <1>2, <1>3, <1>4, <1>5, <1>6, <1>7, <1>8, <1>9, <1>10,
           <1>11, <1>12, <1>13, <1>14, <1>15, <1>16, <1>17, <1>18, <1>19,
           <1>20, <1>21, <1>22, <1>23
        DEF Next, KeyPress, Poll, Driver

-----------------------------------------------------------------------------
(* What is stored.                                                         *)

\* A station that knows a network or is about to join one has it stored.
JoinInv ==
  nvs.mode = "STATION" /\ (ssid \/ state \in Attached) => nvs.saved

\* A step that stores nothing and learns no network.
LEMMA JoinKept ==
  ASSUME JoinInv, nvs' = nvs, ssid' = ssid, state' \in Attached => state \in Attached
  PROVE  JoinInv'
BY Zenon DEF JoinInv

\* Every step keeps what is stored in step with what is known.
LEMMA JoinStep ==
  ASSUME nvs \in [mode : {"STATION", "ACCESS_POINT"}, saved : BOOLEAN],
         RetryDiscipline, JoinInv, [Next]_vars
  PROVE  JoinInv'
<1> USE DEF JoinInv, Attached
<1>1. CASE \E ok \in BOOLEAN : StartScan(ok)
  <2>1. nvs' = nvs /\ ssid' = ssid /\ (state' \in Attached => state \in Attached)
        BY Zenon, <1>1 DEF StartScan, Scan
  <2> QED BY Zenon, <2>1, JoinKept
<1>2. CASE \E ok \in BOOLEAN : SwitchToScan(ok)
  <2>1. nvs' = nvs /\ ssid' = ssid /\ (state' \in Attached => state \in Attached)
        BY Zenon, <1>2 DEF SwitchToScan, Scan
  <2> QED BY Zenon, <2>1, JoinKept
<1>3. CASE Cancel
      BY <1>3 DEF Cancel
<1>4. CASE \E ok \in BOOLEAN : Connect(ok)
      BY <1>4 DEF Connect
<1>5. CASE \E ok \in BOOLEAN : Retry(ok)
      BY <1>5 DEF Retry, Rejoin
<1>6. CASE Forget
      BY <1>6 DEF Forget
<1>7. CASE DropCurrent
      BY <1>7 DEF DropCurrent, RetryDiscipline
<1>8. CASE \E ok, cycled \in BOOLEAN : StartAp(ok, cycled)
      BY <1>8 DEF StartAp, HalStartAp
<1>9. CASE PollGotIp
  <2>1. nvs' = nvs /\ ssid' = ssid /\ (state' \in Attached => state \in Attached)
        BY Zenon, <1>9 DEF PollGotIp, GotIpFirst, Awaiting
  <2> QED BY Zenon, <2>1, JoinKept
<1>10. CASE \E entries, inTime \in BOOLEAN : PollScan(entries, inTime)
  <2>1. nvs' = nvs /\ ssid' = ssid /\ (state' \in Attached => state \in Attached)
        BY Zenon, <1>10 DEF PollScan
  <2> QED BY Zenon, <2>1, JoinKept
<1>11. CASE PollRefused
      BY <1>11 DEF PollRefused, Terminal
<1>12. CASE PollTimeout
      BY <1>12 DEF PollTimeout
<1>13. CASE PollLost
      BY <1>13 DEF PollLost
<1>14. CASE \E ok \in BOOLEAN : PollRetry(ok)
      BY <1>14 DEF PollRetry, Associate, RetryDiscipline
<1>15. CASE PollApStop
      BY <1>15 DEF PollApStop
<1>16. CASE PollIdle
      BY <1>16 DEF PollIdle, manager
<1>17. CASE Associated
      BY <1>17 DEF Associated, manager
<1>18. CASE Addressed
      BY <1>18 DEF Addressed, manager
<1>19. CASE \E reason \in Reasons : Broken(reason)
      BY <1>19 DEF Broken, manager
<1>20. CASE Deliver
      BY <1>20 DEF Deliver, manager
<1>21. CASE \E ok \in BOOLEAN : Restart(ok)
      BY <1>21 DEF Restart
<1>22. CASE Calm
      BY <1>22 DEF Calm, manager
<1>23. CASE UNCHANGED vars
      BY <1>23 DEF vars, manager
<1> QED BY Zenon, <1>1, <1>2, <1>3, <1>4, <1>5, <1>6, <1>7, <1>8, <1>9, <1>10,
           <1>11, <1>12, <1>13, <1>14, <1>15, <1>16, <1>17, <1>18, <1>19,
           <1>20, <1>21, <1>22, <1>23
        DEF Next, KeyPress, Poll, Driver

-----------------------------------------------------------------------------
(* The theorems.                                                           *)

\* The type invariant: every variable keeps its type, and no wait outgrows
\* kBackoffMaxMs, whatever the two backoff times are.
THEOREM TypeCorrect == Spec => []TypeOK
<1>1. Init => TypeOK
  <2> SUFFICES ASSUME Init PROVE TypeOK
      OBVIOUS
  <2>1. StateTyped /\ BitsTyped
        BY Zenon DEF Init, StateTyped, BitsTyped, States, Errors
  <2>2. DriverTyped
        BY DEF Init, DriverTyped
  <2>3. retryAt = 0 /\ backoff = BackoffStart
        BY Zenon DEF Init
  <2>4. WaitsTyped
        BY <2>3, BackoffType, BackoffOrder DEF WaitsTyped
  <2>5. posted \in Seq(Events)
    <3>1. posted = << >>
          BY Zenon DEF Init
    <3> QED BY <3>1
  <2> QED BY Zenon, <2>1, <2>2, <2>4, <2>5, TypeParts
<1>2. TypeOK /\ [Next]_vars => TypeOK'
  <2> SUFFICES ASSUME TypeOK, [Next]_vars PROVE TypeOK'
      OBVIOUS
  <2>1. StateTyped /\ WaitsTyped /\ BitsTyped /\ DriverTyped /\ posted \in Seq(Events)
        BY Zenon, TypeParts
  <2>2. nvs.mode \in {"STATION", "ACCESS_POINT"} /\ evDisconnected \in Reasons \union {""}
        BY <2>1 DEF DriverTyped
  <2>3. StateTyped'
        BY Zenon, <2>1, <2>2, StateStep
  <2>4. WaitsTyped'
        BY Zenon, <2>1, WaitsStep
  <2>5. BitsTyped'
        BY Zenon, <2>1, BitsStep
  <2>6. DriverTyped'
        BY Zenon, <2>1, DriverStep
  <2>7. posted' \in Seq(Events)
        BY Zenon, <2>1, PostedStep
  <2> QED BY Zenon, <2>3, <2>4, <2>5, <2>6, <2>7 DEF TypeOK, StateTyped,
             WaitsTyped, BitsTyped, DriverTyped
<1> QED BY <1>1, <1>2, PTL DEF Spec

\* RetryDiscipline for every pair of backoff times: attempts are scheduled
\* exactly where the state machine waits for one (scheduleRetry, cancelRetry).
THEOREM RetryDisciplineAlways == Spec => []RetryDiscipline
<1>1. Init => RetryDiscipline
      BY Zenon DEF Init, RetryDiscipline
<1>2. TypeOK /\ RetryDiscipline /\ [Next]_vars => RetryDiscipline'
      BY Zenon, TypeParts, RetryStep
<1> QED BY <1>1, <1>2, TypeCorrect, PTL DEF Spec

\* ConnectedIsReal however long the event queue grows: a link that is gone is
\* either known, on its way to poll(), or was discarded by the poll that
\* connected.
THEOREM ConnectedAlwaysReal == Spec => []ConnectedIsReal
<1>1. Init => NewsInv
      BY Zenon, EmptyFollowed DEF Init, NewsInv
<1>2. TypeOK /\ NewsInv /\ [Next]_vars => NewsInv'
      BY Zenon, TypeParts, NewsStep
<1>3. NewsInv => ConnectedIsReal
      BY Zenon DEF NewsInv, ConnectedIsReal
<1> QED BY <1>1, <1>2, <1>3, TypeCorrect, PTL DEF Spec

\* ConnectedAcrossReboots for every history of joining, forgetting and power
\* cycles: what connect() stores, only disconnectAndForget() erases, and that
\* also ends the connection and the knowledge R would use.
THEOREM ConnectedAlwaysStored == Spec => []ConnectedAcrossReboots
<1>1. Init => JoinInv
      BY DEF Init, JoinInv, Attached
<1>2. TypeOK /\ RetryDiscipline /\ JoinInv /\ [Next]_vars => JoinInv'
      BY Zenon, JoinStep DEF TypeOK
<1>3. JoinInv => ConnectedAcrossReboots
      BY DEF JoinInv, ConnectedAcrossReboots, Attached
<1> QED BY <1>1, <1>2, <1>3, TypeCorrect, RetryDisciplineAlways, PTL DEF Spec

=============================================================================
