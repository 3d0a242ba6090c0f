--------------------------- MODULE TextModelProofs ---------------------------
(***************************************************************************)
(* What TLAPS proves of TextModel, for every size of the ring and of the   *)
(* panel, and every number of characters and keys.                         *)
(***************************************************************************)
EXTENDS TextModel, TLAPS

LEMMA Bounds ==
  /\ N \in Nat \ {0} /\ Window \in Nat \ {0} /\ Limit \in Nat \ {0}
  /\ Changes \in Nat \ {0} /\ Window < N
BY TextBounds

\* An index less than twice the size of the ring wraps round once.
Wrap(x) == IF x < N THEN x ELSE x - N

LEMMA Wraps ==
  ASSUME NEW x \in 0 .. 2 * N - 1
  PROVE  x % N = Wrap(x) /\ x % N \in 0 .. N - 1
<1>1. N \in Nat \ {0}
      BY Bounds
<1>2. CASE x < N
      BY <1>1, <1>2 DEF Wrap
<1>3. CASE x >= N
      BY <1>1, <1>3 DEF Wrap
<1> QED BY <1>1, <1>2, <1>3

LEMMA WrapsAny ==
  ASSUME NEW x \in Int
  PROVE  x % N \in 0 .. N - 1
BY Bounds

-----------------------------------------------------------------------------
(* Types.                                                                  *)

LEMMA TypeInit == Init => TypeOK
<1> SUFFICES ASSUME Init
             PROVE  TypeOK
    OBVIOUS
<1> USE Bounds DEF Init
<1>1. RingType
      BY DEF RingType
<1>2. WritersType
  <2>1. [step |-> "rest", head |-> 0, len |-> 0]
          \in [step : Stages, head : 0 .. N - 1, len : 0 .. N]
        BY DEF Stages
  <2>2. app \in [Writers -> [step : Stages, head : 0 .. N - 1, len : 0 .. N]]
        BY <2>1, Zenon
  <2>3. said \in 0 .. Limit
        OBVIOUS
  <2>4. raced \in BOOLEAN
        OBVIOUS
  <2> QED BY <2>2, <2>3, <2>4 DEF WritersType
<1>3. SaverType
      BY DEF SaverType
<1>4. DisplayType
      BY DEF DisplayType, Places
<1> QED BY <1>1, <1>2, <1>3, <1>4 DEF TypeOK

\* The ring and the change counter.
LEMMA RingStep ==
  ASSUME TypeOK, [Next]_vars
  PROVE  RingType'
<1> USE Bounds DEF TypeOK, RingType, WritersType, ring, writing, saver, display
<1>1. ASSUME NEW w \in Writers, Append1(w)
      PROVE  RingType'
      BY <1>1 DEF Append1
<1>2. ASSUME NEW w \in Writers, MoveHead(w)
      PROVE  RingType'
  <2>1. app[w].head + 1 \in Int
        OBVIOUS
  <2>2. (app[w].head + 1) % N \in 0 .. N - 1
        BY <2>1, WrapsAny
  <2> QED BY <1>2, <2>2 DEF MoveHead
<1>3. ASSUME NEW w \in Writers, LoadLen(w)
      PROVE  RingType'
      BY <1>3 DEF LoadLen
<1>4. ASSUME NEW w \in Writers, Count(w)
      PROVE  RingType'
  <2>1. tail + 1 \in Int
        OBVIOUS
  <2>2. (tail + 1) % N \in 0 .. N - 1
        BY <2>1, WrapsAny
  <2>3. UNCHANGED <<buf, head, counter>>
        BY <1>4 DEF Count
  <2>4. CASE app[w].len < N
    <3>1. len' = app[w].len + 1 /\ tail' = tail
          BY <1>4, <2>4 DEF Count
    <3>2. app[w].len \in 0 .. N
          OBVIOUS
    <3>3. len' \in 0 .. N
          BY <2>4, <3>1, <3>2
    <3> QED BY <2>3, <3>1, <3>3
  <2>5. CASE ~(app[w].len < N)
    <3>1. len' = len /\ tail' = (tail + 1) % N
          BY <1>4, <2>5 DEF Count
    <3> QED BY <2>2, <2>3, <3>1
  <2> QED BY <2>4, <2>5
<1>5. ASSUME NEW w \in Writers, Notify(w)
      PROVE  RingType'
      BY <1>5 DEF Notify
<1>6. CASE Look
      BY <1>6 DEF Look
<1>7. CASE Blank
      BY <1>7 DEF Blank
<1>8. CASE DontBlank
      BY <1>8 DEF DontBlank, Disp
<1>9. CASE Power
      BY <1>9 DEF Power, Disp
<1>10. CASE TakeWake
      BY <1>10 DEF TakeWake, Disp
<1>11. CASE Woken
      BY <1>11 DEF Woken
<1>12. CASE NoWake
      BY <1>12 DEF NoWake
<1>13. CASE Skip
      BY <1>13 DEF Skip
<1>14. CASE Render
      BY <1>14 DEF Render
<1>15. CASE Load
      BY <1>15 DEF Load
<1>16. CASE Show
      BY <1>16 DEF Show
<1>17. CASE Press
      BY <1>17 DEF Press
<1>18. CASE Request
      BY <1>18 DEF Request
<1>19. CASE Idle
      BY <1>19 DEF Idle
<1>20. CASE UNCHANGED vars
      BY <1>20 DEF vars
<1> QED BY <1>1, <1>2, <1>3, <1>4, <1>5, <1>6, <1>7, <1>8, <1>9, <1>10, <1>11,
        <1>12, <1>13, <1>14, <1>15, <1>16, <1>17, <1>18, <1>19, <1>20 DEF
        Next, Write, Display

\* The writers' appends.
LEMMA WritersStep ==
  ASSUME TypeOK, [Next]_vars
  PROVE  WritersType'
<1> USE Bounds DEF TypeOK, RingType, WritersType, ring, writing, saver, display, Stages
<1>1. ASSUME NEW w \in Writers, Append1(w)
      PROVE  WritersType'
      BY <1>1 DEF Append1
<1>2. ASSUME NEW w \in Writers, MoveHead(w)
      PROVE  WritersType'
  <2>1. [app[w] EXCEPT !.step = "len", !.head = 0]
          \in [step : Stages, head : 0 .. N - 1, len : 0 .. N]
    <3>1. app[w] \in [step : Stages, head : 0 .. N - 1, len : 0 .. N]
          OBVIOUS
    <3>2. 0 \in 0 .. N - 1 /\ 0 \in 0 .. N
          OBVIOUS
    <3> HIDE DEF TypeOK, RingType, WritersType
    <3> QED BY <3>1, <3>2
  <2> QED BY <1>2, <2>1 DEF MoveHead
<1>3. ASSUME NEW w \in Writers, LoadLen(w)
      PROVE  WritersType'
      BY <1>3 DEF LoadLen
<1>4. ASSUME NEW w \in Writers, Count(w)
      PROVE  WritersType'
      BY <1>4 DEF Count, Goto
<1>5. ASSUME NEW w \in Writers, Notify(w)
      PROVE  WritersType'
  <2>1. [app[w] EXCEPT !.step = "rest", !.len = 0]
          \in [step : Stages, head : 0 .. N - 1, len : 0 .. N]
    <3>1. app[w] \in [step : Stages, head : 0 .. N - 1, len : 0 .. N]
          OBVIOUS
    <3>2. 0 \in 0 .. N - 1 /\ 0 \in 0 .. N
          OBVIOUS
    <3> HIDE DEF TypeOK, RingType, WritersType
    <3> QED BY <3>1, <3>2
  <2> QED BY <1>5, <2>1 DEF Notify
<1>6. CASE Look
      BY <1>6 DEF Look
<1>7. CASE Blank
      BY <1>7 DEF Blank
<1>8. CASE DontBlank
      BY <1>8 DEF DontBlank, Disp
<1>9. CASE Power
      BY <1>9 DEF Power, Disp
<1>10. CASE TakeWake
      BY <1>10 DEF TakeWake, Disp
<1>11. CASE Woken
      BY <1>11 DEF Woken
<1>12. CASE NoWake
      BY <1>12 DEF NoWake
<1>13. CASE Skip
      BY <1>13 DEF Skip
<1>14. CASE Render
      BY <1>14 DEF Render
<1>15. CASE Load
      BY <1>15 DEF Load
<1>16. CASE Show
      BY <1>16 DEF Show
<1>17. CASE Press
      BY <1>17 DEF Press
<1>18. CASE Request
      BY <1>18 DEF Request
<1>19. CASE Idle
      BY <1>19 DEF Idle
<1>20. CASE UNCHANGED vars
      BY <1>20 DEF vars
<1> QED BY <1>1, <1>2, <1>3, <1>4, <1>5, <1>6, <1>7, <1>8, <1>9, <1>10, <1>11,
        <1>12, <1>13, <1>14, <1>15, <1>16, <1>17, <1>18, <1>19, <1>20 DEF
        Next, Write, Display

\* The screen-saver's flags.
LEMMA SaverStep ==
  ASSUME TypeOK, [Next]_vars
  PROVE  SaverType'
<1> USE Bounds DEF TypeOK, SaverType, ring, writing, saver, display
<1>1. ASSUME NEW w \in Writers, Append1(w)
      PROVE  SaverType'
      BY <1>1 DEF Append1
<1>2. ASSUME NEW w \in Writers, MoveHead(w)
      PROVE  SaverType'
      BY <1>2 DEF MoveHead
<1>3. ASSUME NEW w \in Writers, LoadLen(w)
      PROVE  SaverType'
      BY <1>3 DEF LoadLen
<1>4. ASSUME NEW w \in Writers, Count(w)
      PROVE  SaverType'
      BY <1>4 DEF Count
<1>5. ASSUME NEW w \in Writers, Notify(w)
      PROVE  SaverType'
      BY <1>5 DEF Notify
<1>6. CASE Look
      BY <1>6 DEF Look
<1>7. CASE Blank
      BY <1>7 DEF Blank
<1>8. CASE DontBlank
      BY <1>8 DEF DontBlank, Disp
<1>9. CASE Power
      BY <1>9 DEF Power, Disp
<1>10. CASE TakeWake
      BY <1>10 DEF TakeWake, Disp
<1>11. CASE Woken
      BY <1>11 DEF Woken
<1>12. CASE NoWake
      BY <1>12 DEF NoWake
<1>13. CASE Skip
      BY <1>13 DEF Skip
<1>14. CASE Render
      BY <1>14 DEF Render
<1>15. CASE Load
      BY <1>15 DEF Load
<1>16. CASE Show
      BY <1>16 DEF Show
<1>17. CASE Press
      BY <1>17 DEF Press
<1>18. CASE Request
      BY <1>18 DEF Request
<1>19. CASE Idle
      BY <1>19 DEF Idle
<1>20. CASE UNCHANGED vars
      BY <1>20 DEF vars
<1> QED BY <1>1, <1>2, <1>3, <1>4, <1>5, <1>6, <1>7, <1>8, <1>9, <1>10, <1>11,
        <1>12, <1>13, <1>14, <1>15, <1>16, <1>17, <1>18, <1>19, <1>20 DEF
        Next, Write, Display

\* The display task and the panel.
LEMMA DisplayStep ==
  ASSUME TypeOK, [Next]_vars
  PROVE  DisplayType'
<1> USE Bounds DEF TypeOK, RingType, SaverType, DisplayType, Places, ring, writing, saver, display
<1>1. ASSUME NEW w \in Writers, Append1(w)
      PROVE  DisplayType'
      BY <1>1 DEF Append1
<1>2. ASSUME NEW w \in Writers, MoveHead(w)
      PROVE  DisplayType'
      BY <1>2 DEF MoveHead
<1>3. ASSUME NEW w \in Writers, LoadLen(w)
      PROVE  DisplayType'
      BY <1>3 DEF LoadLen
<1>4. ASSUME NEW w \in Writers, Count(w)
      PROVE  DisplayType'
      BY <1>4 DEF Count
<1>5. ASSUME NEW w \in Writers, Notify(w)
      PROVE  DisplayType'
      BY <1>5 DEF Notify
<1>6. CASE Look
      BY <1>6 DEF Look
<1>7. CASE Blank
      BY <1>7 DEF Blank
<1>8. CASE DontBlank
      BY <1>8 DEF DontBlank, Disp
<1>9. CASE Power
  <2>1. disp' = [disp EXCEPT !.step = "wake"]
        BY <1>9 DEF Power, Disp
  <2>2. CASE disp.on = disp.was
        BY <1>9, <2>1, <2>2 DEF Power
  <2>3. CASE ~(disp.on = disp.was)
    <3>1. panel' = disp.on /\ shown' \in {shown, <<>>}
          BY <1>9, <2>3 DEF Power
    <3>2. shown' \in Seq(0 .. Limit) /\ Len(shown') <= Window
      <4>1. <<>> \in Seq(0 .. Limit) /\ Len(<<>>) = 0
            OBVIOUS
      <4>2. shown \in Seq(0 .. Limit) /\ Len(shown) <= Window
            OBVIOUS
      <4>3. CASE shown' = shown
            BY <4>2, <4>3
      <4>4. CASE shown' = <<>>
            BY <4>1, <4>4
      <4> QED BY <3>1, <4>3, <4>4
    <3> QED BY <2>1, <3>1, <3>2
  <2> QED BY <2>2, <2>3
<1>10. CASE TakeWake
      BY <1>10 DEF TakeWake, Disp
<1>11. CASE Woken
      BY <1>11 DEF Woken
<1>12. CASE NoWake
      BY <1>12 DEF NoWake
<1>13. CASE Skip
      BY <1>13 DEF Skip
<1>14. CASE Render
      BY <1>14 DEF Render
<1>15. CASE Load
  <2>1. disp' \in [step : Places, cur : Nat, last : Nat, on : BOOLEAN, was : BOOLEAN,
                   head : 0 .. N - 1, len : 0 .. N, touched : BOOLEAN]
        BY <1>15 DEF Load
  <2>2. shown' = <<>> /\ panel' = panel
        BY <1>15 DEF Load
  <2>3. shown' \in Seq(0 .. Limit) /\ Len(shown') <= Window
        BY <2>2
  <2> QED BY <2>1, <2>2, <2>3
<1>16. CASE Show
  <2>1. CASE Len(shown) < Window /\ Len(shown) < disp.len
    <3>1. IndexOf(Len(shown)) \in 0 .. N - 1
      <4>1. disp.head + N - Window + Len(shown) \in Int
            BY <2>1
      <4>2. (disp.head + N - Window + Len(shown)) % N \in 0 .. N - 1
            BY <4>1, WrapsAny
      <4>3. disp.len <= Window => Len(shown) \in 0 .. N - 1
            BY <2>1
      <4> QED BY <4>2, <4>3 DEF IndexOf
    <3>2. buf[IndexOf(Len(shown))] \in 0 .. Limit
          BY <3>1
    <3>3. shown' = Append(shown, buf[IndexOf(Len(shown))]) /\ UNCHANGED <<disp, panel>>
          BY <1>16, <2>1 DEF Show
    <3>4. shown' \in Seq(0 .. Limit) /\ Len(shown') <= Window
          BY <2>1, <3>2, <3>3
    <3> QED BY <3>3, <3>4
  <2>2. CASE ~(Len(shown) < Window /\ Len(shown) < disp.len)
    <3>1. /\ disp' = [disp EXCEPT !.step = "top", !.head = 0, !.len = 0, !.cur = 0,
                                  !.on = FALSE]
          /\ UNCHANGED <<panel, shown>>
          BY <1>16, <2>2 DEF Show
    <3>2. 0 \in 0 .. N - 1 /\ 0 \in 0 .. N
          OBVIOUS
    <3> QED BY <3>1, <3>2
  <2> QED BY <2>1, <2>2
<1>17. CASE Press
      BY <1>17 DEF Press
<1>18. CASE Request
      BY <1>18 DEF Request
<1>19. CASE Idle
      BY <1>19 DEF Idle
<1>20. CASE UNCHANGED vars
      BY <1>20 DEF vars
<1> QED BY <1>1, <1>2, <1>3, <1>4, <1>5, <1>6, <1>7, <1>8, <1>9, <1>10, <1>11,
        <1>12, <1>13, <1>14, <1>15, <1>16, <1>17, <1>18, <1>19, <1>20 DEF
        Next, Write, Display

\* Every variable keeps its type: no index leaves the ring and no text the panel.
THEOREM TypeCorrect == Spec => []TypeOK
<1>1. TypeOK /\ [Next]_vars => TypeOK'
      BY RingStep, WritersStep, SaverStep, DisplayStep DEF TypeOK
<1> QED BY <1>1, TypeInit, PTL DEF Spec
-----------------------------------------------------------------------------
(* The panel and the keys.                                                 *)

\* While the task is between its look at the display and the blanking, a key
\* press that restarts the idle time leaves its wake request; once that is
\* taken, the display becomes active.
PressInv ==
  /\ owed => ~idle
  /\ owed /\ ~wake => active \/ disp.step = "woken"
  /\ disp.step = "saver" /\ owed /\ disp.touched => wake

\* The panel is what the pass, or the pass before, made it.
LitInv ==
  /\ disp.step \in {"top", "saver", "power", "render"} => panel = disp.was
  /\ disp.step \in {"wake", "woken", "render"} => panel = disp.on
  /\ disp.step \in {"load", "show"} => panel /\ disp.was

LEMMA PressStep ==
  ASSUME TypeOK, PressInv, [Next]_vars
  PROVE  PressInv'
<1> USE Bounds DEF TypeOK, SaverType, DisplayType, Places, ring, writing, saver, display, PressInv
<1>1. ASSUME NEW w \in Writers, Append1(w)
      PROVE  PressInv'
      BY <1>1 DEF Append1
<1>2. ASSUME NEW w \in Writers, MoveHead(w)
      PROVE  PressInv'
      BY <1>2 DEF MoveHead
<1>3. ASSUME NEW w \in Writers, LoadLen(w)
      PROVE  PressInv'
      BY <1>3 DEF LoadLen
<1>4. ASSUME NEW w \in Writers, Count(w)
      PROVE  PressInv'
      BY <1>4 DEF Count
<1>5. ASSUME NEW w \in Writers, Notify(w)
      PROVE  PressInv'
      BY <1>5 DEF Notify
<1>6. CASE Look
      BY <1>6 DEF Look
<1>7. CASE Blank
      BY <1>7 DEF Blank
<1>8. CASE DontBlank
      BY <1>8 DEF DontBlank, Disp
<1>9. CASE Power
      BY <1>9 DEF Power, Disp
<1>10. CASE TakeWake
      BY <1>10 DEF TakeWake, Disp
<1>11. CASE Woken
      BY <1>11 DEF Woken
<1>12. CASE NoWake
      BY <1>12 DEF NoWake
<1>13. CASE Skip
      BY <1>13 DEF Skip
<1>14. CASE Render
      BY <1>14 DEF Render
<1>15. CASE Load
      BY <1>15 DEF Load
<1>16. CASE Show
      BY <1>16 DEF Show
<1>17. CASE Press
      BY <1>17 DEF Press
<1>18. CASE Request
      BY <1>18 DEF Request
<1>19. CASE Idle
      BY <1>19 DEF Idle
<1>20. CASE UNCHANGED vars
      BY <1>20 DEF vars
<1> QED BY <1>1, <1>2, <1>3, <1>4, <1>5, <1>6, <1>7, <1>8, <1>9, <1>10, <1>11,
        <1>12, <1>13, <1>14, <1>15, <1>16, <1>17, <1>18, <1>19, <1>20 DEF
        Next, Write, Display

LEMMA LitStep ==
  ASSUME TypeOK, LitInv, [Next]_vars
  PROVE  LitInv'
<1> USE Bounds DEF TypeOK, SaverType, DisplayType, Places, ring, writing, saver, display, LitInv
<1>1. ASSUME NEW w \in Writers, Append1(w)
      PROVE  LitInv'
      BY <1>1 DEF Append1
<1>2. ASSUME NEW w \in Writers, MoveHead(w)
      PROVE  LitInv'
      BY <1>2 DEF MoveHead
<1>3. ASSUME NEW w \in Writers, LoadLen(w)
      PROVE  LitInv'
      BY <1>3 DEF LoadLen
<1>4. ASSUME NEW w \in Writers, Count(w)
      PROVE  LitInv'
      BY <1>4 DEF Count
<1>5. ASSUME NEW w \in Writers, Notify(w)
      PROVE  LitInv'
      BY <1>5 DEF Notify
<1>6. CASE Look
      BY <1>6 DEF Look
<1>7. CASE Blank
      BY <1>7 DEF Blank
<1>8. CASE DontBlank
      BY <1>8 DEF DontBlank, Disp
<1>9. CASE Power
      BY <1>9 DEF Power, Disp
<1>10. CASE TakeWake
      BY <1>10 DEF TakeWake, Disp
<1>11. CASE Woken
      BY <1>11 DEF Woken
<1>12. CASE NoWake
      BY <1>12 DEF NoWake
<1>13. CASE Skip
      BY <1>13 DEF Skip
<1>14. CASE Render
      BY <1>14 DEF Render
<1>15. CASE Load
      BY <1>15 DEF Load
<1>16. CASE Show
      BY <1>16 DEF Show
<1>17. CASE Press
      BY <1>17 DEF Press
<1>18. CASE Request
      BY <1>18 DEF Request
<1>19. CASE Idle
      BY <1>19 DEF Idle
<1>20. CASE UNCHANGED vars
      BY <1>20 DEF vars
<1> QED BY <1>1, <1>2, <1>3, <1>4, <1>5, <1>6, <1>7, <1>8, <1>9, <1>10, <1>11,
        <1>12, <1>13, <1>14, <1>15, <1>16, <1>17, <1>18, <1>19, <1>20 DEF
        Next, Write, Display

\* A key press lights the panel, also one that comes just as it goes dark.
THEOREM PressAlwaysLights == Spec => []PressLights
<1>1. Init => PressInv
      BY DEF Init, PressInv
<1>2. TypeOK /\ PressInv /\ [Next]_vars => PressInv'
      BY PressStep
<1>3. PressInv => PressLights
      BY DEF PressInv, PressLights
<1> QED BY <1>1, <1>2, <1>3, TypeCorrect, PTL DEF Spec

LEMMA LitAlways == Spec => []LitInv
<1>1. Init => LitInv
      BY DEF Init, LitInv
<1>2. TypeOK /\ LitInv /\ [Next]_vars => LitInv'
      BY LitStep
<1> QED BY <1>1, <1>2, TypeCorrect, PTL DEF Spec

\* Nothing is drawn on a dark panel.
THEOREM AlwaysDrawsWhenLit == Spec => []DrawsOnlyWhenLit
<1>1. LitInv => DrawsOnlyWhenLit
      BY DEF LitInv, DrawsOnlyWhenLit
<1> QED BY <1>1, LitAlways, PTL

-----------------------------------------------------------------------------
(* The ring.                                                              *)

\* The last of the first n characters are in the ring, from its tail on...
Holds(n) == \A i \in 1 .. len : buf[(tail + i - 1) % N] = n - len + i

\* ...except the oldest, if the ring is full.
HoldsBut(n) == \A i \in 1 .. len : len < N \/ i > 1 => buf[(tail + i - 1) % N] = n - len + i

\* Between two appends.
Settled ==
  /\ len = Least(N, said)
  /\ len < N => tail = 0
  /\ head = (tail + len) % N
  /\ Holds(said)

\* Within an append, up to the new length or tail.
Written ==
  /\ said >= 1
  /\ len = Least(N, said - 1)
  /\ len < N => tail = 0
  /\ buf[(tail + len) % N] = said
  /\ HoldsBut(said - 1)

\* What the step of a writer says about the ring, as long as no two appends
\* have overlapped.
StepOf(w) ==
  /\ At(w, "head") => Written /\ head = (tail + len) % N /\ app[w].head = head
  /\ At(w, "len") \/ At(w, "count") => Written /\ head = (((tail + len) % N) + 1) % N
  /\ At(w, "count") => app[w].len = len
  /\ At(w, "notify") => Settled

Alone == \A v, w \in Writers : v # w => At(v, "rest") \/ At(w, "rest")

RingInv ==
  ~raced => Alone /\ (AtRest => Settled) /\ \A w \in Writers : StepOf(w)

\* The character overwrites the oldest of a full ring, and no other.
LEMMA Overwrites ==
  ASSUME TypeOK, Settled, buf' = [buf EXCEPT ![head] = said + 1], said' = said + 1,
         UNCHANGED <<head, tail, len>>
  PROVE  Written' /\ head' = (tail' + len') % N
<1>0. /\ N \in Nat \ {0} /\ buf \in [0 .. N - 1 -> 0 .. Limit] /\ head \in 0 .. N - 1
      /\ tail \in 0 .. N - 1 /\ len \in 0 .. N /\ said \in Nat
      BY Bounds DEF TypeOK, RingType, WritersType
<1>1. said' >= 1 /\ said' - 1 = said
      BY <1>0
<1>2. tail + len \in 0 .. 2 * N - 1
      BY <1>0
<1>3. head = Wrap(tail + len)
      BY <1>2, Wraps DEF Settled
<1>4. buf'[(tail' + len') % N] = said'
      BY <1>0 DEF Settled
<1>5. HoldsBut(said - 1)'
  <2> SUFFICES ASSUME NEW i \in 1 .. len, len < N \/ i > 1
               PROVE  buf'[(tail + i - 1) % N] = said - len + i
      BY <1>0, <1>1 DEF HoldsBut
  <2>1. tail + i - 1 \in 0 .. 2 * N - 1
        BY <1>0
  <2>2. (tail + i - 1) % N = Wrap(tail + i - 1) /\ (tail + i - 1) % N \in 0 .. N - 1
        BY <2>1, Wraps
  <2>3. Wrap(tail + i - 1) # Wrap(tail + len)
        BY <1>0 DEF Wrap
  <2>4. buf[(tail + i - 1) % N] = said - len + i
        BY DEF Settled, Holds
  <2> QED BY <1>0, <1>3, <2>2, <2>3, <2>4
<1> QED BY <1>0, <1>1, <1>4, <1>5 DEF Settled, Written

\* The ring grows, or its oldest character drops out.
LEMMA Counts ==
  ASSUME TypeOK, Written, head = (((tail + len) % N) + 1) % N,
         IF len < N THEN len' = len + 1 /\ UNCHANGED tail
         ELSE tail' = (tail + 1) % N /\ UNCHANGED len,
         UNCHANGED <<buf, head, said>>
  PROVE  Settled'
<1>0. /\ N \in Nat \ {0} /\ buf \in [0 .. N - 1 -> 0 .. Limit] /\ head \in 0 .. N - 1
      /\ tail \in 0 .. N - 1 /\ len \in 0 .. N /\ said \in Nat
      BY Bounds DEF TypeOK, RingType, WritersType
<1> DEFINE h == (tail + len) % N
<1>1. tail + len \in 0 .. 2 * N - 1
      BY <1>0
<1>2. h \in 0 .. N - 1 /\ h = Wrap(tail + len)
      BY <1>1, Wraps
<1>3. h + 1 \in 0 .. 2 * N - 1
      BY <1>0, <1>2
<1>4. head = Wrap(h + 1)
      BY <1>3, Wraps
<1>5. CASE len < N
  <2>1. len' = len + 1 /\ tail' = 0 /\ tail = 0 /\ len = said - 1
        BY <1>0, <1>5 DEF Written, Least
  <2>2. tail' + len' \in 0 .. 2 * N - 1
        BY <1>0, <1>5, <2>1
  <2>3. (tail' + len') % N = Wrap(tail' + len')
        BY <2>2, Wraps
  <2>4. head' = (tail' + len') % N
        BY <1>0, <1>2, <1>4, <1>5, <2>1, <2>3 DEF Wrap
  <2>5. Holds(said)'
    <3> SUFFICES ASSUME NEW i \in 1 .. len + 1
                 PROVE  buf[(tail + i - 1) % N] = said - (len + 1) + i
        BY <2>1 DEF Holds
    <3>1. CASE i = len + 1
      <4>1. tail + i - 1 = tail + len /\ said - (len + 1) + i = said
            BY <1>0, <3>1
      <4>2. buf[(tail + len) % N] = said
            BY DEF Written
      <4> QED BY <4>1, <4>2
    <3>2. CASE i \in 1 .. len
      <4>1. buf[(tail + i - 1) % N] = said - 1 - len + i
            BY <1>5, <3>2 DEF Written, HoldsBut
      <4> QED BY <1>0, <4>1
    <3> QED BY <1>0, <3>1, <3>2
  <2>6. len' = Least(N, said') /\ (len' < N => tail' = 0)
        BY <1>0, <1>5, <2>1 DEF Least
  <2> QED BY <2>4, <2>5, <2>6 DEF Settled
<1>6. CASE len = N
  <2>1. tail + 1 \in 0 .. 2 * N - 1 /\ tail + N \in 0 .. 2 * N - 1
        BY <1>0
  <2>2. (tail + 1) % N = Wrap(tail + 1) /\ (tail + 1) % N \in 0 .. N - 1
        BY <2>1, Wraps
  <2>11. ~(len < N) /\ len' = N /\ tail' = (tail + 1) % N
        BY <1>0, <1>6
  <2>12. said >= 1 /\ len = Least(N, said - 1)
        BY DEF Written
  <2>13. said >= N + 1
        BY <1>0, <1>6, <2>12 DEF Least
  <2>3. tail' = Wrap(tail + 1) /\ tail' \in 0 .. N - 1 /\ len' = N /\ said >= N + 1
        BY <2>2, <2>11, <2>13
  <2>4. h = tail
        BY <1>0, <1>2, <1>6 DEF Wrap
  <2>5. tail' + N \in 0 .. 2 * N - 1
        BY <1>0, <2>3
  <2>6. (tail' + len') % N = Wrap(tail' + N)
        BY <2>3, <2>5, Wraps
  <2>7. head' = (tail' + len') % N
        BY <1>0, <1>4, <2>3, <2>4, <2>6 DEF Wrap
  <2>8. Holds(said)'
    <3> SUFFICES ASSUME NEW i \in 1 .. N
                 PROVE  buf[(tail' + i - 1) % N] = said - N + i
        BY <2>3 DEF Holds
    <3>1. tail' + i - 1 \in 0 .. 2 * N - 1
          BY <1>0, <2>3
    <3>2. (tail' + i - 1) % N = Wrap(tail' + i - 1)
          BY <3>1, Wraps
    <3>3. CASE i = N
      <4>1. (tail' + i - 1) % N = tail
            BY <1>0, <2>3, <3>2, <3>3 DEF Wrap
      <4>2. buf[h] = said
            BY DEF Written
      <4>3. said - N + i = said
            BY <1>0, <3>3
      <4> QED BY <2>4, <4>1, <4>2, <4>3
    <3>4. CASE i < N
      <4> DEFINE j == i + 1
      <4>1. j \in 1 .. len /\ j > 1 /\ tail + j - 1 \in 0 .. 2 * N - 1
            BY <1>0, <1>6, <3>4
      <4>2. (tail + j - 1) % N = Wrap(tail + j - 1)
            BY <4>1, Wraps
      <4>3. Wrap(tail' + i - 1) = Wrap(tail + j - 1)
            BY <1>0, <2>3, <3>4 DEF Wrap
      <4>4. buf[(tail + j - 1) % N] = said - 1 - len + j
            BY <4>1 DEF Written, HoldsBut
      <4>5. said - 1 - len + j = said - N + i
            BY <1>0, <1>6
      <4> QED BY <3>2, <4>2, <4>3, <4>4, <4>5
    <3> QED BY <1>0, <3>3, <3>4
  <2>9. len' = Least(N, said') /\ (len' < N => tail' = 0)
        BY <1>0, <2>3 DEF Least
  <2> QED BY <2>7, <2>8, <2>9 DEF Settled
<1> QED BY <1>0, <1>5, <1>6

\* While one appends, and no two have overlapped, the other is at rest.
LEMMA Others ==
  ASSUME RingInv, ~raced, NEW w \in Writers, ~At(w, "rest")
  PROVE  \A v \in Writers \ {w} : At(v, "rest")
BY DEF RingInv, Alone

LEMMA Only ==
  ASSUME NEW w \in Writers, \A v \in Writers \ {w} : At(v, "rest")', StepOf(w)',
         At(w, "rest")' => Settled'
  PROVE  RingInv'
<1>1. Alone'
      BY DEF Alone
<1>2. (AtRest => Settled)'
      BY DEF AtRest
<1>3. ASSUME NEW v \in Writers \ {w} PROVE StepOf(v)'
  <2>1. app'[v].step = "rest"
        BY <1>3 DEF At
  <2> QED BY <2>1 DEF StepOf, At
<1> QED BY <1>1, <1>2, <1>3 DEF RingInv

LEMMA RingKept ==
  ASSUME RingInv, UNCHANGED <<ring, writing>>
  PROVE  RingInv'
<1>1. UNCHANGED <<buf, head, tail, len, app, said, raced>>
      BY DEF ring, writing
<1>2. Settled => Settled'
      BY <1>1 DEF Settled, Holds, Least
<1>3. Written => Written'
      BY <1>1 DEF Written, HoldsBut, Least
<1>4. AtRest' => AtRest
      BY <1>1 DEF AtRest, At
<1>5. Alone => Alone'
      BY <1>1 DEF Alone, At
<1>6. ASSUME NEW w \in Writers, StepOf(w) PROVE StepOf(w)'
      BY <1>1, <1>2, <1>3, <1>6 DEF StepOf, At
<1> QED BY <1>1, <1>2, <1>4, <1>5, <1>6 DEF RingInv

LEMMA RingWrite ==
  ASSUME TypeOK, RingInv, NEW w \in Writers, Write(w)
  PROVE  RingInv'
<1>0. app \in [Writers -> [step : Stages, head : 0 .. N - 1, len : 0 .. N]]
      BY DEF TypeOK, WritersType
<1>1. CASE raced'
      BY <1>1 DEF RingInv
<1>2. CASE ~raced'
  <2>1. ~raced
        BY <1>2 DEF Write, Append1, MoveHead, LoadLen, Count, Notify
  <2>2. StepOf(w) /\ (AtRest => Settled)
        BY <2>1 DEF RingInv
  <2>3. CASE Append1(w)
    <3>1. AtRest
          BY <1>2, <2>3 DEF Append1, AtRest
    <3>2. Written' /\ head' = (tail' + len') % N
          BY <2>2, <2>3, <3>1, Overwrites DEF Append1
    <3>3. app'[w].step = "head" /\ app'[w].head = head'
          BY <1>0, <2>3 DEF Append1
    <3>4. \A v \in Writers \ {w} : At(v, "rest")'
          BY <1>0, <2>3, <3>1 DEF Append1, AtRest, At
    <3>5. StepOf(w)'
          BY <3>2, <3>3 DEF StepOf, At
    <3>6. ~At(w, "rest")'
          BY <3>3 DEF At
    <3> QED BY <3>4, <3>5, <3>6, Only
  <2>4. ASSUME ~At(w, "rest"), app' = [app EXCEPT ![w] = app'[w]]
        PROVE  \A v \in Writers \ {w} : At(v, "rest")'
    <3>1. \A v \in Writers \ {w} : At(v, "rest")
          BY <2>1, <2>4, Others
    <3> QED BY <1>0, <2>4, <3>1 DEF At
  <2>5. CASE MoveHead(w)
    <3>1. At(w, "head") /\ ~At(w, "rest")
          BY <2>5 DEF MoveHead, At
    <3>2. Written /\ app[w].head = (tail + len) % N
          BY <2>2, <3>1 DEF StepOf
    <3>3. UNCHANGED <<buf, tail, len, said>> /\ head' = (((tail' + len') % N) + 1) % N
          BY <2>5, <3>2 DEF MoveHead
    <3>4. Written'
          BY <3>2, <3>3 DEF Written, HoldsBut, Least
    <3>5. app'[w].step = "len" /\ app' = [app EXCEPT ![w] = app'[w]]
          BY <1>0, <2>5 DEF MoveHead
    <3>6. StepOf(w)'
          BY <3>3, <3>4, <3>5 DEF StepOf, At
    <3>7. ~At(w, "rest")'
          BY <3>5 DEF At
    <3>8. \A v \in Writers \ {w} : At(v, "rest")'
          BY <2>4, <3>1, <3>5
    <3> QED BY <3>6, <3>7, <3>8, Only
  <2>6. CASE LoadLen(w)
    <3>1. At(w, "len") /\ ~At(w, "rest")
          BY <2>6 DEF LoadLen, At
    <3>2. Written /\ head = (((tail + len) % N) + 1) % N
          BY <2>2, <3>1 DEF StepOf
    <3>3. UNCHANGED <<buf, head, tail, len, said>>
          BY <2>6 DEF LoadLen, ring
    <3>4. Written' /\ head' = (((tail' + len') % N) + 1) % N
          BY <3>2, <3>3 DEF Written, HoldsBut, Least
    <3>5. app'[w].step = "count" /\ app'[w].len = len' /\ app' = [app EXCEPT ![w] = app'[w]]
          BY <1>0, <2>6, <3>3 DEF LoadLen
    <3>6. StepOf(w)'
          BY <3>4, <3>5 DEF StepOf, At
    <3>7. ~At(w, "rest")'
          BY <3>5 DEF At
    <3>8. \A v \in Writers \ {w} : At(v, "rest")'
          BY <2>4, <3>1, <3>5
    <3> QED BY <3>6, <3>7, <3>8, Only
  <2>7. CASE Count(w)
    <3>1. At(w, "count") /\ ~At(w, "rest")
          BY <2>7 DEF Count, At
    <3>2. Written /\ head = (((tail + len) % N) + 1) % N /\ app[w].len = len
          BY <2>2, <3>1 DEF StepOf
    <3>3. UNCHANGED <<buf, head, said>>
          BY <2>7 DEF Count
    <3>4. IF len < N THEN len' = len + 1 /\ UNCHANGED tail
          ELSE tail' = (tail + 1) % N /\ UNCHANGED len
          BY <2>7, <3>2 DEF Count
    <3>5. Settled'
          BY <3>2, <3>3, <3>4, Counts
    <3>6. app'[w].step = "notify" /\ app' = [app EXCEPT ![w] = app'[w]]
          BY <1>0, <2>7 DEF Count, Goto
    <3>7. StepOf(w)'
          BY <3>5, <3>6 DEF StepOf, At
    <3>8. \A v \in Writers \ {w} : At(v, "rest")'
          BY <2>4, <3>1, <3>6
    <3> QED BY <3>5, <3>7, <3>8, Only
  <2>8. CASE Notify(w)
    <3>1. At(w, "notify") /\ ~At(w, "rest")
          BY <2>8 DEF Notify, At
    <3>2. Settled
          BY <2>2, <3>1 DEF StepOf
    <3>3. UNCHANGED <<buf, head, tail, len, said>>
          BY <2>8 DEF Notify, ring
    <3>4. Settled'
          BY <3>2, <3>3 DEF Settled, Holds, Least
    <3>5. app'[w].step = "rest" /\ app' = [app EXCEPT ![w] = app'[w]]
          BY <1>0, <2>8 DEF Notify
    <3>6. StepOf(w)'
          BY <3>5 DEF StepOf, At
    <3>7. \A v \in Writers \ {w} : At(v, "rest")'
          BY <2>4, <3>1, <3>5
    <3> QED BY <3>4, <3>6, <3>7, Only
  <2> QED BY <2>3, <2>5, <2>6, <2>7, <2>8 DEF Write
<1> QED BY <1>1, <1>2

LEMMA RingInvStep == TypeOK /\ RingInv /\ [Next]_vars => RingInv'
<1> SUFFICES ASSUME TypeOK, RingInv, [Next]_vars PROVE RingInv'
    OBVIOUS
<1>1. CASE \E w \in Writers : Write(w)
      BY <1>1, RingWrite
<1>2. CASE Display
  <2>1. UNCHANGED <<ring, writing>>
        BY <1>2 DEF Display, Disp, Look, Blank, DontBlank, Power, TakeWake, Woken, NoWake,
           Skip, Render, Load, Show
  <2> QED BY <2>1, RingKept
<1>3. CASE Press \/ Request \/ Idle \/ UNCHANGED vars
  <2>1. UNCHANGED <<ring, writing>>
        BY <1>3 DEF Press, Request, Idle, vars
  <2> QED BY <2>1, RingKept
<1> QED BY <1>1, <1>2, <1>3 DEF Next

LEMMA RingAlways == Spec => []RingInv
<1>1. Init => RingInv
  <2> SUFFICES ASSUME Init PROVE RingInv
      OBVIOUS
  <2>1. N \in Nat \ {0} /\ Window \in Nat
        BY Bounds
  <2>2. \A w \in Writers : app[w].step = "rest"
        BY DEF Init
  <2>3. 0 % N = 0 /\ 0 + 0 = 0
        BY <2>1
  <2>4. Settled
        BY <2>1, <2>3 DEF Init, Settled, Holds, Least
  <2>5. Alone /\ \A w \in Writers : StepOf(w)
        BY <2>2 DEF Alone, StepOf, At
  <2> QED BY <2>4, <2>5 DEF RingInv
<1> QED BY <1>1, RingInvStep, TypeCorrect, PTL DEF Spec

\* Whatever the length of the ring and the number of the characters, the ring
\* holds the last of them in their order, unless two appends have overlapped.
THEOREM AlwaysHoldsTheLast == Spec => []RingHoldsTheLast
<1>1. RingInv => RingHoldsTheLast
      BY DEF RingInv, RingHoldsTheLast, Settled, Holds
<1> QED BY <1>1, RingAlways, PTL

-----------------------------------------------------------------------------
(* What the panel shows.                                                   *)

\* The counter the task has drawn is never ahead; it is behind while the display
\* is, or was, dark.
CountInv ==
  /\ disp.cur <= counter /\ disp.last <= counter
  /\ ~active \/ ~panel => disp.last < counter
  /\ disp.step \in {"saver", "power"} /\ ~disp.on => ~active
  /\ disp.on => active

\* Nothing was appended since the task read the counter.
InStep == AtRest /\ ~raced /\ disp.last = counter

\* Then the head and the length that it loaded are those of the ring, and it has
\* drawn the beginning of the latest characters, or all of them.
ShownInv ==
  InStep =>
    /\ disp.step = "load" => disp.head = head
    /\ disp.step = "show" =>
         /\ disp.head = head /\ disp.len = len /\ Len(shown) <= Least(Window, len)
         /\ \A i \in 1 .. Len(shown) : shown[i] = Latest[i]
    /\ disp.step \notin {"load", "show"} /\ panel => shown = Latest

LEMMA CountInvStep ==
  ASSUME TypeOK, LitInv, CountInv, [Next]_vars
  PROVE  CountInv'
<1> USE Bounds DEF TypeOK, RingType, SaverType, DisplayType, Places, ring, writing, saver, display, CountInv, LitInv
<1>1. ASSUME NEW w \in Writers, Append1(w)
      PROVE  CountInv'
      BY <1>1 DEF Append1
<1>2. ASSUME NEW w \in Writers, MoveHead(w)
      PROVE  CountInv'
      BY <1>2 DEF MoveHead
<1>3. ASSUME NEW w \in Writers, LoadLen(w)
      PROVE  CountInv'
      BY <1>3 DEF LoadLen
<1>4. ASSUME NEW w \in Writers, Count(w)
      PROVE  CountInv'
      BY <1>4 DEF Count
<1>5. ASSUME NEW w \in Writers, Notify(w)
      PROVE  CountInv'
      BY <1>5 DEF Notify
<1>6. CASE Look
      BY <1>6 DEF Look
<1>7. CASE Blank
      BY <1>7 DEF Blank
<1>8. CASE DontBlank
      BY <1>8 DEF DontBlank, Disp
<1>9. CASE Power
      BY <1>9 DEF Power, Disp
<1>10. CASE TakeWake
      BY <1>10 DEF TakeWake, Disp
<1>11. CASE Woken
      BY <1>11 DEF Woken
<1>12. CASE NoWake
      BY <1>12 DEF NoWake
<1>13. CASE Skip
      BY <1>13 DEF Skip
<1>14. CASE Render
      BY <1>14 DEF Render
<1>15. CASE Load
      BY <1>15 DEF Load
<1>16. CASE Show
  <2>1. disp'.last = disp.last /\ disp'.cur \in {0, disp.cur} /\ disp.step = "show"
        BY <1>16 DEF Show
  <2>2. disp'.step \in {"show", "top"} /\ (disp'.on => disp.on)
        BY <1>16 DEF Show
  <2>3. UNCHANGED <<counter, active, panel>>
        BY <1>16 DEF Show
  <2> QED BY <2>1, <2>2, <2>3
<1>17. CASE Press
      BY <1>17 DEF Press
<1>18. CASE Request
      BY <1>18 DEF Request
<1>19. CASE Idle
      BY <1>19 DEF Idle
<1>20. CASE UNCHANGED vars
      BY <1>20 DEF vars
<1> QED BY <1>1, <1>2, <1>3, <1>4, <1>5, <1>6, <1>7, <1>8, <1>9, <1>10, <1>11,
        <1>12, <1>13, <1>14, <1>15, <1>16, <1>17, <1>18, <1>19, <1>20 DEF
        Next, Write, Display

LEMMA CountInvAlways == Spec => []CountInv
<1>1. Init => CountInv
      BY DEF Init, CountInv
<1>2. TypeOK /\ LitInv /\ CountInv /\ [Next]_vars => CountInv'
      BY CountInvStep
<1> QED BY <1>1, <1>2, TypeCorrect, LitAlways, PTL DEF Spec

\* A writer's step takes the ring out of step with the panel.
LEMMA WriteShown ==
  ASSUME TypeOK, CountInv, NEW w \in Writers, Write(w)
  PROVE  ~InStep'
<1>1. /\ app \in [Writers -> [step : Stages, head : 0 .. N - 1, len : 0 .. N]]
      /\ counter \in Nat /\ disp.last \in Nat
      BY DEF TypeOK, WritersType, RingType, DisplayType
<1>2. CASE Append1(w) \/ MoveHead(w) \/ LoadLen(w) \/ Count(w)
  <2>1. app'[w].step # "rest"
    <3>1. CASE Append1(w)
          BY <1>1, <3>1 DEF Append1
    <3>2. CASE MoveHead(w)
          BY <1>1, <3>2 DEF MoveHead
    <3>3. CASE LoadLen(w)
          BY <1>1, <3>3 DEF LoadLen
    <3>4. CASE Count(w)
          BY <1>1, <3>4 DEF Count, Goto
    <3> QED BY <1>2, <3>1, <3>2, <3>3, <3>4
  <2> QED BY <2>1 DEF InStep, AtRest, At
<1>3. CASE Notify(w)
  <2>1. counter' = counter + 1 /\ disp' = disp
        BY <1>3 DEF Notify, display
  <2>2. disp'.last # counter'
        BY <1>1, <2>1 DEF CountInv
  <2> QED BY <2>2 DEF InStep
<1> QED BY <1>2, <1>3 DEF Write

\* The steps that leave the ring and the panel as they are.
LEMMA ShownKept ==
  ASSUME ShownInv, UNCHANGED <<ring, writing, shown, panel>>,
         disp'.last = counter' => disp.last = counter,
         \/ disp.step \notin {"load", "show"} /\ disp'.step \notin {"load", "show"}
         \/ /\ disp'.step = disp.step
            /\ disp'.head = disp.head /\ disp'.len = disp.len
  PROVE  ShownInv'
<1>1. UNCHANGED <<buf, head, tail, len, app, said, raced>>
      BY DEF ring, writing
<1>2. Latest' = Latest
      BY <1>1 DEF Latest, Least
<1>3. InStep' => InStep
      BY <1>1 DEF InStep, AtRest, At
<1> QED BY <1>1, <1>2, <1>3 DEF ShownInv, Least

\* The task prints the character that belongs there.
LEMMA NextChar ==
  ASSUME TypeOK, RingInv, ShownInv, InStep, disp.step = "show",
         Len(shown) < Window, Len(shown) < disp.len
  PROVE  /\ Len(shown) + 1 <= Least(Window, len)
         /\ buf[IndexOf(Len(shown))] = Latest[Len(shown) + 1]
<1>1. /\ N \in Nat \ {0} /\ Window \in Nat \ {0} /\ Window < N
      /\ head \in 0 .. N - 1 /\ tail \in 0 .. N - 1 /\ len \in 0 .. N /\ said \in Nat
      /\ Len(shown) \in Nat
      BY Bounds DEF TypeOK, RingType, WritersType, DisplayType
<1>2. disp.head = head /\ disp.len = len
      BY DEF ShownInv
<1>3. Settled
      BY DEF RingInv, InStep
<1> DEFINE n == Len(shown)
<1>4. n + 1 \in 1 .. Least(Window, len)
      BY <1>1, <1>2 DEF Least
<1>5. Latest[n + 1] = buf[(head + N - Least(Window, len) + (n + 1) - 1) % N]
      BY <1>4 DEF Latest
<1>6. CASE len <= Window
  <2>1. tail = 0 /\ head = (tail + len) % N
        BY <1>1, <1>3, <1>6 DEF Settled
  <2>2. tail + len \in 0 .. 2 * N - 1 /\ tail + len < N /\ tail + len = len
        BY <1>1, <1>6, <2>1
  <2>3. (tail + len) % N = Wrap(tail + len)
        BY <2>2, Wraps
  <2>4. head = len
        BY <2>1, <2>2, <2>3 DEF Wrap
  <2>5. Least(Window, len) = len
        BY <1>1, <1>6 DEF Least
  <2>6. head + N - Least(Window, len) + (n + 1) - 1 = N + n /\ N + n \in 0 .. 2 * N - 1
        BY <1>1, <1>2, <1>6, <2>4, <2>5
  <2>7. (N + n) % N = Wrap(N + n)
        BY <2>6, Wraps
  <2>8. Wrap(N + n) = n
        BY <1>1 DEF Wrap
  <2>9. IndexOf(n) = n
        BY <1>2, <1>6 DEF IndexOf
  <2> QED BY <1>1, <1>4, <1>5, <2>6, <2>7, <2>8, <2>9
<1>7. CASE len > Window
  <2>1. Least(Window, len) = Window
        BY <1>1, <1>7 DEF Least
  <2>2. head + N - Least(Window, len) + (n + 1) - 1 = head + N - Window + n
        BY <1>1, <2>1
  <2>3. ~(len <= Window)
        BY <1>1, <1>7
  <2>4. IndexOf(n) = (head + N - Window + n) % N
        BY <1>2, <2>3 DEF IndexOf
  <2> QED BY <1>1, <1>4, <1>5, <2>2, <2>4
<1> QED BY <1>1, <1>6, <1>7

LEMMA ShowShown ==
  ASSUME TypeOK, RingInv, ShownInv, Show
  PROVE  ShownInv'
<1>1. UNCHANGED <<buf, head, tail, len, app, said, raced, panel, counter>>
      BY DEF Show, ring, writing
<1>2. Latest' = Latest
      BY <1>1 DEF Latest, Least
<1>3. disp \in [step : Places, cur : Nat, last : Nat, on : BOOLEAN, was : BOOLEAN,
                head : 0 .. N - 1, len : 0 .. N, touched : BOOLEAN]
      BY DEF TypeOK, DisplayType
<1>4. disp.step = "show" /\ disp'.last = disp.last
      BY <1>3 DEF Show
<1>5. InStep' => InStep
      BY <1>1, <1>4 DEF InStep, AtRest, At
<1>6. /\ shown \in Seq(0 .. Limit) /\ Len(shown) \in Nat
      /\ Window \in Nat \ {0} /\ len \in 0 .. N /\ N \in Nat
      BY Bounds DEF TypeOK, RingType, DisplayType
<1>7. SUFFICES ASSUME InStep' PROVE ShownInv'
      BY DEF ShownInv
<1>8. /\ disp.head = head /\ disp.len = len /\ Len(shown) <= Least(Window, len)
      /\ \A i \in 1 .. Len(shown) : shown[i] = Latest[i]
      BY <1>4, <1>5, <1>7 DEF ShownInv
<1>9. CASE Len(shown) < Window /\ Len(shown) < disp.len
  <2>1. shown' = Append(shown, buf[IndexOf(Len(shown))]) /\ disp' = disp
        BY <1>9 DEF Show
  <2>2. Len(shown) + 1 <= Least(Window, len) /\ buf[IndexOf(Len(shown))] = Latest[Len(shown) + 1]
        BY <1>4, <1>5, <1>7, <1>9, NextChar
  <2>3. Len(shown') = Len(shown) + 1
        BY <1>6, <2>1
  <2>4. ASSUME NEW i \in 1 .. Len(shown')
        PROVE  shown'[i] = Latest[i]
    <3>1. CASE i = Len(shown) + 1
      <4>1. shown'[Len(shown) + 1] = buf[IndexOf(Len(shown))]
            BY <1>6, <2>1
      <4> QED BY <2>2, <3>1, <4>1
    <3>2. CASE i \in 1 .. Len(shown)
      <4>1. shown'[i] = shown[i]
            BY <1>6, <2>1, <3>2
      <4> QED BY <1>8, <3>2, <4>1
    <3> QED BY <1>6, <2>3, <2>4, <3>1, <3>2
  <2>5. Least(Window, len)' = Least(Window, len)
        BY <1>1 DEF Least
  <2> QED BY <1>1, <1>2, <1>4, <1>8, <2>1, <2>2, <2>3, <2>4, <2>5 DEF ShownInv
<1>10. CASE ~(Len(shown) < Window /\ Len(shown) < disp.len)
  <2>1. disp'.step = "top" /\ shown' = shown
        BY <1>3, <1>10 DEF Show
  <2>2. Len(shown) = Least(Window, len)
        BY <1>6, <1>8, <1>10 DEF Least
  <2>3. DOMAIN shown = 1 .. Len(shown) /\ shown = [i \in DOMAIN shown |-> shown[i]]
        BY <1>6
  <2>4. Latest = [i \in 1 .. Len(shown) |-> Latest[i]]
        BY <2>2 DEF Latest
  <2>5. shown = Latest
        BY <1>8, <2>3, <2>4, Zenon
  <2> QED BY <1>2, <2>1, <2>5 DEF ShownInv
<1> QED BY <1>9, <1>10

LEMMA ShownInvStep ==
  ASSUME TypeOK, LitInv, CountInv, RingInv, ShownInv, [Next]_vars
  PROVE  ShownInv'
<1>0. /\ disp \in [step : Places, cur : Nat, last : Nat, on : BOOLEAN, was : BOOLEAN,
                   head : 0 .. N - 1, len : 0 .. N, touched : BOOLEAN]
      /\ counter \in Nat
      BY DEF TypeOK, RingType, DisplayType
<1>1. CASE \E w \in Writers : Write(w)
      BY <1>1, WriteShown DEF ShownInv
<1>2. CASE Look
  <2>1. /\ disp'.last = disp.last /\ disp.step = "top" /\ disp'.step = "saver"
        /\ UNCHANGED <<ring, writing, counter, shown, panel>>
        BY <1>0, <1>2 DEF Look
  <2> QED BY <2>1, ShownKept
<1>3. CASE Blank
  <2>1. disp'.last = disp.last /\ counter' = counter + 1
        BY <1>0, <1>3 DEF Blank
  <2>2. disp'.last # counter'
        BY <1>0, <2>1 DEF CountInv
  <2> QED BY <2>2 DEF ShownInv, InStep
<1>4. CASE DontBlank \/ TakeWake \/ NoWake \/ Skip
  <2>1. /\ disp'.last = disp.last
        /\ disp.step \notin {"load", "show"} /\ disp'.step \notin {"load", "show"}
        /\ UNCHANGED <<ring, writing, counter, shown, panel>>
        BY <1>0, <1>4 DEF DontBlank, TakeWake, NoWake, Skip, Disp, saver
  <2> QED BY <2>1, ShownKept
<1>5. CASE Power
  <2>1. /\ disp'.last = disp.last
        /\ disp.step = "power" /\ disp'.step = "wake"
        /\ UNCHANGED <<ring, writing, counter>>
        BY <1>0, <1>5 DEF Power, Disp
  <2>2. CASE disp.on = disp.was
    <3>1. UNCHANGED <<shown, panel>>
          BY <1>5, <2>2 DEF Power
    <3> QED BY <2>1, <3>1, ShownKept
  <2>3. CASE disp.on # disp.was /\ ~disp.on
    <3>1. ~panel'
          BY <1>5, <2>3 DEF Power
    <3> QED BY <2>1, <3>1 DEF ShownInv
  <2>4. CASE disp.on # disp.was /\ disp.on
    <3>1. ~panel
          BY <1>0, <2>1, <2>4 DEF LitInv
    <3>2. disp'.last # counter'
          BY <1>0, <2>1, <3>1 DEF CountInv
    <3> QED BY <3>2 DEF ShownInv, InStep
  <2> QED BY <2>2, <2>3, <2>4
<1>6. CASE Woken
  <2>1. /\ disp'.last = disp.last
        /\ disp.step = "woken" /\ disp'.step = "render"
        /\ UNCHANGED <<ring, writing, shown, panel>>
        /\ counter' = counter \/ counter' = counter + 1
        BY <1>0, <1>6 DEF Woken
  <2>2. disp'.last = counter' => disp.last = counter
        BY <1>0, <2>1 DEF CountInv
  <2> QED BY <2>1, <2>2, ShownKept
<1>7. CASE Render
  <2>1. disp'.step = "load" /\ disp'.head = head /\ head' = head
        BY <1>0, <1>7 DEF Render, ring
  <2> QED BY <2>1 DEF ShownInv
<1>8. CASE Load
  <2>1. /\ disp.step = "load" /\ disp'.step = "show"
        /\ disp'.last = disp.last /\ disp'.head = disp.head /\ disp'.len = len
        /\ UNCHANGED <<buf, head, len, app, raced, counter>> /\ shown' = <<>>
        BY <1>0, <1>8 DEF Load, ring, writing
  <2>2. InStep' => InStep
        BY <2>1 DEF InStep, AtRest, At
  <2>3. InStep => disp.head = head
        BY <2>1 DEF ShownInv
  <2>4. Len(<<>>) = 0 /\ 1 .. 0 = {}
        OBVIOUS
  <2>5. 0 <= Least(Window, len)
        BY Bounds DEF Least, TypeOK, RingType
  <2>6. Least(Window, len)' = Least(Window, len)
        BY <2>1 DEF Least
  <2> QED BY <2>1, <2>2, <2>3, <2>4, <2>5, <2>6 DEF ShownInv
<1>9. CASE Show
      BY <1>9, ShowShown
<1>10. CASE Press \/ Idle
  <2>1. /\ disp'.last = disp.last /\ disp'.step = disp.step
        /\ disp'.head = disp.head /\ disp'.len = disp.len
        /\ UNCHANGED <<ring, writing, counter, shown, panel>>
        BY <1>0, <1>10 DEF Press, Idle, display
  <2> QED BY <2>1, ShownKept
<1>11. CASE Request
  <2>1. disp'.last = disp.last /\ counter' = counter + 1
        BY <1>0, <1>11 DEF Request
  <2>2. disp'.last # counter'
        BY <1>0, <2>1 DEF CountInv
  <2> QED BY <2>2 DEF ShownInv, InStep
<1>12. CASE UNCHANGED vars
  <2>1. disp' = disp /\ UNCHANGED <<ring, writing, counter, shown, panel>>
        BY <1>12 DEF vars, display
  <2> QED BY <2>1, ShownKept
<1> QED BY <1>1, <1>2, <1>3, <1>4, <1>5, <1>6, <1>7, <1>8, <1>9, <1>10, <1>11, <1>12
        DEF Next, Display

\* Whatever the sizes, a display task that has nothing left to render shows the
\* end of the text, unless two appends have overlapped.
THEOREM AlwaysShownAll == Spec => []NothingLeftUnshown
<1>1. Init => ShownInv
  <2> SUFFICES ASSUME Init PROVE ShownInv
      OBVIOUS
  <2>1. len = 0 /\ Least(Window, len) = 0 /\ shown = <<>> /\ disp.step = "top"
        BY Bounds DEF Init, Least
  <2>2. Latest = <<>>
        BY <2>1 DEF Latest
  <2> QED BY <2>1, <2>2 DEF ShownInv
<1>2. TypeOK /\ LitInv /\ CountInv /\ RingInv /\ ShownInv /\ [Next]_vars => ShownInv'
      BY ShownInvStep
<1>3. ShownInv => NothingLeftUnshown
      BY DEF ShownInv, InStep, NothingLeftUnshown
<1> QED BY <1>1, <1>2, <1>3, TypeCorrect, LitAlways, CountInvAlways, RingAlways, PTL DEF Spec

=============================================================================
