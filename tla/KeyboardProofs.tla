---------------------------- MODULE KeyboardProofs ----------------------------
(***************************************************************************)
(* What TLAPS proves of Keyboard, for every set of chords, every number of *)
(* memories, networks and rows, and every length of a text.                *)
(***************************************************************************)
EXTENDS Keyboard, TLAPS

AllForms == WifiScreens \union MemoryScreens

-----------------------------------------------------------------------------
(* What the steps of a pass have in common.                                *)

\* The display task is never between its decision and its act when a key goes
\* down, and the handlers of the keys end the scan.
LEMMA OpeningStep ==
  ASSUME Opening
  PROVE  /\ phase = "scan" /\ phase' \in {"stamp", "route"}
         /\ ~dismiss /\ dismiss' = dismiss
<1>1. ASSUME NEW k, Pass, Pressed(k)
      PROVE  phase = "scan" /\ ~dismiss
      BY <1>1 DEF Pass, ScanKeys, Pressed
<1>2. ASSUME NEW s, Open(s)
      PROVE  phase' \in {"stamp", "route"} /\ dismiss' = dismiss
      BY <1>2 DEF Open
<1>3. ASSUME NEW k \in DOMAIN SettingOf, Toggle(k)
      PROVE  /\ Pass /\ Pressed(k)
             /\ phase' \in {"stamp", "route"} /\ dismiss' = dismiss
      BY <1>2, <1>3 DEF Toggle, Handles
<1>4. CASE ToggleKeying
      BY <1>1, <1>2, <1>4 DEF ToggleKeying, Handles
<1>5. CASE OpenPicker
      BY <1>1, <1>2, <1>5 DEF OpenPicker, Handles
<1>6. CASE OpenList
      BY <1>1, <1>2, <1>6 DEF OpenList, Handles
<1>7. CASE OpenAccessPoint
      BY <1>1, <1>2, <1>7 DEF OpenAccessPoint, Handles
<1>8. CASE OpenInfo
      BY <1>1, <1>2, <1>8 DEF OpenInfo, Handles
<1>9. CASE PlayDemo
      BY <1>1, <1>9 DEF PlayDemo, overlay
<1> QED BY <1>1, <1>3, <1>4, <1>5, <1>6, <1>7, <1>8, <1>9 DEF Opening

\* A handler of a screen restarts the timer, except on the decoder, and replaces
\* a form by another of its family or by the decoder.
LEMMA HandlingStep ==
  ASSUME Handling
  PROVE  /\ phase = "route" /\ phase' = "tail"
         /\ UNCHANGED <<held, last, dismiss, skipped, own, mute>>
         /\ screen' \in AllForms => screen \in AllForms /\ ~old'
         /\ screen' \in WifiScreens => screen \in WifiScreens
<1> USE DEF AllForms, WifiScreens, MemoryScreens, Forms
<1>1. ASSUME NEW S, Route(S)
      PROVE  /\ phase = "route" /\ phase' = "tail" /\ screen \in S
             /\ UNCHANGED <<held, last, dismiss, skipped, own, mute>>
      BY <1>1 DEF Route, keys, radio
<1>2. ASSUME NEW f, NEW s, InForm(f, s)
      PROVE  Route({s}) /\ ~old'
      BY <1>2 DEF InForm
<1>3. ASSUME NEW s, Leave(s)
      PROVE  screen' = s
      BY <1>3 DEF Leave
<1>4. ASSUME Stay
      PROVE  screen' = screen
      BY <1>4 DEF Stay
<1>5. CASE AdjustSetting
  <2>1. Route(Settings) /\ screen' = screen /\ ~old'
        BY <1>5 DEF AdjustSetting
  <2>2. screen \notin AllForms
        BY <1>1, <2>1 DEF Settings, SettingOf
  <2> QED BY <1>1, <2>1, <2>2
<1>6. CASE PlayDigit
  <2>1. Route({"decoder"}) /\ screen' = screen
        BY <1>6 DEF PlayDigit
  <2> QED BY <1>1, <2>1
<1>7. CASE InList
  <2>1. InForm("wifi", "list")
        BY <1>7 DEF InList
  <2> QED BY <1>1, <1>2, <2>1
<1>8. CASE InPassword
  <2>1. InForm("wifi", "password")
        BY <1>8 DEF InPassword
  <2> QED BY <1>1, <1>2, <2>1
<1>9. CASE InAccessPoint
  <2>1. InForm("wifi", "ap")
        BY <1>9 DEF InAccessPoint
  <2> QED BY <1>1, <1>2, <2>1
<1>10. CASE InQuestion
  <2>1. InForm("wifi", "info")
        BY <1>10 DEF InQuestion
  <2> QED BY <1>1, <1>2, <2>1
<1>11. CASE InInfo
  <2>1. InForm("wifi", "info")
        BY <1>11 DEF InInfo
  <2> QED BY <1>1, <1>2, <2>1
<1>12. CASE InPicker
  <2>1. InForm("memory", "pick")
        BY <1>12 DEF InPicker
  <2>2. Leave("edit") \/ Leave("decoder") \/ Stay
        BY <1>12 DEF InPicker
  <2>3. screen' \in {"edit", "decoder", "pick"}
        BY <1>1, <1>2, <1>3, <1>4, <2>1, <2>2
  <2> QED BY <1>1, <1>2, <2>1, <2>3
<1>13. CASE InEditor
  <2>1. InForm("memory", "edit")
        BY <1>13 DEF InEditor
  <2>2. Leave("decoder") \/ Stay
        BY <1>13 DEF InEditor
  <2>3. screen' \in {"edit", "decoder"}
        BY <1>1, <1>2, <1>3, <1>4, <2>1, <2>2
  <2> QED BY <1>1, <1>2, <2>1, <2>3
<1> QED BY <1>5, <1>6, <1>7, <1>8, <1>9, <1>10, <1>11, <1>12, <1>13 DEF Handling

\* The others come between, at any step or before a pass.
LEMMA OthersStep ==
  ASSUME Others
  PROVE  /\ UNCHANGED <<phase, held, last, own, mute, skipped>>
         /\ screen' \in {screen, "decoder"}
         /\ old' => old \/ (phase = "scan" /\ skipped)
         /\ dismiss' => dismiss \/ screen \notin WifiScreens
         /\ screen' = "decoder" \/ (screen' = screen /\ (dismiss => dismiss'))
<1>1. CASE EndText
  <2>1. UNCHANGED <<phase, held, last, own, mute, skipped, screen, old, dismiss>>
        BY <1>1 DEF EndText, keys, overlay, radio
  <2> QED BY <2>1
<1>2. CASE PlayRemote
  <2>1. UNCHANGED <<phase, held, last, own, mute, skipped, screen, old, dismiss>>
        BY <1>2 DEF PlayRemote, keys, overlay, radio
  <2> QED BY <2>1
<1>3. CASE WebSetting
  <2>1. UNCHANGED <<phase, held, last, own, mute, skipped, screen, old, dismiss>>
        BY <1>3 DEF WebSetting, keys, overlay, radio
  <2> QED BY <2>1
<1>4. CASE WebMemory
  <2>1. UNCHANGED <<phase, held, last, own, mute, skipped, screen, old, dismiss>>
        BY <1>4 DEF WebMemory, keys, overlay, radio
  <2> QED BY <2>1
<1>5. CASE WifiPoll
  <2>1. UNCHANGED <<phase, held, last, own, mute, skipped, screen, old, dismiss>>
        BY <1>5 DEF WifiPoll, keys, overlay, radio
  <2> QED BY <2>1
<1>6. CASE Age
  <2>1. UNCHANGED <<phase, held, last, own, mute, skipped, screen, dismiss>>
        BY <1>6 DEF Age, keys, radio
  <2>2. phase = "scan" /\ skipped
        BY <1>6 DEF Age
  <2> QED BY <2>1, <2>2
<1>7. CASE Decide
  <2>1. UNCHANGED <<phase, held, last, own, mute, skipped, screen, old>>
        BY <1>7 DEF Decide, keys, radio
  <2>2. screen \notin WifiScreens /\ dismiss'
        BY <1>7 DEF Decide, TimesOut
  <2> QED BY <2>1, <2>2
<1>8. CASE Dismiss
  <2>1. UNCHANGED <<phase, held, last, own, mute, skipped>>
        BY <1>8 DEF Dismiss, keys, radio
  <2>2. screen' = "decoder" /\ ~old' /\ ~dismiss'
        BY <1>8 DEF Dismiss
  <2> QED BY <2>1, <2>2
<1> QED BY <1>1, <1>2, <1>3, <1>4, <1>5, <1>6, <1>7, <1>8 DEF Others

-----------------------------------------------------------------------------
(* The transmitter.                                                        *)

LEMMA KeyedStep ==
  ASSUME KeyedOnlyByK, [Next]_vars
  PROVE  KeyedOnlyByK'
<1>1. CASE ConsumedPass
      BY <1>1 DEF ConsumedPass, KeyedOnlyByK
<1>2. CASE PlainPass
      BY <1>2 DEF PlainPass, KeyedOnlyByK
<1>3. CASE Opening
      BY <1>3, OpeningStep DEF KeyedOnlyByK
<1>4. CASE Stamp
      BY <1>4 DEF Stamp, KeyedOnlyByK
<1>5. CASE Handling
      BY <1>5, HandlingStep DEF KeyedOnlyByK
<1>6. CASE Tail
  <2>1. own' => "K" \in held'
        BY <1>6 DEF Tail, Hold
  <2> QED BY <2>1 DEF KeyedOnlyByK
<1>7. CASE Others
      BY <1>7, OthersStep DEF KeyedOnlyByK
<1>8. CASE UNCHANGED vars
      BY <1>8 DEF vars, keys, radio, KeyedOnlyByK
<1> QED BY <1>1, <1>2, <1>3, <1>4, <1>5, <1>6, <1>7, <1>8 DEF Next, Loop

\* Whatever keys are held together, the keyboard keys the transmitter with K only.
THEOREM AlwaysKeyedOnlyByK == Spec => []KeyedOnlyByK
<1>1. Init => KeyedOnlyByK
      BY DEF Init, KeyedOnlyByK
<1> QED BY <1>1, KeyedStep, PTL DEF Spec

-----------------------------------------------------------------------------
(* The timer of the overlays.                                              *)

\* The handler of a form has just restarted its timer.
FreshInv ==
  /\ FormsStayFresh
  /\ phase = "tail" /\ screen \in AllForms => ~old

LEMMA FreshStep ==
  ASSUME FreshInv, [Next]_vars
  PROVE  FreshInv'
<1> USE DEF FreshInv, FormsStayFresh, AllForms
<1>1. CASE ConsumedPass
      BY <1>1 DEF ConsumedPass, ScanKeys
<1>2. CASE PlainPass
      BY <1>2 DEF PlainPass
<1>3. CASE Opening
      BY <1>3, OpeningStep
<1>4. CASE Stamp
      BY <1>4 DEF Stamp
<1>5. CASE Handling
      BY <1>5, HandlingStep
<1>6. CASE Tail
  <2>1. phase = "tail" /\ phase' = "scan" /\ (old' => old)
        /\ screen' \in {screen, "decoder"}
        BY <1>6 DEF Tail
  <2>2. "decoder" \notin AllForms
        BY DEF WifiScreens, MemoryScreens, Forms
  <2> QED BY <2>1, <2>2
<1>7. CASE Others
  <2>1. "decoder" \notin AllForms
        BY DEF WifiScreens, MemoryScreens, Forms
  <2> QED BY <1>7, <2>1, OthersStep
<1>8. CASE UNCHANGED vars
      BY <1>8 DEF vars, overlay
<1> QED BY <1>1, <1>2, <1>3, <1>4, <1>5, <1>6, <1>7, <1>8 DEF Next, Loop

\* Whatever keys are held together, a form's timer runs out at the gate only.
THEOREM FormsAlwaysFresh == Spec => []FormsStayFresh
<1>1. Init => FreshInv
      BY DEF Init, FreshInv, FormsStayFresh
<1>2. FreshInv => FormsStayFresh
      BY DEF FreshInv
<1> QED BY <1>1, <1>2, FreshStep, PTL DEF Spec

\* The display task has decided on a screen that is not a Wi-Fi form, and no
\* such form opens before it acts.
DismissInv == dismiss => screen \notin WifiScreens

LEMMA DismissStep ==
  ASSUME DismissInv, [Next]_vars
  PROVE  DismissInv'
<1>0. "decoder" \notin WifiScreens
      BY DEF WifiScreens, Forms
<1> USE DEF DismissInv
<1>1. CASE ConsumedPass
      BY <1>1 DEF ConsumedPass, overlay
<1>2. CASE PlainPass
      BY <1>2 DEF PlainPass, overlay
<1>3. CASE Opening
      BY <1>3, OpeningStep
<1>4. CASE Stamp
      BY <1>4 DEF Stamp
<1>5. CASE Handling
      BY <1>5, HandlingStep
<1>6. CASE Tail
  <2>1. screen' \in {screen, "decoder"} /\ dismiss' = dismiss
        BY <1>6 DEF Tail
  <2> QED BY <1>0, <2>1
<1>7. CASE Others
      BY <1>0, <1>7, OthersStep
<1>8. CASE UNCHANGED vars
      BY <1>8 DEF vars, overlay
<1> QED BY <1>1, <1>2, <1>3, <1>4, <1>5, <1>6, <1>7, <1>8 DEF Next, Loop

\* Whatever keys are held together, no Wi-Fi form is taken away.
THEOREM TimeoutAlwaysSpares == Spec => TimeoutSparesForms
<1>1. Init => DismissInv
      BY DEF Init, DismissInv
<1>2. DismissInv /\ [Next]_vars => [dismiss /\ ~dismiss' => screen \notin WifiScreens]_vars
      BY DEF DismissInv
<1> QED BY <1>1, <1>2, DismissStep, PTL DEF Spec, TimeoutSparesForms

-----------------------------------------------------------------------------
(* Types.                                                                  *)

LEMMA Constants ==
  /\ \A c \in Chords : c \subseteq Keys
  /\ {} \in Chords /\ "0" \in Slots /\ Slots \subseteq Keys
  /\ Cap \in Nat \ {0} /\ Page \in Nat \ {0} /\ Networks \in Nat \ {0}
BY ChordsType, SlotsType, BoundsType DEF Keys, Printable

TypedField(f) == f \in FieldType /\ f.cursor <= f.len

\* The cursor is on a row that is shown, and on a network, if there is one.
CursorOf(l) ==
  /\ l.count = 0 => l.cursor = 0 /\ l.top = 0
  /\ l.count > 0 => l.cursor < l.count /\ l.top <= l.cursor /\ l.cursor <= l.top + Page - 1

LEMMA EmptyType == TypedField(Empty) /\ NoList \in ListType
BY Constants DEF TypedField, FieldType, Empty, NoList, ListType

LEMMA EmptiedType ==
  ASSUME NEW s, Emptied(s), TypeOK
  PROVE  TypedField(field') /\ list' \in ListType /\ slot' \in Slots
<1>1. field' \in {field, Empty} /\ list' \in {list, NoList} /\ slot' \in {slot, "0"}
      BY DEF Emptied
<1>2. TypedField(field) /\ list \in ListType /\ slot \in Slots
      BY DEF TypeOK, FormType, WifiType, ModelType, TypedField
<1> QED BY <1>1, <1>2, EmptyType, Constants

LEMMA TypeInit == Init => TypeOK
<1> SUFFICES ASSUME Init PROVE TypeOK
    OBVIOUS
<1>1. LoopType
      BY Constants DEF Init, LoopType
<1>2. ModelType
  <2>1. 0 \in Nat /\ 0 \in 0 .. Cap
        BY Constants
  <2>2. live \in [Settings -> Nat] /\ bank \in [Slots -> 0 .. Cap]
        BY <2>1, Zenon DEF Init
  <2>3. screen \in Screens
        BY DEF Init, Screens
  <2> QED BY <2>2, <2>3, Constants DEF Init, ModelType
<1>3. FormType
  <2>1. TypedField(field)
        BY EmptyType DEF Init
  <2>2. [on |-> "decoder", keys |-> {}] \in SeenType
        BY DEF SeenType, Screens
  <2>3. seen \in [{"wifi", "memory"} -> SeenType]
        BY <2>2 DEF Init
  <2> QED BY <2>1, <2>3 DEF Init, FormType, TypedField
<1>4. WifiType
      BY EmptyType DEF Init, WifiType
<1> QED BY <1>1, <1>2, <1>3, <1>4 DEF TypeOK

\* What every handler of a form does.
LEMMA InFormType ==
  ASSUME TypeOK, NEW f \in {"wifi", "memory"}, NEW s \in AllForms, InForm(f, s)
  PROVE  /\ screen = s /\ UNCHANGED <<live, playing, digit>> /\ old' \in BOOLEAN
         /\ seen' \in [{"wifi", "memory"} -> SeenType]
<1>1. held \subseteq Keys
      BY Constants DEF TypeOK, LoopType
<1>2. s \in Screens
      BY DEF AllForms, Screens
<1>3. [on |-> s, keys |-> held \intersect Watched[s]] \in SeenType
      BY <1>1, <1>2 DEF SeenType
<1>4. seen' = [seen EXCEPT ![f] = [on |-> s, keys |-> held \intersect Watched[s]]]
      BY DEF InForm
<1>5. seen \in [{"wifi", "memory"} -> SeenType]
      BY DEF TypeOK, FormType
<1> QED BY <1>3, <1>4, <1>5 DEF InForm, Route

LEMMA LeaveType ==
  ASSUME TypeOK
  PROVE  /\ \A s \in Screens : Leave(s) => screen' \in Screens /\ carried' \subseteq Keys
         /\ Stay => screen' \in Screens /\ carried' \subseteq Keys
         /\ \A ks : Acts(ks) => replayed' \subseteq Keys
<1>1. held \subseteq Keys /\ carried \subseteq Keys /\ screen \in Screens
      BY Constants DEF TypeOK, LoopType, FormType, ModelType
<1> QED BY <1>1 DEF Leave, Stay, Acts

LEMMA ShiftType ==
  ASSUME NEW f, TypedField(f), NEW d \in {-1, 1}
  PROVE  TypedField(Shift(f, d)) /\ Shift(f, d).prev = f.prev
<1>1. f.cursor \in Nat /\ f.len \in 0 .. Cap /\ f.cursor <= f.len /\ Cap \in Nat
      BY Constants DEF TypedField, FieldType
<1> DEFINE c == IF f.cursor + d < 0 THEN 0
                ELSE IF f.cursor + d > f.len THEN f.len ELSE f.cursor + d
<1>2. c \in 0 .. Cap /\ c <= f.len
      BY <1>1
<1>3. Shift(f, d) = [f EXCEPT !.cursor = c]
      BY DEF Shift
<1> HIDE DEF c
<1> QED BY <1>2, <1>3 DEF TypedField, FieldType

\* feed() keeps the cursor in the text and the text in its buffer, and an Enter
\* that it reports was not down before.
LEMMA FeedType ==
  ASSUME TypeOK, NEW f, TypedField(f), NEW p \in Keys \union {NoKey}
  PROVE  /\ TypedField(Feed(f, p).field)
         /\ "enter" \in held => "enter" \in Feed(f, p).field.prev
         /\ Feed(f, p).result = "ENTER" => "enter" \notin f.prev
<1> DEFINE new == (held \intersect {"enter", "esc", "bs"}) \union ({p} \ {NoKey})
           kept == [f EXCEPT !.prev = new]
           edge(k) == k \in new /\ k \notin f.prev
<1>1. f.cursor \in 0 .. Cap /\ f.len \in 0 .. Cap /\ f.cursor <= f.len /\ Cap \in Nat
      BY Constants DEF TypedField, FieldType
<1>2. new \subseteq Keys
      BY Constants DEF TypeOK, LoopType
<1>3. TypedField(kept) /\ kept.prev = new /\ kept.len = f.len /\ kept.cursor = f.cursor
      BY <1>2 DEF TypedField, FieldType
<1>4. "enter" \in held => "enter" \in new
      OBVIOUS
<1> HIDE DEF new, kept
<1>5. CASE edge("esc")
  <2>1. Feed(f, p) = [field |-> kept, result |-> "ESC"]
        BY <1>5 DEF Feed, new, kept
  <2> QED BY <1>3, <1>4, <2>1
<1>6. CASE ~edge("esc") /\ edge("enter")
  <2>1. Feed(f, p) = [field |-> kept, result |-> "ENTER"]
        BY <1>6 DEF Feed, new, kept
  <2> QED BY <1>3, <1>4, <1>6, <2>1
<1>7. CASE ~edge("esc") /\ ~edge("enter") /\ edge("bs")
  <2> DEFINE g == IF f.cursor = 0 THEN kept
                  ELSE [kept EXCEPT !.len = @ - 1, !.cursor = @ - 1]
  <2>1. Feed(f, p) = [field |-> g, result |-> "CHANGED"]
        BY <1>7 DEF Feed, new, kept
  <2>2. CASE f.cursor = 0
        BY <1>3, <1>4, <2>1, <2>2
  <2>3. CASE f.cursor # 0
    <3>1. f.len - 1 \in 0 .. Cap /\ f.cursor - 1 \in 0 .. Cap /\ f.cursor - 1 <= f.len - 1
          BY <1>1, <2>3
    <3>2. g = [kept EXCEPT !.len = f.len - 1, !.cursor = f.cursor - 1]
          BY <1>3, <2>3
    <3>3. TypedField(g) /\ g.prev = new
          BY <1>3, <3>1, <3>2 DEF TypedField, FieldType
    <3> QED BY <1>4, <2>1, <3>3
  <2> QED BY <2>2, <2>3
<1>8. CASE ~edge("esc") /\ ~edge("enter") /\ ~edge("bs")
  <2> DEFINE g == IF p # NoKey /\ edge(p) /\ f.len < Cap
                  THEN [kept EXCEPT !.len = @ + 1, !.cursor = @ + 1] ELSE kept
  <2>1. Feed(f, p) = [field |-> g, result |-> "CHANGED"]
        BY <1>8 DEF Feed, new, kept
  <2>2. CASE ~(p # NoKey /\ edge(p) /\ f.len < Cap)
        BY <1>3, <1>4, <2>1, <2>2
  <2>3. CASE p # NoKey /\ edge(p) /\ f.len < Cap
    <3>1. f.len + 1 \in 0 .. Cap /\ f.cursor + 1 \in 0 .. Cap /\ f.cursor + 1 <= f.len + 1
          BY <1>1, <2>3
    <3>2. g = [kept EXCEPT !.len = f.len + 1, !.cursor = f.cursor + 1]
          BY <1>3, <2>3
    <3>3. TypedField(g) /\ g.prev = new
          BY <1>3, <3>1, <3>2 DEF TypedField, FieldType
    <3> QED BY <1>4, <2>1, <3>3
  <2> QED BY <2>2, <2>3
<1> QED BY <1>5, <1>6, <1>7, <1>8

LEMMA EditedType ==
  ASSUME TypeOK, NEW f \in {"wifi", "memory"}, NEW p \in Keys \union {NoKey}
  PROVE  /\ TypedField(Edited(f, p).field)
         /\ "enter" \in held => "enter" \in Edited(f, p).field.prev
         /\ Edited(f, p).result = "ENTER" => "enter" \notin field.prev
<1> DEFINE shifts == {<<"left", -1>>, <<"right", 1>>}
           moves == {s \in shifts : Fresh(f, s[1])}
           moved == IF moves = {} THEN field ELSE Shift(field, (CHOOSE s \in moves : TRUE)[2])
           primed == IF screen = "ap" /\ seen[f].on # screen /\ p # NoKey
                     THEN [moved EXCEPT !.prev = (@ \ Printable) \union {p}] ELSE moved
           typed == IF moves = {} THEN p ELSE NoKey
<1>1. TypedField(field)
      BY DEF TypeOK, FormType, TypedField
<1>2. TypedField(moved) /\ moved.prev = field.prev
  <2>1. CASE moves = {}
        BY <1>1, <2>1
  <2>2. CASE moves # {}
    <3> DEFINE c == CHOOSE s \in moves : TRUE
    <3>1. c = <<"left", -1>> \/ c = <<"right", 1>>
          BY <2>2
    <3> HIDE DEF c
    <3>2. c[2] \in {-1, 1}
          BY <3>1
    <3> USE DEF c
    <3> HIDE DEF moves
    <3>3. moved = Shift(field, (CHOOSE s \in moves : TRUE)[2])
          BY <2>2
    <3> QED BY <1>1, <3>2, <3>3, ShiftType
  <2> QED BY <2>1, <2>2
<1> HIDE DEF moved
<1>3. TypedField(primed) /\ ("enter" \in field.prev => "enter" \in primed.prev)
  <2>1. CASE primed = moved
        BY <1>2, <2>1
  <2>2. CASE primed = [moved EXCEPT !.prev = (@ \ Printable) \union {p}] /\ p # NoKey
    <3>1. moved.prev \subseteq Keys
          BY <1>2 DEF TypedField, FieldType
    <3>2. (moved.prev \ Printable) \union {p} \subseteq Keys
          BY <2>2, <3>1
    <3>3. TypedField(primed) /\ primed.prev = (moved.prev \ Printable) \union {p}
          BY <1>2, <2>2, <3>2 DEF TypedField, FieldType
    <3>4. "enter" \notin Printable
          BY SlotsType DEF Printable, Letters
    <3> QED BY <1>2, <3>3, <3>4
  <2> QED BY <2>1, <2>2
<1> HIDE DEF primed
<1>4. typed \in Keys \union {NoKey}
      OBVIOUS
<1> HIDE DEF typed
<1>5. Edited(f, p) = Feed(primed, typed)
      BY DEF Edited, primed, moved, typed
<1> QED BY <1>3, <1>4, <1>5, FeedType

\* The scan list moves its cursor and its rows.
LEMMA MoveCursorType ==
  ASSUME NEW l \in ListType, NEW d \in {-1, 1}
  PROVE  /\ MoveCursor(l, d) \in ListType
         /\ CursorOf(l) => CursorOf(MoveCursor(l, d))
<1> DEFINE to == IF l.cursor + d < 0 THEN 0
                 ELSE IF l.cursor + d >= l.count THEN l.count - 1 ELSE l.cursor + d
           row == IF to < l.top THEN to
                  ELSE IF to >= l.top + Page THEN to - (Page - 1) ELSE l.top
<1>1. /\ l.count \in 0 .. Networks /\ l.cursor \in 0 .. Networks /\ l.top \in 0 .. Networks
      /\ Page \in Nat \ {0} /\ Networks \in Nat
      BY Constants DEF ListType
<1>2. CASE l.count = 0
  <2>1. MoveCursor(l, d) = NoList
        BY <1>2 DEF MoveCursor
  <2>2. CursorOf(NoList)
        BY DEF CursorOf, NoList
  <2> QED BY <2>1, <2>2, EmptyType
<1>3. CASE l.count # 0
  <2>1. to \in 0 .. Networks /\ to < l.count
        BY <1>1, <1>3
  <2>2. MoveCursor(l, d) = [l EXCEPT !.cursor = to, !.top = row]
        BY <1>3 DEF MoveCursor
  <2> HIDE DEF to
  <2>3. row \in 0 .. Networks /\ row <= to /\ to <= row + Page - 1
        BY <1>1, <2>1
  <2> HIDE DEF row
  <2>4. /\ MoveCursor(l, d) \in ListType /\ MoveCursor(l, d).cursor = to
        /\ MoveCursor(l, d).top = row /\ MoveCursor(l, d).count = l.count
        BY <2>1, <2>2, <2>3 DEF ListType
  <2> QED BY <1>3, <2>1, <2>3, <2>4 DEF CursorOf
<1> QED BY <1>2, <1>3

LEMMA InListMoves ==
  ASSUME TypeOK, InList
  PROVE  /\ list' \in ListType
         /\ CursorOf(list) => CursorOf(list')
<1> DEFINE up == IF Fresh("wifi", ";") THEN MoveCursor(list, -1) ELSE list
           moved == IF Fresh("wifi", ".") THEN MoveCursor(up, 1) ELSE up
<1>1. list \in ListType
      BY DEF TypeOK, WifiType
<1>2. up \in ListType /\ (CursorOf(list) => CursorOf(up))
      BY <1>1, MoveCursorType
<1> HIDE DEF up
<1>3. moved \in ListType /\ (CursorOf(list) => CursorOf(moved))
      BY <1>2, MoveCursorType
<1> HIDE DEF moved
<1>4. list' \in {moved, list, NoList}
      BY DEF InList, moved, up, Emptied
<1>5. CursorOf(NoList)
      BY DEF CursorOf, NoList
<1> QED BY <1>1, <1>3, <1>4, <1>5, EmptyType

\* The pass and its keys.
LEMMA LoopStep ==
  ASSUME TypeOK, [Next]_vars
  PROVE  LoopType'
<1>0. LoopType
      BY DEF TypeOK
<1> USE <1>0
<1>1. CASE ConsumedPass
      BY <1>1 DEF ConsumedPass, LoopType, ScanKeys, Pass, Handles, Open, keys, overlay,
         form, wifi, radio
<1>2. CASE PlainPass
      BY <1>2 DEF PlainPass, LoopType, ScanKeys, Pass, Handles, Open, keys, overlay, form,
         wifi, radio
<1>3. ASSUME NEW k \in DOMAIN SettingOf, Toggle(k)
      PROVE  LoopType'
      BY <1>3 DEF Toggle, LoopType, ScanKeys, Pass, Handles, Open, keys, overlay, form,
         wifi, radio
<1>4. CASE ToggleKeying
      BY <1>4 DEF ToggleKeying, LoopType, ScanKeys, Pass, Handles, Open, keys, overlay,
         form, wifi, radio
<1>5. CASE OpenPicker
      BY <1>5 DEF OpenPicker, LoopType, ScanKeys, Pass, Handles, Open, keys, overlay, form,
         wifi, radio
<1>6. CASE OpenList
      BY <1>6 DEF OpenList, LoopType, ScanKeys, Pass, Handles, Open, keys, overlay, form,
         wifi, radio
<1>7. CASE OpenAccessPoint
      BY <1>7 DEF OpenAccessPoint, LoopType, ScanKeys, Pass, Handles, Open, keys, overlay,
         form, wifi, radio
<1>8. CASE OpenInfo
      BY <1>8 DEF OpenInfo, LoopType, ScanKeys, Pass, Handles, Open, keys, overlay, form,
         wifi, radio
<1>9. CASE PlayDemo
      BY <1>9 DEF PlayDemo, LoopType, ScanKeys, Pass, Handles, Open, keys, overlay, form,
         wifi, radio
<1>10. CASE Stamp
      BY <1>10 DEF Stamp, LoopType, ScanKeys, Pass, Handles, Open, keys, overlay, form,
         wifi, radio
<1>11. CASE AdjustSetting
  <2>1. UNCHANGED <<held, last, skipped, own, mute, playing, digit>> /\ phase' = "tail"
        BY <1>11 DEF AdjustSetting, Route, keys, radio
  <2> QED BY <2>1 DEF LoopType
<1>12. CASE PlayDigit
  <2>1. UNCHANGED <<held, last, skipped, own, mute>> /\ phase' = "tail"
        BY <1>12 DEF PlayDigit, Route, keys, radio
  <2>2. digit' \in Slots \union {NoKey}
        BY <1>12 DEF PlayDigit
  <2>3. playing' \in BOOLEAN
        BY <1>12 DEF PlayDigit
  <2> QED BY <2>1, <2>2, <2>3 DEF LoopType
<1>13. CASE InList
  <2>1. InForm("wifi", "list")
        BY <1>13 DEF InList
  <2>2. UNCHANGED <<held, last, skipped, own, mute, playing, digit>> /\ phase' = "tail"
        BY <2>1 DEF InForm, Route, keys, radio
  <2> QED BY <2>2 DEF LoopType
<1>14. CASE InPassword
  <2>1. InForm("wifi", "password")
        BY <1>14 DEF InPassword
  <2>2. UNCHANGED <<held, last, skipped, own, mute, playing, digit>> /\ phase' = "tail"
        BY <2>1 DEF InForm, Route, keys, radio
  <2> QED BY <2>2 DEF LoopType
<1>15. CASE InAccessPoint
  <2>1. InForm("wifi", "ap")
        BY <1>15 DEF InAccessPoint
  <2>2. UNCHANGED <<held, last, skipped, own, mute, playing, digit>> /\ phase' = "tail"
        BY <2>1 DEF InForm, Route, keys, radio
  <2> QED BY <2>2 DEF LoopType
<1>16. CASE InQuestion
  <2>1. InForm("wifi", "info")
        BY <1>16 DEF InQuestion
  <2>2. UNCHANGED <<held, last, skipped, own, mute, playing, digit>> /\ phase' = "tail"
        BY <2>1 DEF InForm, Route, keys, radio
  <2> QED BY <2>2 DEF LoopType
<1>17. CASE InInfo
  <2>1. InForm("wifi", "info")
        BY <1>17 DEF InInfo
  <2>2. UNCHANGED <<held, last, skipped, own, mute, playing, digit>> /\ phase' = "tail"
        BY <2>1 DEF InForm, Route, keys, radio
  <2> QED BY <2>2 DEF LoopType
<1>18. CASE InPicker
  <2>1. InForm("memory", "pick")
        BY <1>18 DEF InPicker
  <2>2. UNCHANGED <<held, last, skipped, own, mute, playing, digit>> /\ phase' = "tail"
        BY <2>1 DEF InForm, Route, keys, radio
  <2> QED BY <2>2 DEF LoopType
<1>19. CASE InEditor
  <2>1. InForm("memory", "edit")
        BY <1>19 DEF InEditor
  <2>2. UNCHANGED <<held, last, skipped, own, mute, playing, digit>> /\ phase' = "tail"
        BY <2>1 DEF InForm, Route, keys, radio
  <2> QED BY <2>2 DEF LoopType
<1>20. CASE Tail
  <2>1. UNCHANGED <<held, skipped, playing, digit>> /\ phase' = "scan" /\ last' = held
        BY <1>20 DEF Tail
  <2>2. own' \in BOOLEAN /\ mute' \in BOOLEAN
        BY <1>20 DEF Tail, Hold
  <2> QED BY <2>1, <2>2 DEF LoopType
<1>21. CASE EndText
      BY <1>21 DEF EndText, LoopType, ScanKeys, Pass, Handles, Open, keys, overlay, form,
         wifi, radio
<1>22. CASE PlayRemote
      BY <1>22 DEF PlayRemote, LoopType, ScanKeys, Pass, Handles, Open, keys, overlay, form,
         wifi, radio
<1>23. CASE WebSetting
      BY <1>23 DEF WebSetting, LoopType, ScanKeys, Pass, Handles, Open, keys, overlay, form,
         wifi, radio
<1>24. CASE WebMemory
      BY <1>24 DEF WebMemory, LoopType, ScanKeys, Pass, Handles, Open, keys, overlay, form,
         wifi, radio
<1>25. CASE WifiPoll
      BY <1>25 DEF WifiPoll, LoopType, ScanKeys, Pass, Handles, Open, keys, overlay, form,
         wifi, radio
<1>26. CASE Age
      BY <1>26 DEF Age, LoopType, ScanKeys, Pass, Handles, Open, keys, overlay, form, wifi,
         radio
<1>27. CASE Decide
      BY <1>27 DEF Decide, LoopType, ScanKeys, Pass, Handles, Open, keys, overlay, form,
         wifi, radio
<1>28. CASE Dismiss
      BY <1>28 DEF Dismiss, LoopType, ScanKeys, Pass, Handles, Open, keys, overlay, form,
         wifi, radio
<1>29. CASE UNCHANGED vars
      BY <1>29 DEF vars, LoopType, ScanKeys, Pass, Handles, Open, keys, overlay, form, wifi,
         radio
<1> QED BY <1>1, <1>2, <1>3, <1>4, <1>5, <1>6, <1>7, <1>8, <1>9, <1>10, <1>11, <1>12,
        <1>13, <1>14, <1>15, <1>16, <1>17, <1>18, <1>19, <1>20, <1>21, <1>22, <1>23,
        <1>24, <1>25, <1>26, <1>27, <1>28, <1>29 DEF Next, Loop, Opening, Handling, Others

\* The screen, its timer, and what the model keeps.
LEMMA ModelStep ==
  ASSUME TypeOK, [Next]_vars
  PROVE  ModelType'
<1>0. /\ screen \in Screens /\ old \in BOOLEAN /\ dismiss \in BOOLEAN
      /\ live \in [Settings -> Nat] /\ bank \in [Slots -> 0 .. Cap] /\ slot \in Slots
      BY DEF TypeOK, ModelType
<1> USE <1>0
<1>1. CASE ConsumedPass
      BY <1>1 DEF ConsumedPass, ModelType, ScanKeys, Pass, Handles, Open, keys, overlay,
         form, wifi, radio
<1>2. CASE PlainPass
      BY <1>2 DEF PlainPass, ModelType, ScanKeys, Pass, Handles, Open, keys, overlay, form,
         wifi, radio
<1>3. ASSUME NEW k \in DOMAIN SettingOf, Toggle(k)
      PROVE  ModelType'
  <2>1. Open(SettingOf[k]) \/ Open("decoder")
        BY <1>3 DEF Toggle
  <2>2. SettingOf[k] \in Screens /\ "decoder" \in Screens
        BY DEF Screens, Settings
  <2>3. screen' \in Screens /\ old' \in BOOLEAN /\ dismiss' = dismiss
        BY <2>1, <2>2 DEF Open
  <2>4. UNCHANGED <<live, bank, slot>>
        BY <1>3 DEF Toggle, Handles
  <2> QED BY <2>3, <2>4 DEF ModelType
<1>4. CASE ToggleKeying
  <2>1. screen' \in Screens
        BY <1>4 DEF ToggleKeying, Open, Screens, Settings, SettingOf, WifiScreens, MemoryScreens, Forms
  <2>2. old' \in BOOLEAN /\ UNCHANGED <<dismiss, live, bank>> /\ slot' \in Slots
        BY <1>4, Constants DEF ToggleKeying, Open, Handles
  <2> QED BY <2>1, <2>2 DEF ModelType
<1>5. CASE OpenPicker
  <2>1. screen' \in Screens
        BY <1>5 DEF OpenPicker, Open, Screens, Settings, SettingOf, WifiScreens, MemoryScreens, Forms
  <2>2. old' \in BOOLEAN /\ UNCHANGED <<dismiss, live, bank>> /\ slot' \in Slots
        BY <1>5, Constants DEF OpenPicker, Open, Handles
  <2> QED BY <2>1, <2>2 DEF ModelType
<1>6. CASE OpenList
  <2>1. screen' \in Screens
        BY <1>6 DEF OpenList, Open, Screens, Settings, SettingOf, WifiScreens, MemoryScreens, Forms
  <2>2. old' \in BOOLEAN /\ UNCHANGED <<dismiss, live, bank>> /\ slot' \in Slots
        BY <1>6, Constants DEF OpenList, Open, Handles
  <2> QED BY <2>1, <2>2 DEF ModelType
<1>7. CASE OpenAccessPoint
  <2>1. Open("info") \/ Open("ap")
        BY <1>7 DEF OpenAccessPoint
  <2>2. screen' \in Screens /\ old' \in BOOLEAN /\ dismiss' = dismiss
        BY <2>1 DEF Open, Screens, Settings, SettingOf, WifiScreens, MemoryScreens, Forms
  <2>3. UNCHANGED <<live, bank, slot>>
        BY <1>7 DEF OpenAccessPoint, Handles
  <2> QED BY <2>2, <2>3 DEF ModelType
<1>8. CASE OpenInfo
  <2>1. screen' \in Screens
        BY <1>8 DEF OpenInfo, Open, Screens, Settings, SettingOf, WifiScreens, MemoryScreens, Forms
  <2>2. old' \in BOOLEAN /\ UNCHANGED <<dismiss, live, bank>> /\ slot' \in Slots
        BY <1>8, Constants DEF OpenInfo, Open, Handles
  <2> QED BY <2>1, <2>2 DEF ModelType
<1>9. CASE PlayDemo
      BY <1>9 DEF PlayDemo, ModelType, ScanKeys, Pass, Handles, Open, keys, overlay, form,
         wifi, radio
<1>10. CASE Stamp
      BY <1>10 DEF Stamp, ModelType, ScanKeys, Pass, Handles, Open, keys, overlay, form,
         wifi, radio
<1>11. CASE AdjustSetting
  <2>1. screen \in Settings /\ UNCHANGED <<screen, dismiss, bank, slot>> /\ old' = FALSE
        BY <1>11 DEF AdjustSetting, Route
  <2>2. live[screen] \in Nat
        BY <2>1 DEF ModelType
  <2> DEFINE v == IF ";" \in held \ last /\ live[screen] < Top[screen] THEN live[screen] + 1
                  ELSE IF "." \in held \ last /\ live[screen] > 0 THEN live[screen] - 1
                  ELSE live[screen]
  <2>3. v \in Nat
    <3>1. \/ v = live[screen] + 1 \/ v = live[screen]
          \/ v = live[screen] - 1 /\ live[screen] > 0
          OBVIOUS
    <3> HIDE DEF v
    <3> QED BY <2>2, <3>1
  <2>4. live' \in [Settings -> Nat]
    <3>1. live' = [live EXCEPT ![screen] = v]
          BY <1>11 DEF AdjustSetting
    <3> HIDE DEF v
    <3> QED BY <2>3, <3>1
  <2> QED BY <2>1, <2>4 DEF ModelType
<1>12. CASE PlayDigit
  <2>1. UNCHANGED <<screen, old, live, bank, slot, dismiss>>
        BY <1>12 DEF PlayDigit, Route
  <2> QED BY <2>1 DEF ModelType
<1>13. CASE InList
  <2>1. InForm("wifi", "list")
        BY <1>13 DEF InList
  <2>2. Leave("decoder") \/ Leave("info") \/ Leave("password") \/ Stay
        BY <1>13 DEF InList
  <2>3. screen' \in Screens
        BY <2>2 DEF Leave, Stay, Screens, Settings, SettingOf, WifiScreens, MemoryScreens, Forms
  <2>4. UNCHANGED <<live, dismiss>> /\ old' = FALSE
        BY <2>1 DEF InForm, Route
  <2>5. bank' = bank /\ slot' \in Slots
        BY <1>13, EmptiedType DEF InList
  <2> QED BY <2>3, <2>4, <2>5 DEF ModelType
<1>14. CASE InPassword
  <2>1. InForm("wifi", "password")
        BY <1>14 DEF InPassword
  <2>2. Leave("info") \/ Leave("list") \/ Stay
        BY <1>14 DEF InPassword
  <2>3. screen' \in Screens
        BY <2>2 DEF Leave, Stay, Screens, Settings, SettingOf, WifiScreens, MemoryScreens, Forms
  <2>4. UNCHANGED <<live, dismiss>> /\ old' = FALSE
        BY <2>1 DEF InForm, Route
  <2>5. UNCHANGED <<bank, slot>>
        BY <1>14 DEF InPassword
  <2> QED BY <2>3, <2>4, <2>5 DEF ModelType
<1>15. CASE InAccessPoint
  <2>1. InForm("wifi", "ap")
        BY <1>15 DEF InAccessPoint
  <2>2. Leave("info") \/ Leave("decoder") \/ Stay
        BY <1>15 DEF InAccessPoint
  <2>3. screen' \in Screens
        BY <2>2 DEF Leave, Stay, Screens, Settings, SettingOf, WifiScreens, MemoryScreens, Forms
  <2>4. UNCHANGED <<live, dismiss>> /\ old' = FALSE
        BY <2>1 DEF InForm, Route
  <2>5. UNCHANGED <<bank, slot>>
        BY <1>15 DEF InAccessPoint
  <2> QED BY <2>3, <2>4, <2>5 DEF ModelType
<1>16. CASE InQuestion
  <2>1. InForm("wifi", "info")
        BY <1>16 DEF InQuestion
  <2>2. Stay
        BY <1>16 DEF InQuestion
  <2>3. screen' \in Screens
        BY <2>2 DEF Leave, Stay, Screens, Settings, SettingOf, WifiScreens, MemoryScreens, Forms
  <2>4. UNCHANGED <<live, dismiss>> /\ old' = FALSE
        BY <2>1 DEF InForm, Route
  <2>5. UNCHANGED <<bank, slot>>
        BY <1>16 DEF InQuestion
  <2> QED BY <2>3, <2>4, <2>5 DEF ModelType
<1>17. CASE InInfo
  <2>1. InForm("wifi", "info")
        BY <1>17 DEF InInfo
  <2>2. Leave("decoder") \/ Stay
        BY <1>17 DEF InInfo
  <2>3. screen' \in Screens
        BY <2>2 DEF Leave, Stay, Screens, Settings, SettingOf, WifiScreens, MemoryScreens, Forms
  <2>4. UNCHANGED <<live, dismiss>> /\ old' = FALSE
        BY <2>1 DEF InForm, Route
  <2>5. bank' = bank /\ slot' \in Slots
        BY <1>17, EmptiedType DEF InInfo
  <2> QED BY <2>3, <2>4, <2>5 DEF ModelType
<1>18. CASE InPicker
  <2>1. InForm("memory", "pick")
        BY <1>18 DEF InPicker
  <2>2. Leave("edit") \/ Leave("decoder") \/ Stay
        BY <1>18 DEF InPicker
  <2>3. screen' \in Screens
        BY <2>2 DEF Leave, Stay, Screens, Settings, SettingOf, WifiScreens, MemoryScreens, Forms
  <2>4. UNCHANGED <<live, dismiss>> /\ old' = FALSE
        BY <2>1 DEF InForm, Route
  <2>5. PICK p \in Keys \union {NoKey} :
          LET shown == IF p \in Slots /\ Fresh("memory", p) THEN p ELSE slot
              cleared == IF Fresh("memory", "x") THEN [bank EXCEPT ![shown] = 0] ELSE bank
          IN bank' = cleared /\ slot' = IF screen' = "decoder" THEN "0" ELSE shown
        BY <1>18 DEF InPicker
  <2>6. slot' \in Slots /\ bank' \in [Slots -> 0 .. Cap]
        BY <2>5, Constants
  <2> QED BY <2>3, <2>4, <2>6 DEF ModelType
<1>19. CASE InEditor
  <2>1. InForm("memory", "edit")
        BY <1>19 DEF InEditor
  <2>2. Leave("decoder") \/ Stay
        BY <1>19 DEF InEditor
  <2>3. screen' \in Screens
        BY <2>2 DEF Leave, Stay, Screens, Settings, SettingOf, WifiScreens, MemoryScreens, Forms
  <2>4. UNCHANGED <<live, dismiss>> /\ old' = FALSE
        BY <2>1 DEF InForm, Route
  <2>5. PICK p \in Keys \union {NoKey} :
          /\ Edited("memory", p).result = "CHANGED" => UNCHANGED slot
          /\ ~(Edited("memory", p).result = "CHANGED") => Emptied("decoder")
          /\ bank' = IF Edited("memory", p).result = "ENTER"
                     THEN [bank EXCEPT ![slot] = Edited("memory", p).field.len] ELSE bank
        BY <1>19 DEF InEditor
  <2>6. TypedField(Edited("memory", p).field)
        BY EditedType
  <2>7. Edited("memory", p).field.len \in 0 .. Cap
        BY <2>6 DEF TypedField, FieldType
  <2>8. bank' \in [Slots -> 0 .. Cap]
        BY <2>5, <2>7
  <2>9. slot' \in Slots
        BY <2>5, EmptiedType
  <2> QED BY <2>3, <2>4, <2>8, <2>9 DEF ModelType
<1>20. CASE Tail
  <2>1. screen' \in {screen, "decoder"} /\ slot' \in Slots /\ UNCHANGED <<dismiss, live, bank>>
        BY <1>20, EmptiedType DEF Tail
  <2>2. old' \in BOOLEAN
        BY <1>20 DEF Tail
  <2>3. "decoder" \in Screens
        BY DEF Screens
  <2> QED BY <2>1, <2>2, <2>3 DEF ModelType
<1>21. CASE EndText
      BY <1>21 DEF EndText, ModelType, ScanKeys, Pass, Handles, Open, keys, overlay, form,
         wifi, radio
<1>22. CASE PlayRemote
      BY <1>22 DEF PlayRemote, ModelType, ScanKeys, Pass, Handles, Open, keys, overlay,
         form, wifi, radio
<1>23. CASE WebSetting
  <2>1. PICK s \in Settings : \E v \in 0 .. Top[s] : live' = [live EXCEPT ![s] = v]
        BY <1>23 DEF WebSetting
  <2>2. PICK v \in 0 .. Top[s] : live' = [live EXCEPT ![s] = v]
        BY <2>1
  <2>3. v \in Nat
        BY TopType
  <2>4. live' \in [Settings -> Nat]
        BY <2>2, <2>3 DEF ModelType
  <2>5. UNCHANGED <<screen, old, dismiss, bank, slot>>
        BY <1>23 DEF WebSetting, overlay
  <2> QED BY <2>4, <2>5 DEF ModelType
<1>24. CASE WebMemory
      BY <1>24 DEF WebMemory, ModelType, ScanKeys, Pass, Handles, Open, keys, overlay, form,
         wifi, radio
<1>25. CASE WifiPoll
      BY <1>25 DEF WifiPoll, ModelType, ScanKeys, Pass, Handles, Open, keys, overlay, form,
         wifi, radio
<1>26. CASE Age
      BY <1>26 DEF Age, ModelType, ScanKeys, Pass, Handles, Open, keys, overlay, form, wifi,
         radio
<1>27. CASE Decide
      BY <1>27 DEF Decide, TimesOut, ModelType, ScanKeys, Pass, Handles, Open, keys,
         overlay, form, wifi, radio
<1>28. CASE Dismiss
  <2>1. screen' = "decoder" /\ slot' \in Slots /\ old' = FALSE /\ dismiss' = FALSE
        BY <1>28, EmptiedType DEF Dismiss
  <2>2. UNCHANGED <<live, bank>>
        BY <1>28 DEF Dismiss
  <2>3. "decoder" \in Screens
        BY DEF Screens
  <2> QED BY <2>1, <2>2, <2>3 DEF ModelType
<1>29. CASE UNCHANGED vars
      BY <1>29 DEF vars, ModelType, ScanKeys, Pass, Handles, Open, keys, overlay, form,
         wifi, radio
<1> QED BY <1>1, <1>2, <1>3, <1>4, <1>5, <1>6, <1>7, <1>8, <1>9, <1>10, <1>11, <1>12,
        <1>13, <1>14, <1>15, <1>16, <1>17, <1>18, <1>19, <1>20, <1>21, <1>22, <1>23,
        <1>24, <1>25, <1>26, <1>27, <1>28, <1>29 DEF Next, Loop, Opening, Handling, Others

\* The scan list, the question and the link.
LEMMA WifiStep ==
  ASSUME TypeOK, [Next]_vars
  PROVE  WifiType'
<1>0. list \in ListType /\ confirm \in BOOLEAN /\ link \in {"idle", "connecting", "ap"}
      BY DEF TypeOK, WifiType
<1> USE <1>0
<1>1. CASE ConsumedPass
      BY <1>1 DEF ConsumedPass, WifiType, ScanKeys, Pass, Handles, Open, keys, overlay,
         form, wifi, radio
<1>2. CASE PlainPass
      BY <1>2 DEF PlainPass, WifiType, ScanKeys, Pass, Handles, Open, keys, overlay, form,
         wifi, radio
<1>3. ASSUME NEW k \in DOMAIN SettingOf, Toggle(k)
      PROVE  WifiType'
      BY <1>3 DEF Toggle, WifiType, ScanKeys, Pass, Handles, Open, keys, overlay, form,
         wifi, radio
<1>4. CASE ToggleKeying
      BY <1>4 DEF ToggleKeying, WifiType, ScanKeys, Pass, Handles, Open, keys, overlay,
         form, wifi, radio
<1>5. CASE OpenPicker
      BY <1>5 DEF OpenPicker, WifiType, ScanKeys, Pass, Handles, Open, keys, overlay, form,
         wifi, radio
<1>6. CASE OpenList
  <2>1. list' = NoList /\ confirm' = FALSE /\ link' = "idle"
        BY <1>6 DEF OpenList
  <2> QED BY <2>1, EmptyType DEF WifiType
<1>7. CASE OpenAccessPoint
  <2>1. list' \in {list, NoList} /\ confirm' \in {confirm, FALSE} /\ link' \in {link, "idle"}
        BY <1>7 DEF OpenAccessPoint
  <2> QED BY <2>1, EmptyType DEF WifiType
<1>8. CASE OpenInfo
      BY <1>8 DEF OpenInfo, WifiType, ScanKeys, Pass, Handles, Open, keys, overlay, form,
         wifi, radio
<1>9. CASE PlayDemo
      BY <1>9 DEF PlayDemo, WifiType, ScanKeys, Pass, Handles, Open, keys, overlay, form,
         wifi, radio
<1>10. CASE Stamp
      BY <1>10 DEF Stamp, WifiType, ScanKeys, Pass, Handles, Open, keys, overlay, form,
         wifi, radio
<1>11. CASE AdjustSetting
      BY <1>11 DEF AdjustSetting, WifiType, ScanKeys, Pass, Handles, Open, keys, overlay,
         form, wifi, radio
<1>12. CASE PlayDigit
      BY <1>12 DEF PlayDigit, WifiType, ScanKeys, Pass, Handles, Open, keys, overlay, form,
         wifi, radio
<1>13. CASE InList
  <2>1. InForm("wifi", "list")
        BY <1>13 DEF InList
  <2>2. list' \in ListType
        BY <1>13, InListMoves
  <2>3. confirm' \in BOOLEAN
        BY <1>13 DEF InList
  <2>4. link' \in {"idle", "connecting", "ap"}
        BY <1>13 DEF InList, Connect
  <2> QED BY <2>2, <2>3, <2>4 DEF WifiType
<1>14. CASE InPassword
  <2>1. InForm("wifi", "password")
        BY <1>14 DEF InPassword
  <2>2. UNCHANGED <<list, confirm>> /\ link' \in {link, "connecting", "idle"}
        BY <1>14 DEF InPassword, Connect
  <2> QED BY <2>2 DEF WifiType
<1>15. CASE InAccessPoint
  <2>1. InForm("wifi", "ap")
        BY <1>15 DEF InAccessPoint
  <2>2. list' \in ListType
        BY <1>15, EmptyType DEF InAccessPoint
  <2>3. confirm' = confirm /\ link' \in {link, "ap", "idle"}
        BY <1>15 DEF InAccessPoint
  <2> QED BY <2>2, <2>3 DEF WifiType
<1>16. CASE InQuestion
  <2>1. InForm("wifi", "info")
        BY <1>16 DEF InQuestion
  <2>2. list' = list /\ link' \in {link, "idle"}
        BY <1>16 DEF InQuestion
  <2>3. confirm' \in BOOLEAN
        BY <1>16 DEF InQuestion
  <2> QED BY <2>2, <2>3 DEF WifiType
<1>17. CASE InInfo
  <2>1. InForm("wifi", "info")
        BY <1>17 DEF InInfo
  <2>2. list' \in ListType
        BY <1>17, EmptiedType DEF InInfo
  <2>3. confirm' \in BOOLEAN
        BY <1>17 DEF InInfo
  <2>4. link' \in {"idle", "connecting", "ap"}
        BY <1>17 DEF InInfo
  <2> QED BY <2>2, <2>3, <2>4 DEF WifiType
<1>18. CASE InPicker
  <2>1. InForm("memory", "pick")
        BY <1>18 DEF InPicker
  <2>2. UNCHANGED <<list, confirm, link>>
        BY <1>18 DEF InPicker, wifi
  <2> QED BY <2>2 DEF WifiType
<1>19. CASE InEditor
  <2>1. InForm("memory", "edit")
        BY <1>19 DEF InEditor
  <2>2. UNCHANGED <<confirm, link>> /\ list' \in ListType
        BY <1>19, EmptiedType DEF InEditor
  <2> QED BY <2>2 DEF WifiType
<1>20. CASE Tail
  <2>1. UNCHANGED <<confirm, link>> /\ list' \in ListType
        BY <1>20, EmptiedType DEF Tail
  <2> QED BY <2>1 DEF WifiType
<1>21. CASE EndText
      BY <1>21 DEF EndText, WifiType, ScanKeys, Pass, Handles, Open, keys, overlay, form,
         wifi, radio
<1>22. CASE PlayRemote
      BY <1>22 DEF PlayRemote, WifiType, ScanKeys, Pass, Handles, Open, keys, overlay, form,
         wifi, radio
<1>23. CASE WebSetting
      BY <1>23 DEF WebSetting, WifiType, ScanKeys, Pass, Handles, Open, keys, overlay, form,
         wifi, radio
<1>24. CASE WebMemory
      BY <1>24 DEF WebMemory, WifiType, ScanKeys, Pass, Handles, Open, keys, overlay, form,
         wifi, radio
<1>25. CASE WifiPoll
  <2>1. confirm' = confirm /\ link' \in {link, "idle"}
        BY <1>25 DEF WifiPoll
  <2>2. list' = list \/ \E n \in 1 .. Networks : list' = [list EXCEPT !.count = n]
        BY <1>25 DEF WifiPoll
  <2>3. \A n \in 1 .. Networks : n \in 0 .. Networks
        BY Constants
  <2>4. list' \in ListType
        BY <2>2, <2>3 DEF WifiType, ListType
  <2> QED BY <2>1, <2>4 DEF WifiType
<1>26. CASE Age
      BY <1>26 DEF Age, WifiType, ScanKeys, Pass, Handles, Open, keys, overlay, form, wifi,
         radio
<1>27. CASE Decide
      BY <1>27 DEF Decide, WifiType, ScanKeys, Pass, Handles, Open, keys, overlay, form,
         wifi, radio
<1>28. CASE Dismiss
  <2>1. UNCHANGED <<confirm, link>> /\ list' \in ListType
        BY <1>28, EmptiedType DEF Dismiss
  <2> QED BY <2>1 DEF WifiType
<1>29. CASE UNCHANGED vars
      BY <1>29 DEF vars, WifiType, ScanKeys, Pass, Handles, Open, keys, overlay, form, wifi,
         radio
<1> QED BY <1>1, <1>2, <1>3, <1>4, <1>5, <1>6, <1>7, <1>8, <1>9, <1>10, <1>11, <1>12,
        <1>13, <1>14, <1>15, <1>16, <1>17, <1>18, <1>19, <1>20, <1>21, <1>22, <1>23,
        <1>24, <1>25, <1>26, <1>27, <1>28, <1>29 DEF Next, Loop, Opening, Handling, Others

\* The field, the keys that are remembered, and the history.
Primed == [Empty EXCEPT !.prev = {"enter"}]

LEMMA PrimedType == TypedField(Primed) /\ Primed.prev = {"enter"}
BY EmptyType DEF TypedField, FieldType, Empty, Primed, Keys

LEMMA FormStep ==
  ASSUME TypeOK, [Next]_vars
  PROVE  FormType'
<1>0. /\ TypedField(field) /\ seen \in [{"wifi", "memory"} -> SeenType]
      /\ carried \subseteq Keys /\ replayed \subseteq Keys /\ held \subseteq Keys
      BY Constants DEF TypeOK, FormType, LoopType, TypedField
<1> USE <1>0
<1>1. CASE ConsumedPass
  <2>1. UNCHANGED <<seen, replayed>> /\ carried' \subseteq carried
        BY <1>1 DEF ConsumedPass, Handles, Pass, ScanKeys, form
  <2>2. TypedField(field')
        BY <1>1, PrimedType, EmptyType DEF ConsumedPass, Primed
  <2> QED BY <2>1, <2>2 DEF FormType, TypedField
<1>2. CASE PlainPass
  <2>1. UNCHANGED <<seen, replayed>> /\ carried' \subseteq carried
        BY <1>2 DEF PlainPass, Handles, Pass, ScanKeys, form
  <2>2. TypedField(field')
        BY <1>2, PrimedType, EmptyType DEF PlainPass, Primed
  <2> QED BY <2>1, <2>2 DEF FormType, TypedField
<1>3. ASSUME NEW k \in DOMAIN SettingOf, Toggle(k)
      PROVE  FormType'
  <2>1. UNCHANGED <<seen, replayed>> /\ carried' \subseteq carried
        BY <1>3 DEF Toggle, Handles, Pass, ScanKeys, form
  <2>2. TypedField(field')
        BY <1>3, PrimedType, EmptyType DEF Toggle, Primed
  <2> QED BY <2>1, <2>2 DEF FormType, TypedField
<1>4. CASE ToggleKeying
  <2>1. UNCHANGED <<seen, replayed>> /\ carried' \subseteq carried
        BY <1>4 DEF ToggleKeying, Handles, Pass, ScanKeys, form
  <2>2. TypedField(field')
        BY <1>4, PrimedType, EmptyType DEF ToggleKeying, Primed
  <2> QED BY <2>1, <2>2 DEF FormType, TypedField
<1>5. CASE OpenPicker
  <2>1. UNCHANGED <<seen, replayed>> /\ carried' \subseteq carried
        BY <1>5 DEF OpenPicker, Handles, Pass, ScanKeys, form
  <2>2. TypedField(field')
        BY <1>5, PrimedType, EmptyType DEF OpenPicker, Primed
  <2> QED BY <2>1, <2>2 DEF FormType, TypedField
<1>6. CASE OpenList
  <2>1. UNCHANGED <<seen, replayed>> /\ carried' \subseteq carried
        BY <1>6 DEF OpenList, Handles, Pass, ScanKeys, form
  <2>2. TypedField(field')
        BY <1>6, PrimedType, EmptyType DEF OpenList, Primed
  <2> QED BY <2>1, <2>2 DEF FormType, TypedField
<1>7. CASE OpenAccessPoint
  <2>1. UNCHANGED <<seen, replayed>> /\ carried' \subseteq carried
        BY <1>7 DEF OpenAccessPoint, Handles, Pass, ScanKeys, form
  <2>2. TypedField(field')
        BY <1>7, PrimedType, EmptyType DEF OpenAccessPoint, Primed
  <2> QED BY <2>1, <2>2 DEF FormType, TypedField
<1>8. CASE OpenInfo
  <2>1. UNCHANGED <<seen, replayed>> /\ carried' \subseteq carried
        BY <1>8 DEF OpenInfo, Handles, Pass, ScanKeys, form
  <2>2. TypedField(field')
        BY <1>8, PrimedType, EmptyType DEF OpenInfo, Primed
  <2> QED BY <2>1, <2>2 DEF FormType, TypedField
<1>9. CASE PlayDemo
  <2>1. UNCHANGED <<seen, replayed>> /\ carried' \subseteq carried
        BY <1>9 DEF PlayDemo, Handles, Pass, ScanKeys, form
  <2>2. TypedField(field')
        BY <1>9, PrimedType, EmptyType DEF PlayDemo, Primed
  <2> QED BY <2>1, <2>2 DEF FormType, TypedField
<1>10. CASE Stamp
  <2>1. UNCHANGED <<field, seen, carried, replayed>>
        BY <1>10 DEF Stamp, form
  <2> QED BY <2>1 DEF FormType, TypedField
<1>11. CASE AdjustSetting
  <2>1. UNCHANGED <<field, seen, carried, replayed>>
        BY <1>11 DEF AdjustSetting, form
  <2> QED BY <2>1 DEF FormType, TypedField
<1>12. CASE PlayDigit
  <2>1. UNCHANGED <<field, seen, carried, replayed>>
        BY <1>12 DEF PlayDigit, form
  <2> QED BY <2>1 DEF FormType, TypedField
<1>13. CASE InList
  <2>1. InForm("wifi", "list")
        BY <1>13 DEF InList
  <2>2. Leave("decoder") \/ Leave("info") \/ Leave("password") \/ Stay
        BY <1>13 DEF InList
  <2>3. carried' \subseteq Keys
        BY <1>0, <2>2 DEF Leave, Stay
  <2>4. replayed' \subseteq Keys
        BY <1>13, <1>0 DEF InList, Acts
  <2>5. seen' \in [{"wifi", "memory"} -> SeenType]
        BY <2>1, InFormType DEF AllForms, WifiScreens, MemoryScreens, Forms
  <2>6. field' \in {field, Primed} \/ Emptied("decoder")
        BY <1>13 DEF InList, Primed
  <2>7. TypedField(field')
        BY <2>6, PrimedType, EmptiedType
  <2> QED BY <2>3, <2>4, <2>5, <2>7 DEF FormType, TypedField
<1>14. CASE InPassword
  <2>1. InForm("wifi", "password")
        BY <1>14 DEF InPassword
  <2>2. Leave("info") \/ Leave("list") \/ Stay
        BY <1>14 DEF InPassword
  <2>3. carried' \subseteq Keys
        BY <1>0, <2>2 DEF Leave, Stay
  <2>4. replayed' \subseteq Keys
        BY <1>14, <1>0 DEF InPassword, Acts
  <2>5. seen' \in [{"wifi", "memory"} -> SeenType]
        BY <2>1, InFormType DEF AllForms, WifiScreens, MemoryScreens, Forms
  <2>6. PICK p \in Keys \union {NoKey} :
          field' = Empty \/ field' = Edited("wifi", p).field \/ Emptied("decoder")
        BY <1>14 DEF InPassword
  <2>7. TypedField(field')
        BY <2>6, EditedType, EmptyType, EmptiedType
  <2> QED BY <2>3, <2>4, <2>5, <2>7 DEF FormType, TypedField
<1>15. CASE InAccessPoint
  <2>1. InForm("wifi", "ap")
        BY <1>15 DEF InAccessPoint
  <2>2. Leave("info") \/ Leave("decoder") \/ Stay
        BY <1>15 DEF InAccessPoint
  <2>3. carried' \subseteq Keys
        BY <1>0, <2>2 DEF Leave, Stay
  <2>4. replayed' \subseteq Keys
        BY <1>15, <1>0 DEF InAccessPoint, Acts
  <2>5. seen' \in [{"wifi", "memory"} -> SeenType]
        BY <2>1, InFormType DEF AllForms, WifiScreens, MemoryScreens, Forms
  <2>6. PICK p \in Keys \union {NoKey} :
          field' = Empty \/ field' = Edited("wifi", p).field \/ Emptied("decoder")
        BY <1>15 DEF InAccessPoint
  <2>7. TypedField(field')
        BY <2>6, EditedType, EmptyType, EmptiedType
  <2> QED BY <2>3, <2>4, <2>5, <2>7 DEF FormType, TypedField
<1>16. CASE InQuestion
  <2>1. InForm("wifi", "info")
        BY <1>16 DEF InQuestion
  <2>2. Stay
        BY <1>16 DEF InQuestion
  <2>3. carried' \subseteq Keys
        BY <1>0, <2>2 DEF Leave, Stay
  <2>4. replayed' \subseteq Keys
        BY <1>16, <1>0 DEF InQuestion, Acts
  <2>5. seen' \in [{"wifi", "memory"} -> SeenType]
        BY <2>1, InFormType DEF AllForms, WifiScreens, MemoryScreens, Forms
  <2>7. TypedField(field')
        BY <1>16 DEF InQuestion
  <2> QED BY <2>3, <2>4, <2>5, <2>7 DEF FormType, TypedField
<1>17. CASE InInfo
  <2>1. InForm("wifi", "info")
        BY <1>17 DEF InInfo
  <2>2. Leave("decoder") \/ Stay
        BY <1>17 DEF InInfo
  <2>3. carried' \subseteq Keys
        BY <1>0, <2>2 DEF Leave, Stay
  <2>4. replayed' \subseteq Keys
        BY <1>17, <1>0 DEF InInfo, Acts
  <2>5. seen' \in [{"wifi", "memory"} -> SeenType]
        BY <2>1, InFormType DEF AllForms, WifiScreens, MemoryScreens, Forms
  <2>7. TypedField(field')
        BY <1>17, EmptiedType DEF InInfo
  <2> QED BY <2>3, <2>4, <2>5, <2>7 DEF FormType, TypedField
<1>18. CASE InPicker
  <2>1. InForm("memory", "pick")
        BY <1>18 DEF InPicker
  <2>2. Leave("edit") \/ Leave("decoder") \/ Stay
        BY <1>18 DEF InPicker
  <2>3. carried' \subseteq Keys
        BY <1>0, <2>2 DEF Leave, Stay
  <2>4. replayed' \subseteq Keys
        BY <1>18, <1>0 DEF InPicker, Acts
  <2>5. seen' \in [{"wifi", "memory"} -> SeenType]
        BY <2>1, InFormType DEF AllForms, WifiScreens, MemoryScreens, Forms
  <2>6. PICK p \in Keys \union {NoKey} :
          LET shown == IF p \in Slots /\ Fresh("memory", p) THEN p ELSE slot
              cleared == IF Fresh("memory", "x") THEN [bank EXCEPT ![shown] = 0] ELSE bank
          IN field' = field \/ field' = [len |-> cleared[shown], cursor |-> cleared[shown],
                                         prev |-> {"enter"} \union ({p} \ {NoKey})]
        BY <1>18 DEF InPicker
  <2> DEFINE shown == IF p \in Slots /\ Fresh("memory", p) THEN p ELSE slot
             cleared == IF Fresh("memory", "x") THEN [bank EXCEPT ![shown] = 0] ELSE bank
  <2>8. shown \in Slots
        BY DEF TypeOK, ModelType
  <2> HIDE DEF shown
  <2>9. cleared[shown] \in 0 .. Cap
        BY <2>8, Constants DEF TypeOK, ModelType
  <2>10. {"enter"} \union ({p} \ {NoKey}) \subseteq Keys
        BY DEF Keys
  <2> HIDE DEF cleared
  <2>11. TypedField([len |-> cleared[shown], cursor |-> cleared[shown],
                     prev |-> {"enter"} \union ({p} \ {NoKey})])
        BY <2>9, <2>10 DEF TypedField, FieldType
  <2>7. TypedField(field')
        BY <2>6, <2>11 DEF shown, cleared
  <2> QED BY <2>3, <2>4, <2>5, <2>7 DEF FormType, TypedField
<1>19. CASE InEditor
  <2>1. InForm("memory", "edit")
        BY <1>19 DEF InEditor
  <2>2. Leave("decoder") \/ Stay
        BY <1>19 DEF InEditor
  <2>3. carried' \subseteq Keys
        BY <1>0, <2>2 DEF Leave, Stay
  <2>4. replayed' \subseteq Keys
        BY <1>19, <1>0 DEF InEditor, Acts
  <2>5. seen' \in [{"wifi", "memory"} -> SeenType]
        BY <2>1, InFormType DEF AllForms, WifiScreens, MemoryScreens, Forms
  <2>6. PICK p \in Keys \union {NoKey} :
          field' = Empty \/ field' = Edited("memory", p).field \/ Emptied("decoder")
        BY <1>19 DEF InEditor
  <2>7. TypedField(field')
        BY <2>6, EditedType, EmptyType, EmptiedType
  <2> QED BY <2>3, <2>4, <2>5, <2>7 DEF FormType, TypedField
<1>20. CASE Tail
  <2>1. seen' = seen /\ carried' \in {{}, carried} /\ replayed' = {} /\ TypedField(field')
        BY <1>20, EmptiedType DEF Tail
  <2> QED BY <2>1 DEF FormType, TypedField
<1>21. CASE EndText
  <2>1. UNCHANGED <<field, seen, carried, replayed>>
        BY <1>21 DEF EndText, form
  <2> QED BY <2>1 DEF FormType, TypedField
<1>22. CASE PlayRemote
  <2>1. UNCHANGED <<field, seen, carried, replayed>>
        BY <1>22 DEF PlayRemote, form
  <2> QED BY <2>1 DEF FormType, TypedField
<1>23. CASE WebSetting
  <2>1. UNCHANGED <<field, seen, carried, replayed>>
        BY <1>23 DEF WebSetting, form
  <2> QED BY <2>1 DEF FormType, TypedField
<1>24. CASE WebMemory
  <2>1. UNCHANGED <<field, seen, carried, replayed>>
        BY <1>24 DEF WebMemory, form
  <2> QED BY <2>1 DEF FormType, TypedField
<1>25. CASE WifiPoll
  <2>1. UNCHANGED <<field, seen, carried, replayed>>
        BY <1>25 DEF WifiPoll, form
  <2> QED BY <2>1 DEF FormType, TypedField
<1>26. CASE Age
  <2>1. UNCHANGED <<field, seen, carried, replayed>>
        BY <1>26 DEF Age, form
  <2> QED BY <2>1 DEF FormType, TypedField
<1>27. CASE Decide
  <2>1. UNCHANGED <<field, seen, carried, replayed>>
        BY <1>27 DEF Decide, form
  <2> QED BY <2>1 DEF FormType, TypedField
<1>28. CASE Dismiss
  <2>1. UNCHANGED <<seen, replayed>> /\ carried' = {} /\ TypedField(field')
        BY <1>28, EmptiedType DEF Dismiss
  <2> QED BY <2>1 DEF FormType, TypedField
<1>29. CASE UNCHANGED vars
  <2>1. UNCHANGED <<field, seen, carried, replayed>>
        BY <1>29 DEF vars, form
  <2> QED BY <2>1 DEF FormType, TypedField
<1> QED BY <1>1, <1>2, <1>3, <1>4, <1>5, <1>6, <1>7, <1>8, <1>9, <1>10, <1>11, <1>12,
        <1>13, <1>14, <1>15, <1>16, <1>17, <1>18, <1>19, <1>20, <1>21, <1>22, <1>23,
        <1>24, <1>25, <1>26, <1>27, <1>28, <1>29 DEF Next, Loop, Opening, Handling, Others

THEOREM TypeCorrect == Spec => []TypeOK
<1>1. TypeOK /\ [Next]_vars => TypeOK'
      BY LoopStep, ModelStep, FormStep, WifiStep DEF TypeOK
<1> QED BY <1>1, TypeInit, PTL DEF Spec

-----------------------------------------------------------------------------
(* The scan list.                                                          *)

LEMMA ListStep ==
  ASSUME TypeOK, CursorOf(list), [Next]_vars
  PROVE  CursorOf(list')
<1>0. CursorOf(NoList)
      BY DEF CursorOf, NoList
<1>1. ASSUME NEW s, Emptied(s)
      PROVE  list' \in {list, NoList}
      BY <1>1 DEF Emptied
<1>2. CASE ConsumedPass \/ PlainPass
      BY <1>2 DEF ConsumedPass, PlainPass, wifi
<1>3. CASE Opening
  <2>1. list' \in {list, NoList}
        BY <1>3 DEF Opening, Toggle, ToggleKeying, OpenPicker, OpenList, OpenAccessPoint,
           OpenInfo, PlayDemo, wifi
  <2> QED BY <1>0, <2>1
<1>4. CASE Stamp \/ AdjustSetting \/ PlayDigit \/ InPassword \/ InQuestion \/ InPicker
      BY <1>4 DEF Stamp, AdjustSetting, PlayDigit, InPassword, InQuestion, InPicker, wifi
<1>5. CASE InList
      BY <1>5, InListMoves
<1>6. CASE InAccessPoint
      BY <1>0, <1>6 DEF InAccessPoint
<1>7. CASE InInfo \/ InEditor \/ Tail \/ Dismiss
  <2>1. list' \in {list, NoList}
        BY <1>1, <1>7 DEF InInfo, InEditor, Tail, Dismiss
  <2> QED BY <1>0, <2>1
<1>8. CASE EndText \/ PlayRemote \/ WebSetting \/ WebMemory \/ Age \/ Decide
      BY <1>8 DEF EndText, PlayRemote, WebSetting, WebMemory, Age, Decide, wifi
<1>9. CASE WifiPoll
  <2>1. CASE list' = list
        BY <2>1
  <2>2. CASE list.count = 0 /\ \E n \in 1 .. Networks : list' = [list EXCEPT !.count = n]
    <3>1. PICK n \in 1 .. Networks : list' = [list EXCEPT !.count = n]
          BY <2>2
    <3>2. list.cursor = 0 /\ list.top = 0
          BY <2>2 DEF CursorOf
    <3>3. list'.count = n /\ list'.cursor = 0 /\ list'.top = 0
          BY <3>1, <3>2 DEF TypeOK, WifiType, ListType
    <3> QED BY <3>3, Constants DEF CursorOf
  <2> QED BY <1>9, <2>1, <2>2 DEF WifiPoll
<1>10. CASE UNCHANGED vars
      BY <1>10 DEF vars, wifi
<1> QED BY <1>2, <1>3, <1>4, <1>5, <1>6, <1>7, <1>8, <1>9, <1>10
        DEF Next, Loop, Handling, Others

\* However many networks are found, and however many rows are shown, the cursor
\* of the scan list is on a row that is shown, and on a network while there is one.
THEOREM CursorAlwaysShown == Spec => []CursorIsShown
<1>1. Init => CursorOf(list)
      BY DEF Init, CursorOf, NoList
<1>2. TypeOK /\ CursorOf(list) /\ [Next]_vars => CursorOf(list)'
  <2>1. CursorOf(list)' <=> CursorOf(list')
        BY DEF CursorOf
  <2> QED BY <2>1, ListStep
<1>3. TypeOK /\ CursorOf(list) => CursorIsShown
      BY Constants DEF TypeOK, WifiType, ListType, CursorOf, CursorIsShown
<1> QED BY <1>1, <1>2, <1>3, TypeCorrect, PTL DEF Spec

-----------------------------------------------------------------------------
(* Commands.                                                               *)

\* On the screen s the keys carried over are among those that its handler knows.
Known(f, s) ==
  screen = s /\ seen[f].on = s => carried \intersect Watched[s] \subseteq seen[f].keys

\* A key that was down as a form opened is known to it, or, before its first
\* pass, is taken for known; a text field knows the Enter.
CarriedInv ==
  /\ carried \subseteq held
  /\ screen \notin AllForms => carried = {}
  /\ Known("wifi", "list") /\ Known("wifi", "info") /\ Known("memory", "pick")
  /\ screen \in {"password", "ap", "edit"} /\ "enter" \in carried => "enter" \in field.prev

LEMMA NoneCarriedNow ==
  ASSUME carried = {}
  PROVE  CarriedInv
BY DEF CarriedInv, Known

LEMMA NoneCarried ==
  ASSUME carried' = {}
  PROVE  CarriedInv'
BY DEF CarriedInv, Known

\* Another form opens, or the decoder.
LEMMA Leaves ==
  ASSUME TypeOK, NEW f \in {"wifi", "memory"}, NEW s \in AllForms, InForm(f, s), NEW u, Leave(u),
         u # s,
         \/ u = "decoder"
         \/ f = "wifi" /\ u \in {"list", "info", "password"}
         \/ f = "memory" /\ u = "edit",
         u \in {"password", "edit"} => "enter" \in field'.prev
  PROVE  CarriedInv'
<1>1. CASE u = "decoder"
      BY <1>1, NoneCarried DEF Leave
<1>2. CASE u # "decoder"
  <2>1. screen' = u /\ carried' = held /\ held' = held /\ u \in AllForms
        BY <1>2 DEF Leave, InForm, Route, keys, AllForms, WifiScreens, MemoryScreens, Forms
  <2>2. seen'[f].on = s
        BY DEF InForm, TypeOK, FormType
  <2>3. \A g, v : Known(g, v)' \/ (v = u /\ g # f)
        BY <2>1, <2>2 DEF Known
  <2>4. Known("wifi", "list")' /\ Known("wifi", "info")' /\ Known("memory", "pick")'
        BY <1>2, <2>3
  <2>5. u # "ap"
        BY <1>2
  <2> QED BY <2>1, <2>4, <2>5 DEF CarriedInv
<1> QED BY <1>1, <1>2

LEMMA Stays ==
  ASSUME TypeOK, CarriedInv, NEW f \in {"wifi", "memory"}, NEW s \in AllForms, InForm(f, s), Stay,
         s \in {"list", "info"} => f = "wifi", s = "pick" => f = "memory",
         s \in {"password", "ap", "edit"} /\ "enter" \in held => "enter" \in field'.prev
  PROVE  CarriedInv'
<1>1. screen' = s /\ screen = s /\ carried' = carried /\ held' = held /\ carried \subseteq held
      BY DEF Stay, InForm, Route, keys, CarriedInv
<1>2. seen'[f].keys = held \intersect Watched[s]
      BY DEF InForm, TypeOK, FormType
<1>3. \A g, v : Known(g, v)' \/ (v = s /\ g # f)
      BY <1>1, <1>2 DEF Known
<1>4. Known("wifi", "list")' /\ Known("wifi", "info")' /\ Known("memory", "pick")'
      BY <1>3
<1> QED BY <1>1, <1>4 DEF CarriedInv

\* The steps on the way that leave the form as it is.
LEMMA CarriedKept ==
  ASSUME CarriedInv, UNCHANGED <<screen, seen, field>>, carried' \subseteq carried,
         carried' \subseteq held'
  PROVE  CarriedInv'
BY DEF CarriedInv, Known

LEMMA CarriedStep ==
  ASSUME TypeOK, CarriedInv, [Next]_vars
  PROVE  CarriedInv'
<1>1. CASE ConsumedPass
  <2>1. UNCHANGED <<screen, seen, field>> /\ carried' = carried \intersect held'
        BY <1>1 DEF ConsumedPass, Pass, ScanKeys, overlay
  <2> QED BY <2>1, CarriedKept
<1>2. CASE PlainPass
  <2>1. UNCHANGED <<screen, seen, field>> /\ carried' = carried \intersect held'
        BY <1>2 DEF PlainPass, Pass, ScanKeys, overlay
  <2> QED BY <2>1, CarriedKept
<1>3. ASSUME NEW k \in DOMAIN SettingOf, Toggle(k)
      PROVE  CarriedInv'
  <2>1. screen \in ActsOn(k) /\ carried' = carried \intersect held'
        BY <1>3 DEF Toggle, Handles, Pass, ScanKeys
  <2>2. screen \notin AllForms
        BY <2>1 DEF ActsOn, SettingOf, AllForms, WifiScreens, MemoryScreens, Forms
  <2>3. carried' = {}
        BY <2>1, <2>2 DEF CarriedInv
  <2> QED BY <2>3, NoneCarried
<1>4. CASE ToggleKeying
  <2>1. screen \in ActsOn("K") /\ carried' = carried \intersect held'
        BY <1>4 DEF ToggleKeying, Handles, Pass, ScanKeys
  <2>2. screen \notin AllForms
        BY <2>1 DEF ActsOn, SettingOf, AllForms, WifiScreens, MemoryScreens, Forms
  <2>3. carried' = {}
        BY <2>1, <2>2 DEF CarriedInv
  <2> QED BY <2>3, NoneCarried
<1>5. CASE OpenPicker
  <2>1. screen \in ActsOn("M") /\ carried' = carried \intersect held'
        BY <1>5 DEF OpenPicker, Handles, Pass, ScanKeys
  <2>2. screen \notin AllForms
        BY <2>1 DEF ActsOn, SettingOf, AllForms, WifiScreens, MemoryScreens, Forms
  <2>3. carried' = {}
        BY <2>1, <2>2 DEF CarriedInv
  <2> QED BY <2>3, NoneCarried
<1>6. CASE OpenList
  <2>1. screen \in ActsOn("C") /\ carried' = carried \intersect held'
        BY <1>6 DEF OpenList, Handles, Pass, ScanKeys
  <2>2. screen \notin AllForms
        BY <2>1 DEF ActsOn, SettingOf, AllForms, WifiScreens, MemoryScreens, Forms
  <2>3. carried' = {}
        BY <2>1, <2>2 DEF CarriedInv
  <2> QED BY <2>3, NoneCarried
<1>7. CASE OpenAccessPoint
  <2>1. screen \in ActsOn("A") /\ carried' = carried \intersect held'
        BY <1>7 DEF OpenAccessPoint, Handles, Pass, ScanKeys
  <2>2. screen \notin AllForms
        BY <2>1 DEF ActsOn, SettingOf, AllForms, WifiScreens, MemoryScreens, Forms
  <2>3. carried' = {}
        BY <2>1, <2>2 DEF CarriedInv
  <2> QED BY <2>3, NoneCarried
<1>8. CASE OpenInfo
  <2>1. screen \in ActsOn("N") /\ carried' = carried \intersect held'
        BY <1>8 DEF OpenInfo, Handles, Pass, ScanKeys
  <2>2. screen \notin AllForms
        BY <2>1 DEF ActsOn, SettingOf, AllForms, WifiScreens, MemoryScreens, Forms
  <2>3. carried' = {}
        BY <2>1, <2>2 DEF CarriedInv
  <2> QED BY <2>3, NoneCarried
<1>9. CASE PlayDemo
  <2>1. UNCHANGED <<screen, seen, field>> /\ carried' = carried \intersect held'
        BY <1>9 DEF PlayDemo, Pass, ScanKeys, overlay
  <2> QED BY <2>1, CarriedKept
<1>10. CASE Stamp
  <2>1. UNCHANGED <<screen, seen, field, carried, held>>
        BY <1>10 DEF Stamp, Route, keys, overlay, form
  <2> QED BY <2>1, CarriedKept DEF CarriedInv
<1>11. CASE AdjustSetting
  <2>1. UNCHANGED <<screen, seen, field, carried, held>>
        BY <1>11 DEF AdjustSetting, Route, keys, overlay, form
  <2> QED BY <2>1, CarriedKept DEF CarriedInv
<1>12. CASE PlayDigit
  <2>1. UNCHANGED <<screen, seen, field, carried, held>>
        BY <1>12 DEF PlayDigit, Route, keys, overlay, form
  <2> QED BY <2>1, CarriedKept DEF CarriedInv
<1>13. CASE InList
  <2>1. InForm("wifi", "list")
        BY <1>13 DEF InList
  <2>2. "list" \in AllForms
        BY DEF AllForms, WifiScreens, MemoryScreens, Forms
  <2>3. \/ Leave("decoder") \/ Leave("info") \/ Stay
        \/ Leave("password") /\ field' = Primed
        BY <1>13 DEF InList, Primed
  <2>4. "enter" \in Primed.prev
        BY PrimedType
  <2> QED BY <2>1, <2>2, <2>3, <2>4, Leaves, Stays
<1>14. CASE InPassword
  <2>1. InForm("wifi", "password")
        BY <1>14 DEF InPassword
  <2>2. "password" \in AllForms
        BY DEF AllForms, WifiScreens, MemoryScreens, Forms
  <2>3. PICK p \in Keys \union {NoKey} :
          Leave("info") \/ Leave("list") \/ (Stay /\ field' = Edited("wifi", p).field)
        BY <1>14 DEF InPassword
  <2>4. "enter" \in held => "enter" \in Edited("wifi", p).field.prev
        BY EditedType
  <2> QED BY <2>1, <2>2, <2>3, <2>4, Stays, Leaves
<1>15. CASE InAccessPoint
  <2>1. InForm("wifi", "ap")
        BY <1>15 DEF InAccessPoint
  <2>2. "ap" \in AllForms
        BY DEF AllForms, WifiScreens, MemoryScreens, Forms
  <2>3. PICK p \in Keys \union {NoKey} :
          Leave("info") \/ Leave("decoder") \/ (Stay /\ field' = Edited("wifi", p).field)
        BY <1>15 DEF InAccessPoint
  <2>4. "enter" \in held => "enter" \in Edited("wifi", p).field.prev
        BY EditedType
  <2> QED BY <2>1, <2>2, <2>3, <2>4, Stays, Leaves
<1>16. CASE InQuestion
  <2>1. InForm("wifi", "info")
        BY <1>16 DEF InQuestion
  <2>2. "info" \in AllForms
        BY DEF AllForms, WifiScreens, MemoryScreens, Forms
  <2>3. Stay
        BY <1>16 DEF InQuestion
  <2> QED BY <2>1, <2>2, <2>3, Stays
<1>17. CASE InInfo
  <2>1. InForm("wifi", "info")
        BY <1>17 DEF InInfo
  <2>2. "info" \in AllForms
        BY DEF AllForms, WifiScreens, MemoryScreens, Forms
  <2>3. Stay \/ Leave("decoder")
        BY <1>17 DEF InInfo
  <2> QED BY <2>1, <2>2, <2>3, Stays, Leaves
<1>18. CASE InPicker
  <2>1. InForm("memory", "pick")
        BY <1>18 DEF InPicker
  <2>2. "pick" \in AllForms
        BY DEF AllForms, WifiScreens, MemoryScreens, Forms
  <2>3. \/ Leave("decoder") \/ Stay
        \/ Leave("edit") /\ \E n, m, ks : field' = [len |-> n, cursor |-> m,
                                                    prev |-> {"enter"} \union ks]
        BY <1>18 DEF InPicker
  <2>4. (\E n, m, ks : field' = [len |-> n, cursor |-> m, prev |-> {"enter"} \union ks])
           => "enter" \in field'.prev
        OBVIOUS
  <2>5. Leave("decoder") \/ Stay \/ (Leave("edit") /\ "enter" \in field'.prev)
        BY <2>3, <2>4
  <2> QED BY <2>1, <2>2, <2>5, Leaves, Stays
<1>19. CASE InEditor
  <2>1. InForm("memory", "edit")
        BY <1>19 DEF InEditor
  <2>2. "edit" \in AllForms
        BY DEF AllForms, WifiScreens, MemoryScreens, Forms
  <2>3. PICK p \in Keys \union {NoKey} :
          Leave("decoder") \/ (Stay /\ field' = Edited("memory", p).field)
        BY <1>19 DEF InEditor
  <2>4. "enter" \in held => "enter" \in Edited("memory", p).field.prev
        BY EditedType
  <2> QED BY <2>1, <2>2, <2>3, <2>4, Stays, Leaves
<1>20. CASE Tail
  <2>1. CASE screen' = "decoder"
    <3>1. carried' = {}
          BY <1>20, <2>1 DEF Tail
    <3> QED BY <3>1, NoneCarried
  <2>2. CASE ~(screen' = "decoder")
    <3>1. UNCHANGED <<screen, seen, field, carried, held>>
          BY <1>20, <2>2 DEF Tail, Emptied
    <3> QED BY <3>1, CarriedKept DEF CarriedInv
  <2> QED BY <2>1, <2>2
<1>21. CASE EndText
  <2>1. UNCHANGED <<screen, seen, field, carried, held>>
        BY <1>21 DEF EndText, Route, keys, overlay, form
  <2> QED BY <2>1, CarriedKept DEF CarriedInv
<1>22. CASE PlayRemote
  <2>1. UNCHANGED <<screen, seen, field, carried, held>>
        BY <1>22 DEF PlayRemote, Route, keys, overlay, form
  <2> QED BY <2>1, CarriedKept DEF CarriedInv
<1>23. CASE WebSetting
  <2>1. UNCHANGED <<screen, seen, field, carried, held>>
        BY <1>23 DEF WebSetting, Route, keys, overlay, form
  <2> QED BY <2>1, CarriedKept DEF CarriedInv
<1>24. CASE WebMemory
  <2>1. UNCHANGED <<screen, seen, field, carried, held>>
        BY <1>24 DEF WebMemory, Route, keys, overlay, form
  <2> QED BY <2>1, CarriedKept DEF CarriedInv
<1>25. CASE WifiPoll
  <2>1. UNCHANGED <<screen, seen, field, carried, held>>
        BY <1>25 DEF WifiPoll, Route, keys, overlay, form
  <2> QED BY <2>1, CarriedKept DEF CarriedInv
<1>26. CASE Age
  <2>1. UNCHANGED <<screen, seen, field, carried, held>>
        BY <1>26 DEF Age, Route, keys, overlay, form
  <2> QED BY <2>1, CarriedKept DEF CarriedInv
<1>27. CASE Decide
  <2>1. UNCHANGED <<screen, seen, field, carried, held>>
        BY <1>27 DEF Decide, Route, keys, overlay, form
  <2> QED BY <2>1, CarriedKept DEF CarriedInv
<1>28. CASE Dismiss
  <2>1. carried' = {}
        BY <1>28 DEF Dismiss
  <2> QED BY <2>1, NoneCarried
<1>29. CASE UNCHANGED vars
  <2>1. UNCHANGED <<screen, seen, field, carried, held>>
        BY <1>29 DEF vars, Route, keys, overlay, form
  <2> QED BY <2>1, CarriedKept DEF CarriedInv
<1> QED BY <1>1, <1>2, <1>3, <1>4, <1>5, <1>6, <1>7, <1>8, <1>9, <1>10, <1>11, <1>12,
        <1>13, <1>14, <1>15, <1>16, <1>17, <1>18, <1>19, <1>20, <1>21, <1>22, <1>23,
        <1>24, <1>25, <1>26, <1>27, <1>28, <1>29 DEF Next, Loop, Opening, Handling, Others

\* A handler that acts on a key finds it down for the first time.
LEMMA ActsFresh ==
  ASSUME TypeOK, CarriedInv, CommandsAreFresh, Handling
  PROVE  CommandsAreFresh'
<1> USE DEF CommandsAreFresh
<1>1. ASSUME NEW f, NEW s, Known(f, s), InForm(f, s), Acts(Commands(f))
      PROVE  replayed' = {}
  <2>1. screen = s
        BY <1>1 DEF InForm, Route
  <2>2. CASE seen[f].on = s
    <3>1. carried \intersect Watched[s] \subseteq seen[f].keys
          BY <1>1, <2>1, <2>2 DEF Known
    <3>2. Commands(f) = {k \in Watched[s] : k \in held \ seen[f].keys}
          BY <2>1, <2>2 DEF Commands, Fresh, Before
    <3> QED BY <1>1, <3>1, <3>2 DEF Acts
  <2>3. CASE ~(seen[f].on = s)
    <3>1. Commands(f) = {}
          BY <2>1, <2>3 DEF Commands, Fresh, Before
    <3> QED BY <1>1, <3>1 DEF Acts
  <2> QED BY <2>2, <2>3
<1>2. ASSUME NEW f \in {"wifi", "memory"}, NEW p \in Keys \union {NoKey},
             screen \in {"password", "ap", "edit"}, Acts({KeyOf(Edited(f, p).result)})
      PROVE  replayed' \subseteq {"esc"}
  <2> DEFINE r == Edited(f, p).result
  <2>1. CASE r = "ENTER"
    <3>1. "enter" \notin field.prev
          BY <2>1, EditedType
    <3>2. "enter" \notin carried
          BY <1>2, <3>1 DEF CarriedInv
    <3> QED BY <1>2, <2>1, <3>2 DEF Acts, KeyOf
  <2>2. CASE r # "ENTER"
    <3>1. KeyOf(r) \in {"esc", NoKey}
          BY <2>2 DEF KeyOf
    <3>2. NoKey \notin carried
          BY SlotsType DEF TypeOK, FormType, Keys, Printable, Letters, Modifiers, NoKey
    <3> HIDE DEF r
    <3> QED BY <1>2, <3>1, <3>2 DEF Acts, r
  <2> QED BY <2>1, <2>2
<1>3. CASE AdjustSetting \/ PlayDigit
      BY <1>3 DEF AdjustSetting, PlayDigit, form
<1>4. CASE InList \/ InQuestion \/ InInfo \/ InPicker
  <2>1. Known("wifi", "list") /\ Known("wifi", "info") /\ Known("memory", "pick")
        BY DEF CarriedInv
  <2> QED BY <1>1, <1>4, <2>1 DEF InList, InQuestion, InInfo, InPicker
<1>5. CASE InPassword
  <2>1. screen = "password" /\ \E p \in Keys \union {NoKey} : Acts({KeyOf(Edited("wifi", p).result)})
        BY <1>5 DEF InPassword, InForm, Route
  <2> QED BY <1>2, <2>1
<1>6. CASE InAccessPoint
  <2>1. screen = "ap" /\ \E p \in Keys \union {NoKey} : Acts({KeyOf(Edited("wifi", p).result)})
        BY <1>6 DEF InAccessPoint, InForm, Route
  <2> QED BY <1>2, <2>1
<1>7. CASE InEditor
  <2>1. screen = "edit" /\ \E p \in Keys \union {NoKey} : Acts({KeyOf(Edited("memory", p).result)})
        BY <1>7 DEF InEditor, InForm, Route
  <2> QED BY <1>2, <2>1
<1> QED BY <1>3, <1>4, <1>5, <1>6, <1>7 DEF Handling

LEMMA CommandsStep ==
  ASSUME TypeOK, CarriedInv, CommandsAreFresh, [Next]_vars
  PROVE  CommandsAreFresh'
<1>1. CASE Handling
      BY <1>1, ActsFresh
<1>2. CASE ConsumedPass \/ PlainPass \/ Opening \/ Stamp
      BY <1>2 DEF ConsumedPass, PlainPass, Opening, Toggle, ToggleKeying, OpenPicker, OpenList,
         OpenAccessPoint, OpenInfo, PlayDemo, Handles, Pass, ScanKeys, Stamp, form,
         CommandsAreFresh
<1>3. CASE Tail
      BY <1>3 DEF Tail, CommandsAreFresh
<1>4. CASE Others
      BY <1>4 DEF Others, EndText, PlayRemote, WebSetting, WebMemory, WifiPoll, Age, Decide,
         Dismiss, form, CommandsAreFresh
<1>5. CASE UNCHANGED vars
      BY <1>5 DEF vars, form, CommandsAreFresh
<1> QED BY <1>1, <1>2, <1>3, <1>4, <1>5 DEF Next, Loop

\* Whatever keys are held together, a key carried from one form to the next is not
\* acted on, save an Esc.
THEOREM CommandsAlwaysFresh == Spec => []CommandsAreFresh
<1>1. Init => CarriedInv /\ CommandsAreFresh
      BY NoneCarriedNow DEF Init, CommandsAreFresh
<1>2. TypeOK /\ CarriedInv /\ [Next]_vars => CarriedInv'
      BY CarriedStep
<1>3. TypeOK /\ CarriedInv /\ CommandsAreFresh /\ [Next]_vars => CommandsAreFresh'
      BY CommandsStep
<1> QED BY <1>1, <1>2, <1>3, TypeCorrect, PTL DEF Spec

=============================================================================
