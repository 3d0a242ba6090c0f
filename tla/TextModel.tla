------------------------------- MODULE TextModel -------------------------------
(***************************************************************************)
(* The decoded text, from the tasks that write it to the panel: the ring   *)
(* of MorseModel, which loop() (the decoders) and the audio task (the      *)
(* player) append to with no lock, its change counter, and the display     *)
(* task that renders it, blanks the panel and wakes it again.              *)
(*                                                                         *)
(* Every load and store that another core can come between is a step.  The *)
(* writers append at any time, and the characters are told apart by their  *)
(* number; clearDecodedText() has no caller and is left out.               *)
(***************************************************************************)
EXTENDS Integers, Sequences

CONSTANTS
  N,       \* TEXT_BUF_SIZE
  Window,  \* maxChars: the characters that fit on the panel
  Limit,   \* bound: the characters all tasks append
  Changes  \* bound: the value of the change counter from which on the idle time
           \* no longer runs out and no key is pressed

ASSUME TextBounds == {N, Window, Limit, Changes} \subseteq Nat \ {0} /\ Window < N

Writers == {"loop", "audio"}

VARIABLES
  buf,     \* _textBuf, with 0 .. N-1 for its indices
  head,    \* _textHead
  tail,    \* _textTail
  len,     \* _textLen
  counter, \* _changeCounter
  app,     \* per task: the append under way, with the head and the length it loaded
  said,    \* history: the number of characters whose append has begun
  raced,   \* history: two appends have overlapped
  active,  \* _displayActive
  idle,    \* DISPLAY_TIMEOUT_MS have gone by since lastActivity()
  wake,    \* s_wakeRequested
  owed,    \* history: a key press was the last that restarted the idle time
  disp,    \* the display task's step, and its locals
  panel,   \* the panel is lit
  shown    \* what it shows

ring == <<buf, head, tail, len>>
writing == <<app, said, raced>>
saver == <<active, idle, wake, owed>>
display == <<disp, panel, shown>>
vars == <<ring, counter, writing, saver, display>>

Init ==
  /\ buf = [i \in 0 .. N - 1 |-> 0]
  /\ head = 0
  /\ tail = 0
  /\ len = 0
  /\ counter = 0
  /\ app = [w \in Writers |-> [step |-> "rest", head |-> 0, len |-> 0]]
  /\ said = 0
  /\ raced = FALSE
  /\ active = TRUE
  /\ idle = FALSE
  /\ wake = FALSE
  /\ owed = FALSE
  /\ disp = [step |-> "top", cur |-> 0, last |-> 0, on |-> FALSE, was |-> TRUE,
             head |-> 0, len |-> 0, touched |-> FALSE]
  /\ panel = TRUE
  /\ shown = <<>>

-----------------------------------------------------------------------------
(* appendDecodedChar().                                                    *)

At(w, s) == app[w].step = s

Goto(w, s) == app' = [app EXCEPT ![w].step = s]

\* The character goes where the head points.
Append1(w) ==
  /\ At(w, "rest")
  /\ said < Limit
  /\ buf' = [buf EXCEPT ![head] = said + 1]
  /\ app' = [app EXCEPT ![w] = [step |-> "head", head |-> head, len |-> 0]]
  /\ said' = said + 1
  /\ raced' = (raced \/ \E v \in Writers : ~At(v, "rest"))
  /\ UNCHANGED <<head, tail, len, counter, saver, display>>

\* Fault: the head moves on by two.
MoveHeadTwice(w) ==
  /\ At(w, "head")
  /\ head' = (head + 2) % N
  /\ Goto(w, "len")
  /\ UNCHANGED <<buf, tail, len, counter, said, raced, saver, display>>

MoveHead(w) ==
  /\ At(w, "head")
  /\ head' = (app[w].head + 1) % N
  /\ app' = [app EXCEPT ![w] = [@ EXCEPT !.step = "len", !.head = 0]]
  /\ UNCHANGED <<buf, tail, len, counter, said, raced, saver, display>>

LoadLen(w) ==
  /\ At(w, "len")
  /\ app' = [app EXCEPT ![w] = [@ EXCEPT !.step = "count", !.len = len]]
  /\ UNCHANGED <<ring, counter, said, raced, saver, display>>

\* The ring grows, or, when it is full, its oldest character drops out.
Count(w) ==
  /\ At(w, "count")
  /\ IF app[w].len < N
     THEN len' = app[w].len + 1 /\ UNCHANGED tail
     ELSE tail' = (tail + 1) % N /\ UNCHANGED len
  /\ Goto(w, "notify")
  /\ UNCHANGED <<buf, head, counter, said, raced, saver, display>>

Notify(w) ==
  /\ At(w, "notify")
  /\ counter' = counter + 1
  /\ app' = [app EXCEPT ![w] = [@ EXCEPT !.step = "rest", !.len = 0]]
  /\ UNCHANGED <<ring, said, raced, saver, display>>

Write(w) == Append1(w) \/ MoveHead(w) \/ LoadLen(w) \/ Count(w) \/ Notify(w)

-----------------------------------------------------------------------------
(* The display task.                                                       *)

Disp(s, t) == disp.step = s /\ disp' = [disp EXCEPT !.step = t]

\* A pass begins: it looks whether the display is active, then at the counter,
\* and then at the clock.
Look ==
  /\ disp.step = "top"
  /\ disp' = [disp EXCEPT !.step = "saver", !.on = active, !.cur = counter,
                          !.touched = FALSE]
  /\ UNCHANGED <<ring, counter, writing, saver, panel, shown>>

\* Fault: a wake request that comes while the display goes dark is dropped.
BlankForgetful ==
  /\ disp.step = "saver"
  /\ disp.on
  /\ idle \/ disp.touched
  /\ disp' = [disp EXCEPT !.step = "power", !.on = FALSE]
  /\ active' = FALSE
  /\ wake' = FALSE
  /\ counter' = counter + 1
  /\ UNCHANGED <<ring, writing, idle, owed, panel, shown>>

\* The screen-saver, also when lastActivity() is younger than the clock that was
\* read before it: the difference is then below zero, and huge.
Blank ==
  /\ disp.step = "saver"
  /\ disp.on
  /\ idle \/ disp.touched
  /\ disp' = [disp EXCEPT !.step = "power", !.on = FALSE]
  /\ active' = FALSE
  /\ counter' = counter + 1
  /\ UNCHANGED <<ring, writing, idle, wake, owed, panel, shown>>

\* The display is dark, or has not been idle for long.
DontBlank ==
  /\ Disp("saver", "power")
  /\ ~(disp.on /\ idle)
  /\ UNCHANGED <<ring, counter, writing, saver, panel, shown>>

\* powerOn() and powerOff(), which also clears the panel, on a change only.
Power ==
  /\ Disp("power", "wake")
  /\ IF disp.on = disp.was THEN UNCHANGED <<panel, shown>>
     ELSE panel' = disp.on /\ shown' = IF disp.on THEN shown ELSE <<>>
  /\ UNCHANGED <<ring, counter, writing, saver>>

\* A wake request is taken...
TakeWake ==
  /\ Disp("wake", "woken")
  /\ wake
  /\ wake' = FALSE
  /\ UNCHANGED <<ring, counter, writing, active, idle, owed, panel, shown>>

\* ...and touches the model and activates the display, for the next pass.
Woken ==
  /\ disp.step = "woken"
  /\ disp' = [disp EXCEPT !.step = "render", !.was = disp.on]
  /\ idle' = FALSE
  /\ active' = TRUE
  /\ counter' = IF active THEN counter ELSE counter + 1
  /\ UNCHANGED <<ring, writing, wake, owed, panel, shown>>

NoWake ==
  /\ disp.step = "wake"
  /\ ~wake
  /\ disp' = [disp EXCEPT !.step = "render", !.was = disp.on]
  /\ UNCHANGED <<ring, counter, writing, saver, panel, shown>>

\* Nothing to render: the display is dark, or nothing has changed.
Skip ==
  /\ disp.step = "render"
  /\ disp' = [disp EXCEPT !.step = "top", !.cur = 0, !.on = FALSE]
  /\ ~disp.on \/ disp.cur = disp.last
  /\ UNCHANGED <<ring, counter, writing, saver, panel, shown>>

\* The render begins: renderScrollingText() loads the head...
Render ==
  /\ disp.step = "render"
  /\ disp.on /\ disp.cur # disp.last
  /\ disp' = [disp EXCEPT !.step = "load", !.last = disp.cur, !.cur = 0,
                          !.head = head]
  /\ UNCHANGED <<ring, counter, writing, saver, panel, shown>>

\* ...and the length, and prints the first character it finds...
Load ==
  /\ disp.step = "load"
  /\ disp' = [disp EXCEPT !.step = "show", !.len = len]
  /\ shown' = <<>>
  /\ UNCHANGED <<ring, counter, writing, saver, panel>>

\* The index of the i-th character that is shown.
IndexOf(i) ==
  IF disp.len <= Window THEN i ELSE (disp.head + N - Window + i) % N

\* Fault: the counter up to which the panel is drawn is read at the end.
ShowUpToNow ==
  /\ disp.step = "show"
  /\ IF Len(shown) < Window /\ Len(shown) < disp.len
     THEN shown' = Append(shown, buf[IndexOf(Len(shown))]) /\ UNCHANGED disp
     ELSE disp' = [disp EXCEPT !.step = "top", !.head = 0, !.len = 0, !.last = counter,
                               !.on = FALSE] /\ UNCHANGED shown
  /\ UNCHANGED <<ring, counter, writing, saver, panel>>

\* ...and, one by one, the others.
Show ==
  /\ disp.step = "show"
  /\ IF Len(shown) < Window /\ Len(shown) < disp.len
     THEN shown' = Append(shown, buf[IndexOf(Len(shown))]) /\ UNCHANGED disp
     ELSE disp' = [disp EXCEPT !.step = "top", !.head = 0, !.len = 0, !.cur = 0, !.on = FALSE] /\ UNCHANGED shown
  /\ UNCHANGED <<ring, counter, writing, saver, panel>>

Display ==
  Look \/ Blank \/ DontBlank \/ Power \/ TakeWake \/ Woken \/ NoWake \/ Skip \/ Render
    \/ Load \/ Show

-----------------------------------------------------------------------------
(* The keys and the clock.                                                 *)

\* A key or a paddle: wakeFromScreensaver(), and touch().
Press ==
  /\ counter < Changes
  /\ wake' = TRUE
  /\ idle' = FALSE
  /\ owed' = TRUE
  /\ disp' = [disp EXCEPT !.touched = disp.step = "saver"]
  /\ UNCHANGED <<ring, counter, writing, active, panel, shown>>

\* requestRender(): the idle time begins anew, and the counter moves.
Request ==
  /\ idle
  /\ idle' = FALSE
  /\ owed' = FALSE
  /\ counter' = counter + 1
  /\ disp' = [disp EXCEPT !.touched = disp.step = "saver"]
  /\ UNCHANGED <<ring, writing, active, wake, panel, shown>>

Idle ==
  /\ ~idle
  /\ counter < Changes
  /\ idle' = TRUE
  /\ owed' = FALSE
  /\ UNCHANGED <<ring, counter, writing, active, wake, display>>

Next ==
  \/ \E w \in Writers : Write(w)
  \/ Display
  \/ Press \/ Request \/ Idle

Spec == Init /\ [][Next]_vars

-----------------------------------------------------------------------------
(* Properties.                                                             *)

Stages == {"rest", "head", "len", "count", "notify"}

Places == {"top", "saver", "power", "wake", "woken", "render", "load", "show"}

RingType ==
  /\ buf \in [0 .. N - 1 -> 0 .. Limit]
  /\ head \in 0 .. N - 1 /\ tail \in 0 .. N - 1 /\ len \in 0 .. N
  /\ counter \in Nat

WritersType ==
  /\ app \in [Writers -> [step : Stages, head : 0 .. N - 1, len : 0 .. N]]
  /\ said \in 0 .. Limit /\ raced \in BOOLEAN

SaverType ==
  active \in BOOLEAN /\ idle \in BOOLEAN /\ wake \in BOOLEAN /\ owed \in BOOLEAN

DisplayType ==
  /\ disp \in [step : Places, cur : Nat, last : Nat, on : BOOLEAN, was : BOOLEAN,
               head : 0 .. N - 1, len : 0 .. N, touched : BOOLEAN]
  /\ panel \in BOOLEAN
  /\ shown \in Seq(0 .. Limit) /\ Len(shown) <= Window

\* The types of all variables; no index leaves the ring, nor the text the panel.
TypeOK == RingType /\ WritersType /\ SaverType /\ DisplayType

AtRest == \A w \in Writers : At(w, "rest")

Least(a, b) == IF a < b THEN a ELSE b

\* The last characters of the ring, as many as fit on the panel.
Latest == [i \in 1 .. Least(Window, len) |-> buf[(head + N - Least(Window, len) + i - 1) % N]]

\* Unless two appends have overlapped, the ring holds the last characters that
\* were said, in their order, between its tail and its head.
RingHoldsTheLast ==
  AtRest /\ ~raced =>
    /\ len = Least(N, said)
    /\ (tail + len) % N = head
    /\ \A i \in 1 .. len : buf[(tail + i - 1) % N] = said - len + i

\* No change is lost between the writers and the panel: a display task that has
\* nothing left to render shows the end of the text, whatever appends came while
\* it rendered (display_task.cpp:107-115), unless two have overlapped: then the
\* length is that of one, and the first characters are shown for the last.
NothingLeftUnshown ==
  AtRest /\ ~raced /\ disp.step = "top" /\ active /\ panel /\ disp.last = counter
    => shown = Latest

\* The display task draws only on a panel that is lit.
DrawsOnlyWhenLit == disp.step \in {"load", "show"} => panel

\* A key press lights the display, also one that comes just as it goes dark: once
\* the wake request is taken, the display stays active until the idle time is over.
PressLights == disp.step = "top" /\ owed /\ ~wake => active
=============================================================================
