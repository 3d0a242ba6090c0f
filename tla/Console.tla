-------------------------------- MODULE Console --------------------------------
(***************************************************************************)
(* The one USB serial line and its mode gate: in Console mode a log write  *)
(* goes to the wire, in WinKey mode into a small ring that is replayed on  *)
(* the way back, and every write is also copied into the LogRing of the    *)
(* debug page.  Two tasks log: loop(), which also answers the WinKeyer     *)
(* host and toggles the mode with the D key, and the audio task on the     *)
(* other core.                                                             *)
(*                                                                         *)
(* What is written is abstracted to who wrote it and how many writes of    *)
(* his came before: a log line is three of these (Log.h:36-40), and nothing *)
(* keeps them together.                                                    *)
(***************************************************************************)
EXTENDS Integers, Sequences

CONSTANTS
  R,     \* kRingSize
  C,     \* the size of ringReplay()'s chunk
  L,     \* LogRing::kCapacity
  Limit  \* bound: the writes of each task

ASSUME ConsoleBounds == {R, C, L, Limit} \subseteq Nat \ {0}

Tasks == {"loop", "audio"}

VARIABLES
  mode,    \* _mode
  ring,    \* _ring, with 0 .. R-1 for its indices
  rhead,   \* _ringHead
  rlen,    \* _ringLen
  tap,     \* LogRing: its _buf, _head and _len
  wire,    \* what has gone out on the line
  said,    \* per task: the number of its writes that have begun
  task,    \* per task: the write under way, with what it loaded from the LogRing
  replay,  \* loop()'s ringReplay(): its step and its chunk
  window,  \* history: what was pushed since WinKey mode was entered
  late,    \* history: pushes since ringReplay() began
  stray,   \* history: log writes on the wire since WinKey mode was entered
  taps,    \* history: what was copied to the LogRing
  raced    \* history: two copies have overlapped

replayRing == <<ring, rhead, rlen>>
conVars == <<mode, replayRing, tap, wire, said, task, replay, window, late, stray, taps, raced>>

\* What goes to the wire beside the log writes.
Protocol == [by |-> "winkey", n |-> 0]
Header == [by |-> "header", n |-> 0]
Trailer == [by |-> "trailer", n |-> 0]

Nothing == [by |-> "none", n |-> 0]
AtRest == [step |-> "rest", item |-> Nothing, head |-> 0, len |-> 0]

ConInit ==
  /\ mode = "WinKey"
  /\ ring = [i \in 0 .. R - 1 |-> Nothing]
  /\ rhead = 0
  /\ rlen = 0
  /\ tap = [buf |-> [i \in 0 .. L - 1 |-> Nothing], head |-> 0, len |-> 0]
  /\ wire = <<>>
  /\ said = [t \in Tasks |-> 0]
  /\ task = [t \in Tasks |-> AtRest]
  /\ replay = [step |-> "none", chunk |-> <<>>]
  /\ window = <<>>
  /\ late = 0
  /\ stray = 0
  /\ taps = <<>>
  /\ raced = FALSE

At(t, s) == task[t].step = s

Goto(t, s) == task' = [task EXCEPT ![t].step = s]

\* What the ring holds, oldest first.
Held == [i \in 1 .. rlen |-> ring[(rhead + i - 1) % R]]

-----------------------------------------------------------------------------
(* Console::write().                                                       *)

\* The mode is read first, outside the lock.
Begin(t) ==
  /\ At(t, "rest") \/ At(t, "owes")
  /\ t = "loop" => replay.step = "none"
  /\ said[t] < Limit
  /\ said' = [said EXCEPT ![t] = @ + 1]
  /\ task' = [task EXCEPT ![t] = [step |-> IF mode = "Console" THEN "send" ELSE "push",
                                  item |-> [by |-> t, n |-> said[t] + 1],
                                  head |-> 0, len |-> 0]]
  /\ UNCHANGED <<mode, replayRing, tap, wire, replay, window, late, stray, taps, raced>>

\* To the wire, whatever the mode has become.
Send(t) ==
  /\ At(t, "send")
  /\ wire' = Append(wire, task[t].item)
  /\ stray' = IF mode = "WinKey" THEN stray + 1 ELSE stray
  /\ Goto(t, "load")
  /\ UNCHANGED <<mode, replayRing, tap, said, replay, window, late, taps, raced>>

\* The histories of a push.
Pushed(t) ==
  /\ window' = Append(window, task[t].item)
  /\ late' = IF replay.step = "none" THEN late ELSE late + 1
  /\ Goto(t, "load")

\* Fault: a full ring spills its oldest write to the wire.
PushSpilling(t) ==
  /\ At(t, "push")
  /\ ring' = [ring EXCEPT ![(rhead + rlen) % R] = task[t].item]
  /\ IF rlen < R
     THEN rlen' = rlen + 1 /\ UNCHANGED <<rhead, wire, stray>>
     ELSE rhead' = (rhead + 1) % R /\ wire' = Append(wire, ring[rhead])
          /\ stray' = stray + 1 /\ UNCHANGED rlen
  /\ Pushed(t)
  /\ UNCHANGED <<mode, tap, said, replay, taps, raced>>

\* Fault: the length is not limited.
PushPast(t) ==
  /\ At(t, "push")
  /\ ring' = [ring EXCEPT ![(rhead + rlen) % R] = task[t].item]
  /\ rlen' = rlen + 1
  /\ Pushed(t)
  /\ UNCHANGED <<mode, rhead, tap, wire, said, replay, stray, taps, raced>>

\* Into the ring, under the lock: a full one drops its oldest write.
RingPush(t) ==
  /\ At(t, "push")
  /\ ring' = [ring EXCEPT ![(rhead + rlen) % R] = task[t].item]
  /\ IF rlen < R
     THEN rlen' = rlen + 1 /\ UNCHANGED rhead
     ELSE rhead' = (rhead + 1) % R /\ UNCHANGED rlen
  /\ Pushed(t)
  /\ UNCHANGED <<mode, tap, wire, said, replay, stray, taps, raced>>

\* LogRing::write(), with no lock: the head and the length are loaded...
TapLoad(t) ==
  /\ At(t, "load")
  /\ task' = [task EXCEPT ![t] = [@ EXCEPT !.step = "store", !.head = tap.head,
                                           !.len = tap.len]]
  /\ taps' = Append(taps, task[t].item)
  /\ raced' = (raced \/ \E u \in Tasks : At(u, "store") \/ At(u, "head") \/ At(u, "len"))
  /\ UNCHANGED <<mode, replayRing, tap, wire, said, replay, window, late, stray>>

TapStore(t) ==
  /\ At(t, "store")
  /\ tap' = [tap EXCEPT !.buf[task[t].head] = task[t].item]
  /\ Goto(t, "head")
  /\ UNCHANGED <<mode, replayRing, wire, said, replay, window, late, stray, taps, raced>>

TapHead(t) ==
  /\ At(t, "head")
  /\ tap' = [tap EXCEPT !.head = (task[t].head + 1) % L]
  /\ Goto(t, "len")
  /\ UNCHANGED <<mode, replayRing, wire, said, replay, window, late, stray, taps, raced>>

\* Fault: the length stays one short of the capacity.
TapLenShort(t) ==
  /\ At(t, "len")
  /\ tap' = IF task[t].len + 1 < L THEN [tap EXCEPT !.len = task[t].len + 1] ELSE tap
  /\ task' = [task EXCEPT ![t] = AtRest]
  /\ UNCHANGED <<mode, replayRing, wire, said, replay, window, late, stray, taps, raced>>

\* ...and the length grows until the ring is full.
TapLen(t) ==
  /\ At(t, "len")
  /\ tap' = IF task[t].len < L THEN [tap EXCEPT !.len = task[t].len + 1] ELSE tap
  /\ task' = [task EXCEPT ![t] = AtRest]
  /\ UNCHANGED <<mode, replayRing, wire, said, replay, window, late, stray, taps, raced>>

Write(t) ==
  Begin(t) \/ Send(t) \/ RingPush(t) \/ TapLoad(t) \/ TapStore(t) \/ TapHead(t) \/ TapLen(t)

-----------------------------------------------------------------------------
(* What else loop() does on the line.                                      *)

\* It is between two writes, and has one left: each of these ends in a log line.
LoopFree == At("loop", "rest") /\ replay.step = "none" /\ said["loop"] < Limit

\* rawWinkeyWrite(): a byte of the protocol, which Winkey::poll() sends in WinKey
\* mode only, and then its trace.
Reply ==
  /\ LoopFree
  /\ mode = "WinKey"
  /\ wire' = Append(wire, Protocol)
  /\ Goto("loop", "owes")
  /\ UNCHANGED <<mode, replayRing, tap, said, replay, window, late, stray, taps, raced>>

\* Fault: the mode flips when the ring has been replayed.
ToConsoleLast ==
  /\ LoopFree
  /\ mode = "WinKey"
  /\ Goto("loop", "owes")
  /\ replay' = [replay EXCEPT !.step = "pending"]
  /\ late' = 0
  /\ UNCHANGED <<mode, replayRing, tap, wire, said, window, stray, taps, raced>>

\* D: to Console mode.  The mode flips before the replay...
ToConsole ==
  /\ LoopFree
  /\ mode = "WinKey"
  /\ mode' = "Console"
  /\ Goto("loop", "owes")
  /\ replay' = [replay EXCEPT !.step = "pending"]
  /\ late' = 0
  /\ UNCHANGED <<replayRing, tap, wire, said, window, stray, taps, raced>>

\* ...which writes a header, unless the ring is empty...
Pending ==
  /\ replay.step = "pending"
  /\ IF rlen = 0
     THEN replay' = [replay EXCEPT !.step = "none"] /\ UNCHANGED wire
     ELSE replay' = [replay EXCEPT !.step = "drain"] /\ wire' = Append(wire, Header)
  /\ UNCHANGED <<mode, replayRing, tap, said, task, window, late, stray, taps, raced>>

\* Fault: the ring is cleared with its first chunk.
DrainAtOnce ==
  LET k == IF rlen < C THEN rlen ELSE C IN
  /\ replay.step = "drain"
  /\ rlen > 0
  /\ replay' = [step |-> "write", chunk |-> SubSeq(Held, 1, k)]
  /\ rhead' = 0
  /\ rlen' = 0
  /\ UNCHANGED <<mode, ring, tap, wire, said, task, window, late, stray, taps, raced>>

\* ...and takes a chunk out of the ring, under the lock...
Drain ==
  LET k == IF rlen < C THEN rlen ELSE C IN
  /\ replay.step = "drain"
  /\ rlen > 0
  /\ replay' = [step |-> "write", chunk |-> SubSeq(Held, 1, k)]
  /\ rhead' = (rhead + k) % R
  /\ rlen' = rlen - k
  /\ UNCHANGED <<mode, ring, tap, wire, said, task, window, late, stray, taps, raced>>

\* ...and writes it with the lock released, until nothing is left.
WriteChunk ==
  /\ replay.step = "write"
  /\ wire' = wire \o replay.chunk
  /\ replay' = [step |-> "drain", chunk |-> <<>>]
  /\ UNCHANGED <<mode, replayRing, tap, said, task, window, late, stray, taps, raced>>

Drained ==
  /\ replay.step = "drain"
  /\ rlen = 0
  /\ wire' = Append(wire, Trailer)
  /\ replay' = [replay EXCEPT !.step = "none"]
  /\ UNCHANGED <<mode, replayRing, tap, said, task, window, late, stray, taps, raced>>

\* Fault: what was left in the ring stays there.
ToWinKeyUncleared ==
  /\ LoopFree
  /\ mode = "Console"
  /\ mode' = "WinKey"
  /\ Goto("loop", "owes")
  /\ window' = <<>>
  /\ stray' = 0
  /\ UNCHANGED <<replayRing, tap, wire, said, replay, late, taps, raced>>

\* D: to WinKey mode, with an empty ring.
ToWinKey ==
  /\ LoopFree
  /\ mode = "Console"
  /\ mode' = "WinKey"
  /\ rhead' = 0
  /\ rlen' = 0
  /\ Goto("loop", "owes")
  /\ window' = <<>>
  /\ stray' = 0
  /\ UNCHANGED <<ring, tap, wire, said, replay, late, taps, raced>>

ConNext ==
  \/ \E t \in Tasks : Write(t)
  \/ Reply \/ ToConsole \/ Pending \/ Drain \/ WriteChunk \/ Drained \/ ToWinKey

ConSpec == ConInit /\ [][ConNext]_conVars

-----------------------------------------------------------------------------
(* Properties.                                                             *)

ConTypeOK ==
  /\ mode \in {"Console", "WinKey"}
  /\ rhead \in 0 .. R - 1 /\ rlen \in 0 .. R
  /\ tap.head \in 0 .. L - 1 /\ tap.len \in 0 .. L
  /\ DOMAIN ring = 0 .. R - 1
  /\ Len(replay.chunk) <= C

\* The last k elements of a sequence, or all of them.
LastOf(s, k) == SubSeq(s, IF Len(s) > k THEN Len(s) - k + 1 ELSE 1, Len(s))

\* "Start the capture window from empty so replay shows only this session"
\* (console_io.cpp:154): in WinKey mode the ring holds the newest writes since that
\* mode was entered, in their order.
RingHoldsSession == mode = "WinKey" => Held = LastOf(window, R)

\* A value is at one place of a sequence, and at one only.
Once(x, s) == \E i \in 1 .. Len(s) : \A j \in 1 .. Len(s) : s[j] = x <=> j = i

\* A replay neither loses a write nor repeats one, although it copies chunk by
\* chunk and the other core may push meanwhile: when it is over, each of the newest
\* writes of the session is once on the wire or still in the ring.
ReplayIsExact ==
  mode = "Console" /\ replay.step = "none" =>
    \A i \in 1 .. Len(LastOf(window, R)) : Once(LastOf(window, R)[i], wire \o Held)

\* A chatty task cannot keep the replay alive (console_io.cpp:142-144): once it has
\* begun, the other task pushes at most the write it had under way.
DrainIsBounded == replay.step # "none" => late <= 1

\* In WinKey mode the bridge is nearly the only writer (console_io.h:13-17): the
\* wire gets at most the write that the other task had under way at the switch.
StraysBounded == mode = "WinKey" => stray <= 1

\* What the debug page reads of the LogRing, oldest first.
Snapshot ==
  [i \in 1 .. tap.len |-> tap.buf[((IF tap.len < L THEN 0 ELSE tap.head) + i - 1) % L]]

\* Between two copies, and unless two have overlapped, the LogRing holds the newest
\* writes in their order, whatever their way to the line was.
TapHoldsTheLast ==
  ~raced /\ (\A t \in Tasks : ~At(t, "store") /\ ~At(t, "head") /\ ~At(t, "len"))
    => Snapshot = LastOf(taps, L)
=============================================================================
