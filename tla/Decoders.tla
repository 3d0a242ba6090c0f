------------------------------- MODULE Decoders -------------------------------
(***************************************************************************)
(* The two decoders and what feeds them: the straight key, sampled by the  *)
(* audio task, whose events loop() times and decodes (StraightKeyer), and  *)
(* the symbols of the iambic keyer, which loop() collects into letters     *)
(* (MorseDecoder).  Both hand over through a ring with no lock.  What they *)
(* append to the text is collected here; TextModel has the appends.        *)
(*                                                                         *)
(* Time is in dits.  A letter is its pattern of marks: the table of        *)
(* MorseEncoder is left out.  A pass of loop() is taken to be shorter than *)
(* the 5 ms of the ramp: the audio task only ends a mark of the straight   *)
(* key, which empties the ring, when loop() has read it, and a mark does   *)
(* not pass between loop()'s look at the ring and its look at the clock.   *)
(***************************************************************************)
EXTENDS Integers, Sequences, FiniteSets

CONSTANTS
  R,        \* RB_SIZE
  Kinds,    \* the keyer types, one of which is chosen at the start
  MaxMarks, \* bound: the marks that are keyed
  Silences  \* the lengths of the silences that are keyed

ASSUME DecoderBounds ==
  R \in Nat \ {0, 1, 2} /\ MaxMarks \in Nat /\ Silences \subseteq Nat
    /\ Kinds \subseteq {"straight", "paddle"}

Dit == "."
Dah == "-"
EndOfChar == "*"
Space == " "

DitDah == {Dit, Dah}

LengthOf == [m \in DitDah |-> IF m = Dit THEN 1 ELSE 3]

VARIABLES
  kind,   \* MorseModel::keyerType()
  st,     \* the audio task: StraightKeyer::_state, and the event it is writing
  now,    \* _totalSamplesRendered
  upAt,   \* the time of the last release
  rb,     \* _rb, with 0 .. R-1 for its indices
  rbHead,
  rbTail,
  lp,     \* loop(): its step, the head and tail it loaded, what it read
  down,   \* _lastDownFrame
  up,     \* _lastUpFrame
  timeout,\* _charTimeoutFrame
  pat,    \* _ditDahBuf, or decodeBuffer
  keyed,  \* history: the symbols that were keyed
  text,   \* history: the letters, as their marks and an EndOfChar, and the spaces
          \* that loop() decoded
  torn    \* history: loop() came between the two stores that empty the ring

key == <<kind, st, now, upAt, keyed>>
events == <<rb, rbHead, rbTail>>
straight == <<down, up, timeout>>
decoded == <<pat, text>>
decVars == <<key, events, lp, straight, decoded, torn>>

DownEvent == [down |-> TRUE, at |-> 0]

DecInit ==
  /\ kind \in Kinds
  /\ st = "ready"
  /\ now = 1
  /\ upAt = 0
  \* KeyEvent::KEY_DOWN is 0, so an event that was never written is a KEY_DOWN.
  /\ rb = [i \in 0 .. R - 1 |-> IF kind = "straight" THEN DownEvent ELSE Dit]
  /\ rbHead = 0
  /\ rbTail = 0
  /\ lp = [pc |-> "poll", head |-> 0, tail |-> 0]
  /\ down = 0
  /\ up = 0
  /\ timeout = 0
  /\ pat = <<>>
  /\ keyed = <<>>
  /\ text = <<>>
  /\ torn = FALSE

\* How many marks are among the first n symbols of s.
MarksAmong(s, n) == Cardinality({i \in 1 .. n : s[i] \in DitDah})

MarksOf(s) == MarksAmong(s, Len(s))

Keys(s) == keyed' = keyed \o s

\* The data of an event or symbol is written, and its head is not yet moved.
WriteData(x) == rb' = [rb EXCEPT ![rbHead] = x] /\ UNCHANGED <<rbHead, rbTail>>

\* Fault: the head does not wrap round.
MoveRbHeadPast == rbHead' = rbHead + 1 /\ UNCHANGED <<rb, rbTail>>

MoveRbHead == rbHead' = (rbHead + 1) % R /\ UNCHANGED <<rb, rbTail>>

-----------------------------------------------------------------------------
(* The straight key, on the audio task.                                    *)

\* The symbols of a silence, as the operator means it.
SilenceOf(g) == IF g > 5 THEN <<EndOfChar, Space>> ELSE IF g > 2 THEN <<EndOfChar>> ELSE <<>>

Sampling(s, t) == kind = "straight" /\ st = s /\ st' = t

KeyDown ==
  /\ Sampling("ready", "down")
  /\ MarksOf(keyed) < MaxMarks
  /\ WriteData([down |-> TRUE, at |-> now])
  /\ Keys(IF upAt = 0 THEN <<>> ELSE SilenceOf(now - upAt))
  /\ UNCHANGED <<kind, now, upAt, lp, straight, decoded, torn>>

KeyUp ==
  /\ Sampling("hold", "up")
  /\ lp.pc # "time"
  /\ \E m \in DitDah :
       /\ now' = now + LengthOf[m]
       /\ WriteData([down |-> FALSE, at |-> now'])
       /\ Keys(<<m>>)
  /\ upAt' = now'
  /\ UNCHANGED <<kind, lp, straight, decoded, torn>>

Publish ==
  /\ Sampling("down", "hold") \/ Sampling("up", "fall")
  /\ MoveRbHead
  /\ UNCHANGED <<kind, now, upAt, keyed, lp, straight, decoded, torn>>

Drained == rbHead = rbTail /\ lp.pc \in {"poll", "time"}

\* The end of the ramp: the ring is emptied by two stores.
EndFall ==
  /\ Sampling("fall", "zero")
  /\ Drained
  /\ rbHead' = 0
  /\ UNCHANGED <<kind, now, upAt, keyed, rb, rbTail, lp, straight, decoded, torn>>

EndReset ==
  /\ Sampling("zero", "idle")
  /\ rbTail' = 0
  /\ UNCHANGED <<kind, now, upAt, keyed, rb, rbHead, lp, straight, decoded, torn>>

KeySilence ==
  /\ Sampling("idle", "ready")
  /\ \E g \in Silences : now' = now + g
  /\ UNCHANGED <<kind, upAt, keyed, events, lp, straight, decoded, torn>>

-----------------------------------------------------------------------------
(* The symbols of the iambic keyer, on the audio task.                     *)

\* A mark, the end of a letter after a mark, or a space after that; the ring is
\* never full, for it holds 256 symbols.
WriteSymbol ==
  /\ kind = "paddle" /\ st = "ready" /\ st' = "symbol"
  /\ (rbHead + 1) % R # rbTail
  /\ \E s \in DitDah \union {EndOfChar, Space} :
       /\ s \in DitDah => MarksOf(keyed) < MaxMarks
       /\ s = EndOfChar => keyed # <<>> /\ keyed[Len(keyed)] \in DitDah
       /\ s = Space => keyed # <<>> /\ keyed[Len(keyed)] = EndOfChar
       /\ WriteData(s)
       /\ Keys(<<s>>)
  /\ UNCHANGED <<kind, now, upAt, lp, straight, decoded, torn>>

PublishSymbol ==
  /\ kind = "paddle" /\ st = "symbol" /\ st' = "ready"
  /\ MoveRbHead
  /\ UNCHANGED <<kind, now, upAt, keyed, lp, straight, decoded, torn>>

-----------------------------------------------------------------------------
(* loop(): decodeFromLoop(), or MorseDecoder.                              *)

Looping(s) ==
  /\ lp.pc = s
  /\ UNCHANGED key

\* decoderRead(): the indices, then the event, then the tail.
Poll ==
  /\ Looping("poll")
  /\ lp' = [pc |-> IF rbHead # rbTail THEN "read"
                   ELSE IF kind = "straight" THEN "time" ELSE "poll",
            head |-> rbHead, tail |-> rbTail]
  /\ torn' = (torn \/ (st = "zero" /\ rbHead # rbTail))
  /\ UNCHANGED <<events, straight, decoded>>

Emit(symbols) == text' = text \o symbols

\* flushDitDahBuffer() and MorseDecoder::flush(): the letter collected so far.
Letter == IF pat = <<>> THEN <<>> ELSE Append(pat, EndOfChar)

\* KEY_DOWN: the silence before it ends a letter, or also a word.
TakeDown(e) ==
  LET gap == IF up > 0 THEN e.at - up ELSE 0
  IN /\ IF gap > 2 THEN Emit(IF gap > 5 THEN Letter \o <<Space>> ELSE Letter)
        ELSE UNCHANGED text
     /\ pat' = IF gap > 2 THEN <<>> ELSE pat
     /\ timeout' = IF gap > 2 /\ pat # <<>> THEN 0 ELSE timeout
     /\ down' = e.at
     /\ up' = 0

\* Fault: the threshold between dit and dah is three dits.
MarkLate(length) == IF length < 4 THEN Dit ELSE Dah

MarkFor(length) == IF 2 * length < 3 THEN Dit ELSE Dah

\* KEY_UP: a dit or a dah, if its beginning is known.
TakeUp(e) ==
  /\ IF down > 0
     THEN /\ pat' = Append(pat, MarkFor(e.at - down))
          /\ up' = e.at
          /\ timeout' = e.at + 5
     ELSE UNCHANGED <<pat, up, timeout>>
  /\ UNCHANGED <<text, down>>

\* accumulate(): a mark is collected, all else ends the letter.
TakeSymbol(s) ==
  /\ IF s \in DitDah THEN pat' = Append(pat, s) /\ UNCHANGED text
     ELSE pat' = <<>> /\ Emit(IF s = Space THEN Letter \o <<Space>> ELSE Letter)
  /\ UNCHANGED straight

\* The tail moves on, past the event that was read, and the event is handled.
Read ==
  /\ Looping("read")
  /\ rbTail' = (lp.tail + 1) % R
  /\ lp' = [lp EXCEPT !.pc = "poll"]
  /\ LET e == rb[lp.tail] IN
       IF kind = "paddle" THEN TakeSymbol(e) ELSE IF e.down THEN TakeDown(e) ELSE TakeUp(e)
  /\ UNCHANGED <<rb, rbHead, torn>>

\* Fault: a key that is down does not hold the timeout up.
Expired == timeout > 0 /\ now >= timeout

\* Five dits of silence end the letter, unless the key is down again.
TimedOut == timeout > 0 /\ now >= timeout /\ ~(down > 0 /\ up = 0)

Timeout ==
  /\ Looping("time")
  /\ lp' = [lp EXCEPT !.pc = "poll"]
  /\ IF TimedOut THEN Emit(Letter) /\ pat' = <<>> /\ timeout' = 0
     ELSE UNCHANGED <<decoded, timeout>>
  /\ UNCHANGED <<events, down, up, torn>>

-----------------------------------------------------------------------------

Keying ==
  KeyDown \/ KeyUp \/ Publish \/ EndFall \/ EndReset \/ KeySilence \/ WriteSymbol \/ PublishSymbol

Decoding == Poll \/ Read \/ Timeout

DecNext == Keying \/ Decoding

DecSpec == DecInit /\ [][DecNext]_decVars

-----------------------------------------------------------------------------
(* Properties.                                                             *)

\* Every variable has its type.
DecTypeOK ==
  /\ rbHead \in 0 .. R - 1 /\ rbTail \in 0 .. R - 1
  /\ pat \in Seq(DitDah)
  /\ now \in Nat /\ down \in 0 .. now /\ up \in 0 .. now

\* What loop() has decoded, with the letter it has not yet ended.
Decoded == text \o pat

\* The k-th mark of s is the k-th mark of t, wherever both have one.
MarksAgree(s, t) ==
  \A i \in 1 .. Len(s), j \in 1 .. Len(t) :
    s[i] \in DitDah /\ t[j] \in DitDah /\ MarksAmong(s, i) = MarksAmong(t, j) => s[i] = t[j]

\* No mark is lost, doubled or taken for the other between the key and the
\* decoder, also when loop() comes between the stores that empty the ring of the
\* straight key and reads events that were never written (straight_keyer.cpp:198).
MarksSurvive ==
  /\ MarksAgree(Decoded, keyed)
  /\ MarksOf(Decoded) <= MarksOf(keyed)
  /\ st = "ready" /\ Drained => MarksOf(Decoded) = MarksOf(keyed)

Begins(s, t) == Len(s) <= Len(t) /\ \A i \in 1 .. Len(s) : s[i] = t[i]

\* The letters and spaces are those that were keyed, or five dits of silence have
\* ended the last letter, unless loop() came between those stores: then a silence is
\* not recognised, and two letters run together.
LettersAsKeyed ==
  ~torn =>
    \/ Begins(Decoded, keyed)
    \/ Decoded = Append(keyed, EndOfChar) /\ keyed # <<>> /\ keyed[Len(keyed)] \in DitDah
=============================================================================
