---------------------------- MODULE WinkeyBridge ----------------------------
(***************************************************************************)
(* The WinKeyer protocol bridge and its device side, Winkey.  Everything   *)
(* here runs in loop(): the keyboard and the web page first, then the      *)
(* bytes the host's serial line has buffered, then poll() and the speed    *)
(* synchronisation.  Only the player ends on its own, on the audio task.   *)
(*                                                                         *)
(* Bytes are numbers.  Sidetone, weighting and the other settings that are *)
(* stored and never read back keep their length in the byte stream and     *)
(* have no other effect; the ring of WinkeyBuffer is a sequence.           *)
(***************************************************************************)
EXTENDS Integers, Sequences

CONSTANTS
  HostBytes,     \* the bytes the host may send, by the state of the parser
  Memories,      \* the texts of the memory keyer
  Unkeyable,     \* the text bytes with no Morse code
  LocalSpeeds,   \* the speeds the operator may choose
  Capacity       \* WinkeyBuffer::kCapacity

Byte == 0 .. 255

Parses == {"idle", "admin", "params"}

IsText(b) == b >= 32

ASSUME HostBytesType == HostBytes \in [Parses -> SUBSET Byte]
ASSUME MemoriesType ==
  \A m \in Memories : m \in Seq(Byte) /\ m # <<>> /\ \A i \in DOMAIN m : IsText(m[i])
ASSUME UnkeyableType == Unkeyable \subseteq Byte
ASSUME LocalSpeedsType == LocalSpeeds \subseteq 5 .. 50
ASSUME CapacityType == Capacity \in Nat \ {0}

VARIABLES
  turn,          \* whose bytes loop() is at: "keys", "host" or "memory"
  local,         \* what is left of the memory text to feed
  parse, cmd, left, param,       \* _parse, _pendingCmd, params missing, _params[0]
  open, primed,                  \* _open, _primed
  wpm, pushed, potLow,           \* _wpm, _lastPushedWpm, _potWpmLow
  buf,                           \* _buffer
  continuation, wasBusy, sawEnd, hadText,
                                 \* _isContinuation, _prevConsumerBusy,
                                 \* _sawAudioEndEdge, _prevBufferNonEmpty
  playing,       \* MorseGenerator::isPlaying()
  keyed,         \* the text of the last sendText(), while it plays
  speed,         \* MorseModel::wpm()
  changed,       \* MorseModel::changeCounter() moved since the last sync
  keying,        \* MorseModel::radioKeyingEnabled()
  joined,        \* the last sendText(): isContinuation
  heard,         \* history: the speed the host holds for ours, 0 for none
  past           \* history: what the polls found since the last sendText()

loopAt == <<turn, local>>
frame == <<parse, cmd, left, param>>
session == <<open, primed>>
rate == <<wpm, pushed, potLow>>
join == <<continuation, wasBusy, sawEnd, hadText>>
joining == <<join, joined, past>>
player == <<playing, keyed>>
text == <<buf, player, joining>>
tempo == <<rate, speed, heard>>
vars == <<loopAt, frame, session, tempo, text, changed, keying>>

Clamp(v, lo, hi) == IF v < lo THEN lo ELSE IF v > hi THEN hi ELSE v

Init ==
  /\ turn = "keys" /\ local = <<>>
  /\ parse = "idle" /\ cmd = 0 /\ left = 0 /\ param = 0
  /\ open = FALSE /\ primed = FALSE
  /\ wpm = 20 /\ pushed = -1 /\ potLow = 5
  /\ buf = <<>>
  /\ continuation = FALSE /\ wasBusy = FALSE /\ sawEnd = FALSE /\ hadText = FALSE
  /\ playing = FALSE /\ keyed = <<>>
  /\ speed \in LocalSpeeds
  /\ changed = TRUE
  /\ keying \in BOOLEAN
  /\ joined = FALSE
  /\ heard = 0
  /\ past = "none"

-----------------------------------------------------------------------------
(* The commands of a host that has the interface open.                     *)

WK_SIDETONE == 1
WK_SPEED == 2
WK_PTT_TIMES == 4
WK_SET_POT == 5
WK_GET_POT == 7
WK_BACKSPACE == 8
WK_CLEAR_BUF == 10
WK_KEY_IMMED == 11
WK_LOAD_DEFAULTS == 15
WK_REQ_STATUS == 21

Immediate == {WK_GET_POT, WK_BACKSPACE, WK_CLEAR_BUF, 19, WK_REQ_STATUS, 27, 30, 31}

paramCountFor(c) ==
  CASE c = WK_PTT_TIMES -> 2
    [] c = WK_SET_POT -> 3
    [] c = WK_LOAD_DEFAULTS -> 15
    [] c \in Immediate -> 0
    [] OTHER -> 1

\* What a host makes of the speed-pot byte: a speed below the pot's range
\* cannot be told.
SpeedPot == IF wpm < potLow THEN 0 ELSE wpm

\* A speed outside the protocol's 5..99 leaves the host with none it can trust.
SetSpeed(p) ==
  /\ IF p = 0
       THEN UNCHANGED <<tempo, changed>>
       ELSE /\ wpm' = Clamp(p, 5, 99)
            /\ pushed' = wpm'
            /\ speed' = Clamp(wpm', 5, 50)
            /\ changed' = TRUE
            /\ heard' = IF p \in 5 .. 99 THEN p ELSE 0
            /\ UNCHANGED potLow
  /\ UNCHANGED <<session, text, keying>>

\* setFrequency() moves the change counter.
SetSidetone ==
  /\ changed' = TRUE
  /\ UNCHANGED <<session, tempo, text, keying>>

SetPot(p) ==
  /\ potLow' = Clamp(p, 5, 99)
  /\ UNCHANGED <<session, wpm, pushed, speed, heard, text, changed, keying>>

GetPot ==
  /\ heard' = SpeedPot
  /\ primed' = TRUE
  /\ UNCHANGED <<open, rate, speed, text, changed, keying>>

RequestStatus ==
  /\ primed' = TRUE
  /\ UNCHANGED <<open, tempo, text, changed, keying>>

Backspace ==
  /\ buf' = IF buf = <<>> THEN buf ELSE SubSeq(buf, 1, Len(buf) - 1)
  /\ UNCHANGED <<session, tempo, player, joining, changed, keying>>

ClearBuffer ==
  /\ buf' = <<>>
  /\ continuation' = FALSE
  /\ playing' = FALSE /\ keyed' = <<>>
  /\ past' = IF past = "waited" THEN "none" ELSE past
  /\ UNCHANGED <<session, tempo, wasBusy, sawEnd, hadText, joined, changed, keying>>

\* setRadioKeyingEnabled(): a change moves the change counter.
KeyImmediate(p) ==
  /\ keying' = (p # 0)
  /\ changed' = (changed \/ keying' # keying)
  /\ UNCHANGED <<session, tempo, text>>

\* Stored and not read back, or not implemented.
Ignored ==
  UNCHANGED <<session, tempo, text, changed, keying>>

applyCommand(c, p) ==
  \/ c = WK_SPEED /\ SetSpeed(p)
  \/ c = WK_SIDETONE /\ SetSidetone
  \/ c = WK_SET_POT /\ SetPot(p)
  \/ c = WK_GET_POT /\ GetPot
  \/ c = WK_REQ_STATUS /\ RequestStatus
  \/ c = WK_BACKSPACE /\ Backspace
  \/ c = WK_CLEAR_BUF /\ ClearBuffer
  \/ c = WK_KEY_IMMED /\ KeyImmediate(p)
  \/ /\ c \notin {WK_SPEED, WK_SIDETONE, WK_SET_POT, WK_GET_POT, WK_REQ_STATUS,
                  WK_BACKSPACE, WK_CLEAR_BUF, WK_KEY_IMMED}
     /\ Ignored

-----------------------------------------------------------------------------
(* The administrative commands.                                            *)

HostOpen ==
  /\ open' = TRUE
  /\ heard' = 0
  /\ UNCHANGED <<primed, rate, speed, text, changed, keying>>

HostClose ==
  /\ open' = FALSE
  /\ UNCHANGED <<primed, tempo, text, changed, keying>>

\* resetParams(): the interface stays open and the player goes on.
Reset ==
  /\ wpm' = 20 /\ pushed' = -1 /\ potLow' = 5
  /\ buf' = <<>>
  /\ primed' = FALSE
  /\ continuation' = FALSE /\ wasBusy' = FALSE /\ sawEnd' = FALSE /\ hadText' = FALSE
  /\ past' = "none"
  /\ UNCHANGED <<open, speed, heard, player, joined, changed, keying>>

GetValues ==
  /\ heard' = IF open THEN wpm ELSE heard
  /\ UNCHANGED <<session, rate, speed, text, changed, keying>>

handleAdmin(sub) ==
  \/ sub = 1 /\ Reset
  \/ sub = 2 /\ HostOpen
  \/ sub = 3 /\ HostClose
  \/ sub = 7 /\ GetValues
  \/ sub \notin {1, 2, 3, 7} /\ Ignored

-----------------------------------------------------------------------------
(* feed(): the parser.                                                     *)

Upper(b) == IF b \in 97 .. 122 THEN b - 32 ELSE b

\* WinkeyBuffer::push(): a full buffer drops the character.
Push(b) ==
  buf' = IF Len(buf) < Capacity THEN Append(buf, Upper(b)) ELSE buf

AdminByte(b) ==
  /\ parse = "admin"
  /\ parse' = "idle"
  /\ handleAdmin(b)
  /\ UNCHANGED <<cmd, left, param>>

\* Only the first parameter of a command has an effect.
ParamByte(b) ==
  /\ parse = "params" /\ left > 1
  /\ left' = left - 1
  /\ param' = IF left = paramCountFor(cmd) THEN b ELSE param
  /\ UNCHANGED <<parse, cmd, session, tempo, text, changed, keying>>

LastParamByte(b) ==
  /\ parse = "params" /\ left = 1
  /\ parse' = "idle" /\ cmd' = 0 /\ left' = 0 /\ param' = 0
  /\ applyCommand(cmd, IF paramCountFor(cmd) = 1 THEN b ELSE param)

AdminPrefix(b) ==
  /\ parse = "idle" /\ b = 0
  /\ parse' = "admin"
  /\ UNCHANGED <<cmd, left, param, session, tempo, text, changed, keying>>

\* Text before the host has opened the interface and probed it is swallowed.
TextByte(b) ==
  /\ parse = "idle" /\ IsText(b)
  /\ IF open /\ primed THEN Push(b) ELSE UNCHANGED buf
  /\ UNCHANGED <<frame, session, tempo, player, joining, changed, keying>>

CommandByte(b) ==
  /\ parse = "idle" /\ b # 0 /\ ~IsText(b)
  /\ \/ /\ open /\ paramCountFor(b) > 0
        /\ parse' = "params" /\ cmd' = b /\ left' = paramCountFor(b) /\ param' = 0
        /\ UNCHANGED <<session, tempo, text, changed, keying>>
     \/ /\ open /\ paramCountFor(b) = 0
        /\ applyCommand(b, 0)
        /\ UNCHANGED frame
     \/ /\ ~open
        /\ UNCHANGED <<frame, session, tempo, text, changed, keying>>

feed(b) ==
  \/ AdminByte(b) \/ ParamByte(b) \/ LastParamByte(b)
  \/ AdminPrefix(b) \/ TextByte(b) \/ CommandByte(b)

-----------------------------------------------------------------------------
(* poll() and the synchronisation of the speed.                            *)

Keyable(t) == \E i \in DOMAIN t : t[i] \notin Unkeyable

WentIdle == wasBusy /\ ~playing

\* Is the text about to be sent a continuation?
Flag == IF WentIdle THEN hadText ELSE continuation

\* Fault: text that waited is not told from text that just came.
PollEmptyForgetful ==
  /\ buf = <<>>
  /\ continuation' = continuation
  /\ sawEnd' = (sawEnd \/ WentIdle)
  /\ wasBusy' = playing
  /\ hadText' = FALSE
  /\ past' = IF playing THEN "busy" ELSE IF past = "none" THEN "none" ELSE "rested"
  /\ UNCHANGED <<buf, player, joined>>

\* Nothing to send: the end of the player's work is noticed.
PollEmpty ==
  /\ buf = <<>>
  /\ continuation' = (continuation /\ ~WentIdle)
  /\ sawEnd' = (sawEnd \/ WentIdle)
  /\ wasBusy' = playing
  /\ hadText' = FALSE
  /\ past' = IF playing THEN "busy" ELSE IF past = "none" THEN "none" ELSE "rested"
  /\ UNCHANGED <<buf, player, joined>>

\* The player is busy: the text waits.
PollBusy ==
  /\ buf # <<>> /\ playing
  /\ sawEnd' = FALSE
  /\ wasBusy' = TRUE
  /\ hadText' = TRUE
  /\ past' = "waited"
  /\ UNCHANGED <<buf, player, continuation, joined>>

\* Fault: the text does not wait for the player.
PollSendUnasked ==
  /\ buf # <<>>
  /\ sawEnd' = FALSE
  /\ wasBusy' = playing
  /\ hadText' = TRUE
  /\ joined' = Flag
  /\ continuation' = TRUE
  /\ buf' = <<>>
  /\ playing' = TRUE /\ keyed' = buf
  /\ past' = "none"

\* sendText(): the whole buffer.  Text that has no Morse code plays nothing.
PollSend ==
  /\ buf # <<>> /\ ~playing
  /\ sawEnd' = FALSE
  /\ wasBusy' = FALSE
  /\ hadText' = TRUE
  /\ joined' = Flag
  /\ continuation' = TRUE
  /\ buf' = <<>>
  /\ playing' = Keyable(buf)
  /\ keyed' = IF Keyable(buf) THEN buf ELSE <<>>
  /\ past' = "none"

\* setMode(ENCODER) moves the change counter.
Poll ==
  \/ (PollEmpty \/ PollBusy) /\ UNCHANGED changed
  \/ PollSend /\ changed' = TRUE

\* Fault: the mirror follows the model and the host is not told.
MirrorOnly ==
  /\ wpm' = speed
  /\ pushed' = speed
  /\ UNCHANGED heard

\* setWpmFromLocal(): a speed the host knows already is not told again.
setWpmFromLocal ==
  IF wpm = speed /\ pushed = speed
    THEN UNCHANGED <<wpm, pushed, heard>>
    ELSE /\ wpm' = speed
         /\ pushed' = speed
         /\ heard' = IF ~open THEN heard ELSE IF speed < potLow THEN 0 ELSE speed

-----------------------------------------------------------------------------
(* One iteration of loop(): keys and web requests, host bytes, poll.       *)

\* adjustWPM() or the web page.
SetLocalSpeed(w) ==
  /\ turn = "keys"
  /\ speed' = w
  /\ changed' = TRUE
  /\ UNCHANGED <<loopAt, frame, session, rate, heard, text, keying>>

\* The KEYING overlay or the web page.
SetKeying(on) ==
  /\ turn = "keys"
  /\ keying' = on
  /\ changed' = (changed \/ on # keying)
  /\ UNCHANGED <<loopAt, frame, session, tempo, text>>

\* Any other setting, screen or decoded character moves the change counter.
OtherChange ==
  /\ turn = "keys" /\ ~changed
  /\ changed' = TRUE
  /\ UNCHANGED <<loopAt, frame, session, tempo, text, keying>>

\* playLocalMemoryText() without a host, or the practice text of key P.
PlayDirect ==
  /\ turn = "keys" /\ ~playing
  /\ playing' = TRUE
  /\ changed' = TRUE
  /\ UNCHANGED <<loopAt, frame, session, tempo, buf, keyed, joining, keying>>

\* playLocalMemoryText() with a host: the text goes through the bridge.
PlayMemory(m) ==
  /\ turn = "keys" /\ ~playing /\ open
  /\ turn' = "memory"
  /\ local' = m
  /\ changed' = TRUE
  /\ UNCHANGED <<frame, session, tempo, text, keying>>

FeedMemory ==
  /\ turn = "memory" /\ local # <<>>
  /\ feed(Head(local))
  /\ local' = Tail(local)
  /\ UNCHANGED turn

PollMemory ==
  /\ turn = "memory" /\ local = <<>>
  /\ Poll
  /\ turn' = "keys"
  /\ UNCHANGED <<local, frame, session, tempo, keying>>

FeedHost(b) ==
  /\ turn \in {"keys", "host"}
  /\ turn' = "host"
  /\ feed(b)
  /\ UNCHANGED local

\* poll(), then syncWpmFromLocal() if the counter moved, by poll() itself too.
PollHost ==
  /\ turn \in {"keys", "host"}
  /\ turn' = "keys"
  /\ PollEmpty \/ PollBusy \/ PollSend
  /\ IF changed \/ (buf # <<>> /\ ~playing)
       THEN setWpmFromLocal
       ELSE UNCHANGED <<wpm, pushed, heard>>
  /\ changed' = FALSE
  /\ UNCHANGED <<local, frame, session, potLow, speed, keying>>

\* The text ends, or the audio task or a key stops it.
Finish ==
  /\ playing
  /\ playing' = FALSE /\ keyed' = <<>>
  /\ changed' \in {changed, TRUE}
  /\ UNCHANGED <<loopAt, frame, session, tempo, buf, joining, keying>>

Next ==
  \/ \E w \in LocalSpeeds : SetLocalSpeed(w)
  \/ \E on \in BOOLEAN : SetKeying(on)
  \/ OtherChange
  \/ PlayDirect
  \/ \E m \in Memories : PlayMemory(m)
  \/ FeedMemory \/ PollMemory
  \/ \E b \in HostBytes[parse] : FeedHost(b)
  \/ PollHost
  \/ Finish

Spec == Init /\ [][Next]_vars

-----------------------------------------------------------------------------
TypeOK ==
  /\ turn \in {"keys", "host", "memory"}
  /\ local \in Seq(Byte)
  /\ parse \in Parses
  /\ cmd \in Byte /\ left \in 0 .. 15 /\ param \in Byte
  /\ open \in BOOLEAN /\ primed \in BOOLEAN
  /\ wpm \in 5 .. 99 /\ pushed \in -1 .. 99 /\ potLow \in 5 .. 99
  /\ buf \in Seq(Byte) /\ Len(buf) <= Capacity
  /\ continuation \in BOOLEAN /\ wasBusy \in BOOLEAN
  /\ sawEnd \in BOOLEAN /\ hadText \in BOOLEAN
  /\ playing \in BOOLEAN /\ keyed \in Seq(Byte)
  /\ speed \in 5 .. 50
  /\ changed \in BOOLEAN
  /\ keying \in BOOLEAN
  /\ joined \in BOOLEAN
  /\ heard \in 0 .. 99
  /\ past \in {"none", "busy", "waited", "rested"}

Promise == INSTANCE SendQueue WITH queue <- buf, Chars <- Byte

\* Whatever bytes, keys and resets come, the text a host or a memory put in
\* the buffer behaves as SendQueue promises: it leaves whole and in order,
\* never into a player that is busy, and only its newest character, or all of
\* it, can be taken back.
ImplementsSendQueue == Promise!Spec

\* The gap between two chunks: text a poll saw waiting behind the player is
\* sent as a continuation, text that came after a poll saw the player done and
\* the buffer empty is sent as a fresh playback.
GapFollowsHistory ==
  [][PollSend => (past = "waited" => joined') /\ (past = "rested" => ~joined')]_vars

\* Once the bridge has been told a speed, by the host or by the model, and the
\* last change is synchronised, a host that holds a speed holds the keyer's,
\* whoever changed it last and with what clamping.
SpeedAgrees ==
  open /\ ~changed /\ pushed # -1 /\ heard # 0 => heard = speed

=============================================================================
