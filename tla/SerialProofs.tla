----------------------------- MODULE SerialProofs -----------------------------
(***************************************************************************)
(* Theorems about the two that share the USB serial line.                  *)
(*                                                                         *)
(* The first half is about WinkeyBridge, for every alphabet, memory and    *)
(* capacity, the second about Console, for rings and chunks of any size.   *)
(*                                                                         *)
(* A step is first reduced to what it does to the text (TextSteps) and to  *)
(* the speed (TempoSteps); the theorems then split on those few effects.   *)
(***************************************************************************)
EXTENDS WinkeyBridge, Console, TLAPS

-----------------------------------------------------------------------------
(* What a step may do to the text and to the player.                       *)

BytePushed == \E b \in Byte : Push(b) /\ UNCHANGED <<player, joining>>

TakenBack ==
  /\ buf # <<>>
  /\ buf' = SubSeq(buf, 1, Len(buf) - 1)
  /\ UNCHANGED <<player, joining>>

Cleared ==
  /\ buf' = <<>>
  /\ continuation' = FALSE
  /\ playing' = FALSE /\ keyed' = <<>>
  /\ past' = IF past = "waited" THEN "none" ELSE past
  /\ UNCHANGED <<wasBusy, sawEnd, hadText, joined>>

WasReset ==
  /\ buf' = <<>>
  /\ continuation' = FALSE /\ wasBusy' = FALSE /\ sawEnd' = FALSE /\ hadText' = FALSE
  /\ past' = "none"
  /\ UNCHANGED <<player, joined>>

OtherStarted ==
  /\ ~playing /\ playing' = TRUE
  /\ UNCHANGED <<buf, keyed, joining>>

Finished ==
  /\ playing /\ playing' = FALSE /\ keyed' = <<>>
  /\ UNCHANGED <<buf, joining>>

ByteEffect == UNCHANGED text \/ BytePushed \/ TakenBack \/ Cleared \/ WasReset

TextEffect ==
  \/ ByteEffect
  \/ PollEmpty \/ PollBusy \/ PollSend
  \/ OtherStarted \/ Finished

\* A command changes the text in one of four ways, if at all.
LEMMA CommandText ==
  ASSUME NEW c, NEW p, applyCommand(c, p)
  PROVE  ByteEffect
<1>1. CASE Backspace
  BY <1>1 DEF Backspace, ByteEffect, TakenBack, text, joining, player
<1>2. CASE ClearBuffer
  BY <1>2 DEF ClearBuffer, ByteEffect, Cleared
<1>3. CASE UNCHANGED text
  BY <1>3 DEF ByteEffect
<1>4. QED
  BY <1>1, <1>2, <1>3 DEF applyCommand, SetSpeed, SetSidetone, SetPot, GetPot,
     RequestStatus, KeyImmediate, Ignored

\* So does an administrative command.
LEMMA AdminText ==
  ASSUME NEW sub, handleAdmin(sub)
  PROVE  ByteEffect
<1>1. CASE Reset
  BY <1>1 DEF Reset, ByteEffect, WasReset
<1>2. CASE UNCHANGED text
  BY <1>2 DEF ByteEffect
<1>3. QED
  BY <1>1, <1>2 DEF handleAdmin, HostOpen, HostClose, GetValues, Ignored

\* So does any byte.
LEMMA FeedText ==
  ASSUME NEW b \in Byte, feed(b)
  PROVE  ByteEffect
<1>1. CASE AdminByte(b)
  BY <1>1, AdminText DEF AdminByte
<1>2. CASE ParamByte(b)
  BY <1>2 DEF ParamByte, ByteEffect
<1>3. CASE LastParamByte(b)
  BY <1>3, CommandText DEF LastParamByte
<1>4. CASE AdminPrefix(b)
  BY <1>4 DEF AdminPrefix, ByteEffect
<1>5. CASE TextByte(b)
  BY <1>5 DEF TextByte, ByteEffect, BytePushed, text, player, joining
<1>6. CASE CommandByte(b)
  BY <1>6, CommandText DEF CommandByte, ByteEffect
<1>7. QED
  BY <1>1, <1>2, <1>3, <1>4, <1>5, <1>6 DEF feed

-----------------------------------------------------------------------------
(* What a step may do to the speeds.                                       *)

\* Commanded by the host.
Commanded ==
  /\ wpm' \in 5 .. 99
  /\ pushed' = wpm'
  /\ speed' = Clamp(wpm', 5, 50)
  /\ changed' = TRUE
  /\ heard' \in {0, wpm'}
  /\ UNCHANGED potLow

\* A new pot range.
Ranged ==
  /\ potLow' \in 5 .. 99
  /\ UNCHANGED <<wpm, pushed, speed, heard, changed>>

\* A probe or a new session.
Probed ==
  /\ heard' \in {0, wpm, heard}
  /\ UNCHANGED <<rate, speed, changed>>

ResetRate ==
  /\ wpm' = 20 /\ pushed' = -1 /\ potLow' = 5
  /\ UNCHANGED <<speed, heard, changed>>

\* The operator's own choice.
Chosen ==
  /\ speed' \in LocalSpeeds
  /\ changed' = TRUE
  /\ UNCHANGED <<rate, heard>>

Synced ==
  /\ IF changed \/ (buf # <<>> /\ ~playing)
       THEN setWpmFromLocal
       ELSE UNCHANGED <<wpm, pushed, heard>>
  /\ changed' = FALSE
  /\ UNCHANGED <<potLow, speed>>

Kept ==
  /\ changed' \in {changed, TRUE}
  /\ UNCHANGED tempo

ByteTempo == Commanded \/ Ranged \/ Probed \/ ResetRate \/ Kept

TempoEffect == ByteTempo \/ Chosen \/ Synced

\* A command changes the speeds in one of five ways.
LEMMA CommandTempo ==
  ASSUME NEW c, NEW p \in Byte, applyCommand(c, p),
         wpm \in 5 .. 99, changed \in BOOLEAN
  PROVE  ByteTempo
<1>1. CASE SetSpeed(p)
  <2>1. CASE p = 0
    BY <1>1, <2>1, Zenon DEF SetSpeed, ByteTempo, Kept
  <2>2. CASE p # 0
    <3>1. /\ wpm' = Clamp(p, 5, 99)
          /\ pushed' = wpm'
          /\ speed' = Clamp(wpm', 5, 50)
          /\ changed' = TRUE
          /\ heard' = IF p \in 5 .. 99 THEN p ELSE 0
          /\ UNCHANGED potLow
      BY <1>1, <2>2, Zenon DEF SetSpeed
    <3>2. wpm' \in 5 .. 99 /\ heard' \in {0, wpm'}
      BY <3>1 DEF Clamp, Byte
    <3>3. QED
      BY <3>1, <3>2, Zenon DEF ByteTempo, Commanded
  <2>3. QED
    BY <2>1, <2>2
<1>2. CASE SetPot(p)
  BY <1>2 DEF SetPot, ByteTempo, Ranged, Clamp, Byte
<1>3. CASE GetPot
  BY <1>3 DEF GetPot, ByteTempo, Probed, SpeedPot
<1>4. CASE changed' \in {changed, TRUE} /\ UNCHANGED tempo
  BY <1>4 DEF ByteTempo, Kept
<1>5. ASSUME SetSidetone \/ RequestStatus \/ Backspace \/ ClearBuffer
             \/ KeyImmediate(p) \/ Ignored
      PROVE  changed' \in {changed, TRUE} /\ UNCHANGED tempo
  BY <1>5, Zenon DEF SetSidetone, RequestStatus, Backspace, ClearBuffer,
     KeyImmediate, Ignored
<1>6. QED
  BY <1>1, <1>2, <1>3, <1>4, <1>5 DEF applyCommand

\* So does an administrative command.
LEMMA AdminTempo ==
  ASSUME NEW sub, handleAdmin(sub)
  PROVE  ByteTempo
<1>1. CASE Reset
  BY <1>1 DEF Reset, ByteTempo, ResetRate
<1>2. CASE HostOpen
  BY <1>2 DEF HostOpen, ByteTempo, Probed
<1>3. CASE GetValues
  BY <1>3 DEF GetValues, ByteTempo, Probed
<1>4. CASE UNCHANGED <<tempo, changed>>
  BY <1>4 DEF ByteTempo, Kept
<1>5. QED
  BY <1>1, <1>2, <1>3, <1>4 DEF handleAdmin, HostClose, Ignored

\* So does any byte.
LEMMA FeedTempo ==
  ASSUME NEW b \in Byte, feed(b),
         wpm \in 5 .. 99, changed \in BOOLEAN, param \in Byte
  PROVE  ByteTempo
<1> USE DEF ByteTempo, Kept
<1>1. CASE AdminByte(b)
  BY <1>1, AdminTempo DEF AdminByte
<1>2. CASE ParamByte(b)
  BY <1>2 DEF ParamByte
<1>3. CASE LastParamByte(b)
  <2> DEFINE q == IF paramCountFor(cmd) = 1 THEN b ELSE param
  <2>1. q \in Byte
    OBVIOUS
  <2>2. applyCommand(cmd, q)
    BY <1>3 DEF LastParamByte
  <2>3. QED
    BY <2>1, <2>2, CommandTempo
<1>4. CASE AdminPrefix(b)
  BY <1>4 DEF AdminPrefix
<1>5. CASE TextByte(b)
  BY <1>5 DEF TextByte
<1>6. CASE CommandByte(b)
  <2>1. 0 \in Byte
    BY DEF Byte
  <2>2. QED
    BY <1>6, <2>1, CommandTempo DEF CommandByte
<1>7. QED
  BY <1>1, <1>2, <1>3, <1>4, <1>5, <1>6 DEF feed

-----------------------------------------------------------------------------
(* Type correctness, in groups.                                            *)

LoopTyped ==
  /\ turn \in {"keys", "host", "memory"}
  /\ local \in Seq(Byte)

FrameTyped ==
  /\ parse \in Parses
  /\ cmd \in Byte /\ left \in 0 .. 15 /\ param \in Byte

SwitchesTyped ==
  /\ open \in BOOLEAN /\ primed \in BOOLEAN
  /\ changed \in BOOLEAN
  /\ keying \in BOOLEAN

TempoTyped ==
  /\ wpm \in 5 .. 99 /\ pushed \in -1 .. 99 /\ potLow \in 5 .. 99
  /\ speed \in 5 .. 50
  /\ heard \in 0 .. 99

QueueTyped ==
  /\ buf \in Seq(Byte) /\ Len(buf) <= Capacity
  /\ keyed \in Seq(Byte)

JoinTyped ==
  /\ playing \in BOOLEAN
  /\ continuation \in BOOLEAN /\ wasBusy \in BOOLEAN
  /\ sawEnd \in BOOLEAN /\ hadText \in BOOLEAN
  /\ joined \in BOOLEAN
  /\ past \in {"none", "busy", "waited", "rested"}

TypeInv ==
  LoopTyped /\ FrameTyped /\ SwitchesTyped /\ TempoTyped /\ QueueTyped /\ JoinTyped

\* The groups together are the type invariant of the module.
LEMMA TypeInvIsTypeOK == TypeInv <=> TypeOK
BY DEF TypeInv, TypeOK, LoopTyped, FrameTyped, SwitchesTyped, TempoTyped,
   QueueTyped, JoinTyped

\* The byte a step feeds is a byte.
LEMMA FedByte ==
  ASSUME TypeInv
  PROVE  /\ \A b \in HostBytes[parse] : b \in Byte
         /\ local # <<>> => Head(local) \in Byte /\ Tail(local) \in Seq(Byte)
BY HostBytesType DEF TypeInv, FrameTyped, LoopTyped

-----------------------------------------------------------------------------
(* Every step has one of the effects on the text.                          *)

\* What any step does to the buffer and the player.
LEMMA TextSteps ==
  ASSUME TypeInv, [Next]_vars
  PROVE  TextEffect
<1> USE DEF TextEffect
<1>1. ASSUME NEW w \in LocalSpeeds, SetLocalSpeed(w)
      PROVE  TextEffect
  BY <1>1 DEF SetLocalSpeed, ByteEffect
<1>2. ASSUME NEW on \in BOOLEAN, SetKeying(on)
      PROVE  TextEffect
  BY <1>2 DEF SetKeying, ByteEffect
<1>3. CASE OtherChange
  BY <1>3 DEF OtherChange, ByteEffect
<1>4. CASE PlayDirect
  BY <1>4 DEF PlayDirect, OtherStarted
<1>5. ASSUME NEW m \in Memories, PlayMemory(m)
      PROVE  TextEffect
  BY <1>5 DEF PlayMemory, ByteEffect
<1>6. CASE FeedMemory
  BY <1>6, FedByte, FeedText DEF FeedMemory
<1>7. CASE PollMemory
  BY <1>7 DEF PollMemory, Poll
<1>8. ASSUME NEW b \in HostBytes[parse], FeedHost(b)
      PROVE  TextEffect
  BY <1>8, FedByte, FeedText DEF FeedHost
<1>9. CASE PollHost
  BY <1>9 DEF PollHost
<1>10. CASE Finish
  BY <1>10 DEF Finish, Finished
<1>11. CASE UNCHANGED vars
  BY <1>11 DEF vars, ByteEffect
<1>12. QED
  BY <1>1, <1>2, <1>3, <1>4, <1>5, <1>6, <1>7, <1>8, <1>9, <1>10, <1>11 DEF Next

(* And one of the effects on the speeds.                                   *)

\* What any step does to the speeds.
LEMMA TempoSteps ==
  ASSUME TypeInv, [Next]_vars
  PROVE  TempoEffect
<1> USE DEF TempoEffect, ByteTempo, Kept
<1>0. wpm \in 5 .. 99 /\ changed \in BOOLEAN /\ param \in Byte
  BY DEF TypeInv, TempoTyped, SwitchesTyped, FrameTyped
<1>1. ASSUME NEW w \in LocalSpeeds, SetLocalSpeed(w)
      PROVE  TempoEffect
  BY <1>1 DEF SetLocalSpeed, Chosen
<1>2. ASSUME NEW on \in BOOLEAN, SetKeying(on)
      PROVE  TempoEffect
  <2>1. changed' \in {changed, TRUE} /\ UNCHANGED tempo
    BY <1>2, <1>0, Zenon DEF SetKeying
  <2>2. QED
    BY <2>1, Zenon
<1>3. CASE OtherChange
  BY <1>3 DEF OtherChange
<1>4. CASE PlayDirect
  BY <1>4 DEF PlayDirect
<1>5. ASSUME NEW m \in Memories, PlayMemory(m)
      PROVE  TempoEffect
  BY <1>5 DEF PlayMemory
<1>6. CASE FeedMemory
  BY <1>6, <1>0, FedByte, FeedTempo DEF FeedMemory
<1>7. CASE PollMemory
  BY <1>7 DEF PollMemory, Poll
<1>8. ASSUME NEW b \in HostBytes[parse], FeedHost(b)
      PROVE  TempoEffect
  BY <1>8, <1>0, FedByte, FeedTempo DEF FeedHost
<1>9. CASE PollHost
  BY <1>9, Zenon DEF PollHost, Synced
<1>10. CASE Finish
  BY <1>10 DEF Finish
<1>11. CASE UNCHANGED vars
  BY <1>11 DEF vars
<1>12. QED
  BY <1>1, <1>2, <1>3, <1>4, <1>5, <1>6, <1>7, <1>8, <1>9, <1>10, <1>11 DEF Next

-----------------------------------------------------------------------------
(* Each group of types is preserved.                                       *)

\* The parser's registers stay in range.
LEMMA FeedFrame ==
  ASSUME NEW b \in Byte, feed(b), FrameTyped
  PROVE  FrameTyped'
<1> USE DEF FrameTyped, Parses, frame
<1>0. 0 \in Byte
  BY DEF Byte
<1>1. CASE AdminByte(b)
  BY <1>1 DEF AdminByte
<1>2. CASE ParamByte(b)
  <2>1. left' \in 0 .. 15
    BY <1>2 DEF ParamByte
  <2>2. param' \in Byte
    BY <1>2 DEF ParamByte
  <2>3. QED
    BY <1>2, <2>1, <2>2 DEF ParamByte
<1>3. CASE LastParamByte(b)
  BY <1>0, <1>3 DEF LastParamByte
<1>4. CASE AdminPrefix(b)
  BY <1>4 DEF AdminPrefix
<1>5. CASE TextByte(b)
  BY <1>5 DEF TextByte
<1>6. CASE CommandByte(b)
  <2>1. CASE UNCHANGED frame
    BY <2>1
  <2>2. CASE parse' = "params" /\ cmd' = b /\ left' = paramCountFor(b) /\ param' = 0
    <3>1. paramCountFor(b) \in {0, 1, 2, 3, 15}
      BY DEF paramCountFor
    <3>2. QED
      BY <1>0, <2>2, <3>1
  <2>3. QED
    BY <1>6, <2>1, <2>2 DEF CommandByte
<1>7. QED
  BY <1>1, <1>2, <1>3, <1>4, <1>5, <1>6 DEF feed

\* A command, and any byte, leaves the switches BOOLEAN.
LEMMA CommandSwitches ==
  ASSUME NEW c, NEW p \in Byte, applyCommand(c, p), SwitchesTyped
  PROVE  SwitchesTyped'
<1> USE DEF SwitchesTyped, session
<1>1. CASE SetSpeed(p)
  BY <1>1, Zenon DEF SetSpeed
<1>2. CASE KeyImmediate(p)
  BY <1>2, Zenon DEF KeyImmediate
<1>3. CASE SetSidetone \/ SetPot(p) \/ GetPot \/ RequestStatus
           \/ Backspace \/ ClearBuffer \/ Ignored
  BY <1>3, Zenon DEF SetSidetone, SetPot, GetPot, RequestStatus, Backspace,
     ClearBuffer, Ignored
<1>4. QED
  BY <1>1, <1>2, <1>3, Zenon DEF applyCommand

\* A byte leaves the switches with their types.
LEMMA FeedSwitches ==
  ASSUME NEW b \in Byte, feed(b), SwitchesTyped, FrameTyped
  PROVE  SwitchesTyped'
<1> USE DEF SwitchesTyped, session
<1>1. CASE AdminByte(b)
  BY <1>1, Zenon DEF AdminByte, handleAdmin, Reset, HostOpen, HostClose,
     GetValues, Ignored
<1>2. CASE ParamByte(b)
  BY <1>2, Zenon DEF ParamByte
<1>3. CASE LastParamByte(b)
  <2> DEFINE q == IF paramCountFor(cmd) = 1 THEN b ELSE param
  <2>1. q \in Byte /\ applyCommand(cmd, q)
    BY <1>3 DEF LastParamByte, FrameTyped
  <2>2. QED
    BY <2>1, CommandSwitches
<1>4. CASE AdminPrefix(b)
  BY <1>4, Zenon DEF AdminPrefix
<1>5. CASE TextByte(b)
  BY <1>5, Zenon DEF TextByte
<1>6. CASE CommandByte(b)
  <2>1. 0 \in Byte
    BY DEF Byte
  <2>2. CASE applyCommand(b, 0)
    BY <2>1, <2>2, CommandSwitches
  <2>3. CASE UNCHANGED <<session, changed, keying>>
    BY <2>3, Zenon
  <2>4. QED
    BY <1>6, <2>2, <2>3, Zenon DEF CommandByte
<1>7. QED
  BY <1>1, <1>2, <1>3, <1>4, <1>5, <1>6, Zenon DEF feed

\* Every step does.
LEMMA SwitchesStep ==
  ASSUME TypeInv, [Next]_vars
  PROVE  SwitchesTyped'
<1>0. SwitchesTyped /\ FrameTyped
  BY DEF TypeInv
<1> USE DEF SwitchesTyped, session
<1>1. CASE FeedMemory
  BY <1>0, <1>1, FedByte, FeedSwitches DEF FeedMemory
<1>2. ASSUME NEW b \in HostBytes[parse], FeedHost(b)
      PROVE  SwitchesTyped'
  BY <1>0, <1>2, FedByte, FeedSwitches DEF FeedHost
<1>3. ASSUME NEW w \in LocalSpeeds, SetLocalSpeed(w)
      PROVE  SwitchesTyped'
  BY <1>0, <1>3, Zenon DEF SetLocalSpeed
<1>4. ASSUME NEW on \in BOOLEAN, SetKeying(on)
      PROVE  SwitchesTyped'
  BY <1>0, <1>4, Zenon DEF SetKeying
<1>5. ASSUME NEW m \in Memories, PlayMemory(m)
      PROVE  SwitchesTyped'
  BY <1>0, <1>5, Zenon DEF PlayMemory
<1>6. CASE OtherChange \/ PlayDirect \/ PollMemory \/ PollHost \/ Finish
  BY <1>0, <1>6, Zenon DEF OtherChange, PlayDirect, PollMemory, Poll, PollHost, Finish
<1>7. CASE UNCHANGED vars
  BY <1>0, <1>7, Zenon DEF vars
<1>8. QED
  BY <1>1, <1>2, <1>3, <1>4, <1>5, <1>6, <1>7, Zenon DEF Next

\* The parser stays within its types, memory text included.
LEMMA LoopAndFrameStep ==
  ASSUME TypeInv, [Next]_vars
  PROVE  LoopTyped' /\ FrameTyped'
<1>0. LoopTyped /\ FrameTyped
  BY DEF TypeInv
<1> USE DEF LoopTyped, loopAt
<1>1. CASE FeedMemory
  BY <1>0, <1>1, FedByte, FeedFrame DEF FeedMemory
<1>2. ASSUME NEW b \in HostBytes[parse], FeedHost(b)
      PROVE  LoopTyped' /\ FrameTyped'
  BY <1>0, <1>2, FedByte, FeedFrame DEF FeedHost
<1>3. ASSUME NEW m \in Memories, PlayMemory(m)
      PROVE  LoopTyped' /\ FrameTyped'
  BY <1>0, <1>3, MemoriesType DEF PlayMemory, FrameTyped, frame
<1>4. CASE PollMemory \/ PollHost
  BY <1>0, <1>4 DEF PollMemory, PollHost, FrameTyped, frame
<1>5. CASE UNCHANGED <<loopAt, frame>>
  BY <1>0, <1>5 DEF FrameTyped, frame
<1>6. CASE UNCHANGED vars
  BY <1>5, <1>6 DEF vars
<1>7. QED
  BY <1>1, <1>2, <1>3, <1>4, <1>5, <1>6 DEF Next, SetLocalSpeed, SetKeying,
     OtherChange, PlayDirect, Finish

\* Speeds stay within their clamped ranges.
LEMMA TempoStep ==
  ASSUME TypeInv, [Next]_vars
  PROVE  TempoTyped'
<1>0. TempoTyped /\ TempoEffect
  BY TempoSteps DEF TypeInv
<1> USE DEF TempoTyped
<1>1. CASE Commanded
  BY <1>0, <1>1 DEF Commanded, Clamp
<1>2. CASE Ranged
  BY <1>0, <1>2 DEF Ranged
<1>3. CASE Probed
  BY <1>0, <1>3 DEF Probed, rate
<1>4. CASE ResetRate
  BY <1>0, <1>4 DEF ResetRate
<1>5. CASE Chosen
  BY <1>0, <1>5, LocalSpeedsType DEF Chosen, rate
<1>6. CASE Synced
  <2>1. CASE UNCHANGED tempo
    BY <1>0, <2>1 DEF tempo, rate
  <2>2. CASE setWpmFromLocal /\ UNCHANGED <<potLow, speed>>
    BY <1>0, <2>2 DEF setWpmFromLocal
  <2>3. QED
    BY <1>6, <2>1, <2>2, Zenon DEF Synced, tempo, rate
<1>7. CASE Kept
  BY <1>0, <1>7 DEF Kept, tempo, rate
<1>8. QED
  BY <1>0, <1>1, <1>2, <1>3, <1>4, <1>5, <1>6, <1>7 DEF TempoEffect, ByteTempo

\* The buffer never outgrows its capacity.
LEMMA QueueStep ==
  ASSUME TypeInv, [Next]_vars
  PROVE  QueueTyped'
<1>0. QueueTyped /\ TextEffect
  BY TextSteps DEF TypeInv
<1> USE DEF QueueTyped, player
<1>1. CASE BytePushed
  <2>1. PICK b \in Byte : Push(b) /\ UNCHANGED <<player, joining>>
    BY <1>1 DEF BytePushed
  <2>2. Upper(b) \in Byte
    BY DEF Upper, Byte
  <2>3. QED
    BY <1>0, <2>1, <2>2, CapacityType DEF Push
<1>2. CASE TakenBack
  BY <1>0, <1>2, CapacityType DEF TakenBack
<1>3. CASE buf' = <<>> /\ keyed' \in {<<>>, buf, keyed}
  <2>1. <<>> \in Seq(Byte) /\ Len(<<>>) <= Capacity
    BY CapacityType
  <2>2. buf' \in Seq(Byte) /\ Len(buf') <= Capacity
    BY <1>3, <2>1
  <2>3. keyed' \in Seq(Byte)
    BY <1>0, <1>3, <2>1, Zenon
  <2>4. QED
    BY <2>2, <2>3
<1>4. CASE buf' = buf /\ keyed' \in {<<>>, keyed}
  <2>1. <<>> \in Seq(Byte)
    OBVIOUS
  <2>2. QED
    BY <1>0, <1>4, <2>1, Zenon
<1>5. QED
  BY <1>0, <1>1, <1>2, <1>3, <1>4 DEF TextEffect, ByteEffect, Cleared, WasReset,
     PollEmpty, PollBusy, PollSend, OtherStarted, Finished, text

\* The continuation flags stay flags.
LEMMA JoinStep ==
  ASSUME TypeInv, [Next]_vars
  PROVE  JoinTyped'
<1>0. JoinTyped /\ TextEffect
  BY TextSteps DEF TypeInv
<1> USE DEF JoinTyped, joining, join, player
<1>1. CASE BytePushed \/ TakenBack \/ OtherStarted \/ Finished
  BY <1>0, <1>1, Zenon DEF BytePushed, TakenBack, OtherStarted, Finished
<1>2. CASE Cleared
  BY <1>0, <1>2, Zenon DEF Cleared
<1>3. CASE WasReset
  BY <1>0, <1>3, Zenon DEF WasReset
<1>4. CASE PollEmpty
  BY <1>0, <1>4, Zenon DEF PollEmpty, WentIdle
<1>5. CASE PollBusy
  BY <1>0, <1>5, Zenon DEF PollBusy
<1>6. CASE PollSend
  BY <1>0, <1>6, Zenon DEF PollSend, Flag, WentIdle, Keyable
<1>7. CASE UNCHANGED text
  BY <1>0, <1>7, Zenon DEF text
<1>8. QED
  BY <1>0, <1>1, <1>2, <1>3, <1>4, <1>5, <1>6, <1>7, Zenon DEF TextEffect, ByteEffect

-----------------------------------------------------------------------------
(* The theorems.                                                           *)

\* The initial values have their types.
LEMMA InitTyped == Init => TypeInv
<1> SUFFICES ASSUME Init PROVE TypeInv
  OBVIOUS
<1>1. LoopTyped /\ FrameTyped
  BY DEF Init, LoopTyped, FrameTyped, Parses, Byte
<1>2. SwitchesTyped
  BY Zenon DEF Init, SwitchesTyped
<1>3. TempoTyped
  BY LocalSpeedsType DEF Init, TempoTyped
<1>4. QueueTyped
  BY CapacityType DEF Init, QueueTyped
<1>5. JoinTyped
  BY Zenon DEF Init, JoinTyped
<1>6. QED
  BY <1>1, <1>2, <1>3, <1>4, <1>5 DEF TypeInv

\* Every step keeps every group.
LEMMA StepTyped == TypeInv /\ [Next]_vars => TypeInv'
BY LoopAndFrameStep, SwitchesStep, TempoStep, QueueStep, JoinStep DEF TypeInv

\* The groups hold in every state.
LEMMA AlwaysTyped == Spec => []TypeInv
BY InitTyped, StepTyped, PTL DEF Spec

\* Every variable of the bridge keeps its type; in particular the buffer never
\* grows beyond its capacity (winkey_buffer.h, push).
THEOREM TypeCorrect == Spec => []TypeOK
BY AlwaysTyped, TypeInvIsTypeOK, PTL

-----------------------------------------------------------------------------
(* The speed.                                                              *)

\* What the bridge mirrors, what it last told and what the host holds agree,
\* except after a reset, until the next speed is told.
RateInv ==
  pushed # -1 =>
    /\ pushed = wpm
    /\ ~changed => wpm = speed
    /\ open /\ heard # 0 => heard = wpm

\* Opening the interface is the one way it becomes open.
LEMMA OpenSteps ==
  ASSUME TypeInv, [Next]_vars
  PROVE  open' => open \/ heard' = 0
<1>1. ASSUME NEW c, NEW p, applyCommand(c, p)
      PROVE  open' => open
  BY <1>1, Zenon DEF applyCommand, SetSpeed, SetSidetone, SetPot, GetPot,
     RequestStatus, Backspace, ClearBuffer, KeyImmediate, Ignored, session
<1>2. ASSUME NEW b, feed(b)
      PROVE  open' => open \/ heard' = 0
  BY <1>1, <1>2, Zenon DEF feed, AdminByte, ParamByte, LastParamByte, AdminPrefix,
     TextByte, CommandByte, handleAdmin, Reset, HostOpen, HostClose, GetValues,
     Ignored, session
<1>3. QED
  BY <1>2, Zenon DEF Next, vars, SetLocalSpeed, SetKeying, OtherChange, PlayDirect,
     PlayMemory, FeedMemory, PollMemory, FeedHost, PollHost, Finish, session

\* Every step keeps the mirror, the model and the host in agreement.
LEMMA RateStep == TypeInv /\ RateInv /\ [Next]_vars => RateInv'
<1> SUFFICES ASSUME TypeInv, RateInv, [Next]_vars PROVE RateInv'
  OBVIOUS
<1>0. /\ TempoEffect
      /\ open' => open \/ heard' = 0
      /\ TempoTyped
  BY TempoSteps, OpenSteps DEF TypeInv
<1> USE DEF RateInv, rate
<1>1. CASE Commanded
  BY <1>0, <1>1 DEF Commanded
<1>2. CASE Ranged
  BY <1>0, <1>2 DEF Ranged
<1>3. CASE Probed
  BY <1>0, <1>3 DEF Probed
<1>4. CASE ResetRate
  BY <1>4 DEF ResetRate
<1>5. CASE Chosen
  BY <1>0, <1>5 DEF Chosen
<1>6. CASE Synced
  BY <1>0, <1>6 DEF Synced, setWpmFromLocal, TempoTyped
<1>7. CASE Kept
  BY <1>0, <1>7 DEF Kept, tempo
<1>8. QED
  BY <1>0, <1>1, <1>2, <1>3, <1>4, <1>5, <1>6, <1>7 DEF TempoEffect, ByteTempo

\* For every alphabet and every set of speeds: a host that has been told a
\* speed holds the one the keyer uses, once changes are synchronised.
THEOREM SpeedAlwaysAgrees == Spec => []SpeedAgrees
<1>1. Init => RateInv
  BY DEF Init, RateInv
<1>2. RateInv => SpeedAgrees
  BY DEF RateInv, SpeedAgrees
<1>3. QED
  BY <1>1, <1>2, AlwaysTyped, RateStep, PTL DEF Spec

-----------------------------------------------------------------------------
(* The gap between two chunks.                                             *)

GapInv ==
  /\ past = "waited" => wasBusy /\ hadText
  /\ past = "busy" => wasBusy
  /\ past = "rested" => ~continuation /\ ~wasBusy

\* Every step keeps the flags in agreement with what the polls saw.
LEMMA GapStep == TypeInv /\ GapInv /\ [Next]_vars => GapInv'
<1> SUFFICES ASSUME TypeInv, GapInv, [Next]_vars PROVE GapInv'
  OBVIOUS
<1>0. TextEffect /\ JoinTyped
  BY TextSteps DEF TypeInv
<1>1. past \in {"none", "busy", "waited", "rested"}
  BY <1>0 DEF JoinTyped
<1>2. CASE Cleared
  <2>1. CASE past = "waited"
    BY <1>2, <2>1 DEF Cleared, GapInv
  <2>2. CASE past # "waited"
    BY <1>2, <2>2 DEF Cleared, GapInv
  <2>3. QED
    BY <2>1, <2>2
<1>3. CASE WasReset
  BY <1>3 DEF WasReset, GapInv
<1>4. CASE PollEmpty
  <2>1. CASE playing
    BY <1>4, <2>1 DEF PollEmpty, GapInv
  <2>2. CASE ~playing /\ past = "none"
    BY <1>4, <2>2 DEF PollEmpty, GapInv
  <2>3. CASE ~playing /\ past # "none"
    BY <1>1, <1>4, <2>3 DEF PollEmpty, GapInv, WentIdle
  <2>4. QED
    BY <2>1, <2>2, <2>3
<1>5. CASE PollBusy
  BY <1>5 DEF PollBusy, GapInv
<1>6. CASE PollSend
  BY <1>6 DEF PollSend, GapInv
<1>7. CASE UNCHANGED joining
  BY <1>7 DEF joining, join, GapInv
<1>8. QED
  BY <1>0, <1>2, <1>3, <1>4, <1>5, <1>6, <1>7 DEF TextEffect, ByteEffect, BytePushed,
     TakenBack, OtherStarted, Finished, text

\* Text that waited is always joined to what it waited for, and text that came
\* after a rest never is.
THEOREM GapAlwaysFollows == Spec => GapFollowsHistory
<1>1. Init => GapInv
  BY DEF Init, GapInv
<1>2. TypeInv /\ GapInv /\ [Next]_vars
        => [PollSend => (past = "waited" => joined') /\ (past = "rested" => ~joined')]_vars
  <2> SUFFICES ASSUME GapInv, PollSend
               PROVE  (past = "waited" => joined') /\ (past = "rested" => ~joined')
    BY Zenon
  <2>1. ~playing /\ joined' = Flag
    BY Zenon DEF PollSend
  <2>2. QED
    BY <2>1, Zenon DEF Flag, WentIdle, GapInv
<1>3. QED
  BY <1>1, <1>2, AlwaysTyped, GapStep, PTL DEF Spec, GapFollowsHistory

-----------------------------------------------------------------------------
(* The abstract queue.                                                     *)

\* A silent player plays nothing of the queue.
QuietInv == ~playing => keyed = <<>>

\* Every step keeps the text played empty while nothing plays.
LEMMA QuietStep == TypeInv /\ QuietInv /\ [Next]_vars => QuietInv'
<1> SUFFICES ASSUME TypeInv, QuietInv, [Next]_vars PROVE QuietInv'
  OBVIOUS
<1>1. TextEffect
  BY TextSteps
<1>2. QED
  BY <1>1, Zenon DEF TextEffect, ByteEffect, BytePushed, TakenBack, Cleared, WasReset, PollEmpty,
     PollBusy, PollSend, OtherStarted, Finished, QuietInv, text, player

\* A step of the bridge is a step of SendQueue or a stutter.
LEMMA QueueSimulated ==
  ASSUME TypeInv, QuietInv, [Next]_vars
  PROVE  [Promise!Next]_(Promise!vars)
<1>0. TextEffect /\ QueueTyped /\ QueueTyped' /\ JoinTyped
  BY TextSteps, QueueStep DEF TypeInv
<1> USE DEF Promise!vars, Promise!player, player, Promise!Next
<1>1. CASE BytePushed
  <2>1. PICK b \in Byte : Push(b) /\ UNCHANGED player
    BY <1>1 DEF BytePushed
  <2>2. CASE Len(buf) < Capacity
    <3> DEFINE c == Upper(b)
    <3>1. buf' = Append(buf, c) /\ c \in Byte
      BY <2>1, <2>2 DEF Push, Upper, Byte
    <3>2. buf' # <<>> /\ SubSeq(buf', 1, Len(buf') - 1) = buf
      BY <1>0, <3>1 DEF QueueTyped
    <3>3. Promise!Accept
      BY <1>0, <2>1, <2>2, <3>2 DEF Promise!Accept, Promise!Older, QueueTyped
    <3>4. QED
      BY <3>3
  <2>3. CASE ~(Len(buf) < Capacity)
    BY <2>1, <2>3 DEF Push
  <2>4. QED
    BY <2>2, <2>3
<1>2. CASE TakenBack
  BY <1>2 DEF TakenBack, Promise!TakeBack, Promise!Older
<1>3. CASE Cleared
  BY <1>3 DEF Cleared, Promise!Discard, Promise!Silent
<1>4. CASE WasReset
  BY <1>4 DEF WasReset, Promise!Discard
<1>5. CASE PollSend
  <2>1. CASE Keyable(buf)
    <3>1. playing' = TRUE
      BY <1>5, <2>1, Zenon DEF PollSend
    <3>2. QED
      BY <1>5, <2>1, <3>1, Zenon DEF PollSend, Promise!HandOver
  <2>2. CASE ~Keyable(buf)
    <3>1. ~playing /\ ~playing' /\ keyed' = <<>> /\ keyed = <<>>
      BY <1>5, <2>2, Zenon DEF PollSend, QuietInv
    <3>2. playing' = playing
      BY <1>0, <1>5, <2>2, <3>1, Zenon DEF PollSend, JoinTyped, Keyable
    <3>3. QED
      BY <1>5, <3>1, <3>2, Zenon DEF PollSend, Promise!HandOver
  <2>3. QED
    BY <2>1, <2>2
<1>6. CASE OtherStarted
  BY <1>6, Zenon DEF OtherStarted, Promise!PlayOther
<1>7. CASE Finished
  BY <1>7, Zenon DEF Finished, Promise!Finish, Promise!Silent
<1>8. CASE UNCHANGED <<buf, player>>
  BY <1>8
<1>9. QED
  BY <1>0, <1>1, <1>2, <1>3, <1>4, <1>5, <1>6, <1>7, <1>8
     DEF TextEffect, ByteEffect, PollEmpty, PollBusy, text

\* The bridge implements the queue that the host relies on, for every
\* alphabet, memory and capacity.
THEOREM BridgeImplementsSendQueue == Spec => ImplementsSendQueue
<1>1. Init => Promise!Init /\ QuietInv
  BY DEF Init, Promise!Init, QuietInv
<1>2. QED
  BY <1>1, AlwaysTyped, QuietStep, QueueSimulated, PTL
     DEF Spec, ImplementsSendQueue, Promise!Spec


-----------------------------------------------------------------------------
(* The console that the bridge shares its line with.                       *)

Steps == {"rest", "owes", "send", "push", "load", "store", "head", "len"}

Items == [by : Tasks, n : 1 .. Limit]

Works == [step : Steps, item : Items \union {Nothing}, head : 0 .. L - 1, len : 0 .. L]

RingType ==
  /\ ring \in [0 .. R - 1 -> Items \union {Nothing}]
  /\ rhead \in 0 .. R - 1 /\ rlen \in 0 .. R

TapType ==
  tap \in [buf : [0 .. L - 1 -> Items \union {Nothing}], head : 0 .. L - 1, len : 0 .. L]

TaskType ==
  /\ said \in [Tasks -> 0 .. Limit]
  /\ task \in [Tasks -> Works]
  /\ \A t \in Tasks :
       ~At(t, "rest") /\ ~At(t, "owes") => task[t].item = [by |-> t, n |-> said[t]]
  /\ \A t \in Tasks : ~At(t, "rest") /\ ~At(t, "owes") => task[t].item \in Items

Lines == Items \union {Nothing, Protocol, Header, Trailer}

LineType ==
  /\ mode \in {"Console", "WinKey"}
  /\ wire \in Seq(Lines)
  /\ window \in Seq(Items) /\ taps \in Seq(Items)
  /\ late \in Nat /\ stray \in Nat /\ raced \in BOOLEAN

ReplayType ==
  /\ replay \in [step : {"none", "pending", "drain", "write"},
                 chunk : Seq(Items \union {Nothing})]
  /\ Len(replay.chunk) <= C
  /\ replay.step # "write" => replay.chunk = <<>>

ConType == RingType /\ TapType /\ TaskType /\ LineType /\ ReplayType

LEMMA ConBounds ==
  R \in Nat \ {0} /\ C \in Nat \ {0} /\ L \in Nat \ {0} /\ Limit \in Nat \ {0}
BY ConsoleBounds

\* An index less than twice the size of a ring wraps round once.
LEMMA WrapsOnce ==
  ASSUME NEW n \in Nat \ {0}, NEW x \in 0 .. 2 * n - 1
  PROVE  x % n = (IF x < n THEN x ELSE x - n) /\ x % n \in 0 .. n - 1
<1>1. CASE x < n
      BY <1>1
<1>2. CASE x >= n
      BY <1>2
<1> QED BY <1>1, <1>2

LEMMA AlwaysIndex ==
  ASSUME NEW n \in Nat \ {0}, NEW x \in Int
  PROVE  x % n \in 0 .. n - 1
OBVIOUS

\* Two of a ring's indices have two places...
LEMMA PlacesApart ==
  ASSUME NEW n \in Nat \ {0}, NEW h \in 0 .. n - 1, NEW i \in 0 .. n - 1, NEW j \in 0 .. n - 1,
         (h + i) % n = (h + j) % n
  PROVE  i = j
<1>1. \A x \in 0 .. 2 * n - 1 : x % n = IF x < n THEN x ELSE x - n
      BY WrapsOnce
<1>2. h + i \in 0 .. 2 * n - 1 /\ h + j \in 0 .. 2 * n - 1
      OBVIOUS
<1> QED BY <1>1, <1>2

\* ...n places on is the same place...
LEMMA WholeTurn ==
  ASSUME NEW n \in Nat \ {0}, NEW h \in 0 .. n - 1
  PROVE  h % n = h /\ (h + n) % n = h
<1>0. \A x \in 0 .. 2 * n - 1 : x % n = IF x < n THEN x ELSE x - n
      BY WrapsOnce
<1>1. \A x \in 0 .. 2 * n - 1 : (x < n => x % n = x) /\ (x >= n => x % n = x - n)
      BY <1>0
<1>2. h \in 0 .. 2 * n - 1 /\ h < n
      OBVIOUS
<1>3. ASSUME NEW x \in 0 .. 2 * n - 1, x = h + n
      PROVE  x % n = h
      BY <1>1, <1>3
<1>4. h + n \in 0 .. 2 * n - 1
      OBVIOUS
<1> QED BY <1>1, <1>2, <1>3, <1>4

\* ...and a head that moves on takes them along.
LEMMA PlacesShift ==
  ASSUME NEW n \in Nat \ {0}, NEW h \in 0 .. n - 1, NEW k \in 0 .. n, NEW i \in Nat, k + i <= n
  PROVE  (((h + k) % n) + i) % n = (h + k + i) % n
<1>0. \A x \in 0 .. 2 * n - 1 : x % n = IF x < n THEN x ELSE x - n
      BY WrapsOnce
<1>1. CASE k + i < n
  <2>1. h + k \in 0 .. 2 * n - 1 /\ h + k + i \in 0 .. 2 * n - 1
        BY <1>1
  <2>2. (h + k) % n = IF h + k < n THEN h + k ELSE h + k - n
        BY <2>1, <1>0
  <2>3. (h + k + i) % n = IF h + k + i < n THEN h + k + i ELSE h + k + i - n
        BY <2>1, <1>0
  <2>4. CASE h + k < n
        BY <2>2, <2>4
  <2>5. CASE h + k >= n
    <3>1. h + k - n + i \in 0 .. 2 * n - 1 /\ h + k - n + i < n /\ h + k + i >= n
          BY <1>1, <2>5
    <3>2. (h + k - n + i) % n = h + k - n + i
          BY <3>1, <1>0
    <3> QED BY <2>2, <2>3, <2>5, <3>1, <3>2
  <2> QED BY <2>4, <2>5
<1>2. CASE k + i = n
  <2>1. h + k \in 0 .. 2 * n - 1
        OBVIOUS
  <2>2. (h + k) % n = IF h + k < n THEN h + k ELSE h + k - n
        BY <2>1, <1>0
  <2>3. CASE h + k < n
        BY <2>2, <2>3
  <2>4. CASE h + k >= n
    <3>1. ((h + k) % n) + i = h /\ h \in 0 .. 2 * n - 1 /\ h < n
          BY <1>2, <2>2, <2>4
    <3>2. h % n = h
          BY <3>1, <1>0
    <3>3. h + k + i = h + n
          BY <1>2
    <3>4. h + n \in 0 .. 2 * n - 1
          OBVIOUS
    <3>5. (h + n) % n = h
          BY <3>4, <1>0
    <3> QED BY <3>1, <3>2, <3>3, <3>5
  <2> QED BY <2>3, <2>4
<1> QED BY <1>1, <1>2

-----------------------------------------------------------------------------
(* Types.                                                                  *)

LEMMA ConTypeInit ==
  ASSUME ConInit
  PROVE  ConType
<1> USE ConBounds DEF ConInit
<1>1. RingType
      BY DEF RingType
<1>2. TapType
  <2>1. [i \in 0 .. L - 1 |-> Nothing] \in [0 .. L - 1 -> Items \union {Nothing}]
        OBVIOUS
  <2> QED BY <2>1 DEF TapType
<1>3. TaskType
  <2>1. AtRest \in Works /\ AtRest.step = "rest"
        BY DEF AtRest, Works, Steps
  <2>2. task = [t \in Tasks |-> AtRest] /\ said = [t \in Tasks |-> 0]
        BY DEF Tasks
  <2>3. task \in [Tasks -> Works]
        BY <2>1, <2>2, Zenon
  <2>4. said \in [Tasks -> 0 .. Limit]
        BY <2>2
  <2>5. \A t \in Tasks : At(t, "rest")
        BY <2>1, <2>2, Zenon DEF At
  <2> QED BY <2>3, <2>4, <2>5 DEF TaskType
<1>4. LineType
  <2>1. /\ mode = "WinKey" /\ wire = <<>> /\ window = <<>> /\ taps = <<>>
        /\ late = 0 /\ stray = 0 /\ raced = FALSE
        OBVIOUS
  <2>2. \A S : <<>> \in Seq(S)
        OBVIOUS
  <2>3. wire \in Seq(Lines) /\ window \in Seq(Items) /\ taps \in Seq(Items)
        BY <2>1, <2>2, Zenon
  <2> HIDE DEF ConInit
  <2> QED BY <2>1, <2>3 DEF LineType
<1>5. ReplayType
      BY DEF ReplayType
<1> QED BY <1>1, <1>2, <1>3, <1>4, <1>5 DEF ConType

\* A task that moves on within a write changes its step alone...
LEMMA Goes ==
  ASSUME TaskType, NEW t \in Tasks, NEW s \in Steps, Goto(t, s)
  PROVE  /\ task'[t] = [task[t] EXCEPT !.step = s]
         /\ task'[t] \in Works /\ task'[t].step = s /\ task'[t].item = task[t].item
         /\ task'[t].head = task[t].head /\ task'[t].len = task[t].len
         /\ \A u \in Tasks : u # t => task'[u] = task[u]
         /\ task' \in [Tasks -> Works]
<1>1. task \in [Tasks -> Works] /\ task[t] \in Works
      BY DEF TaskType
<1>2. task'[t] = [task[t] EXCEPT !.step = s] /\ \A u \in Tasks : u # t => task'[u] = task[u]
      BY <1>1 DEF Goto
<1>3. /\ task'[t] \in Works /\ task'[t].step = s /\ task'[t].item = task[t].item
      /\ task'[t].head = task[t].head /\ task'[t].len = task[t].len
      BY <1>1, <1>2 DEF Works
<1>4. task' \in [Tasks -> Works]
      BY <1>1, <1>3 DEF Goto
<1> QED BY <1>2, <1>3, <1>4

\* ...and a task that begins, loads or ends one gets a new record.
LEMMA Moves ==
  ASSUME TaskType, NEW t \in Tasks, NEW w \in Works, task' = [task EXCEPT ![t] = w]
  PROVE  /\ task'[t] = w
         /\ \A u \in Tasks : u # t => task'[u] = task[u]
         /\ task' \in [Tasks -> Works]
BY DEF TaskType

LEMMA Begins ==
  ASSUME TaskType, NEW t \in Tasks, Begin(t)
  PROVE  /\ said' \in [Tasks -> 0 .. Limit] /\ said'[t] = said[t] + 1
         /\ \A u \in Tasks : u # t => said'[u] = said[u]
         /\ task'[t].step = IF mode = "Console" THEN "send" ELSE "push"
         /\ task'[t].item = [by |-> t, n |-> said'[t]] /\ task'[t].item \in Items
         /\ \A u \in Tasks : u # t => task'[u] = task[u]
         /\ task' \in [Tasks -> Works]
<1> DEFINE new == [step |-> IF mode = "Console" THEN "send" ELSE "push",
                   item |-> [by |-> t, n |-> said[t] + 1], head |-> 0, len |-> 0]
<1>1. /\ said' \in [Tasks -> 0 .. Limit] /\ said'[t] = said[t] + 1 /\ said[t] + 1 \in 1 .. Limit
      /\ \A u \in Tasks : u # t => said'[u] = said[u]
      BY ConBounds, SMTT(60) DEF Begin, TaskType
<1>2. [by |-> t, n |-> said[t] + 1] \in Items
      BY <1>1 DEF Items
<1>3. new \in Works
      BY <1>2, ConBounds DEF Works, Steps
<1>4. task' = [task EXCEPT ![t] = new]
      BY DEF Begin
<1>5. /\ new.step = IF mode = "Console" THEN "send" ELSE "push"
      /\ new.item = [by |-> t, n |-> said[t] + 1]
      OBVIOUS
<1> HIDE DEF new
<1>6. task'[t] = new /\ (\A u \in Tasks : u # t => task'[u] = task[u]) /\ task' \in [Tasks -> Works]
      BY <1>3, <1>4, Moves
<1> QED BY <1>1, <1>2, <1>5, <1>6

LEMMA Loads ==
  ASSUME TaskType, TapType, NEW t \in Tasks, TapLoad(t)
  PROVE  /\ task'[t].step = "store" /\ task'[t].item = task[t].item
         /\ task'[t].head = tap.head /\ task'[t].len = tap.len
         /\ \A u \in Tasks : u # t => task'[u] = task[u]
         /\ task' \in [Tasks -> Works]
<1> DEFINE new == [task[t] EXCEPT !.step = "store", !.head = tap.head, !.len = tap.len]
<1>1. task[t] \in Works /\ tap.head \in 0 .. L - 1 /\ tap.len \in 0 .. L
      BY DEF TaskType, TapType
<1>2. /\ new \in Works /\ new.step = "store" /\ new.item = task[t].item
      /\ new.head = tap.head /\ new.len = tap.len
      BY <1>1 DEF Works, Steps
<1>3. task' = [task EXCEPT ![t] = new]
      BY DEF TapLoad, TaskType
<1> HIDE DEF new
<1>4. task'[t] = new /\ (\A u \in Tasks : u # t => task'[u] = task[u]) /\ task' \in [Tasks -> Works]
      BY <1>2, <1>3, Moves
<1> QED BY <1>2, <1>4

LEMMA Ends ==
  ASSUME TaskType, NEW t \in Tasks, TapLen(t)
  PROVE  /\ task'[t].step = "rest"
         /\ \A u \in Tasks : u # t => task'[u] = task[u]
         /\ task' \in [Tasks -> Works]
<1>1. AtRest \in Works /\ AtRest.step = "rest"
      BY ConBounds DEF AtRest, Works, Steps
<1>2. task' = [task EXCEPT ![t] = AtRest]
      BY DEF TapLen
<1> HIDE DEF AtRest
<1> QED BY <1>1, <1>2, Moves

\* Which step belongs to whom, and what it leaves alone.
LEMMA ConTaskStep ==
  ASSUME ConType, [ConNext]_conVars
  PROVE  TaskType'
<1> USE DEF ConType
<1>g. ASSUME NEW t \in Tasks, NEW s \in Steps, Goto(t, s), said' = said,
             s \in {"rest", "owes"} \/ (~At(t, "rest") /\ ~At(t, "owes"))
      PROVE  TaskType'
  <2>1. /\ task'[t].step = s /\ task'[t].item = task[t].item
        /\ \A u \in Tasks : u # t => task'[u] = task[u]
        /\ task' \in [Tasks -> Works]
        BY <1>g, Goes
  <2> QED BY <1>g, <2>1 DEF TaskType, At
<1>1. ASSUME NEW t \in Tasks, Begin(t)
      PROVE  TaskType'
      BY <1>1, Begins DEF TaskType, At
<1>2. ASSUME NEW t \in Tasks, Send(t)
      PROVE  TaskType'
      BY <1>2, <1>g DEF Send, At, Steps
<1>3. ASSUME NEW t \in Tasks, RingPush(t)
      PROVE  TaskType'
      BY <1>3, <1>g DEF RingPush, Pushed, At, Steps
<1>4. ASSUME NEW t \in Tasks, TapLoad(t)
      PROVE  TaskType'
  <2>1. said' = said /\ At(t, "load")
        BY <1>4 DEF TapLoad
  <2> QED BY <1>4, <2>1, Loads DEF TaskType, At
<1>5. ASSUME NEW t \in Tasks, TapStore(t)
      PROVE  TaskType'
      BY <1>5, <1>g DEF TapStore, At, Steps
<1>6. ASSUME NEW t \in Tasks, TapHead(t)
      PROVE  TaskType'
      BY <1>6, <1>g DEF TapHead, At, Steps
<1>7. ASSUME NEW t \in Tasks, TapLen(t)
      PROVE  TaskType'
  <2>1. said' = said
        BY <1>7 DEF TapLen
  <2> QED BY <1>7, <2>1, Ends DEF TaskType, At
<1>8. CASE Reply \/ ToConsole \/ ToWinKey
  <2>1. Goto("loop", "owes") /\ said' = said
        BY <1>8 DEF Reply, ToConsole, ToWinKey
  <2> QED BY <1>g, <2>1 DEF Tasks, Steps
<1>9. CASE Pending \/ Drain \/ WriteChunk \/ Drained \/ UNCHANGED conVars
  <2>1. UNCHANGED <<task, said>>
        BY <1>9 DEF Pending, Drain, WriteChunk, Drained, conVars
  <2> QED BY <2>1 DEF TaskType, At
<1> QED BY <1>1, <1>2, <1>3, <1>4, <1>5, <1>6, <1>7, <1>8, <1>9
        DEF ConNext, Write, Tasks

LEMMA ConRingStep ==
  ASSUME ConType, [ConNext]_conVars
  PROVE  RingType'
<1> USE ConBounds DEF ConType, RingType
<1>1. ASSUME NEW t \in Tasks, RingPush(t)
      PROVE  RingType'
  <2>1. task[t].item \in Items
        BY <1>1 DEF TaskType, RingPush, At
  <2>2. ring' \in [0 .. R - 1 -> Items \union {Nothing}]
        BY <1>1, <2>1 DEF RingPush
  <2>3. (rhead + 1) % R \in 0 .. R - 1
    <3>1. rhead + 1 \in Int
          OBVIOUS
    <3> QED BY <3>1, AlwaysIndex
  <2>4. CASE rlen < R
        BY <1>1, <2>2, <2>4 DEF RingPush
  <2>5. CASE ~(rlen < R)
        BY <1>1, <2>2, <2>3, <2>5 DEF RingPush
  <2> QED BY <2>4, <2>5
<1>2. CASE Drain
  <2> DEFINE k == IF rlen < C THEN rlen ELSE C
  <2>1. k \in 0 .. rlen /\ rhead + k \in Int
        OBVIOUS
  <2>2. (rhead + k) % R \in 0 .. R - 1
        BY <2>1, AlwaysIndex
  <2>3. ring' = ring /\ rhead' = (rhead + k) % R /\ rlen' = rlen - k
        BY <1>2 DEF Drain
  <2> HIDE DEF k
  <2>4. rlen - k \in 0 .. R
        BY <2>1
  <2> QED BY <2>2, <2>3, <2>4
<1>3. CASE ToWinKey
      BY <1>3 DEF ToWinKey
<1>4. ASSUME NEW t \in Tasks, Begin(t) \/ Send(t) \/ TapLoad(t) \/ TapStore(t)
                                \/ TapHead(t) \/ TapLen(t)
      PROVE  RingType'
      BY <1>4 DEF Begin, Send, TapLoad, TapStore, TapHead, TapLen,
                  replayRing
<1>5. CASE Reply \/ ToConsole \/ Pending \/ WriteChunk \/ Drained
             \/ UNCHANGED conVars
      BY <1>5 DEF Reply, ToConsole, Pending, WriteChunk, Drained, conVars,
                  replayRing
<1> QED BY <1>1, <1>2, <1>3, <1>4, <1>5 DEF ConNext, Write, Tasks

LEMMA ConTapStep ==
  ASSUME ConType, [ConNext]_conVars
  PROVE  TapType'
<1> USE ConBounds DEF ConType, TapType
<1>0. \A t \in Tasks : task[t].head \in 0 .. L - 1 /\ task[t].len \in 0 .. L
      BY DEF TaskType, Works
<1>1. ASSUME NEW t \in Tasks, TapStore(t)
      PROVE  TapType'
  <2>1. task[t].item \in Items
        BY <1>1 DEF TaskType, TapStore, At
  <2> QED BY <1>0, <1>1, <2>1 DEF TapStore
<1>2. ASSUME NEW t \in Tasks, TapHead(t)
      PROVE  TapType'
  <2>1. (task[t].head + 1) % L \in 0 .. L - 1
    <3>1. task[t].head + 1 \in Int
          BY <1>0
    <3> QED BY <3>1, AlwaysIndex
  <2> QED BY <1>2, <2>1 DEF TapHead
<1>3. ASSUME NEW t \in Tasks, TapLen(t)
      PROVE  TapType'
  <2>1. CASE task[t].len < L
    <3>1. tap' = [tap EXCEPT !.len = task[t].len + 1] /\ task[t].len + 1 \in 0 .. L
          BY <1>0, <1>3, <2>1 DEF TapLen
    <3> QED BY <3>1
  <2>2. CASE ~(task[t].len < L)
        BY <1>3, <2>2 DEF TapLen
  <2> QED BY <2>1, <2>2
<1>4. ASSUME NEW t \in Tasks, Begin(t) \/ Send(t) \/ RingPush(t) \/ TapLoad(t)
      PROVE  TapType'
      BY <1>4 DEF Begin, Send, RingPush, TapLoad
<1>5. CASE Reply \/ ToConsole \/ Pending \/ Drain \/ WriteChunk
             \/ Drained \/ ToWinKey \/ UNCHANGED conVars
      BY <1>5 DEF Reply, ToConsole, Pending, Drain, WriteChunk, Drained,
                  ToWinKey, conVars
<1> QED BY <1>1, <1>2, <1>3, <1>4, <1>5 DEF ConNext, Write, Tasks

\* What a replay takes out of the ring.
LEMMA ChunkType ==
  ASSUME RingType, NEW k \in 0 .. rlen
  PROVE  /\ SubSeq(Held, 1, k) \in Seq(Items \union {Nothing})
         /\ Len(SubSeq(Held, 1, k)) = k
         /\ \A i \in 1 .. k : SubSeq(Held, 1, k)[i] = ring[(rhead + i - 1) % R]
<1>1. /\ ring \in [0 .. R - 1 -> Items \union {Nothing}] /\ rhead \in 0 .. R - 1
      /\ rlen \in Nat /\ R \in Nat \ {0}
      BY ConBounds DEF RingType
<1>2. \A i \in 1 .. rlen : (rhead + i - 1) % R \in 0 .. R - 1
      BY <1>1, AlwaysIndex
<1>3. \A i \in 1 .. rlen : ring[(rhead + i - 1) % R] \in Items \union {Nothing}
      BY <1>1, <1>2
<1>4. Held \in Seq(Items \union {Nothing}) /\ Len(Held) = rlen
      BY <1>1, <1>3 DEF Held
<1>5. \A i \in 1 .. rlen : Held[i] = ring[(rhead + i - 1) % R]
      BY DEF Held
<1> HIDE DEF Held
<1> QED BY <1>1, <1>4, <1>5

LEMMA ConReplayStep ==
  ASSUME ConType, [ConNext]_conVars
  PROVE  ReplayType'
<1> USE ConBounds DEF ConType, ReplayType
<1>1. CASE Drain
  <2> DEFINE k == IF rlen < C THEN rlen ELSE C
  <2>1. k \in 0 .. rlen /\ k <= C
        BY DEF RingType
  <2>2. replay' = [step |-> "write", chunk |-> SubSeq(Held, 1, k)]
        BY <1>1 DEF Drain
  <2> HIDE DEF k
  <2>3. /\ SubSeq(Held, 1, k) \in Seq(Items \union {Nothing})
        /\ Len(SubSeq(Held, 1, k)) = k
        BY <2>1, ChunkType
  <2> QED BY <2>1, <2>2, <2>3
<1>2. CASE ToConsole
      BY <1>2 DEF ToConsole, LoopFree
<1>3. CASE Pending
      BY <1>3 DEF Pending
<1>4. CASE WriteChunk
      BY <1>4 DEF WriteChunk
<1>5. CASE Drained
      BY <1>5 DEF Drained
<1>6. CASE Reply \/ ToWinKey \/ UNCHANGED conVars
      BY <1>6 DEF Reply, ToWinKey, conVars
<1>7. ASSUME NEW t \in Tasks, Write(t)
      PROVE  ReplayType'
      BY <1>7 DEF Write, Begin, Send, RingPush, Pushed, TapLoad, TapStore,
                  TapHead, TapLen
<1> QED BY <1>1, <1>2, <1>3, <1>4, <1>5, <1>6, <1>7 DEF ConNext, Tasks

LEMMA ConLineStep ==
  ASSUME ConType, [ConNext]_conVars
  PROVE  LineType'
<1> USE DEF ConType, LineType
<1>0. /\ Protocol \in Lines /\ Header \in Lines /\ Trailer \in Lines
      /\ \A x \in Items : x \in Lines
      BY DEF Lines
<1>1. ASSUME NEW t \in Tasks, Send(t)
      PROVE  LineType'
  <2>1. task[t].item \in Lines
        BY <1>0, <1>1 DEF TaskType, Send, At
  <2>2. wire' \in Seq(Lines)
        BY <1>1, <2>1 DEF Send
  <2> QED BY <1>1, <2>2 DEF Send
<1>2. ASSUME NEW t \in Tasks, RingPush(t)
      PROVE  LineType'
  <2>1. task[t].item \in Items
        BY <1>2 DEF TaskType, RingPush, At
  <2>2. window' \in Seq(Items)
        BY <1>2, <2>1 DEF RingPush, Pushed
  <2> QED BY <1>2, <2>2 DEF RingPush, Pushed
<1>3. ASSUME NEW t \in Tasks, TapLoad(t)
      PROVE  LineType'
  <2>1. task[t].item \in Items
        BY <1>3 DEF TaskType, TapLoad, At
  <2>2. taps' \in Seq(Items)
        BY <1>3, <2>1 DEF TapLoad
  <2> QED BY <1>3, <2>2 DEF TapLoad
<1>4. ASSUME NEW t \in Tasks, Begin(t) \/ TapStore(t) \/ TapHead(t) \/ TapLen(t)
      PROVE  LineType'
      BY <1>4 DEF Begin, TapStore, TapHead, TapLen
<1>5. CASE Reply \/ Pending \/ Drained
  <2>1. wire' \in Seq(Lines)
    <3>1. \/ wire' = wire
          \/ wire' = Append(wire, Protocol) \/ wire' = Append(wire, Header)
          \/ wire' = Append(wire, Trailer)
          BY <1>5 DEF Reply, Pending, Drained
    <3>2. \A x \in Lines : Append(wire, x) \in Seq(Lines)
          OBVIOUS
    <3> QED BY <1>0, <3>1, <3>2
  <2> QED BY <1>5, <2>1 DEF Reply, Pending, Drained
<1>6. CASE WriteChunk
  <2>1. replay.chunk \in Seq(Lines)
    <3>1. replay.chunk \in Seq(Items \union {Nothing})
          BY DEF ReplayType
    <3>2. Items \union {Nothing} \subseteq Lines
          BY DEF Lines
    <3> QED BY <3>1, <3>2
  <2>2. wire' \in Seq(Lines)
        BY <1>6, <2>1 DEF WriteChunk
  <2> QED BY <1>6, <2>2 DEF WriteChunk
<1>7. CASE ToWinKey
      BY <1>7 DEF ToWinKey
<1>8. CASE ToConsole
      BY <1>8 DEF ToConsole
<1>9. CASE Drain \/ UNCHANGED conVars
      BY <1>9 DEF Drain, conVars
<1> QED BY <1>1, <1>2, <1>3, <1>4, <1>5, <1>6, <1>7, <1>8, <1>9
        DEF ConNext, Write, Tasks

LEMMA ConTypeAlways == ConSpec => []ConType
<1>1. ConType /\ [ConNext]_conVars => ConType'
      BY ConTaskStep, ConRingStep, ConTapStep, ConReplayStep, ConLineStep DEF ConType
<1> QED BY <1>1, ConTypeInit, PTL DEF ConSpec

\* Whatever the sizes, no index leaves its ring.
THEOREM ConTypeCorrect == ConSpec => []ConTypeOK
<1>1. ConType => ConTypeOK
      BY DEF ConType, RingType, TapType, LineType, ReplayType, ConTypeOK
<1> QED BY <1>1, ConTypeAlways, PTL

-----------------------------------------------------------------------------
(* The switch of the mode.                                                 *)

\* A replay goes on in Console mode, where the audio task's next write will go to
\* the line: it has at most the one under way for the ring.  And in WinKey mode it
\* has at most the one under way for the line.
ModeInv ==
  /\ replay.step # "none" =>
       /\ mode = "Console" /\ At("loop", "owes")
       /\ late <= 1 /\ (At("audio", "push") => late = 0)
  /\ mode = "WinKey" =>
       /\ ~At("loop", "send")
       /\ stray <= 1 /\ (At("audio", "send") => stray = 0)

LEMMA ModeStep ==
  ASSUME ConType, ModeInv, [ConNext]_conVars
  PROVE  ModeInv'
<1>0. TaskType /\ LineType /\ "loop" \in Tasks /\ "audio" \in Tasks
      BY DEF ConType, Tasks
<1>1. ASSUME NEW t \in Tasks, Begin(t)
      PROVE  ModeInv'
  <2>1. /\ task'[t].step = IF mode = "Console" THEN "send" ELSE "push"
        /\ \A u \in Tasks : u # t => task'[u] = task[u]
        BY <1>0, <1>1, Begins
  <2>2. /\ UNCHANGED <<mode, replay, late, stray>> /\ (t = "loop" => replay.step = "none")
        BY <1>1 DEF Begin
  <2> QED BY <1>0, <2>1, <2>2 DEF ModeInv, At, LineType, Tasks
<1>2. ASSUME NEW t \in Tasks, Send(t)
      PROVE  ModeInv'
  <2>1. task'[t].step = "load" /\ \A u \in Tasks : u # t => task'[u] = task[u]
        BY <1>0, <1>2, Goes DEF Send, Steps
  <2>2. /\ UNCHANGED <<mode, replay, late>> /\ task[t].step = "send"
        /\ stray' = IF mode = "WinKey" THEN stray + 1 ELSE stray
        BY <1>2 DEF Send, At
  <2> QED BY <1>0, <2>1, <2>2 DEF ModeInv, At, LineType, Tasks
<1>3. ASSUME NEW t \in Tasks, RingPush(t)
      PROVE  ModeInv'
  <2>1. task'[t].step = "load" /\ \A u \in Tasks : u # t => task'[u] = task[u]
        BY <1>0, <1>3, Goes DEF RingPush, Pushed, Steps
  <2>2. /\ UNCHANGED <<mode, replay, stray>> /\ task[t].step = "push"
        /\ late' = IF replay.step = "none" THEN late ELSE late + 1
        BY <1>3 DEF RingPush, Pushed, At
  <2> QED BY <1>0, <2>1, <2>2 DEF ModeInv, At, LineType, Tasks
<1>4. ASSUME NEW t \in Tasks, TapLoad(t) \/ TapStore(t) \/ TapHead(t) \/ TapLen(t)
      PROVE  ModeInv'
  <2>1. UNCHANGED <<mode, replay, late, stray>> /\ task[t].step # "owes"
        BY <1>4 DEF TapLoad, TapStore, TapHead, TapLen, At
  <2>2. /\ task'[t].step \notin {"send", "push"} /\ \A u \in Tasks : u # t => task'[u] = task[u]
    <3>1. CASE TapLoad(t)
          BY <1>0, <3>1, Loads DEF ConType
    <3>2. CASE TapStore(t) \/ TapHead(t)
          BY <1>0, <3>2, Goes DEF TapStore, TapHead, Steps
    <3>3. CASE TapLen(t)
          BY <1>0, <3>3, Ends
    <3> QED BY <1>4, <3>1, <3>2, <3>3
  <2> QED BY <1>0, <2>1, <2>2 DEF ModeInv, At, LineType, Tasks
<1>5. CASE Reply \/ ToConsole \/ ToWinKey
  <2>1. Goto("loop", "owes") /\ LoopFree
        BY <1>5 DEF Reply, ToConsole, ToWinKey
  <2>2. task'["loop"].step = "owes" /\ task'["audio"] = task["audio"]
        BY <1>0, <2>1, Goes DEF Steps, Tasks
  <2>3. CASE Reply
        BY <1>0, <2>1, <2>2, <2>3 DEF Reply, ModeInv, At, LoopFree
  <2>4. CASE ToConsole
    <3>1. mode' = "Console" /\ late' = 0
          BY <2>4 DEF ToConsole
    <3> QED BY <2>2, <3>1 DEF ModeInv, At
  <2>5. CASE ToWinKey
    <3>1. replay' = replay /\ replay.step = "none" /\ stray' = 0
          BY <2>1, <2>5 DEF ToWinKey, LoopFree
    <3> QED BY <2>2, <3>1 DEF ModeInv, At
  <2> QED BY <1>5, <2>3, <2>4, <2>5
<1>6. CASE Pending \/ Drain \/ WriteChunk \/ Drained \/ UNCHANGED conVars
  <2>1. UNCHANGED <<mode, task, late, stray>> /\ (replay.step = "none" => replay' = replay)
        BY <1>6 DEF Pending, Drain, WriteChunk, Drained, conVars
  <2> QED BY <2>1 DEF ModeInv, At
<1> QED BY <1>1, <1>2, <1>3, <1>4, <1>5, <1>6 DEF ConNext, Write, Tasks

LEMMA ModeAlways == ConSpec => []ModeInv
<1>1. ConInit => ModeInv
  <2> SUFFICES ASSUME ConInit PROVE ModeInv
      OBVIOUS
  <2>1. replay.step = "none" /\ stray = 0 /\ task["loop"].step = "rest"
        BY DEF ConInit, Tasks, AtRest
  <2> QED BY <2>1 DEF ModeInv, At
<1>2. ConType /\ ModeInv /\ [ConNext]_conVars => ModeInv'
      BY ModeStep
<1> QED BY <1>1, <1>2, ConTypeAlways, PTL DEF ConSpec

\* The other task cannot keep a replay alive.
THEOREM DrainAlwaysBounded == ConSpec => []DrainIsBounded
<1>1. ModeInv => DrainIsBounded
      BY DEF ModeInv, DrainIsBounded
<1> QED BY <1>1, ModeAlways, PTL

\* In WinKey mode the line gets one log write at most.
THEOREM StraysAlwaysBounded == ConSpec => []StraysBounded
<1>1. ModeInv => StraysBounded
      BY DEF ModeInv, StraysBounded
<1> QED BY <1>1, ModeAlways, PTL

-----------------------------------------------------------------------------
(* The ring holds the end of the session.                                  *)

HeldInv ==
  /\ rlen <= Len(window)
  /\ \A i \in 1 .. rlen : ring[(rhead + i - 1) % R] = window[Len(window) - rlen + i]
  /\ mode = "WinKey" => rlen = IF Len(window) < R THEN Len(window) ELSE R

LEMMA HeldPush ==
  ASSUME ConType, HeldInv, NEW t \in Tasks, RingPush(t)
  PROVE  HeldInv'
<1> DEFINE x == task[t].item
           w == Len(window)
<1>0. /\ R \in Nat \ {0} /\ rhead \in 0 .. R - 1 /\ rlen \in 0 .. R /\ w \in Nat
      /\ ring \in [0 .. R - 1 -> Items \union {Nothing}] /\ window \in Seq(Items)
      BY ConBounds DEF ConType, RingType, LineType
<1>1. x \in Items
      BY DEF RingPush, At, ConType, TaskType
<1>2. window' = Append(window, x) /\ ring' = [ring EXCEPT ![(rhead + rlen) % R] = x] /\ mode' = mode
      BY DEF RingPush, Pushed
<1>3. Len(window') = w + 1 /\ window'[w + 1] = x /\ \A i \in 1 .. w : window'[i] = window[i]
      BY <1>0, <1>1, <1>2
<1>4. (rhead + rlen) % R \in 0 .. R - 1 /\ (rhead + rlen) \in Int
      BY <1>0, AlwaysIndex
<1>5. /\ ring'[(rhead + rlen) % R] = x
      /\ \A j \in 0 .. R - 1 : j # (rhead + rlen) % R => ring'[j] = ring[j]
      BY <1>0, <1>2, <1>4
<1> HIDE DEF x
<1>6. CASE rlen < R
  <2>1. rlen' = rlen + 1 /\ rhead' = rhead
        BY <1>6 DEF RingPush
  <2>2. ASSUME NEW i \in 1 .. rlen
        PROVE  ring'[(rhead + i - 1) % R] = window'[w - rlen + i]
    <3>1. i - 1 \in 0 .. R - 1 /\ rlen \in 0 .. R - 1 /\ i - 1 # rlen /\ w - rlen + i \in 1 .. w
          /\ rhead + i - 1 \in Int /\ rhead + i - 1 = rhead + (i - 1)
          BY <1>0, <1>6 DEF HeldInv
    <3>2. (rhead + i - 1) % R # (rhead + rlen) % R
          BY <1>0, <3>1, PlacesApart
    <3>3. (rhead + i - 1) % R \in 0 .. R - 1
          BY <1>0, <3>1, AlwaysIndex
    <3>4. ring[(rhead + i - 1) % R] = window[w - rlen + i]
          BY DEF HeldInv
    <3> QED BY <1>3, <1>5, <3>1, <3>2, <3>3, <3>4
  <2>3. ring'[(rhead + (rlen + 1) - 1) % R] = window'[w + 1]
    <3>1. rhead + (rlen + 1) - 1 = rhead + rlen
          BY <1>0
    <3> QED BY <1>3, <1>5, <3>1
  <2>4. \A i \in 1 .. rlen + 1 : ring'[(rhead + i - 1) % R] = window'[(w + 1) - (rlen + 1) + i]
    <3> SUFFICES ASSUME NEW i \in 1 .. rlen + 1
                 PROVE  ring'[(rhead + i - 1) % R] = window'[(w + 1) - (rlen + 1) + i]
        OBVIOUS
    <3>1. (w + 1) - (rlen + 1) + i = w - rlen + i
          BY <1>0
    <3>2. CASE i \in 1 .. rlen
          BY <2>2, <3>1, <3>2
    <3>3. CASE i = rlen + 1
      <4>1. (w + 1) - (rlen + 1) + i = w + 1
            BY <1>0, <3>3
      <4> HIDE DEF w
      <4> QED BY <2>3, <3>3, <4>1, Zenon
    <3> QED BY <1>0, <3>2, <3>3
  <2>5. mode = "WinKey" => w = rlen
        BY <1>0, <1>6 DEF HeldInv
  <2>6. rlen + 1 <= w + 1 /\ (mode = "WinKey" => rlen + 1 = IF w + 1 < R THEN w + 1 ELSE R)
        BY <1>0, <1>6, <2>5 DEF HeldInv
  <2> QED BY <1>2, <1>3, <2>1, <2>4, <2>6 DEF HeldInv
<1>7. CASE rlen = R
  <2>1. rlen' = R /\ rhead' = (rhead + 1) % R
        BY <1>0, <1>7 DEF RingPush
  <2>2. (rhead + rlen) % R = (rhead + 0) % R
    <3>1. rhead % R = rhead /\ (rhead + R) % R = rhead
          BY <1>0, WholeTurn
    <3>2. rhead + 0 = rhead
          BY <1>0
    <3> QED BY <1>7, <3>1, <3>2
  <2>3. ASSUME NEW i \in 1 .. R
        PROVE  ring'[(((rhead + 1) % R) + i - 1) % R] = window'[(w + 1) - R + i]
    <3>1. /\ 1 \in 0 .. R /\ i - 1 \in Nat /\ 1 + (i - 1) <= R
          /\ rhead + 1 + (i - 1) = rhead + i
          BY <1>0
    <3>a. (((rhead + 1) % R) + (i - 1)) % R = (rhead + 1 + (i - 1)) % R
          BY <1>0, <3>1, PlacesShift
    <3>2. (((rhead + 1) % R) + (i - 1)) % R = (rhead + i) % R
          BY <3>1, <3>a, Zenon
    <3>3. ((rhead + 1) % R) + i - 1 = ((rhead + 1) % R) + (i - 1)
      <4>1. rhead + 1 \in Int
            BY <1>0
      <4>2. (rhead + 1) % R \in 0 .. R - 1
            BY <1>0, <4>1, AlwaysIndex
      <4> HIDE DEF w
      <4> QED BY <4>2
    <3>4. CASE i < R
      <4>1. i \in 0 .. R - 1 /\ 0 \in 0 .. R - 1 /\ i # 0 /\ rhead + i \in Int
            BY <1>0, <3>4
      <4>2. (rhead + i) % R # (rhead + rlen) % R
            BY <1>0, <2>2, <4>1, PlacesApart
      <4>3. (rhead + i) % R \in 0 .. R - 1
            BY <1>0, <4>1, AlwaysIndex
      <4>4. i + 1 \in 1 .. rlen /\ rhead + (i + 1) - 1 = rhead + i /\ w - rlen + (i + 1) = (w + 1) - R + i
            BY <1>0, <1>7, <3>4
      <4>5. ring[(rhead + i) % R] = window[(w + 1) - R + i]
            BY <4>4 DEF HeldInv
      <4>6. (w + 1) - R + i \in 1 .. w
            BY <1>0, <1>7, <3>4 DEF HeldInv
      <4>7. ring'[(rhead + i) % R] = ring[(rhead + i) % R]
            BY <1>5, <4>2, <4>3, Zenon
      <4>8. window'[(w + 1) - R + i] = window[(w + 1) - R + i]
            BY <1>3, <4>6, Zenon
      <4>9. ring'[(((rhead + 1) % R) + i - 1) % R] = ring'[(rhead + i) % R]
            BY <3>2, <3>3, Zenon
      <4>10. ring'[(rhead + i) % R] = window'[(w + 1) - R + i]
            BY <4>5, <4>7, <4>8, Zenon
      <4> QED BY <4>9, <4>10
    <3>5. CASE i = R
      <4>1. (w + 1) - R + i = w + 1
            BY <1>0, <3>5
      <4> QED BY <1>3, <1>5, <1>7, <3>2, <3>3, <3>5, <4>1
    <3> QED BY <1>0, <3>4, <3>5
  <2>4. R <= w + 1 /\ (mode = "WinKey" => R = IF w + 1 < R THEN w + 1 ELSE R)
        BY <1>0, <1>7 DEF HeldInv
  <2> QED BY <1>2, <1>3, <2>1, <2>3, <2>4 DEF HeldInv
<1> QED BY <1>0, <1>6, <1>7

LEMMA HeldDrain ==
  ASSUME ConType, ModeInv, HeldInv, Drain
  PROVE  HeldInv'
<1> DEFINE k == IF rlen < C THEN rlen ELSE C
           w == Len(window)
<1>0. /\ R \in Nat \ {0} /\ C \in Nat \ {0} /\ rhead \in 0 .. R - 1 /\ rlen \in 0 .. R /\ w \in Nat
      BY ConBounds DEF ConType, RingType, LineType
<1>1. k \in 0 .. rlen
      BY <1>0
<1>2. /\ rhead' = (rhead + k) % R /\ rlen' = rlen - k
      /\ UNCHANGED <<ring, window, mode>> /\ replay.step = "drain"
      BY DEF Drain
<1> HIDE DEF k
<1>3. ASSUME NEW i \in 1 .. rlen - k
      PROVE  ring[(((rhead + k) % R) + i - 1) % R] = window[w - (rlen - k) + i]
  <2>1. k \in 0 .. R /\ i - 1 \in Nat /\ k + (i - 1) <= R /\ rhead + k \in Int
        BY <1>0, <1>1
  <2>2. (((rhead + k) % R) + (i - 1)) % R = (rhead + k + (i - 1)) % R
        BY <1>0, <2>1, PlacesShift
  <2>3. (rhead + k) % R \in 0 .. R - 1
        BY <1>0, <2>1, AlwaysIndex
  <2>4. ((rhead + k) % R) + (i - 1) = ((rhead + k) % R) + i - 1
        BY <2>3
  <2>5. k + i \in 1 .. rlen /\ rhead + (k + i) - 1 = rhead + k + (i - 1)
        /\ w - rlen + (k + i) = w - (rlen - k) + i
        BY <1>0, <1>1
  <2>6. ring[(rhead + (k + i) - 1) % R] = window[w - rlen + (k + i)]
        BY <2>5 DEF HeldInv
  <2> QED BY <2>2, <2>4, <2>5, <2>6
<1>4. rlen - k <= w /\ mode # "WinKey"
      BY <1>0, <1>1, <1>2 DEF HeldInv, ModeInv
<1> QED BY <1>2, <1>3, <1>4 DEF HeldInv

LEMMA HeldStep ==
  ASSUME ConType, ModeInv, HeldInv, [ConNext]_conVars
  PROVE  HeldInv'
<1>1. ASSUME NEW t \in Tasks, RingPush(t)
      PROVE  HeldInv'
      BY <1>1, HeldPush
<1>2. CASE Drain
      BY <1>2, HeldDrain
<1>3. CASE ToWinKey
  <2>1. rlen' = 0 /\ window' = <<>>
        BY <1>3 DEF ToWinKey
  <2>2. Len(<<>>) = 0 /\ R \in Nat \ {0}
        BY ConBounds
  <2> QED BY <2>1, <2>2 DEF HeldInv
<1>4. CASE ToConsole
  <2>1. mode' = "Console" /\ UNCHANGED <<ring, rhead, rlen, window>>
        BY <1>4 DEF ToConsole, replayRing
  <2> QED BY <2>1 DEF HeldInv
<1>5. ASSUME NEW t \in Tasks, Begin(t) \/ Send(t) \/ TapLoad(t) \/ TapStore(t)
                                \/ TapHead(t) \/ TapLen(t)
      PROVE  HeldInv'
  <2>1. UNCHANGED <<mode, ring, rhead, rlen, window>>
        BY <1>5 DEF Begin, Send, TapLoad, TapStore, TapHead, TapLen,
                    replayRing
  <2> QED BY <2>1 DEF HeldInv
<1>6. CASE Reply \/ Pending \/ WriteChunk \/ Drained \/ UNCHANGED conVars
  <2>1. UNCHANGED <<mode, ring, rhead, rlen, window>>
        BY <1>6 DEF Reply, Pending, WriteChunk, Drained, conVars, replayRing
  <2> QED BY <2>1 DEF HeldInv
<1> QED BY <1>1, <1>2, <1>3, <1>4, <1>5, <1>6 DEF ConNext, Write, Tasks

LEMMA HeldAlways == ConSpec => []HeldInv
<1>1. ConInit => HeldInv
  <2> SUFFICES ASSUME ConInit PROVE HeldInv
      OBVIOUS
  <2>1. rlen = 0 /\ window = <<>>
        BY DEF ConInit
  <2>2. Len(<<>>) = 0 /\ R \in Nat \ {0}
        BY ConBounds
  <2> QED BY <2>1, <2>2 DEF HeldInv
<1>2. ConType /\ ModeInv /\ HeldInv /\ [ConNext]_conVars => HeldInv'
      BY HeldStep
<1> QED BY <1>1, <1>2, ConTypeAlways, ModeAlways, PTL DEF ConSpec

\* The end of a sequence.
LEMMA EndOf ==
  ASSUME NEW S, NEW s \in Seq(S), NEW k \in Nat
  PROVE  LET m == IF Len(s) > k THEN k ELSE Len(s)
         IN  /\ LastOf(s, k) \in Seq(S) /\ Len(LastOf(s, k)) = m
             /\ \A i \in 1 .. m : LastOf(s, k)[i] = s[Len(s) - m + i]
<1>1. CASE Len(s) > k
      BY <1>1 DEF LastOf
<1>2. CASE ~(Len(s) > k)
      BY <1>2 DEF LastOf
<1> QED BY <1>1, <1>2

\* In WinKey mode the ring holds the newest writes of the session.
THEOREM ConRingAlways == ConSpec => []RingHoldsSession
<1>1. ConType /\ HeldInv => RingHoldsSession
  <2> SUFFICES ASSUME ConType, HeldInv, mode = "WinKey"
               PROVE  Held = LastOf(window, R)
      BY DEF RingHoldsSession
  <2>1. window \in Seq(Items) /\ R \in Nat /\ rlen \in Nat /\ Len(window) \in Nat
        BY ConBounds DEF ConType, LineType, RingType
  <2>2. rlen = IF Len(window) > R THEN R ELSE Len(window)
        BY <2>1 DEF HeldInv
  <2>3. /\ LastOf(window, R) \in Seq(Items) /\ Len(LastOf(window, R)) = rlen
        /\ \A i \in 1 .. rlen : LastOf(window, R)[i] = window[Len(window) - rlen + i]
        BY <2>1, <2>2, EndOf
  <2>4. LastOf(window, R) = [i \in 1 .. rlen |-> LastOf(window, R)[i]]
        BY <2>1, <2>3
  <2>5. \A i \in 1 .. rlen : ring[(rhead + i - 1) % R] = LastOf(window, R)[i]
        BY <2>3 DEF HeldInv
  <2> QED BY <2>4, <2>5 DEF Held
<1> QED BY <1>1, ConTypeAlways, HeldAlways, PTL

-----------------------------------------------------------------------------
(* A replay is exact.                                                      *)

OnWire(x) == \E j \in 1 .. Len(wire) : wire[j] = x

InWindow(x) == \E j \in 1 .. Len(window) : window[j] = x

\* A write that is out carries a number that its task has reached, and, while the
\* task has its next one under way, passed.
FreshInv ==
  \A x \in Items :
    OnWire(x) \/ InWindow(x) =>
      /\ x.n <= said[x.by]
      /\ At(x.by, "send") \/ At(x.by, "push") => x.n < said[x.by]

\* How many of the session have left the ring and the chunk.
Gone == Len(window) - rlen - Len(replay.chunk)

\* The chunk is what stood before the ring's writes in the session.  What is in
\* either is not yet on the line, what has left both is, unless a newer write has
\* taken its place in the ring; and nothing is on the line twice.
ExactInv ==
  /\ Gone >= 0
  /\ \A i, j \in 1 .. Len(window) : window[i] = window[j] => i = j
  /\ \A i \in 1 .. Len(replay.chunk) : replay.chunk[i] = window[Gone + i]
  /\ \A i \in 1 .. Len(window) : i > Gone => ~OnWire(window[i])
  /\ \A i \in 1 .. Len(window) : i <= Gone /\ i > Len(window) - R => OnWire(window[i])
  /\ \A i, j \in 1 .. Len(wire) : wire[i] = wire[j] /\ wire[i] \in Items => i = j

\* A chunk leaves the ring the place for the one write that may come before it is
\* written: what it holds cannot be overtaken.
SpareInv == replay.step = "write" /\ late = 0 => rlen + Len(replay.chunk) <= R

LEMMA WireGrows ==
  ASSUME LineType, NEW y \in Lines, wire' = Append(wire, y)
  PROVE  /\ Len(wire') = Len(wire) + 1 /\ wire'[Len(wire) + 1] = y
         /\ \A i \in 1 .. Len(wire) : wire'[i] = wire[i]
         /\ \A x : OnWire(x)' <=> OnWire(x) \/ x = y
<1>1. wire \in Seq(Lines) /\ Len(wire) \in Nat
      BY DEF LineType
<1>2. /\ Len(wire') = Len(wire) + 1 /\ wire'[Len(wire) + 1] = y
      /\ \A i \in 1 .. Len(wire) : wire'[i] = wire[i]
      BY <1>1
<1>3. ASSUME NEW x
      PROVE  OnWire(x)' <=> OnWire(x) \/ x = y
  <2>1. \A j \in 1 .. Len(wire) + 1 : j \in 1 .. Len(wire) \/ j = Len(wire) + 1
        BY <1>1
  <2>2. Len(wire) + 1 \in 1 .. Len(wire) + 1 /\ 1 .. Len(wire) \subseteq 1 .. Len(wire) + 1
        BY <1>1
  <2> QED BY <1>2, <2>1, <2>2 DEF OnWire
<1> QED BY <1>2, <1>3

LEMMA WindowGrows ==
  ASSUME LineType, NEW y \in Items, window' = Append(window, y)
  PROVE  /\ Len(window') = Len(window) + 1 /\ window'[Len(window) + 1] = y
         /\ \A i \in 1 .. Len(window) : window'[i] = window[i]
         /\ \A x : InWindow(x)' <=> InWindow(x) \/ x = y
<1>1. window \in Seq(Items) /\ Len(window) \in Nat
      BY DEF LineType
<1>2. /\ Len(window') = Len(window) + 1 /\ window'[Len(window) + 1] = y
      /\ \A i \in 1 .. Len(window) : window'[i] = window[i]
      BY <1>1
<1>3. ASSUME NEW x
      PROVE  InWindow(x)' <=> InWindow(x) \/ x = y
  <2>1. \A j \in 1 .. Len(window) + 1 : j \in 1 .. Len(window) \/ j = Len(window) + 1
        BY <1>1
  <2>2. Len(window) + 1 \in 1 .. Len(window) + 1 /\ 1 .. Len(window) \subseteq 1 .. Len(window) + 1
        BY <1>1
  <2> QED BY <1>2, <2>1, <2>2 DEF InWindow
<1> QED BY <1>2, <1>3

\* The write of a task that is about to send or push it is new.
LEMMA FreshItem ==
  ASSUME ConType, FreshInv, NEW t \in Tasks, At(t, "send") \/ At(t, "push")
  PROVE  /\ task[t].item \in Items /\ task[t].item \in Lines
         /\ task[t].item.by = t /\ task[t].item.n = said[t]
         /\ ~OnWire(task[t].item) /\ ~InWindow(task[t].item)
<1>1. /\ task[t].item \in Items /\ task[t].item.by = t /\ task[t].item.n = said[t]
  <2>1. ~At(t, "rest") /\ ~At(t, "owes")
        BY DEF At
  <2>2. task[t].item = [by |-> t, n |-> said[t]] /\ task[t].item \in Items
        BY <2>1 DEF ConType, TaskType
  <2> QED BY <2>2
<1>2. task[t].item \in Lines /\ said[t] \in Nat
      BY <1>1 DEF Lines, ConType, TaskType
<1>3. OnWire(task[t].item) \/ InWindow(task[t].item) => said[t] < said[t]
      BY <1>1 DEF FreshInv
<1> QED BY <1>1, <1>2, <1>3

LEMMA NotWrites ==
  /\ Protocol \in Lines /\ Header \in Lines /\ Trailer \in Lines
  /\ Protocol \notin Items /\ Header \notin Items /\ Trailer \notin Items
BY DEF Lines, Items, Tasks, Protocol, Header, Trailer

\* What is on the line when a chunk has been written.
LEMMA ChunkOut ==
  ASSUME ConType, WriteChunk
  PROVE  /\ Len(wire') = Len(wire) + Len(replay.chunk)
         /\ \A i \in 1 .. Len(wire) : wire'[i] = wire[i]
         /\ \A i \in 1 .. Len(replay.chunk) : wire'[Len(wire) + i] = replay.chunk[i]
         /\ \A j \in 1 .. Len(wire') :
              j \in 1 .. Len(wire) \/ \E i \in 1 .. Len(replay.chunk) : j = Len(wire) + i
         /\ \A x : OnWire(x)' <=>
                   OnWire(x) \/ \E i \in 1 .. Len(replay.chunk) : replay.chunk[i] = x
<1>1. /\ wire \in Seq(Lines) /\ replay.chunk \in Seq(Items \union {Nothing})
      /\ Len(wire) \in Nat /\ Len(replay.chunk) \in Nat
      BY DEF ConType, LineType, ReplayType
<1>2. replay.chunk \in Seq(Lines)
  <2>1. Items \union {Nothing} \subseteq Lines
        BY DEF Lines
  <2> QED BY <1>1, <2>1
<1>3. wire' = wire \o replay.chunk
      BY DEF WriteChunk
<1>4. /\ Len(wire') = Len(wire) + Len(replay.chunk)
      /\ \A i \in 1 .. Len(wire) : wire'[i] = wire[i]
      /\ \A i \in 1 .. Len(replay.chunk) : wire'[Len(wire) + i] = replay.chunk[i]
      BY <1>1, <1>2, <1>3
<1>5. \A j \in 1 .. Len(wire') :
        j \in 1 .. Len(wire) \/ \E i \in 1 .. Len(replay.chunk) : j = Len(wire) + i
  <2> SUFFICES ASSUME NEW j \in 1 .. Len(wire'), j \notin 1 .. Len(wire)
               PROVE  \E i \in 1 .. Len(replay.chunk) : j = Len(wire) + i
      OBVIOUS
  <2>1. j - Len(wire) \in 1 .. Len(replay.chunk) /\ j = Len(wire) + (j - Len(wire))
        BY <1>1, <1>4
  <2> QED BY <2>1
<1>6. ASSUME NEW x
      PROVE  OnWire(x)' <=> OnWire(x) \/ \E i \in 1 .. Len(replay.chunk) : replay.chunk[i] = x
  <2>1. \A i \in 1 .. Len(replay.chunk) : Len(wire) + i \in 1 .. Len(wire')
        BY <1>1, <1>4
  <2>2. \A i \in 1 .. Len(wire) : i \in 1 .. Len(wire')
        BY <1>1, <1>4
  <2>3. ASSUME OnWire(x)'
        PROVE  OnWire(x) \/ \E i \in 1 .. Len(replay.chunk) : replay.chunk[i] = x
    <3>1. PICK j \in 1 .. Len(wire') : wire'[j] = x
          BY <2>3 DEF OnWire
    <3>2. CASE j \in 1 .. Len(wire)
          BY <1>4, <3>1, <3>2 DEF OnWire
    <3>3. CASE \E i \in 1 .. Len(replay.chunk) : j = Len(wire) + i
          BY <1>4, <3>1, <3>3
    <3> QED BY <1>5, <3>2, <3>3
  <2>4. ASSUME OnWire(x)
        PROVE  OnWire(x)'
        BY <1>4, <2>2, <2>4 DEF OnWire
  <2>5. ASSUME NEW i \in 1 .. Len(replay.chunk), replay.chunk[i] = x
        PROVE  OnWire(x)'
        BY <1>4, <2>1, <2>5 DEF OnWire
  <2> QED BY <2>3, <2>4, <2>5
<1> QED BY <1>4, <1>5, <1>6

LEMMA FreshStep ==
  ASSUME ConType, FreshInv, ExactInv, [ConNext]_conVars
  PROVE  FreshInv'
<1>0. /\ TaskType /\ LineType /\ (\A x \in Items : x.by \in Tasks /\ x.n \in Nat)
      /\ \A t \in Tasks : said[t] \in Nat
      BY ConBounds DEF ConType, Items, TaskType
<1>1. ASSUME NEW t \in Tasks, Begin(t)
      PROVE  FreshInv'
  <2>1. /\ said'[t] = said[t] + 1 /\ \A u \in Tasks : u # t => said'[u] = said[u]
        /\ \A u \in Tasks : u # t => task'[u] = task[u]
        BY <1>0, <1>1, Begins
  <2>2. UNCHANGED <<wire, window>>
        BY <1>1 DEF Begin
  <2> QED BY <1>0, <2>1, <2>2 DEF FreshInv, OnWire, InWindow, At
<1>2. ASSUME NEW t \in Tasks, Send(t)
      PROVE  FreshInv'
  <2>1. task'[t].step = "load" /\ \A u \in Tasks : u # t => task'[u] = task[u]
        BY <1>0, <1>2, Goes DEF Send, Steps
  <2>2. /\ UNCHANGED <<said, window>> /\ wire' = Append(wire, task[t].item) /\ At(t, "send")
        BY <1>2 DEF Send
  <2>3. task[t].item \in Lines /\ task[t].item.by = t /\ task[t].item.n = said[t]
        BY <2>2, FreshItem
  <2>4. \A x : OnWire(x)' <=> OnWire(x) \/ x = task[t].item
        BY <1>0, <2>2, <2>3, WireGrows
  <2>5. \A x : InWindow(x)' <=> InWindow(x)
        BY <2>2 DEF InWindow
  <2> SUFFICES ASSUME NEW x \in Items, OnWire(x)' \/ InWindow(x)'
               PROVE  /\ x.n <= said[x.by]
                      /\ (At(x.by, "send") \/ At(x.by, "push"))' => x.n < said[x.by]
      BY <2>2 DEF FreshInv
  <2>6. CASE x = task[t].item
        BY <1>0, <2>1, <2>3, <2>6 DEF At
  <2>7. CASE x # task[t].item
    <3>1. OnWire(x) \/ InWindow(x)
          BY <2>4, <2>5, <2>7
    <3>2. At(x.by, "send")' \/ At(x.by, "push")' => At(x.by, "send") \/ At(x.by, "push")
          BY <1>0, <2>1 DEF At
    <3> QED BY <3>1, <3>2 DEF FreshInv
  <2> QED BY <2>6, <2>7
<1>3. ASSUME NEW t \in Tasks, RingPush(t)
      PROVE  FreshInv'
  <2>1. task'[t].step = "load" /\ \A u \in Tasks : u # t => task'[u] = task[u]
        BY <1>0, <1>3, Goes DEF RingPush, Pushed, Steps
  <2>2. /\ UNCHANGED <<said, wire>> /\ window' = Append(window, task[t].item) /\ At(t, "push")
        BY <1>3 DEF RingPush, Pushed
  <2>3. task[t].item \in Items /\ task[t].item.by = t /\ task[t].item.n = said[t]
        BY <2>2, FreshItem
  <2>4. \A x : InWindow(x)' <=> InWindow(x) \/ x = task[t].item
        BY <1>0, <2>2, <2>3, WindowGrows
  <2>5. \A x : OnWire(x)' <=> OnWire(x)
        BY <2>2 DEF OnWire
  <2> SUFFICES ASSUME NEW x \in Items, OnWire(x)' \/ InWindow(x)'
               PROVE  /\ x.n <= said[x.by]
                      /\ (At(x.by, "send") \/ At(x.by, "push"))' => x.n < said[x.by]
      BY <2>2 DEF FreshInv
  <2>6. CASE x = task[t].item
        BY <1>0, <2>1, <2>3, <2>6 DEF At
  <2>7. CASE x # task[t].item
    <3>1. OnWire(x) \/ InWindow(x)
          BY <2>4, <2>5, <2>7
    <3>2. At(x.by, "send")' \/ At(x.by, "push")' => At(x.by, "send") \/ At(x.by, "push")
          BY <1>0, <2>1 DEF At
    <3> QED BY <3>1, <3>2 DEF FreshInv
  <2> QED BY <2>6, <2>7
<1>4. ASSUME NEW t \in Tasks, TapLoad(t) \/ TapStore(t) \/ TapHead(t) \/ TapLen(t)
      PROVE  FreshInv'
  <2>1. UNCHANGED <<said, wire, window>>
        BY <1>4 DEF TapLoad, TapStore, TapHead, TapLen
  <2>2. /\ task'[t].step \notin {"send", "push"} /\ \A u \in Tasks : u # t => task'[u] = task[u]
    <3>1. CASE TapLoad(t)
          BY <1>0, <3>1, Loads DEF ConType
    <3>2. CASE TapStore(t) \/ TapHead(t)
          BY <1>0, <3>2, Goes DEF TapStore, TapHead, Steps
    <3>3. CASE TapLen(t)
          BY <1>0, <3>3, Ends
    <3> QED BY <1>4, <3>1, <3>2, <3>3
  <2> QED BY <1>0, <2>1, <2>2 DEF FreshInv, OnWire, InWindow, At
<1>5. CASE Reply \/ ToConsole \/ ToWinKey \/ Pending \/ Drained
  <2>1. said' = said /\ \A u \in Tasks : task'[u] = task[u] \/ task'[u].step = "owes"
    <3>1. CASE Reply \/ ToConsole \/ ToWinKey
      <4>1. Goto("loop", "owes") /\ said' = said
            BY <3>1 DEF Reply, ToConsole, ToWinKey
      <4> QED BY <1>0, <4>1, Goes DEF Steps, Tasks
    <3>2. CASE Pending \/ Drained
          BY <3>2 DEF Pending, Drained
    <3> QED BY <1>5, <3>1, <3>2
  <2>2. \A x \in Items : OnWire(x)' <=> OnWire(x)
    <3>1. \/ wire' = wire
          \/ \E y \in {Protocol, Header, Trailer} : wire' = Append(wire, y)
          BY <1>5 DEF Reply, ToConsole, ToWinKey, Pending, Drained
    <3>2. CASE wire' = wire
          BY <3>2 DEF OnWire
    <3>3. ASSUME NEW y \in {Protocol, Header, Trailer}, wire' = Append(wire, y)
          PROVE  \A x \in Items : OnWire(x)' <=> OnWire(x)
          BY <1>0, <3>3, WireGrows, NotWrites
    <3> QED BY <3>1, <3>2, <3>3
  <2>3. \A x : InWindow(x)' => InWindow(x)
    <3>1. window' = window \/ window' = <<>>
          BY <1>5 DEF Reply, ToConsole, ToWinKey, Pending, Drained
    <3>2. Len(<<>>) = 0 /\ 1 .. 0 = {}
          OBVIOUS
    <3> QED BY <3>1, <3>2 DEF InWindow
  <2> QED BY <1>0, <2>1, <2>2, <2>3 DEF FreshInv, At
<1>6. CASE WriteChunk
  <2>1. UNCHANGED <<task, said, window>>
        BY <1>6 DEF WriteChunk
  <2>2. \A x \in Items : OnWire(x)' => OnWire(x) \/ InWindow(x)
    <3>1. ASSUME NEW i \in 1 .. Len(replay.chunk)
          PROVE  InWindow(replay.chunk[i])
      <4>1. replay.chunk[i] = window[Gone + i]
            BY DEF ExactInv
      <4>2. Gone + i \in 1 .. Len(window)
            BY DEF ExactInv, Gone, ConType, LineType, ReplayType, RingType
      <4> QED BY <4>1, <4>2 DEF InWindow
    <3> QED BY <1>6, <3>1, ChunkOut
  <2>3. \A x : InWindow(x)' <=> InWindow(x)
        BY <2>1 DEF InWindow
  <2> QED BY <2>1, <2>2, <2>3 DEF FreshInv, At
<1>7. CASE Drain \/ UNCHANGED conVars
  <2>1. UNCHANGED <<task, said, wire, window>>
        BY <1>7 DEF Drain, conVars
  <2> QED BY <2>1 DEF FreshInv, OnWire, InWindow, At
<1> QED BY <1>1, <1>2, <1>3, <1>4, <1>5, <1>6, <1>7 DEF ConNext, Write, Tasks

LEMMA SpareStep ==
  ASSUME ConType, ModeInv, SpareInv, [ConNext]_conVars
  PROVE  SpareInv'
<1>0. rlen \in 0 .. R /\ R \in Nat /\ C \in Nat /\ late \in Nat
      BY ConBounds DEF ConType, RingType, LineType
<1>1. ASSUME NEW t \in Tasks, RingPush(t)
      PROVE  SpareInv'
  <2>1. /\ replay' = replay /\ late' = IF replay.step = "none" THEN late ELSE late + 1
        BY <1>1 DEF RingPush, Pushed
  <2> QED BY <1>0, <2>1 DEF SpareInv
<1>2. CASE Drain
  <2> DEFINE k == IF rlen < C THEN rlen ELSE C
  <2>1. k \in 0 .. rlen
        BY <1>0
  <2>2. replay' = [step |-> "write", chunk |-> SubSeq(Held, 1, k)] /\ rlen' = rlen - k
        BY <1>2 DEF Drain
  <2> HIDE DEF k
  <2>3. Len(SubSeq(Held, 1, k)) = k
        BY <2>1, ChunkType DEF ConType
  <2> QED BY <1>0, <2>1, <2>2, <2>3 DEF SpareInv
<1>3. CASE ToConsole \/ Pending \/ WriteChunk \/ Drained
  <2>1. replay'.step # "write"
        BY <1>3 DEF ToConsole, Pending, WriteChunk, Drained, ConType, ReplayType
  <2> QED BY <2>1 DEF SpareInv
<1>4. CASE ToWinKey
  <2>1. replay'.step # "write"
        BY <1>4 DEF ToWinKey, LoopFree
  <2> QED BY <2>1 DEF SpareInv
<1>5. ASSUME NEW t \in Tasks, Begin(t) \/ Send(t) \/ TapLoad(t) \/ TapStore(t)
                                \/ TapHead(t) \/ TapLen(t)
      PROVE  SpareInv'
  <2>1. UNCHANGED <<rlen, replay, late>>
        BY <1>5 DEF Begin, Send, TapLoad, TapStore, TapHead, TapLen,
                    replayRing
  <2> QED BY <2>1 DEF SpareInv
<1>6. CASE Reply \/ UNCHANGED conVars
  <2>1. UNCHANGED <<rlen, replay, late>>
        BY <1>6 DEF Reply, conVars, replayRing
  <2> QED BY <2>1 DEF SpareInv
<1> QED BY <1>1, <1>2, <1>3, <1>4, <1>5, <1>6 DEF ConNext, Write, Tasks

\* A write to the line that is new there and in the session, or no log write at all,
\* leaves a replay exact.
LEMMA ExactSend ==
  ASSUME ConType, ExactInv, NEW y \in Lines, wire' = Append(wire, y),
         y \in Items => ~OnWire(y) /\ ~InWindow(y),
         rlen' = rlen, window' = window, replay'.chunk = replay.chunk
  PROVE  ExactInv'
<1>0. /\ window \in Seq(Items) /\ LineType /\ wire \in Seq(Lines) /\ Gone' = Gone
      /\ \A i \in 1 .. Len(window) : window[i] \in Items
      BY DEF ConType, LineType, Gone
<1>1. /\ Len(wire') = Len(wire) + 1 /\ wire'[Len(wire) + 1] = y
      /\ \A i \in 1 .. Len(wire) : wire'[i] = wire[i]
      /\ \A x : OnWire(x)' <=> OnWire(x) \/ x = y
      BY <1>0, WireGrows
<1>2. \A i \in 1 .. Len(window) : window[i] # y
      BY <1>0 DEF InWindow
<1>3. \A i \in 1 .. Len(window) : i > Gone => ~OnWire(window[i])'
      BY <1>1, <1>2 DEF ExactInv
<1>4. \A i \in 1 .. Len(window) : i <= Gone /\ i > Len(window) - R => OnWire(window[i])'
      BY <1>1 DEF ExactInv
<1>5. ASSUME NEW i \in 1 .. Len(wire'), NEW j \in 1 .. Len(wire'),
             wire'[i] = wire'[j], wire'[i] \in Items
      PROVE  i = j
  <2>1. i \in 1 .. Len(wire) \/ i = Len(wire) + 1
        BY <1>0, <1>1
  <2>2. j \in 1 .. Len(wire) \/ j = Len(wire) + 1
        BY <1>0, <1>1
  <2>3. CASE i \in 1 .. Len(wire) /\ j \in 1 .. Len(wire)
        BY <1>1, <1>5, <2>3 DEF ExactInv
  <2>4. CASE i \in 1 .. Len(wire) /\ j = Len(wire) + 1
        BY <1>1, <1>5, <2>4 DEF OnWire
  <2>5. CASE i = Len(wire) + 1 /\ j \in 1 .. Len(wire)
        BY <1>1, <1>5, <2>5 DEF OnWire
  <2> QED BY <2>1, <2>2, <2>3, <2>4, <2>5
<1>6. /\ Gone >= 0
      /\ \A i, j \in 1 .. Len(window) : window[i] = window[j] => i = j
      /\ \A i \in 1 .. Len(replay.chunk) : replay.chunk[i] = window[Gone + i]
      BY DEF ExactInv
<1> QED BY <1>0, <1>3, <1>4, <1>5, <1>6 DEF ExactInv, OnWire

LEMMA ExactPush ==
  ASSUME ConType, ModeInv, FreshInv, SpareInv, ExactInv,
         NEW t \in Tasks, RingPush(t)
  PROVE  ExactInv'
<1> DEFINE x == task[t].item
           w == Len(window)
<1>0. /\ window \in Seq(Items) /\ w \in Nat /\ R \in Nat \ {0} /\ rlen \in 0 .. R
      /\ Len(replay.chunk) \in Nat /\ late \in Nat /\ LineType
      BY ConBounds DEF ConType, LineType, RingType, ReplayType
<1>1. x \in Items /\ ~OnWire(x) /\ ~InWindow(x)
      BY FreshItem DEF RingPush
<1>2. window' = Append(window, x) /\ UNCHANGED <<wire, replay>>
      BY DEF RingPush, Pushed
<1>3. Len(window') = w + 1 /\ window'[w + 1] = x /\ \A i \in 1 .. w : window'[i] = window[i]
      BY <1>0, <1>1, <1>2, WindowGrows
<1> HIDE DEF x
<1>4. \A i \in 1 .. w : window[i] # x
      BY <1>1 DEF InWindow
<1>5. \A i \in 1 .. w + 1 : i \in 1 .. w \/ i = w + 1
      BY <1>0
<1>6. \A i, j \in 1 .. w + 1 : window'[i] = window'[j] => i = j
  <2> SUFFICES ASSUME NEW i \in 1 .. w + 1, NEW j \in 1 .. w + 1, window'[i] = window'[j]
               PROVE  i = j
      OBVIOUS
  <2>1. CASE i \in 1 .. w /\ j \in 1 .. w
        BY <1>3, <2>1 DEF ExactInv
  <2>2. CASE i \in 1 .. w /\ j = w + 1
        BY <1>3, <1>4, <2>2
  <2>3. CASE i = w + 1 /\ j \in 1 .. w
        BY <1>3, <1>4, <2>3
  <2> QED BY <1>5, <2>1, <2>2, <2>3
\* What has left the ring, and its write, if it drops one, is too old to matter.
<1>7. /\ Gone' >= Gone /\ Gone >= 0
      /\ \/ Gone' = Gone
         \/ Gone' = w + 1 - R /\ Len(replay.chunk) = 0
  <2>1. Gone \in Int /\ Gone >= 0 /\ Gone = w - rlen - Len(replay.chunk)
        BY <1>0 DEF Gone, ExactInv
  <2>2. Gone' = Len(window') - rlen' - Len(replay.chunk)
        BY <1>2 DEF Gone
  <2>3. CASE rlen < R
    <3>1. rlen' = rlen + 1
          BY <2>3 DEF RingPush
    <3>2. Gone' = w + 1 - (rlen + 1) - Len(replay.chunk)
          BY <1>3, <2>2, <3>1
    <3>3. Gone' = Gone
          BY <1>0, <2>1, <3>2
    <3> QED BY <2>1, <3>3
  <2>4. CASE rlen = R
    <3>1. rlen' = R
          BY <1>0, <2>4 DEF RingPush
    <3>2. Len(replay.chunk) = 0
      <4>1. CASE replay.step = "write"
        <5>1. late = 0
          <6>1. t # "loop"
                BY <4>1 DEF RingPush, At, ModeInv
          <6> QED BY <4>1, <6>1 DEF RingPush, ModeInv, Tasks
        <5> QED BY <1>0, <2>4, <4>1, <5>1 DEF SpareInv
      <4>2. CASE replay.step # "write"
        <5>1. replay.chunk = <<>>
              BY <4>2 DEF ConType, ReplayType
        <5> QED BY <5>1
      <4> QED BY <4>1, <4>2
    <3>3. Gone' = w + 1 - R - 0
          BY <1>3, <2>2, <3>1, <3>2, ConBounds, SMTT(60)
    <3> QED BY <1>0, <2>1, <2>4, <3>2, <3>3
  <2> QED BY <1>0, <2>3, <2>4
<1>a. Gone \in Int /\ Gone <= w
      BY <1>0 DEF Gone
<1>8. Gone \in Int /\ Gone <= w /\ Gone' \in Int
      BY <1>0, <1>7, <1>a
<1>9. \A i \in 1 .. Len(replay.chunk) : replay.chunk[i] = window'[Gone' + i]
  <2> SUFFICES ASSUME NEW i \in 1 .. Len(replay.chunk)
               PROVE  replay.chunk[i] = window'[Gone' + i]
      OBVIOUS
  <2>1. Gone' = Gone
        BY <1>0, <1>7
  <2>2. Gone + i \in 1 .. w
        BY <1>0, <1>7 DEF Gone
  <2>3. replay.chunk[i] = window[Gone + i]
        BY DEF ExactInv
  <2> QED BY <1>3, <2>1, <2>2, <2>3
<1>10. ASSUME NEW i \in 1 .. w + 1, i > Gone'
       PROVE  ~OnWire(window'[i])
  <2>1. CASE i \in 1 .. w
        BY <1>3, <1>7, <1>8, <1>10, <2>1 DEF ExactInv
  <2>2. CASE i = w + 1
        BY <1>1, <1>3, <2>2
  <2> QED BY <1>5, <2>1, <2>2
<1>11. ASSUME NEW i \in 1 .. w + 1, i <= Gone', i > w + 1 - R
       PROVE  OnWire(window'[i])
  <2>1. Gone' = Gone
        BY <1>0, <1>7, <1>8, <1>11
  <2>2. i \in 1 .. w /\ i > w - R /\ i <= Gone
        BY <1>0, <1>8, <1>11, <2>1
  <2> QED BY <1>3, <2>2 DEF ExactInv
<1>12. \A i, j \in 1 .. Len(wire) : wire[i] = wire[j] /\ wire[i] \in Items => i = j
       BY DEF ExactInv
<1>13. Gone' >= 0
       BY <1>7, <1>8
<1>14. wire' = wire /\ replay' = replay
       BY <1>2
<1> HIDE DEF w
<1>15. \A i \in 1 .. Len(window)' : i > Gone' => ~OnWire(window[i])'
       BY <1>3, <1>10, <1>14 DEF OnWire
<1>16. \A i \in 1 .. Len(window)' : i <= Gone' /\ i > Len(window)' - R => OnWire(window[i])'
  <2> SUFFICES ASSUME NEW i \in 1 .. w + 1, i <= Gone', i > w + 1 - R
               PROVE  OnWire(window[i])'
      BY <1>0, <1>3
  <2>1. OnWire(window'[i])
        BY <1>11
  <2> QED BY <1>14, <2>1 DEF OnWire
<1> QED BY <1>3, <1>6, <1>9, <1>12, <1>13, <1>14, <1>15, <1>16 DEF ExactInv

LEMMA ExactDrain ==
  ASSUME ConType, HeldInv, ExactInv, Drain
  PROVE  ExactInv'
<1> DEFINE k == IF rlen < C THEN rlen ELSE C
<1>0. /\ Len(window) \in Nat /\ rlen \in 0 .. R /\ R \in Nat /\ C \in Nat
      BY ConBounds DEF ConType, LineType, RingType
<1>1. k \in 0 .. rlen
      BY <1>0
<1>2. /\ replay.step = "drain" /\ replay'.chunk = SubSeq(Held, 1, k)
      /\ rlen' = rlen - k /\ UNCHANGED <<wire, window>>
      BY DEF Drain
<1> HIDE DEF k
<1>3. Len(replay.chunk) = 0
  <2>1. replay.chunk = <<>>
        BY <1>2 DEF ConType, ReplayType
  <2> QED BY <2>1
<1>4. Len(replay'.chunk) = k /\ \A i \in 1 .. k : replay'.chunk[i] = ring[(rhead + i - 1) % R]
      BY <1>1, <1>2, ChunkType DEF ConType
<1>5. Gone' = Gone /\ Gone = Len(window) - rlen
      BY <1>0, <1>1, <1>2, <1>3, <1>4 DEF Gone
<1>6. \A i \in 1 .. k : replay'.chunk[i] = window[Gone + i]
  <2>1. \A i \in 1 .. k : i \in 1 .. rlen
        BY <1>0, <1>1
  <2>2. \A i \in 1 .. rlen : ring[(rhead + i - 1) % R] = window[Len(window) - rlen + i]
        BY DEF HeldInv
  <2> QED BY <1>4, <1>5, <2>1, <2>2
<1>7. \A i \in 1 .. Len(window) : OnWire(window[i])' <=> OnWire(window[i])
      BY <1>2 DEF OnWire
<1> QED BY <1>2, <1>4, <1>5, <1>6, <1>7 DEF ExactInv

LEMMA ExactWrite ==
  ASSUME ConType, ExactInv, WriteChunk
  PROVE  ExactInv'
<1> DEFINE c == Len(replay.chunk)
<1>0. /\ window \in Seq(Items) /\ Len(window) \in Nat /\ rlen \in Nat /\ c \in Nat
      /\ Len(wire) \in Nat
      BY ConBounds DEF ConType, LineType, RingType, ReplayType
<1>1. rlen' = rlen /\ window' = window /\ replay'.chunk = <<>> /\ Len(<<>>) = 0
      BY DEF WriteChunk, replayRing
<1>2. /\ Len(wire') = Len(wire) + c
      /\ \A i \in 1 .. Len(wire) : wire'[i] = wire[i]
      /\ \A i \in 1 .. c : wire'[Len(wire) + i] = replay.chunk[i]
      /\ \A j \in 1 .. Len(wire') : j \in 1 .. Len(wire) \/ \E i \in 1 .. c : j = Len(wire) + i
      /\ \A x : OnWire(x)' <=> OnWire(x) \/ \E i \in 1 .. c : replay.chunk[i] = x
      BY ChunkOut
<1>a. Gone \in Int /\ Gone >= 0 /\ Gone = Len(window) - rlen - c
      BY <1>0 DEF Gone, ExactInv
<1>b. Gone' = Len(window) - rlen - 0
      BY <1>1 DEF Gone
<1>3. /\ Gone' = Gone + c /\ Gone \in Int /\ Gone >= 0
      BY <1>0, <1>a, <1>b
<1>4. \A i \in 1 .. c : /\ replay.chunk[i] = window[Gone + i] /\ Gone + i \in 1 .. Len(window)
                       /\ Gone + i > Gone
  <2>1. \A i \in 1 .. c : Gone + i \in 1 .. Len(window) /\ Gone + i > Gone
    <3>1. rlen >= 0
          BY <1>0
    <3> HIDE DEF c
    <3> QED BY <1>0, <1>a, <3>1
  <2> QED BY <2>1 DEF ExactInv
<1>5. \A i, j \in 1 .. Len(window) : window[i] = window[j] => i = j
      BY DEF ExactInv
<1> HIDE DEF c
<1>6. ASSUME NEW i \in 1 .. Len(window), i > Gone + c
      PROVE  ~OnWire(window[i])'
  <2>1. ~OnWire(window[i])
        BY <1>0, <1>3, <1>6 DEF ExactInv
  <2>2. ASSUME NEW j \in 1 .. c
        PROVE  replay.chunk[j] # window[i]
    <3>1. Gone + j # i
          BY <1>0, <1>3, <1>6
    <3> QED BY <1>4, <1>5, <3>1
  <2> QED BY <1>1, <1>2, <2>1, <2>2
<1>7. ASSUME NEW i \in 1 .. Len(window), i <= Gone + c, i > Len(window) - R
      PROVE  OnWire(window[i])'
  <2>1. CASE i <= Gone
    <3>1. OnWire(window[i])
          BY <1>7, <2>1 DEF ExactInv
    <3> QED BY <1>1, <1>2, <3>1
  <2>2. CASE ~(i <= Gone)
    <3>1. i - Gone \in 1 .. c /\ Gone + (i - Gone) = i
          BY <1>0, <1>3, <1>7, <2>2
    <3>2. replay.chunk[i - Gone] = window[i]
          BY <1>4, <3>1
    <3> QED BY <1>1, <1>2, <3>1, <3>2
  <2> QED BY <2>1, <2>2
<1>8. ASSUME NEW i \in 1 .. Len(wire'), NEW j \in 1 .. Len(wire'),
             wire'[i] = wire'[j], wire'[i] \in Items
      PROVE  i = j
  <2>0. \A a \in 1 .. c : ~OnWire(replay.chunk[a])
        BY <1>4 DEF ExactInv
  <2>1. CASE i \in 1 .. Len(wire) /\ j \in 1 .. Len(wire)
        BY <1>2, <1>8, <2>1 DEF ExactInv
  <2>2. ASSUME NEW a \in 1 .. c, i = Len(wire) + a, j \in 1 .. Len(wire)
        PROVE  FALSE
        BY <1>2, <1>8, <2>0, <2>2 DEF OnWire
  <2>3. ASSUME NEW b \in 1 .. c, j = Len(wire) + b, i \in 1 .. Len(wire)
        PROVE  FALSE
        BY <1>2, <1>8, <2>0, <2>3 DEF OnWire
  <2>4. ASSUME NEW a \in 1 .. c, i = Len(wire) + a, NEW b \in 1 .. c, j = Len(wire) + b
        PROVE  i = j
    <3>1. window[Gone + a] = window[Gone + b]
          BY <1>2, <1>4, <1>8, <2>4
    <3>2. Gone + a = Gone + b
          BY <1>4, <1>5, <3>1
    <3> QED BY <1>3, <2>4, <3>2
  <2> QED BY <1>2, <2>1, <2>2, <2>3, <2>4
<1>9. Gone + c >= 0
      BY <1>0, <1>3
<1> QED BY <1>1, <1>3, <1>5, <1>6, <1>7, <1>8, <1>9 DEF ExactInv

LEMMA ExactKept ==
  ASSUME ExactInv, rlen' = rlen, UNCHANGED <<window, wire>>, replay'.chunk = replay.chunk
  PROVE  ExactInv'
<1>1. Gone' = Gone
      BY DEF Gone
<1> QED BY <1>1 DEF ExactInv, OnWire

LEMMA ExactStep ==
  ASSUME ConType, ModeInv, HeldInv, FreshInv, SpareInv, ExactInv,
         [ConNext]_conVars
  PROVE  ExactInv'
<1>1. ASSUME NEW t \in Tasks, Send(t)
      PROVE  ExactInv'
  <2>1. /\ wire' = Append(wire, task[t].item) /\ rlen' = rlen /\ window' = window
        /\ replay'.chunk = replay.chunk /\ At(t, "send")
        BY <1>1 DEF Send, replayRing
  <2>2. task[t].item \in Lines /\ ~OnWire(task[t].item) /\ ~InWindow(task[t].item)
        BY <2>1, FreshItem
  <2> QED BY <2>1, <2>2, ExactSend
<1>2. ASSUME NEW t \in Tasks, RingPush(t)
      PROVE  ExactInv'
      BY <1>2, ExactPush
<1>3. CASE Drain
      BY <1>3, ExactDrain
<1>4. CASE WriteChunk
      BY <1>4, ExactWrite
<1>5. CASE Reply \/ Pending \/ Drained
  <2>1. rlen' = rlen /\ window' = window /\ replay'.chunk = replay.chunk
        BY <1>5 DEF Reply, Pending, Drained, replayRing, ConType, ReplayType
  <2>2. \/ wire' = wire
        \/ \E y \in {Protocol, Header, Trailer} : wire' = Append(wire, y)
        BY <1>5 DEF Reply, Pending, Drained
  <2>3. CASE wire' = wire
        BY <2>1, <2>3, ExactKept
  <2>4. ASSUME NEW y \in {Protocol, Header, Trailer}, wire' = Append(wire, y)
        PROVE  ExactInv'
    <3>1. y \in Lines /\ y \notin Items
          BY NotWrites
    <3> QED BY <2>1, <2>4, <3>1, ExactSend
  <2> QED BY <2>2, <2>3, <2>4
<1>6. CASE ToWinKey
  <2>1. /\ rlen' = 0 /\ window' = <<>> /\ wire' = wire /\ Len(<<>>) = 0
        /\ replay' = replay /\ replay.step = "none"
        BY <1>6 DEF ToWinKey, LoopFree
  <2>2. replay.chunk = <<>>
        BY <2>1 DEF ConType, ReplayType
  <2>3. Gone' = 0
        BY <2>1, <2>2 DEF Gone
  <2>4. \A i, j \in 1 .. Len(wire) : wire[i] = wire[j] /\ wire[i] \in Items => i = j
        BY DEF ExactInv
  <2> QED BY <2>1, <2>2, <2>3, <2>4 DEF ExactInv
<1>7. CASE ToConsole
  <2>1. rlen' = rlen /\ UNCHANGED <<window, wire>> /\ replay'.chunk = replay.chunk
        BY <1>7 DEF ToConsole, replayRing, ConType, ReplayType
  <2> QED BY <2>1, ExactKept
<1>8. ASSUME NEW t \in Tasks, Begin(t) \/ TapLoad(t) \/ TapStore(t)
                                \/ TapHead(t) \/ TapLen(t)
      PROVE  ExactInv'
  <2>1. rlen' = rlen /\ UNCHANGED <<window, wire>> /\ replay'.chunk = replay.chunk
        BY <1>8 DEF Begin, TapLoad, TapStore, TapHead, TapLen, replayRing
  <2> QED BY <2>1, ExactKept
<1>9. CASE UNCHANGED conVars
  <2>1. rlen' = rlen /\ UNCHANGED <<window, wire>> /\ replay'.chunk = replay.chunk
        BY <1>9 DEF conVars, replayRing
  <2> QED BY <2>1, ExactKept
<1> QED BY <1>1, <1>2, <1>3, <1>4, <1>5, <1>6, <1>7, <1>8, <1>9
        DEF ConNext, Write, Tasks

LEMMA ExactAlways == ConSpec => [](FreshInv /\ SpareInv /\ ExactInv)
<1>1. ConInit => FreshInv /\ SpareInv /\ ExactInv
  <2> SUFFICES ASSUME ConInit PROVE FreshInv /\ SpareInv /\ ExactInv
      OBVIOUS
  <2>1. /\ wire = <<>> /\ window = <<>> /\ rlen = 0
        /\ replay.step = "none" /\ replay.chunk = <<>> /\ Len(<<>>) = 0 /\ 1 .. 0 = {}
        BY DEF ConInit
  <2> HIDE DEF ConInit
  <2>2. Gone = 0
        BY <2>1 DEF Gone
  <2> QED BY <2>1, <2>2 DEF FreshInv, SpareInv, ExactInv, OnWire, InWindow
<1>2. ConType /\ ModeInv /\ HeldInv /\ FreshInv /\ SpareInv /\ ExactInv /\ [ConNext]_conVars
        => (FreshInv /\ SpareInv /\ ExactInv)'
      BY FreshStep, SpareStep, ExactStep
<1> QED BY <1>1, <1>2, ConTypeAlways, ModeAlways, HeldAlways, PTL DEF ConSpec

\* When a replay is over, each of the session's newest writes is once on the line or
\* still in the ring.
THEOREM ReplayAlwaysExact == ConSpec => []ReplayIsExact
<1>1. ConType /\ HeldInv /\ ExactInv => ReplayIsExact
  <2> DEFINE w == Len(window)
             m == IF w > R THEN R ELSE w
             all == wire \o Held
  <2> SUFFICES ASSUME ConType, HeldInv, ExactInv, replay.step = "none",
                      NEW i \in 1 .. Len(LastOf(window, R))
               PROVE  Once(LastOf(window, R)[i], all)
      BY DEF ReplayIsExact
  <2>1. /\ window \in Seq(Items) /\ w \in Nat /\ rlen \in Nat /\ R \in Nat
        /\ wire \in Seq(Lines) /\ Len(wire) \in Nat
        BY ConBounds DEF ConType, LineType, RingType
  <2>2. Gone = w - rlen /\ Gone >= 0
    <3>1. replay.chunk = <<>> /\ Len(<<>>) = 0
          BY DEF ConType, ReplayType
    <3> QED BY <2>1, <3>1 DEF Gone, ExactInv
  <2> DEFINE k == w - m + i
             x == window[k]
  <2>3. /\ k \in 1 .. w /\ k > w - R /\ LastOf(window, R)[i] = x
    <3>1. Len(LastOf(window, R)) = m /\ LastOf(window, R)[i] = x
          BY <2>1, EndOf
    <3>2. i \in 1 .. m
          BY <3>1
    <3>3. m \in Nat /\ m <= w /\ m <= R
          BY <2>1
    <3> HIDE DEF m, w
    <3>4. k \in 1 .. w /\ k > w - R
          BY <2>1, <3>2, <3>3
    <3> QED BY <3>1, <3>4
  <2> HIDE DEF k
  <2>4. x \in Items
        BY <2>1, <2>3
  <2>5. /\ Len(all) = Len(wire) + rlen
        /\ \A j \in 1 .. Len(wire) : all[j] = wire[j]
        /\ \A j \in 1 .. rlen : all[Len(wire) + j] = window[Gone + j]
    <3>1. \A j \in 1 .. rlen : Held[j] = window[Gone + j]
          BY <2>2 DEF Held, HeldInv
    <3>2. \A j \in 1 .. rlen : Gone + j \in 1 .. w
          BY <2>1, <2>2
    <3>3. Held \in Seq(Lines) /\ Len(Held) = rlen
      <4>1. \A j \in 1 .. rlen : Held[j] \in Lines
            BY <2>1, <3>1, <3>2 DEF Lines
      <4>2. \A j \in 1 .. rlen : ring[(rhead + j - 1) % R] \in Lines
            BY <4>1 DEF Held
      <4> HIDE DEF w, all
      <4> QED BY <2>1, <4>2 DEF Held
    <3> QED BY <2>1, <3>1, <3>3
  <2>6. \A j \in 1 .. Len(all) : j \in 1 .. Len(wire) \/ j - Len(wire) \in 1 .. rlen
        BY <2>1, <2>5
  <2>7. \A j \in 1 .. rlen : Gone + j \in 1 .. w /\ Len(wire) + j \in 1 .. Len(all)
        BY <2>1, <2>2, <2>5
  <2> HIDE DEF all, x, k, w
  <2>8. CASE k > Gone
    <3> DEFINE p == k - Gone
    <3>0. Gone \in Int /\ k \in Int
          BY <2>1, <2>2, <2>3 DEF w
    <3>1. p \in 1 .. rlen /\ Gone + p = k
          BY <2>1, <2>2, <2>3, <2>8, <3>0
    <3>a. Len(wire) + p \in 1 .. Len(all)
          BY <2>7, <3>1
    <3> HIDE DEF p
    <3>2. all[Len(wire) + p] = x
          BY <2>5, <3>1 DEF x
    <3>3. ~OnWire(x)
          BY <2>3, <2>8 DEF ExactInv, x, w
    <3>4. ASSUME NEW j \in 1 .. Len(all), all[j] = x
          PROVE  j = Len(wire) + p
      <4>1. j \notin 1 .. Len(wire)
            BY <2>5, <3>3, <3>4 DEF OnWire
      <4> DEFINE q == j - Len(wire)
      <4>2. q \in 1 .. rlen /\ Len(wire) + q = j
            BY <2>1, <2>5, <2>6, <4>1
      <4> HIDE DEF q
      <4>3. window[Gone + q] = window[k] /\ Gone + q \in 1 .. w
            BY <2>5, <2>7, <3>4, <4>2 DEF x
      <4>4. Gone + q = k
            BY <2>3, <4>3 DEF ExactInv, w
      <4> QED BY <2>1, <3>0, <3>1, <4>2, <4>4
    <3> QED BY <2>3, <3>a, <3>2, <3>4 DEF Once
  <2>9. CASE ~(k > Gone)
    <3>1. OnWire(x)
          BY <2>1, <2>2, <2>3, <2>9 DEF ExactInv, x, w
    <3>2. PICK p \in 1 .. Len(wire) : wire[p] = x
          BY <3>1 DEF OnWire
    <3>3. p \in 1 .. Len(all) /\ all[p] = x
          BY <2>1, <2>5, <3>2
    <3>4. ASSUME NEW j \in 1 .. Len(all), all[j] = x
          PROVE  j = p
      <4>1. CASE j \in 1 .. Len(wire)
            BY <2>4, <2>5, <3>2, <3>4, <4>1 DEF ExactInv
      <4>2. CASE j \notin 1 .. Len(wire)
        <5> DEFINE q == j - Len(wire)
        <5>1. q \in 1 .. rlen /\ Len(wire) + q = j
              BY <2>1, <2>5, <2>6, <4>2
        <5> HIDE DEF q
        <5>2. window[Gone + q] = window[k] /\ Gone + q \in 1 .. w
              BY <2>5, <2>7, <3>4, <5>1 DEF x
        <5>3. Gone + q = k
              BY <2>3, <5>2 DEF ExactInv, w
        <5> QED BY <2>1, <2>2, <2>3, <2>9, <5>1, <5>3
      <4> QED BY <4>1, <4>2
    <3> QED BY <2>3, <3>3, <3>4 DEF Once
  <2> QED BY <2>8, <2>9
<1> QED BY <1>1, ConTypeAlways, HeldAlways, ExactAlways, PTL

-----------------------------------------------------------------------------
(* The LogRing.                                                            *)

InCopy(t) == At(t, "store") \/ At(t, "head") \/ At(t, "len")

Smaller(i, j) == IF i < j THEN i ELSE j

\* The places before place h, backwards, hold the m newest of the first n writes.
Copies(b, s, n, h, m) == \A d \in 1 .. m : b[(h + L - d) % L] = s[n - d + 1]

\* A length m is that of n copies, and the ring fills from its beginning.
Fits(n, h, m) == m = Smaller(n, L) /\ (m < L => h = m)

\* Unless two copies have overlapped, what has been copied is in the ring; a copy
\* under way has stored its write, and moved the head, as far as its step says.
TapInv ==
  ~raced =>
    /\ \A t, u \in Tasks : InCopy(t) /\ InCopy(u) => t = u
    /\ (\A t \in Tasks : ~InCopy(t)) =>
         Fits(Len(taps), tap.head, tap.len) /\ Copies(tap.buf, taps, Len(taps), tap.head, tap.len)
    /\ \A t \in Tasks :
         InCopy(t) =>
           /\ Len(taps) >= 1 /\ taps[Len(taps)] = task[t].item
           /\ task[t].len = tap.len
    /\ \A t \in Tasks :
         At(t, "store") =>
           /\ task[t].head = tap.head /\ Fits(Len(taps) - 1, tap.head, tap.len)
           /\ Copies(tap.buf, taps, Len(taps) - 1, tap.head, tap.len)
    /\ \A t \in Tasks :
         At(t, "head") =>
           /\ task[t].head = tap.head /\ Fits(Len(taps) - 1, tap.head, tap.len)
           /\ tap.buf[tap.head] = taps[Len(taps)]
           /\ Copies(tap.buf, taps, Len(taps) - 1, tap.head, Smaller(tap.len, L - 1))
    /\ \A t \in Tasks :
         At(t, "len") =>
           /\ tap.len = Smaller(Len(taps) - 1, L)
           /\ tap.len < L => tap.head = (tap.len + 1) % L
           /\ Copies(tap.buf, taps, Len(taps), tap.head, Smaller(tap.len + 1, L))

LEMMA TapShape ==
  ASSUME ConType
  PROVE  /\ L \in Nat \ {0} /\ tap.head \in 0 .. L - 1 /\ tap.len \in 0 .. L
         /\ tap.buf \in [0 .. L - 1 -> Items \union {Nothing}]
         /\ taps \in Seq(Items) /\ Len(taps) \in Nat
         /\ TaskType
         /\ \A t \in Tasks : task[t].head \in 0 .. L - 1 /\ task[t].len \in 0 .. L
BY ConBounds DEF ConType, TapType, LineType, TaskType, Works

LEMMA TapKept ==
  ASSUME TapInv, UNCHANGED <<tap, taps, raced>>,
         \A u \in Tasks : task'[u] = task[u] \/ (~InCopy(u) /\ ~InCopy(u)')
  PROVE  TapInv'
<1>1. \A u \in Tasks : InCopy(u)' <=> InCopy(u)
      BY DEF InCopy, At
<1>2. \A u \in Tasks : InCopy(u)' => task'[u] = task[u] /\ InCopy(u)
      BY <1>1
<1> SUFFICES ASSUME ~raced
             PROVE  TapInv'
    BY DEF TapInv
<1>4. \A t, u \in Tasks : InCopy(t)' /\ InCopy(u)' => t = u
      BY <1>1 DEF TapInv
<1>5. (\A t \in Tasks : ~InCopy(t)') =>
        Fits(Len(taps), tap.head, tap.len) /\ Copies(tap.buf, taps, Len(taps), tap.head, tap.len)
      BY <1>1 DEF TapInv
<1>6. \A t \in Tasks :
        InCopy(t)' => /\ Len(taps) >= 1 /\ taps[Len(taps)] = task'[t].item
                      /\ task'[t].len = tap.len
      BY <1>2 DEF TapInv
<1>7. \A t \in Tasks :
        At(t, "store")' =>
          /\ task'[t].head = tap.head /\ Fits(Len(taps) - 1, tap.head, tap.len)
          /\ Copies(tap.buf, taps, Len(taps) - 1, tap.head, tap.len)
  <2> TAKE t \in Tasks
  <2> HAVE At(t, "store")'
  <2>1. At(t, "store") /\ task'[t] = task[t]
        BY <1>2 DEF InCopy, At
  <2> QED BY <2>1 DEF TapInv
<1>8. \A t \in Tasks :
        At(t, "head")' =>
          /\ task'[t].head = tap.head /\ Fits(Len(taps) - 1, tap.head, tap.len)
          /\ tap.buf[tap.head] = taps[Len(taps)]
          /\ Copies(tap.buf, taps, Len(taps) - 1, tap.head, Smaller(tap.len, L - 1))
  <2> TAKE t \in Tasks
  <2> HAVE At(t, "head")'
  <2>1. At(t, "head") /\ task'[t] = task[t]
        BY <1>2 DEF InCopy, At
  <2> QED BY <2>1 DEF TapInv
<1>9. \A t \in Tasks :
        At(t, "len")' =>
          /\ tap.len = Smaller(Len(taps) - 1, L)
          /\ tap.len < L => tap.head = (tap.len + 1) % L
          /\ Copies(tap.buf, taps, Len(taps), tap.head, Smaller(tap.len + 1, L))
  <2> TAKE t \in Tasks
  <2> HAVE At(t, "len")'
  <2>1. At(t, "len") /\ task'[t] = task[t]
        BY <1>2 DEF InCopy, At
  <2> QED BY <2>1 DEF TapInv
<1> QED BY <1>4, <1>5, <1>6, <1>7, <1>8, <1>9 DEF TapInv

LEMMA TapLoadStep ==
  ASSUME ConType, TapInv, NEW t \in Tasks, TapLoad(t)
  PROVE  TapInv'
<1>0. task[t].item \in Items /\ At(t, "load")
      BY DEF TapLoad, ConType, TaskType, At
<1>1. /\ tap' = tap /\ taps' = Append(taps, task[t].item)
      /\ (raced' <=> raced \/ \E u \in Tasks : InCopy(u))
      BY DEF TapLoad, InCopy, Tasks, ConType, LineType
<1>2. /\ task'[t].step = "store" /\ task'[t].item = task[t].item
      /\ task'[t].head = tap.head /\ task'[t].len = tap.len
      /\ \A u \in Tasks : u # t => task'[u] = task[u]
      BY TapShape, Loads DEF ConType
<1> SUFFICES ASSUME ~raced'
             PROVE  TapInv'
    BY DEF TapInv
<1>3. ~raced /\ \A u \in Tasks : ~InCopy(u)
      BY <1>1
<1>4. /\ Len(taps) \in Nat /\ Len(taps') = Len(taps) + 1 /\ Len(taps') - 1 = Len(taps)
      /\ taps'[Len(taps')] = task[t].item
      /\ \A i \in 1 .. Len(taps) : taps'[i] = taps[i]
      BY <1>0, <1>1, TapShape
<1>5. Fits(Len(taps), tap.head, tap.len) /\ Copies(tap.buf, taps, Len(taps), tap.head, tap.len)
      BY <1>3 DEF TapInv
<1>6. \A d \in 1 .. tap.len : Len(taps) - d + 1 \in 1 .. Len(taps)
      BY <1>4, <1>5, TapShape DEF Fits, Smaller
<1>7. Copies(tap.buf, taps', Len(taps), tap.head, tap.len)
      BY <1>4, <1>5, <1>6 DEF Copies
<1>8. \A u \in Tasks : (InCopy(u)' <=> u = t) /\ (At(u, "store")' => u = t)
                      /\ ~At(u, "head")' /\ ~At(u, "len")'
      BY <1>2, <1>3 DEF InCopy, At
<1>9. Len(taps') >= 1
      BY <1>4
<1> QED BY <1>1, <1>2, <1>4, <1>5, <1>7, <1>8, <1>9 DEF TapInv

LEMMA TapStoreStep ==
  ASSUME ConType, TapInv, NEW t \in Tasks, TapStore(t)
  PROVE  TapInv'
<1>0. /\ At(t, "store") /\ InCopy(t) /\ UNCHANGED <<taps, raced>>
      /\ tap' = [tap EXCEPT !.buf[task[t].head] = task[t].item]
      BY DEF TapStore, InCopy
<1>1. /\ task'[t].step = "head" /\ task'[t].item = task[t].item
      /\ task'[t].head = task[t].head /\ task'[t].len = task[t].len
      /\ \A u \in Tasks : u # t => task'[u] = task[u]
      BY TapShape, Goes DEF TapStore, Steps
<1> SUFFICES ASSUME ~raced
             PROVE  TapInv'
    BY <1>0 DEF TapInv
<1>2. /\ \A u \in Tasks : InCopy(u) => u = t
      /\ Len(taps) >= 1 /\ taps[Len(taps)] = task[t].item /\ task[t].len = tap.len
      /\ task[t].head = tap.head /\ Fits(Len(taps) - 1, tap.head, tap.len)
      /\ Copies(tap.buf, taps, Len(taps) - 1, tap.head, tap.len)
      BY <1>0 DEF TapInv
<1>3. /\ tap'.head = tap.head /\ tap'.len = tap.len /\ tap'.buf[tap.head] = taps[Len(taps)]
      /\ \A j \in 0 .. L - 1 : j # tap.head => tap'.buf[j] = tap.buf[j]
      BY <1>0, <1>2, TapShape DEF ConType, TapType
<1>4. Copies(tap'.buf, taps, Len(taps) - 1, tap.head, Smaller(tap.len, L - 1))
  <2> SUFFICES ASSUME NEW d \in 1 .. Smaller(tap.len, L - 1)
               PROVE  tap'.buf[(tap.head + L - d) % L] = taps[Len(taps) - 1 - d + 1]
      BY DEF Copies
  <2>1. d \in 1 .. tap.len /\ L - d \in 1 .. L - 1 /\ d \in Int
        BY TapShape DEF Smaller
  <2>2. tap.buf[(tap.head + L - d) % L] = taps[Len(taps) - 1 - d + 1]
        BY <1>2, <2>1 DEF Copies
  <2>3. (tap.head + L - d) % L \in 0 .. L - 1 /\ (tap.head + L - d) % L # tap.head
    <3>1. /\ tap.head + L - d \in Int /\ tap.head + L - d = tap.head + (L - d)
          /\ tap.head + 0 = tap.head
          BY <2>1, TapShape
    <3>2. (tap.head + 0) % L = tap.head
      <4>1. tap.head % L = tap.head
            BY TapShape, WholeTurn
      <4> QED BY <3>1, <4>1
    <3>3. (tap.head + (L - d)) % L # (tap.head + 0) % L
      <4>1. L - d \in 0 .. L - 1 /\ 0 \in 0 .. L - 1 /\ L - d # 0
            BY <2>1, TapShape
      <4> QED BY <4>1, TapShape, PlacesApart
    <3>4. (tap.head + L - d) % L \in 0 .. L - 1
          BY <3>1, TapShape, AlwaysIndex
    <3> QED BY <3>1, <3>2, <3>3, <3>4
  <2> QED BY <1>3, <2>2, <2>3
<1>5. \A u \in Tasks : (InCopy(u)' <=> u = t) /\ (At(u, "head")' => u = t)
                      /\ ~At(u, "store")' /\ ~At(u, "len")'
      BY <1>1, <1>2 DEF InCopy, At
<1> QED BY <1>0, <1>1, <1>2, <1>3, <1>4, <1>5 DEF TapInv

LEMMA TapHeadStep ==
  ASSUME ConType, TapInv, NEW t \in Tasks, TapHead(t)
  PROVE  TapInv'
<1>0. /\ At(t, "head") /\ InCopy(t) /\ UNCHANGED <<taps, raced>>
      /\ tap' = [tap EXCEPT !.head = (task[t].head + 1) % L]
      BY DEF TapHead, InCopy
<1>1. /\ task'[t].step = "len" /\ task'[t].item = task[t].item
      /\ task'[t].len = task[t].len
      /\ \A u \in Tasks : u # t => task'[u] = task[u]
      BY TapShape, Goes DEF TapHead, Steps
<1> SUFFICES ASSUME ~raced
             PROVE  TapInv'
    BY <1>0 DEF TapInv
<1>2. /\ \A u \in Tasks : InCopy(u) => u = t
      /\ Len(taps) >= 1 /\ taps[Len(taps)] = task[t].item /\ task[t].len = tap.len
      /\ task[t].head = tap.head /\ Fits(Len(taps) - 1, tap.head, tap.len)
      /\ tap.buf[tap.head] = taps[Len(taps)]
      /\ Copies(tap.buf, taps, Len(taps) - 1, tap.head, Smaller(tap.len, L - 1))
      BY <1>0 DEF TapInv
<1>3. tap'.head = (tap.head + 1) % L /\ tap'.len = tap.len /\ tap'.buf = tap.buf
      BY <1>0, <1>2 DEF ConType, TapType
<1>a. /\ L \in Nat \ {0} /\ tap.head \in 0 .. L - 1 /\ tap.len \in 0 .. L /\ Len(taps) \in Nat
      BY TapShape
<1>4. Copies(tap.buf, taps, Len(taps), (tap.head + 1) % L, Smaller(tap.len + 1, L))
  <2> SUFFICES ASSUME NEW d \in 1 .. Smaller(tap.len + 1, L)
               PROVE  tap.buf[(((tap.head + 1) % L) + L - d) % L] = taps[Len(taps) - d + 1]
      BY DEF Copies
  <2>1. d \in 1 .. L /\ d - 1 \in 0 .. Smaller(tap.len, L - 1)
        BY <1>a DEF Smaller
  <2>2. (((tap.head + 1) % L) + L - d) % L = (tap.head + L - (d - 1)) % L
    <3>1. /\ 1 \in 0 .. L /\ L - d \in Nat /\ 1 + (L - d) <= L /\ tap.head + 1 \in Int
          /\ tap.head + 1 + (L - d) = tap.head + L - (d - 1)
          BY <2>1, <1>a
    <3>2. (((tap.head + 1) % L) + (L - d)) % L = (tap.head + 1 + (L - d)) % L
          BY <3>1, <1>a, PlacesShift
    <3>3. (tap.head + 1) % L \in 0 .. L - 1
          BY <3>1, <1>a, AlwaysIndex
    <3>4. ((tap.head + 1) % L) + (L - d) = ((tap.head + 1) % L) + L - d
          BY <2>1, <3>3, <1>a
    <3> QED BY <3>1, <3>2, <3>4
  <2>3. CASE d = 1
    <3>2. tap.head + L - (d - 1) = tap.head + L /\ Len(taps) - d + 1 = Len(taps)
          BY <2>3, <1>a
    <3>3. (tap.head + L) % L = tap.head
          BY <1>a, WholeTurn
    <3> QED BY <1>2, <2>2, <3>2, <3>3
  <2>4. CASE d # 1
    <3>1. d - 1 \in 1 .. Smaller(tap.len, L - 1) /\ Len(taps) - 1 - (d - 1) + 1 = Len(taps) - d + 1
          BY <2>1, <2>4, <1>a
    <3>2. tap.buf[(tap.head + L - (d - 1)) % L] = taps[Len(taps) - 1 - (d - 1) + 1]
          BY <1>2, <3>1 DEF Copies
    <3> QED BY <2>2, <3>1, <3>2
  <2> QED BY <2>3, <2>4
<1>5. \A u \in Tasks : (InCopy(u)' <=> u = t) /\ (At(u, "len")' => u = t)
                      /\ ~At(u, "store")' /\ ~At(u, "head")'
      BY <1>1, <1>2 DEF InCopy, At
<1>6. tap.len = Smaller(Len(taps) - 1, L) /\ (tap.len < L => tap.head = tap.len)
      BY <1>2 DEF Fits
<1> QED BY <1>0, <1>1, <1>2, <1>3, <1>4, <1>5, <1>6 DEF TapInv

LEMMA TapLenStep ==
  ASSUME ConType, TapInv, NEW t \in Tasks, TapLen(t)
  PROVE  TapInv'
<1>0. /\ At(t, "len") /\ InCopy(t) /\ UNCHANGED <<taps, raced>>
      /\ tap' = IF task[t].len < L THEN [tap EXCEPT !.len = task[t].len + 1] ELSE tap
      BY DEF TapLen, InCopy
<1>1. task'[t].step = "rest" /\ \A u \in Tasks : u # t => task'[u] = task[u]
      BY TapShape, Ends
<1> SUFFICES ASSUME ~raced
             PROVE  TapInv'
    BY <1>0 DEF TapInv
<1>2. /\ \A u \in Tasks : InCopy(u) => u = t
      /\ Len(taps) >= 1 /\ task[t].len = tap.len
      /\ tap.len = Smaller(Len(taps) - 1, L)
      /\ tap.len < L => tap.head = (tap.len + 1) % L
      /\ Copies(tap.buf, taps, Len(taps), tap.head, Smaller(tap.len + 1, L))
      BY <1>0 DEF TapInv
<1>3. tap'.head = tap.head /\ tap'.len = Smaller(tap.len + 1, L) /\ tap'.buf = tap.buf
  <2>1. CASE tap.len < L
    <3>1. tap' = [tap EXCEPT !.len = tap.len + 1]
          BY <1>0, <1>2, <2>1
    <3>2. Smaller(tap.len + 1, L) = tap.len + 1
          BY <2>1, TapShape DEF Smaller
    <3> QED BY <3>1, <3>2 DEF ConType, TapType
  <2>2. CASE ~(tap.len < L)
    <3>1. tap' = tap
          BY <1>0, <1>2, <2>2
    <3>2. Smaller(tap.len + 1, L) = tap.len
          BY <2>2, TapShape DEF Smaller
    <3> QED BY <3>1, <3>2
  <2> QED BY <2>1, <2>2
<1>4. Fits(Len(taps), tap.head, Smaller(tap.len + 1, L))
  <2>1. Smaller(tap.len + 1, L) = Smaller(Len(taps), L)
        BY <1>2, TapShape DEF Smaller
  <2>2. ASSUME Smaller(tap.len + 1, L) < L
        PROVE  tap.head = Smaller(tap.len + 1, L)
    <3>1. tap.len + 1 < L /\ Smaller(tap.len + 1, L) = tap.len + 1 /\ tap.len + 1 \in 0 .. 2 * L - 1
          BY <2>2, TapShape DEF Smaller
    <3>2. \A x \in 0 .. 2 * L - 1 : x < L => x % L = x
          BY WrapsOnce, TapShape
    <3>3. (tap.len + 1) % L = tap.len + 1
          BY <3>1, <3>2
    <3> QED BY <1>2, <3>1, <3>3, TapShape
  <2> QED BY <2>1, <2>2 DEF Fits
<1>5. \A u \in Tasks : ~InCopy(u)'
      BY <1>1, <1>2 DEF InCopy, At
<1>6. \A u \in Tasks : ~At(u, "store")' /\ ~At(u, "head")' /\ ~At(u, "len")'
      BY <1>5 DEF InCopy
<1> QED BY <1>0, <1>2, <1>3, <1>4, <1>5, <1>6 DEF TapInv

LEMMA TapInvStep ==
  ASSUME ConType, TapInv, [ConNext]_conVars
  PROVE  TapInv'
<1>1. ASSUME NEW t \in Tasks, TapLoad(t) \/ TapStore(t) \/ TapHead(t) \/ TapLen(t)
      PROVE  TapInv'
      BY <1>1, TapLoadStep, TapStoreStep, TapHeadStep, TapLenStep
<1>2. ASSUME NEW t \in Tasks, Begin(t) \/ Send(t) \/ RingPush(t)
      PROVE  TapInv'
  <2>1. UNCHANGED <<tap, taps, raced>> /\ ~InCopy(t)
        BY <1>2 DEF Begin, Send, RingPush, InCopy, At
  <2>2. task'[t].step \in {"send", "push", "load"} /\ \A u \in Tasks : u # t => task'[u] = task[u]
    <3>1. CASE Begin(t)
          BY <3>1, Begins DEF ConType
    <3>2. CASE Send(t) \/ RingPush(t)
          BY <3>2, Goes DEF Send, RingPush, Pushed, Steps, ConType
    <3> QED BY <1>2, <3>1, <3>2
  <2>3. ~InCopy(t)'
        BY <2>2 DEF InCopy, At
  <2> QED BY <2>1, <2>2, <2>3, TapKept
<1>3. CASE Reply \/ ToConsole \/ ToWinKey
  <2>1. UNCHANGED <<tap, taps, raced>> /\ Goto("loop", "owes") /\ ~InCopy("loop")
        BY <1>3 DEF Reply, ToConsole, ToWinKey, LoopFree, InCopy, At
  <2>2. task'["loop"].step = "owes" /\ \A u \in Tasks : u # "loop" => task'[u] = task[u]
        BY <2>1, Goes DEF Steps, Tasks, ConType
  <2>3. ~InCopy("loop")'
        BY <2>2 DEF InCopy, At
  <2> QED BY <2>1, <2>2, <2>3, TapKept
<1>4. CASE Pending \/ Drain \/ WriteChunk \/ Drained \/ UNCHANGED conVars
  <2>1. UNCHANGED <<tap, taps, raced, task>>
        BY <1>4 DEF Pending, Drain, WriteChunk, Drained, conVars
  <2> QED BY <2>1, TapKept
<1> QED BY <1>1, <1>2, <1>3, <1>4 DEF ConNext, Write, Tasks

LEMMA TapAlways == ConSpec => []TapInv
<1>1. ConInit => TapInv
  <2> SUFFICES ASSUME ConInit PROVE TapInv
      OBVIOUS
  <2>1. /\ tap.head = 0 /\ tap.len = 0 /\ taps = <<>> /\ Len(<<>>) = 0 /\ 1 .. 0 = {}
        BY DEF ConInit
  <2>2. \A t \in Tasks : task[t].step = "rest"
        BY DEF ConInit, AtRest, Tasks
  <2>3. \A t \in Tasks : ~InCopy(t) /\ ~At(t, "store") /\ ~At(t, "head") /\ ~At(t, "len")
        BY <2>2 DEF InCopy, At
  <2>4. Smaller(0, L) = 0
        BY ConBounds DEF Smaller
  <2> HIDE DEF ConInit
  <2> QED BY <2>1, <2>3, <2>4 DEF TapInv, Fits, Copies
<1>2. ConType /\ TapInv /\ [ConNext]_conVars => TapInv'
      BY TapInvStep
<1> QED BY <1>1, <1>2, ConTypeAlways, PTL DEF ConSpec

\* Unless two copies have overlapped, the debug page's ring holds the newest writes.
THEOREM TapAlwaysHolds == ConSpec => []TapHoldsTheLast
<1>1. ConType /\ TapInv => TapHoldsTheLast
  <2> SUFFICES ASSUME ConType, TapInv, ~raced, \A t \in Tasks : ~InCopy(t)
               PROVE  Snapshot = LastOf(taps, L)
      BY DEF TapHoldsTheLast, InCopy, Tasks
  <2> DEFINE m == tap.len
             h == tap.head
             start == IF m < L THEN 0 ELSE h
  <2>1. Fits(Len(taps), h, m) /\ Copies(tap.buf, taps, Len(taps), h, m)
        BY DEF TapInv
  <2>2. m = (IF Len(taps) > L THEN L ELSE Len(taps)) /\ (m < L => h = m)
        BY <2>1, TapShape DEF Fits, Smaller
  <2>3. /\ LastOf(taps, L) \in Seq(Items) /\ Len(LastOf(taps, L)) = m
        /\ \A i \in 1 .. m : LastOf(taps, L)[i] = taps[Len(taps) - m + i]
    <3>1. L \in Nat /\ taps \in Seq(Items)
          BY TapShape
    <3>2. LET k == IF Len(taps) > L THEN L ELSE Len(taps)
          IN  /\ LastOf(taps, L) \in Seq(Items) /\ Len(LastOf(taps, L)) = k
              /\ \A i \in 1 .. k : LastOf(taps, L)[i] = taps[Len(taps) - k + i]
          BY <3>1, EndOf
    <3> HIDE DEF m
    <3> QED BY <2>2, <3>2
  <2>a. L \in Nat \ {0} /\ m \in 0 .. L /\ h \in 0 .. L - 1 /\ Len(taps) \in Nat
        BY TapShape
  <2>4. ASSUME NEW i \in 1 .. m
        PROVE  tap.buf[(start + i - 1) % L] = taps[Len(taps) - m + i]
    <3>1. m - i + 1 \in 1 .. m /\ Len(taps) - (m - i + 1) + 1 = Len(taps) - m + i
      <4> HIDE DEF m
      <4> QED BY <2>a
    <3>2. tap.buf[(h + L - (m - i + 1)) % L] = taps[Len(taps) - (m - i + 1) + 1]
          BY <2>1, <3>1 DEF Copies
    <3>3. (h + L - (m - i + 1)) % L = (start + i - 1) % L
      <4>1. CASE m < L
        <5>0. start = 0 /\ h = m
              BY <2>2, <4>1
        <5> HIDE DEF start, h, m
        <5>1. /\ h + L - (m - i + 1) = (i - 1) + L /\ start + i - 1 = i - 1 /\ i - 1 \in 0 .. L - 1
              BY <2>a, <4>1, <5>0
        <5>3. (i - 1) % L = i - 1 /\ ((i - 1) + L) % L = i - 1
              BY <2>a, <5>1, WholeTurn
        <5> QED BY <5>1, <5>3
      <4>2. CASE m = L
        <5>0. start = h
              BY <4>2, <2>a
        <5>1. h + L - (m - i + 1) = start + i - 1
          <6> HIDE DEF start, h, m
          <6> QED BY <2>a, <4>2, <5>0
        <5> HIDE DEF start, h, m
        <5> QED BY <5>1
      <4> QED BY <4>1, <4>2, <2>a
    <3> QED BY <3>1, <3>2, <3>3
  <2>5. LastOf(taps, L) = [i \in 1 .. m |-> LastOf(taps, L)[i]]
        BY <2>3, <2>a
  <2>6. \A i \in 1 .. m : tap.buf[(start + i - 1) % L] = LastOf(taps, L)[i]
        BY <2>3, <2>4
  <2> QED BY <2>5, <2>6 DEF Snapshot
<1> QED BY <1>1, ConTypeAlways, TapAlways, PTL
=============================================================================
