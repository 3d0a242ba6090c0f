-------------------------- MODULE AudioEngineProofs --------------------------
(***************************************************************************)
(* What TLAPS proves of AudioEngine, for every set of texts, and of the    *)
(* texts encode() makes of any table of codes.                             *)
(***************************************************************************)
EXTENDS AudioEngine, Encoder, FiniteSetTheorems, WellFoundedInduction, TLAPS

\* A text that plays, or is about to, is within one of its elements.
Entered ==
  /\ playing \/ starting => at >= 1
  /\ ~(playing /\ starting)

\* The edge detector tells what the player owes to the bus.
EdgeIsMark == was = PlayerMark

\* A consumed press is gone once the suppression ends; until then a lever
\* that is down is known to be down, so that the suppression does not end.
ConsumedInv ==
  /\ \A p \in Levers : memory[p] /\ lever[p] => state[p]
  /\ \A p \in consumed :
       /\ lever[p] => state[p]
       /\ suppressed \/ (~memory[p] /\ ~lever[p])

\* The types, in four parts.
HandsType ==
  /\ lever \in [Levers -> BOOLEAN]
  /\ state \in [Levers -> BOOLEAN]
  /\ memory \in [Levers -> BOOLEAN]
  /\ consumed \subseteq Levers

FlagsType ==
  /\ type \in KeyTypes
  /\ suppressed \in BOOLEAN
  /\ playing \in BOOLEAN
  /\ starting \in BOOLEAN
  /\ down \in BOOLEAN
  /\ was \in BOOLEAN
  /\ released \in BOOLEAN
  /\ boundary \in BOOLEAN
  /\ element \in Levers \union {"none"}
  /\ over \in BOOLEAN
  /\ waiting \in BOOLEAN
  /\ straight \in {"IDLE", "RISE", "HOLD", "FALL"}
  /\ tone \in BOOLEAN

TextType ==
  /\ elements \in Seq(Elements)
  /\ at \in 0 .. Len(elements)
  /\ count \in Nat
  /\ keyed \subseteq 1 .. Len(elements)

EchoType == echo \in Echoes

PlayInv == TypeOK /\ Entered /\ EdgeIsMark

-----------------------------------------------------------------------------
\* A text set apart from the one before it is a text.
LEMMA PreparedType ==
  ASSUME NEW t \in Texts, NEW c
  PROVE  Prepared(t.elements, c) \in Seq(Elements)
<1>1. t.elements \in Seq(Elements)
      BY TextsType
<1>2. <<"CHAR_SPACE">> \o t.elements \in Seq(Elements)
      BY <1>1 DEF Elements
<1> QED BY Zenon, <1>1, <1>2 DEF Prepared

LEMMA KeysType == \A el : Keys(el) \in BOOLEAN
BY DEF Keys

\* The levers and what is remembered of them.
LEMMA HandsStep ==
  ASSUME HandsType, FlagsType, [Next]_vars
  PROVE  HandsType'
<1> USE DEF HandsType, FlagsType, Levers, vars, hands, routing, text, iambic
<1>1. ASSUME NEW p \in Levers, MoveLever(p)
      PROVE  HandsType'
      BY <1>1 DEF MoveLever
<1>2. ASSUME NEW t \in Texts, NEW c \in BOOLEAN, PlayText(t, c)
      PROVE  HandsType'
      BY <1>2 DEF PlayText
<1>3. CASE StopText
      BY <1>3 DEF StopText, Stop, KeyUp
<1>4. CASE SwitchOff
      BY <1>4 DEF SwitchOff
<1>5. CASE WebType
      BY <1>5 DEF WebType
<1>6. CASE Cancel
      BY <1>6 DEF Cancel, Stop, KeyUp, Sound
<1>7. CASE Suppress
      BY <1>7 DEF Suppress, Sound
<1>8. CASE Release
      BY <1>8 DEF Release, NoMemory, Sound
<1>9. CASE IambicStart
      BY <1>9 DEF IambicStart, Start, KeyDown, Latched, Sound, ToIambic,
         Free
<1>10. CASE IambicSilence
      BY <1>10 DEF IambicSilence, NoMemory, Sound, ToIambic, Free
<1>11. CASE IambicSound
      BY <1>11 DEF IambicSound, Sound, ToIambic
<1>12. CASE IambicEndMark
      BY <1>12 DEF IambicEndMark, KeyUp, Sound, ToIambic
<1>13. CASE IambicEndElement
      BY <1>13 DEF IambicEndElement, Start, KeyDown, Other, Sound, ToIambic,
         Free
<1>14. CASE StraightDown
      BY <1>14 DEF StraightDown, KeyDown, Sound, ToStraight, Free
<1>15. CASE StraightUp
      BY <1>15 DEF StraightUp, KeyUp, Sound, ToStraight
<1>16. CASE StraightRamp
      BY <1>16 DEF StraightRamp, Sound, ToStraight
<1>17. CASE StraightStay
      BY <1>17 DEF StraightStay, Sound, ToStraight
<1>18. CASE PlayerSound
      BY <1>18 DEF PlayerSound, Sound
<1>19. CASE PlayerEndMark
      BY <1>19 DEF PlayerEndMark, KeyUp, Sound, ToPlayer
<1>20. CASE PlayerAdvance
      BY <1>20 DEF PlayerAdvance, Enter, KeyDown, KeyUp, Sound, ToPlayer
<1>21. CASE PlayerExhausted
      BY <1>21 DEF PlayerExhausted, KeyUp, Sound, ToPlayer
<1>22. CASE Silence
      BY <1>22 DEF Silence, Sound
<1>23. CASE Publish
      BY Zenon, <1>23 DEF Publish
<1>24. CASE UNCHANGED vars
      BY <1>24
<1> QED
    BY <1>1, <1>2, <1>3, <1>4, <1>5, <1>6, <1>7, <1>8, <1>9, <1>10,
       <1>11, <1>12, <1>13, <1>14, <1>15, <1>16, <1>17, <1>18, <1>19,
       <1>20, <1>21, <1>22, <1>23, <1>24
     DEF Next, Loop, StartText, FillBuffer, Iambic, Straight, Player

\* The flags.
LEMMA FlagsStep ==
  ASSUME HandsType, FlagsType, TextType, Entered, [Next]_vars
  PROVE  FlagsType'
<1> USE DEF FlagsType, vars, hands, routing, text, iambic
<1>1. ASSUME NEW p \in Levers, MoveLever(p)
      PROVE  FlagsType'
      BY <1>1 DEF MoveLever
<1>2. ASSUME NEW t \in Texts, NEW c \in BOOLEAN, PlayText(t, c)
      PROVE  FlagsType'
  <2>2. elements' \in Seq(Elements)
        BY Zenon, <1>2, PreparedType DEF PlayText
  <2>3. CASE elements' = << >>
        BY Zenon, <1>2, <2>3 DEF PlayText
  <2>4. CASE elements' # << >>
    <3>1. Keys(elements'[1]) \in BOOLEAN
          BY Zenon, KeysType
    <3> QED BY Zenon, <1>2, <2>4, <3>1 DEF PlayText, Enter
  <2> QED BY <2>3, <2>4
<1>3. CASE StopText
      BY Zenon, <1>3 DEF StopText, Stop, KeyUp
<1>4. CASE SwitchOff
      BY Zenon, <1>4 DEF SwitchOff
<1>5. CASE WebType
      BY <1>5 DEF WebType
<1>6. CASE Cancel
      BY Zenon, <1>6 DEF Cancel, Stop, KeyUp, Sound
<1>7. CASE Suppress
      BY Zenon, <1>7 DEF Suppress, Sound
<1>8. CASE Release
      BY Zenon, <1>8 DEF Release, NoMemory, Sound
<1>9. CASE IambicStart
  <2>1. element' \in Levers
        BY <1>9 DEF IambicStart, Start, Levers
  <2>2. over' \in BOOLEAN /\ tone' \in BOOLEAN
        BY Zenon, <1>9 DEF IambicStart, Start, Sound
  <2>3. UNCHANGED <<routing, text, waiting, straight>>
        BY Zenon, <1>9 DEF IambicStart
  <2> QED BY Zenon, <2>1, <2>2, <2>3
<1>10. CASE IambicSilence
      BY Zenon, <1>10 DEF IambicSilence, NoMemory, Sound, ToIambic, Free
<1>11. CASE IambicSound
      BY Zenon, <1>11 DEF IambicSound, Sound, ToIambic
<1>12. CASE IambicEndMark
      BY Zenon, <1>12 DEF IambicEndMark, KeyUp, Sound, ToIambic
<1>13. CASE IambicEndElement
  <2>1. element' \in Levers \union {"none"}
        BY <1>13 DEF IambicEndElement, Start, Other, Levers
  <2>2. over' \in BOOLEAN
        BY Zenon, <1>13 DEF IambicEndElement, Start
  <2>3. tone' \in BOOLEAN /\ waiting' \in BOOLEAN
        BY Zenon, <1>13 DEF IambicEndElement, Sound
  <2>4. UNCHANGED <<routing, text, straight>>
        BY Zenon, <1>13 DEF IambicEndElement
  <2> QED BY Zenon, <2>1, <2>2, <2>3, <2>4
<1>14. CASE StraightDown
      BY Zenon, <1>14 DEF StraightDown, KeyDown, Sound, ToStraight, Free
<1>15. CASE StraightUp
      BY Zenon, <1>15 DEF StraightUp, KeyUp, Sound, ToStraight
<1>16. CASE StraightRamp
      BY Zenon, <1>16 DEF StraightRamp, Sound, ToStraight
<1>17. CASE StraightStay
      BY Zenon, <1>17 DEF StraightStay, Sound, ToStraight
<1>18. CASE PlayerSound
      BY Zenon, <1>18 DEF PlayerSound, Sound
<1>19. CASE PlayerEndMark
      BY Zenon, <1>19 DEF PlayerEndMark, KeyUp, Sound, ToPlayer
<1>20. CASE PlayerAdvance
  <2>1. Keys(elements[at + 1]) \in BOOLEAN
        BY Zenon, KeysType
  <2>2. UNCHANGED <<routing, playing, starting, boundary, iambic, straight>>
        BY Zenon, <1>20 DEF PlayerAdvance
  <2>3. down' \in BOOLEAN /\ was' \in BOOLEAN /\ tone' \in BOOLEAN
        BY Zenon, <1>20, <2>1 DEF PlayerAdvance, Enter, Sound
  <2>4. released' \in BOOLEAN
        BY Zenon, <1>20, <2>1 DEF PlayerAdvance
  <2> QED BY Zenon, <2>2, <2>3, <2>4
<1>21. CASE PlayerExhausted
      BY Zenon, <1>21 DEF PlayerExhausted, KeyUp, Sound, ToPlayer
<1>22. CASE Silence
      BY Zenon, <1>22 DEF Silence, Sound
<1>23. CASE Publish
      BY Zenon, <1>23 DEF Publish
<1>24. CASE UNCHANGED vars
      BY <1>24
<1> QED
    BY Zenon, <1>1, <1>2, <1>3, <1>4, <1>5, <1>6, <1>7, <1>8, <1>9,
       <1>10, <1>11, <1>12, <1>13, <1>14, <1>15, <1>16, <1>17, <1>18,
       <1>19, <1>20, <1>21, <1>22, <1>23, <1>24
     DEF Next, Loop, StartText, FillBuffer, Iambic, Straight, Player

\* The place in the text and the count.
LEMMA TextStep ==
  ASSUME TextType, Entered, [Next]_vars
  PROVE  (TextType /\ Entered)'
<1> USE DEF TextType, Entered, vars, hands, routing, text, iambic
<1>1. ASSUME NEW p \in Levers, MoveLever(p)
      PROVE  (TextType /\ Entered)'
      BY <1>1 DEF MoveLever
<1>2. ASSUME NEW t \in Texts, NEW c \in BOOLEAN, PlayText(t, c)
      PROVE  (TextType /\ Entered)'
  <2>2. elements' \in Seq(Elements)
        BY Zenon, <1>2, PreparedType DEF PlayText
  <2>3. CASE elements' = << >>
    <3>1. at' = 0 /\ count' = count /\ ~playing' /\ ~starting'
          BY Zenon, <1>2, <2>3 DEF PlayText
    <3>2. keyed' = {}
          BY Zenon, <1>2, <2>3 DEF PlayText
    <3> QED BY <2>2, <2>3, <3>1, <3>2
  <2>4. CASE elements' # << >>
    <3>1. Len(elements') \in Nat /\ Len(elements') >= 1
          BY <2>2, <2>4
    <3>2. at' = 1 /\ count' \in Nat /\ keyed' \subseteq {1} /\ ~playing'
          BY <1>2, <2>4 DEF PlayText, Enter, KeyDown, KeyUp
    <3> QED BY <2>2, <3>1, <3>2
  <2> QED BY <2>3, <2>4
<1>3. CASE StopText
      BY <1>3 DEF StopText, Stop, KeyUp
<1>4. CASE SwitchOff
      BY <1>4 DEF SwitchOff
<1>5. CASE WebType
      BY <1>5 DEF WebType
<1>6. CASE Cancel
      BY <1>6 DEF Cancel, Stop, KeyUp, Sound
<1>7. CASE Suppress
      BY <1>7 DEF Suppress, Sound
<1>8. CASE Release
      BY <1>8 DEF Release, NoMemory, Sound
<1>9. CASE IambicStart
      BY <1>9 DEF IambicStart, Start, KeyDown, Latched, Sound, ToIambic,
         Free
<1>10. CASE IambicSilence
      BY <1>10 DEF IambicSilence, NoMemory, Sound, ToIambic, Free
<1>11. CASE IambicSound
      BY <1>11 DEF IambicSound, Sound, ToIambic
<1>12. CASE IambicEndMark
      BY <1>12 DEF IambicEndMark, KeyUp, Sound, ToIambic
<1>13. CASE IambicEndElement
  <2>1. count' = count + 1 \/ count' = count
        BY Zenon, <1>13 DEF IambicEndElement, Start, KeyDown
  <2>2. UNCHANGED text
        BY Zenon, <1>13 DEF IambicEndElement
  <2> QED BY <2>1, <2>2
<1>14. CASE StraightDown
      BY <1>14 DEF StraightDown, KeyDown, Sound, ToStraight, Free
<1>15. CASE StraightUp
      BY <1>15 DEF StraightUp, KeyUp, Sound, ToStraight
<1>16. CASE StraightRamp
      BY <1>16 DEF StraightRamp, Sound, ToStraight
<1>17. CASE StraightStay
      BY <1>17 DEF StraightStay, Sound, ToStraight
<1>18. CASE PlayerSound
      BY <1>18 DEF PlayerSound, Sound
<1>19. CASE PlayerEndMark
      BY <1>19 DEF PlayerEndMark, KeyUp, Sound, ToPlayer
<1>20. CASE PlayerAdvance
  <2>1. at + 1 \in 1 .. Len(elements)
        BY <1>20 DEF PlayerAdvance
  <2>2. UNCHANGED <<elements, playing, starting>> /\ at' = at + 1
        BY <1>20 DEF PlayerAdvance, Enter
  <2>3. count' \in Nat
        BY <1>20 DEF PlayerAdvance, Enter, KeyDown, KeyUp
  <2>4. keyed' \subseteq keyed \union {at + 1}
        BY <1>20 DEF PlayerAdvance
  <2> QED BY <2>1, <2>2, <2>3, <2>4
<1>21. CASE PlayerExhausted
      BY <1>21 DEF PlayerExhausted, KeyUp, Sound, ToPlayer
<1>22. CASE Silence
      BY <1>22 DEF Silence, Sound
<1>23. CASE Publish
      BY Zenon, <1>23 DEF Publish
<1>24. CASE UNCHANGED vars
      BY <1>24
<1> QED
    BY <1>1, <1>2, <1>3, <1>4, <1>5, <1>6, <1>7, <1>8, <1>9, <1>10,
       <1>11, <1>12, <1>13, <1>14, <1>15, <1>16, <1>17, <1>18, <1>19,
       <1>20, <1>21, <1>22, <1>23, <1>24
     DEF Next, Loop, StartText, FillBuffer, Iambic, Straight, Player

\* The echo stays within its text.
LEMMA CharactersType == Nul \in Characters /\ Blank \in Characters
BY Zenon DEF Characters

LEMMA CharAtType ==
  ASSUME NEW s \in Seq(Characters), NEW i \in Nat
  PROVE  CharAt(s, i) \in Characters
<1>1. CASE i < Len(s)
  <2>1. s[i + 1] \in Characters
        BY <1>1
  <2> QED BY Zenon, <1>1, <2>1 DEF CharAt
<1>2. CASE ~(i < Len(s))
      BY Zenon, <1>2, CharactersType DEF CharAt
<1> QED BY Zenon, <1>1, <1>2

LEMMA RewoundType ==
  ASSUME NEW s \in Seq(Characters)
  PROVE  Rewound(s) \in Echoes
<1>1. CharAt(s, 0) \in Characters
      BY CharAtType
<1> QED BY <1>1 DEF Rewound, Echoes, EchoRecords

LEMMA AtPlaceType ==
  ASSUME NEW e \in Echoes, NEW i \in 0 .. Len(e.chars)
  PROVE  AtPlace(e, i) \in Echoes
<1>1. i \in Nat /\ e.chars \in Seq(Characters)
      BY DEF Echoes, EchoRecords
<1>2. CharAt(e.chars, i) \in Characters
      BY <1>1, CharAtType
<1> DEFINE c == CharAt(e.chars, i)
           r == [e EXCEPT !.charIdx = i, !.currentChar = c]
<1>3. c \in Characters
      BY Zenon, <1>2
<1> HIDE DEF c
<1>4. e \in EchoRecords
      BY Zenon DEF Echoes
<1>5. r \in EchoRecords /\ r.chars = e.chars /\ r.charIdx = i /\ r.currentChar = c
      BY <1>1, <1>3, <1>4 DEF EchoRecords
<1>6. r.charIdx <= Len(r.chars)
      BY <1>5
<1>7. r.currentChar = CharAt(r.chars, r.charIdx)
      BY Zenon, <1>5 DEF c
<1> HIDE DEF r
<1>8. r \in Echoes
      BY Zenon, <1>5, <1>6, <1>7 DEF Echoes
<1> QED BY Zenon, <1>8 DEF AtPlace, r, c

\* The blanks behind a place are at most as many as the characters behind it.
LEMMA PastBlanksType ==
  ASSUME NEW s \in Seq(Characters), NEW i \in 0 .. Len(s)
  PROVE  PastBlanks(s, i) \in 0 .. Len(s)
<1> DEFINE behind == i + 1 .. Len(s)
           blanks == {j \in behind : \A k \in i + 1 .. j : s[k] = Blank}
<1>1. IsFiniteSet(behind) /\ Cardinality(behind) = Len(s) - i
  <2>1. i + 1 \in Int /\ Len(s) \in Int /\ i <= Len(s)
        OBVIOUS
  <2>2. /\ IsFiniteSet(behind)
        /\ Cardinality(behind) = IF i + 1 > Len(s) THEN 0 ELSE Len(s) - (i + 1) + 1
        BY Zenon, <2>1, FS_Interval
  <2> QED BY <2>1, <2>2
<1>2. Cardinality(blanks) \in Nat /\ Cardinality(blanks) <= Len(s) - i
  <2>1. blanks \subseteq behind
        OBVIOUS
  <2>2. IsFiniteSet(blanks) /\ Cardinality(blanks) <= Cardinality(behind)
        BY Zenon, <1>1, <2>1, FS_Subset
  <2>3. Cardinality(blanks) \in Nat
        BY Zenon, <2>2, FS_CardinalityType
  <2> QED BY <1>1, <2>2, <2>3
<1> HIDE DEF blanks
<1>3. i + Cardinality(blanks) \in 0 .. Len(s)
      BY <1>2
<1> QED BY Zenon, <1>3 DEF PastBlanks, blanks, behind

LEMMA EchoedType ==
  ASSUME NEW e \in Echoes, NEW el
  PROVE  Echoed(e, el) \in Echoes /\ AtEnd(e) \in Echoes
<1>1. /\ e.chars \in Seq(Characters) /\ e.shown \in Seq(Characters) /\ e.currentChar \in Characters
      /\ e.charIdx \in 0 .. Len(e.chars)
      BY DEF Echoes, EchoRecords
<1>2. AtMark(e) \in Echoes
  <2>1. PastBlanks(e.chars, e.charIdx) \in 0 .. Len(e.chars)
        BY Zenon, <1>1, PastBlanksType
  <2> QED BY Zenon, <2>1, AtPlaceType DEF AtMark
<1>3. AtSpace(e, el) \in Echoes
  <2>1. CASE e.charIdx < Len(e.chars)
    <3>1. AtPlace(e, e.charIdx + 1) \in Echoes
          BY <1>1, <2>1, AtPlaceType
    <3>2. ASSUME NEW b \in BOOLEAN
          PROVE  e.shown \o <<e.currentChar>> \o (IF b THEN <<Blank>> ELSE << >>) \in Seq(Characters)
      <4>1. e.shown \o <<e.currentChar>> \in Seq(Characters)
            BY <1>1
      <4>2. <<Blank>> \in Seq(Characters) /\ << >> \in Seq(Characters)
            BY CharactersType
      <4>3. (IF b THEN <<Blank>> ELSE << >>) \in Seq(Characters)
            BY Zenon, <4>2
      <4> QED BY <4>1, <4>3
    <3>3. ASSUME NEW q \in Seq(Characters)
          PROVE  [AtPlace(e, e.charIdx + 1) EXCEPT !.shown = q] \in Echoes
          BY <3>1 DEF Echoes, EchoRecords
    <3> QED BY Zenon, <2>1, <3>2, <3>3 DEF AtSpace
  <2>2. CASE ~(e.charIdx < Len(e.chars))
        BY Zenon, <2>2 DEF AtSpace
  <2> QED BY Zenon, <2>1, <2>2
<1>4. AtEnd(e) \in Echoes
  <2>1. SubSeq(e.chars, e.charIdx + 1, Len(e.chars)) \in Seq(Characters)
        BY <1>1
  <2>2. e.shown \o SubSeq(e.chars, e.charIdx + 1, Len(e.chars)) \in Seq(Characters)
        BY <1>1, <2>1
  <2>3. CharAt(e.chars, Len(e.chars)) = Nul
        BY <1>1 DEF CharAt
  <2> DEFINE all == e.shown \o SubSeq(e.chars, e.charIdx + 1, Len(e.chars))
             n == Len(e.chars)
             r == [e EXCEPT !.shown = all, !.charIdx = n, !.currentChar = Nul]
  <2>4. all \in Seq(Characters)
        BY Zenon, <2>2
  <2>5. n \in Nat
        BY <1>1
  <2> HIDE DEF all, n
  <2>6. e \in EchoRecords
        BY Zenon DEF Echoes
  <2>7. /\ r \in EchoRecords /\ r.chars = e.chars /\ r.charIdx = n
        /\ r.currentChar = Nul
        BY <2>4, <2>5, <2>6, CharactersType DEF EchoRecords
  <2>8. r.charIdx <= Len(r.chars)
        BY <2>5, <2>7 DEF n
  <2>9. r.currentChar = CharAt(r.chars, r.charIdx)
        BY Zenon, <2>3, <2>7 DEF n
  <2> HIDE DEF r
  <2>10. r \in Echoes
        BY Zenon, <2>7, <2>8, <2>9 DEF Echoes
  <2> QED BY Zenon, <2>10 DEF AtEnd, r, all, n
<1> QED BY Zenon, <1>2, <1>3, <1>4 DEF Echoed

LEMMA EchoStep ==
  ASSUME EchoType, [Next]_vars
  PROVE  EchoType'
<1> USE DEF EchoType
<1>1. ASSUME NEW t \in Texts, NEW c \in BOOLEAN, PlayText(t, c)
      PROVE  EchoType'
  <2>1. t.chars \in Seq(Characters)
        BY TextsType
  <2>2. Rewound(t.chars) \in Echoes
        BY <2>1, RewoundType
  <2>3. /\ AtEnd(Rewound(t.chars)) \in Echoes
        /\ Echoed(Rewound(t.chars), elements'[1]) \in Echoes
        BY <2>2, EchoedType
  <2> QED BY Zenon, <1>1, <2>2, <2>3 DEF PlayText
<1>2. CASE PlayerAdvance
      BY Zenon, <1>2, EchoedType DEF PlayerAdvance
<1>3. CASE PlayerExhausted
      BY Zenon, <1>3, EchoedType DEF PlayerExhausted
<1>4. CASE UNCHANGED echo
      BY Zenon, <1>4
<1>5. UNCHANGED text => UNCHANGED echo
      BY DEF text
<1>6. ASSUME NEW p \in Levers, MoveLever(p)
      PROVE  UNCHANGED text
      BY Zenon, <1>6 DEF MoveLever
<1>7. StopText \/ Publish \/ Cancel \/ PlayerEndMark => UNCHANGED echo
      BY Zenon DEF StopText, Publish, Cancel, PlayerEndMark, Stop
<1>8. SwitchOff \/ WebType \/ Suppress \/ Release \/ PlayerSound \/ Silence => UNCHANGED text
      BY Zenon DEF SwitchOff, WebType, Suppress, Release, PlayerSound, Silence
<1>9. Iambic => UNCHANGED text
      BY Zenon DEF Iambic, IambicStart, IambicSilence, IambicSound, IambicEndMark, IambicEndElement
<1>10. Straight => UNCHANGED text
      BY Zenon DEF Straight, StraightDown, StraightUp, StraightRamp, StraightStay
<1>11. CASE UNCHANGED vars
      BY Zenon, <1>11, <1>5 DEF vars
<1> QED
    BY Zenon, <1>1, <1>2, <1>3, <1>4, <1>5, <1>6, <1>7, <1>8, <1>9, <1>10, <1>11
    DEF Next, Loop, StartText, FillBuffer, Player

\* The edge detector.
LEMMA EdgeStep ==
  ASSUME FlagsType, TextType, EdgeIsMark, [Next]_vars
  PROVE  EdgeIsMark'
<1> USE DEF EdgeIsMark, PlayerMark, FlagsType,
            vars, hands, routing, text, iambic
<1>1. ASSUME NEW p \in Levers, MoveLever(p)
      PROVE  EdgeIsMark'
      BY Zenon, <1>1 DEF MoveLever
<1>2. ASSUME NEW t \in Texts, NEW c \in BOOLEAN, PlayText(t, c)
      PROVE  EdgeIsMark'
  <2>1. CASE elements' = << >>
        BY Zenon, <1>2, <2>1 DEF PlayText
  <2>2. CASE elements' # << >>
    <3>1. elements' \in Seq(Elements)
          BY Zenon, <1>2, PreparedType DEF PlayText
    <3>2. Keys(elements'[1]) \in BOOLEAN
          BY Zenon, KeysType
    <3> QED BY Zenon, <1>2, <2>2, <3>2 DEF PlayText, Enter
  <2> QED BY <2>1, <2>2
<1>3. CASE StopText
      BY Zenon, <1>3 DEF StopText, Stop
<1>4. CASE SwitchOff
      BY Zenon, <1>4 DEF SwitchOff
<1>5. CASE WebType
      BY Zenon, <1>5 DEF WebType
<1>6. CASE Cancel
      BY Zenon, <1>6 DEF Cancel, Stop
<1>7. CASE Suppress
      BY Zenon, <1>7 DEF Suppress, Sound
<1>8. CASE Release
      BY Zenon, <1>8 DEF Release, NoMemory, Sound
<1>9. CASE IambicStart
      BY Zenon, <1>9 DEF IambicStart, Start, KeyDown, Latched, Sound,
         ToIambic, Free
<1>10. CASE IambicSilence
      BY Zenon, <1>10 DEF IambicSilence, NoMemory, Sound, ToIambic, Free
<1>11. CASE IambicSound
      BY Zenon, <1>11 DEF IambicSound, Sound, ToIambic
<1>12. CASE IambicEndMark
      BY Zenon, <1>12 DEF IambicEndMark, KeyUp, Sound, ToIambic
<1>13. CASE IambicEndElement
      BY Zenon, <1>13 DEF IambicEndElement, Start, KeyDown, Other, Sound,
         ToIambic, Free
<1>14. CASE StraightDown
      BY Zenon, <1>14 DEF StraightDown, KeyDown, Sound, ToStraight, Free
<1>15. CASE StraightUp
      BY Zenon, <1>15 DEF StraightUp, KeyUp, Sound, ToStraight
<1>16. CASE StraightRamp
      BY Zenon, <1>16 DEF StraightRamp, Sound, ToStraight
<1>17. CASE StraightStay
      BY Zenon, <1>17 DEF StraightStay, Sound, ToStraight
<1>18. CASE PlayerSound
      BY Zenon, <1>18 DEF PlayerSound, Sound
<1>19. CASE PlayerEndMark
      BY Zenon, <1>19 DEF PlayerEndMark, KeyUp, Sound, ToPlayer
<1>20. CASE PlayerAdvance
  <2>1. down' = Keys(elements[at + 1]) /\ was' = Keys(elements[at + 1]) /\ playing' = TRUE
        BY Zenon, <1>20 DEF PlayerAdvance, Enter, ToPlayer, FlagsType
  <2>2. Keys(elements[at + 1]) \in BOOLEAN
        BY Zenon, KeysType
  <2>3. released' = (released /\ ~Keys(elements[at + 1]))
        BY Zenon, <1>20 DEF PlayerAdvance
  <2> QED BY Zenon, <2>1, <2>2, <2>3
<1>21. CASE PlayerExhausted
      BY Zenon, <1>21 DEF PlayerExhausted
<1>22. CASE Silence
      BY Zenon, <1>22 DEF Silence, Sound
<1>23. CASE Publish
      BY Zenon, <1>23 DEF Publish
<1>24. CASE UNCHANGED vars
      BY Zenon, <1>24
<1> QED
    BY Zenon, <1>1, <1>2, <1>3, <1>4, <1>5, <1>6, <1>7, <1>8, <1>9,
       <1>10, <1>11, <1>12, <1>13, <1>14, <1>15, <1>16, <1>17, <1>18,
       <1>19, <1>20, <1>21, <1>22, <1>23, <1>24
     DEF Next, Loop, StartText, FillBuffer, Iambic, Straight, Player

\* The elements keyed.
LEMMA KeyedStep ==
  ASSUME FlagsType, TextType, Entered, EdgeIsMark, EveryMarkKeyed, [Next]_vars
  PROVE  EveryMarkKeyed'
<1> USE DEF EveryMarkKeyed, vars, hands, routing, text, iambic
<1>1. ASSUME NEW p \in Levers, MoveLever(p)
      PROVE  EveryMarkKeyed'
      BY Zenon, <1>1 DEF MoveLever
<1>2. ASSUME NEW t \in Texts, NEW c \in BOOLEAN, PlayText(t, c)
      PROVE  EveryMarkKeyed'
  <2>1. CASE elements' = << >>
        BY Zenon, <1>2, <2>1 DEF PlayText
  <2>2. CASE elements' # << >>
    <3>1. at' = 1 /\ keyed' = {k \in {1} : Keys(elements'[1])}
          BY Zenon, <1>2, <2>2 DEF PlayText, Enter
    <3>2. 1 .. 1 = {1}
          OBVIOUS
    <3> QED BY Zenon, <3>1, <3>2
  <2> QED BY <2>1, <2>2
<1>3. CASE StopText
      BY Zenon, <1>3 DEF StopText, Stop
<1>4. CASE SwitchOff
      BY Zenon, <1>4 DEF SwitchOff
<1>5. CASE WebType
      BY Zenon, <1>5 DEF WebType
<1>6. CASE Cancel
      BY Zenon, <1>6 DEF Cancel, Stop, Entered
<1>7. CASE Suppress
      BY Zenon, <1>7 DEF Suppress, Sound
<1>8. CASE Release
      BY Zenon, <1>8 DEF Release, NoMemory, Sound
<1>9. CASE IambicStart
      BY Zenon, <1>9 DEF IambicStart, Start, KeyDown, Latched, Sound,
         ToIambic, Free
<1>10. CASE IambicSilence
      BY Zenon, <1>10 DEF IambicSilence, NoMemory, Sound, ToIambic, Free
<1>11. CASE IambicSound
      BY Zenon, <1>11 DEF IambicSound, Sound, ToIambic
<1>12. CASE IambicEndMark
      BY Zenon, <1>12 DEF IambicEndMark, KeyUp, Sound, ToIambic
<1>13. CASE IambicEndElement
      BY Zenon, <1>13 DEF IambicEndElement, Start, KeyDown, Other, Sound,
         ToIambic, Free
<1>14. CASE StraightDown
      BY Zenon, <1>14 DEF StraightDown, KeyDown, Sound, ToStraight, Free
<1>15. CASE StraightUp
      BY Zenon, <1>15 DEF StraightUp, KeyUp, Sound, ToStraight
<1>16. CASE StraightRamp
      BY Zenon, <1>16 DEF StraightRamp, Sound, ToStraight
<1>17. CASE StraightStay
      BY Zenon, <1>17 DEF StraightStay, Sound, ToStraight
<1>18. CASE PlayerSound
      BY Zenon, <1>18 DEF PlayerSound, Sound
<1>19. CASE PlayerEndMark
      BY Zenon, <1>19 DEF PlayerEndMark, KeyUp, Sound, ToPlayer
<1>20. CASE PlayerAdvance
  <2>1. ~was
        BY Zenon, <1>20 DEF PlayerAdvance, EdgeIsMark, PlayerMark
  <2>2. /\ at' = at + 1 /\ elements' = elements /\ playing
        /\ keyed' = IF Keys(elements[at + 1]) THEN keyed \union {at + 1} ELSE keyed
        BY Zenon, <1>20, <2>1 DEF PlayerAdvance, Enter, ToPlayer
  <2>3. /\ at + 1 \notin 1 .. at
        /\ 1 .. (at + 1) = (1 .. at) \union {at + 1}
        BY DEF TextType
  <2> QED BY Zenon, <2>2, <2>3
<1>21. CASE PlayerExhausted
      BY Zenon, <1>21 DEF PlayerExhausted, ToPlayer, Entered
<1>22. CASE Silence
      BY Zenon, <1>22 DEF Silence, Sound
<1>23. CASE Publish
      BY Zenon, <1>23 DEF Publish
<1>24. CASE UNCHANGED vars
      BY Zenon, <1>24
<1> QED
    BY Zenon, <1>1, <1>2, <1>3, <1>4, <1>5, <1>6, <1>7, <1>8, <1>9,
       <1>10, <1>11, <1>12, <1>13, <1>14, <1>15, <1>16, <1>17, <1>18,
       <1>19, <1>20, <1>21, <1>22, <1>23, <1>24
     DEF Next, Loop, StartText, FillBuffer, Iambic, Straight, Player

\* The consumed presses.
LEMMA ConsumedStep ==
  ASSUME HandsType, FlagsType, ConsumedInv, [Next]_vars
  PROVE  ConsumedInv'
<1> USE DEF ConsumedInv, HandsType, vars, hands, routing, text, iambic
<1>1. ASSUME NEW p \in Levers, MoveLever(p)
      PROVE  ConsumedInv'
      BY <1>1 DEF MoveLever
<1>2. ASSUME NEW t \in Texts, NEW c \in BOOLEAN, PlayText(t, c)
      PROVE  ConsumedInv'
      BY <1>2 DEF PlayText
<1>3. CASE StopText
      BY <1>3 DEF StopText, Stop, KeyUp
<1>4. CASE SwitchOff
      BY <1>4 DEF SwitchOff
<1>5. CASE WebType
      BY <1>5 DEF WebType
<1>6. CASE Cancel
      BY <1>6 DEF Cancel, Stop, KeyUp, Sound
<1>7. CASE Suppress
      BY <1>7 DEF Suppress, Sound
<1>8. CASE Release
  <2>1. /\ \A p \in Levers : ~state[p] /\ ~memory'[p] /\ ~state'[p]
        /\ lever' = lever /\ consumed' = consumed
        BY Zenon, <1>8 DEF Release, NoMemory, Holding
  <2>2. \A p \in consumed : p \in Levers /\ ~lever[p]
        BY Zenon, <2>1
  <2> QED BY Zenon, <2>1, <2>2
<1>9. CASE IambicStart
      BY <1>9 DEF IambicStart, Start, KeyDown, Latched, Sound, ToIambic,
         Free
<1>10. CASE IambicSilence
      BY <1>10 DEF IambicSilence, NoMemory, Sound, ToIambic, Free
<1>11. CASE IambicSound
      BY <1>11 DEF IambicSound, Sound, ToIambic
<1>12. CASE IambicEndMark
      BY <1>12 DEF IambicEndMark, KeyUp, Sound, ToIambic
<1>13. CASE IambicEndElement
      BY <1>13 DEF IambicEndElement, Start, KeyDown, Other, Sound, ToIambic,
         Free
<1>14. CASE StraightDown
      BY <1>14 DEF StraightDown, KeyDown, Sound, ToStraight, Free
<1>15. CASE StraightUp
      BY <1>15 DEF StraightUp, KeyUp, Sound, ToStraight
<1>16. CASE StraightRamp
      BY <1>16 DEF StraightRamp, Sound, ToStraight
<1>17. CASE StraightStay
      BY <1>17 DEF StraightStay, Sound, ToStraight
<1>18. CASE PlayerSound
      BY <1>18 DEF PlayerSound, Sound
<1>19. CASE PlayerEndMark
      BY <1>19 DEF PlayerEndMark, KeyUp, Sound, ToPlayer
<1>20. CASE PlayerAdvance
      BY <1>20 DEF PlayerAdvance, Enter, KeyDown, KeyUp, Sound, ToPlayer
<1>21. CASE PlayerExhausted
      BY <1>21 DEF PlayerExhausted, KeyUp, Sound, ToPlayer
<1>22. CASE Silence
      BY <1>22 DEF Silence, Sound
<1>23. CASE Publish
      BY Zenon, <1>23 DEF Publish
<1>24. CASE UNCHANGED vars
      BY <1>24
<1> QED
    BY <1>1, <1>2, <1>3, <1>4, <1>5, <1>6, <1>7, <1>8, <1>9, <1>10,
       <1>11, <1>12, <1>13, <1>14, <1>15, <1>16, <1>17, <1>18, <1>19,
       <1>20, <1>21, <1>22, <1>23, <1>24
     DEF Next, Loop, StartText, FillBuffer, Iambic, Straight, Player

\* The count.
LEMMA CoverStep ==
  ASSUME TypeOK, Entered, EdgeIsMark, CountCovered, [Next]_vars
  PROVE  CountCovered'
<1> USE DEF TypeOK, CountCovered, vars, hands, routing, text, iambic
<1>1. ASSUME NEW p \in Levers, MoveLever(p)
      PROVE  CountCovered'
  <2>1. UNCHANGED <<count, PlayerMark, IambicMark, StraightMark>>
        BY Zenon, <1>1 DEF MoveLever,
             PlayerMark, IambicMark, StraightMark
  <2> QED BY Zenon, <2>1 DEF One
<1>2. ASSUME NEW t \in Texts, NEW c \in BOOLEAN, PlayText(t, c)
      PROVE  CountCovered'
  <2>1. UNCHANGED <<IambicMark, StraightMark>> /\ ~PlayerMark
        BY Zenon, <1>2 DEF PlayText,
             PlayerMark, IambicMark, StraightMark
  <2>2. count' = count \/ (PlayerMark' /\ count' = count + 1)
    <3>1. CASE elements' = << >>
          BY Zenon, <1>2, <3>1 DEF PlayText,
             PlayerMark, IambicMark, StraightMark
    <3>2. CASE elements' # << >>
          BY Zenon, <1>2, <3>2 DEF PlayText, Enter, KeyDown,
             PlayerMark, IambicMark, StraightMark
    <3> QED BY <3>1, <3>2
  <2> QED BY <2>1, <2>2 DEF One
<1>3. CASE StopText
  <2>1. ~PlayerMark' /\ UNCHANGED <<IambicMark, StraightMark>>
        BY Zenon, <1>3 DEF StopText, Stop,
             PlayerMark, IambicMark, StraightMark
  <2>2. IF PlayerMark THEN KeyUp ELSE count' = count
        BY Zenon, <1>3 DEF EdgeIsMark, StopText, Stop,
             PlayerMark, IambicMark, StraightMark
  <2> QED BY <2>1, <2>2 DEF KeyUp, One
<1>4. CASE SwitchOff
  <2>1. count' = 0
        BY <1>4 DEF SwitchOff
  <2> QED BY <2>1 DEF One
<1>5. CASE WebType
  <2>1. UNCHANGED <<count, PlayerMark, IambicMark, StraightMark>>
        BY Zenon, <1>5 DEF WebType,
             PlayerMark, IambicMark, StraightMark
  <2> QED BY Zenon, <2>1 DEF One
<1>6. CASE Cancel
  <2>1. ~PlayerMark' /\ UNCHANGED <<IambicMark, StraightMark>>
        BY Zenon, <1>6 DEF Cancel, Stop,
             PlayerMark, IambicMark, StraightMark
  <2>2. IF PlayerMark THEN KeyUp ELSE count' = count
        BY Zenon, <1>6 DEF EdgeIsMark, Cancel, Stop,
             PlayerMark, IambicMark, StraightMark
  <2> QED BY <2>1, <2>2 DEF KeyUp, One
<1>7. CASE Suppress
  <2>1. UNCHANGED <<count, PlayerMark, IambicMark, StraightMark>>
        BY Zenon, <1>7 DEF Suppress, Sound,
             PlayerMark, IambicMark, StraightMark
  <2> QED BY Zenon, <2>1 DEF One
<1>8. CASE Release
  <2>1. UNCHANGED <<count, PlayerMark, IambicMark, StraightMark>>
        BY Zenon, <1>8 DEF Release, NoMemory, Sound,
             PlayerMark, IambicMark, StraightMark
  <2> QED BY Zenon, <2>1 DEF One
<1>9. CASE IambicStart
  <2>1. ~IambicMark /\ IambicMark' /\ count' = count + 1
        BY Zenon, <1>9 DEF IambicStart, Start, KeyDown, Levers,
             PlayerMark, IambicMark, StraightMark
  <2>2. UNCHANGED <<PlayerMark, StraightMark>>
        BY Zenon, <1>9 DEF IambicStart, Start, KeyDown, Levers,
             PlayerMark, IambicMark, StraightMark
  <2> QED BY <2>1, <2>2 DEF One
<1>10. CASE IambicSilence
  <2>1. UNCHANGED <<count, PlayerMark, IambicMark, StraightMark>>
        BY Zenon, <1>10 DEF IambicSilence, NoMemory, Sound, ToIambic, Free,
             PlayerMark, IambicMark, StraightMark
  <2> QED BY Zenon, <2>1 DEF One
<1>11. CASE IambicSound
  <2>1. UNCHANGED <<count, PlayerMark, IambicMark, StraightMark>>
        BY Zenon, <1>11 DEF IambicSound, Sound, ToIambic,
             PlayerMark, IambicMark, StraightMark
  <2> QED BY Zenon, <2>1 DEF One
<1>12. CASE IambicEndMark
  <2>1. IambicMark /\ ~IambicMark' /\ KeyUp
        BY Zenon, <1>12 DEF IambicEndMark,
             PlayerMark, IambicMark, StraightMark
  <2>2. UNCHANGED <<PlayerMark, StraightMark>>
        BY Zenon, <1>12 DEF IambicEndMark,
             PlayerMark, IambicMark, StraightMark
  <2> QED BY <2>1, <2>2 DEF KeyUp, One
<1>13. CASE IambicEndElement
  <2>1. UNCHANGED <<PlayerMark, StraightMark>> /\ ~IambicMark
        BY Zenon, <1>13 DEF IambicEndElement,
             PlayerMark, IambicMark, StraightMark
  <2>2. Other(element) # "none"
        BY DEF Other
  <2>3. count' = count \/ (IambicMark' /\ count' = count + 1)
        BY Zenon, <1>13, <2>2 DEF IambicEndElement, Start, KeyDown,
             PlayerMark, IambicMark, StraightMark
  <2> QED BY <2>1, <2>3 DEF One
<1>14. CASE StraightDown
  <2>1. ~StraightMark /\ StraightMark' /\ count' = count + 1
        BY Zenon, <1>14 DEF StraightDown, KeyDown, Sound, ToStraight, Free,
             PlayerMark, IambicMark, StraightMark
  <2>2. UNCHANGED <<PlayerMark, IambicMark>>
        BY Zenon, <1>14 DEF StraightDown, KeyDown, Sound, ToStraight, Free,
             PlayerMark, IambicMark, StraightMark
  <2> QED BY <2>1, <2>2 DEF One
<1>15. CASE StraightUp
  <2>1. StraightMark /\ ~StraightMark' /\ KeyUp
        BY Zenon, <1>15 DEF StraightUp,
             PlayerMark, IambicMark, StraightMark
  <2>2. UNCHANGED <<PlayerMark, IambicMark>>
        BY Zenon, <1>15 DEF StraightUp,
             PlayerMark, IambicMark, StraightMark
  <2> QED BY <2>1, <2>2 DEF KeyUp, One
<1>16. CASE StraightRamp
  <2>1. straight' \in {"RISE", "HOLD"} <=> straight \in {"RISE", "HOLD"}
        BY <1>16 DEF StraightRamp
  <2>2. UNCHANGED <<count, PlayerMark, IambicMark>>
        BY Zenon, <1>16 DEF StraightRamp,
             PlayerMark, IambicMark, StraightMark
  <2> QED BY Zenon, <2>1, <2>2 DEF One, StraightMark
<1>17. CASE StraightStay
  <2>1. UNCHANGED <<count, PlayerMark, IambicMark, StraightMark>>
        BY Zenon, <1>17 DEF StraightStay, Sound, ToStraight,
             PlayerMark, IambicMark, StraightMark
  <2> QED BY Zenon, <2>1 DEF One
<1>18. CASE PlayerSound
  <2>1. UNCHANGED <<count, PlayerMark, IambicMark, StraightMark>>
        BY Zenon, <1>18 DEF PlayerSound, Sound,
             PlayerMark, IambicMark, StraightMark
  <2> QED BY Zenon, <2>1 DEF One
<1>19. CASE PlayerEndMark
  <2>1. PlayerMark /\ ~PlayerMark' /\ KeyUp
        BY Zenon, <1>19 DEF PlayerEndMark, ToPlayer,
             PlayerMark, IambicMark, StraightMark
  <2>2. UNCHANGED <<IambicMark, StraightMark>>
        BY Zenon, <1>19 DEF PlayerEndMark, ToPlayer,
             PlayerMark, IambicMark, StraightMark
  <2> QED BY <2>1, <2>2 DEF KeyUp, One
<1>20. CASE PlayerAdvance
  <2>1. UNCHANGED <<IambicMark, StraightMark>> /\ ~PlayerMark
        BY Zenon, <1>20 DEF PlayerAdvance,
             PlayerMark, IambicMark, StraightMark
  <2>2. ~was
        BY Zenon, <2>1 DEF EdgeIsMark,
             PlayerMark, IambicMark, StraightMark
  <2>3. count' = count \/ (PlayerMark' /\ count' = count + 1)
        BY Zenon, <1>20, <2>2 DEF PlayerAdvance, Enter, KeyDown, ToPlayer,
             PlayerMark, IambicMark, StraightMark
  <2> QED BY <2>1, <2>3 DEF One
<1>21. CASE PlayerExhausted
  <2>1. ~PlayerMark' /\ UNCHANGED <<IambicMark, StraightMark>>
        BY Zenon, <1>21 DEF PlayerExhausted,
             PlayerMark, IambicMark, StraightMark
  <2>2. IF PlayerMark THEN KeyUp ELSE count' = count
        BY Zenon, <1>21 DEF EdgeIsMark, PlayerExhausted,
             PlayerMark, IambicMark, StraightMark
  <2> QED BY <2>1, <2>2 DEF KeyUp, One
<1>22. CASE Silence
  <2>1. UNCHANGED <<count, PlayerMark, IambicMark, StraightMark>>
        BY Zenon, <1>22 DEF Silence, Sound,
             PlayerMark, IambicMark, StraightMark
  <2> QED BY Zenon, <2>1 DEF One
<1>23. CASE Publish
  <2>1. UNCHANGED <<count, PlayerMark, IambicMark, StraightMark>>
        BY Zenon, <1>23 DEF Publish, PlayerMark, IambicMark, StraightMark
  <2> QED BY Zenon, <2>1 DEF One
<1>24. CASE UNCHANGED vars
      BY Zenon, <1>24 DEF PlayerMark, IambicMark, StraightMark
<1> QED
    BY Zenon, <1>1, <1>2, <1>3, <1>4, <1>5, <1>6, <1>7, <1>8, <1>9,
       <1>10, <1>11, <1>12, <1>13, <1>14, <1>15, <1>16, <1>17, <1>18,
       <1>19, <1>20, <1>21, <1>22, <1>23, <1>24
     DEF Next, Loop, StartText, FillBuffer, Iambic, Straight, Player

-----------------------------------------------------------------------------
\* The four parts are the types.
LEMMA TypeParts == TypeOK <=> HandsType /\ FlagsType /\ TextType /\ EchoType
BY Zenon DEF TypeOK, HandsType, FlagsType, TextType, EchoType

\* The state the engine starts in.
LEMMA PlayInit ==
  Init => PlayInv /\ EveryMarkKeyed /\ CountCovered /\ ConsumedInv
<1> SUFFICES ASSUME Init
             PROVE  PlayInv /\ EveryMarkKeyed /\ CountCovered /\ ConsumedInv
    OBVIOUS
<1> USE DEF Init
<1>1. HandsType
      BY DEF HandsType, Levers
<1>2. FlagsType
      BY Zenon DEF FlagsType
<1>3. TextType
      BY DEF TextType
<1>4. Entered /\ EdgeIsMark /\ EveryMarkKeyed /\ ConsumedInv
      BY Zenon DEF Entered, EdgeIsMark, PlayerMark, EveryMarkKeyed, ConsumedInv
<1>5. CountCovered
      BY DEF CountCovered, PlayerMark, IambicMark, StraightMark, One
<1>6. EchoType
  <2>1. << >> \in Seq(Characters)
        OBVIOUS
  <2> QED BY Zenon, <2>1, RewoundType DEF EchoType
<1> QED BY <1>1, <1>2, <1>3, <1>4, <1>5, <1>6, TypeParts DEF PlayInv

\* PlayInv is inductive.
LEMMA PlayStep == PlayInv /\ [Next]_vars => PlayInv'
<1> SUFFICES ASSUME PlayInv, [Next]_vars PROVE PlayInv'
    OBVIOUS
<1>1. HandsType /\ FlagsType /\ TextType /\ EchoType /\ Entered /\ EdgeIsMark
      BY TypeParts DEF PlayInv
<1>2. HandsType' /\ FlagsType' /\ TextType' /\ EchoType' /\ Entered' /\ EdgeIsMark'
      BY Zenon, <1>1, HandsStep, FlagsStep, TextStep, EchoStep, EdgeStep
<1>3. TypeOK'
      BY Zenon, <1>2 DEF TypeOK, HandsType, FlagsType, TextType, EchoType
<1> QED BY <1>2, <1>3 DEF PlayInv

\* Every variable keeps its type.
THEOREM TypeCorrect == Spec => []TypeOK
<1>1. PlayInv => TypeOK
      BY DEF PlayInv
<1> QED BY <1>1, PlayInit, PlayStep, PTL DEF Spec

\* The transmitter is never keyed by nobody: each count on the bus has a
\* source that is within a mark, whatever stops, suppresses or reroutes it.
THEOREM CountAlwaysCovered == Spec => []CountCovered
<1>1. PlayInv /\ CountCovered /\ [Next]_vars => CountCovered'
      BY Zenon, CoverStep DEF PlayInv
<1> QED BY <1>1, PlayInit, PlayStep, PTL DEF Spec

\* No mark of any text is swallowed by the one before it.
THEOREM EveryMarkAlwaysKeyed == Spec => []EveryMarkKeyed
<1>1. PlayInv /\ EveryMarkKeyed /\ [Next]_vars => EveryMarkKeyed'
      BY Zenon, KeyedStep, TypeParts DEF PlayInv
<1> QED BY <1>1, PlayInit, PlayStep, PTL DEF Spec

\* A press that cancelled a text is never heard of again.
THEOREM PressAlwaysConsumed == Spec => PressConsumed
<1>1. PlayInv /\ ConsumedInv /\ [Next]_vars => ConsumedInv'
      BY Zenon, ConsumedStep, TypeParts DEF PlayInv
<1>2. ASSUME PlayInv, ConsumedInv
      PROVE  /\ (IambicStart \/ IambicEndElement) => element' \notin consumed
             /\ StraightDown => "dit" \notin consumed
  <2>1. ASSUME IambicStart PROVE element' \notin consumed
    <3>1. element' \in Latched /\ ~suppressed
          BY <2>1 DEF IambicStart, Start, Latched, Levers, ToIambic, Free
    <3> QED BY Zenon, <1>2, <3>1 DEF ConsumedInv, Latched
  <2>2. ASSUME IambicEndElement PROVE element' \notin consumed
    <3>1. /\ element' = "none" \/ memory'[element']
          /\ ~suppressed
          BY Zenon, <2>2 DEF IambicEndElement, Start, ToIambic, Free
    <3>2. \A p \in consumed : p \in Levers /\ ~memory[p] /\ p # "none"
          BY <1>2, <3>1 DEF ConsumedInv, PlayInv, TypeOK, Levers
    <3>3. \A p \in consumed : ~memory'[p]
          BY <2>2, <3>2, <1>2 DEF IambicEndElement, PlayInv, TypeOK
    <3> QED BY Zenon, <3>1, <3>2, <3>3
  <2>3. ASSUME StraightDown PROVE "dit" \notin consumed
        BY Zenon, <1>2, <2>3 DEF StraightDown, ToStraight, Free, ConsumedInv
  <2> QED BY <2>1, <2>2, <2>3
<1> QED BY <1>1, <1>2, PlayInit, PlayStep, PTL DEF Spec, PressConsumed

\* While the transmitter stays keyed by a keyer, the side tone sounds: the
\* count has an owner (CountCovered), and only the owner's branch is taken.
THEOREM OnAirAlwaysSounds == Spec => OnAirMatchesSidetone
<1>1. ASSUME PlayInv, CountCovered, FillBuffer,
             count > 0, count' > 0, ~playing, ~starting, ~suppressed, ~Frozen
      PROVE  tone'
  <2> USE DEF Sound
  <2>1. IambicMark \/ StraightMark
        BY <1>1 DEF CountCovered, One, PlayerMark, PlayInv, TypeOK
  <2>2. type = "paddle" => IambicMark /\ ~StraightMark
        BY Zenon, <1>1, <2>1 DEF Frozen
  <2>3. type = "straight" => StraightMark /\ ~IambicMark
        BY Zenon, <1>1, <2>1 DEF Frozen
  <2>4. type \in {"paddle", "straight"}
        BY Zenon, <1>1 DEF PlayInv, TypeOK, KeyTypes
  <2>5. CASE Cancel \/ Suppress \/ Release
        BY Zenon, <1>1, <2>5 DEF Cancel, Suppress, Release
  <2>6. CASE Iambic
    <3>1. type = "paddle" /\ element # "none" /\ ~over
          BY Zenon, <2>6, <2>2 DEF Iambic, IambicStart, IambicSilence, IambicSound,
             IambicEndMark, IambicEndElement, ToIambic, IambicMark
    <3> QED BY Zenon, <2>6, <3>1 DEF Iambic, IambicStart, IambicSilence, IambicSound,
               IambicEndMark, IambicEndElement
  <2>7. CASE Straight
    <3>1. straight \in {"RISE", "HOLD"}
          BY Zenon, <2>7, <2>3 DEF Straight, StraightDown, StraightUp, StraightRamp,
             StraightStay, ToStraight, StraightMark
    <3> QED BY <2>7, <3>1 DEF Straight, StraightDown, StraightUp, StraightRamp,
               StraightStay
  <2>8. CASE Player
        BY Zenon, <1>1, <2>8 DEF Player, PlayerSound, PlayerEndMark, PlayerAdvance,
           PlayerExhausted, ToPlayer
  <2>9. CASE Silence
        BY Zenon, <1>1, <2>2, <2>4, <2>9 DEF Silence, ToIambic, ToStraight, Free, IambicMark
  <2> QED BY Zenon, <1>1, <2>5, <2>6, <2>7, <2>8, <2>9 DEF FillBuffer
<1> QED BY <1>1, PlayInit, PlayStep, CountAlwaysCovered, PTL
        DEF Spec, OnAirMatchesSidetone

-----------------------------------------------------------------------------
(* Induction over data: the numbers up to a text's length, and what        *)
(* FlattenSeq() collects of a sequence of sequences.                       *)

\* Every set of numbers has a least one.
LEMMA LeastNat ==
  ASSUME NEW T, T \subseteq Nat, T # {}
  PROVE  \E x \in T : \A y \in T : x <= y
<1> DEFINE R == {p \in Nat \X Nat : p[1] < p[2]}
<1>1. OpToRel(<, Nat) = R
      BY DEF OpToRel
<1>2. IsWellFoundedOn(R, Nat)
      BY Zenon, <1>1, NatLessThanWellFounded
<1>3. PICK x \in T : \A y \in T : <<y, x>> \notin R
  <2> HIDE DEF R
  <2> QED BY Zenon, <1>2, WFMin
<1>4. ASSUME NEW y \in T
      PROVE  x <= y
  <2>1. x \in Nat /\ y \in Nat /\ <<y, x>> \notin R
        BY Zenon, <1>3
  <2>2. ~(y < x)
        BY <2>1
  <2> HIDE DEF R
  <2> QED BY <2>1, <2>2
<1> QED BY Zenon, <1>4

\* What holds of 0, and of each number that follows one it holds of, holds of
\* all; stated of the set of the numbers it holds of.
LEMMA NatClosed ==
  ASSUME NEW H, 0 \in H, \A n \in Nat : n \in H => n + 1 \in H
  PROVE  Nat \subseteq H
<1> SUFFICES ASSUME Nat \ H # {}
             PROVE  FALSE
    BY Zenon
<1>1. PICK n \in Nat \ H : \A m \in Nat \ H : n <= m
      BY Zenon, LeastNat
<1>2. n # 0 /\ n \in Nat
      BY <1>1
<1>3. n - 1 \in Nat /\ ~(n <= n - 1) /\ (n - 1) + 1 = n
      BY <1>2
<1>4. n - 1 \in H
      BY Zenon, <1>1, <1>3
<1> QED BY Zenon, <1>1, <1>3, <1>4

\* f collects the first n sequences of s.
Collects(f, s, n) ==
  f = [i \in 1 .. n |-> IF i = 1 THEN s[i] ELSE f[i - 1] \o s[i]]

LEMMA Collected ==
  ASSUME NEW s, NEW n \in Nat
  PROVE  \E f : Collects(f, s, n)
<1> DEFINE H == {m \in Nat : \E f : Collects(f, s, m)}
<1>1. 0 \in H
  <2>1. Collects(<< >>, s, 0)
        BY DEF Collects
  <2> QED BY Zenon, <2>1
<1>2. ASSUME NEW m \in Nat, m \in H
      PROVE  m + 1 \in H
  <2>1. PICK f : Collects(f, s, m)
        BY Zenon, <1>2
  <2> DEFINE g == [i \in 1 .. m + 1 |-> IF i = m + 1
                                        THEN (IF i = 1 THEN s[i] ELSE f[i - 1] \o s[i])
                                        ELSE f[i]]
  <2>2. ASSUME NEW i \in 1 .. m + 1
        PROVE  g[i] = IF i = 1 THEN s[i] ELSE g[i - 1] \o s[i]
    <3>1. CASE i = m + 1
      <4>1. i # 1 => i - 1 \in 1 .. m + 1 /\ i - 1 # m + 1
            BY <3>1
      <4>2. i # 1 => g[i - 1] = f[i - 1]
            BY Zenon, <4>1
      <4> QED BY Zenon, <3>1, <4>2
    <3>2. CASE i # m + 1
      <4>1. i \in 1 .. m
            BY <3>2
      <4>2. i # 1 => i - 1 \in 1 .. m + 1 /\ i - 1 # m + 1
            BY <4>1
      <4>3. g[i] = f[i] /\ (i # 1 => g[i - 1] = f[i - 1])
            BY Zenon, <3>2, <4>2
      <4>4. f[i] = IF i = 1 THEN s[i] ELSE f[i - 1] \o s[i]
            BY Zenon, <2>1, <4>1 DEF Collects
      <4> QED BY Zenon, <4>3, <4>4
    <3> QED BY Zenon, <3>1, <3>2
  <2>3. Collects(g, s, m + 1)
    <3>1. g = [i \in 1 .. m + 1 |-> g[i]]
          OBVIOUS
    <3> HIDE DEF g
    <3> QED BY Zenon, <2>2, <3>1 DEF Collects
  <2>4. m + 1 \in Nat
        OBVIOUS
  <2> HIDE DEF g
  <2> QED BY Zenon, <2>3, <2>4
<1> HIDE DEF H
<1>3. Nat \subseteq H
      BY Zenon, <1>1, <1>2, NatClosed
<1> QED BY Zenon, <1>3 DEF H

\* FlattenSeq is the last of what is collected.
LEMMA Flattened ==
  ASSUME NEW s, Len(s) \in Nat, Len(s) # 0
  PROVE  \E f : Collects(f, s, Len(s)) /\ FlattenSeq(s) = f[Len(s)]
<1> DEFINE f == CHOOSE f : Collects(f, s, Len(s))
<1>1. FlattenSeq(s) = f[Len(s)]
      BY Zenon DEF FlattenSeq, Collects
<1>2. Collects(f, s, Len(s))
      BY Zenon, Collected
<1> QED BY Zenon, <1>1, <1>2

LEMMA CollectedType ==
  ASSUME NEW S, NEW s, NEW f, NEW n \in Nat, Collects(f, s, n),
         \A i \in 1 .. n : s[i] \in Seq(S)
  PROVE  \A i \in 1 .. n : f[i] \in Seq(S)
<1> DEFINE H == {m \in Nat : m \in 1 .. n => f[m] \in Seq(S)}
<1>1. 0 \in H
      OBVIOUS
<1>2. ASSUME NEW m \in Nat, m \in H
      PROVE  m + 1 \in H
  <2> SUFFICES ASSUME m + 1 \in 1 .. n
               PROVE  f[m + 1] \in Seq(S)
      OBVIOUS
  <2>1. s[m + 1] \in Seq(S)
        BY Zenon
  <2>2. f[m + 1] = IF m + 1 = 1 THEN s[m + 1] ELSE f[(m + 1) - 1] \o s[m + 1]
        BY Zenon DEF Collects
  <2>3. CASE m = 0
        BY <2>1, <2>2, <2>3
  <2>4. CASE m # 0
    <3>1. f[m] \in Seq(S) /\ m + 1 # 1 /\ (m + 1) - 1 = m
          BY <1>2, <2>4
    <3>2. f[m + 1] = f[m] \o s[m + 1]
          BY Zenon, <2>2, <3>1
    <3> QED BY <2>1, <3>1, <3>2
  <2> QED BY <2>3, <2>4
<1> HIDE DEF H
<1>3. Nat \subseteq H
      BY Zenon, <1>1, <1>2, NatClosed
<1>4. \A i \in 1 .. n : i \in Nat
      OBVIOUS
<1> QED BY Zenon, <1>3, <1>4 DEF H

LEMMA Appended ==
  ASSUME NEW S, NEW a \in Seq(S), NEW b \in Seq(S)
  PROVE  /\ a \o b \in Seq(S)
         /\ Len(a \o b) = Len(a) + Len(b)
         /\ \A k \in 1 .. Len(a) : (a \o b)[k] = a[k]
         /\ \A k \in 1 .. Len(b) : (a \o b)[Len(a) + k] = b[k]
OBVIOUS

\* What was collected first stays in front.
LEMMA CollectedFirst ==
  ASSUME NEW s, NEW f, NEW n \in Nat, Collects(f, s, n),
         \A i \in 1 .. n : s[i] \in Seq(Elements),
         NEW i \in 1 .. n
  PROVE  /\ Len(f[i]) <= Len(f[n])
         /\ \A k \in 1 .. Len(f[i]) : f[n][k] = f[i][k]
<1> DEFINE Kept(j) == /\ Len(f[i]) <= Len(f[j])
                      /\ \A k \in 1 .. Len(f[i]) : f[j][k] = f[i][k]
           H == {j \in Nat : j \in i .. n => Kept(j)}
<1>1. \A j \in 1 .. n : f[j] \in Seq(Elements)
      BY Zenon, CollectedType
<1>2. 0 \in H
      OBVIOUS
<1>3. ASSUME NEW j \in Nat, j \in H
      PROVE  j + 1 \in H
  <2> SUFFICES ASSUME j + 1 \in i .. n
               PROVE  Kept(j + 1)
      OBVIOUS
  <2>0. i \in 1 .. n /\ i \in Nat /\ i >= 1
        OBVIOUS
  <2>1. CASE j + 1 = i
    <3>1. Len(f[i]) \in Nat
          BY <2>0, <1>1
    <3>2. Kept(i)
          BY <3>1
    <3> QED BY Zenon, <2>1, <3>2
  <2>2. CASE j + 1 # i
    <3>1. j \in i .. n /\ j \in 1 .. n /\ j + 1 \in 1 .. n /\ j + 1 # 1 /\ (j + 1) - 1 = j
          BY <2>2
    <3>2. Kept(j)
          BY Zenon, <1>3, <3>1
    <3>3. f[j + 1] = f[j] \o s[j + 1]
          BY Zenon, <3>1 DEF Collects
    <3>4. f[j] \in Seq(Elements) /\ s[j + 1] \in Seq(Elements) /\ f[i] \in Seq(Elements)
          BY Zenon, <1>1, <3>1
    <3>5. /\ Len(f[j + 1]) = Len(f[j]) + Len(s[j + 1])
          /\ \A k \in 1 .. Len(f[j]) : f[j + 1][k] = f[j][k]
      <4> DEFINE a == f[j]
                 b == s[j + 1]
                 c == f[j + 1]
      <4>1. a \in Seq(Elements) /\ b \in Seq(Elements) /\ c = a \o b
            BY Zenon, <3>3, <3>4
      <4> HIDE DEF a, b, c
      <4>2. /\ Len(c) = Len(a) + Len(b)
            /\ \A k \in 1 .. Len(a) : c[k] = a[k]
            BY <4>1, Appended
      <4> QED BY Zenon, <4>2 DEF a, b, c
    <3>7. Len(f[i]) \in Nat /\ Len(f[j]) \in Nat /\ Len(s[j + 1]) \in Nat
          BY <3>4
    <3>8. Len(f[i]) <= Len(f[j + 1])
      <4>1. \A a, b, c, d \in Nat : a <= b /\ d = b + c => a <= d
            OBVIOUS
      <4>2. Len(f[i]) <= Len(f[j])
            BY Zenon, <3>2
      <4>3. Len(f[j + 1]) \in Nat
        <5>1. f[j + 1] \in Seq(Elements)
              BY Zenon, <1>1, <3>1
        <5> QED BY <5>1
      <4> QED BY Zenon, <3>5, <3>7, <4>1, <4>2, <4>3
    <3>9. \A k \in 1 .. Len(f[i]) : k \in 1 .. Len(f[j])
          BY <3>2, <3>7
    <3> QED BY Zenon, <3>2, <3>5, <3>8, <3>9
  <2> QED BY Zenon, <2>1, <2>2
<1> HIDE DEF H
<1>4. Nat \subseteq H
      BY Zenon, <1>2, <1>3, NatClosed
<1>5. n \in i .. n
      OBVIOUS
<1>6. Kept(n)
  <2> HIDE DEF Kept
  <2> QED BY Zenon, <1>4, <1>5 DEF H
<1> QED BY Zenon, <1>6

-----------------------------------------------------------------------------
(* What encode() makes of a text, as a relation: upTo[i] elements stand    *)
(* for its first i characters.                                             *)

\* A space stands behind the character's marks: another one follows directly.
Joined(chars, i) == i < Len(chars) /\ chars[i + 1] # Blank

\* els[before + 1] to els[after] stand for character i.
CharSpelled(chars, i, els, before, after) ==
  /\ after = before <=> ElementsOf(chars, i) = << >>
  /\ \/ /\ chars[i] = Blank
        /\ after = before + 1
        /\ els[after] = "WORD_SPACE"
     \/ /\ chars[i] # Blank
        /\ after = before
     \/ /\ chars[i] # Blank
        /\ after > before
        /\ Joined(chars, i) => after > before + 1
        /\ \A k \in before + 1 .. after :
             IF Joined(chars, i) /\ k = after THEN els[k] = "CHAR_SPACE" ELSE Keys(els[k])

Spelled(chars, els, upTo) ==
  /\ upTo \in [0 .. Len(chars) -> 0 .. Len(els)]
  /\ upTo[0] = 0
  /\ upTo[Len(chars)] = Len(els)
  /\ \A i \in 1 .. Len(chars) : CharSpelled(chars, i, els, upTo[i - 1], upTo[i])

\* What stands for character i is its own code, with the space behind it.
InPlace(chars, i, els, before, after) ==
  /\ after = before + Len(ElementsOf(chars, i))
  /\ \A k \in 1 .. Len(ElementsOf(chars, i)) : els[before + k] = ElementsOf(chars, i)[k]

LEMMA CodeType ==
  ASSUME TableOfMarks, NEW c
  PROVE  MorseFromChar(c) \in Seq({"DIT", "DAH"})
<1> DEFINE named == {e \in Entries : e.chr = Lower(c)}
<1>1. CASE named = {}
  <2>1. MorseFromChar(c) = << >>
        BY Zenon, <1>1 DEF MorseFromChar
  <2> QED BY <2>1
<1>2. CASE named # {}
  <2>1. (CHOOSE e \in named : TRUE) \in named
        BY Zenon, <1>2
  <2>2. MorseFromChar(c) = (CHOOSE e \in named : TRUE).ditDah
        BY Zenon, <1>2 DEF MorseFromChar
  <2>3. \A e \in named : e.ditDah \in Seq({"DIT", "DAH"})
        BY Zenon DEF TableOfMarks
  <2> HIDE DEF named
  <2> QED BY Zenon, <2>1, <2>2, <2>3
<1> QED BY Zenon, <1>1, <1>2

\* The elements of one character.
LEMMA OwnElements ==
  ASSUME TableOfMarks, NEW chars, NEW i
  PROVE  LET own == ElementsOf(chars, i)
         IN /\ own \in Seq(Elements)
            /\ \/ chars[i] = Blank /\ Len(own) = 1 /\ own[1] = "WORD_SPACE"
               \/ chars[i] # Blank /\ own = << >>
               \/ /\ chars[i] # Blank /\ Joined(chars, i)
                  /\ Len(own) > 1 /\ own[Len(own)] = "CHAR_SPACE"
                  /\ \A k \in 1 .. Len(own) - 1 : Keys(own[k])
               \/ /\ chars[i] # Blank /\ ~Joined(chars, i)
                  /\ Len(own) > 0
                  /\ \A k \in 1 .. Len(own) : Keys(own[k])
<1> DEFINE own == ElementsOf(chars, i)
           code == MorseFromChar(chars[i])
<1>1. code \in Seq({"DIT", "DAH"})
      BY Zenon, CodeType
<1>2. own = IF chars[i] = Blank THEN <<"WORD_SPACE">>
            ELSE IF code = << >> THEN << >>
            ELSE code \o IF Joined(chars, i) THEN <<"CHAR_SPACE">> ELSE << >>
      BY Zenon DEF ElementsOf, Joined, Blank
<1> HIDE DEF own, code
<1>3. CASE chars[i] = Blank
  <2>1. own = <<"WORD_SPACE">>
        BY Zenon, <1>2, <1>3
  <2>2. own \in Seq(Elements) /\ Len(own) = 1 /\ own[1] = "WORD_SPACE"
        BY <2>1 DEF Elements
  <2> QED BY Zenon, <1>3, <2>2 DEF own
<1>4. CASE chars[i] # Blank /\ code = << >>
  <2>1. own = << >>
        BY Zenon, <1>2, <1>4
  <2>2. own \in Seq(Elements)
        BY <2>1
  <2> QED BY Zenon, <1>4, <2>1, <2>2 DEF own
<1>5. CASE chars[i] # Blank /\ code # << >>
  <2>1. /\ Len(code) \in Nat /\ Len(code) > 0
        /\ \A k \in 1 .. Len(code) : code[k] \in {"DIT", "DAH"}
        /\ code \in Seq(Elements)
        BY <1>1, <1>5 DEF Elements
  <2>2. \A k \in 1 .. Len(code) : Keys(code[k])
        BY Zenon, <2>1 DEF Keys
  <2>3. CASE Joined(chars, i)
    <3>1. own = code \o <<"CHAR_SPACE">>
          BY Zenon, <1>2, <1>5, <2>3
    <3>2. <<"CHAR_SPACE">> \in Seq(Elements)
          BY DEF Elements
    <3>3. /\ own \in Seq(Elements) /\ Len(own) = Len(code) + 1
          /\ \A k \in 1 .. Len(code) : own[k] = code[k]
          /\ own[Len(code) + 1] = "CHAR_SPACE"
          BY <2>1, <3>1, <3>2
    <3>4. Len(own) > 1 /\ Len(own) - 1 = Len(code)
          BY <2>1, <3>3
    <3> QED BY Zenon, <1>5, <2>2, <2>3, <3>3, <3>4 DEF own
  <2>4. CASE ~Joined(chars, i)
    <3>1. own = code \o << >>
          BY Zenon, <1>2, <1>5, <2>4
    <3>2. own = code
          BY <1>1, <3>1
    <3> QED BY Zenon, <1>5, <2>1, <2>2, <2>4, <3>2 DEF own
  <2> QED BY Zenon, <2>3, <2>4
<1> QED BY Zenon, <1>3, <1>4, <1>5

\* ... placed behind those before it.
LEMMA PartSpelled ==
  ASSUME TableOfMarks, NEW chars, NEW i, NEW els, NEW before \in Nat,
         \A k \in 1 .. Len(ElementsOf(chars, i)) : els[before + k] = ElementsOf(chars, i)[k]
  PROVE  CharSpelled(chars, i, els, before, before + Len(ElementsOf(chars, i)))
<1> DEFINE own == ElementsOf(chars, i)
           after == before + Len(own)
<1>1. /\ own \in Seq(Elements)
      /\ \/ chars[i] = Blank /\ Len(own) = 1 /\ own[1] = "WORD_SPACE"
         \/ chars[i] # Blank /\ own = << >>
         \/ /\ chars[i] # Blank /\ Joined(chars, i)
            /\ Len(own) > 1 /\ own[Len(own)] = "CHAR_SPACE"
            /\ \A k \in 1 .. Len(own) - 1 : Keys(own[k])
         \/ /\ chars[i] # Blank /\ ~Joined(chars, i)
            /\ Len(own) > 0
            /\ \A k \in 1 .. Len(own) : Keys(own[k])
      BY Zenon, OwnElements
<1>2. \A k \in 1 .. Len(own) : els[before + k] = own[k]
      OBVIOUS
<1>3. own = ElementsOf(chars, i)
      OBVIOUS
<1> HIDE DEF own
<1>4. Len(own) \in Nat
      BY <1>1
<1>5. ASSUME NEW k \in before + 1 .. after
      PROVE  /\ k - before \in 1 .. Len(own) /\ els[k] = own[k - before]
             /\ k # after => k - before \in 1 .. Len(own) - 1
             /\ k = after => k - before = Len(own)
  <2>1. k - before \in 1 .. Len(own) /\ before + (k - before) = k
        BY <1>4
  <2>2. els[k] = own[k - before]
        BY Zenon, <1>2, <2>1
  <2>3. /\ k # after => k - before \in 1 .. Len(own) - 1
        /\ k = after => k - before = Len(own)
        BY <1>4
  <2> QED BY Zenon, <2>1, <2>2, <2>3
<1>6. after = before <=> own = << >>
  <2>1. Len(own) = 0 <=> own = << >>
        BY <1>1
  <2> QED BY <1>4, <2>1
<1>7. CASE chars[i] = Blank /\ Len(own) = 1 /\ own[1] = "WORD_SPACE"
  <2>1. after = before + 1 /\ els[after] = "WORD_SPACE"
        BY <1>2, <1>7
  <2> HIDE DEF after
  <2>2. CharSpelled(chars, i, els, before, after)
        BY Zenon, <1>3, <1>6, <1>7, <2>1 DEF CharSpelled
  <2> QED BY Zenon, <1>3, <2>2 DEF after
<1>8. CASE chars[i] # Blank /\ own = << >>
  <2>1. after = before
        BY <1>8
  <2> HIDE DEF after
  <2>2. CharSpelled(chars, i, els, before, after)
        BY Zenon, <1>3, <1>6, <1>8, <2>1 DEF CharSpelled
  <2> QED BY Zenon, <1>3, <2>2 DEF after
<1>9. CASE /\ chars[i] # Blank /\ Joined(chars, i)
           /\ Len(own) > 1 /\ own[Len(own)] = "CHAR_SPACE"
           /\ \A k \in 1 .. Len(own) - 1 : Keys(own[k])
  <2>1. after > before /\ after > before + 1
        BY <1>4, <1>9
  <2>2. \A k \in before + 1 .. after :
          IF k = after THEN els[k] = "CHAR_SPACE" ELSE Keys(els[k])
    <3> HIDE DEF after
    <3> QED BY Zenon, <1>5, <1>9
  <2> HIDE DEF after
  <2>3. CharSpelled(chars, i, els, before, after)
        BY Zenon, <1>3, <1>6, <1>9, <2>1, <2>2 DEF CharSpelled
  <2> QED BY Zenon, <1>3, <2>3 DEF after
<1>10. CASE /\ chars[i] # Blank /\ ~Joined(chars, i)
           /\ Len(own) > 0
           /\ \A k \in 1 .. Len(own) : Keys(own[k])
  <2>1. after > before
        BY <1>4, <1>10
  <2> HIDE DEF after
  <2>2. \A k \in before + 1 .. after : Keys(els[k])
        BY Zenon, <1>5, <1>10
  <2>3. CharSpelled(chars, i, els, before, after)
        BY Zenon, <1>3, <1>6, <1>10, <2>1, <2>2 DEF CharSpelled
  <2> QED BY Zenon, <1>3, <2>3 DEF after
<1> QED BY Zenon, <1>1, <1>7, <1>8, <1>9, <1>10

\* encode() spells every text, with any table: its elements divide into one run
\* for each character, in their order; a run is one space for a blank, nothing for
\* a character without a code, and for another its code with the space that is
\* due behind it.
THEOREM EncodeSpells ==
  ASSUME TableOfMarks, NEW chars, Len(chars) \in Nat
  PROVE  \E upTo :
           /\ Spelled(chars, Encode(chars), upTo)
           /\ \A i \in 1 .. Len(chars) :
                InPlace(chars, i, Encode(chars), upTo[i - 1], upTo[i])
<1> DEFINE n == Len(chars)
           s == [i \in 1 .. n |-> ElementsOf(chars, i)]
           els == Encode(chars)
<1>1. els = FlattenSeq(s)
      BY Zenon DEF Encode
<1>2. /\ Len(s) = n /\ n \in Nat
      /\ \A i \in 1 .. n : s[i] = ElementsOf(chars, i)
      OBVIOUS
<1>3. \A i \in 1 .. n : s[i] \in Seq(Elements)
      BY Zenon, <1>2, OwnElements
<1>4. CASE n = 0
  <2>1. els = s
        BY Zenon, <1>1, <1>2, <1>4 DEF FlattenSeq
  <2> DEFINE upTo == [i \in 0 .. n |-> 0]
  <2>2. Len(els) = 0
        BY Zenon, <1>2, <1>4, <2>1
  <2> HIDE DEF els, s
  <2>3. upTo \in [0 .. n -> 0 .. Len(els)] /\ upTo[0] = 0 /\ upTo[n] = Len(els) /\ 1 .. n = {}
        BY <1>4, <2>2
  <2> HIDE DEF upTo
  <2>4. Spelled(chars, els, upTo)
        BY Zenon, <2>3 DEF Spelled
  <2>5. \A i \in 1 .. n : InPlace(chars, i, els, upTo[i - 1], upTo[i])
        BY Zenon, <2>3
  <2> QED BY Zenon, <2>4, <2>5 DEF els
<1>5. CASE n # 0
  <2>1. PICK f : Collects(f, s, n) /\ els = f[n]
    <3> HIDE DEF s, els
    <3> QED BY Zenon, <1>1, <1>2, <1>5, Flattened
  <2> HIDE DEF s, els
  <2>2. \A i \in 1 .. n : f[i] \in Seq(Elements)
        BY Zenon, <1>2, <1>3, <2>1, CollectedType
  <2>3. \A i \in 1 .. n : Len(f[i]) \in Nat /\ Len(s[i]) \in Nat
        BY <1>3, <2>2
  <2>4. n \in 1 .. n /\ \A i \in 1 .. n : n \in i .. n
        BY <1>2, <1>5
  <2>5. \A i \in 1 .. n : /\ Len(f[i]) <= Len(els)
                          /\ \A k \in 1 .. Len(f[i]) : els[k] = f[i][k]
    <3>0. /\ n \in Nat /\ Collects(f, s, n)
          /\ \A i \in 1 .. n : s[i] \in Seq(Elements)
          BY Zenon, <1>2, <1>3, <2>1
    <3> HIDE DEF n
    <3>1. \A i \in 1 .. n : /\ Len(f[i]) <= Len(f[n])
                            /\ \A k \in 1 .. Len(f[i]) : f[n][k] = f[i][k]
          BY <3>0, CollectedFirst
    <3> QED BY Zenon, <2>1, <3>1
  <2> DEFINE upTo == [i \in 0 .. n |-> IF i = 0 THEN 0 ELSE Len(f[i])]
  <2>6. upTo[0] = 0 /\ \A i \in 1 .. n : upTo[i] = Len(f[i])
        BY <1>2
  <2>7. upTo \in [0 .. n -> 0 .. Len(els)]
    <3>1. Len(els) \in Nat
          BY Zenon, <2>1, <2>3, <2>4
    <3>2. \A i \in 0 .. n : i = 0 \/ i \in 1 .. n
          OBVIOUS
    <3>3. \A i \in 0 .. n : (IF i = 0 THEN 0 ELSE Len(f[i])) \in 0 .. Len(els)
          BY <2>3, <2>5, <3>1, <3>2
    <3> QED BY Zenon, <3>3
  <2> HIDE DEF upTo
  <2>8. ASSUME NEW i \in 1 .. n
        PROVE  /\ CharSpelled(chars, i, els, upTo[i - 1], upTo[i])
               /\ InPlace(chars, i, els, upTo[i - 1], upTo[i])
    <3> DEFINE before == upTo[i - 1]
               own == s[i]
    <3>1. /\ before \in Nat
          /\ Len(f[i]) = before + Len(own)
          /\ \A k \in 1 .. Len(own) : f[i][before + k] = own[k]
      <4>1. CASE i = 1
        <5>1. f[i] = own
              BY Zenon, <2>1, <4>1 DEF Collects
        <5>2. before = 0
              BY <2>6, <4>1
        <5>3. own \in Seq(Elements)
              BY Zenon, <1>3
        <5> HIDE DEF before, own
        <5> QED BY <5>1, <5>2, <5>3
      <4>2. CASE i # 1
        <5>1. i - 1 \in 1 .. n
              BY <4>2
        <5>2. f[i] = f[i - 1] \o own
              BY Zenon, <2>1, <4>2 DEF Collects
        <5>3. before = Len(f[i - 1])
              BY Zenon, <2>6, <5>1
        <5>4. own \in Seq(Elements) /\ f[i - 1] \in Seq(Elements)
              BY Zenon, <1>3, <2>2, <5>1
        <5> DEFINE a == f[i - 1]
                   c == f[i]
        <5>5. c = a \o own /\ before = Len(a) /\ a \in Seq(Elements)
              BY Zenon, <5>2, <5>3, <5>4
        <5> HIDE DEF before, own, a, c
        <5>6. Len(c) = Len(a) + Len(own) /\ \A k \in 1 .. Len(own) : c[Len(a) + k] = own[k]
              BY <5>4, <5>5, Appended
        <5>7. Len(a) \in Nat
              BY <5>5
        <5> QED BY Zenon, <5>5, <5>6, <5>7 DEF c
      <4> QED BY Zenon, <4>1, <4>2
    <3>2. Len(own) \in Nat /\ own = ElementsOf(chars, i)
          BY Zenon, <1>2, <2>3
    <3> HIDE DEF before, own
    <3>3. \A k \in 1 .. Len(own) : els[before + k] = own[k]
      <4>1. ASSUME NEW k \in 1 .. Len(own)
            PROVE  els[before + k] = own[k]
        <5>1. before + k \in 1 .. Len(f[i])
              BY <3>1, <3>2
        <5> QED BY Zenon, <2>5, <3>1, <5>1
      <4> QED BY Zenon, <4>1
    <3>4. upTo[i] = before + Len(own)
          BY Zenon, <2>6, <3>1
    <3>5. CharSpelled(chars, i, els, before, before + Len(own))
          BY Zenon, <3>1, <3>2, <3>3, PartSpelled
    <3>6. InPlace(chars, i, els, before, upTo[i])
          BY Zenon, <3>2, <3>3, <3>4 DEF InPlace
    <3> QED BY Zenon, <3>2, <3>4, <3>5, <3>6 DEF before
  <2>9. upTo[n] = Len(els)
        BY Zenon, <2>1, <2>4, <2>6
  <2>10. Spelled(chars, els, upTo)
        BY Zenon, <2>6, <2>7, <2>8, <2>9 DEF Spelled
  <2> QED BY Zenon, <2>8, <2>10 DEF els
<1> QED BY Zenon, <1>4, <1>5

-----------------------------------------------------------------------------
(* What the echo is after k elements of a text.                            *)

Prefix(s, n) == SubSeq(s, 1, n)

\* Only blanks up to character i; only blanks behind it.
Leading(s, i) == \A j \in 1 .. i : s[j] = Blank
Trailing(s, i) == \A j \in i + 1 .. Len(s) : s[j] = Blank

\* A mark of character i sounds.
InMark(e, els, upTo, k, i) ==
  /\ i >= 1 /\ upTo[i - 1] < k /\ k <= upTo[i]
  /\ Keys(els[k])
  /\ e.charIdx = i - 1
  /\ e.shown = Prefix(e.chars, i - 1)

\* The first i characters are through and shown: the text begins, a space
\* behind character i, or a blank in front of the first word.
Passed(e, upTo, k, i) ==
  /\ k = upTo[i]
  /\ i < Len(e.chars) /\ e.chars[i + 1] = Blank => Leading(e.chars, i)
  /\ e.charIdx = i
  /\ e.shown = Prefix(e.chars, i)

\* The blank i behind a word: it is shown if another word follows, and the
\* place in the text is one behind.
InBlank(e, upTo, k, i) ==
  /\ i >= 1
  /\ k = upTo[i]
  /\ e.chars[i] = Blank /\ ~Leading(e.chars, i)
  /\ e.charIdx = i - 1
  /\ e.shown = Prefix(e.chars, IF Trailing(e.chars, i) THEN i - 1 ELSE i)

Follows(e, els, upTo, k) ==
  \E i \in 0 .. Len(e.chars) :
    InMark(e, els, upTo, k, i) \/ Passed(e, upTo, k, i) \/ InBlank(e, upTo, k, i)

LEMMA PrefixFacts ==
  ASSUME NEW s \in Seq(Characters), NEW n \in 0 .. Len(s)
  PROVE  /\ Prefix(s, 0) = << >>
         /\ n < Len(s) => Prefix(s, n) \o <<s[n + 1]>> = Prefix(s, n + 1)
         /\ Prefix(s, n) \o SubSeq(s, n + 1, Len(s)) = s
<1>1. Prefix(s, 0) = << >>
      BY DEF Prefix
<1>2. ASSUME n < Len(s)
      PROVE  Prefix(s, n) \o <<s[n + 1]>> = Prefix(s, n + 1)
  <2> DEFINE a == Prefix(s, n) \o <<s[n + 1]>>
             b == Prefix(s, n + 1)
             p == Prefix(s, n)
             x == s[n + 1]
  <2>1. s[n + 1] \in Characters
        BY <1>2
  <2>2. /\ p \in Seq(Characters) /\ Len(p) = n /\ \A k \in 1 .. n : p[k] = s[k]
        /\ b \in Seq(Characters) /\ Len(b) = n + 1 /\ \A k \in 1 .. n + 1 : b[k] = s[k]
        BY <1>2 DEF Prefix
  <2>3. /\ a \in Seq(Characters) /\ Len(a) = n + 1
        /\ \A k \in 1 .. n + 1 : a[k] = b[k]
    <3>1. a = p \o <<x>> /\ x \in Characters /\ x = s[n + 1]
          BY Zenon, <2>1
    <3> HIDE DEF a, b, p, x
    <3> QED BY <2>2, <3>1
  <2> HIDE DEF a, b
  <2>4. a = b
        BY <2>2, <2>3
  <2> QED BY Zenon, <2>4 DEF a, b
<1>3. Prefix(s, n) \o SubSeq(s, n + 1, Len(s)) = s
  <2> DEFINE a == Prefix(s, n) \o SubSeq(s, n + 1, Len(s))
  <2>1. /\ Prefix(s, n) \in Seq(Characters) /\ Len(Prefix(s, n)) = n
        /\ SubSeq(s, n + 1, Len(s)) \in Seq(Characters)
        /\ Len(SubSeq(s, n + 1, Len(s))) = Len(s) - n
        /\ \A k \in 1 .. n : Prefix(s, n)[k] = s[k]
        /\ \A k \in 1 .. Len(s) - n : SubSeq(s, n + 1, Len(s))[k] = s[n + k]
        BY DEF Prefix
  <2>2. a \in Seq(Characters) /\ Len(a) = Len(s)
        BY <2>1
  <2>3. \A k \in 1 .. Len(s) : a[k] = s[k]
        BY <2>1
  <2> HIDE DEF a
  <2>4. a = s
        BY <2>2, <2>3
  <2> QED BY Zenon, <2>4 DEF a
<1> QED BY Zenon, <1>1, <1>2, <1>3

\* Where no blank follows, and where one does.
LEMMA PastNone ==
  ASSUME NEW s \in Seq(Characters), NEW i \in 0 .. Len(s) - 1, s[i + 1] # Blank
  PROVE  PastBlanks(s, i) = i
<1> DEFINE blanks == {j \in i + 1 .. Len(s) : \A k \in i + 1 .. j : s[k] = Blank}
<1>1. blanks = {}
      OBVIOUS
<1>2. Cardinality(blanks) = 0
      BY Zenon, <1>1, FS_EmptySet
<1>3. PastBlanks(s, i) = i + Cardinality(blanks)
      BY Zenon DEF PastBlanks
<1> HIDE DEF blanks
<1> QED BY <1>2, <1>3

LEMMA PastOne ==
  ASSUME NEW s \in Seq(Characters), NEW i \in 0 .. Len(s) - 2,
         s[i + 1] = Blank, s[i + 2] # Blank
  PROVE  PastBlanks(s, i) = i + 1
<1> DEFINE blanks == {j \in i + 1 .. Len(s) : \A k \in i + 1 .. j : s[k] = Blank}
<1>1. blanks = {i + 1}
  <2>1. i + 1 \in blanks
        OBVIOUS
  <2>2. ASSUME NEW j \in blanks PROVE j = i + 1
    <3>1. j \in i + 1 .. Len(s) /\ \A k \in i + 1 .. j : s[k] = Blank
          OBVIOUS
    <3>2. CASE j # i + 1
      <4>1. i + 2 \in i + 1 .. j
            BY <3>1, <3>2
      <4> QED BY Zenon, <3>1, <4>1
    <3> QED BY <3>2
  <2> HIDE DEF blanks
  <2> QED BY Zenon, <2>1, <2>2
<1>2. Cardinality(blanks) = 1
      BY Zenon, <1>1, FS_Singleton
<1>3. PastBlanks(s, i) = i + Cardinality(blanks)
      BY Zenon DEF PastBlanks
<1> HIDE DEF blanks
<1> QED BY <1>2, <1>3

\* The end is reached over blanks alone.
LEMMA PastAll ==
  ASSUME NEW s \in Seq(Characters), NEW i \in 0 .. Len(s)
  PROVE  PastBlanks(s, i) < Len(s) <=> ~Trailing(s, i)
<1> DEFINE behind == i + 1 .. Len(s)
           blanks == {j \in behind : \A k \in i + 1 .. j : s[k] = Blank}
<1>1. IsFiniteSet(behind) /\ Cardinality(behind) = Len(s) - i
  <2>1. i + 1 \in Int /\ Len(s) \in Int /\ i <= Len(s)
        OBVIOUS
  <2>2. /\ IsFiniteSet(behind)
        /\ Cardinality(behind) = IF i + 1 > Len(s) THEN 0 ELSE Len(s) - (i + 1) + 1
        BY Zenon, <2>1, FS_Interval
  <2> QED BY <2>1, <2>2
<1>2. PastBlanks(s, i) = i + Cardinality(blanks)
      BY Zenon DEF PastBlanks
<1>3. blanks \subseteq behind
      OBVIOUS
<1>4. IsFiniteSet(blanks) /\ Cardinality(blanks) \in Nat
      BY Zenon, <1>1, <1>3, FS_Subset, FS_CardinalityType
<1>5. CASE Trailing(s, i)
  <2>1. blanks = behind
        BY <1>5 DEF Trailing
  <2> HIDE DEF blanks, behind
  <2> QED BY <1>1, <1>2, <1>5, <2>1
<1>6. CASE ~Trailing(s, i)
  <2>1. PICK j \in behind : s[j] # Blank
        BY Zenon, <1>6 DEF Trailing
  <2>2. j \notin blanks
        BY <2>1
  <2>3. Cardinality(blanks) < Cardinality(behind)
    <3> HIDE DEF blanks, behind
    <3>1. blanks # behind
          BY Zenon, <2>1, <2>2
    <3>2. /\ Cardinality(blanks) <= Cardinality(behind)
          /\ Cardinality(behind) # Cardinality(blanks)
          BY Zenon, <1>1, <1>3, <3>1, FS_Subset
    <3>3. Cardinality(behind) \in Nat
          BY Zenon, <1>1, FS_CardinalityType
    <3> QED BY <1>4, <3>2, <3>3
  <2> HIDE DEF blanks, behind
  <2> QED BY <1>1, <1>2, <1>4, <1>6, <2>3
<1> QED BY Zenon, <1>5, <1>6

\* The effect of a mark and of a space.
LEMMA MarkEffect ==
  ASSUME NEW e \in Echoes, NEW el, Keys(el)
  PROVE  /\ Echoed(e, el).chars = e.chars
         /\ Echoed(e, el).charIdx = PastBlanks(e.chars, e.charIdx)
         /\ Echoed(e, el).shown = e.shown
<1> DEFINE m == PastBlanks(e.chars, e.charIdx)
           c == CharAt(e.chars, m)
<1>1. Echoed(e, el) = [e EXCEPT !.charIdx = m, !.currentChar = c]
      BY Zenon DEF Echoed, AtMark, AtPlace
<1>2. e \in EchoRecords
      BY Zenon DEF Echoes
<1> HIDE DEF m, c
<1>3. /\ Echoed(e, el).chars = e.chars
      /\ Echoed(e, el).charIdx = m
      /\ Echoed(e, el).shown = e.shown
      BY <1>1, <1>2 DEF EchoRecords
<1> QED BY Zenon, <1>3 DEF m

LEMMA SpaceEffect ==
  ASSUME NEW e \in Echoes, NEW el, ~Keys(el), e.charIdx < Len(e.chars)
  PROVE  LET c == e.chars[e.charIdx + 1]
             between == /\ el = "WORD_SPACE" /\ c # Blank
                        /\ ~Trailing(e.chars, e.charIdx + 1)
         IN /\ Echoed(e, el).chars = e.chars
            /\ Echoed(e, el).charIdx = e.charIdx + 1
            /\ ~between => Echoed(e, el).shown = e.shown \o <<c>>
            /\ between => Echoed(e, el).shown = (e.shown \o <<c>>) \o <<Blank>>
<1> DEFINE c == e.chars[e.charIdx + 1]
           between == /\ el = "WORD_SPACE" /\ c # Blank
                      /\ ~Trailing(e.chars, e.charIdx + 1)
           all == e.shown \o <<c>> \o IF between THEN <<Blank>> ELSE << >>
           m == e.charIdx + 1
           d == CharAt(e.chars, m)
<1>1. /\ e.chars \in Seq(Characters) /\ e.charIdx \in Nat /\ e.shown \in Seq(Characters)
      /\ e.currentChar = CharAt(e.chars, e.charIdx) /\ e \in EchoRecords
      BY DEF Echoes, EchoRecords
<1>2. m \in 0 .. Len(e.chars)
      BY <1>1
<1>3. e.currentChar = c
      BY Zenon, <1>1 DEF CharAt
<1>4. PastBlanks(e.chars, m) < Len(e.chars) <=> ~Trailing(e.chars, m)
      BY Zenon, <1>1, <1>2, PastAll
<1>5. Echoed(e, el) = [[e EXCEPT !.charIdx = m, !.currentChar = d] EXCEPT !.shown = all]
      BY Zenon, <1>3, <1>4 DEF Echoed, AtSpace, AtPlace
<1> HIDE DEF all, d, m
<1>6. /\ Echoed(e, el).chars = e.chars
      /\ Echoed(e, el).charIdx = m
      /\ Echoed(e, el).shown = all
      BY <1>1, <1>5 DEF EchoRecords
<1>7. c \in Characters
      BY <1>1
<1>8. ~between => all = e.shown \o <<c>>
  <2>1. ~between => all = (e.shown \o <<c>>) \o << >>
        BY Zenon DEF all
  <2>2. (e.shown \o <<c>>) \o << >> = e.shown \o <<c>>
    <3> HIDE DEF c
    <3> QED BY <1>1, <1>7
  <2> QED BY Zenon, <2>1, <2>2
<1>9. between => all = (e.shown \o <<c>>) \o <<Blank>>
      BY Zenon DEF all
<1> QED BY Zenon, <1>6, <1>8, <1>9 DEF m

\* While elements are left, the next character has some.
LEMMA NextHasElements ==
  ASSUME NEW chars, Len(chars) \in Nat, NEW els, Len(els) \in Nat, NEW upTo,
         Spelled(chars, els, upTo), CodelessLast(chars),
         NEW i \in 1 .. Len(chars), upTo[i - 1] # Len(els)
  PROVE  upTo[i] # upTo[i - 1]
<1> SUFFICES ASSUME upTo[i] = upTo[i - 1]
             PROVE  FALSE
    OBVIOUS
<1> DEFINE u == upTo[i]
           H == {j \in Nat : j \in i .. Len(chars) => upTo[j] = u}
<1>1. \A j \in 1 .. Len(chars) :
        upTo[j] = upTo[j - 1] <=> ElementsOf(chars, j) = << >>
      BY Zenon DEF Spelled, CharSpelled
<1>2. \A j \in i .. Len(chars) : ElementsOf(chars, j) = << >>
      BY Zenon, <1>1 DEF CodelessLast
<1>3. 0 \in H
      OBVIOUS
<1>4. ASSUME NEW j \in Nat, j \in H
      PROVE  j + 1 \in H
  <2> SUFFICES ASSUME j + 1 \in i .. Len(chars)
               PROVE  upTo[j + 1] = u
      OBVIOUS
  <2>1. CASE j + 1 = i
        BY Zenon, <2>1
  <2>2. CASE j + 1 # i
    <3>1. j \in i .. Len(chars) /\ j + 1 \in 1 .. Len(chars) /\ (j + 1) - 1 = j
          BY <2>2
    <3>2. upTo[j + 1] = upTo[j]
          BY Zenon, <1>1, <1>2, <3>1
    <3> QED BY Zenon, <1>4, <3>1, <3>2
  <2> QED BY Zenon, <2>1, <2>2
<1> HIDE DEF H
<1>5. Nat \subseteq H
      BY Zenon, <1>3, <1>4, NatClosed
<1>6. Len(chars) \in i .. Len(chars)
      OBVIOUS
<1>7. upTo[Len(chars)] = u
      BY Zenon, <1>5, <1>6 DEF H
<1> QED BY Zenon, <1>7 DEF Spelled

\* The echo at the first element, and at each next one.
LEMMA FollowsFirst ==
  ASSUME NEW s \in Seq(Characters), NEW els, NEW upTo, Spelled(s, els, upTo)
  PROVE  Follows(Rewound(s), els, upTo, 0)
<1> DEFINE e == Rewound(s)
<1>1. e.chars = s /\ e.charIdx = 0 /\ e.shown = << >>
      BY DEF Rewound
<1> HIDE DEF e
<1>2. Prefix(s, 0) = << >> /\ 0 \in 0 .. Len(s)
  <2>1. 0 \in 0 .. Len(s)
        OBVIOUS
  <2> QED BY Zenon, <2>1, PrefixFacts
<1>3. Leading(s, 0)
      BY DEF Leading
<1>4. Passed(e, upTo, 0, 0)
      BY Zenon, <1>1, <1>2, <1>3 DEF Passed, Spelled
<1> QED BY Zenon, <1>1, <1>2, <1>4 DEF Follows, e

LEMMA FollowsNext ==
  ASSUME NEW e \in Echoes, NEW els \in Seq(Elements), NEW upTo, NEW k \in 0 .. Len(els) - 1,
         Spelled(e.chars, els, upTo), CodelessLast(e.chars), Follows(e, els, upTo, k)
  PROVE  /\ Echoed(e, els[k + 1]).chars = e.chars
         /\ Follows(Echoed(e, els[k + 1]), els, upTo, k + 1)
<1> DEFINE s == e.chars
           el == els[k + 1]
           r == Echoed(e, el)
           c == s[e.charIdx + 1]
           between == /\ el = "WORD_SPACE" /\ c # Blank
                      /\ ~Trailing(s, e.charIdx + 1)
<1>1. s \in Seq(Characters) /\ Len(s) \in Nat /\ Len(els) \in Nat
      BY DEF Echoes, EchoRecords
<1>2. /\ upTo \in [0 .. Len(s) -> 0 .. Len(els)]
      /\ upTo[0] = 0 /\ upTo[Len(s)] = Len(els)
      /\ \A i \in 1 .. Len(s) : CharSpelled(s, i, els, upTo[i - 1], upTo[i])
      BY Zenon DEF Spelled
<1>3. Keys(el) => r.chars = s /\ r.charIdx = PastBlanks(s, e.charIdx) /\ r.shown = e.shown
      BY Zenon, MarkEffect
<1>4. ~Keys(el) /\ e.charIdx < Len(s) =>
        /\ r.chars = s
        /\ r.charIdx = e.charIdx + 1
        /\ ~between => r.shown = e.shown \o <<c>>
        /\ between => r.shown = (e.shown \o <<c>>) \o <<Blank>>
      BY Zenon, SpaceEffect
<1>5. \A n \in 0 .. Len(s) : n < Len(s) => Prefix(s, n) \o <<s[n + 1]>> = Prefix(s, n + 1)
      BY Zenon, <1>1, PrefixFacts
<1>6. PICK i \in 0 .. Len(s) :
        InMark(e, els, upTo, k, i) \/ Passed(e, upTo, k, i) \/ InBlank(e, upTo, k, i)
      BY Zenon DEF Follows
<1>7. SUFFICES \E j \in 0 .. Len(s) : /\ r.chars = s
                                      /\ \/ InMark(r, els, upTo, k + 1, j)
                                         \/ Passed(r, upTo, k + 1, j)
                                         \/ InBlank(r, upTo, k + 1, j)
      BY Zenon DEF Follows
<1> HIDE DEF s, el, r, c, between
<1>8. \A j \in 1 .. Len(s) : upTo[j] \in Nat /\ upTo[j - 1] \in Nat
  <2>1. \A j \in 1 .. Len(s) : j \in 0 .. Len(s) /\ j - 1 \in 0 .. Len(s)
        OBVIOUS
  <2> QED BY <1>2, <2>1
<1>9. upTo[i] \in Nat /\ k \in Nat /\ k + 1 # k
      BY <1>2
\* More of the same character.
<1>10. CASE InMark(e, els, upTo, k, i) /\ k # upTo[i]
  <2>1. /\ i \in 1 .. Len(s) /\ upTo[i - 1] < k /\ k < upTo[i]
        /\ e.charIdx = i - 1 /\ e.shown = Prefix(s, i - 1)
        BY <1>6, <1>9, <1>10 DEF InMark, s
  <2>2. /\ k + 1 \in upTo[i - 1] + 1 .. upTo[i]
        /\ upTo[i] # upTo[i - 1] + 1 /\ upTo[i] # upTo[i - 1]
        /\ upTo[i - 1] < k + 1 /\ k + 1 <= upTo[i]
        BY <1>8, <1>9, <2>1
  <2>3. /\ s[i] # Blank
        /\ IF Joined(s, i) /\ k + 1 = upTo[i] THEN el = "CHAR_SPACE" ELSE Keys(el)
        BY Zenon, <1>2, <2>1, <2>2 DEF CharSpelled, el
  <2>4. (i - 1) + 1 = i /\ i - 1 \in 0 .. Len(s) - 1 /\ i - 1 < Len(s) /\ i >= 1
        BY <2>1
  <2>5. CASE Joined(s, i) /\ k + 1 = upTo[i]
    <3>1. el = "CHAR_SPACE" /\ ~Keys(el) /\ ~between
          BY <2>3, <2>5 DEF Keys, between
    <3>2. r.chars = s /\ r.charIdx = i /\ r.shown = e.shown \o <<s[i]>>
          BY Zenon, <1>4, <2>1, <2>4, <3>1 DEF c
    <3>3. r.shown = Prefix(s, i)
      <4>1. i - 1 \in 0 .. Len(s)
            BY <2>1
      <4> QED BY Zenon, <1>5, <2>1, <2>4, <3>2, <4>1
    <3>4. ~(i < Len(s) /\ s[i + 1] = Blank)
          BY Zenon, <2>5 DEF Joined
    <3>5. Passed(r, upTo, k + 1, i)
          BY Zenon, <2>5, <3>2, <3>3, <3>4 DEF Passed
    <3> QED BY Zenon, <3>2, <3>5
  <2>6. CASE ~(Joined(s, i) /\ k + 1 = upTo[i])
    <3>1. Keys(el)
          BY Zenon, <2>3, <2>6
    <3>2. PastBlanks(s, i - 1) = i - 1
      <4>1. s[(i - 1) + 1] # Blank
            BY Zenon, <2>3, <2>4
      <4> QED BY Zenon, <1>1, <2>4, <4>1, PastNone
    <3>3. r.chars = s /\ r.charIdx = i - 1 /\ r.shown = Prefix(s, i - 1)
          BY Zenon, <1>3, <2>1, <3>1, <3>2
    <3>4. InMark(r, els, upTo, k + 1, i)
          BY Zenon, <2>2, <2>4, <3>1, <3>3 DEF InMark, el
    <3> QED BY Zenon, <3>3, <3>4
  <2> QED BY Zenon, <2>5, <2>6
\* The next character begins.
<1>11. CASE k = upTo[i]
  <2>1. i < Len(s) /\ i + 1 \in 1 .. Len(s) /\ (i + 1) - 1 = i /\ k # Len(els)
    <3>1. k # Len(els)
          BY <1>1
    <3>2. i # Len(s)
          BY Zenon, <1>2, <1>11, <3>1
    <3> QED BY <1>1, <3>1, <3>2
  <2>2. upTo[i + 1] # upTo[i]
    <3>1. upTo[(i + 1) - 1] # Len(els)
          BY Zenon, <1>11, <2>1
    <3>2. Spelled(s, els, upTo) /\ CodelessLast(s)
          BY Zenon DEF s
    <3> QED BY Zenon, <1>1, <2>1, <3>1, <3>2, NextHasElements
  <2>3. upTo[i + 1] \in Nat
        BY Zenon, <1>8, <2>1
  <2>4. CharSpelled(s, i + 1, els, upTo[i], upTo[i + 1])
        BY Zenon, <1>2, <2>1
  <2>5. /\ InMark(e, els, upTo, k, i) => s[i] # Blank /\ ~Joined(s, i) /\ i \in 1 .. Len(s)
    <3> SUFFICES ASSUME InMark(e, els, upTo, k, i)
                 PROVE  s[i] # Blank /\ ~Joined(s, i) /\ i \in 1 .. Len(s)
        OBVIOUS
    <3>1. i \in 1 .. Len(s) /\ upTo[i - 1] < k /\ Keys(els[k])
          BY DEF InMark
    <3>2. k \in upTo[i - 1] + 1 .. upTo[i] /\ upTo[i] # upTo[i - 1]
          BY <1>8, <1>11, <3>1
    <3>3. els[k] # "WORD_SPACE" /\ els[k] # "CHAR_SPACE"
          BY Zenon, <3>1 DEF Keys
    <3> QED BY Zenon, <1>2, <1>11, <3>1, <3>2, <3>3 DEF CharSpelled
  <2>6. CASE s[i + 1] = Blank
    <3>1. k + 1 = upTo[i + 1] /\ el = "WORD_SPACE" /\ ~Keys(el)
      <4>1. upTo[i + 1] = upTo[i] + 1 /\ els[upTo[i + 1]] = "WORD_SPACE"
            BY Zenon, <2>4, <2>6 DEF CharSpelled
      <4> QED BY Zenon, <1>11, <4>1 DEF el, Keys
    <3>2. Trailing(s, i) <=> Trailing(s, i + 1)
      <4>1. \A j \in i + 1 .. Len(s) : j = i + 1 \/ j \in (i + 1) + 1 .. Len(s)
            OBVIOUS
      <4>2. \A j \in (i + 1) + 1 .. Len(s) : j \in i + 1 .. Len(s)
            OBVIOUS
      <4> QED BY Zenon, <2>6, <4>1, <4>2 DEF Trailing
    <3>3. Leading(s, i) <=> Leading(s, i + 1)
      <4>1. \A j \in 1 .. i + 1 : j = i + 1 \/ j \in 1 .. i
            OBVIOUS
      <4>2. \A j \in 1 .. i : j \in 1 .. i + 1
            OBVIOUS
      <4> QED BY Zenon, <2>6, <4>1, <4>2 DEF Leading
    <3>4. /\ i \in 0 .. Len(s) /\ i + 1 \in 0 .. Len(s) /\ i + 1 >= 1
          /\ i >= 1 => (i - 1) + 1 = i /\ i - 1 < Len(s) /\ i - 1 \in 0 .. Len(s)
          BY <2>1
    <3>5. CASE InMark(e, els, upTo, k, i)
      <4>1. /\ i \in 1 .. Len(s) /\ s[i] # Blank /\ i >= 1
            /\ e.charIdx = i - 1 /\ e.shown = Prefix(s, i - 1)
            BY Zenon, <2>5, <3>5 DEF InMark, s
      <4>2. e.charIdx < Len(s) /\ e.charIdx + 1 = i
            BY Zenon, <3>4, <4>1
      <4>3. e.shown \o <<s[i]>> = Prefix(s, i)
            BY Zenon, <1>5, <3>4, <4>1
      <4>4. c = s[i] /\ (between <=> ~Trailing(s, i))
            BY Zenon, <3>1, <4>1, <4>2 DEF c, between
      <4>5. r.chars = s /\ r.charIdx = i
            BY Zenon, <1>4, <3>1, <4>2
      <4>6. r.shown = Prefix(s, IF Trailing(s, i + 1) THEN i ELSE i + 1)
        <5>1. CASE Trailing(s, i)
              BY Zenon, <1>4, <3>1, <3>2, <4>2, <4>3, <4>4, <5>1
        <5>2. CASE ~Trailing(s, i)
          <6>1. r.shown = Prefix(s, i) \o <<s[i + 1]>>
                BY Zenon, <1>4, <2>6, <3>1, <4>2, <4>3, <4>4, <5>2
          <6> QED BY Zenon, <1>5, <2>1, <3>2, <3>4, <5>2, <6>1
        <5> QED BY Zenon, <5>1, <5>2
      <4>7. ~Leading(s, i)
        <5>1. i \in 1 .. i
              BY <4>1
        <5> QED BY Zenon, <4>1, <5>1 DEF Leading
      <4>8. InBlank(r, upTo, k + 1, i + 1)
            BY Zenon, <2>1, <2>6, <3>1, <3>3, <3>4, <4>5, <4>6, <4>7 DEF InBlank
      <4> QED BY Zenon, <3>4, <4>5, <4>8
    <3>6. CASE Passed(e, upTo, k, i)
      <4>1. Leading(s, i) /\ e.charIdx = i /\ e.shown = Prefix(s, i)
            BY Zenon, <2>1, <2>6, <3>6 DEF Passed, s
      <4>2. c = s[i + 1] /\ ~between
            BY Zenon, <2>6, <4>1 DEF c, between
      <4>3. r.chars = s /\ r.charIdx = i + 1 /\ r.shown = Prefix(s, i) \o <<s[i + 1]>>
            BY Zenon, <1>4, <2>1, <3>1, <4>1, <4>2
      <4>4. r.shown = Prefix(s, i + 1)
            BY Zenon, <1>5, <2>1, <3>4, <4>3
      <4>5. Passed(r, upTo, k + 1, i + 1)
            BY Zenon, <3>1, <3>3, <4>1, <4>3, <4>4 DEF Passed
      <4> QED BY Zenon, <3>4, <4>3, <4>5
    <3>7. CASE InBlank(e, upTo, k, i)
      <4>1. /\ i >= 1 /\ s[i] = Blank /\ ~Leading(s, i) /\ e.charIdx = i - 1
            /\ e.shown = Prefix(s, IF Trailing(s, i) THEN i - 1 ELSE i)
            BY Zenon, <3>7 DEF InBlank, s
      <4>2. e.charIdx < Len(s) /\ e.charIdx + 1 = i
            BY Zenon, <3>4, <4>1
      <4>3. c = s[i] /\ ~between
            BY Zenon, <4>1, <4>2 DEF c, between
      <4>4. r.chars = s /\ r.charIdx = i /\ r.shown = e.shown \o <<s[i]>>
            BY Zenon, <1>4, <3>1, <4>2, <4>3
      <4>5. r.shown = Prefix(s, IF Trailing(s, i + 1) THEN i ELSE i + 1)
        <5>1. CASE Trailing(s, i)
          <6>1. e.shown = Prefix(s, i - 1)
                BY Zenon, <4>1, <5>1
          <6> QED BY Zenon, <1>5, <3>2, <3>4, <4>1, <4>4, <5>1, <6>1
        <5>2. CASE ~Trailing(s, i)
          <6>1. r.shown = Prefix(s, i) \o <<s[i + 1]>>
                BY Zenon, <2>6, <4>1, <4>4, <5>2
          <6> QED BY Zenon, <1>5, <2>1, <3>2, <3>4, <5>2, <6>1
        <5> QED BY Zenon, <5>1, <5>2
      <4>6. InBlank(r, upTo, k + 1, i + 1)
            BY Zenon, <2>1, <2>6, <3>1, <3>3, <3>4, <4>1, <4>4, <4>5 DEF InBlank
      <4> QED BY Zenon, <3>4, <4>4, <4>6
    <3> QED BY Zenon, <1>6, <3>5, <3>6, <3>7
  <2>7. CASE s[i + 1] # Blank
    <3>1. upTo[i] < k + 1 /\ k + 1 <= upTo[i + 1] /\ Keys(el)
      <4>1. /\ upTo[i + 1] > upTo[i]
            /\ Joined(s, i + 1) => upTo[i + 1] > upTo[i] + 1
            /\ \A j \in upTo[i] + 1 .. upTo[i + 1] :
                 IF Joined(s, i + 1) /\ j = upTo[i + 1] THEN els[j] = "CHAR_SPACE" ELSE Keys(els[j])
            BY Zenon, <2>2, <2>4, <2>7 DEF CharSpelled
      <4>2. /\ k + 1 \in upTo[i] + 1 .. upTo[i + 1]
            /\ Joined(s, i + 1) => k + 1 # upTo[i + 1]
            BY <1>9, <1>11, <2>3, <4>1
      <4>3. Keys(els[k + 1])
            BY Zenon, <4>1, <4>2
      <4> QED BY <1>9, <2>3, <4>2, <4>3 DEF el
    <3>2. /\ i + 1 >= 1 /\ i + 1 \in 0 .. Len(s) /\ i \in 0 .. Len(s) - 1
          /\ i >= 1 => (i - 1) + 1 = i /\ (i - 1) + 2 = i + 1 /\ i - 1 \in 0 .. Len(s) - 2
          BY <2>1
    <3>3. ~InMark(e, els, upTo, k, i)
          BY Zenon, <2>1, <2>5, <2>7 DEF Joined
    <3>4. PastBlanks(s, e.charIdx) = i /\ e.shown = Prefix(s, i)
      <4>1. CASE Passed(e, upTo, k, i)
        <5>1. e.charIdx = i /\ e.shown = Prefix(s, i)
              BY Zenon, <4>1 DEF Passed, s
        <5> QED BY Zenon, <1>1, <2>7, <3>2, <5>1, PastNone
      <4>2. CASE InBlank(e, upTo, k, i)
        <5>1. /\ i >= 1 /\ s[i] = Blank /\ e.charIdx = i - 1
              /\ e.shown = Prefix(s, IF Trailing(s, i) THEN i - 1 ELSE i)
              BY Zenon, <4>2 DEF InBlank, s
        <5>2. ~Trailing(s, i)
          <6>1. i + 1 \in i + 1 .. Len(s)
                BY <2>1
          <6> QED BY Zenon, <2>7, <6>1 DEF Trailing
        <5>3. PastBlanks(s, i - 1) = (i - 1) + 1
          <6>1. s[(i - 1) + 1] = Blank /\ s[(i - 1) + 2] # Blank
                BY Zenon, <2>7, <3>2, <5>1
          <6> QED BY Zenon, <1>1, <3>2, <5>1, <6>1, PastOne
        <5> QED BY Zenon, <3>2, <5>1, <5>2, <5>3
      <4> QED BY Zenon, <1>6, <3>3, <4>1, <4>2
    <3>5. r.chars = s /\ r.charIdx = i /\ r.shown = Prefix(s, i)
          BY Zenon, <1>3, <3>1, <3>4
    <3>6. InMark(r, els, upTo, k + 1, i + 1)
          BY Zenon, <2>1, <3>1, <3>2, <3>5 DEF InMark, el
    <3> QED BY Zenon, <3>2, <3>5, <3>6
  <2> QED BY Zenon, <2>6, <2>7
<1>12. InMark(e, els, upTo, k, i) \/ k = upTo[i]
      BY Zenon, <1>6 DEF Passed, InBlank
<1> QED BY Zenon, <1>10, <1>11, <1>12

\* Behind the last element, the end shows what is left.
LEMMA FollowsToEnd ==
  ASSUME NEW e \in Echoes, NEW els \in Seq(Elements), NEW upTo,
         Spelled(e.chars, els, upTo), CodelessLast(e.chars), Follows(e, els, upTo, Len(els))
  PROVE  AtEnd(e).chars = e.chars /\ AtEnd(e).shown = e.chars
<1> DEFINE s == e.chars
<1>1. s \in Seq(Characters) /\ Len(s) \in Nat /\ Len(els) \in Nat /\ e \in EchoRecords
      BY DEF Echoes, EchoRecords
<1>2. AtEnd(e).chars = s /\ AtEnd(e).shown = e.shown \o SubSeq(s, e.charIdx + 1, Len(s))
      BY <1>1 DEF AtEnd, EchoRecords
<1>3. \A n \in 0 .. Len(s) : Prefix(s, n) \o SubSeq(s, n + 1, Len(s)) = s
      BY Zenon, <1>1, PrefixFacts
<1>4. PICK i \in 0 .. Len(s) :
        \/ InMark(e, els, upTo, Len(els), i)
        \/ Passed(e, upTo, Len(els), i)
        \/ InBlank(e, upTo, Len(els), i)
      BY Zenon DEF Follows
<1>5. SUFFICES \E n \in 0 .. Len(s) : e.charIdx = n /\ e.shown = Prefix(s, n)
      BY Zenon, <1>2, <1>3
<1>6. i >= 1 => i - 1 \in 0 .. Len(s)
      OBVIOUS
<1>7. CASE InMark(e, els, upTo, Len(els), i)
      BY Zenon, <1>6, <1>7 DEF InMark
<1>8. CASE Passed(e, upTo, Len(els), i)
      BY Zenon, <1>8 DEF Passed
<1>9. CASE InBlank(e, upTo, Len(els), i)
  <2>1. /\ i >= 1 /\ upTo[i] = Len(els) /\ s[i] = Blank /\ e.charIdx = i - 1
        /\ e.shown = Prefix(s, IF Trailing(s, i) THEN i - 1 ELSE i)
        BY Zenon, <1>9 DEF InBlank
  <2>2. Trailing(s, i)
    <3>1. CASE i = Len(s)
      <4>1. i + 1 .. Len(s) = {}
            BY <3>1
      <4> QED BY Zenon, <4>1 DEF Trailing
    <3>2. CASE i # Len(s)
      <4>1. i + 1 \in 1 .. Len(s) /\ (i + 1) - 1 = i /\ i + 1 \in 0 .. Len(s) /\ i + 1 > 1
            BY <2>1, <3>2
      <4>2. CharSpelled(s, i + 1, els, upTo[i], upTo[i + 1])
            BY Zenon, <4>1 DEF Spelled
      <4>3. upTo[i + 1] \in 0 .. Len(els)
            BY Zenon, <4>1 DEF Spelled
      <4>4. ~(upTo[i + 1] > upTo[i]) /\ upTo[i + 1] # upTo[i] + 1
            BY <1>1, <2>1, <4>3
      <4>5. ElementsOf(s, i + 1) = << >>
            BY Zenon, <4>2, <4>4 DEF CharSpelled
      <4>6. s[i] # Blank
            BY Zenon, <4>1, <4>5 DEF CodelessLast, Blank
      <4> QED BY Zenon, <2>1, <4>6
    <3> QED BY Zenon, <3>1, <3>2
  <2> QED BY Zenon, <1>6, <2>1, <2>2
<1> QED BY Zenon, <1>4, <1>7, <1>8, <1>9

\* Every text is encoded by encode(), with any table of dits and dahs, and its
\* characters without a code come last, and not behind a blank.
EncodedTexts ==
  /\ TableOfMarks
  /\ \A t \in Texts : t.elements = Encode(t.chars) /\ CodelessLast(t.chars)

\* The elements being played are els, `ahead` of them set before the text, and the
\* echo has followed the others.
Aligned(els, ahead, upTo) ==
  /\ Spelled(echo.chars, els, upTo)
  /\ CodelessLast(echo.chars)
  /\ elements = IF ahead = 1 THEN <<"CHAR_SPACE">> \o els ELSE els
  /\ at >= ahead
  /\ Follows(echo, els, upTo, at - ahead)

Following == \E els \in Seq(Elements), ahead \in {0, 1} : \E upTo : Aligned(els, ahead, upTo)

Beginning(e) == \E n \in 0 .. Len(e.chars) : e.shown = Prefix(e.chars, n)

EchoInv ==
  /\ playing \/ starting => Following /\ (down => Keys(elements[at]))
  /\ ~playing /\ ~starting => /\ Beginning(echo)
                              /\ at = Len(elements) => echo.shown = echo.chars

LEMMA FollowsBegins ==
  ASSUME NEW e, NEW els, NEW upTo, NEW k, Len(e.chars) \in Nat, Follows(e, els, upTo, k)
  PROVE  Beginning(e)
<1>1. PICK i \in 0 .. Len(e.chars) :
        InMark(e, els, upTo, k, i) \/ Passed(e, upTo, k, i) \/ InBlank(e, upTo, k, i)
      BY Zenon DEF Follows
<1>2. i >= 1 => i - 1 \in 0 .. Len(e.chars)
      OBVIOUS
<1>3. CASE InMark(e, els, upTo, k, i)
      BY Zenon, <1>2, <1>3 DEF InMark, Beginning
<1>4. CASE Passed(e, upTo, k, i)
      BY Zenon, <1>4 DEF Passed, Beginning
<1>5. CASE InBlank(e, upTo, k, i)
      BY Zenon, <1>2, <1>5 DEF InBlank, Beginning
<1> QED BY Zenon, <1>1, <1>3, <1>4, <1>5

\* What stands in the list of elements at a place of the text.
LEMMA Ahead ==
  ASSUME NEW els \in Seq(Elements), NEW ahead \in {0, 1},
         NEW all, all = IF ahead = 1 THEN <<"CHAR_SPACE">> \o els ELSE els
  PROVE  /\ all \in Seq(Elements)
         /\ Len(all) = Len(els) + ahead
         /\ \A k \in 1 .. Len(els) : all[k + ahead] = els[k]
         /\ ahead = 1 => all[1] = "CHAR_SPACE"
<1>1. CASE ahead = 0
  <2>1. all = els
        BY <1>1
  <2> QED BY <1>1, <2>1
<1>2. CASE ahead = 1
  <2>1. all = <<"CHAR_SPACE">> \o els
        BY Zenon, <1>2
  <2>2. <<"CHAR_SPACE">> \in Seq(Elements)
        BY DEF Elements
  <2> QED BY <1>2, <2>1, <2>2
<1> QED BY <1>1, <1>2

\* While a mark sounds, what is shown is what stands before its character.
LEMMA MarkFollows ==
  ASSUME TypeOK, Entered, Following, down => Keys(elements[at]), down, playing \/ starting
  PROVE  echo.shown = SubSeq(echo.chars, 1, echo.charIdx)
<1>1. PICK els \in Seq(Elements), ahead \in {0, 1} : \E upTo : Aligned(els, ahead, upTo)
      BY Zenon DEF Following
<1>2. PICK upTo : Aligned(els, ahead, upTo)
      BY Zenon, <1>1
<1>3. /\ Spelled(echo.chars, els, upTo)
      /\ CodelessLast(echo.chars)
      /\ elements = IF ahead = 1 THEN <<"CHAR_SPACE">> \o els ELSE els
      /\ at >= ahead
      /\ Follows(echo, els, upTo, at - ahead)
      BY Zenon, <1>2 DEF Aligned
<1>4. PICK i \in 0 .. Len(echo.chars) :
        \/ InMark(echo, els, upTo, at - ahead, i)
        \/ Passed(echo, upTo, at - ahead, i)
        \/ InBlank(echo, upTo, at - ahead, i)
      BY Zenon, <1>3 DEF Follows
<1>5. CASE InMark(echo, els, upTo, at - ahead, i)
      BY Zenon, <1>5 DEF InMark, Prefix
<1>6. CASE Passed(echo, upTo, at - ahead, i)
      BY Zenon, <1>6 DEF Passed, Prefix
<1>7. CASE InBlank(echo, upTo, at - ahead, i)
  <2> DEFINE k == at - ahead
  <2>1. i \in 1 .. Len(echo.chars) /\ k = upTo[i] /\ echo.chars[i] = Blank
        BY <1>7 DEF InBlank
  <2>2. CharSpelled(echo.chars, i, els, upTo[i - 1], upTo[i])
        BY Zenon, <1>3, <2>1 DEF Spelled
  <2>3. /\ upTo[i] = upTo[i - 1] + 1 /\ els[upTo[i]] = "WORD_SPACE"
        BY Zenon, <2>1, <2>2 DEF CharSpelled
  <2>4. upTo[i] \in 0 .. Len(els) /\ upTo[i - 1] \in 0 .. Len(els)
    <3>1. Len(echo.chars) \in Nat
          BY DEF TypeOK, Echoes, EchoRecords
    <3>2. i \in 0 .. Len(echo.chars) /\ i - 1 \in 0 .. Len(echo.chars)
          BY <2>1, <3>1
    <3> QED BY Zenon, <1>3, <3>2 DEF Spelled
  <2>5. k \in 1 .. Len(els)
        BY <2>1, <2>3, <2>4
  <2>6. elements[k + ahead] = els[k]
        BY Zenon, <1>3, <2>5, Ahead
  <2>7. k + ahead = at
        BY DEF TypeOK
  <2> HIDE DEF k
  <2>8. elements[at] = "WORD_SPACE"
        BY Zenon, <2>1, <2>3, <2>6, <2>7
  <2> QED BY Zenon, <2>8 DEF Keys
<1> QED BY Zenon, <1>4, <1>5, <1>6, <1>7

\* A text is set up.
LEMMA PlayFollows ==
  ASSUME EncodedTexts, NEW t \in Texts, NEW c \in BOOLEAN, PlayText(t, c), ~playing
  PROVE  EchoInv'
<1> DEFINE els == t.elements
           s == t.chars
           e == Rewound(s)
           set == SetApart(els, c)
<1>1. s \in Seq(Characters) /\ els \in Seq(Elements) /\ Len(s) \in Nat
      BY TextsType
<1>2. PICK upTo : Spelled(s, els, upTo) /\ CodelessLast(s)
      BY Zenon, <1>1, EncodeSpells DEF EncodedTexts
<1>3. e \in Echoes /\ e.chars = s
  <2>1. e \in Echoes
        BY Zenon, <1>1, RewoundType
  <2> QED BY <2>1 DEF Rewound
<1>4. Follows(e, els, upTo, 0)
      BY Zenon, <1>1, <1>2, FollowsFirst
<1>5. /\ elements' = IF set THEN <<"CHAR_SPACE">> \o els ELSE els
      /\ ~playing'
      /\ starting' = (elements' # << >>)
      BY Zenon DEF PlayText, Prepared
<1>6. CASE elements' = << >>
  <2>1. ~set /\ els = << >>
    <3>1. <<"CHAR_SPACE">> \o els # << >>
          BY <1>1
    <3> QED BY Zenon, <1>5, <1>6, <3>1
  <2>2. echo' = AtEnd(e) /\ ~starting'
        BY Zenon, <1>5, <1>6 DEF PlayText
  <2>3. Len(els) = 0
        BY <2>1
  <2>4. AtEnd(e).chars = s /\ AtEnd(e).shown = s
        BY Zenon, <1>1, <1>2, <1>3, <1>4, <2>3, FollowsToEnd
  <2>5. Prefix(s, Len(s)) = s /\ Len(s) \in 0 .. Len(s)
        BY <1>1 DEF Prefix
  <2>6. Beginning(echo')
        BY Zenon, <2>2, <2>4, <2>5 DEF Beginning
  <2> QED BY Zenon, <1>5, <2>2, <2>4, <2>6 DEF EchoInv, Beginning
<1>7. CASE elements' # << >>
  <2>1. starting' /\ at' = 1 /\ down' = Keys(elements'[1])
        BY Zenon, <1>5, <1>7 DEF PlayText, Enter
  <2>2. CASE set
    <3>1. echo' = e /\ elements' = <<"CHAR_SPACE">> \o els
          BY Zenon, <1>5, <1>7, <2>2 DEF PlayText
    <3>2. 1 - 1 = 0 /\ 1 >= 1
          OBVIOUS
    <3>3. Following'
      <4>1. /\ Spelled(echo'.chars, els, upTo)
            /\ CodelessLast(echo'.chars)
            /\ elements' = IF 1 = 1 THEN <<"CHAR_SPACE">> \o els ELSE els
            /\ at' >= 1
            /\ Follows(echo', els, upTo, at' - 1)
            BY Zenon, <1>2, <1>3, <1>4, <2>1, <3>1, <3>2
      <4>2. 1 \in {0, 1}
            OBVIOUS
      <4> HIDE DEF els
      <4>3. Aligned(els, 1, upTo)'
            BY Zenon, <4>1 DEF Aligned
      <4> QED BY Zenon, <1>1, <4>2, <4>3 DEF Following
    <3> QED BY Zenon, <1>5, <2>1, <3>3 DEF EchoInv
  <2>3. CASE ~set
    <3>1. echo' = Echoed(e, els[1]) /\ elements' = els
          BY Zenon, <1>5, <1>7, <2>3 DEF PlayText
    <3>2. 0 \in 0 .. Len(els) - 1 /\ 0 + 1 = 1 /\ 1 - 0 = 1 /\ 1 >= 0 /\ 0 # 1 /\ 0 \in {0, 1}
      <4> HIDE DEF els
      <4> QED BY <1>1, <1>7, <3>1
    <3>3. Echoed(e, els[1]).chars = s /\ Follows(Echoed(e, els[1]), els, upTo, 1)
          BY Zenon, <1>1, <1>2, <1>3, <1>4, <3>2, FollowsNext
    <3>4. Following'
      <4>1. /\ Spelled(echo'.chars, els, upTo)
            /\ CodelessLast(echo'.chars)
            /\ elements' = IF 0 = 1 THEN <<"CHAR_SPACE">> \o els ELSE els
            /\ at' >= 0
            /\ Follows(echo', els, upTo, at' - 0)
            BY Zenon, <1>2, <2>1, <3>1, <3>2, <3>3
      <4> HIDE DEF els
      <4>3. Aligned(els, 0, upTo)'
            BY Zenon, <4>1 DEF Aligned
      <4> QED BY Zenon, <1>1, <3>2, <4>3 DEF Following
    <3> QED BY Zenon, <1>5, <2>1, <3>4 DEF EchoInv
  <2> QED BY Zenon, <2>2, <2>3
<1> QED BY Zenon, <1>6, <1>7

\* The next element is entered.
LEMMA AdvanceFollows ==
  ASSUME TypeOK, Entered, EchoInv, PlayerAdvance
  PROVE  EchoInv'
<1>1. /\ playing /\ at < Len(elements) /\ at >= 1
      /\ UNCHANGED <<playing, starting, elements>>
      /\ at' = at + 1 /\ down' = Keys(elements[at + 1])
      /\ echo' = Echoed(echo, elements[at + 1])
      BY Zenon DEF PlayerAdvance, ToPlayer, Entered, Enter
<1>2. PICK els \in Seq(Elements), ahead \in {0, 1} : \E upTo : Aligned(els, ahead, upTo)
      BY Zenon, <1>1 DEF EchoInv, Following
<1>3. PICK upTo : Aligned(els, ahead, upTo)
      BY Zenon, <1>2
<1>4. /\ Spelled(echo.chars, els, upTo)
      /\ CodelessLast(echo.chars)
      /\ elements = IF ahead = 1 THEN <<"CHAR_SPACE">> \o els ELSE els
      /\ at >= ahead
      /\ Follows(echo, els, upTo, at - ahead)
      BY Zenon, <1>3 DEF Aligned
<1>5. Len(elements) = Len(els) + ahead /\ \A k \in 1 .. Len(els) : elements[k + ahead] = els[k]
      BY Zenon, <1>4, Ahead
<1>6. /\ at - ahead \in 0 .. Len(els) - 1
      /\ (at - ahead) + 1 \in 1 .. Len(els)
      /\ ((at - ahead) + 1) + ahead = at + 1
      /\ (at - ahead) + 1 = (at + 1) - ahead
      /\ at + 1 >= ahead
  <2>1. Len(els) \in Nat /\ at \in Nat /\ ahead \in Nat
        BY DEF TypeOK
  <2> QED BY <1>1, <1>4, <1>5, <2>1
<1>7. elements[at + 1] = els[(at - ahead) + 1]
  <2>1. elements[((at - ahead) + 1) + ahead] = els[(at - ahead) + 1]
        BY Zenon, <1>5, <1>6
  <2> QED BY Zenon, <1>6, <2>1
<1>8. echo'.chars = echo.chars /\ Follows(echo', els, upTo, at' - ahead)
  <2>1. echo \in Echoes
        BY Zenon DEF TypeOK
  <2>2. /\ Echoed(echo, els[(at - ahead) + 1]).chars = echo.chars
        /\ Follows(Echoed(echo, els[(at - ahead) + 1]), els, upTo, (at - ahead) + 1)
        BY Zenon, <1>4, <1>6, <2>1, FollowsNext
  <2> QED BY Zenon, <1>1, <1>6, <1>7, <2>2
<1>9. Following'
  <2>1. Aligned(els, ahead, upTo)'
        BY Zenon, <1>1, <1>4, <1>6, <1>8 DEF Aligned
  <2> QED BY Zenon, <2>1 DEF Following
<1> QED BY Zenon, <1>1, <1>9 DEF EchoInv

\* The last element is through.
LEMMA ExhaustedFollows ==
  ASSUME TypeOK, Entered, EchoInv, PlayerExhausted
  PROVE  EchoInv'
<1>1. /\ playing /\ ~starting /\ at = Len(elements)
      /\ ~playing' /\ ~starting'
      /\ echo' = AtEnd(echo)
      BY Zenon DEF PlayerExhausted, ToPlayer, Entered
<1>2. PICK els \in Seq(Elements), ahead \in {0, 1} : \E upTo : Aligned(els, ahead, upTo)
      BY Zenon, <1>1 DEF EchoInv, Following
<1>3. PICK upTo : Aligned(els, ahead, upTo)
      BY Zenon, <1>2
<1>4. /\ Spelled(echo.chars, els, upTo)
      /\ CodelessLast(echo.chars)
      /\ elements = IF ahead = 1 THEN <<"CHAR_SPACE">> \o els ELSE els
      /\ at >= ahead
      /\ Follows(echo, els, upTo, at - ahead)
      BY Zenon, <1>3 DEF Aligned
<1>5. Len(elements) = Len(els) + ahead
      BY Zenon, <1>4, Ahead
<1>6. at - ahead = Len(els)
      BY <1>1, <1>5
<1>7. /\ echo \in Echoes
      /\ echo.chars \in Seq(Characters) /\ Len(echo.chars) \in Nat
      BY DEF TypeOK, Echoes, EchoRecords
<1>8. AtEnd(echo).chars = echo.chars /\ AtEnd(echo).shown = echo.chars
      BY Zenon, <1>4, <1>6, <1>7, FollowsToEnd
<1>9. Prefix(echo.chars, Len(echo.chars)) = echo.chars /\ Len(echo.chars) \in 0 .. Len(echo.chars)
      BY <1>7 DEF Prefix
<1> QED BY Zenon, <1>1, <1>8, <1>9 DEF EchoInv, Beginning

LEMMA EchoInvStep ==
  ASSUME EncodedTexts, PlayInv, EchoInv, [Next]_vars
  PROVE  EchoInv'
<1>1. TypeOK /\ Entered
      BY Zenon DEF PlayInv
<1>2. ASSUME UNCHANGED <<playing, starting, elements, at, down, echo>>
      PROVE  EchoInv'
  <2>1. Following' = Following
        BY Zenon, <1>2 DEF Following, Aligned
  <2> QED BY Zenon, <1>2, <2>1 DEF EchoInv, Beginning
<1>3. UNCHANGED text => UNCHANGED <<playing, starting, elements, at, down, echo>>
      BY DEF text
<1>4. ASSUME NEW t \in Texts, NEW c \in BOOLEAN, PlayText(t, c)
      PROVE  EchoInv'
  <2>1. ~playing
        BY Zenon, <1>4 DEF PlayText
  <2> QED BY Zenon, <1>4, <2>1, PlayFollows
<1>5. ASSUME Stop, ~starting
      PROVE  EchoInv'
  <2>1. /\ ~playing' /\ ~starting' /\ at' = 0 /\ UNCHANGED <<elements, echo>>
        BY Zenon, <1>5 DEF Stop
  <2>2. elements \in Seq(Elements) /\ echo \in Echoes
        BY Zenon, <1>1 DEF TypeOK
  <2>3. Len(echo.chars) \in Nat
        BY <2>2 DEF Echoes, EchoRecords
  <2>4. CASE playing
    <3>1. Beginning(echo)
          BY Zenon, <2>3, <2>4, FollowsBegins DEF EchoInv, Following, Aligned
    <3>2. Len(elements) # 0
          BY <1>1, <2>2, <2>4 DEF TypeOK, Entered
    <3> QED BY Zenon, <2>1, <3>1, <3>2 DEF EchoInv, Beginning
  <2>5. CASE ~playing
    <3>1. at \in 0 .. Len(elements) /\ (Len(elements) = 0 => at = Len(elements))
          BY <1>1, <2>2 DEF TypeOK
    <3> QED BY Zenon, <1>5, <2>1, <2>5, <3>1 DEF EchoInv, Beginning
  <2> QED BY Zenon, <2>4, <2>5
<1>6. CASE StopText \/ Cancel
      BY Zenon, <1>1, <1>5, <1>6 DEF StopText, Cancel, Entered
<1>7. CASE Publish
  <2>1. starting /\ playing' /\ UNCHANGED <<elements, at, down, echo>>
        BY Zenon, <1>7 DEF Publish
  <2>2. Following' = Following
        BY Zenon, <2>1 DEF Following, Aligned
  <2> QED BY Zenon, <2>1, <2>2 DEF EchoInv
<1>8. CASE PlayerEndMark
      BY Zenon, <1>2, <1>8 DEF PlayerEndMark
<1>9. CASE PlayerAdvance
      BY Zenon, <1>1, <1>9, AdvanceFollows
<1>10. CASE PlayerExhausted
      BY Zenon, <1>1, <1>10, ExhaustedFollows
<1>11. ASSUME NEW p \in Levers, MoveLever(p)
      PROVE  UNCHANGED text
      BY Zenon, <1>11 DEF MoveLever
<1>12. SwitchOff \/ WebType => UNCHANGED text
      BY Zenon DEF SwitchOff, WebType
<1>13. Suppress \/ Release \/ Silence \/ PlayerSound => UNCHANGED text
      BY Zenon DEF Suppress, Release, Silence, PlayerSound
<1>14. Iambic => UNCHANGED text
      BY Zenon DEF Iambic, IambicStart, IambicSilence, IambicSound, IambicEndMark,
         IambicEndElement
<1>15. Straight => UNCHANGED text
      BY Zenon DEF Straight, StraightDown, StraightUp, StraightRamp, StraightStay
<1>16. UNCHANGED vars => UNCHANGED text
      BY DEF vars
<1> QED BY Zenon, <1>2, <1>3, <1>4, <1>6, <1>7, <1>8, <1>9, <1>10, <1>11, <1>12, <1>13,
           <1>14, <1>15, <1>16 DEF Next, Loop, StartText, FillBuffer, Player

\* The echo follows what is keyed, for every table of codes and every set of
\* texts that encode() makes of it, where the characters without a code come last
\* (morse_generator.cpp:221-428).
THEOREM EchoAlwaysFollows ==
  ASSUME EncodedTexts
  PROVE  Spec => []EchoFollowsText
<1>1. Init => EchoInv
  <2> SUFFICES ASSUME Init PROVE EchoInv
      OBVIOUS
  <2>1. ~playing /\ ~starting /\ echo = Rewound(<< >>)
        BY Zenon DEF Init
  <2>2. Rewound(<< >>).chars = << >> /\ Rewound(<< >>).shown = << >>
        BY DEF Rewound
  <2>3. Prefix(<< >>, 0) = << >> /\ 0 \in 0 .. Len(<< >>)
        BY DEF Prefix
  <2> QED BY Zenon, <2>1, <2>2, <2>3 DEF EchoInv, Beginning
<1>2. PlayInv /\ EchoInv /\ [Next]_vars => EchoInv'
      BY Zenon, EchoInvStep
<1>3. PlayInv /\ EchoInv => EchoFollowsText
  <2> SUFFICES ASSUME PlayInv, EchoInv PROVE EchoFollowsText
      OBVIOUS
  <2>1. TypeOK /\ Entered
        BY Zenon DEF PlayInv
  <2>2. Len(echo.chars) \in Nat
        BY <2>1 DEF TypeOK, Echoes, EchoRecords
  <2>3. Beginning(echo)
        BY Zenon, <2>2, FollowsBegins DEF EchoInv, Following, Aligned
  <2>4. PlayerMark => echo.shown = SubSeq(echo.chars, 1, echo.charIdx)
        BY Zenon, <2>1, MarkFollows DEF EchoInv, PlayerMark
  <2> QED BY Zenon, <2>3, <2>4 DEF EchoFollowsText, EchoInv, Beginning, Prefix
<1> QED BY <1>1, <1>2, <1>3, PlayInit, PlayStep, PTL DEF Spec

=============================================================================
