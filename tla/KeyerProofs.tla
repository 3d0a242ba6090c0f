------------------------------ MODULE KeyerProofs ------------------------------
(***************************************************************************)
(* Theorems about the keyers and what decodes them.                        *)
(*                                                                         *)
(* The first half is about IambicKeyer, for every set of speeds, word      *)
(* space and buffer size, the second about Decoders, for rings of any size *)
(* and any number of marks and silences.                                   *)
(***************************************************************************)
EXTENDS IambicKeyer, Decoders, FiniteSetTheorems, SequenceTheorems, TLAPS

\* The flags that the parties share, and the levers behind them.
FlagsTyped ==
  /\ lever \in [Levers -> BOOLEAN]
  /\ edge \in [Levers -> BOOLEAN]
  /\ latch \in [Levers -> BOOLEAN]
  /\ state \in [Levers -> BOOLEAN]
  /\ memory \in [Levers -> BOOLEAN]

\* The stages in which an element is current.
Sounded == {"size", "keyed", "play", "own", "clear", "swap", "repeat"}

\* Where the audio task is.
AudioTyped ==
  /\ pc \in Stages
  /\ cur \in Levers
  /\ element \in Elements
  /\ pc \in Sounded => element \in Levers
  /\ last \in {"start", "mark", "*", " "}

\* What it has been told to do.
SetupTyped ==
  /\ dit \in Dits
  /\ clearing \in 0 .. 4

\* The counts; keyUp() comes after keyDown(), which keeps demand a natural.
CountsTyped ==
  /\ total \in Nat
  /\ demand \in Nat
  /\ gap \in 0 .. MaxGap
  /\ pc = "play" /\ ~released => demand >= 1

BitsTyped ==
  /\ fits \in BOOLEAN
  /\ released \in BOOLEAN
  /\ ended \in BOOLEAN
  /\ spaced \in BOOLEAN
  /\ reversed \in BOOLEAN

TypeInv == FlagsTyped /\ AudioTyped /\ SetupTyped /\ CountsTyped /\ BitsTyped

\* The initial values have their types.
LEMMA TypeInit == Init => TypeInv
<1> SUFFICES ASSUME Init PROVE TypeInv
    OBVIOUS
<1>1. FlagsTyped
      BY Zenon DEF Init, FlagsTyped
<1>2. AudioTyped
      BY DEF Init, AudioTyped, Sounded, Stages, Levers, Elements
<1>3. SetupTyped
      BY DEF Init, SetupTyped
<1>4. CountsTyped
      BY MaxGapType DEF Init, CountsTyped
<1>5. BitsTyped
      BY DEF Init, BitsTyped
<1>6. QED
      BY <1>1, <1>2, <1>3, <1>4, <1>5 DEF TypeInv

\* No access gives a flag a value that is not Boolean.
LEMMA FlagsStep ==
  ASSUME TypeInv, [Next]_vars
  PROVE  FlagsTyped'
<1> USE DEF TypeInv, FlagsTyped, hands, shared, playing, spacing, setup
<1>1. ASSUME NEW p \in Levers, MoveLever(p) PROVE FlagsTyped'
  BY Zenon, <1>1 DEF MoveLever
<1>2. ASSUME NEW p \in Levers, IsrState(p) PROVE FlagsTyped'
  BY Zenon, <1>2 DEF IsrState
<1>3. ASSUME NEW p \in Levers, IsrLatch(p) PROVE FlagsTyped'
  BY Zenon, <1>3 DEF IsrLatch
<1>4. CASE Idle
  BY Zenon, <1>4 DEF Idle
<1>5. CASE Check
  BY Zenon, <1>5 DEF Check
<1>6. CASE Drop
  BY Zenon, <1>6 DEF Drop
<1>7. CASE Pick
  BY Zenon, <1>7 DEF Pick
<1>8. CASE PickNext
  BY Zenon, <1>8 DEF PickNext
<1>9. CASE Silence
  BY Zenon, <1>9 DEF Silence
<1>10. CASE Size
  BY Zenon, <1>10 DEF Size
<1>11. CASE Keyed
  BY Zenon, <1>11 DEF Keyed
<1>12. CASE EndMark
  BY Zenon, <1>12 DEF EndMark
<1>13. CASE EndElement
  BY Zenon, <1>13 DEF EndElement
<1>14. CASE Own
  BY Zenon, <1>14 DEF Own
<1>15. CASE Clear
  BY Zenon, <1>15 DEF Clear
<1>16. CASE Swap
  BY Zenon, <1>16 DEF Swap
<1>17. CASE Repeat
  BY Zenon, <1>17 DEF Repeat
<1>18. CASE EndCharacter
  BY Zenon, <1>18 DEF EndCharacter
<1>19. ASSUME NEW d \in Dits, SetWPM(d) PROVE FlagsTyped'
  BY Zenon, <1>19 DEF SetWPM
<1>20. CASE SetReversed
  BY Zenon, <1>20 DEF SetReversed
<1>21. CASE ClearStore
  <2>1. CASE clearing > 2
    BY Zenon, <1>21, <2>1 DEF ClearStore
  <2>2. CASE ~(clearing > 2)
    BY Zenon, <1>21, <2>2 DEF ClearStore
  <2> QED
    BY <2>1, <2>2
<1>22. CASE UNCHANGED vars
  BY Zenon, <1>22 DEF vars
<1> QED
  BY <1>1, <1>2, <1>3, <1>4, <1>5, <1>6, <1>7, <1>8, <1>9, <1>10, <1>11, <1>12, <1>13,
     <1>14, <1>15, <1>16, <1>17, <1>18, <1>19, <1>20, <1>21, <1>22
     DEF Next, Isr, Audio, Loop

\* The audio task moves between its stages.
LEMMA AudioTypedStep ==
  ASSUME TypeInv, [Next]_vars
  PROVE  AudioTyped'
<1> USE DEF hands, shared, playing, spacing, setup, Goto
<1> USE DEF TypeInv, AudioTyped, Stages, Sounded
<1>1. ASSUME NEW p \in Levers, MoveLever(p) PROVE AudioTyped'
  BY <1>1 DEF MoveLever
<1>2. ASSUME NEW p \in Levers, IsrState(p) PROVE AudioTyped'
  BY <1>2 DEF IsrState
<1>3. ASSUME NEW p \in Levers, IsrLatch(p) PROVE AudioTyped'
  BY <1>3 DEF IsrLatch
<1>4. CASE Idle
  BY <1>4 DEF Idle, Write, Levers
<1>5. CASE Check
  BY <1>5 DEF Check, NextLever, Levers
<1>6. CASE Drop
  BY <1>6 DEF Drop, NextLever, Levers
<1>7. CASE Pick
  BY <1>7 DEF Pick, Phys, Other, Levers, Elements
<1>8. CASE PickNext
  BY <1>8 DEF PickNext, Levers
<1>9. CASE Silence
  BY <1>9 DEF Silence, Levers
<1>10. CASE Size
  BY <1>10 DEF Size
<1>11. CASE Keyed
  BY <1>11 DEF Keyed
<1>12. CASE EndMark
  BY <1>12 DEF EndMark
<1>13. CASE EndElement
  <2>1. element \in Levers
    BY <1>13 DEF EndElement
  <2>2. Phys(element) \in Levers
    BY Zenon, <2>1 DEF Phys, Other, Levers
  <2> QED
    BY <1>13, <2>1, <2>2 DEF EndElement, Write
<1>14. CASE Own
  BY <1>14 DEF Own
<1>15. CASE Clear
  BY <1>15 DEF Clear
<1>16. CASE Swap
  BY <1>16 DEF Swap, Other, Levers, Elements
<1>17. CASE Repeat
  BY <1>17 DEF Repeat, Levers
<1>18. CASE EndCharacter
  BY <1>18 DEF EndCharacter, Write, Levers, Elements
<1>19. ASSUME NEW d \in Dits, SetWPM(d) PROVE AudioTyped'
  BY <1>19 DEF SetWPM
<1>20. CASE SetReversed
  BY <1>20 DEF SetReversed
<1>21. CASE ClearStore
  BY <1>21 DEF ClearStore
<1>22. CASE UNCHANGED vars
  BY <1>22 DEF vars
<1> QED
  BY <1>1, <1>2, <1>3, <1>4, <1>5, <1>6, <1>7, <1>8, <1>9, <1>10, <1>11, <1>12, <1>13,
     <1>14, <1>15, <1>16, <1>17, <1>18, <1>19, <1>20, <1>21, <1>22
     DEF Next, Isr, Audio, Loop

\* loop() sets speeds in use, and its stores count down.
LEMMA SetupTypedStep ==
  ASSUME TypeInv, [Next]_vars
  PROVE  SetupTyped'
<1> USE DEF hands, shared, playing, spacing, setup, Goto
<1> USE DEF TypeInv, SetupTyped
<1>1. ASSUME NEW p \in Levers, MoveLever(p) PROVE SetupTyped'
  BY <1>1 DEF MoveLever
<1>2. ASSUME NEW p \in Levers, IsrState(p) PROVE SetupTyped'
  BY <1>2 DEF IsrState
<1>3. ASSUME NEW p \in Levers, IsrLatch(p) PROVE SetupTyped'
  BY <1>3 DEF IsrLatch
<1>4. CASE Idle
  <2>1. UNCHANGED <<dit, clearing>>
    BY Zenon, <1>4 DEF Idle
  <2> QED
    BY <2>1
<1>5. CASE Check
  BY <1>5 DEF Check
<1>6. CASE Drop
  BY <1>6 DEF Drop
<1>7. CASE Pick
  BY <1>7 DEF Pick
<1>8. CASE PickNext
  BY <1>8 DEF PickNext
<1>9. CASE Silence
  BY <1>9 DEF Silence
<1>10. CASE Size
  BY <1>10 DEF Size
<1>11. CASE Keyed
  BY <1>11 DEF Keyed
<1>12. CASE EndMark
  BY <1>12 DEF EndMark
<1>13. CASE EndElement
  BY <1>13 DEF EndElement
<1>14. CASE Own
  BY <1>14 DEF Own
<1>15. CASE Clear
  BY <1>15 DEF Clear
<1>16. CASE Swap
  BY <1>16 DEF Swap
<1>17. CASE Repeat
  BY <1>17 DEF Repeat
<1>18. CASE EndCharacter
  BY <1>18 DEF EndCharacter
<1>19. ASSUME NEW d \in Dits, SetWPM(d) PROVE SetupTyped'
  BY <1>19 DEF SetWPM
<1>20. CASE SetReversed
  BY <1>20 DEF SetReversed
<1>21. CASE ClearStore
  BY <1>21 DEF ClearStore
<1>22. CASE UNCHANGED vars
  BY <1>22 DEF vars
<1> QED
  BY <1>1, <1>2, <1>3, <1>4, <1>5, <1>6, <1>7, <1>8, <1>9, <1>10, <1>11, <1>12, <1>13,
     <1>14, <1>15, <1>16, <1>17, <1>18, <1>19, <1>20, <1>21, <1>22
     DEF Next, Isr, Audio, Loop

\* The counts stay natural numbers.
LEMMA CountsStep ==
  ASSUME TypeInv, [Next]_vars
  PROVE  CountsTyped'
<1> USE DEF hands, shared, playing, spacing, setup, Goto
<1> USE DitsType, WordSpaceType, FramesType, MaxGapType DEF TypeInv, CountsTyped, SetupTyped
<1>1. ASSUME NEW p \in Levers, MoveLever(p) PROVE CountsTyped'
  BY <1>1 DEF MoveLever
<1>2. ASSUME NEW p \in Levers, IsrState(p) PROVE CountsTyped'
  BY <1>2 DEF IsrState
<1>3. ASSUME NEW p \in Levers, IsrLatch(p) PROVE CountsTyped'
  BY <1>3 DEF IsrLatch
<1>4. CASE Idle
  <2>1. pc' = "check" /\ UNCHANGED <<total, demand>>
    BY Zenon, <1>4 DEF Idle
  <2>2. CASE WordGap
    <3>1. gap' = 0
      BY Zenon, <1>4, <2>2 DEF Idle
    <3> QED
      BY <2>1, <3>1
  <2>3. CASE ~WordGap
    <3>1. UNCHANGED <<last, spacing>>
      BY Zenon, <1>4, <2>3 DEF Idle
    <3> QED
      BY <2>1, <3>1
  <2> QED
    BY <2>2, <2>3
<1>5. CASE Check
  BY <1>5 DEF Check, NextLever
<1>6. CASE Drop
  BY <1>6 DEF Drop, NextLever
<1>7. CASE Pick
  BY <1>7 DEF Pick
<1>8. CASE PickNext
  BY <1>8 DEF PickNext
<1>9. CASE Silence
  BY <1>9 DEF Silence
<1>10. CASE Size
  <2>1. Marks(element) + 1 \in {2, 4}
    BY DEF Marks
  <2>2. total' \in Nat
    BY <1>10, <2>1 DEF Size
  <2> QED
    BY <1>10, <2>2 DEF Size
<1>11. CASE Keyed
  BY <1>11 DEF Keyed
<1>12. CASE EndMark
  BY <1>12 DEF EndMark
<1>13. CASE EndElement
  BY <1>13 DEF EndElement
<1>14. CASE Own
  BY <1>14 DEF Own
<1>15. CASE Clear
  BY <1>15 DEF Clear
<1>16. CASE Swap
  BY <1>16 DEF Swap
<1>17. CASE Repeat
  BY <1>17 DEF Repeat
<1>18. CASE EndCharacter
  BY <1>18 DEF EndCharacter
<1>19. ASSUME NEW d \in Dits, SetWPM(d) PROVE CountsTyped'
  BY <1>19 DEF SetWPM
<1>20. CASE SetReversed
  BY <1>20 DEF SetReversed
<1>21. CASE ClearStore
  BY <1>21 DEF ClearStore
<1>22. CASE UNCHANGED vars
  BY <1>22 DEF vars
<1> QED
  BY <1>1, <1>2, <1>3, <1>4, <1>5, <1>6, <1>7, <1>8, <1>9, <1>10, <1>11, <1>12, <1>13,
     <1>14, <1>15, <1>16, <1>17, <1>18, <1>19, <1>20, <1>21, <1>22
     DEF Next, Isr, Audio, Loop

\* The audio task's own flags stay Boolean.
LEMMA BitsStep ==
  ASSUME TypeInv, [Next]_vars
  PROVE  BitsTyped'
<1> USE DEF TypeInv, BitsTyped, hands, shared, playing, spacing, setup
<1>1. ASSUME NEW p \in Levers, MoveLever(p) PROVE BitsTyped'
  BY Zenon, <1>1 DEF MoveLever
<1>2. ASSUME NEW p \in Levers, IsrState(p) PROVE BitsTyped'
  BY Zenon, <1>2 DEF IsrState
<1>3. ASSUME NEW p \in Levers, IsrLatch(p) PROVE BitsTyped'
  BY Zenon, <1>3 DEF IsrLatch
<1>4. CASE Idle
  BY Zenon, <1>4 DEF Idle
<1>5. CASE Check
  BY Zenon, <1>5 DEF Check
<1>6. CASE Drop
  BY Zenon, <1>6 DEF Drop
<1>7. CASE Pick
  BY Zenon, <1>7 DEF Pick
<1>8. CASE PickNext
  BY Zenon, <1>8 DEF PickNext
<1>9. CASE Silence
  BY Zenon, <1>9 DEF Silence
<1>10. CASE Size
  BY Zenon, <1>10 DEF Size
<1>11. CASE Keyed
  <2>1. fits' = (Marks(element) * dit <= total)
    BY <1>11 DEF Keyed
  <2>2. fits' \in BOOLEAN
    BY <2>1
  <2>3. UNCHANGED <<released, ended, spaced, reversed>>
    BY <1>11 DEF Keyed
  <2> QED
    BY Zenon, <2>2, <2>3
<1>12. CASE EndMark
  BY Zenon, <1>12 DEF EndMark
<1>13. CASE EndElement
  BY Zenon, <1>13 DEF EndElement
<1>14. CASE Own
  BY Zenon, <1>14 DEF Own
<1>15. CASE Clear
  BY Zenon, <1>15 DEF Clear
<1>16. CASE Swap
  BY Zenon, <1>16 DEF Swap
<1>17. CASE Repeat
  BY Zenon, <1>17 DEF Repeat
<1>18. CASE EndCharacter
  BY Zenon, <1>18 DEF EndCharacter
<1>19. ASSUME NEW d \in Dits, SetWPM(d) PROVE BitsTyped'
  BY Zenon, <1>19 DEF SetWPM
<1>20. CASE SetReversed
  BY Zenon, <1>20 DEF SetReversed
<1>21. CASE ClearStore
  BY Zenon, <1>21 DEF ClearStore
<1>22. CASE UNCHANGED vars
  BY Zenon, <1>22 DEF vars
<1> QED
  BY <1>1, <1>2, <1>3, <1>4, <1>5, <1>6, <1>7, <1>8, <1>9, <1>10, <1>11, <1>12, <1>13,
     <1>14, <1>15, <1>16, <1>17, <1>18, <1>19, <1>20, <1>21, <1>22
     DEF Next, Isr, Audio, Loop

\* Every access of every party keeps the types.
LEMMA TypeStep == TypeInv /\ [Next]_vars => TypeInv'
BY FlagsStep, AudioTypedStep, SetupTypedStep, CountsStep, BitsStep DEF TypeInv

\* TypeOK, for all speeds: among others, the keyer never calls keyUp() more
\* often than keyDown(), however abrupt a change of speed.
THEOREM TypeCorrect == Spec => []TypeOK
<1>1. TypeInv => TypeOK
      BY DEF TypeInv, FlagsTyped, AudioTyped, SetupTyped, CountsTyped, BitsTyped, TypeOK
<1>2. QED
      BY <1>1, TypeInit, TypeStep, PTL DEF Spec

-----------------------------------------------------------------------------
\* A fresh element has its keyUp() to come; between the two measurements of
\* startElement() the total is that of a speed in use, and once both are made
\* the mark fits.
MarkFits ==
  /\ pc = "keyed" => ~released
  /\ pc = "keyed" => \E d \in Dits : total = (Marks(element) + 1) * d
  /\ pc = "play" => fits

KeyedInv == TypeInv /\ MarkFits /\ KeyedExactly

\* A mark measured at one gentle speed fits an element sized at another.
LEMMA GentleMarkFits ==
  ASSUME GentleSpeeds, NEW d \in Dits, NEW e \in Dits, NEW m \in Levers
  PROVE  Marks(m) * e <= (Marks(m) + 1) * d
<1>1. d \in Nat /\ e \in Nat /\ 3 * e <= 4 * d
      BY DitsType DEF GentleSpeeds
<1>2. CASE m = "dit"
      BY <1>1, <1>2 DEF Marks
<1>3. CASE m = "dah"
      BY <1>1, <1>3 DEF Marks
<1>4. QED
      BY <1>2, <1>3 DEF Levers
\* With gentle speeds no access of any party breaks the count: a mark always
\* ends within its element.
LEMMA KeyedStep ==
  ASSUME GentleSpeeds, KeyedInv, [Next]_vars
  PROVE  (MarkFits /\ KeyedExactly)'
<1> USE DEF KeyedInv, TypeInv, CountsTyped, MarkFits, KeyedExactly,
            hands, shared, playing, spacing, setup, Goto
<1>1. ASSUME NEW p \in Levers, MoveLever(p) PROVE (MarkFits /\ KeyedExactly)'
  BY <1>1 DEF MoveLever
<1>2. ASSUME NEW p \in Levers, IsrState(p) PROVE (MarkFits /\ KeyedExactly)'
  BY <1>2 DEF IsrState
<1>3. ASSUME NEW p \in Levers, IsrLatch(p) PROVE (MarkFits /\ KeyedExactly)'
  BY <1>3 DEF IsrLatch
<1>4. CASE Idle
  <2>1. pc = "idle" /\ pc' = "check" /\ UNCHANGED demand
    BY Zenon, <1>4 DEF Idle
  <2> QED
    BY <2>1
<1>5. CASE Check
  BY <1>5 DEF Check, NextLever
<1>6. CASE Drop
  BY <1>6 DEF Drop, NextLever
<1>7. CASE Pick
  BY <1>7 DEF Pick
<1>8. CASE PickNext
  BY <1>8 DEF PickNext
<1>9. CASE Silence
  BY <1>9 DEF Silence
<1>10. CASE Size
  <2>1. pc' = "keyed" /\ UNCHANGED <<element, demand>>
    BY <1>10 DEF Size
  <2>2. pc = "size" /\ ~released'
    BY <1>10 DEF Size
  <2>3. dit \in Dits /\ total' = (Marks(element) + 1) * dit
    BY <1>10 DEF Size, SetupTyped
  <2>4. \E d \in Dits : total' = (Marks(element') + 1) * d
    BY Zenon, <2>1, <2>3
  <2> QED
    BY <2>1, <2>2, <2>4
<1>11. CASE Keyed
  <2>1. element \in Levers /\ dit \in Dits
    BY <1>11 DEF Keyed, AudioTyped, Sounded, SetupTyped
  <2>2. PICK d \in Dits : total = (Marks(element) + 1) * d
    BY <1>11 DEF Keyed
  <2>3. Marks(element) * dit <= total
    BY <2>1, <2>2, GentleMarkFits
  <2>4. fits'
    BY Zenon, <1>11, <2>3 DEF Keyed
  <2>5. pc = "keyed" /\ pc' = "play"
    BY <1>11 DEF Keyed
  <2>6. demand' = demand + 1 /\ released' = released
    BY <1>11 DEF Keyed
  <2> QED
    BY <2>4, <2>5, <2>6
<1>12. CASE EndMark
  BY <1>12 DEF EndMark
<1>13. CASE EndElement
  BY <1>13 DEF EndElement
<1>14. CASE Own
  BY <1>14 DEF Own
<1>15. CASE Clear
  BY <1>15 DEF Clear
<1>16. CASE Swap
  BY <1>16 DEF Swap
<1>17. CASE Repeat
  BY <1>17 DEF Repeat
<1>18. CASE EndCharacter
  BY <1>18 DEF EndCharacter
<1>19. ASSUME NEW d \in Dits, SetWPM(d) PROVE (MarkFits /\ KeyedExactly)'
  BY <1>19 DEF SetWPM
<1>20. CASE SetReversed
  BY <1>20 DEF SetReversed
<1>21. CASE ClearStore
  BY <1>21 DEF ClearStore
<1>22. CASE UNCHANGED vars
  BY <1>22 DEF vars
<1> QED
  BY <1>1, <1>2, <1>3, <1>4, <1>5, <1>6, <1>7, <1>8, <1>9, <1>10, <1>11, <1>12, <1>13,
     <1>14, <1>15, <1>16, <1>17, <1>18, <1>19, <1>20, <1>21, <1>22
     DEF Next, Isr, Audio, Loop

\* The transmitter is keyed exactly during the marks, for every interleaving
\* of the interrupts, the settings and the audio task, as long as no change of
\* speed stretches the dit by more than a third: without that hypothesis
\* the mark may outlast its element and the key stays down.
THEOREM KeyedExactlyAlways ==
  ASSUME GentleSpeeds
  PROVE  Spec => []KeyedExactly
<1>1. Init => KeyedInv
      BY TypeInit DEF Init, KeyedInv, MarkFits, KeyedExactly
<1>2. KeyedInv /\ [Next]_vars => KeyedInv'
      BY TypeStep, KeyedStep DEF KeyedInv
<1>3. KeyedInv => KeyedExactly
      BY DEF KeyedInv
<1>4. QED
      BY <1>1, <1>2, <1>3, PTL DEF Spec

-----------------------------------------------------------------------------
\* After an element, until it is decided what follows, the last symbol is its
\* mark; in a silence whose word space is not yet written, it is the end of a
\* character.
Grammar ==
  /\ pc \in {"own", "clear", "swap", "repeat"} => last = "mark"
  /\ pc \in {"idle", "check", "drop", "pick"} /\ ended /\ ~spaced => last = "*"

GrammarInv == TypeInv /\ Grammar

\* Only the audio task writes symbols, and it writes them in order.
LEMMA GrammarStep ==
  ASSUME GrammarInv, [Next]_vars
  PROVE  Grammar'
<1> USE DEF GrammarInv, Grammar, hands, shared, playing, spacing, setup, Goto
<1>1. ASSUME NEW p \in Levers, MoveLever(p) PROVE Grammar'
  BY <1>1 DEF MoveLever
<1>2. ASSUME NEW p \in Levers, IsrState(p) PROVE Grammar'
  BY <1>2 DEF IsrState
<1>3. ASSUME NEW p \in Levers, IsrLatch(p) PROVE Grammar'
  BY <1>3 DEF IsrLatch
<1>4. CASE Idle
  <2>1. pc' = "check" /\ pc = "idle"
    BY Zenon, <1>4 DEF Idle
  <2>2. CASE WordGap
    <3>1. spaced'
      BY Zenon, <1>4, <2>2 DEF Idle
    <3> QED
      BY <2>1, <3>1
  <2>3. CASE ~WordGap
    <3>1. UNCHANGED <<last, spacing>>
      BY Zenon, <1>4, <2>3 DEF Idle
    <3> QED
      BY <2>1, <3>1
  <2> QED
    BY <2>2, <2>3
<1>5. CASE Check
  BY <1>5 DEF Check, NextLever
<1>6. CASE Drop
  BY <1>6 DEF Drop, NextLever
<1>7. CASE Pick
  BY <1>7 DEF Pick
<1>8. CASE PickNext
  BY <1>8 DEF PickNext
<1>9. CASE Silence
  BY <1>9 DEF Silence
<1>10. CASE Size
  BY <1>10 DEF Size, Stages
<1>11. CASE Keyed
  BY <1>11 DEF Keyed
<1>12. CASE EndMark
  BY <1>12 DEF EndMark
<1>13. CASE EndElement
  BY <1>13 DEF EndElement, Write
<1>14. CASE Own
  BY <1>14 DEF Own
<1>15. CASE Clear
  BY <1>15 DEF Clear
<1>16. CASE Swap
  BY <1>16 DEF Swap
<1>17. CASE Repeat
  BY <1>17 DEF Repeat
<1>18. CASE EndCharacter
  BY <1>18 DEF EndCharacter, Write
<1>19. ASSUME NEW d \in Dits, SetWPM(d) PROVE Grammar'
  BY <1>19 DEF SetWPM
<1>20. CASE SetReversed
  BY <1>20 DEF SetReversed
<1>21. CASE ClearStore
  BY <1>21 DEF ClearStore
<1>22. CASE UNCHANGED vars
  BY <1>22 DEF vars
<1> QED
  BY <1>1, <1>2, <1>3, <1>4, <1>5, <1>6, <1>7, <1>8, <1>9, <1>10, <1>11, <1>12, <1>13,
     <1>14, <1>15, <1>16, <1>17, <1>18, <1>19, <1>20, <1>21, <1>22
     DEF Next, Isr, Audio, Loop

\* A character is ended once, after its marks, and a word at most once, after
\* a character, whatever the operator does to the paddle and the settings.
THEOREM SymbolOrderAlways == Spec => SymbolOrder
<1>1. Init => GrammarInv
      BY TypeInit DEF Init, GrammarInv, Grammar
<1>2. GrammarInv /\ [Next]_vars => GrammarInv'
      BY TypeStep, GrammarStep DEF GrammarInv
<1>3. GrammarInv /\ [Next]_vars =>
        [ /\ (EndCharacter => last = "mark")
          /\ ((Idle /\ WordGap) => last = "*") ]_vars
      BY DEF GrammarInv, Grammar, EndCharacter, Idle, WordGap
<1>4. QED
      BY <1>1, <1>2, <1>3, PTL DEF Spec, SymbolOrder

-----------------------------------------------------------------------------
(* The decoders and the rings that feed them.                               *)

(* The types.                                                              *)

Symbols == DitDah \union {EndOfChar, Space}

Timed == [down : BOOLEAN, at : Nat]

Kept == /\ keyed \in Seq(Symbols) /\ text \in Seq(Symbols) /\ pat \in Seq(DitDah)
        /\ torn \in BOOLEAN

Clocks ==
  /\ now \in Nat \ {0} /\ upAt \in 0 .. now
  /\ down \in 0 .. now /\ up \in 0 .. now /\ timeout \in Nat

Rings ==
  /\ rbHead \in 0 .. R - 1 /\ rbTail \in 0 .. R - 1
  /\ lp.pc \in {"poll", "read", "time"} /\ lp.tail \in 0 .. R - 1
  /\ kind \in {"straight", "paddle"}
  /\ lp = [pc |-> lp.pc, head |-> lp.head, tail |-> lp.tail]

Slots ==
  /\ kind = "straight" => /\ rb \in [0 .. R - 1 -> Timed]
                          /\ \A i \in 0 .. R - 1 : rb[i].at <= now
  /\ kind = "paddle" => rb \in [0 .. R - 1 -> Symbols] /\ down = 0 /\ up = 0

DecType == Kept /\ Clocks /\ Rings /\ Slots

(* The ring of the straight key.                                           *)

\* Where loop() reads next, or is reading.
Cursor == IF lp.pc = "read" THEN lp.tail ELSE rbTail

Places ==
  /\ st \in {"ready", "down", "zero", "idle"} => rbHead = 0
  /\ st \in {"hold", "up"} => rbHead = 1
  /\ st = "fall" => rbHead = 2

\* Between the stores that empty the ring, and behind the events until loop() has
\* gone round, it reads what was never written.
Cursors ==
  /\ Cursor = 0 => st # "zero" \/ lp.pc # "read"
  /\ (lp.pc = "read" /\ Cursor = 0) => st \in {"hold", "up", "fall"}
  /\ Cursor = 1 => st \in {"hold", "up", "fall"} /\ down = rb[0].at
  /\ Cursor = 1 /\ lp.pc = "read" => st = "fall"
  /\ Cursor = 2 /\ lp.pc # "read" => st \in {"fall", "zero"}
  /\ lp.pc = "time" => \/ (Cursor = 0 /\ st \notin {"up", "fall"})
                       \/ Cursor = 1
                       \/ Cursor = 2
  /\ lp.pc = "read" => lp.tail = rbTail \/ (rbTail = 0 /\ lp.tail >= 2)

Events ==
  /\ \A i \in 2 .. R - 1 : rb[i] = DownEvent
  /\ st \in {"down", "hold", "up", "fall"} => rb[0].down /\ rb[0].at > 0
  /\ st \in {"down", "hold"} => rb[0].at = now
  /\ st \in {"up", "fall"} =>
       /\ ~rb[1].down /\ rb[1].at = now /\ upAt = now
       /\ keyed # <<>> /\ keyed[Len(keyed)] \in DitDah
       /\ rb[1].at - rb[0].at = LengthOf[keyed[Len(keyed)]]

StraightInv ==
  kind = "straight" =>
    /\ st \in {"ready", "down", "hold", "up", "fall", "zero", "idle"}
    /\ Places /\ Cursors /\ Events

\* A release that loop() has not yet read.
Unheard ==
  kind = "straight" /\ st \in {"up", "fall"} /\ ~(Cursor = 2 /\ lp.pc # "read" /\ st = "fall")

\* loop() lacks the last mark until it has read its release, and no other.
MarksInv ==
  kind = "straight" =>
    /\ MarksAgree(Decoded, keyed)
    /\ MarksOf(keyed) = MarksOf(Decoded) + (IF Unheard THEN 1 ELSE 0)

(* The letters of the straight key, before loop() has come between.        *)

\* What loop() is to decode of the silence before the press that it reads next.
Rest ==
  LET silent == rb[0].at - up
  IN IF up = 0 THEN <<>>
     ELSE IF pat = <<>> THEN (IF silent > 5 THEN <<Space>> ELSE <<>>)
     ELSE SilenceOf(silent)

LastMark == IF st \in {"up", "fall"} THEN <<keyed[Len(keyed)]>> ELSE <<>>

\* A letter under way has a timeout; one that has timed out was silent for five dits.
Lapse(t) ==
  /\ up = 0 => Decoded = <<>> /\ timeout = 0
  /\ up > 0 /\ pat # <<>> => timeout = up + 5
  /\ up > 0 /\ pat = <<>> => timeout = 0 /\ t - up >= 5

InPause ==
  /\ up = upAt /\ Lapse(now)
  /\ up = 0 => keyed = <<>>
  /\ up > 0 => /\ keyed # <<>> /\ keyed[Len(keyed)] \in DitDah
               /\ Decoded = IF pat = <<>> THEN Append(keyed, EndOfChar) ELSE keyed

BeforePress ==
  /\ Lapse(rb[0].at)
  /\ keyed = Decoded \o (Rest \o LastMark)

InPress ==
  /\ up = 0
  /\ keyed = Decoded \o LastMark

LettersInv ==
  kind = "straight" /\ ~torn =>
    /\ Cursor \in {0, 1, 2}
    /\ Cursor = 2 => st \in {"fall", "zero"} /\ lp.pc # "read"
    /\ st = "zero" => Cursor = 2
    /\ Cursor = 2 \/ st \in {"idle", "ready"} => InPause
    /\ Cursor = 0 /\ st \in {"down", "hold", "up", "fall"} => BeforePress
    /\ Cursor = 1 => InPress

(* The ring of the symbols.                                                *)

Unread == IF rbTail <= rbHead THEN rbHead - rbTail ELSE rbHead - rbTail + R

Place(k) == IF rbTail + k < R THEN rbTail + k ELSE rbTail + k - R

\* An end of letter follows a mark, a space an end of letter.
KeyedOrder ==
  /\ text # <<>> => text[Len(text)] \notin DitDah
  /\ \A i \in 1 .. Len(keyed) :
       /\ keyed[i] = EndOfChar => i > 1 /\ keyed[i - 1] \in DitDah
       /\ keyed[i] = Space => i > 1 /\ keyed[i - 1] = EndOfChar

RingHolds ==
  /\ Begins(Decoded, keyed)
  /\ Len(keyed) = Len(Decoded) + Unread + (IF st = "symbol" THEN 1 ELSE 0)
  /\ \A k \in 0 .. Unread - 1 : rb[Place(k)] = keyed[Len(Decoded) + 1 + k]
  /\ st = "symbol" => rb[rbHead] = keyed[Len(keyed)] /\ Unread < R - 1

PaddleInv ==
  kind = "paddle" =>
    /\ st \in {"ready", "symbol"} /\ ~torn
    /\ lp.pc \in {"poll", "read"}
    /\ lp.pc = "read" => lp.tail = rbTail /\ rbTail # rbHead
    /\ KeyedOrder /\ RingHolds

-----------------------------------------------------------------------------
LEMMA DecBounds ==
  /\ R \in Nat \ {0, 1, 2} /\ MaxMarks \in Nat /\ Silences \subseteq Nat
  /\ Kinds \subseteq {"straight", "paddle"}
BY DecoderBounds

LEMMA NextPlace ==
  ASSUME NEW x \in 0 .. R - 1
  PROVE  (x + 1) % R \in 0 .. R - 1 /\ (x + 1) % R = IF x = R - 1 THEN 0 ELSE x + 1
<1>1. \A n \in Nat \ {0} : \A y \in 0 .. n - 1 : (y + 1) % n = IF y = n - 1 THEN 0 ELSE y + 1
      OBVIOUS
<1>2. (x + 1) % R = IF x = R - 1 THEN 0 ELSE x + 1
      BY <1>1, DecBounds
<1> HIDE <1>1
<1> QED BY <1>2, DecBounds

LEMMA SymbolsDiffer ==
  /\ EndOfChar \notin DitDah /\ Space \notin DitDah /\ EndOfChar # Space
  /\ DitDah = {Dit, Dah} /\ Dit # Dah
  /\ DitDah \subseteq Symbols /\ EndOfChar \in Symbols /\ Space \in Symbols
BY DEF EndOfChar, Space, DitDah, Dit, Dah, Symbols

LEMMA SilenceSymbols ==
  ASSUME NEW g \in Int
  PROVE  SilenceOf(g) \in Seq(Symbols)
<1>1. <<EndOfChar, Space>> \in Seq(Symbols) /\ <<EndOfChar>> \in Seq(Symbols) /\ <<>> \in Seq(Symbols)
      BY SymbolsDiffer
<1> QED BY <1>1 DEF SilenceOf

LEMMA DecTypeInit ==
  ASSUME DecInit
  PROVE  DecType
<1>1. Kept
      BY EmptySeq DEF DecInit, Kept
<1>2. Clocks
      BY DEF DecInit, Clocks
<1>3. Rings
      BY DecBounds DEF DecInit, Rings
<1>4. Slots
      BY DecBounds, SymbolsDiffer DEF DecInit, Slots, DownEvent, Timed
<1> QED BY <1>1, <1>2, <1>3, <1>4 DEF DecType

\* What loop() collects is made of symbols.
LEMMA LetterTyped ==
  ASSUME Kept
  PROVE  /\ Letter \in Seq(Symbols) /\ Letter \o <<Space>> \in Seq(Symbols)
         /\ pat \in Seq(Symbols) /\ Decoded \in Seq(Symbols)
<1>1. pat \in Seq(Symbols)
      BY SymbolsDiffer, SeqMonotonic DEF Kept
<1>2. Letter \in Seq(Symbols)
      BY <1>1, SymbolsDiffer, AppendProperties, EmptySeq DEF Letter
<1>3. <<Space>> \in Seq(Symbols)
      BY SymbolsDiffer
<1> QED BY <1>1, <1>2, <1>3, ConcatProperties DEF Decoded, Kept

LEMMA KeptStep ==
  ASSUME DecType, [DecNext]_decVars
  PROVE  Kept'
<1> USE DEF DecType, Kept
<1>1. CASE KeyDown
  <2>1. now - upAt \in Int
        BY DEF Clocks
  <2>2. SilenceOf(now - upAt) \in Seq(Symbols) /\ <<>> \in Seq(Symbols)
        BY <2>1, SilenceSymbols
  <2>3. keyed' \in Seq(Symbols)
        BY <1>1, <2>2, ConcatProperties DEF KeyDown, Keys
  <2> QED BY <1>1, <2>3 DEF KeyDown, decoded
<1>2. CASE KeyUp
  <2>1. PICK m \in DitDah : keyed' = keyed \o <<m>>
        BY <1>2 DEF KeyUp, Keys
  <2>2. <<m>> \in Seq(Symbols)
        BY SymbolsDiffer
  <2>3. keyed' \in Seq(Symbols)
        BY <2>1, <2>2, ConcatProperties
  <2> QED BY <1>2, <2>3 DEF KeyUp, decoded
<1>3. CASE Publish \/ EndFall \/ EndReset \/ KeySilence \/ PublishSymbol
  BY <1>3 DEF Publish, EndFall, EndReset, KeySilence, PublishSymbol, decoded
<1>4. CASE WriteSymbol
  <2>1. PICK s \in DitDah \union {EndOfChar, Space} : keyed' = keyed \o <<s>>
        BY <1>4 DEF WriteSymbol, Keys
  <2>2. <<s>> \in Seq(Symbols)
        BY SymbolsDiffer
  <2>3. keyed' \in Seq(Symbols)
        BY <2>1, <2>2, ConcatProperties
  <2> QED BY <1>4, <2>3 DEF WriteSymbol, decoded
<1>5. CASE Poll
  BY <1>5 DEF Poll, Looping, decoded, key
<1>6. CASE Read
  <2> DEFINE e == rb[lp.tail]
  <2>1. keyed' = keyed /\ torn' = torn
        BY <1>6 DEF Read, Looping, key
  <2>2. CASE kind = "paddle"
    <3>1. TakeSymbol(e)
          BY <1>6, <2>2 DEF Read
    <3>2. pat' \in Seq(DitDah)
      <4> HIDE DEF e
      <4>1. CASE e \in DitDah
            BY <3>1, <4>1, AppendProperties DEF TakeSymbol
      <4>2. CASE e \notin DitDah
            BY <3>1, <4>2, EmptySeq DEF TakeSymbol
      <4> QED BY <4>1, <4>2
    <3>3. text' \in Seq(Symbols)
          BY <3>1, LetterTyped, ConcatProperties DEF TakeSymbol, Emit
    <3> QED BY <2>1, <3>2, <3>3
  <2>3. CASE kind # "paddle" /\ e.down
    <3>1. TakeDown(e)
          BY <1>6, <2>3 DEF Read
    <3>2. pat' \in Seq(DitDah)
          BY <3>1 DEF TakeDown
    <3>3. text' \in Seq(Symbols)
          BY <3>1, LetterTyped, ConcatProperties DEF TakeDown, Emit
    <3> QED BY <2>1, <3>2, <3>3
  <2>4. CASE kind # "paddle" /\ ~e.down
    <3>1. TakeUp(e)
          BY <1>6, <2>4 DEF Read
    <3>2. pat' \in Seq(DitDah)
      <4> HIDE DEF e
      <4>1. MarkFor(e.at - down) \in DitDah
            BY SymbolsDiffer DEF MarkFor
      <4>2. Append(pat, MarkFor(e.at - down)) \in Seq(DitDah)
            BY <4>1, AppendProperties
      <4>3. pat' = pat \/ pat' = Append(pat, MarkFor(e.at - down))
            BY <3>1 DEF TakeUp
      <4> QED BY <4>2, <4>3
    <3> QED BY <2>1, <3>1, <3>2 DEF TakeUp
  <2> QED BY <2>2, <2>3, <2>4
<1>7. CASE Timeout
  <2>1. \/ pat' = <<>> /\ text' = text \o Letter
        \/ pat' = pat /\ text' = text
        BY <1>7 DEF Timeout, Emit, decoded
  <2>0. text \o Letter \in Seq(Symbols) /\ <<>> \in Seq(DitDah)
        BY LetterTyped, ConcatProperties, EmptySeq
  <2>2. pat' \in Seq(DitDah) /\ text' \in Seq(Symbols)
        BY <2>0, <2>1
  <2> QED BY <1>7, <2>2 DEF Timeout, Looping, key
<1>8. CASE UNCHANGED decVars
  BY <1>8 DEF decVars, key, decoded
<1> QED BY <1>1, <1>2, <1>3, <1>4, <1>5, <1>6, <1>7, <1>8 DEF DecNext, Keying, Decoding

LEMMA ClocksStep ==
  ASSUME DecType, [DecNext]_decVars
  PROVE  Clocks'
<1> USE DEF DecType, Clocks
<1>1. CASE KeyDown \/ Publish \/ EndFall \/ EndReset \/ WriteSymbol \/ PublishSymbol
  BY <1>1 DEF KeyDown, Publish, EndFall, EndReset, WriteSymbol, PublishSymbol, straight
<1>2. CASE KeyUp
  <2>1. now' > now /\ now' \in Nat
        BY <1>2, SymbolsDiffer DEF KeyUp, LengthOf
  <2> QED BY <1>2, <2>1 DEF KeyUp, straight
<1>3. CASE KeySilence
  <2>1. now' >= now /\ now' \in Nat
        BY <1>3, DecBounds DEF KeySilence
  <2> QED BY <1>3, <2>1 DEF KeySilence, straight
<1>4. CASE Poll \/ Timeout
  BY <1>4 DEF Poll, Timeout, Looping, key, straight
<1>5. CASE Read
  <2> DEFINE e == rb[lp.tail]
  <2>1. now' = now /\ upAt' = upAt
        BY <1>5 DEF Read, Looping, key
  <2>2. CASE kind = "paddle"
    BY <1>5, <2>1, <2>2 DEF Read, TakeSymbol, straight
  <2>3. CASE kind # "paddle"
    <3>1. e.at \in 0 .. now
      <4>1. rb \in [0 .. R - 1 -> Timed] /\ lp.tail \in 0 .. R - 1 /\ \A i \in 0 .. R - 1 : rb[i].at <= now
            BY <2>3 DEF Rings, Slots
      <4>2. e \in Timed /\ e.at <= now
            BY <4>1
      <4> QED BY <4>2 DEF Timed
    <3> HIDE DEF e
    <3>2. CASE TakeDown(e)
          BY <2>1, <3>1, <3>2 DEF TakeDown
    <3>3. CASE TakeUp(e)
          BY <2>1, <3>1, <3>3 DEF TakeUp
    <3> QED BY <1>5, <2>3, <3>2, <3>3 DEF Read, e
  <2> QED BY <2>2, <2>3
<1>6. CASE UNCHANGED decVars
  BY <1>6 DEF decVars, key, straight
<1> QED BY <1>1, <1>2, <1>3, <1>4, <1>5, <1>6 DEF DecNext, Keying, Decoding

LEMMA RingsStep ==
  ASSUME DecType, [DecNext]_decVars
  PROVE  Rings'
<1> USE DEF DecType, Rings
<1>1. CASE KeyDown \/ KeyUp \/ WriteSymbol
  BY <1>1 DEF KeyDown, KeyUp, WriteSymbol, WriteData
<1>2. CASE Publish \/ PublishSymbol
  BY <1>2, NextPlace DEF Publish, PublishSymbol, MoveRbHead
<1>3. CASE EndFall \/ EndReset \/ KeySilence
  BY <1>3, DecBounds DEF EndFall, EndReset, KeySilence, events
<1>4. CASE Poll
  BY <1>4 DEF Poll, Looping, key, events
<1>5. CASE Read
  BY <1>5, NextPlace DEF Read, Looping, key
<1>6. CASE Timeout
  BY <1>6 DEF Timeout, Looping, key, events
<1>7. CASE UNCHANGED decVars
  BY <1>7 DEF decVars, key, events
<1> QED BY <1>1, <1>2, <1>3, <1>4, <1>5, <1>6, <1>7 DEF DecNext, Keying, Decoding

LEMMA SlotsStep ==
  ASSUME DecType, [DecNext]_decVars
  PROVE  Slots'
<1> USE DEF DecType, Slots
<1>1. CASE KeyDown
  <2>1. rb' = [rb EXCEPT ![rbHead] = [down |-> TRUE, at |-> now]] /\ kind' = "straight" /\ kind = "straight"
        BY <1>1 DEF KeyDown, Sampling, WriteData
  <2>2. [down |-> TRUE, at |-> now] \in Timed
        BY DEF Timed, Clocks
  <2> QED BY <1>1, <2>1, <2>2 DEF KeyDown, Rings, Clocks
<1>2. CASE KeyUp
  <2>1. /\ rb' = [rb EXCEPT ![rbHead] = [down |-> FALSE, at |-> now']] 
        /\ kind' = "straight" /\ kind = "straight"
        BY <1>2 DEF KeyUp, Sampling, WriteData
  <2>2. now' > now /\ now' \in Nat
        BY <1>2, SymbolsDiffer DEF KeyUp, LengthOf, Clocks
  <2>3. [down |-> FALSE, at |-> now'] \in Timed
        BY <2>2 DEF Timed
  <2>4. \A i \in 0 .. R - 1 : rb[i].at \in Nat
        BY <2>1 DEF Timed
  <2> QED BY <2>1, <2>2, <2>3, <2>4 DEF Rings, Clocks
<1>3. CASE WriteSymbol
  <2>1. PICK s \in Symbols : rb' = [rb EXCEPT ![rbHead] = s]
        BY <1>3, SymbolsDiffer DEF WriteSymbol, WriteData
  <2> QED BY <1>3, <2>1 DEF WriteSymbol, straight, Rings
<1>4. CASE Publish \/ PublishSymbol \/ EndFall \/ EndReset
  BY <1>4 DEF Publish, PublishSymbol, MoveRbHead, EndFall, EndReset, straight
<1>5. CASE KeySilence
  <2>1. now' >= now /\ now' \in Nat
        BY <1>5, DecBounds DEF KeySilence, Clocks
  <2>2. kind = "straight" => \A i \in 0 .. R - 1 : rb[i].at \in Nat
        BY DEF Timed
  <2> QED BY <1>5, <2>1, <2>2 DEF KeySilence, events, straight, Clocks
<1>6. CASE Poll \/ Timeout
  BY <1>6 DEF Poll, Timeout, Looping, key, events, straight
<1>7. CASE Read
  BY <1>7 DEF Read, Looping, key, TakeSymbol, straight
<1>8. CASE UNCHANGED decVars
  BY <1>8 DEF decVars, key, events, straight
<1> QED BY <1>1, <1>2, <1>3, <1>4, <1>5, <1>6, <1>7, <1>8 DEF DecNext, Keying, Decoding

LEMMA DecTypeAlways == DecSpec => []DecType
<1>1. DecType /\ [DecNext]_decVars => DecType'
      BY KeptStep, ClocksStep, RingsStep, SlotsStep DEF DecType
<1> QED BY <1>1, DecTypeInit, PTL DEF DecSpec

\* No index leaves the ring, and loop() knows of nothing that is yet to come.
THEOREM DecTypeCorrect == DecSpec => []DecTypeOK
<1>1. DecType => DecTypeOK
      BY DEF DecType, Kept, Clocks, Rings, DecTypeOK
<1> QED BY <1>1, DecTypeAlways, PTL

-----------------------------------------------------------------------------
(* The rank of a mark.                                                     *)

MarkPlaces(s, n) == {i \in 1 .. n : s[i] \in DitDah}

LEMMA MarksFacts ==
  ASSUME NEW s, NEW n \in Nat
  PROVE  /\ MarksAmong(s, n) \in Nat /\ MarksAmong(s, 0) = 0
         /\ MarksAmong(s, n + 1) = MarksAmong(s, n) + (IF s[n + 1] \in DitDah THEN 1 ELSE 0)
<1>1. \A m \in Nat : IsFiniteSet(MarkPlaces(s, m)) /\ MarksAmong(s, m) = Cardinality(MarkPlaces(s, m))
  <2> SUFFICES ASSUME NEW m \in Nat PROVE IsFiniteSet(MarkPlaces(s, m))
      BY DEF MarksAmong, MarkPlaces
  <2>1. IsFiniteSet(1 .. m) /\ MarkPlaces(s, m) \in SUBSET (1 .. m)
        BY FS_Interval DEF MarkPlaces
  <2> QED BY <2>1, FS_Subset
<1>2. MarkPlaces(s, 0) = {}
      BY DEF MarkPlaces
<1>3. CASE s[n + 1] \in DitDah
  <2>1. MarkPlaces(s, n + 1) = MarkPlaces(s, n) \union {n + 1} /\ n + 1 \notin MarkPlaces(s, n)
        BY <1>3 DEF MarkPlaces
  <2>2. Cardinality(MarkPlaces(s, n + 1)) = Cardinality(MarkPlaces(s, n)) + 1
        BY <1>1, <2>1, FS_AddElement
  <2> QED BY <1>1, <1>2, <1>3, <2>2, FS_EmptySet, FS_CardinalityType
<1>4. CASE s[n + 1] \notin DitDah
  <2>1. MarkPlaces(s, n + 1) = MarkPlaces(s, n)
        BY <1>4 DEF MarkPlaces
  <2>2. Cardinality(MarkPlaces(s, n)) \in Nat /\ n + 1 \in Nat
        BY <1>1, FS_CardinalityType
  <2> QED BY <1>1, <1>2, <1>4, <2>1, <2>2, FS_EmptySet
<1> QED BY <1>3, <1>4

LEMMA MarksGrow ==
  ASSUME NEW s, NEW i \in Nat, NEW j \in Nat, i <= j
  PROVE  MarksAmong(s, i) <= MarksAmong(s, j)
<1>1. MarkPlaces(s, i) \in SUBSET MarkPlaces(s, j)
      BY DEF MarkPlaces
<1>2. IsFiniteSet(1 .. j) /\ MarkPlaces(s, j) \in SUBSET (1 .. j)
      BY FS_Interval DEF MarkPlaces
<1>3. IsFiniteSet(MarkPlaces(s, j))
      BY <1>2, FS_Subset
<1> QED BY <1>1, <1>3, FS_Subset DEF MarksAmong, MarkPlaces

\* No two marks of a sequence have the same rank.
LEMMA MarksRank ==
  ASSUME NEW s, NEW i \in Nat, NEW j \in Nat, i < j, s[j] \in DitDah
  PROVE  MarksAmong(s, i) < MarksAmong(s, j)
<1> DEFINE k == j - 1
<1>1. k \in Nat /\ k + 1 = j /\ i <= k
      OBVIOUS
<1>2. MarksAmong(s, i) <= MarksAmong(s, k)
      BY <1>1, MarksGrow
<1>3. MarksAmong(s, j) = MarksAmong(s, k) + 1 /\ MarksAmong(s, k) \in Nat
  <2> HIDE DEF k
  <2>1. MarksAmong(s, k + 1) = MarksAmong(s, k) + (IF s[k + 1] \in DitDah THEN 1 ELSE 0)
        BY <1>1, MarksFacts
  <2> QED BY <1>1, <2>1, MarksFacts
<1> QED BY <1>2, <1>3, MarksFacts

LEMMA MarksSame ==
  ASSUME NEW s, NEW t, NEW n \in Nat, \A i \in 1 .. n : s[i] = t[i]
  PROVE  MarksAmong(s, n) = MarksAmong(t, n)
<1>1. MarkPlaces(s, n) = MarkPlaces(t, n)
      BY DEF MarkPlaces
<1> QED BY <1>1 DEF MarksAmong, MarkPlaces

LEMMA MarksAppend ==
  ASSUME NEW s \in Seq(Symbols), NEW x \in Symbols
  PROVE  /\ \A i \in 0 .. Len(s) : MarksAmong(Append(s, x), i) = MarksAmong(s, i)
         /\ MarksOf(Append(s, x)) = MarksOf(s) + (IF x \in DitDah THEN 1 ELSE 0)
         /\ MarksOf(s) \in Nat
         /\ Append(s, x) \in Seq(Symbols) /\ Len(Append(s, x)) = Len(s) + 1
         /\ \A i \in 1 .. Len(s) : Append(s, x)[i] = s[i]
         /\ Append(s, x)[Len(s) + 1] = x
         /\ MarksAmong(Append(s, x), Len(s) + 1) = MarksOf(s) + (IF x \in DitDah THEN 1 ELSE 0)
<1> DEFINE a == Append(s, x)
<1>1. /\ a \in Seq(Symbols) /\ Len(a) = Len(s) + 1 /\ Len(s) \in Nat /\ a[Len(s) + 1] = x
      /\ \A i \in 1 .. Len(s) : a[i] = s[i]
      BY AppendProperties
<1> HIDE DEF a
<1>2. \A i \in 0 .. Len(s) : MarksAmong(a, i) = MarksAmong(s, i)
  <2> SUFFICES ASSUME NEW i \in 0 .. Len(s) PROVE MarksAmong(a, i) = MarksAmong(s, i)
      OBVIOUS
  <2>1. i \in Nat /\ \A j \in 1 .. i : a[j] = s[j]
        BY <1>1
  <2> QED BY <2>1, MarksSame
<1>3. MarksAmong(a, Len(s) + 1) = MarksAmong(a, Len(s)) + (IF a[Len(s) + 1] \in DitDah THEN 1 ELSE 0)
      BY <1>1, MarksFacts
<1>4. MarksAmong(a, Len(s)) = MarksOf(s) /\ MarksOf(s) \in Nat
  <2>1. Len(s) \in 0 .. Len(s) /\ Len(s) \in Nat
        BY <1>1
  <2> QED BY <1>2, <2>1, MarksFacts DEF MarksOf
<1>5. MarksOf(a) = MarksOf(s) + (IF x \in DitDah THEN 1 ELSE 0)
      BY <1>1, <1>3, <1>4 DEF MarksOf
<1> QED BY <1>1, <1>2, <1>3, <1>4, <1>5 DEF a

LEMMA MarksNotAbove ==
  ASSUME NEW s \in Seq(Symbols), NEW i \in 1 .. Len(s)
  PROVE  MarksAmong(s, i) <= MarksOf(s) /\ MarksAmong(s, i) \in Nat /\ MarksOf(s) \in Nat
<1>1. i \in Nat /\ Len(s) \in Nat /\ i <= Len(s)
      BY LenProperties
<1> QED BY <1>1, MarksGrow, MarksFacts DEF MarksOf

\* loop() may end a letter or a word.
LEMMA AgreeEnd ==
  ASSUME NEW s \in Seq(Symbols), NEW t \in Seq(Symbols), NEW x \in Symbols,
         x \notin DitDah, MarksAgree(s, t)
  PROVE  MarksAgree(Append(s, x), t)
<1> DEFINE a == Append(s, x)
<1>1. /\ Len(a) = Len(s) + 1 /\ Len(s) \in Nat /\ a[Len(s) + 1] = x
      /\ \A i \in 1 .. Len(s) : a[i] = s[i] /\ MarksAmong(a, i) = MarksAmong(s, i)
      BY MarksAppend, LenProperties
<1> HIDE DEF a
<1>2. ASSUME NEW i \in 1 .. Len(a), NEW j \in 1 .. Len(t),
             a[i] \in DitDah, t[j] \in DitDah, MarksAmong(a, i) = MarksAmong(t, j)
      PROVE  a[i] = t[j]
  <2>1. i \in 1 .. Len(s)
        BY <1>1, <1>2
  <2> QED BY <1>1, <1>2, <2>1 DEF MarksAgree
<1> QED BY <1>2 DEF MarksAgree, a

\* What is keyed next has a rank of its own, unless loop() was ahead.
LEMMA AgreeNext ==
  ASSUME NEW s \in Seq(Symbols), NEW t \in Seq(Symbols), NEW x \in Symbols,
         MarksAgree(s, t), x \in DitDah => MarksOf(s) <= MarksOf(t)
  PROVE  MarksAgree(s, Append(t, x))
<1> DEFINE a == Append(t, x)
<1>1. /\ Len(a) = Len(t) + 1 /\ Len(t) \in Nat /\ a[Len(t) + 1] = x
      /\ \A j \in 1 .. Len(t) : a[j] = t[j] /\ MarksAmong(a, j) = MarksAmong(t, j)
      /\ x \in DitDah => MarksAmong(a, Len(t) + 1) = MarksOf(t) + 1
      /\ MarksOf(t) \in Nat
      BY MarksAppend, LenProperties
<1> HIDE DEF a
<1>2. ASSUME NEW i \in 1 .. Len(s), NEW j \in 1 .. Len(a),
             s[i] \in DitDah, a[j] \in DitDah, MarksAmong(s, i) = MarksAmong(a, j)
      PROVE  s[i] = a[j]
  <2>1. CASE j = Len(t) + 1
    <3>1. MarksAmong(s, i) = MarksOf(t) + 1 /\ MarksOf(s) <= MarksOf(t)
          BY <1>1, <1>2, <2>1
    <3>2. MarksAmong(s, i) <= MarksOf(s) /\ MarksAmong(s, i) \in Nat /\ MarksOf(s) \in Nat
          BY MarksNotAbove
    <3> QED BY <1>1, <3>1, <3>2
  <2>2. CASE j \in 1 .. Len(t)
        BY <1>1, <1>2, <2>2 DEF MarksAgree
  <2> QED BY <1>1, <2>1, <2>2
<1> QED BY <1>2 DEF MarksAgree, a

\* The mark that loop() lacked is the last that was keyed.
LEMMA AgreeMark ==
  ASSUME NEW s \in Seq(Symbols), NEW t \in Seq(Symbols), NEW x \in DitDah,
         MarksAgree(s, t), MarksOf(t) = MarksOf(s) + 1, t # <<>>, t[Len(t)] = x
  PROVE  MarksAgree(Append(s, x), t)
<1> DEFINE a == Append(s, x)
<1>0. x \in Symbols /\ x \in DitDah
      BY SymbolsDiffer
<1>1. /\ Len(a) = Len(s) + 1 /\ Len(s) \in Nat /\ a[Len(s) + 1] = x
      /\ \A i \in 1 .. Len(s) : a[i] = s[i] /\ MarksAmong(a, i) = MarksAmong(s, i)
      /\ MarksAmong(a, Len(s) + 1) = MarksOf(s) + 1
      BY <1>0, MarksAppend, LenProperties
<1> HIDE DEF a
<1>2. ASSUME NEW i \in 1 .. Len(a), NEW j \in 1 .. Len(t),
             a[i] \in DitDah, t[j] \in DitDah, MarksAmong(a, i) = MarksAmong(t, j)
      PROVE  a[i] = t[j]
  <2>1. CASE i = Len(s) + 1
    <3>1. MarksAmong(t, j) = MarksOf(t)
          BY <1>1, <1>2, <2>1
    <3>2. j \in Nat /\ Len(t) \in Nat /\ j <= Len(t)
          BY LenProperties
    <3>3. j = Len(t)
      <4>1. j < Len(t) => MarksAmong(t, j) < MarksAmong(t, Len(t))
            BY <3>2, MarksRank
      <4>2. MarksAmong(t, j) \in Nat
            BY <3>2, MarksFacts
      <4> QED BY <3>1, <3>2, <4>1, <4>2 DEF MarksOf
    <3> QED BY <1>1, <2>1, <3>3
  <2>2. CASE i \in 1 .. Len(s)
        BY <1>1, <1>2, <2>2 DEF MarksAgree
  <2> QED BY <1>1, <2>1, <2>2
<1> QED BY <1>2 DEF MarksAgree, a

\* A beginning has the marks of the whole, in their ranks.
LEMMA BeginningAgrees ==
  ASSUME NEW s \in Seq(Symbols), NEW t \in Seq(Symbols), Begins(s, t)
  PROVE  MarksAgree(s, t) /\ MarksOf(s) <= MarksOf(t)
<1>1. Len(s) \in Nat /\ Len(t) \in Nat /\ Len(s) <= Len(t) /\ \A i \in 1 .. Len(s) : s[i] = t[i]
      BY LenProperties DEF Begins
<1>2. ASSUME NEW i \in 1 .. Len(s) PROVE MarksAmong(s, i) = MarksAmong(t, i)
  <2>1. i \in Nat /\ \A k \in 1 .. i : s[k] = t[k]
        BY <1>1
  <2> QED BY <2>1, MarksSame
<1>3. ASSUME NEW i \in 1 .. Len(s), NEW j \in 1 .. Len(t),
             s[i] \in DitDah, t[j] \in DitDah, MarksAmong(s, i) = MarksAmong(t, j)
      PROVE  s[i] = t[j]
  <2>1. MarksAmong(t, i) = MarksAmong(t, j) /\ t[i] \in DitDah /\ s[i] = t[i]
        BY <1>1, <1>2, <1>3
  <2>2. i \in Nat /\ j \in Nat /\ MarksAmong(t, i) \in Nat
        BY <1>1, MarksFacts
  <2>3. ~(i < j) /\ ~(j < i)
        BY <1>3, <2>1, <2>2, MarksRank
  <2> QED BY <2>1, <2>2, <2>3
<1>4. MarksOf(s) <= MarksOf(t)
  <2>1. MarksAmong(s, Len(s)) = MarksAmong(t, Len(s))
        BY <1>1, MarksSame
  <2> QED BY <1>1, <2>1, MarksGrow DEF MarksOf
<1> QED BY <1>3, <1>4 DEF MarksAgree

-----------------------------------------------------------------------------
(* What loop() does to the text.                                           *)

\* The text when the letter has ended.
Ended == IF pat = <<>> THEN Decoded ELSE Append(Decoded, EndOfChar)

LEMMA LetterEnds ==
  ASSUME Kept
  PROVE  /\ text \o Letter = Ended /\ Ended \in Seq(Symbols)
         /\ text \o (Letter \o <<Space>>) = Append(Ended, Space)
         /\ \A m \in DitDah : text \o Append(pat, m) = Append(Decoded, m)
         /\ Decoded \in Seq(Symbols) /\ Decoded \o <<>> = Decoded
<1>1. /\ text \in Seq(Symbols) /\ pat \in Seq(Symbols) /\ Decoded \in Seq(Symbols)
      /\ Letter \in Seq(Symbols)
      BY LetterTyped DEF Kept
<1>2. \A x \in Symbols : <<x>> \in Seq(Symbols)
      OBVIOUS
<1>3. \A x \in Symbols : text \o Append(pat, x) = Append(Decoded, x)
  <2> SUFFICES ASSUME NEW x \in Symbols PROVE text \o Append(pat, x) = Append(Decoded, x)
      OBVIOUS
  <2>1. Append(pat, x) = pat \o <<x>> /\ Append(Decoded, x) = Decoded \o <<x>>
        BY <1>1, AppendIsConcat
  <2>2. (text \o pat) \o <<x>> = text \o (pat \o <<x>>)
        BY <1>1, <1>2, ConcatAssociative
  <2> QED BY <2>1, <2>2 DEF Decoded
<1>4. text \o Letter = Ended
  <2>1. CASE pat = <<>>
    <3>1. Letter = <<>>
          BY <2>1 DEF Letter
    <3> QED BY <2>1, <3>1 DEF Ended, Decoded
  <2>2. CASE pat # <<>>
    <3>1. Letter = Append(pat, EndOfChar)
          BY <2>2 DEF Letter
    <3> QED BY <1>3, <2>2, <3>1, SymbolsDiffer DEF Ended
  <2> QED BY <2>1, <2>2
<1>5. Ended \in Seq(Symbols)
  <2>1. Append(Decoded, EndOfChar) \in Seq(Symbols)
        BY <1>1, SymbolsDiffer, AppendProperties
  <2> QED BY <1>1, <2>1 DEF Ended
<1>6. text \o (Letter \o <<Space>>) = Append(Ended, Space)
  <2>1. (text \o Letter) \o <<Space>> = text \o (Letter \o <<Space>>)
        BY <1>1, <1>2, SymbolsDiffer, ConcatAssociative
  <2>2. Append(Ended, Space) = Ended \o <<Space>>
        BY <1>5, SymbolsDiffer, AppendIsConcat
  <2> QED BY <1>4, <2>1, <2>2
<1> QED BY <1>1, <1>3, <1>4, <1>5, <1>6, SymbolsDiffer, ConcatEmptySeq

LEMMA TimeoutText ==
  ASSUME DecType, Timeout
  PROVE  /\ TimedOut => Decoded' = Ended /\ pat' = <<>> /\ timeout' = 0
         /\ ~TimedOut => Decoded' = Decoded /\ pat' = pat /\ timeout' = timeout
<1>1. CASE TimedOut
  <2>1. text' = text \o Letter /\ pat' = <<>> /\ timeout' = 0
        BY <1>1 DEF Timeout, Emit
  <2>2. text' = Ended /\ Ended \o <<>> = Ended
        BY <2>1, LetterEnds, ConcatEmptySeq DEF DecType
  <2> QED BY <1>1, <2>1, <2>2 DEF Decoded
<1>2. CASE ~TimedOut
      BY <1>2 DEF Timeout, decoded, Decoded
<1> QED BY <1>1, <1>2

LEMMA DownText ==
  ASSUME DecType, NEW e, e.at \in Nat, TakeDown(e),
         NEW silent, silent = IF up > 0 THEN e.at - up ELSE 0
  PROVE  /\ silent > 5 => Decoded' = Append(Ended, Space) /\ pat' = <<>>
         /\ silent > 2 /\ ~(silent > 5) => Decoded' = Ended /\ pat' = <<>>
         /\ ~(silent > 2) => Decoded' = Decoded /\ pat' = pat
         /\ down' = e.at /\ up' = 0
<1> USE DEF DecType
<1>0. silent \in Int
      BY DEF Clocks
<1>1. down' = e.at /\ up' = 0
      BY DEF TakeDown
<1>2. CASE silent > 5
  <2>1. silent > 2
        BY <1>0, <1>2
  <2>2. text' = text \o (Letter \o <<Space>>) /\ pat' = <<>>
        BY <1>2, <2>1 DEF TakeDown, Emit
  <2>3. text' = Append(Ended, Space) /\ Append(Ended, Space) \in Seq(Symbols)
        BY <2>2, LetterEnds, SymbolsDiffer, AppendProperties
  <2>4. text' \o <<>> = text'
        BY <2>3, ConcatEmptySeq
  <2> QED BY <1>1, <1>2, <2>1, <2>2, <2>3, <2>4 DEF Decoded
<1>3. CASE silent > 2 /\ ~(silent > 5)
  <2>2. text' = text \o Letter /\ pat' = <<>>
        BY <1>3 DEF TakeDown, Emit
  <2>3. text' = Ended /\ Ended \in Seq(Symbols)
        BY <2>2, LetterEnds
  <2>4. text' \o <<>> = text'
        BY <2>3, ConcatEmptySeq
  <2> QED BY <1>1, <1>3, <2>2, <2>3, <2>4 DEF Decoded
<1>4. CASE ~(silent > 2)
  <2>1. text' = text /\ pat' = pat /\ ~(silent > 5)
        BY <1>0, <1>4 DEF TakeDown
  <2> QED BY <1>1, <1>4, <2>1 DEF Decoded
<1> QED BY <1>2, <1>3, <1>4

LEMMA UpText ==
  ASSUME DecType, NEW e, TakeUp(e), down > 0
  PROVE  /\ Decoded' = Append(Decoded, MarkFor(e.at - down))
         /\ pat' = Append(pat, MarkFor(e.at - down))
         /\ up' = e.at /\ timeout' = e.at + 5 /\ down' = down
<1>1. MarkFor(e.at - down) \in DitDah
      BY SymbolsDiffer DEF MarkFor
<1>2. /\ pat' = Append(pat, MarkFor(e.at - down)) /\ text' = text
      /\ up' = e.at /\ timeout' = e.at + 5 /\ down' = down
      BY DEF TakeUp
<1> QED BY <1>1, <1>2, LetterEnds DEF DecType, Decoded

LEMMA SymbolText ==
  ASSUME DecType, NEW s \in Symbols, TakeSymbol(s)
  PROVE  /\ s \in DitDah => Decoded' = Append(Decoded, s) /\ text' = text
         /\ s = EndOfChar => Decoded' = Ended /\ text' = Decoded'
         /\ s = Space => Decoded' = Append(Ended, Space) /\ text' = Decoded'
<1> USE DEF DecType
<1>1. CASE s \in DitDah
  <2>1. pat' = Append(pat, s) /\ text' = text
        BY <1>1 DEF TakeSymbol
  <2> QED BY <1>1, <2>1, LetterEnds, SymbolsDiffer DEF Decoded
<1>2. CASE s = EndOfChar
  <2>2. text' = text \o Letter /\ pat' = <<>>
        BY <1>2, SymbolsDiffer DEF TakeSymbol, Emit
  <2>3. text' = Ended /\ Ended \in Seq(Symbols)
        BY <2>2, LetterEnds
  <2>4. text' \o <<>> = text'
        BY <2>3, ConcatEmptySeq
  <2> QED BY <1>2, <2>2, <2>3, <2>4, SymbolsDiffer DEF Decoded
<1>3. CASE s = Space
  <2>2. text' = text \o (Letter \o <<Space>>) /\ pat' = <<>>
        BY <1>3, SymbolsDiffer DEF TakeSymbol, Emit
  <2>3. text' = Append(Ended, Space) /\ Append(Ended, Space) \in Seq(Symbols)
        BY <2>2, LetterEnds, SymbolsDiffer, AppendProperties
  <2>4. text' \o <<>> = text'
        BY <2>3, ConcatEmptySeq
  <2> QED BY <1>3, <2>2, <2>3, <2>4, SymbolsDiffer DEF Decoded
<1> QED BY <1>1, <1>2, <1>3, SymbolsDiffer DEF Symbols

-----------------------------------------------------------------------------
(* The ring of the straight key, step by step.                             *)

LEMMA LengthMark ==
  ASSUME NEW m \in DitDah
  PROVE  LengthOf[m] \in {1, 3} /\ MarkFor(LengthOf[m]) = m
BY SymbolsDiffer DEF LengthOf, MarkFor

\* A step of loop() leaves the key as it is, a step of the key loop().
LEMMA SidesApart ==
  ASSUME [DecNext]_decVars
  PROVE  /\ Decoding \/ UNCHANGED decVars => UNCHANGED <<kind, st, now, upAt, keyed, rb, rbHead>>
         /\ Keying => UNCHANGED <<kind, lp, down, up, timeout, pat, text, torn>>
<1>1. Decoding => UNCHANGED <<kind, st, now, upAt, keyed, rb, rbHead>>
      BY DEF Decoding, Poll, Read, Timeout, Looping, key, events
<1>2. Keying => UNCHANGED <<kind, lp, down, up, timeout, pat, text, torn>>
      BY DEF Keying, KeyDown, KeyUp, Publish, EndFall, EndReset, KeySilence, WriteSymbol,
             PublishSymbol, Sampling, straight, decoded
<1> QED BY <1>1, <1>2 DEF decVars, key, events

LEMMA PlacesStep ==
  ASSUME DecType, StraightInv, kind = "straight", [DecNext]_decVars
  PROVE  Places' /\ st' \in {"ready", "down", "hold", "up", "fall", "zero", "idle"}
<1> USE DEF StraightInv, Places
<1>1. CASE KeyDown \/ KeyUp
      BY <1>1 DEF KeyDown, KeyUp, Sampling, WriteData
<1>2. CASE Publish
  <2>1. rbHead' = (rbHead + 1) % R /\ rbHead \in 0 .. R - 1
        BY <1>2 DEF Publish, MoveRbHead, DecType, Rings
  <2>2. /\ (st = "down" /\ st' = "hold") \/ (st = "up" /\ st' = "fall")
        BY <1>2 DEF Publish, Sampling
  <2>3. rbHead' = rbHead + 1
        BY <2>1, <2>2, NextPlace, DecBounds
  <2> QED BY <2>2, <2>3
<1>3. CASE EndFall \/ EndReset \/ KeySilence
      BY <1>3 DEF EndFall, EndReset, KeySilence, Sampling, events
<1>4. CASE WriteSymbol \/ PublishSymbol
      BY <1>4 DEF WriteSymbol, PublishSymbol
<1>5. CASE Decoding \/ UNCHANGED decVars
      BY <1>5, SidesApart
<1> QED BY <1>1, <1>2, <1>3, <1>4, <1>5 DEF DecNext, Keying

LEMMA EventsStep ==
  ASSUME DecType, StraightInv, kind = "straight", [DecNext]_decVars
  PROVE  Events'
<1> USE DEF StraightInv, Events
<1>0. rb \in [0 .. R - 1 -> Timed] /\ 0 \in 0 .. R - 1 /\ 1 \in 0 .. R - 1 /\ now \in Nat \ {0}
      BY DecBounds DEF DecType, Slots, Clocks
<1>1. CASE KeyDown
  <2>1. /\ st = "ready" /\ st' = "down" /\ now' = now /\ rbHead = 0
        /\ rb' = [rb EXCEPT ![0] = [down |-> TRUE, at |-> now]]
        BY <1>1 DEF KeyDown, Sampling, WriteData, Places
  <2>2. rb'[0] = [down |-> TRUE, at |-> now] /\ \A i \in 2 .. R - 1 : rb'[i] = rb[i]
        BY <1>0, <2>1
  <2> QED BY <1>0, <2>1, <2>2
<1>2. CASE KeyUp
  <2>1. PICK m \in DitDah : /\ now' = now + LengthOf[m] /\ keyed' = keyed \o <<m>>
                            /\ rb' = [rb EXCEPT ![rbHead] = [down |-> FALSE, at |-> now']]
        BY <1>2 DEF KeyUp, WriteData, Keys
  <2>2. st = "hold" /\ st' = "up" /\ rbHead = 1 /\ upAt' = now'
        BY <1>2 DEF KeyUp, Sampling, Places
  <2>3. /\ rb'[1] = [down |-> FALSE, at |-> now'] /\ rb'[0] = rb[0]
        /\ \A i \in 2 .. R - 1 : rb'[i] = rb[i]
        BY <1>0, <2>1, <2>2
  <2>4. keyed' = Append(keyed, m) /\ keyed' # <<>> /\ keyed'[Len(keyed')] = m
    <3>1. m \in Symbols /\ keyed \in Seq(Symbols)
          BY SymbolsDiffer DEF DecType, Kept
    <3>2. keyed' = Append(keyed, m)
          BY <2>1, <3>1, AppendIsConcat
    <3> QED BY <3>1, <3>2, AppendProperties
  <2>5. now' - rb[0].at = LengthOf[m]
        BY <1>0, <2>1, <2>2, LengthMark
  <2> QED BY <2>2, <2>3, <2>4, <2>5
<1>3. CASE Publish
      BY <1>3 DEF Publish, Sampling, MoveRbHead
<1>4. CASE EndFall \/ EndReset \/ KeySilence
      BY <1>4 DEF EndFall, EndReset, KeySilence, Sampling, events
<1>5. CASE WriteSymbol \/ PublishSymbol
      BY <1>5 DEF WriteSymbol, PublishSymbol
<1>6. CASE Decoding \/ UNCHANGED decVars
      BY <1>6, SidesApart
<1> QED BY <1>1, <1>2, <1>3, <1>4, <1>5, <1>6 DEF DecNext, Keying

\* What loop() reads of the straight key.
LEMMA ReadStraight ==
  ASSUME DecType, StraightInv, kind = "straight", Read
  PROVE  /\ lp.pc = "read" /\ lp.tail \in 0 .. R - 1
         /\ lp'.pc = "poll" /\ rbTail' = IF lp.tail = R - 1 THEN 0 ELSE lp.tail + 1
         /\ rb[lp.tail] \in Timed
         /\ lp.tail = 0 => st \in {"hold", "up", "fall"} /\ rb[lp.tail].down /\ TakeDown(rb[0])
         /\ lp.tail = 1 => /\ st = "fall" /\ down = rb[0].at /\ down > 0 /\ TakeUp(rb[1])
                           /\ rb[1].at = now
         /\ lp.tail >= 2 => TakeDown(DownEvent)
<1>1. /\ lp.pc = "read" /\ lp.tail \in 0 .. R - 1 /\ rb \in [0 .. R - 1 -> Timed]
      /\ rbTail' = (lp.tail + 1) % R /\ lp'.pc = "poll"
      /\ IF rb[lp.tail].down THEN TakeDown(rb[lp.tail]) ELSE TakeUp(rb[lp.tail])
      BY DEF Read, Looping, DecType, Rings, Slots
<1>a. rbTail' = IF lp.tail = R - 1 THEN 0 ELSE lp.tail + 1
      BY <1>1, NextPlace
<1>b. 0 \in 0 .. R - 1 /\ 1 \in 0 .. R - 1 /\ R \in Nat
      BY DecBounds
<1>2. CASE lp.tail = 0
  <2>1. st \in {"hold", "up", "fall"}
        BY <1>1, <1>2 DEF StraightInv, Cursors, Cursor
  <2>2. rb[0].down
        BY <2>1 DEF StraightInv, Events
  <2> QED BY <1>1, <1>2, <1>a, <1>b, <2>1, <2>2
<1>3. CASE lp.tail = 1
  <2>1. st = "fall" /\ down = rb[0].at
        BY <1>1, <1>3 DEF StraightInv, Cursors, Cursor
  <2>2. rb[0].at > 0 /\ ~rb[1].down /\ rb[1].at = now
        BY <2>1 DEF StraightInv, Events
  <2> QED BY <1>1, <1>3, <1>a, <1>b, <2>1, <2>2
<1>4. CASE lp.tail >= 2
  <2>1. rb[lp.tail] = DownEvent /\ DownEvent.down
        BY <1>1, <1>4 DEF StraightInv, Events, DownEvent
  <2> QED BY <1>1, <1>4, <1>a, <1>b, <2>1
<1>5. lp.tail = 0 \/ lp.tail = 1 \/ lp.tail >= 2
      BY <1>1, <1>b
<1> QED BY <1>2, <1>3, <1>4, <1>5

LEMMA CursorsStep ==
  ASSUME DecType, StraightInv, kind = "straight", [DecNext]_decVars
  PROVE  Cursors'
<1> DEFINE c == Cursor
<1>0. /\ c \in 0 .. R - 1 /\ rbTail \in 0 .. R - 1 /\ R \in Nat \ {0, 1, 2}
      /\ lp.pc \in {"poll", "read", "time"}
      BY DecBounds DEF DecType, Rings, Cursor
<1>1. CASE KeyDown
  <2>1. st = "ready" /\ st' = "down" /\ lp' = lp /\ rbTail' = rbTail /\ down' = down
        BY <1>1 DEF KeyDown, Sampling, WriteData, straight
  <2> QED BY <2>1 DEF StraightInv, Cursors, Cursor
<1>2. CASE KeyUp
  <2>1. /\ st = "hold" /\ st' = "up" /\ lp' = lp /\ rbTail' = rbTail /\ down' = down /\ lp.pc # "time"
        BY <1>2 DEF KeyUp, Sampling, WriteData, straight
  <2>2. rb'[0] = rb[0]
    <3>1. rb \in [0 .. R - 1 -> Timed] /\ rbHead = 1 /\ 0 \in 0 .. R - 1
          BY <2>1, DecBounds DEF DecType, Slots, StraightInv, Places
    <3> QED BY <1>2, <3>1 DEF KeyUp, WriteData
  <2> QED BY <2>1, <2>2 DEF StraightInv, Cursors, Cursor
<1>3. CASE Publish
  <2>1. /\ (st = "down" /\ st' = "hold") \/ (st = "up" /\ st' = "fall")
        /\ lp' = lp /\ rbTail' = rbTail /\ down' = down /\ rb' = rb
        BY <1>3 DEF Publish, Sampling, MoveRbHead, straight
  <2> QED BY <2>1 DEF StraightInv, Cursors, Cursor
<1>4. CASE EndFall
  <2>1. /\ st = "fall" /\ st' = "zero" /\ lp' = lp /\ rbTail' = rbTail /\ rb' = rb /\ down' = down
        /\ rbTail = rbHead /\ rbHead = 2 /\ lp.pc # "read"
        BY <1>4 DEF EndFall, Sampling, straight, Drained, StraightInv, Places
  <2> QED BY <2>1 DEF StraightInv, Cursors, Cursor
<1>5. CASE EndReset
  <2>1. st = "zero" /\ st' = "idle" /\ lp' = lp /\ rbTail' = 0 /\ rb' = rb /\ down' = down
        BY <1>5 DEF EndReset, Sampling, straight
  <2>2. lp.pc = "read" => lp.tail \in 2 .. R - 1
        BY <1>0, <2>1 DEF StraightInv, Cursors, Cursor
  <2> QED BY <2>1, <2>2 DEF StraightInv, Cursors, Cursor
<1>6. CASE KeySilence
  <2>1. st = "idle" /\ st' = "ready" /\ lp' = lp /\ rbTail' = rbTail /\ rb' = rb /\ down' = down
        BY <1>6 DEF KeySilence, Sampling, straight, events
  <2> QED BY <2>1 DEF StraightInv, Cursors, Cursor
<1>7. CASE WriteSymbol \/ PublishSymbol
      BY <1>7 DEF WriteSymbol, PublishSymbol
<1>8. CASE Poll
  <2>1. /\ lp.pc = "poll" /\ st' = st /\ rb' = rb /\ down' = down /\ rbTail' = rbTail
        /\ lp'.tail = rbTail
        /\ lp'.pc = IF rbHead # rbTail THEN "read" ELSE "time"
        BY <1>8 DEF Poll, Looping, key, events, straight
  <2>2. Cursor = rbTail /\ Cursor' = rbTail
        BY <2>1 DEF Cursor
  <2> QED BY <1>0, <2>1, <2>2 DEF StraightInv, Cursors, Places
<1>9. CASE Read
  <2>1. /\ lp'.pc = "poll" /\ rbTail' = IF lp.tail = R - 1 THEN 0 ELSE lp.tail + 1
        /\ lp.pc = "read" /\ lp.tail \in 0 .. R - 1
        /\ lp.tail = 0 => st \in {"hold", "up", "fall"} /\ TakeDown(rb[0])
        /\ lp.tail = 1 => st = "fall"
        BY <1>9, ReadStraight
  <2>2. Cursor = lp.tail /\ Cursor' = rbTail' /\ st' = st /\ rb' = rb
        BY <1>9, <2>1 DEF Cursor, Read, Looping, key
  <2>3. lp.tail = 0 => down' = rb[0].at
        BY <2>1 DEF TakeDown
  <2> QED BY <1>0, <2>1, <2>2, <2>3 DEF StraightInv, Cursors
<1>10. CASE Timeout
  <2>1. /\ lp.pc = "time" /\ lp'.pc = "poll" /\ rbTail' = rbTail /\ rb' = rb /\ st' = st /\ down' = down
        BY <1>10 DEF Timeout, Looping, key, events
  <2> QED BY <2>1 DEF StraightInv, Cursors, Cursor
<1>11. CASE UNCHANGED decVars
      BY <1>11 DEF decVars, key, events, straight, StraightInv, Cursors, Cursor
<1> QED BY <1>1, <1>2, <1>3, <1>4, <1>5, <1>6, <1>7, <1>8, <1>9, <1>10, <1>11
        DEF DecNext, Keying, Decoding

LEMMA StraightAlways == DecSpec => []StraightInv
<1>1. DecInit => StraightInv
  <2> SUFFICES ASSUME DecInit, kind = "straight" PROVE StraightInv
      BY DEF StraightInv
  <2>1. /\ st = "ready" /\ rbHead = 0 /\ rbTail = 0 /\ lp.pc = "poll"
        /\ \A i \in 0 .. R - 1 : rb[i] = DownEvent
        BY DEF DecInit
  <2> QED BY <2>1, DecBounds DEF StraightInv, Places, Cursors, Cursor, Events
<1>2. DecType /\ StraightInv /\ [DecNext]_decVars => StraightInv'
  <2> SUFFICES ASSUME DecType, StraightInv, [DecNext]_decVars, kind' = "straight"
               PROVE  StraightInv'
      BY DEF StraightInv
  <2>1. kind = "straight"
        BY SidesApart DEF DecNext
  <2> QED BY <2>1, PlacesStep, EventsStep, CursorsStep DEF StraightInv
<1> QED BY <1>1, <1>2, DecTypeAlways, PTL DEF DecSpec

-----------------------------------------------------------------------------
(* The marks of the straight key.                                          *)

\* To end a letter or a word adds no mark, on either side.
LEMMA EndedAgrees ==
  ASSUME Kept, NEW t \in Seq(Symbols), MarksAgree(Decoded, t)
  PROVE  /\ MarksAgree(Ended, t) /\ MarksOf(Ended) = MarksOf(Decoded)
         /\ MarksAgree(Append(Ended, Space), t)
         /\ MarksOf(Append(Ended, Space)) = MarksOf(Decoded)
<1>1. Decoded \in Seq(Symbols) /\ Ended \in Seq(Symbols)
      BY LetterEnds
<1>2. MarksAgree(Append(Decoded, EndOfChar), t) /\ MarksOf(Append(Decoded, EndOfChar)) = MarksOf(Decoded)
      BY <1>1, SymbolsDiffer, AgreeEnd, MarksAppend
<1>3. MarksAgree(Ended, t) /\ MarksOf(Ended) = MarksOf(Decoded)
      BY <1>2 DEF Ended
<1>4. MarksAgree(Append(Ended, Space), t) /\ MarksOf(Append(Ended, Space)) = MarksOf(Ended)
      BY <1>1, <1>3, SymbolsDiffer, AgreeEnd, MarksAppend
<1> QED BY <1>3, <1>4

LEMMA PairJoins ==
  ASSUME NEW x \in Symbols, NEW y \in Symbols
  PROVE  <<x>> \o <<y>> = <<x, y>>
<1> DEFINE a == <<x>>
           b == <<y>>
           c == <<x, y>>
<1>1. /\ a \in Seq(Symbols) /\ b \in Seq(Symbols) /\ c \in Seq(Symbols)
      /\ Len(a) = 1 /\ Len(b) = 1 /\ Len(c) = 2
      /\ a[1] = x /\ b[1] = y /\ c[1] = x /\ c[2] = y
      OBVIOUS
<1> HIDE DEF a, b, c
<1>2. a \o b \in Seq(Symbols) /\ Len(a \o b) = 2 /\ (a \o b)[1] = x /\ (a \o b)[2] = y
  <2>1. /\ a \o b \in Seq(Symbols) /\ Len(a \o b) = Len(a) + Len(b)
        /\ \A i \in 1 .. Len(a) + Len(b) : (a \o b)[i] = IF i <= Len(a) THEN a[i] ELSE b[i - Len(a)]
        BY <1>1, ConcatProperties
  <2> QED BY <1>1, <2>1
<1>3. \A i \in 1 .. 2 : (a \o b)[i] = c[i]
      BY <1>1, <1>2
<1>4. a \o b = c
      BY <1>1, <1>2, <1>3, SeqEqual
<1> QED BY <1>4 DEF a, b, c

LEMMA SilenceJoins ==
  ASSUME NEW t \in Seq(Symbols), NEW g \in Int
  PROVE  /\ g > 5 => t \o SilenceOf(g) = Append(Append(t, EndOfChar), Space)
         /\ ~(g > 5) /\ g > 2 => t \o SilenceOf(g) = Append(t, EndOfChar)
         /\ ~(g > 2) => t \o SilenceOf(g) = t
<1> DEFINE a == Append(t, EndOfChar)
           b == Append(a, Space)
<1>1. a \in Seq(Symbols) /\ t \o <<EndOfChar>> = a
      BY SymbolsDiffer, AppendProperties, AppendIsConcat
<1>2. <<EndOfChar>> \in Seq(Symbols) /\ <<Space>> \in Seq(Symbols)
      BY SymbolsDiffer
<1>3. t \o <<EndOfChar, Space>> = b
  <2>1. b = a \o <<Space>>
    <3> HIDE DEF a
    <3> QED BY <1>1, SymbolsDiffer, AppendIsConcat
  <2>2. (t \o <<EndOfChar>>) \o <<Space>> = t \o (<<EndOfChar>> \o <<Space>>)
        BY <1>2, ConcatAssociative
  <2>3. <<EndOfChar>> \o <<Space>> = <<EndOfChar, Space>>
        BY SymbolsDiffer, PairJoins
  <2> HIDE DEF a, b
  <2> QED BY <1>1, <2>1, <2>2, <2>3
<1>4. t \o <<>> = t
      BY ConcatEmptySeq
<1>5. g > 5 => SilenceOf(g) = <<EndOfChar, Space>>
      BY DEF SilenceOf
<1>6. ~(g > 5) /\ g > 2 => SilenceOf(g) = <<EndOfChar>>
      BY DEF SilenceOf
<1>7. ~(g > 2) => SilenceOf(g) = <<>>
      BY DEF SilenceOf
<1> QED BY <1>1, <1>3, <1>4, <1>5, <1>6, <1>7

LEMMA SilenceAgrees ==
  ASSUME NEW s \in Seq(Symbols), NEW t \in Seq(Symbols), NEW g \in Int, MarksAgree(s, t)
  PROVE  /\ MarksAgree(s, t \o SilenceOf(g)) /\ MarksOf(t \o SilenceOf(g)) = MarksOf(t)
<1> DEFINE a == Append(t, EndOfChar)
           b == Append(a, Space)
<1>1. a \in Seq(Symbols) /\ MarksAgree(s, a) /\ MarksOf(a) = MarksOf(t)
      BY SymbolsDiffer, AgreeNext, MarksAppend
<1>2. MarksAgree(s, b) /\ MarksOf(b) = MarksOf(t)
  <2> HIDE DEF a
  <2> QED BY <1>1, SymbolsDiffer, AgreeNext, MarksAppend
<1>3. t \o SilenceOf(g) \in {t, a, b}
      BY SilenceJoins
<1> HIDE DEF a, b
<1> QED BY <1>1, <1>2, <1>3

\* What it reads after the reset was never written, and says nothing.
LEMMA GarbageText ==
  ASSUME DecType, TakeDown(DownEvent)
  PROVE  Decoded' = Decoded /\ pat' = pat /\ down' = 0 /\ up' = 0
<1> DEFINE silent == IF up > 0 THEN DownEvent.at - up ELSE 0
<1>1. DownEvent.at = 0
      BY DEF DownEvent
<1>2. ~(silent > 2)
      BY <1>1 DEF DecType, Clocks
<1> HIDE DEF silent
<1>3. DownEvent.at \in Nat /\ silent = IF up > 0 THEN DownEvent.at - up ELSE 0
      BY <1>1 DEF silent
<1> QED BY <1>1, <1>2, <1>3, DownText

LEMMA MarksRead ==
  ASSUME DecType, StraightInv, MarksInv, kind = "straight", Read
  PROVE  MarksInv'
<1>1. /\ lp.pc = "read" /\ lp.tail \in 0 .. R - 1
      /\ lp'.pc = "poll" /\ rbTail' = IF lp.tail = R - 1 THEN 0 ELSE lp.tail + 1
      /\ lp.tail = 0 => st \in {"hold", "up", "fall"} /\ rb[lp.tail].down /\ TakeDown(rb[0])
      /\ lp.tail = 1 => /\ st = "fall" /\ down = rb[0].at /\ down > 0 /\ TakeUp(rb[1])
                        /\ rb[1].at = now
      /\ lp.tail >= 2 => TakeDown(DownEvent)
      BY ReadStraight
<1>2. Cursor = lp.tail /\ Cursor' = rbTail' /\ R \in Nat \ {0, 1, 2}
      BY <1>1, DecBounds DEF Cursor
<1>3. st' = st /\ keyed' = keyed /\ kind' = kind
      BY DEF Read, Looping, key
<1>4. /\ keyed \in Seq(Symbols) /\ Decoded \in Seq(Symbols) /\ Kept
      /\ MarksAgree(Decoded, keyed)
      /\ MarksOf(keyed) = MarksOf(Decoded) + (IF Unheard THEN 1 ELSE 0)
      /\ MarksOf(Decoded) \in Nat
      BY LetterEnds, MarksFacts, LenProperties DEF DecType, Kept, MarksInv, MarksOf
<1>5. CASE lp.tail = 0
  <2>1. Unheard' = Unheard
        BY <1>1, <1>2, <1>3, <1>5 DEF Unheard
  <2> DEFINE silent == IF up > 0 THEN rb[0].at - up ELSE 0
  <2>2. rb[0].at \in Nat
        BY <1>5, DecBounds DEF DecType, Slots, Timed
  <2>3. Decoded' \in {Append(Ended, Space), Ended, Decoded}
    <3>1. silent = IF up > 0 THEN rb[0].at - up ELSE 0
          OBVIOUS
    <3> HIDE DEF silent
    <3> QED BY <1>1, <1>5, <2>2, <3>1, DownText
  <2>4. MarksAgree(Decoded', keyed) /\ MarksOf(Decoded') = MarksOf(Decoded)
        BY <1>4, <2>3, EndedAgrees
  <2> QED BY <1>3, <1>4, <2>1, <2>4 DEF MarksInv
<1>6. CASE lp.tail = 1
  <2>1. Unheard /\ ~Unheard'
        BY <1>1, <1>2, <1>3, <1>6 DEF Unheard
  <2>2. keyed # <<>> /\ keyed[Len(keyed)] \in DitDah /\ rb[1].at - rb[0].at = LengthOf[keyed[Len(keyed)]]
        BY <1>1, <1>6 DEF StraightInv, Events
  <2> DEFINE m == keyed[Len(keyed)]
  <2>3. Decoded' = Append(Decoded, m)
        BY <1>1, <1>6, <2>2, UpText, LengthMark
  <2>4. MarksOf(keyed) = MarksOf(Decoded) + 1
        BY <1>4, <2>1
  <2>5. m \in DitDah /\ m \in Symbols
        BY <2>2, SymbolsDiffer
  <2>6. MarksAgree(Append(Decoded, m), keyed)
        BY <1>4, <2>2, <2>4, <2>5, AgreeMark
  <2>7. MarksOf(Append(Decoded, m)) = MarksOf(Decoded) + 1
        BY <1>4, <2>5, MarksAppend
  <2> HIDE DEF m
  <2> QED BY <1>3, <1>4, <2>1, <2>3, <2>4, <2>6, <2>7 DEF MarksInv
<1>7. CASE lp.tail >= 2
  <2>1. Unheard' = Unheard
        BY <1>1, <1>2, <1>3, <1>7 DEF Unheard
  <2>2. Decoded' = Decoded
        BY <1>1, <1>7, GarbageText
  <2> QED BY <1>3, <1>4, <2>1, <2>2 DEF MarksInv
<1> QED BY <1>1, <1>5, <1>6, <1>7

LEMMA MarksKey ==
  ASSUME DecType, StraightInv, MarksInv, kind = "straight", KeyDown \/ KeyUp
  PROVE  MarksInv'
<1>1. /\ keyed \in Seq(Symbols) /\ Decoded \in Seq(Symbols)
      /\ MarksAgree(Decoded, keyed)
      /\ MarksOf(keyed) = MarksOf(Decoded) + (IF Unheard THEN 1 ELSE 0)
      BY LetterEnds DEF DecType, Kept, MarksInv
<1>2. kind' = kind /\ Decoded' = Decoded
      BY DEF KeyDown, KeyUp, decoded, Decoded
<1>3. ~Unheard
      BY DEF KeyDown, KeyUp, Sampling, Unheard
<1>4. CASE KeyDown
  <2>1. ~Unheard'
        BY <1>4 DEF KeyDown, Sampling, Unheard
  <2>2. keyed' = keyed \o SilenceOf(now - upAt) \/ keyed' = keyed \o <<>>
        BY <1>4 DEF KeyDown, Keys
  <2>3. now - upAt \in Int /\ keyed \o <<>> = keyed
        BY <1>1, ConcatEmptySeq DEF DecType, Clocks
  <2>4. MarksAgree(Decoded, keyed') /\ MarksOf(keyed') = MarksOf(keyed)
        BY <1>1, <2>2, <2>3, SilenceAgrees
  <2> QED BY <1>1, <1>2, <1>3, <2>1, <2>4 DEF MarksInv
<1>5. CASE KeyUp
  <2>1. Unheard'
        BY <1>5 DEF KeyUp, Sampling, Unheard
  <2>2. PICK m \in DitDah : keyed' = keyed \o <<m>>
        BY <1>5 DEF KeyUp, Keys
  <2>3. m \in Symbols /\ keyed' = Append(keyed, m)
        BY <1>1, <2>2, SymbolsDiffer, AppendIsConcat
  <2>4. MarksOf(keyed) = MarksOf(Decoded) /\ MarksOf(Decoded) \in Nat
        BY <1>1, <1>3, LenProperties, MarksFacts DEF MarksOf
  <2>5. MarksAgree(Decoded, keyed')
        BY <1>1, <2>3, <2>4, AgreeNext
  <2>6. MarksOf(keyed') = MarksOf(keyed) + 1
        BY <1>1, <2>3, MarksAppend
  <2> QED BY <1>2, <2>1, <2>4, <2>5, <2>6 DEF MarksInv
<1> QED BY <1>4, <1>5

LEMMA MarksStep ==
  ASSUME DecType, StraightInv, MarksInv, kind = "straight", [DecNext]_decVars
  PROVE  MarksInv'
<1>1. CASE KeyDown \/ KeyUp
      BY <1>1, MarksKey
<1>2. CASE Publish \/ EndFall \/ EndReset \/ KeySilence
  <2>1. Decoded' = Decoded /\ keyed' = keyed /\ kind' = kind /\ lp' = lp
        BY <1>2 DEF Publish, EndFall, EndReset, KeySilence, decoded, Decoded
  <2>2. Unheard' = Unheard
    <3>1. CASE Publish
          BY <2>1, <3>1 DEF Publish, Sampling, MoveRbHead, Unheard, Cursor, StraightInv, Cursors
    <3>2. CASE EndFall
          BY <2>1, <3>2 DEF EndFall, Sampling, Drained, Unheard, Cursor, StraightInv, Places
    <3>3. CASE EndReset \/ KeySilence
          BY <2>1, <3>3 DEF EndReset, KeySilence, Sampling, Unheard
    <3> QED BY <1>2, <3>1, <3>2, <3>3
  <2> QED BY <2>1, <2>2 DEF MarksInv
<1>3. CASE WriteSymbol \/ PublishSymbol
      BY <1>3 DEF WriteSymbol, PublishSymbol
<1>4. CASE Poll
  <2>1. Decoded' = Decoded /\ keyed' = keyed /\ kind' = kind /\ st' = st
        BY <1>4 DEF Poll, Looping, key, decoded, Decoded
  <2>2. /\ lp.pc = "poll" /\ lp'.tail = rbTail /\ rbTail' = rbTail
        /\ lp'.pc = IF rbHead # rbTail THEN "read" ELSE "time"
        BY <1>4 DEF Poll, Looping, events
  <2>3. Cursor = rbTail /\ Cursor' = rbTail
        BY <2>2 DEF Cursor
  <2>4. Unheard' = Unheard
        BY <2>1, <2>2, <2>3 DEF Unheard, StraightInv, Places
  <2> QED BY <2>1, <2>4 DEF MarksInv
<1>5. CASE Read
      BY <1>5, MarksRead
<1>6. CASE Timeout
  <2>1. /\ keyed' = keyed /\ kind' = kind /\ st' = st /\ rbTail' = rbTail
        /\ lp.pc = "time" /\ lp'.pc = "poll"
        BY <1>6 DEF Timeout, Looping, key, events
  <2>2. Unheard' = Unheard
        BY <2>1 DEF Unheard, Cursor
  <2>3. Decoded' \in {Ended, Decoded} /\ Kept /\ keyed \in Seq(Symbols)
        BY <1>6, TimeoutText DEF DecType, Kept
  <2>4. MarksAgree(Decoded', keyed) /\ MarksOf(Decoded') = MarksOf(Decoded)
        BY <2>3, EndedAgrees DEF MarksInv
  <2> QED BY <2>1, <2>2, <2>4 DEF MarksInv
<1>7. CASE UNCHANGED decVars
      BY <1>7 DEF decVars, key, events, straight, decoded, MarksInv, Unheard, Cursor, Decoded
<1> QED BY <1>1, <1>2, <1>3, <1>4, <1>5, <1>6, <1>7 DEF DecNext, Keying, Decoding

LEMMA MarksAlways == DecSpec => []MarksInv
<1>1. DecInit => MarksInv
  <2> SUFFICES ASSUME DecInit, kind = "straight" PROVE MarksInv
      BY DEF MarksInv
  <2>1. keyed = <<>> /\ text = <<>> /\ pat = <<>> /\ st = "ready"
        BY DEF DecInit
  <2>2. Decoded = <<>> /\ Len(<<>>) = 0 /\ <<>> \in Seq(Symbols)
        BY <2>1, EmptySeq, ConcatEmptySeq DEF Decoded
  <2>3. MarksOf(<<>>) = 0 /\ ~Unheard
        BY <2>1, <2>2, MarksFacts DEF MarksOf, Unheard
  <2>4. MarksAgree(<<>>, <<>>)
        BY <2>2 DEF MarksAgree
  <2> QED BY <2>1, <2>2, <2>3, <2>4 DEF MarksInv
<1>2. DecType /\ StraightInv /\ MarksInv /\ [DecNext]_decVars => MarksInv'
  <2> SUFFICES ASSUME DecType, StraightInv, MarksInv, [DecNext]_decVars, kind' = "straight"
               PROVE  MarksInv'
      BY DEF MarksInv
  <2>1. kind = "straight"
        BY SidesApart DEF DecNext
  <2> QED BY <2>1, MarksStep
<1> QED BY <1>1, <1>2, DecTypeAlways, StraightAlways, PTL DEF DecSpec

-----------------------------------------------------------------------------
(* The symbols of the iambic keyer.                                        *)

\* The letter under way ends with a mark.
LEMMA LastDecoded ==
  ASSUME Kept
  PROVE  /\ pat # <<>> => Decoded # <<>> /\ Decoded[Len(Decoded)] \in DitDah
         /\ pat = <<>> => Decoded = text
<1>1. text \in Seq(Symbols) /\ pat \in Seq(Symbols) /\ pat \in Seq(DitDah)
      BY LetterTyped DEF Kept
<1>2. CASE pat = <<>>
      BY <1>1, <1>2, ConcatEmptySeq DEF Decoded
<1>3. CASE pat # <<>>
  <2>1. Len(pat) \in Nat \ {0} /\ Len(text) \in Nat /\ pat[Len(pat)] \in DitDah
        BY <1>1, <1>3
  <2>2. Len(Decoded) = Len(text) + Len(pat) /\ Decoded[Len(text) + Len(pat)] = pat[Len(pat)]
        BY <1>1, <2>1, ConcatProperties DEF Decoded
  <2>3. Decoded # <<>>
        BY <2>1, <2>2
  <2> QED BY <1>3, <2>1, <2>2, <2>3
<1> QED BY <1>2, <1>3

LEMMA PaddleKeyed ==
  ASSUME DecType, PaddleInv, kind = "paddle", WriteSymbol
  PROVE  PaddleInv'
<1>0. /\ rbHead \in 0 .. R - 1 /\ rbTail \in 0 .. R - 1 /\ R \in Nat \ {0, 1, 2}
      /\ rb \in [0 .. R - 1 -> Symbols] /\ keyed \in Seq(Symbols) /\ Decoded \in Seq(Symbols)
      /\ Len(keyed) \in Nat /\ Len(Decoded) \in Nat
      BY DecBounds, LetterEnds, LenProperties DEF DecType, Rings, Slots, Kept
<1>1. PICK s \in DitDah \union {EndOfChar, Space} :
        /\ s = EndOfChar => keyed # <<>> /\ keyed[Len(keyed)] \in DitDah
        /\ s = Space => keyed # <<>> /\ keyed[Len(keyed)] = EndOfChar
        /\ rb' = [rb EXCEPT ![rbHead] = s] /\ keyed' = keyed \o <<s>>
      BY DEF WriteSymbol, WriteData, Keys
<1>2. /\ st = "ready" /\ st' = "symbol" /\ UNCHANGED <<kind, lp, rbHead, rbTail, text, pat, torn>>
      /\ (rbHead + 1) % R # rbTail
      BY DEF WriteSymbol, WriteData, decoded
<1>3. /\ Decoded' = Decoded /\ Unread' = Unread /\ \A k : Place(k)' = Place(k)
      BY <1>2 DEF Decoded, Unread, Place
<1>4. Unread \in 0 .. R - 2
      BY <1>0, <1>2, NextPlace DEF Unread
<1>5. s \in Symbols /\ keyed' = Append(keyed, s)
      BY <1>0, <1>1, AppendIsConcat DEF Symbols
<1>6. /\ Len(keyed') = Len(keyed) + 1 /\ keyed'[Len(keyed) + 1] = s
      /\ \A i \in 1 .. Len(keyed) : keyed'[i] = keyed[i]
      BY <1>0, <1>5, AppendProperties
<1>7. KeyedOrder'
  <2>1. ASSUME NEW i \in 1 .. Len(keyed')
        PROVE  /\ keyed'[i] = EndOfChar => i > 1 /\ keyed'[i - 1] \in DitDah
               /\ keyed'[i] = Space => i > 1 /\ keyed'[i - 1] = EndOfChar
    <3>1. CASE i \in 1 .. Len(keyed)
      <4>1. i > 1 => i - 1 \in 1 .. Len(keyed)
            BY <1>0, <3>1
      <4> QED BY <1>6, <3>1, <4>1 DEF PaddleInv, KeyedOrder
    <3>2. CASE i = Len(keyed) + 1
      <4>1. keyed # <<>> => Len(keyed) \in 1 .. Len(keyed) /\ i > 1 /\ i - 1 = Len(keyed)
            BY <1>0, <3>2
      <4> QED BY <1>1, <1>6, <3>2, <4>1, SymbolsDiffer
    <3> QED BY <1>0, <1>6, <3>1, <3>2
  <2> QED BY <1>2, <2>1 DEF PaddleInv, KeyedOrder
<1>8. RingHolds'
  <2>0. /\ Begins(Decoded, keyed) /\ Len(keyed) = Len(Decoded) + Unread
        /\ \A k \in 0 .. Unread - 1 : rb[Place(k)] = keyed[Len(Decoded) + 1 + k]
    <3>1. Len(keyed) = Len(Decoded) + Unread + (IF st = "symbol" THEN 1 ELSE 0)
          BY DEF PaddleInv, RingHolds
    <3>2. Len(keyed) = Len(Decoded) + Unread
          BY <1>0, <1>2, <1>4, <3>1
    <3> QED BY <3>2 DEF PaddleInv, RingHolds
  <2>1. Begins(Decoded, keyed')
        BY <1>0, <1>6, <2>0 DEF Begins
  <2>2. ASSUME NEW k \in 0 .. Unread - 1
        PROVE  rb'[Place(k)] = keyed'[Len(Decoded) + 1 + k]
    <3>1. Place(k) \in 0 .. R - 1 /\ Place(k) # rbHead
          BY <1>0, <1>4 DEF Place, Unread
    <3>2. Len(Decoded) + 1 + k \in 1 .. Len(keyed)
          BY <1>0, <1>4, <2>0
    <3> QED BY <1>0, <1>1, <1>6, <2>0, <3>1, <3>2
  <2>3. rb'[rbHead] = s
        BY <1>0, <1>1
  <2>4. Unread < R - 1
        BY <1>0, <1>4
  <2>5. Len(keyed') = Len(Decoded) + Unread + 1
        BY <1>0, <1>4, <1>6, <2>0
  <2> QED BY <1>2, <1>3, <1>6, <2>1, <2>2, <2>3, <2>4, <2>5 DEF RingHolds
<1> QED BY <1>2, <1>7, <1>8 DEF PaddleInv

LEMMA PaddlePublished ==
  ASSUME DecType, PaddleInv, kind = "paddle", PublishSymbol
  PROVE  PaddleInv'
<1>0. /\ rbHead \in 0 .. R - 1 /\ rbTail \in 0 .. R - 1 /\ R \in Nat \ {0, 1, 2}
      /\ Len(keyed) \in Nat /\ Len(Decoded) \in Nat
      BY DecBounds, LetterEnds, LenProperties DEF DecType, Rings, Kept
<1>1. /\ st = "symbol" /\ st' = "ready" /\ UNCHANGED <<kind, lp, rb, rbTail, keyed, text, pat, torn>>
      /\ rbHead' = IF rbHead = R - 1 THEN 0 ELSE rbHead + 1
      BY <1>0, NextPlace DEF PublishSymbol, MoveRbHead, decoded
<1>2. /\ Begins(Decoded, keyed) /\ Len(keyed) = Len(Decoded) + Unread + 1
      /\ \A k \in 0 .. Unread - 1 : rb[Place(k)] = keyed[Len(Decoded) + 1 + k]
      /\ rb[rbHead] = keyed[Len(keyed)] /\ Unread < R - 1
      BY <1>1 DEF PaddleInv, RingHolds
<1>3. Decoded' = Decoded /\ \A k : Place(k)' = Place(k)
      BY <1>1 DEF Decoded, Place
<1>4. Unread \in Nat /\ Unread' = Unread + 1 /\ Place(Unread) = rbHead
  <2>1. Unread \in 0 .. R - 2 /\ Unread' = Unread + 1
        BY <1>0, <1>1, <1>2 DEF Unread
  <2>2. rbTail + Unread = rbHead \/ rbTail + Unread = rbHead + R
        BY <1>0 DEF Unread
  <2>3. Place(Unread) = rbHead
        BY <1>0, <2>1, <2>2 DEF Place
  <2> QED BY <2>1, <2>3
<1>5. \A k \in 0 .. Unread : rb[Place(k)] = keyed[Len(Decoded) + 1 + k]
  <2>1. ASSUME NEW k \in 0 .. Unread PROVE rb[Place(k)] = keyed[Len(Decoded) + 1 + k]
    <3>1. CASE k = Unread
      <4>1. Len(Decoded) + 1 + k = Len(keyed)
            BY <1>0, <1>2, <1>4, <3>1
      <4> QED BY <1>2, <1>4, <3>1, <4>1
    <3>2. CASE k \in 0 .. Unread - 1
          BY <1>2, <3>2
    <3> QED BY <1>4, <3>1, <3>2
  <2> QED BY <2>1
<1>6. RingHolds'
  <2>1. Unread' - 1 = Unread /\ Len(keyed') = Len(Decoded') + Unread' + 0
        BY <1>0, <1>1, <1>2, <1>3, <1>4
  <2>2. \A k \in 0 .. Unread' - 1 : rb'[Place(k)'] = keyed'[Len(Decoded') + 1 + k]
        BY <1>1, <1>3, <1>5, <2>1
  <2>3. Begins(Decoded', keyed')
        BY <1>1, <1>2, <1>3
  <2> QED BY <1>1, <2>1, <2>2, <2>3 DEF RingHolds
<1>7. lp.pc = "read" => rbTail # rbHead'
      BY <1>0, <1>1, <1>2 DEF Unread
<1> QED BY <1>1, <1>6, <1>7 DEF PaddleInv, KeyedOrder

\* loop() takes the next of the symbols that were keyed.
LEMMA PaddleTaken ==
  ASSUME DecType, PaddleInv, kind = "paddle", Read
  PROVE  /\ Decoded' = Append(Decoded, keyed[Len(Decoded) + 1])
         /\ text' # <<>> => text'[Len(text')] \notin DitDah
         /\ Len(Decoded) + 1 \in 1 .. Len(keyed)
<1> DEFINE n == Len(Decoded)
           s == keyed[n + 1]
<1>0. /\ rbHead \in 0 .. R - 1 /\ rbTail \in 0 .. R - 1 /\ R \in Nat \ {0, 1, 2}
      /\ rb \in [0 .. R - 1 -> Symbols] /\ keyed \in Seq(Symbols) /\ Decoded \in Seq(Symbols)
      /\ Len(keyed) \in Nat /\ n \in Nat /\ Kept
      BY DecBounds, LetterEnds, LenProperties DEF DecType, Rings, Slots, Kept
<1>1. lp.pc = "read" /\ lp.tail = rbTail /\ rbTail # rbHead
      BY DEF Read, Looping, PaddleInv
<1>2. /\ Begins(Decoded, keyed) /\ Len(keyed) >= n + Unread
      /\ \A k \in 0 .. Unread - 1 : rb[Place(k)] = keyed[n + 1 + k]
      /\ Unread \in Nat
  <2>1. Unread \in Nat
        BY <1>0 DEF Unread
  <2>2. Len(keyed) = n + Unread + (IF st = "symbol" THEN 1 ELSE 0) /\ Begins(Decoded, keyed)
        /\ \A k \in 0 .. Unread - 1 : rb[Place(k)] = keyed[n + 1 + k]
        BY DEF PaddleInv, RingHolds
  <2>3. Len(keyed) >= n + Unread
    <3> HIDE DEF n
    <3> QED BY <1>0, <2>1, <2>2
  <2> QED BY <2>1, <2>2, <2>3
<1>3. 0 \in 0 .. Unread - 1 /\ Place(0) = rbTail /\ n + 1 + 0 = n + 1
      BY <1>0, <1>1 DEF Unread, Place
<1>4. rb[lp.tail] = s /\ n + 1 \in 1 .. Len(keyed)
  <2>1. rb[lp.tail] = s
        BY <1>1, <1>2, <1>3
  <2> HIDE DEF n
  <2>2. n + 1 \in 1 .. Len(keyed)
        BY <1>0, <1>2, <1>3
  <2> QED BY <2>1, <2>2
<1>5. s \in Symbols /\ TakeSymbol(s)
      BY <1>0, <1>4 DEF Read
<1>6. /\ s = EndOfChar => n + 1 > 1 /\ keyed[n] \in DitDah
      /\ s = Space => n + 1 > 1 /\ keyed[n] = EndOfChar
  <2>1. n + 1 - 1 = n
        BY <1>0
  <2> QED BY <1>4, <2>1 DEF PaddleInv, KeyedOrder
<1>7. n + 1 > 1 => n \in 1 .. n /\ Decoded[n] = keyed[n] /\ Decoded # <<>>
      BY <1>0, <1>2 DEF Begins
<1>8. CASE s \in DitDah
      BY <1>4, <1>5, <1>8, SymbolText DEF PaddleInv, KeyedOrder
<1>9. CASE s = EndOfChar
  <2>1. Decoded # <<>> /\ Decoded[n] \in DitDah
        BY <1>6, <1>7, <1>9
  <2>2. pat # <<>>
        BY <1>0, <2>1, LastDecoded DEF PaddleInv, KeyedOrder
  <2>3. Decoded' = Append(Decoded, EndOfChar) /\ text' = Append(Decoded, EndOfChar)
        BY <1>5, <1>9, <2>2, SymbolText DEF Ended
  <2>4. text'[Len(text')] = EndOfChar
        BY <1>0, <2>3, SymbolsDiffer, AppendProperties
  <2> QED BY <1>4, <1>9, <2>3, <2>4, SymbolsDiffer
<1>10. CASE s = Space
  <2>1. Decoded # <<>> /\ Decoded[n] = EndOfChar
        BY <1>6, <1>7, <1>10
  <2>2. pat = <<>>
        BY <1>0, <2>1, LastDecoded, SymbolsDiffer
  <2>3. Decoded' = Append(Decoded, Space) /\ text' = Append(Decoded, Space)
        BY <1>5, <1>10, <2>2, SymbolText DEF Ended
  <2>4. text'[Len(text')] = Space
        BY <1>0, <2>3, SymbolsDiffer, AppendProperties
  <2> QED BY <1>4, <1>10, <2>3, <2>4, SymbolsDiffer
<1> HIDE DEF s
<1> QED BY <1>5, <1>8, <1>9, <1>10 DEF Symbols

LEMMA PaddleRead ==
  ASSUME DecType, PaddleInv, kind = "paddle", Read
  PROVE  PaddleInv'
<1> DEFINE n == Len(Decoded)
<1>0. /\ rbHead \in 0 .. R - 1 /\ rbTail \in 0 .. R - 1 /\ R \in Nat \ {0, 1, 2}
      /\ keyed \in Seq(Symbols) /\ Decoded \in Seq(Symbols)
      /\ Len(keyed) \in Nat /\ n \in Nat
      BY DecBounds, LetterEnds, LenProperties DEF DecType, Rings, Kept
<1>1. /\ lp.pc = "read" /\ lp.tail = rbTail /\ rbTail # rbHead /\ lp'.pc = "poll"
      /\ rbTail' = IF rbTail = R - 1 THEN 0 ELSE rbTail + 1
      /\ UNCHANGED <<kind, st, keyed, rb, rbHead, torn>>
      BY <1>0, NextPlace DEF Read, Looping, PaddleInv, key, DecType, Rings
<1>2. /\ Decoded' = Append(Decoded, keyed[n + 1])
      /\ text' # <<>> => text'[Len(text')] \notin DitDah
      /\ n + 1 \in 1 .. Len(keyed)
      BY PaddleTaken
<1>3. /\ Begins(Decoded, keyed)
      /\ Len(keyed) = n + Unread + (IF st = "symbol" THEN 1 ELSE 0)
      /\ \A k \in 0 .. Unread - 1 : rb[Place(k)] = keyed[n + 1 + k]
      /\ st = "symbol" => rb[rbHead] = keyed[Len(keyed)] /\ Unread < R - 1
      BY DEF PaddleInv, RingHolds
<1>4. /\ Unread \in Nat \ {0} /\ Unread' = Unread - 1
      /\ \A k \in 0 .. Unread - 2 : Place(k)' = Place(k + 1)
  <2>1. Unread \in 1 .. R - 1
        BY <1>0, <1>1 DEF Unread
  <2> QED BY <1>0, <1>1, <2>1 DEF Unread, Place
<1>5. /\ Len(Decoded') = n + 1 /\ Decoded'[n + 1] = keyed[n + 1]
      /\ \A i \in 1 .. n : Decoded'[i] = Decoded[i]
  <2>1. keyed[n + 1] \in Symbols
        BY <1>0, <1>2, ElementOfSeq
  <2> QED BY <1>0, <1>2, <2>1, AppendProperties
<1> HIDE DEF n
<1>6. Begins(Decoded', keyed)
  <2>1. \A i \in 1 .. n : Decoded[i] = keyed[i]
        BY <1>3 DEF Begins, n
  <2> QED BY <1>0, <1>2, <1>5, <2>1 DEF Begins
<1>7. \A k \in 0 .. Unread' - 1 : rb[Place(k)'] = keyed[Len(Decoded') + 1 + k]
  <2>1. ASSUME NEW k \in 0 .. Unread - 2 PROVE rb[Place(k)'] = keyed[(n + 1) + 1 + k]
    <3>1. k + 1 \in 0 .. Unread - 1 /\ n + 1 + (k + 1) = (n + 1) + 1 + k
          BY <1>0, <1>4
    <3> QED BY <1>3, <1>4, <3>1
  <2>2. Unread' - 1 = Unread - 2
        BY <1>4
  <2> QED BY <1>5, <2>1, <2>2
<1>8. /\ Len(keyed) = Len(Decoded') + Unread' + (IF st = "symbol" THEN 1 ELSE 0)
      /\ st = "symbol" => Unread' < R - 1
      BY <1>0, <1>3, <1>4, <1>5
<1>9. RingHolds'
      BY <1>1, <1>3, <1>6, <1>7, <1>8 DEF RingHolds
<1>10. KeyedOrder'
      BY <1>1, <1>2 DEF KeyedOrder, PaddleInv
<1> QED BY <1>1, <1>9, <1>10 DEF PaddleInv

LEMMA PaddleStep ==
  ASSUME DecType, PaddleInv, kind = "paddle", [DecNext]_decVars
  PROVE  PaddleInv'
<1>1. CASE KeyDown \/ KeyUp \/ Publish \/ EndFall \/ EndReset \/ KeySilence
      BY <1>1 DEF KeyDown, KeyUp, Publish, EndFall, EndReset, KeySilence, Sampling, PaddleInv
<1>2. CASE WriteSymbol \/ PublishSymbol
      BY <1>2, PaddleKeyed, PaddlePublished
<1>3. CASE Poll
  <2>1. /\ lp'.pc = IF rbHead # rbTail THEN "read" ELSE "poll"
        /\ lp'.tail = rbTail /\ torn' = (torn \/ (st = "zero" /\ rbHead # rbTail))
        /\ UNCHANGED <<kind, st, keyed, rb, rbHead, rbTail, text, pat>>
        BY <1>3 DEF Poll, Looping, key, events, decoded
  <2>2. st # "zero" /\ ~torn
        BY DEF PaddleInv
  <2> QED BY <2>1, <2>2 DEF PaddleInv, KeyedOrder, RingHolds, Unread, Place, Decoded
<1>4. CASE Read
      BY <1>4, PaddleRead
<1>5. CASE Timeout
      BY <1>5 DEF Timeout, Looping, PaddleInv
<1>6. CASE UNCHANGED decVars
      BY <1>6 DEF decVars, key, events, decoded, PaddleInv, KeyedOrder, RingHolds, Unread, Place, Decoded
<1> QED BY <1>1, <1>2, <1>3, <1>4, <1>5, <1>6 DEF DecNext, Keying, Decoding

LEMMA PaddleAlways == DecSpec => []PaddleInv
<1>1. DecInit => PaddleInv
  <2> SUFFICES ASSUME DecInit PROVE PaddleInv
      OBVIOUS
  <2>1. /\ keyed = <<>> /\ text = <<>> /\ pat = <<>> /\ st = "ready" /\ ~torn
        /\ rbHead = 0 /\ rbTail = 0 /\ lp.pc = "poll"
        BY DEF DecInit
  <2>2. Decoded = <<>> /\ Len(<<>>) = 0 /\ Unread = 0
        BY <2>1, EmptySeq, ConcatEmptySeq DEF Decoded, Unread
  <2> QED BY <2>1, <2>2 DEF PaddleInv, KeyedOrder, RingHolds, Begins
<1>2. DecType /\ PaddleInv /\ [DecNext]_decVars => PaddleInv'
  <2> SUFFICES ASSUME DecType, PaddleInv, [DecNext]_decVars, kind' = "paddle"
               PROVE  PaddleInv'
      BY DEF PaddleInv
  <2>1. kind = "paddle"
        BY SidesApart DEF DecNext
  <2> QED BY <2>1, PaddleStep
<1> QED BY <1>1, <1>2, DecTypeAlways, PTL DEF DecSpec

-----------------------------------------------------------------------------
\* Between the key and the decoder no mark is lost, doubled or taken for the other,
\* for rings of any size, any number of marks and any silences.
THEOREM MarksAlwaysSurvive == DecSpec => []MarksSurvive
<1>1. DecType /\ StraightInv /\ MarksInv /\ PaddleInv => MarksSurvive
  <2> SUFFICES ASSUME DecType, StraightInv, MarksInv, PaddleInv PROVE MarksSurvive
      OBVIOUS
  <2>0. /\ keyed \in Seq(Symbols) /\ Decoded \in Seq(Symbols) /\ kind \in {"straight", "paddle"}
        /\ rbHead \in 0 .. R - 1 /\ rbTail \in 0 .. R - 1
        /\ MarksOf(Decoded) \in Nat
        BY LetterEnds, LenProperties, MarksFacts DEF DecType, Kept, Rings, MarksOf
  <2>1. CASE kind = "straight"
    <3>1. /\ MarksAgree(Decoded, keyed)
          /\ MarksOf(keyed) = MarksOf(Decoded) + (IF Unheard THEN 1 ELSE 0)
          BY <2>1 DEF MarksInv
    <3>2. st = "ready" => ~Unheard
          BY DEF Unheard
    <3> QED BY <2>0, <3>1, <3>2 DEF MarksSurvive
  <2>2. CASE kind = "paddle"
    <3>1. Begins(Decoded, keyed) /\ Len(keyed) = Len(Decoded) + Unread + (IF st = "symbol" THEN 1 ELSE 0)
          BY <2>2 DEF PaddleInv, RingHolds
    <3>2. MarksAgree(Decoded, keyed) /\ MarksOf(Decoded) <= MarksOf(keyed)
          BY <2>0, <3>1, BeginningAgrees
    <3>3. ASSUME st = "ready", Drained PROVE MarksOf(Decoded) = MarksOf(keyed)
      <4>1. Unread = 0
            BY <2>0, <3>3 DEF Drained, Unread
      <4>2. Len(keyed) = Len(Decoded)
            BY <2>0, <3>1, <3>3, <4>1, LenProperties
      <4>3. \A i \in 1 .. Len(Decoded) : Decoded[i] = keyed[i]
            BY <3>1 DEF Begins
      <4>4. Decoded = keyed
            BY <2>0, <4>2, <4>3, SeqEqual
      <4> QED BY <4>4
    <3> QED BY <3>2, <3>3 DEF MarksSurvive
  <2> QED BY <2>0, <2>1, <2>2
<1> QED BY <1>1, DecTypeAlways, StraightAlways, MarksAlways, PaddleAlways, PTL

-----------------------------------------------------------------------------
(* The letters of the straight key.                                        *)

\* Where loop() is while it has read nothing that was never written.
CleanCursor ==
  /\ Cursor \in {0, 1, 2}
  /\ Cursor = 2 => st \in {"fall", "zero"} /\ lp.pc # "read"
  /\ st = "zero" => Cursor = 2

LEMMA CleanStep ==
  ASSUME DecType, StraightInv, LettersInv, kind = "straight", ~torn', [DecNext]_decVars
  PROVE  ~torn /\ CleanCursor /\ CleanCursor'
<1>1. ~torn
  <2>1. torn => torn'
        BY SidesApart DEF DecNext, Decoding, Poll, Read, Timeout, decVars
  <2> QED BY <2>1
<1>2. CleanCursor
      BY <1>1 DEF LettersInv, CleanCursor
<1>3. /\ Cursor = 1 => st \in {"hold", "up", "fall"}
      /\ st \in {"ready", "down", "hold", "up", "fall", "zero", "idle"}
      /\ R \in Nat \ {0, 1, 2}
      BY DecBounds DEF StraightInv, Cursors
<1>4. CASE KeyDown \/ KeyUp \/ Publish \/ KeySilence
  <2>1. /\ lp' = lp /\ rbTail' = rbTail
        /\ \/ st = "ready" /\ st' = "down"
           \/ st = "hold" /\ st' = "up"
           \/ st = "down" /\ st' = "hold"
           \/ st = "up" /\ st' = "fall"
           \/ st = "idle" /\ st' = "ready"
        BY <1>4 DEF KeyDown, KeyUp, Publish, KeySilence, Sampling, WriteData, MoveRbHead, events
  <2> QED BY <1>1, <1>2, <1>3, <2>1 DEF CleanCursor, Cursor
<1>5. CASE EndFall
  <2>1. /\ lp' = lp /\ rbTail' = rbTail /\ st' = "zero" /\ rbTail = 2 /\ lp.pc # "read"
        BY <1>5 DEF EndFall, Sampling, Drained, StraightInv, Places
  <2> QED BY <1>1, <1>2, <2>1 DEF CleanCursor, Cursor
<1>6. CASE EndReset
  <2>1. lp' = lp /\ rbTail' = 0 /\ st' = "idle" /\ st = "zero"
        BY <1>6 DEF EndReset, Sampling
  <2> QED BY <1>1, <1>2, <2>1 DEF CleanCursor, Cursor
<1>7. CASE WriteSymbol \/ PublishSymbol
      BY <1>7 DEF WriteSymbol, PublishSymbol
<1>8. CASE Poll
  <2>1. /\ lp.pc = "poll" /\ lp'.tail = rbTail /\ rbTail' = rbTail /\ st' = st
        /\ lp'.pc = IF rbHead # rbTail THEN "read" ELSE "time"
        /\ torn' = (torn \/ (st = "zero" /\ rbHead # rbTail))
        BY <1>8 DEF Poll, Looping, events, key
  <2>2. Cursor = rbTail /\ Cursor' = rbTail
        BY <2>1 DEF Cursor
  <2>3. Cursor = 2 => lp'.pc = "time"
        BY <1>2, <2>1, <2>2 DEF CleanCursor, StraightInv, Places
  <2> QED BY <1>1, <1>2, <2>1, <2>2, <2>3 DEF CleanCursor
<1>9. CASE Read
  <2>1. /\ lp.pc = "read" /\ lp'.pc = "poll" /\ st' = st /\ Cursor = lp.tail /\ Cursor' = rbTail'
        /\ rbTail' = IF lp.tail = R - 1 THEN 0 ELSE lp.tail + 1
        /\ lp.tail = 1 => st = "fall"
        BY <1>9, ReadStraight DEF Read, Looping, key, Cursor
  <2> QED BY <1>1, <1>2, <1>3, <2>1 DEF CleanCursor
<1>10. CASE Timeout
  <2>1. lp.pc = "time" /\ lp'.pc = "poll" /\ st' = st /\ rbTail' = rbTail
        BY <1>10 DEF Timeout, Looping, key, events
  <2> QED BY <1>1, <1>2, <2>1 DEF CleanCursor, Cursor
<1>11. CASE UNCHANGED decVars
      BY <1>1, <1>2, <1>11 DEF decVars, key, events, CleanCursor, Cursor
<1> QED BY <1>4, <1>5, <1>6, <1>7, <1>8, <1>9, <1>10, <1>11 DEF DecNext, Keying, Decoding

\* The three things that loop() can know, by where it is.
Phases ==
  /\ Cursor = 2 \/ st \in {"idle", "ready"} => InPause
  /\ Cursor = 0 /\ st \in {"down", "hold", "up", "fall"} => BeforePress
  /\ Cursor = 1 => InPress

\* Five dits of silence and what follows are the end of a letter and the rest.
LEMMA SilenceSplits ==
  ASSUME NEW t \in Seq(Symbols), NEW g \in Int, g >= 5
  PROVE  /\ t \o SilenceOf(g) = Append(t, EndOfChar) \o (IF g > 5 THEN <<Space>> ELSE <<>>)
<1> DEFINE a == Append(t, EndOfChar)
<1>1. a \in Seq(Symbols)
      BY SymbolsDiffer, AppendProperties
<1>2. CASE g > 5
  <2>1. t \o SilenceOf(g) = Append(a, Space)
        BY <1>2, SilenceJoins
  <2> HIDE DEF a
  <2>2. Append(a, Space) = a \o <<Space>>
        BY <1>1, SymbolsDiffer, AppendIsConcat
  <2> QED BY <1>2, <2>1, <2>2 DEF a
<1>3. CASE ~(g > 5)
  <2>1. g > 2
        BY <1>3
  <2>2. t \o SilenceOf(g) = a
        BY <1>3, <2>1, SilenceJoins
  <2> HIDE DEF a
  <2>3. a \o <<>> = a
        BY <1>1, ConcatEmptySeq
  <2> QED BY <1>3, <2>2, <2>3 DEF a
<1> QED BY <1>2, <1>3

LEMMA RestTyped ==
  ASSUME DecType, StraightInv, kind = "straight"
  PROVE  /\ Rest \in Seq(Symbols) /\ rb[0].at \in Nat /\ rb[0].at - up \in Int
         /\ st \in {"up", "fall"} => /\ keyed # <<>> /\ keyed[Len(keyed)] \in DitDah
                                     /\ LastMark = <<keyed[Len(keyed)]>>
         /\ st \notin {"up", "fall"} => LastMark = <<>>
         /\ LastMark \in Seq(Symbols)
         /\ keyed \in Seq(Symbols) /\ Decoded \in Seq(Symbols) /\ Decoded \o <<>> = Decoded
<1>1. rb[0].at \in Nat /\ rb[0].at - up \in Int
      BY DecBounds DEF DecType, Slots, Timed, Clocks
<1>2. Rest \in Seq(Symbols)
  <2>1. SilenceOf(rb[0].at - up) \in Seq(Symbols)
        BY <1>1, SilenceSymbols
  <2>2. <<>> \in Seq(Symbols) /\ <<Space>> \in Seq(Symbols)
        BY SymbolsDiffer
  <2>3. Rest \in {<<>>, <<Space>>, SilenceOf(rb[0].at - up)}
        BY DEF Rest
  <2> QED BY <2>1, <2>2, <2>3
<1>3. st \in {"up", "fall"} => keyed # <<>> /\ keyed[Len(keyed)] \in DitDah
      BY DEF StraightInv, Events
<1>4. LastMark \in Seq(Symbols)
  <2>1. \A m \in DitDah : <<m>> \in Seq(Symbols)
        BY SymbolsDiffer
  <2>2. <<>> \in Seq(Symbols)
        OBVIOUS
  <2> QED BY <1>3, <2>1, <2>2 DEF LastMark
<1> QED BY <1>1, <1>2, <1>3, <1>4, LetterEnds DEF LastMark, DecType, Kept

LEMMA LettersPressed ==
  ASSUME DecType, StraightInv, kind = "straight", KeyDown, InPause
  PROVE  BeforePress'
<1>0. /\ keyed \in Seq(Symbols) /\ Decoded \in Seq(Symbols) /\ keyed \o <<>> = keyed
      /\ up \in Nat /\ now - up \in Int
      BY LetterEnds, ConcatEmptySeq DEF DecType, Kept, Clocks
<1>1. /\ st' = "down" /\ UNCHANGED <<now, upAt, up, timeout, pat, text>> /\ Decoded' = Decoded
      /\ rb'[0] = [down |-> TRUE, at |-> now]
  <2>1. rbHead = 0 /\ rb \in [0 .. R - 1 -> Timed] /\ 0 \in 0 .. R - 1
        BY DecBounds DEF KeyDown, Sampling, StraightInv, Places, DecType, Slots
  <2> QED BY <2>1 DEF KeyDown, Sampling, WriteData, straight, decoded, Decoded
<1>2. keyed' = keyed \o (IF upAt = 0 THEN <<>> ELSE SilenceOf(now - upAt)) /\ up = upAt
      BY DEF KeyDown, Keys, InPause
<1>3. LastMark' = <<>> /\ rb'[0].at = now
      BY <1>1 DEF LastMark
<1>4. Lapse(rb[0].at)'
      BY <1>1, <1>3 DEF InPause, Lapse
<1>5. keyed' = Decoded \o Rest'
  <2>1. CASE up = 0
    <3>1. keyed' = keyed /\ keyed = <<>> /\ Decoded = <<>> /\ Rest' = <<>>
          BY <1>0, <1>1, <1>2, <2>1 DEF InPause, Lapse, Rest
    <3> QED BY <1>0, <3>1
  <2>2. CASE up > 0 /\ pat # <<>>
    <3>1. Decoded = keyed /\ Rest' = SilenceOf(now - up) /\ keyed' = keyed \o SilenceOf(now - up)
          BY <1>1, <1>2, <1>3, <2>2 DEF InPause, Rest
    <3> QED BY <3>1
  <2>3. CASE up > 0 /\ pat = <<>>
    <3>1. /\ Decoded = Append(keyed, EndOfChar) /\ now - up >= 5
          /\ Rest' = (IF now - up > 5 THEN <<Space>> ELSE <<>>)
          /\ keyed' = keyed \o SilenceOf(now - up)
          BY <1>1, <1>2, <1>3, <2>3 DEF InPause, Lapse, Rest
    <3>2. keyed \o SilenceOf(now - up) =
            Append(keyed, EndOfChar) \o (IF now - up > 5 THEN <<Space>> ELSE <<>>)
          BY <1>0, <3>1, SilenceSplits
    <3> QED BY <3>1, <3>2
  <2> QED BY <1>0, <2>1, <2>2, <2>3
<1>6. Rest' \in Seq(Symbols)
  <2>1. SilenceOf(now - up) \in Seq(Symbols)
        BY <1>0, SilenceSymbols
  <2>2. <<>> \in Seq(Symbols) /\ <<Space>> \in Seq(Symbols)
        BY SymbolsDiffer
  <2>3. Rest' \in {<<>>, <<Space>>, SilenceOf(now - up)}
        BY <1>1, <1>3 DEF Rest
  <2> QED BY <2>1, <2>2, <2>3
<1>7. Rest' \o <<>> = Rest'
      BY <1>6, ConcatEmptySeq
<1> QED BY <1>1, <1>3, <1>4, <1>5, <1>7 DEF BeforePress

LEMMA LettersReleased ==
  ASSUME DecType, StraightInv, kind = "straight", KeyUp
  PROVE  /\ BeforePress => BeforePress'
         /\ InPress => InPress'
<1>0. /\ keyed \in Seq(Symbols) /\ Decoded \in Seq(Symbols) /\ Rest \in Seq(Symbols)
      /\ LastMark = <<>> /\ Decoded \o <<>> = Decoded /\ Rest \o <<>> = Rest
      BY RestTyped, ConcatEmptySeq DEF KeyUp, Sampling
<1>1. PICK m \in DitDah : keyed' = keyed \o <<m>>
      BY DEF KeyUp, Keys
<1>2. m \in Symbols /\ <<m>> \in Seq(Symbols)
      BY SymbolsDiffer
<1>3. /\ st' = "up" /\ UNCHANGED <<up, timeout, pat, text>> /\ Decoded' = Decoded /\ rb'[0] = rb[0]
  <2>1. rbHead = 1 /\ rb \in [0 .. R - 1 -> Timed] /\ 0 \in 0 .. R - 1
        BY DecBounds DEF KeyUp, Sampling, StraightInv, Places, DecType, Slots
  <2> QED BY <2>1 DEF KeyUp, Sampling, WriteData, straight, decoded, Decoded
<1>4. LastMark' = <<m>>
  <2>1. keyed' = Append(keyed, m)
        BY <1>0, <1>1, <1>2, AppendIsConcat
  <2>2. keyed'[Len(keyed')] = m
        BY <1>0, <1>2, <2>1, AppendProperties
  <2> QED BY <1>3, <2>2 DEF LastMark
<1>5. Rest' = Rest
      BY <1>3 DEF Rest
<1>6. ASSUME BeforePress PROVE BeforePress'
  <2>1. keyed = Decoded \o Rest
        BY <1>0, <1>6 DEF BeforePress
  <2>2. (Decoded \o Rest) \o <<m>> = Decoded \o (Rest \o <<m>>)
        BY <1>0, <1>2, ConcatAssociative
  <2>3. Lapse(rb[0].at)'
        BY <1>3, <1>6 DEF BeforePress, Lapse
  <2> QED BY <1>1, <1>3, <1>4, <1>5, <2>1, <2>2, <2>3 DEF BeforePress
<1>7. ASSUME InPress PROVE InPress'
      BY <1>0, <1>1, <1>3, <1>4, <1>7 DEF InPress
<1> QED BY <1>6, <1>7

\* The press is read: what the silence before it meant is decoded.
LEMMA LettersDown ==
  ASSUME DecType, StraightInv, kind = "straight", TakeDown(rb[0]), BeforePress,
         UNCHANGED <<st, keyed>>
  PROVE  InPress'
<1> DEFINE silent == IF up > 0 THEN rb[0].at - up ELSE 0
           g == rb[0].at - up
<1>0. /\ Decoded \in Seq(Symbols) /\ Rest \in Seq(Symbols) /\ LastMark \in Seq(Symbols)
      /\ rb[0].at \in Nat /\ g \in Int /\ up \in Nat /\ Decoded \o <<>> = Decoded
      BY RestTyped DEF DecType, Clocks
<1>1. silent = (IF up > 0 THEN rb[0].at - up ELSE 0) /\ (up > 0 => silent = g) /\ (up = 0 => silent = 0)
      BY <1>0
<1> HIDE DEF silent, g
<1>2. /\ silent > 5 => Decoded' = Append(Ended, Space)
      /\ silent > 2 /\ ~(silent > 5) => Decoded' = Ended
      /\ ~(silent > 2) => Decoded' = Decoded
      /\ up' = 0
      BY <1>0, <1>1, DownText
<1>3. Decoded' = Decoded \o Rest
  <2>1. CASE up = 0
    <3>1. Rest = <<>> /\ ~(silent > 2)
          BY <1>1, <2>1 DEF Rest
    <3> QED BY <1>0, <1>2, <3>1
  <2>2. CASE up > 0 /\ pat = <<>>
    <3>1. Ended = Decoded /\ silent = g /\ g >= 5 /\ Rest = (IF g > 5 THEN <<Space>> ELSE <<>>)
          BY <1>1, <2>2 DEF Ended, Rest, BeforePress, Lapse, g
    <3>2. Append(Decoded, Space) = Decoded \o <<Space>>
          BY <1>0, SymbolsDiffer, AppendIsConcat
    <3>3. g > 2
          BY <1>0, <3>1
    <3> QED BY <1>0, <1>2, <3>1, <3>2, <3>3
  <2>3. CASE up > 0 /\ pat # <<>>
    <3>1. Ended = Append(Decoded, EndOfChar) /\ silent = g /\ Rest = SilenceOf(g)
          BY <1>1, <2>3 DEF Ended, Rest, g
    <3>2. /\ g > 5 => Decoded \o SilenceOf(g) = Append(Append(Decoded, EndOfChar), Space)
          /\ ~(g > 5) /\ g > 2 => Decoded \o SilenceOf(g) = Append(Decoded, EndOfChar)
          /\ ~(g > 2) => Decoded \o SilenceOf(g) = Decoded
          BY <1>0, SilenceJoins
    <3> QED BY <1>0, <1>2, <3>1, <3>2
  <2> QED BY <1>0, <2>1, <2>2, <2>3
<1>4. (Decoded \o Rest) \o LastMark = Decoded \o (Rest \o LastMark)
      BY <1>0, ConcatAssociative
<1>5. LastMark' = LastMark
      BY DEF LastMark
<1> QED BY <1>2, <1>3, <1>4, <1>5 DEF BeforePress, InPress

\* The release is read: the letter has all that was keyed.
LEMMA LettersUp ==
  ASSUME DecType, StraightInv, kind = "straight", TakeUp(rb[1]), InPress,
         st = "fall", down = rb[0].at, down > 0, rb[1].at = now,
         UNCHANGED <<st, keyed, now, upAt>>
  PROVE  InPause'
<1> DEFINE m == keyed[Len(keyed)]
<1>1. /\ keyed # <<>> /\ m \in DitDah /\ rb[1].at - rb[0].at = LengthOf[m] /\ upAt = now
      BY DEF StraightInv, Events
<1>2. /\ Decoded' = Append(Decoded, m) /\ pat' = Append(pat, m)
      /\ up' = now /\ timeout' = now + 5
      BY <1>1, UpText, LengthMark
<1>3. keyed = Decoded \o <<m>> /\ Decoded \in Seq(Symbols) /\ m \in Symbols
      BY <1>1, RestTyped, SymbolsDiffer DEF InPress
<1> HIDE DEF m
<1>4. Decoded' = keyed
      BY <1>2, <1>3, AppendIsConcat
<1>5. pat' # <<>>
      BY <1>1, <1>2, AppendProperties DEF DecType, Kept
<1>6. now \in Nat \ {0}
      BY DEF DecType, Clocks
<1>7. Lapse(now)'
      BY <1>2, <1>5, <1>6 DEF Lapse
<1>8. keyed[Len(keyed)] \in DitDah
      BY <1>1 DEF m
<1> QED BY <1>1, <1>2, <1>4, <1>5, <1>6, <1>7, <1>8 DEF InPause

LEMMA LettersTimeout ==
  ASSUME DecType, StraightInv, kind = "straight", Timeout
  PROVE  /\ InPause => InPause'
         /\ BeforePress /\ st \in {"down", "hold"} => BeforePress'
         /\ InPress /\ down = rb[0].at /\ st \in {"hold", "up", "fall"} => InPress'
<1>1. UNCHANGED <<st, keyed, now, upAt, rb, up, down>>
      BY DEF Timeout, Looping, key, events
<1>2. /\ TimedOut => Decoded' = Ended /\ pat' = <<>> /\ timeout' = 0
      /\ ~TimedOut => Decoded' = Decoded /\ pat' = pat /\ timeout' = timeout
      BY TimeoutText
<1>3. LastMark' = LastMark
      BY <1>1 DEF LastMark
<1>4. now \in Nat /\ up \in Nat /\ timeout \in Nat /\ now - up \in Int
      BY DEF DecType, Clocks
<1>5. CASE ~TimedOut
  <2>1. Decoded' = Decoded /\ pat' = pat /\ timeout' = timeout
        BY <1>2, <1>5
  <2>2. Rest' = Rest
        BY <1>1, <2>1 DEF Rest
  <2> QED BY <1>1, <1>3, <2>1, <2>2 DEF InPause, BeforePress, InPress, Lapse
<1>6. CASE TimedOut
  <2>1. Decoded' = Ended /\ pat' = <<>> /\ timeout' = 0 /\ timeout > 0 /\ now >= timeout
        BY <1>2, <1>6 DEF TimedOut
  <2>2. ASSUME InPause PROVE InPause'
    <3>1. up > 0 /\ pat # <<>> /\ timeout = up + 5
          BY <1>4, <2>1, <2>2 DEF InPause, Lapse
    <3>2. now - up >= 5
          BY <1>4, <2>1, <3>1
    <3>3. Decoded' = Append(keyed, EndOfChar)
          BY <2>1, <2>2, <3>1 DEF Ended, InPause
    <3>4. keyed # <<>> /\ keyed[Len(keyed)] \in DitDah /\ up = upAt
          BY <2>2, <3>1 DEF InPause
    <3> QED BY <1>1, <1>4, <2>1, <3>1, <3>2, <3>3, <3>4 DEF InPause, Lapse
  <2>3. ASSUME BeforePress, st \in {"down", "hold"} PROVE BeforePress'
    <3>0. rb[0].at = now
          BY <2>3 DEF StraightInv, Events
    <3>1. up > 0 /\ pat # <<>> /\ timeout = up + 5
          BY <1>4, <2>1, <2>3 DEF BeforePress, Lapse
    <3>2. now - up >= 5
          BY <1>4, <2>1, <3>1
    <3>3. /\ Decoded' = Append(Decoded, EndOfChar) /\ Rest = SilenceOf(now - up)
          /\ Rest' = (IF now - up > 5 THEN <<Space>> ELSE <<>>)
          BY <1>1, <1>4, <2>1, <3>0, <3>1 DEF Ended, Rest
    <3>4. Decoded \in Seq(Symbols) /\ LastMark = <<>> /\ Rest \in Seq(Symbols)
          BY <2>3, RestTyped
    <3>5. Decoded \o Rest = Decoded' \o Rest'
          BY <1>4, <3>2, <3>3, <3>4, SilenceSplits
    <3>6. Rest \o <<>> = Rest /\ Rest' \o <<>> = Rest'
      <4>1. <<>> \in Seq(Symbols) /\ <<Space>> \in Seq(Symbols)
            BY SymbolsDiffer
      <4>2. Rest' \in Seq(Symbols)
            BY <3>3, <4>1
      <4> QED BY <3>4, <4>2, ConcatEmptySeq
    <3>7. keyed' = Decoded' \o (Rest' \o LastMark')
          BY <1>1, <1>3, <2>3, <3>4, <3>5, <3>6 DEF BeforePress
    <3>8. Lapse(rb[0].at)'
          BY <1>1, <2>1, <3>0, <3>1, <3>2 DEF Lapse
    <3> QED BY <3>7, <3>8 DEF BeforePress
  <2>4. ASSUME InPress, down = rb[0].at, st \in {"hold", "up", "fall"} PROVE FALSE
    <3>1. down > 0 /\ up = 0
          BY <2>4 DEF StraightInv, Events, InPress
    <3> QED BY <1>6, <3>1 DEF TimedOut
  <2> QED BY <2>2, <2>3, <2>4
<1> QED BY <1>5, <1>6

LEMMA PhasesStep ==
  ASSUME DecType, StraightInv, kind = "straight", [DecNext]_decVars,
         CleanCursor, CleanCursor', Phases
  PROVE  Phases'
<1>0. /\ Cursor = 1 => st \in {"hold", "up", "fall"} /\ down = rb[0].at
      /\ lp.pc = "time" => \/ (Cursor = 0 /\ st \notin {"up", "fall"}) \/ Cursor = 1 \/ Cursor = 2
      /\ st \in {"ready", "down", "hold", "up", "fall", "zero", "idle"}
      BY DEF StraightInv, Cursors
<1>1. CASE KeyDown
  <2>1. st = "ready" /\ st' = "down" /\ Cursor' = Cursor
        BY <1>1 DEF KeyDown, Sampling, WriteData, Cursor
  <2>2. BeforePress'
        BY <1>1, <2>1, LettersPressed DEF Phases
  <2> QED BY <1>0, <2>1, <2>2 DEF Phases, CleanCursor
<1>2. CASE KeyUp
  <2>1. st = "hold" /\ st' = "up" /\ Cursor' = Cursor
        BY <1>2 DEF KeyUp, Sampling, WriteData, Cursor
  <2> QED BY <1>2, <2>1, LettersReleased DEF Phases, CleanCursor
<1>3. CASE Publish
  <2>1. /\ (st = "down" /\ st' = "hold") \/ (st = "up" /\ st' = "fall")
        /\ Cursor' = Cursor /\ Decoded' = Decoded
        /\ UNCHANGED <<now, upAt, keyed, rb, down, up, timeout, pat>>
        BY <1>3 DEF Publish, Sampling, MoveRbHead, Cursor, Decoded, straight, decoded
  <2>2. LastMark' = LastMark /\ Rest' = Rest
        BY <2>1 DEF LastMark, Rest
  <2>3. Cursor # 2
        BY <2>1 DEF CleanCursor
  <2> QED BY <2>1, <2>2, <2>3 DEF Phases, BeforePress, InPress, Lapse
<1>4. CASE EndFall \/ EndReset \/ KeySilence
  <2>1. /\ st \in {"fall", "zero", "idle"} /\ st' \in {"zero", "idle", "ready"}
        /\ st = "fall" => Cursor = 2
        /\ Decoded' = Decoded /\ UNCHANGED <<upAt, keyed, up, timeout, pat>>
        /\ now' >= now /\ now' \in Nat
    <3>1. CASE EndFall
          BY <3>1 DEF EndFall, Sampling, Drained, Cursor, StraightInv, Places, Decoded, straight,
                      decoded, DecType, Clocks
    <3>2. CASE EndReset
          BY <3>2 DEF EndReset, Sampling, Decoded, straight, decoded, DecType, Clocks
    <3>3. CASE KeySilence
      <4>1. now' >= now /\ now' \in Nat
            BY <3>3, DecBounds DEF KeySilence, DecType, Clocks
      <4> QED BY <3>3, <4>1 DEF KeySilence, Sampling, Decoded, straight, decoded
    <3> QED BY <1>4, <3>1, <3>2, <3>3
  <2>2. InPause
        BY <2>1 DEF Phases, CleanCursor
  <2>3. InPause'
    <3>1. now \in Nat /\ up \in Nat
          BY DEF DecType, Clocks
    <3>0. now' >= now /\ now' \in Nat
          BY <2>1, Zenon
    <3>2. \A a, b, c \in Nat : a >= b /\ b - c >= 5 => a - c >= 5
          OBVIOUS
    <3>3. now - up >= 5 => now' - up >= 5
          BY <3>0, <3>1, <3>2
    <3>4. Lapse(now)'
          BY <2>1, <2>2, <3>3 DEF InPause, Lapse
    <3> QED BY <2>1, <2>2, <3>4 DEF InPause
  <2>4. Cursor' # 1
    <3>1. /\ Cursor # 1
          BY <1>0, <2>1
    <3>2. Cursor' \in {Cursor, 0}
          BY <1>4 DEF EndFall, EndReset, KeySilence, events, Cursor, CleanCursor
    <3> QED BY <3>1, <3>2
  <2> QED BY <2>1, <2>3, <2>4 DEF Phases
<1>5. CASE WriteSymbol \/ PublishSymbol
      BY <1>5 DEF WriteSymbol, PublishSymbol
<1>6. CASE Poll
  <2>1. /\ UNCHANGED <<st, now, upAt, keyed, rb, down, up, timeout, pat>> /\ Decoded' = Decoded
        BY <1>6 DEF Poll, Looping, key, events, straight, decoded, Decoded
  <2>2. Cursor' = Cursor
        BY <1>6 DEF Poll, Looping, events, Cursor
  <2>3. LastMark' = LastMark /\ Rest' = Rest
        BY <2>1 DEF LastMark, Rest
  <2> QED BY <2>1, <2>2, <2>3 DEF Phases, InPause, BeforePress, InPress, Lapse
<1>7. CASE Read
  <2>1. /\ lp.pc = "read" /\ Cursor = lp.tail /\ Cursor' = rbTail'
        /\ rbTail' = IF lp.tail = R - 1 THEN 0 ELSE lp.tail + 1
        /\ lp.tail = 0 => st \in {"hold", "up", "fall"} /\ TakeDown(rb[0])
        /\ lp.tail = 1 => /\ st = "fall" /\ down = rb[0].at /\ down > 0 /\ TakeUp(rb[1])
                          /\ rb[1].at = now
        BY <1>7, ReadStraight DEF Read, Cursor
  <2>2. UNCHANGED <<st, keyed, now, upAt>>
        BY <1>7 DEF Read, Looping, key
  <2>3. R \in Nat \ {0, 1, 2}
        BY DecBounds
  <2>4. CASE lp.tail = 0
    <3>1. InPress'
          BY <2>1, <2>2, <2>4, LettersDown DEF Phases
    <3>2. Cursor' = 1
          BY <2>1, <2>3, <2>4
    <3> QED BY <2>1, <2>2, <2>4, <3>1, <3>2 DEF Phases
  <2>5. CASE lp.tail = 1
    <3>1. InPause'
          BY <2>1, <2>2, <2>5, LettersUp DEF Phases
    <3>2. Cursor' = 2
          BY <2>1, <2>3, <2>5
    <3> QED BY <2>1, <2>2, <2>5, <3>1, <3>2 DEF Phases
  <2> QED BY <2>1, <2>4, <2>5 DEF CleanCursor
<1>8. CASE Timeout
  <2>1. Cursor' = Cursor /\ st' = st /\ lp.pc = "time"
        BY <1>8 DEF Timeout, Looping, key, events, Cursor
  <2>2. Cursor = 0 => st \notin {"up", "fall"}
        BY <1>0, <2>1
  <2>3. /\ InPause => InPause'
        /\ BeforePress /\ st \in {"down", "hold"} => BeforePress'
        /\ InPress /\ down = rb[0].at /\ st \in {"hold", "up", "fall"} => InPress'
        BY <1>8, LettersTimeout
  <2> QED BY <1>0, <2>1, <2>2, <2>3 DEF Phases
<1>9. CASE UNCHANGED decVars
  <2>1. UNCHANGED <<st, now, upAt, keyed, rb, rbTail, lp, down, up, timeout, pat, text>>
        BY <1>9 DEF decVars, key, events, straight, decoded
  <2>2. Decoded' = Decoded /\ Cursor' = Cursor
        BY <2>1 DEF Decoded, Cursor
  <2>3. LastMark' = LastMark /\ Rest' = Rest
        BY <2>1 DEF LastMark, Rest
  <2> QED BY <2>1, <2>2, <2>3 DEF Phases, InPause, BeforePress, InPress, Lapse
<1> QED BY <1>1, <1>2, <1>3, <1>4, <1>5, <1>6, <1>7, <1>8, <1>9 DEF DecNext, Keying, Decoding

LEMMA LettersAlways == DecSpec => []LettersInv
<1>1. DecInit => LettersInv
  <2> SUFFICES ASSUME DecInit, kind = "straight" PROVE LettersInv
      BY DEF LettersInv
  <2>1. /\ keyed = <<>> /\ text = <<>> /\ pat = <<>> /\ st = "ready" /\ lp.pc = "poll"
        /\ rbTail = 0 /\ up = 0 /\ upAt = 0 /\ timeout = 0
        BY DEF DecInit
  <2>2. Decoded = <<>> /\ Cursor = 0
        BY <2>1, EmptySeq, ConcatEmptySeq DEF Decoded, Cursor
  <2> QED BY <2>1, <2>2 DEF LettersInv, InPause, Lapse
<1>2. DecType /\ StraightInv /\ LettersInv /\ [DecNext]_decVars => LettersInv'
  <2> SUFFICES ASSUME DecType, StraightInv, LettersInv, [DecNext]_decVars, kind' = "straight", ~torn'
               PROVE  CleanCursor' /\ Phases'
      BY DEF LettersInv, CleanCursor, Phases
  <2>1. kind = "straight"
        BY SidesApart DEF DecNext
  <2>2. ~torn /\ CleanCursor /\ CleanCursor'
        BY <2>1, CleanStep
  <2>3. Phases
        BY <2>1, <2>2 DEF LettersInv, Phases
  <2> QED BY <2>1, <2>2, <2>3, PhasesStep
<1> QED BY <1>1, <1>2, DecTypeAlways, StraightAlways, PTL DEF DecSpec

LEMMA BeginsWhole ==
  ASSUME NEW s \in Seq(Symbols), NEW t \in Seq(Symbols)
  PROVE  Begins(s, s \o t)
<1>1. /\ Len(s) \in Nat /\ Len(t) \in Nat /\ Len(s \o t) = Len(s) + Len(t)
      /\ \A i \in 1 .. Len(s) + Len(t) : (s \o t)[i] = IF i <= Len(s) THEN s[i] ELSE t[i - Len(s)]
      BY ConcatProperties, LenProperties
<1> QED BY <1>1 DEF Begins

\* The letters and spaces are those that were keyed, or a silence has ended the last
\* letter, for rings of any size, any number of marks and any silences.
THEOREM LettersAlwaysAsKeyed == DecSpec => []LettersAsKeyed
<1>1. DecType /\ StraightInv /\ LettersInv /\ PaddleInv => LettersAsKeyed
  <2> SUFFICES ASSUME DecType, StraightInv, LettersInv, PaddleInv, ~torn
               PROVE  \/ Begins(Decoded, keyed)
                      \/ /\ Decoded = Append(keyed, EndOfChar)
                         /\ keyed # <<>> /\ keyed[Len(keyed)] \in DitDah
      BY DEF LettersAsKeyed
  <2>0. keyed \in Seq(Symbols) /\ Decoded \in Seq(Symbols) /\ kind \in {"straight", "paddle"}
        BY LetterEnds DEF DecType, Kept, Rings
  <2>1. CASE kind = "paddle"
        BY <2>1 DEF PaddleInv, RingHolds
  <2>2. CASE kind = "straight" /\ InPause
    <3>1. up \in Nat
          BY DEF DecType, Clocks
    <3>2. up = 0 => Begins(Decoded, keyed)
      <4>1. up = 0 => Decoded = <<>>
            BY <2>2 DEF InPause, Lapse
      <4>2. Len(<<>>) = 0 /\ 1 .. 0 = {} /\ Len(keyed) >= 0
            BY <2>0
      <4> QED BY <4>1, <4>2 DEF Begins
    <3>3. Begins(keyed, keyed)
          BY <2>0, LenProperties DEF Begins
    <3> QED BY <2>2, <3>1, <3>2, <3>3 DEF InPause
  <2>3. CASE kind = "straight" /\ BeforePress
    <3>1. Rest \o LastMark \in Seq(Symbols)
          BY <2>3, RestTyped, ConcatProperties
    <3> QED BY <2>0, <2>3, <3>1, BeginsWhole DEF BeforePress
  <2>4. CASE kind = "straight" /\ InPress
    <3>1. LastMark \in Seq(Symbols)
          BY <2>4, RestTyped
    <3> QED BY <2>0, <2>4, <3>1, BeginsWhole DEF InPress
  <2>5. kind = "straight" => InPause \/ BeforePress \/ InPress
        BY DEF LettersInv, StraightInv
  <2> QED BY <2>0, <2>1, <2>2, <2>3, <2>4, <2>5
<1> QED BY <1>1, DecTypeAlways, StraightAlways, LettersAlways, PaddleAlways, PTL

=============================================================================
