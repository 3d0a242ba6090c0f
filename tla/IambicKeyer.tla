----------------------------- MODULE IambicKeyer -----------------------------
(***************************************************************************)
(* The iambic B paddle keyer.  Three parties share the atomics of          *)
(* s_keyState: the GPIO interrupts (morse_key.cpp) write state and latch   *)
(* memory, the audio task (fillSamples) reads both and clears memory, and  *)
(* loop() changes the speed and the polarity.  Every access of the shared  *)
(* flags is a step of its own, so that an interrupt can fall between any   *)
(* two of them.                                                            *)
(*                                                                         *)
(* Time is abstract while an element sounds (its keyed part, then its      *)
(* silent part) and counted in samples while the keyer is silent, where    *)
(* the word space depends on it.                                           *)
(***************************************************************************)
EXTENDS Integers

CONSTANTS
  Dits,        \* the lengths of a dit in samples, one per speed in use
  WordSpace,   \* MorseConstants::WORD_SPACE_DITS
  Frames,      \* samples per call of fillSamples
  MaxGap       \* a silence longer than any word space: the count stops there

ASSUME DitsType == Dits \subseteq Nat \ {0} /\ Dits # {}
ASSUME WordSpaceType == WordSpace \in Nat
ASSUME FramesType == Frames \in Nat \ {0}
ASSUME MaxGapType == MaxGap \in Nat /\ \A d \in Dits : WordSpace * d < MaxGap

Levers == {"dit", "dah"}

Elements == Levers \union {"none"}

Other(e) == IF e = "dit" THEN "dah" ELSE "dit"

VARIABLES
  lever,      \* per lever: pressed, as the GPIO level says
  edge,       \* per lever: an interrupt is due
  latch,      \* per lever: the interrupt saw a press and has yet to latch it
  state,      \* s_keyState.state[]
  memory,     \* s_keyState.memory[]
  pc,         \* the next access of the audio task
  cur,        \* the lever that access is about, "dit" when it is about none
  element,    \* _currentElement
  total,      \* _elementTotalSamples, until the mark is measured too
  fits,       \* _elementKeyedSamples <= _elementTotalSamples
  released,   \* _radioElementKeyed: keyUp() was called for this element
  demand,     \* keyDown() calls less keyUp() calls of the keyer
  gap,        \* _totalSamplesRendered - _lastElementEndFrame, while silent
  ended,      \* _lastElementEndFrame # 0
  spaced,     \* _spaceWrittenInIdle
  last,       \* the symbol last written to the decoder ring; "mark" is . or -
  dit,        \* the dit length of the current speed
  reversed,   \* _reversed
  clearing    \* setReversed(): stores still to make

hands == <<lever, edge, latch>>
shared == <<state, memory>>
playing == <<element, total, fits, released, demand>>
spacing == <<gap, ended, spaced>>
setup == <<dit, reversed, clearing>>
vars == <<hands, shared, pc, cur, playing, last, spacing, setup>>

Stages == {"idle", "check", "drop", "pick", "size", "keyed", "play",
           "own", "clear", "swap", "repeat"}

\* The lever that drives an element: swapped when the polarity is reversed.
Phys(e) == IF reversed THEN Other(e) ELSE e

Init ==
  /\ lever \in [Levers -> BOOLEAN]
  /\ edge = [p \in Levers |-> FALSE]
  /\ latch = [p \in Levers |-> FALSE]
  /\ state = lever
  /\ memory = [p \in Levers |-> FALSE]
  /\ pc = "idle"
  /\ cur = "dit"
  /\ element = "none"
  /\ total = 0
  /\ fits = TRUE
  /\ released = FALSE
  /\ demand = 0
  /\ gap = 0
  /\ ended = FALSE
  /\ spaced = FALSE
  /\ last = "start"
  /\ dit \in Dits
  /\ reversed = FALSE
  /\ clearing = 0

-----------------------------------------------------------------------------
(* The levers and their interrupts.                                        *)

\* The operator presses or releases a lever; contacts may bounce.
MoveLever(p) ==
  /\ lever' = [lever EXCEPT ![p] = ~@]
  /\ edge' = [edge EXCEPT ![p] = TRUE]
  /\ UNCHANGED <<latch, shared, pc, cur, playing, last, spacing, setup>>

\* isrDit, isrDah: state.exchange(pressed).
IsrState(p) ==
  /\ edge[p] /\ ~latch[p]
  /\ edge' = [edge EXCEPT ![p] = FALSE]
  /\ state' = [state EXCEPT ![p] = lever[p]]
  /\ latch' = [latch EXCEPT ![p] = lever[p] /\ ~state[p]]
  /\ UNCHANGED <<lever, memory, pc, cur, playing, last, spacing, setup>>

\* isrDit, isrDah: memory.store(SET) after a rising edge.
IsrLatch(p) ==
  /\ latch[p]
  /\ memory' = [memory EXCEPT ![p] = TRUE]
  /\ latch' = [latch EXCEPT ![p] = FALSE]
  /\ UNCHANGED <<lever, edge, state, pc, cur, playing, last, spacing, setup>>

Isr(p) == IsrState(p) \/ IsrLatch(p)

-----------------------------------------------------------------------------
(* The audio task, silent: fillSamples with no element.                    *)

Goto(stage) == pc' = stage

Write(symbol) == last' = symbol

\* AudioEngine calls fillSamples only while there is something to do.
Active ==
  \/ \E p \in Levers : memory[p]
  \/ ended /\ ~spaced

WordGap == ended /\ ~spaced /\ gap > WordSpace * dit

\* Fault: nothing remembers that the space was written.
IdleRepeatingSpace ==
  /\ pc = "idle" /\ Active
  /\ IF WordGap
       THEN Write(" ") /\ gap' = 0 /\ UNCHANGED <<ended, spaced>>
       ELSE UNCHANGED <<last, spacing>>
  /\ cur' = "dit"
  /\ Goto("check")
  /\ UNCHANGED <<hands, shared, playing, setup>>

\* The word space is written once per silence.
Idle ==
  /\ pc = "idle" /\ Active
  /\ IF WordGap
       THEN Write(" ") /\ spaced' = TRUE /\ gap' = 0 /\ UNCHANGED ended
       ELSE UNCHANGED <<last, spacing>>
  /\ cur' = "dit"
  /\ Goto("check")
  /\ UNCHANGED <<hands, shared, playing, setup>>

\* The lever after `cur` in the order the code asks them.
NextLever(stage) ==
  IF cur = "dit" THEN cur' = "dah" /\ Goto(stage)
                 ELSE cur' = "dit" /\ Goto("pick")

\* Validation: is a latched lever released, by its GPIO level?
Check ==
  /\ pc = "check"
  /\ IF memory[cur] /\ ~lever[cur]
       THEN Goto("drop") /\ UNCHANGED cur
       ELSE NextLever("check")
  /\ UNCHANGED <<hands, shared, playing, last, spacing, setup>>

\* Validation: the store that follows.
Drop ==
  /\ pc = "drop"
  /\ memory' = [memory EXCEPT ![cur] = FALSE]
  /\ NextLever("check")
  /\ UNCHANGED <<hands, state, playing, last, spacing, setup>>

\* The first latched lever starts its element, the physical dit lever first.
Pick ==
  /\ pc = "pick" /\ memory[cur]
  /\ spaced' = FALSE
  /\ gap' = 0
  /\ element' = Phys(cur)
  /\ cur' = "dit"
  /\ Goto("size")
  /\ UNCHANGED <<hands, shared, total, fits, released, demand, last,
                 ended, setup>>

PickNext ==
  /\ pc = "pick" /\ ~memory[cur] /\ cur = "dit"
  /\ cur' = "dah"
  /\ UNCHANGED <<hands, shared, pc, playing, last, spacing, setup>>

\* Nothing latched: the whole buffer is silence.
Silence ==
  /\ pc = "pick" /\ ~memory[cur] /\ cur = "dah"
  /\ gap' = IF gap + Frames > MaxGap THEN MaxGap ELSE gap + Frames
  /\ cur' = "dit"
  /\ Goto("idle")
  /\ UNCHANGED <<hands, shared, playing, last, ended, spaced, setup>>

-----------------------------------------------------------------------------
(* The audio task, sounding: startElement and the rest of fillSamples.     *)

Marks(e) == IF e = "dit" THEN 1 ELSE 3

\* startElement(): envelopeSize() at the speed of this moment.
Size ==
  /\ pc = "size"
  /\ total' = (Marks(element) + 1) * dit
  /\ released' = FALSE
  /\ Goto("keyed")
  /\ UNCHANGED <<hands, shared, cur, element, fits, demand, last, spacing, setup>>

\* startElement(): ditLengthSamples() at the speed of this moment, keyDown().
Keyed ==
  /\ pc = "keyed"
  /\ fits' = (Marks(element) * dit <= total)
  /\ total' = 0
  /\ demand' = demand + 1
  /\ Goto("play")
  /\ UNCHANGED <<hands, shared, cur, element, released, last, spacing, setup>>

\* Fault: the key is released with the element instead of with its mark.
EndMarkLate ==
  /\ pc = "play" /\ ~released /\ fits
  /\ released' = TRUE
  /\ UNCHANGED <<hands, shared, pc, cur, element, total, fits, demand, last,
                 spacing, setup>>

\* The keyed samples have been played: keyUp(), once per element.
EndMark ==
  /\ pc = "play" /\ ~released /\ fits
  /\ released' = TRUE
  /\ demand' = demand - 1
  /\ UNCHANGED <<hands, shared, pc, cur, element, total, fits, last, spacing, setup>>

\* All samples have been played: the element's symbol goes to the decoder.
EndElement ==
  /\ pc = "play" /\ (released \/ ~fits)
  /\ Write("mark")
  /\ gap' = 0
  /\ ended' = TRUE
  /\ cur' = Phys(element)
  /\ Goto("own")
  /\ UNCHANGED <<hands, shared, playing, spaced, setup>>

\* Is the lever of this element still pressed?
Own ==
  /\ pc = "own"
  /\ Goto(IF state[cur] THEN "swap" ELSE "clear")
  /\ UNCHANGED <<hands, shared, cur, playing, last, spacing, setup>>

\* Fault: a released lever keeps its memory.
ClearNothing ==
  /\ pc = "clear"
  /\ Goto("swap")
  /\ UNCHANGED <<hands, shared, cur, playing, last, spacing, setup>>

\* If it was not, its memory is cleared.
Clear ==
  /\ pc = "clear"
  /\ memory' = [memory EXCEPT ![cur] = FALSE]
  /\ Goto("swap")
  /\ UNCHANGED <<hands, state, cur, playing, last, spacing, setup>>

\* Fault: the same lever is asked before the opposite one.
SwapAfterRepeat ==
  /\ pc = "swap"
  /\ IF ~memory[cur] /\ memory[Other(cur)]
       THEN element' = Other(element) /\ cur' = "dit" /\ Goto("size")
       ELSE Goto("repeat") /\ UNCHANGED <<element, cur>>
  /\ UNCHANGED <<hands, shared, total, fits, released, demand, last, spacing, setup>>

\* SWAP: the opposite lever is latched.
Swap ==
  /\ pc = "swap"
  /\ IF memory[Other(cur)]
       THEN element' = Other(element) /\ cur' = "dit" /\ Goto("size")
       ELSE Goto("repeat") /\ UNCHANGED <<element, cur>>
  /\ UNCHANGED <<hands, shared, total, fits, released, demand, last, spacing, setup>>

\* AUTOREPEAT: the lever of this element is still latched.
Repeat ==
  /\ pc = "repeat" /\ memory[cur]
  /\ cur' = "dit"
  /\ Goto("size")
  /\ UNCHANGED <<hands, shared, playing, last, spacing, setup>>

\* END OF CHARACTER.
EndCharacter ==
  /\ pc = "repeat" /\ ~memory[cur]
  /\ element' = "none"
  /\ Write("*")
  /\ spaced' = FALSE
  /\ gap' = 0
  /\ ended' = TRUE
  /\ cur' = "dit"
  /\ Goto("idle")
  /\ UNCHANGED <<hands, shared, total, fits, released, demand, setup>>

Audio ==
  \/ Idle \/ Check \/ Drop \/ Pick \/ PickNext \/ Silence
  \/ Size \/ Keyed \/ EndMark \/ EndElement
  \/ Own \/ Clear \/ Swap \/ Repeat \/ EndCharacter

-----------------------------------------------------------------------------
(* loop(): settings.                                                       *)

\* setWPM(): the envelope takes the new length at its next use.
SetWPM(d) ==
  /\ d # dit
  /\ dit' = d
  /\ UNCHANGED <<hands, shared, pc, cur, playing, last, spacing, reversed, clearing>>

\* setReversed(): the exchange, before its four stores.
SetReversed ==
  /\ clearing = 0
  /\ reversed' = ~reversed
  /\ clearing' = 4
  /\ UNCHANGED <<hands, shared, pc, cur, playing, last, spacing, dit>>

\* setReversed(): memory of both levers, then state of both levers.
ClearStore ==
  /\ clearing > 0
  /\ clearing' = clearing - 1
  /\ LET p == IF clearing % 2 = 0 THEN "dit" ELSE "dah"
     IN  IF clearing > 2
           THEN memory' = [memory EXCEPT ![p] = FALSE] /\ UNCHANGED state
           ELSE state' = [state EXCEPT ![p] = FALSE] /\ UNCHANGED memory
  /\ UNCHANGED <<hands, pc, cur, playing, last, spacing, dit, reversed>>

Loop ==
  \/ \E d \in Dits : SetWPM(d)
  \/ SetReversed
  \/ ClearStore

Next ==
  \/ \E p \in Levers : MoveLever(p) \/ Isr(p)
  \/ Audio
  \/ Loop

Spec == Init /\ [][Next]_vars

\* The audio task is paced by the I2S DMA, interrupts are served, and a call
\* of setReversed() returns; the operator owes nothing.
Fairness ==
  /\ WF_vars(Audio)
  /\ \A p \in Levers : WF_vars(Isr(p))
  /\ WF_vars(ClearStore)

FairSpec == Spec /\ Fairness

-----------------------------------------------------------------------------
TypeOK ==
  /\ lever \in [Levers -> BOOLEAN]
  /\ edge \in [Levers -> BOOLEAN]
  /\ latch \in [Levers -> BOOLEAN]
  /\ state \in [Levers -> BOOLEAN]
  /\ memory \in [Levers -> BOOLEAN]
  /\ pc \in Stages
  /\ cur \in Levers
  /\ element \in Elements
  /\ total \in Nat
  /\ fits \in BOOLEAN
  /\ released \in BOOLEAN
  /\ demand \in Nat
  /\ gap \in 0 .. MaxGap
  /\ ended \in BOOLEAN
  /\ spaced \in BOOLEAN
  /\ last \in {"start", "mark", "*", " "}
  /\ dit \in Dits
  /\ reversed \in BOOLEAN
  /\ clearing \in 0 .. 4

\* Speeds close enough for a change inside startElement() to be harmless: a
\* dah keyed at the new speed still ends within a dah sized at the old one.
GentleSpeeds == \A d, e \in Dits : 3 * e <= 4 * d

\* The transmitter is keyed exactly during the mark of an element: keyDown()
\* once when it starts, keyUp() once before it ends, however interrupts and
\* changes of speed and polarity fall.
KeyedExactly ==
  demand = IF pc = "play" /\ ~released THEN 1 ELSE 0

\* What the decoder reads is well formed: a character is ended once, after its
\* marks; a word is ended at most once, after a character.
SymbolOrder ==
  [][ /\ (EndCharacter => last = "mark")
      /\ ((Idle /\ WordGap) => last = "*") ]_vars

\* Once the operator lets go of the paddle for good, the keyer falls silent,
\* with the character and the word closed for the decoder.
HandsOff == \A p \in Levers : ~lever[p]

AtRest ==
  /\ element = "none"
  /\ demand = 0
  /\ last \in {"start", " "}

ComesToRest == <>[]HandsOff => <>[]AtRest

\* A lever held with its memory latched sounds again and again, whatever the
\* other lever does: squeezing starves neither.
Holding(p) == lever[p] /\ state[p] /\ memory[p] /\ clearing = 0

Sounding(p) == pc = "play" /\ element = Phys(p)

HeldKeepsSounding ==
  \A p \in Levers : <>[]Holding(p) => []<>Sounding(p)

=============================================================================
