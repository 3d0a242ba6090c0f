----------------------------- MODULE AudioEngine -----------------------------
(***************************************************************************)
(* The audio engine and the three sources of code it routes: the iambic    *)
(* keyer, the straight key and the player of stored text.  A step of the   *)
(* audio task is a call of fillBuffer(); loop() starts and stops texts and *)
(* changes the type of the key between two of them.  All sources key one   *)
(* transmitter, through the count of KeyEventBus.                          *)
(*                                                                         *)
(* A buffer is far shorter than a dit, so that each holds at most one      *)
(* event of the source it is routed to.  Durations are abstract: a mark or *)
(* a silence lasts any number of buffers.                                  *)
(***************************************************************************)
EXTENDS Integers, Sequences, FiniteSets

CONSTANTS
  Letters,  \* the characters of texts, the blank apart
  Texts     \* the texts, with what encode() makes of each

Blank == " "
Nul == "NUL"   \* the character behind the last

Characters == Letters \union {Blank, Nul}

Elements == {"DIT", "DAH", "CHAR_SPACE", "WORD_SPACE"}

ASSUME TextsType ==
  Texts \subseteq [chars : Seq(Characters), elements : Seq(Elements)]

\* Element::keyDown
Keys(el) == el \in {"DIT", "DAH"}

Levers == {"dit", "dah"}

KeyTypes == {"paddle", "straight"}

Other(p) == IF p = "dit" THEN "dah" ELSE "dit"

VARIABLES
  lever,      \* per lever: pressed, as the GPIO level says
  state,      \* s_keyState.state[]
  memory,     \* s_keyState.memory[]
  type,       \* MorseModel's keyer type
  suppressed, \* s_paddleSuppressed
  playing,    \* player: _state is PLAYING
  starting,   \* playText() is under way: the first element set up, PLAYING not
              \* yet published
  elements,   \* player: _elements
  at,         \* player: _elIdx, the elements entered so far
  down,       \* player: _elKeyDown
  was,        \* player: _wasElKeyDown
  released,   \* player: _radioElementKeyed
  boundary,   \* player: _endedWithBoundarySilence
  echo,       \* player: _playText, _charIdx, _currentChar, and the characters
              \* shown of this text so far
  element,    \* iambic keyer: the lever whose element sounds, or "none"
  over,       \* iambic keyer: _radioElementKeyed
  waiting,    \* iambic keyer: an element ended, its word space is not written
              \* (asked only while no element sounds)
  straight,   \* straight key: _state
  count,      \* KeyEventBus: _demand
  tone,       \* the last buffer sounded a mark
  keyed,      \* history: elements of the text for which keyDown() was called
  consumed    \* history: levers whose last press cancelled a text

hands == <<lever, state, memory>>
routing == <<type, suppressed>>
text == <<playing, starting, elements, at, down, was, released, boundary, keyed,
          echo>>
iambic == <<element, over, waiting>>
vars == <<hands, routing, text, iambic, straight, count, tone, consumed>>

-----------------------------------------------------------------------------
(* The player's echo on the display: _charIdx follows the elements through *)
(* the text, which has characters that no element stands for.              *)

CharAt(s, i) == IF i < Len(s) THEN s[i + 1] ELSE Nul

\* From place i on, blanks are passed.
PastBlanks(s, i) ==
  i + Cardinality({j \in i + 1 .. Len(s) : \A k \in i + 1 .. j : s[k] = Blank})

\* playText(): at the first character, nothing shown.
Rewound(s) ==
  [chars |-> s, charIdx |-> 0, currentChar |-> CharAt(s, 0), shown |-> << >>]

AtPlace(e, i) == [e EXCEPT !.charIdx = i, !.currentChar = CharAt(e.chars, i)]

\* Fault: blanks are not skipped.
AtMarkBlank(e) == AtPlace(e, e.charIdx)

\* A mark: it belongs to the next character that is not blank.
AtMark(e) == AtPlace(e, PastBlanks(e.chars, e.charIdx))

\* A space: the character before it is complete and shown, with the blank of a
\* space between words.
AtSpace(e, el) ==
  LET between == /\ el = "WORD_SPACE"
                 /\ e.currentChar # Blank
                 /\ PastBlanks(e.chars, e.charIdx + 1) < Len(e.chars)
      shown == e.shown \o <<e.currentChar>> \o IF between THEN <<Blank>> ELSE << >>
  IN IF e.charIdx < Len(e.chars)
       THEN [AtPlace(e, e.charIdx + 1) EXCEPT !.shown = shown]
       ELSE e

Echoed(e, el) == IF Keys(el) THEN AtMark(e) ELSE AtSpace(e, el)

\* No element is left: what is left of the text is shown.
AtEnd(e) ==
  [e EXCEPT !.shown = @ \o SubSeq(e.chars, e.charIdx + 1, Len(e.chars)),
            !.charIdx = Len(e.chars),
            !.currentChar = Nul]

-----------------------------------------------------------------------------
Init ==
  /\ lever \in [Levers -> BOOLEAN]
  /\ state = lever
  /\ memory = [p \in Levers |-> FALSE]
  /\ type \in KeyTypes
  /\ suppressed = FALSE
  /\ playing = FALSE
  /\ starting = FALSE
  /\ elements = << >>
  /\ at = 0
  /\ down = FALSE
  /\ was = FALSE
  /\ released = FALSE
  /\ boundary = FALSE
  /\ echo = Rewound(<< >>)
  /\ element = "none"
  /\ over = FALSE
  /\ waiting = FALSE
  /\ straight = "IDLE"
  /\ count = 0
  /\ tone = FALSE
  /\ keyed = {}
  /\ consumed = {}

-----------------------------------------------------------------------------
(* The bus and the levers.                                                 *)

KeyDown == count' = count + 1

KeyUp == count' = IF count > 0 THEN count - 1 ELSE 0

Holding == \E p \in Levers : state[p]

NoMemory == [p \in Levers |-> FALSE]

\* A lever moves and its interrupt is served: isrDit, isrDah.
MoveLever(p) ==
  /\ lever' = [lever EXCEPT ![p] = ~@]
  /\ state' = [state EXCEPT ![p] = lever'[p]]
  /\ memory' = [memory EXCEPT ![p] = @ \/ (lever'[p] /\ ~state[p])]
  /\ consumed' = IF lever[p] THEN consumed
                 ELSE IF suppressed THEN consumed \union {p}
                 ELSE consumed \ {p}
  /\ UNCHANGED <<routing, text, iambic, straight, count, tone>>

-----------------------------------------------------------------------------
(* The player.                                                             *)

\* advanceToNextElement() with elements left: the edge of the key and the
\* set-up of element k.  `held` is what _wasElKeyDown was.
Enter(seq, k, held) ==
  /\ at' = k
  /\ down' = Keys(seq[k])
  /\ was' = Keys(seq[k])
  /\ IF Keys(seq[k]) /\ ~held THEN KeyDown
     ELSE IF ~Keys(seq[k]) /\ held THEN KeyUp
     ELSE UNCHANGED count

\* Fault: a mark that was cut off keeps the transmitter keyed.
StopKeyed ==
  /\ playing' = FALSE
  /\ at' = 0
  /\ down' = FALSE
  /\ boundary' = FALSE
  /\ released' = FALSE
  /\ was' = FALSE
  /\ UNCHANGED <<starting, elements, keyed, echo, count>>

\* stop(): ends the text, and the mark it is in.
Stop ==
  /\ playing' = FALSE
  /\ at' = 0
  /\ down' = FALSE
  /\ boundary' = FALSE
  /\ released' = FALSE
  /\ IF was THEN KeyUp ELSE UNCHANGED count
  /\ was' = FALSE
  /\ UNCHANGED <<starting, elements, keyed, echo>>

\* playText(): a continuation is set apart from the text before it, unless
\* that ended in silence or this one begins with it.
SetApart(seq, continues) ==
  continues /\ ~boundary /\ seq # << >> /\ Keys(seq[1])

Prepared(seq, continues) ==
  IF SetApart(seq, continues) THEN <<"CHAR_SPACE">> \o seq ELSE seq

\* playText(), up to the first element: the audio task still sees IDLE.  The
\* space that sets a continuation apart shows no character.
PlayText(t, continues) ==
  /\ ~playing /\ ~starting
  /\ elements' = Prepared(t.elements, continues)
  /\ boundary' = FALSE
  /\ released' = FALSE
  /\ starting' = (elements' # << >>)
  /\ IF elements' = << >>
       THEN at' = 0 /\ down' = FALSE /\ was' = FALSE /\ UNCHANGED count
       ELSE Enter(elements', 1, FALSE)
  /\ keyed' = {k \in {1} : elements' # << >> /\ Keys(elements'[1])}
  /\ echo' = LET start == Rewound(t.chars)
             IN IF elements' = << >> THEN AtEnd(start)
                ELSE IF SetApart(t.elements, continues) THEN start
                ELSE Echoed(start, elements'[1])
  /\ UNCHANGED <<hands, routing, playing, iambic, straight, tone, consumed>>

\* playText(): PLAYING is published, last.
Publish ==
  /\ starting
  /\ starting' = FALSE
  /\ playing' = TRUE
  /\ UNCHANGED <<hands, routing, elements, at, down, was, released, boundary,
                 keyed, echo, iambic, straight, count, tone, consumed>>

\* loop(): any key pressed while a text plays, or the host's clear buffer.
StopText ==
  /\ ~starting
  /\ Stop
  /\ UNCHANGED <<hands, routing, iambic, straight, tone, consumed>>

-----------------------------------------------------------------------------
(* loop(): the settings that reach the sources.                            *)

\* The output is switched off, with the forceAllUp() of setEnabled(false),
\* and on again at some later time.  The sources do not notice.
SwitchOff ==
  /\ ~starting
  /\ count' = 0
  /\ UNCHANGED <<hands, routing, text, iambic, straight, tone, consumed>>

\* The web page sets the type, and nothing else.  (The screen that also
\* cleared the keys' state cannot be reached: main.cpp:842-847.)
WebType ==
  /\ ~starting
  /\ type' \in KeyTypes \ {type}
  /\ UNCHANGED <<hands, suppressed, text, iambic, straight, count, tone,
                 consumed>>

\* Fault: PLAYING is published before the first element is set up, as it was
\* once (the comment at morse_generator.cpp:167-181).
PublishEarly(t, continues) ==
  /\ ~playing /\ ~starting
  /\ elements' = Prepared(t.elements, continues)
  /\ boundary' = FALSE
  /\ released' = FALSE
  /\ starting' = (elements' # << >>)
  /\ playing' = starting'
  /\ at' = 0 /\ down' = FALSE /\ was' = FALSE
  /\ keyed' = {}
  /\ echo' = Rewound(t.chars)
  /\ UNCHANGED <<hands, routing, iambic, straight, count, tone, consumed>>

SetUpLate ==
  /\ starting
  /\ starting' = FALSE
  /\ at < Len(elements)
  /\ Enter(elements, at + 1, was)
  /\ released' = (released /\ ~Keys(elements[at + 1]))
  /\ keyed' = IF Keys(elements[at + 1]) /\ ~was THEN keyed \union {at + 1} ELSE keyed
  /\ UNCHANGED <<hands, routing, playing, elements, boundary, echo, iambic,
                 straight, tone, consumed>>

StartTextEarly ==
  \/ \E t \in Texts, c \in BOOLEAN : PublishEarly(t, c)
  \/ SetUpLate

StartText ==
  \/ \E t \in Texts, c \in BOOLEAN : PlayText(t, c)
  \/ Publish

Loop ==
  \/ StartText
  \/ StopText
  \/ SwitchOff \/ WebType

-----------------------------------------------------------------------------
(* fillBuffer(): cancel and suppression.                                   *)

Sound(b) == tone' = b

\* A lever is down while a text plays: the text ends, the press is consumed.
Cancel ==
  /\ playing /\ Holding
  /\ Stop
  /\ suppressed' = TRUE
  /\ consumed' = consumed \union {p \in Levers : state[p] \/ memory[p]}
  /\ Sound(FALSE)
  /\ UNCHANGED <<hands, type, iambic, straight>>

\* The press is still held: silence.
Suppress ==
  /\ suppressed /\ Holding /\ ~playing
  /\ Sound(FALSE)
  /\ UNCHANGED <<hands, routing, text, iambic, straight, count, consumed>>

\* Fault: the consumed press stays latched.
ReleaseLatched ==
  /\ suppressed /\ ~Holding
  /\ suppressed' = FALSE
  /\ Sound(FALSE)
  /\ UNCHANGED <<hands, type, text, iambic, straight, count, consumed>>

\* The press ended: clearMemory().
Release ==
  /\ suppressed /\ ~Holding
  /\ suppressed' = FALSE
  /\ memory' = NoMemory
  /\ state' = NoMemory
  /\ Sound(FALSE)
  /\ UNCHANGED <<lever, type, text, iambic, straight, count, consumed>>

Free == ~suppressed /\ ~(playing /\ Holding)

-----------------------------------------------------------------------------
(* fillBuffer(): the iambic keyer.                                         *)

Latched == {p \in Levers : memory[p] /\ lever[p]}

ToIambic ==
  /\ Free
  /\ type = "paddle"
  /\ element # "none" \/ waiting \/ \E p \in Levers : memory[p]

\* startElement(): keyDown() and a fresh latch for its keyUp().
Start(p) ==
  /\ element' = p
  /\ over' = FALSE
  /\ KeyDown

\* A latched lever that its GPIO confirms starts, the dit lever first.
IambicStart ==
  /\ ToIambic
  /\ element = "none"
  /\ Latched # {}
  /\ Start(IF "dit" \in Latched THEN "dit" ELSE "dah")
  /\ memory' = [p \in Levers |-> p \in Latched]
  /\ Sound(TRUE)
  /\ UNCHANGED <<lever, state, routing, text, waiting, straight, consumed>>

\* Fault: the end of the word is never noticed.
IambicSilenceForEver ==
  /\ ToIambic
  /\ element = "none"
  /\ Latched = {}
  /\ memory' = NoMemory
  /\ Sound(FALSE)
  /\ UNCHANGED <<lever, state, routing, text, iambic, straight, count,
                 consumed>>

\* Nothing to start: the space of the word is written, or not yet due.
IambicSilence ==
  /\ ToIambic
  /\ element = "none"
  /\ Latched = {}
  /\ memory' = NoMemory
  /\ waiting' \in {waiting, FALSE}
  /\ Sound(FALSE)
  /\ UNCHANGED <<lever, state, routing, text, element, over, straight, count,
                 consumed>>

\* Within the mark or within the silence behind it.
IambicSound ==
  /\ ToIambic
  /\ element # "none"
  /\ Sound(~over)
  /\ UNCHANGED <<hands, routing, text, iambic, straight, count, consumed>>

\* The mark ends: keyUp().
IambicEndMark ==
  /\ ToIambic
  /\ element # "none" /\ ~over
  /\ over' = TRUE
  /\ KeyUp
  /\ Sound(TRUE)
  /\ UNCHANGED <<hands, routing, text, element, waiting, straight, consumed>>

\* The element ends: swap, repeat, or end of the character.
IambicEndElement ==
  /\ ToIambic
  /\ element # "none" /\ over
  /\ memory' = [memory EXCEPT ![element] = @ /\ state[element]]
  /\ IF memory'[Other(element)] THEN Start(Other(element))
     ELSE IF memory'[element] THEN Start(element)
     ELSE element' = "none" /\ UNCHANGED <<over, count>>
  /\ waiting' = TRUE
  /\ Sound(element' # "none")
  /\ UNCHANGED <<lever, state, routing, text, straight, consumed>>

Iambic ==
  \/ IambicStart \/ IambicSilence
  \/ IambicSound \/ IambicEndMark \/ IambicEndElement

-----------------------------------------------------------------------------
(* fillBuffer(): the straight key.                                         *)

ToStraight == Free /\ type = "straight" /\ ~playing

\* The contact closes, or a closure is latched: the mark begins.
StraightDown ==
  /\ ToStraight
  /\ straight = "IDLE"
  /\ lever["dit"] \/ memory["dit"]
  /\ straight' = "RISE"
  /\ KeyDown
  /\ Sound(TRUE)
  /\ UNCHANGED <<hands, routing, text, iambic, consumed>>

\* The contact opens, by GPIO or by interrupt: the mark ends.
StraightUp ==
  /\ ToStraight
  /\ straight = "HOLD"
  /\ ~lever["dit"] \/ ~state["dit"]
  /\ straight' = "FALL"
  /\ memory' = [memory EXCEPT !["dit"] = FALSE]
  /\ KeyUp
  /\ Sound(TRUE)
  /\ UNCHANGED <<lever, state, routing, text, iambic, consumed>>

\* A ramp ends: the attack, or the decay.
StraightRamp ==
  /\ ToStraight
  /\ straight \in {"RISE", "FALL"}
  /\ straight' = IF straight = "RISE" THEN "HOLD" ELSE "IDLE"
  /\ Sound(TRUE)
  /\ UNCHANGED <<hands, routing, text, iambic, count, consumed>>

\* Within a ramp, or nothing changes at the contact.
StraightStay ==
  /\ ToStraight
  /\ straight = "IDLE" => ~lever["dit"] /\ ~memory["dit"]
  /\ straight = "HOLD" => lever["dit"] /\ state["dit"]
  /\ Sound(straight # "IDLE")
  /\ UNCHANGED <<hands, routing, text, iambic, straight, count, consumed>>

Straight == StraightDown \/ StraightUp \/ StraightRamp \/ StraightStay

-----------------------------------------------------------------------------
(* fillBuffer(): the player.                                               *)

ToPlayer == Free /\ ~ToIambic /\ playing

\* Within the mark, within the silence behind it, or within a space.
PlayerSound ==
  /\ ToPlayer
  /\ Sound(down /\ ~released)
  /\ UNCHANGED <<hands, routing, text, iambic, straight, count, consumed>>

\* The keyed part of a mark ends: keyUp().
PlayerEndMark ==
  /\ ToPlayer
  /\ down /\ ~released
  /\ KeyUp
  /\ released' = TRUE
  /\ was' = FALSE
  /\ Sound(TRUE)
  /\ UNCHANGED <<hands, routing, playing, starting, elements, at, down, boundary,
                 keyed, echo, iambic, straight, consumed>>

\* The element ends and another follows.
PlayerAdvance ==
  /\ ToPlayer
  /\ down => released
  /\ at < Len(elements)
  /\ Enter(elements, at + 1, was)
  /\ released' = (released /\ ~Keys(elements[at + 1]))
  /\ keyed' = IF Keys(elements[at + 1]) /\ ~was THEN keyed \union {at + 1} ELSE keyed
  /\ echo' = Echoed(echo, elements[at + 1])
  /\ Sound(Keys(elements[at + 1]))
  /\ UNCHANGED <<hands, routing, playing, starting, elements, boundary, iambic,
                 straight, consumed>>

\* The last element ends: the player is idle.
PlayerExhausted ==
  /\ ToPlayer
  /\ down => released
  /\ at = Len(elements)
  /\ playing' = FALSE
  /\ down' = FALSE
  /\ was' = FALSE
  /\ IF was THEN KeyUp ELSE UNCHANGED count
  /\ boundary' = ~Keys(elements[Len(elements)])
  /\ echo' = AtEnd(echo)
  /\ Sound(FALSE)
  /\ UNCHANGED <<hands, routing, starting, elements, at, released, keyed, iambic,
                 straight, consumed>>

Player == PlayerSound \/ PlayerEndMark \/ PlayerAdvance \/ PlayerExhausted

-----------------------------------------------------------------------------
\* No source: the raw side tone, which nothing in the firmware switches on.
Silence ==
  /\ Free /\ ~ToIambic /\ ~ToStraight /\ ~playing
  /\ Sound(FALSE)
  /\ UNCHANGED <<hands, routing, text, iambic, straight, count, consumed>>

FillBuffer ==
  \/ Cancel \/ Suppress \/ Release
  \/ Iambic \/ Straight \/ Player
  \/ Silence

Next ==
  \/ \E p \in Levers : MoveLever(p)
  \/ Loop
  \/ FillBuffer

Spec == Init /\ [][Next]_vars

\* The audio task is paced by the I2S DMA, and loop() does not stop in a call.
FairSpec == Spec /\ WF_vars(FillBuffer) /\ WF_vars(Publish)

-----------------------------------------------------------------------------
EchoRecords ==
  [chars : Seq(Characters), charIdx : Nat, currentChar : Characters,
   shown : Seq(Characters)]

\* What the echo can be: a place in the text or behind its end.
Echoes == {e \in EchoRecords : /\ e.charIdx <= Len(e.chars)
                               /\ e.currentChar = CharAt(e.chars, e.charIdx)}

TypeOK ==
  /\ lever \in [Levers -> BOOLEAN]
  /\ state \in [Levers -> BOOLEAN]
  /\ memory \in [Levers -> BOOLEAN]
  /\ type \in KeyTypes
  /\ suppressed \in BOOLEAN
  /\ playing \in BOOLEAN
  /\ starting \in BOOLEAN
  /\ elements \in Seq(Elements)
  /\ at \in 0 .. Len(elements)
  /\ down \in BOOLEAN
  /\ was \in BOOLEAN
  /\ released \in BOOLEAN
  /\ boundary \in BOOLEAN
  /\ echo \in Echoes
  /\ element \in Levers \union {"none"}
  /\ over \in BOOLEAN
  /\ waiting \in BOOLEAN
  /\ straight \in {"IDLE", "RISE", "HOLD", "FALL"}
  /\ count \in Nat
  /\ tone \in BOOLEAN
  /\ keyed \subseteq 1 .. Len(elements)
  /\ consumed \subseteq Levers

\* The sources that are within a mark.
PlayerMark == (playing \/ starting) /\ down /\ ~released
IambicMark == element # "none" /\ ~over
StraightMark == straight \in {"RISE", "HOLD"}

One(b) == IF b THEN 1 ELSE 0

\* The transmitter is never keyed by nobody: wherever a text is stopped, a
\* press suppressed, the type changed or the count forced to zero, each
\* count has a source that is within a mark and will take it back.
CountCovered ==
  count <= One(PlayerMark) + One(IambicMark) + One(StraightMark)

\* Each mark of a text reaches the bus, also behind another mark with no
\* space between them: the player called keyDown() in every mark entered.
EveryMarkKeyed ==
  playing \/ starting => keyed = {k \in 1 .. at : Keys(elements[k])}

\* What the display shows of a text follows what is keyed of it, whatever the
\* blanks at its ends and between its words: it is the beginning of the text,
\* never ahead of the character whose mark sounds, and the whole of the text
\* when the player has come to its end (morse_generator.cpp:315-322, 378-385
\* tell of two earlier versions where it was not).
EchoFollowsText ==
  /\ \E n \in 0 .. Len(echo.chars) : echo.shown = SubSeq(echo.chars, 1, n)
  /\ PlayerMark => echo.shown = SubSeq(echo.chars, 1, echo.charIdx)
  /\ ~playing /\ at = Len(elements) /\ ~starting => echo.shown = echo.chars

\* A press that cancelled a text, or fell while it was suppressed, never
\* sounds, neither when the lever is let go nor later (docs/memory.md 2.6).
PressConsumed ==
  [][ /\ (IambicStart \/ IambicEndElement) => element' \notin consumed
      /\ StraightDown => "dit" \notin consumed ]_vars

\* A mark whose source the web page has taken away from the audio task.
Frozen ==
  \/ type = "straight" /\ IambicMark
  \/ type = "paddle" /\ StraightMark

\* No way of starting, stopping or routing leaves the transmitter keyed: once
\* the levers are at rest, no text is started and the web page sets no type
\* any more, it falls, unless the page has frozen a mark.
HandsOff == \A p \in Levers : ~lever[p]

NeverStuck ==
  <>[]HandsOff /\ <>[][~StartText /\ ~WebType]_vars => []<>(count = 0 \/ Frozen)

\* docs/keyer.md:41: the output is HIGH while the side tone is on and LOW
\* while it is off.  A buffer of a keyer through which the count stays up has
\* tone, save while a press that cancelled a text is held and for a mark that
\* the web page froze.
OnAirMatchesSidetone ==
  [][ FillBuffer /\ count > 0 /\ count' > 0 /\ ~playing /\ ~starting
        /\ ~suppressed /\ ~Frozen
        => tone' ]_vars

=============================================================================
