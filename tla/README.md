# A verification project for A1Keyer

A1Keyer is a Morse keyer for the M5Stack Cardputer (ESP32-S3, two cores,
FreeRTOS): paddles or a straight key in, sidetone and a transmitter line out, a
decoder, stored texts, a WinKeyer-compatible serial protocol for logging
programs, and Wi-Fi with a web page. This directory holds TLA+ modules of the
parts of it where the order of events matters, TLC configurations that check
them on small instances, and TLAPS proofs for every value of the constants.

All paths below are relative to the repository; the firmware is in `src/`.

## 1. Inventory

### 1.1 Who runs what

| Context | Runs | Calls |
|---|---|---|
| GPIO interrupts | `isrDit`, `isrDah` (`morse_key.cpp`) | on every edge of a paddle lever |
| Audio task, core 1 | `AudioEngine::fillBuffer`: iambic keyer, straight key, player, sidetone | paced by the I2S DMA |
| `loop()`, core 0 | keyboard, web requests, WinKeyer bytes, Wi-Fi `poll()`, decoders | for ever |
| Wi-Fi task | `WifiMgr::notify*` | when the driver has news |
| Display task, core 1 | drawing from `MorseModel` | on request and by timer |

The contexts share state through C++ atomics and, for the display model, a
spin lock. There are no message queues of the application's own: events are
flags, counters and two rings.

### 1.2 Components, their state, and what makes them correct

| Component | State | Operations | Correct when |
|---|---|---|---|
| Keying bus, radio output (`key_event_bus`, `radio_keyer`) | reference count of key-downs; enable flag; pin and its cached level | `keyDown`, `keyUp`, `forceAllUp`, `setEnabled`, callbacks | the line is up exactly while a source keys and the output is enabled; no edge lost or doubled across cores |
| Iambic keyer, interrupts (`iambic_keyer`, `morse_key`) | lever states and memories (atomics), current element, word-space bookkeeping, speed, polarity | interrupts, `fillSamples`, `setWPM`, `setReversed` | each element keys once and releases once; squeezing alternates; symbols well formed; falls silent when let go |
| Straight key (`straight_keyer`) | edge machine, event ring | `fillSamples`, `decodeFromLoop`, `reset` | every mark released; every mark decoded once, as the mark it was |
| Player, encoder (`morse_generator`, `morse_encoder`) | encoded text, position, phase, keyed flag, place in the echo | `playText`, `stop`, `advanceToNextElement` | every mark of a text keyed; the echo follows what is keyed; `stop()` leaves no key down |
| Audio engine (`audio_engine`) | source routing, suppression flag | `fillBuffer` | a paddle press silences everything until the paddle is released; what is on the air is heard |
| WinKeyer bridge (`winkey_bridge`, `winkey_buffer`, `winkey`) | byte parser, session, send buffer, continuation flags, mirror of the speed | `feed`, `poll`, `setWpmFromLocal`, memory playback | text leaves whole and in order, never into a busy player; both speeds agree; gaps between chunks as heard |
| Wi-Fi state machine (`network_manager`) | state, role, retry and backoff, event flags | `begin`, the operator's keys, `poll`, `notify*` | connected means connected; retries exactly when due; attempts end |
| Stored configuration and texts (`net_config`, `memory_store`, settings) | keys in NVS flash | load, save, clear | a power loss between two writes loses nothing but what was being saved |
| Decoders (`morse_decoder`, `straight_keyer`) | symbol and event rings, collected marks | `fillSamples` on one core, the decoding on the other | no mark lost, doubled or taken for the other |
| Display model and display task (`display_model`, `display_task`) | text ring, settings, change counter; blanking and wake flags | append, setters, the task's pass | no change goes unshown; a key press lights the panel |
| Text field (`text_input`) | text, cursor, held keys | edit operations, `feed` | cursor inside the text; one action per key press |
| Console (`console_io`, `log_ring`, `winkey_serial`) | port mode, capture ring, log ring | `setMode`, `write`, replay | the replay is exact; next to nothing but the protocol reaches a host |
| Main loop and screens (`main`) | current screen, held keys, overlays, forms | keyboard handlers | keys act on the screen they belong to; a held K is released; a form is not taken away |

How they interact: the four key sources (iambic, straight, player, K key) call
the bus, the bus calls the radio output. Paddle presses stop the player. The
bridge hands text to the player and both read and write the model's speed;
the model's change counter triggers synchronisation to the host and the
display. The player and the decoders append to the model's text, which the
display task renders. The Wi-Fi manager stores through `net_config` and is polled
by `loop()`; so do the keyboard's forms and the web page.

What is hard: two cores call the bus at once; interrupts fall between any two
accesses of the keyer; the player's fields change under a `loop()` that infers
its history from samples; rings without locks connect the cores; keys are
sampled while screens change in another task; the driver's events arrive late and
out of step with the operator's keys; power can go between any two of these.
`PROJECT.json` lists these hazards with the line where each bites and the
properties that watch it.

## 2. Modules

| Module | What it is |
|---|---|
| `KeyLine` | abstract: a keying line, one whole call per step |
| `KeyEventBus` | bus and radio output, one atomic access per step; implements `KeyLine` for calls that do not overlap |
| `IambicKeyer` | interrupts, audio task and settings around the iambic B element machine, one shared access per step |
| `SendQueue` | abstract: a bounded queue of text in front of one player |
| `WinkeyBridge` | the byte parser, the commands, the send buffer, the polls and the speed synchronisation; implements `SendQueue` |
| `Encoder` | `MorseEncoder::encode()` as an operator, for any table of characters |
| `AudioEngine` | the audio engine's routing with the player and its echo, the iambic keyer and the straight key as its sources |
| `WifiMgr` | the Wi-Fi state machine, the operator, the driver with its event queue, power cycles |
| `Keyboard` | `handleKeyboard()`: all screens and forms, the gate, the held K, beside the display task's overlay timeout |
| `TextModel` | the ring of decoded text with two writers, the change counter, the display task's pass and the screen-saver |
| `Decoders` | the straight key's event ring and the iambic keyer's symbol ring with their decoders |
| `Store` | the flash key by key, under every operation that saves, with power cuts and failures to open |
| `Console` | the mode gate of the serial line, the capture ring and its replay, the log ring |
| `MC_*` | the small instances of the module each extends |
| `*Proofs` | the theorems about the module each extends |

`MC_` modules give values to function- or set-valued constants; `WifiMgr`,
`TextModel` and `Console` take their numbers straight from the configuration.
Operators introduced by a comment "Fault:" are wrong versions of the operator
below them, kept to show that each property depends on the code it is about.

Two modules share a component in three places, each with one side abstracted.
The symbols that `IambicKeyer` writes are well formed (`SymbolOrder`), which is what
`Decoders` assumes of them (`WriteSymbol`). The letters `Decoders` collects are the
characters `TextModel` appends. `WifiMgr` treats a save as one step and `Store` takes
it apart. `AudioEngine` composes the three sources with the count of the bus.

The two Morse chains share a module of proofs, and so do the two users of the serial
line. Their modules are extended side by side there, which is why `Decoders`
and `Console` name their specification and state `DecSpec`, `decVars`, `ConSpec`,
`conVars` and so on.

### 2.1 KeyEventBus

`demand`, `enabled`, `keyed` and `gpio` are `_demand`, `_enabled`, `_keyed` and
the pin. Each task has a program counter: `KeyDown` is the `fetch_add`, then
`DownGate`, `DownTest`, `DriveHigh`, `MarkHigh` are the reads and writes of
`onBusDown` and `applyLevel`. `KeyUp`, `Decrement`, `Reload` are the
compare-and-swap loop; `UpTest`, `DriveLow`, `MarkLow` are `onBusUp`. `Drain` is
the exchange of `forceAllUp`, `Disable` to `OffMark` are `setEnabled(false)`,
whose own `forceAllUp` returns into it. (`ForceAllUp` as a call of its own has one
caller, `StraightKeyer::reset()`, on a screen that nothing opens any more; it is
modelled as part of the bus's interface.) `Spec` interleaves the tasks freely,
`SerialSpec` lets a task start a call only when no other is inside one.

The refinement maps a call under way to the call done, at its first access:
`DemandSeen` and `LineSeen` say what the call is about to leave.

### 2.2 IambicKeyer

`state` and `memory` are the two atomics per lever of `s_keyState`; `lever` is
the GPIO level, `edge` a pending interrupt, `latch` the gap between the two
stores of an interrupt. `pc` is the position of the audio task in
`fillSamples`/`startElement`. The two measurements of an element (`Size`,
`Keyed`) are two steps, because the envelope regenerates at each when the other
core has changed the speed. The two loads of the polarity at an element's end
(`iambic_keyer.cpp:288-289`) are one step. `setReversed` is an exchange and four
stores. Within an element time is two steps (mark over, element over); in
silence it is counted in buffers, and stops at `MaxGap`.

### 2.3 WinkeyBridge

All of it runs in `loop()`; `turn` is the place in its iteration: keys and web
first, then host bytes, then `poll()` and the speed synchronisation, or the
nested feeding of a memory text. `feed` is the parser with one action per
branch, `applyCommand` and `handleAdmin` one action per command. Commands whose
values are never read back keep only their parameter count. `heard` records
which speed the host holds (the last it set, or the last it was told), `past`
what polls have seen since text was last sent; the code has no such variables,
and no action reads them.
The player is `playing` and may end at any time (`Finish`).

### 2.4 WifiMgr

`manager` and `flags` are the static variables of `network_manager.cpp`, `nvs`
the role and the presence of credentials in flash. `link`, `ap` and `posted`
are the driver: the driver associates, obtains an address, loses the link, and
posts events that `Deliver` records later (`notify*`). Keys are guarded by the
screens of `main.cpp` from which they can be pressed; the scan screens are
exactly the states in `Listing`. `poll()` is one action per branch, preceded in
every branch by the look for an address. A timeout or retry may come due at
any poll: the model has no clock, but keeps the length of the wait in `retryAt`.
`Restart` is a power cycle at any time, with what `begin()` and `setup()` do.

`discarded` remembers that the poll that connected discarded a disconnect.
`Calm` is the moment after which keys, power and network stay quiet.

Left out: names, passphrases, addresses, the client count of the access point
and the entries of the scan (display data); `stopAp()` and `AP_STARTING`, which
nothing calls or enters; the scanning branches of `disconnectCurrent()` and the
early return of `startScan()`, which the screens do not let happen. Flash
writes succeed. A poll and a key handler are atomic with respect to the Wi-Fi
task: each flag is taken by one atomic exchange, and the reason is written
before its flag; a handler's two stores are one step.

### 2.5 AudioEngine and Encoder

A step of the audio task is one `fillBuffer()`; `Cancel`, `Suppress`, `Release`
are its first lines, and `ToIambic`, `ToStraight`, `ToPlayer`, `Silence` its
routing. A buffer (1.3 ms) is shorter than any ramp or dit, so that a source has
one event in it, or two that meet at a boundary and are taken as two steps; a
mark or a silence lasts any number of buffers. `PlayText` and `StopText` are what
`loop()` calls, whoever asks: keys, host or web page; all of them look for an idle
player before they start a text. `playText()` is two steps, because the audio task
reads `PLAYING` without a lock: it sets up the first element (`starting`), and
`Publish` is its last store. `SwitchOff` is `forceAllUp()` from `setEnabled(false)`,
with the output enabled again later. `lever` is the GPIO, `state` and `memory` what
the interrupts make of it, `count` the demand on the bus. `tone` says whether the
last buffer sounded; `keyed` and `consumed` are histories: the marks of the text the
player keyed, and the levers whose last press cancelled a text or fell while it
was suppressed. No guard reads these three.

`echo` is the place in the text that the display has been shown, which
`advanceToNextElement()` moves by the elements it enters: `AtMark` passes blanks,
`AtSpace` shows the character that is complete, `AtEnd` what is left. A text is its
characters with the elements that `Encoder` makes of them; blanks, the space
behind a character and characters without a code are what the two can drift
apart on.

Apart from `playText()`, each call is one step. What two calls on two cores do to
each other's fields is in `KeyEventBus` and `IambicKeyer` for theirs; for the player
it is the next part of the plan. The spaces of the iambic keyer are abstracted to
`waiting`: the space of the word is written at any time. A mark's keyed part ends
before the mark does, which `IambicKeyer` shows for speeds that change gently. The K
key is in `Keyboard`.

The screen that let the operator choose the type of the key (`MODE_SETTINGS`) can
no longer be opened (`main.cpp:842-847`), so that the web page alone does, and
what that screen cleared is not cleared.

### 2.6 Keyboard

A pass of `loop()` has four places (`phase`) between which the display task may
come: `ScanKeys` with the global handler that acts on the key just pressed (the
actions in `Opening`, or a `PlainPass`, or a `ConsumedPass` that ends at the gate of a
playing text), `Stamp`, the handler of the screen (`Handling`), and `Tail` with the
held K, Enter and button A. `Decide` and `Dismiss` are the two halves of the overlay
timeout: the display task's test and its return to the decoder. `Others` are the
end of a text, a remote text, the web page and the Wi-Fi state machine.

`held` and `last` are the keys down at this scan and the one before (`wasW`,
`wasEnter`, ...). `seen` is what a family of forms remembers: the screen of its last
pass (`s_lastSc`) and the keys down then, from which `Before` and `Fresh` derive
what counts as a new press. `field` is the text field in use, with `prev` the keys
its `feed()` saw down. `own` is `kRadioActive`, `mute` is `suppressKUntilRelease`.
`skipped`, `carried` and `replayed` are histories: the last pass ended at the gate;
the keys held since one form replaced another; of these, the ones the last
handler acted on.

A text is its length, a setting a number up to its greatest value. The passphrase
forms and the memory editor are one field, because every way into a form fills it
anew. `updateKeyList()` finds at most one key changed: passes are far closer than
keys.

### 2.7 TextModel

`buf`, `head`, `tail`, `len` are the ring of `MorseModel`, with no lock.
`appendDecodedChar()` is five steps (`Append1`, `MoveHead`, `LoadLen`, `Count`,
`Notify`), and both cores may be inside it. `disp` is the display task: its place in a
pass and the values it has loaded; `Look`, `Blank`, `Power`, `TakeWake`, `Woken`,
`Render`, `Load`, `Show` are the accesses of the pass in their order, with one step
for each character that `renderScrollingText()` prints. `Press`, `Request` and `Idle`
are the keys, `requestRender()` and the clock. Characters are told apart by their
number (`said`); `raced` remembers that two appends overlapped and `owed` that a
press was the last to restart the idle time. `clearDecodedText()` has no caller.
That the Wi-Fi screens are never blanked is left out.

### 2.8 Decoders

One of the two keyers is in use. `KeyDown`, `KeyUp`, `Publish` are the straight key
on the audio task (an event is written and then its head moved), `EndFall` and
`EndReset` the two stores by which it empties the ring at the end of each ramp.
`WriteSymbol`, `PublishSymbol` are the iambic keyer's ring. `Poll`, `Read` and
`Timeout` are `loop()`: the indices it loaded are in `lp`, so that the reset may fall
between the load and the use. `TakeDown`, `TakeUp` are the timing of the straight
key, `TakeSymbol` is `accumulate()`. Time is in dits; a letter is its pattern of
marks. What was keyed and what was decoded are sequences of marks, ends of letter
and spaces (`keyed`, `decoded` with the letter under way): two of them agree in their
marks if the n-th mark of one is the n-th of the other (`MarksAgree`), whatever stands
between. `KeySilence` is the operator's pause. A pass of `loop()` is taken to be shorter than the 5 ms ramp. `torn`
remembers that `loop()` came between the two stores.

### 2.9 Store

`flash` is NVS, a function of the keys that are present; `job` is what a save has
left to write, and `Put` writes one key. `NetConfigSave` and `MemoryBankSave` are the
sequences of the two `save` functions, with their load-modify-save callers:
`Connect`, `StartAp`, `Forget`, `EditMemory` (the keyboard's bank), `WebMemory` (the
stored bank), `SaveSetting`, `WebSettings`, and `Adjust`, which saves nothing. `Cut` is
a power loss between any two writes, `Boot` what `setup()` loads. A namespace that
fails to open costs the save its effect and nothing else (`FailsToOpen`). `asked`,
`torn`, `owed` and `dirty` are histories: what was last asked to be stored, the keys
whose last save was cut short, the texts and settings that are known not to be
stored.

The flash writes one key whole or not at all. One number stands for `wpm`, `freq`
and `vol`, one flag for the keying, the polarity and the type of the key.

### 2.10 Console

A log write reads the mode outside the lock (`Begin`), goes to the wire or into the
ring (`Send`, `RingPush`), and is copied into the log ring in four steps (`TapLoad` to
`TapLen`). `loop()` answers the host (`Reply`), and switches (`ToConsole`, `ToWinKey`);
`Pending`, `Drain`, `WriteChunk`, `Drained` are `ringReplay()`, which takes a chunk
under the lock and writes it without. `window`, `late`, `stray`, `taps` and `raced`
are histories. A write is who wrote it and its number; a log line is three of them.

## 3. What TLC checks

| Run | Instance | Distinct states | Shows |
|---|---|---|---|
| `bus_concurrent` | 2 tasks, 3 sources | 34,898 | `EdgesBalance`, `DemandCovered`: under any overlap every edge of the count is delivered once and the count is covered by the keys held |
| `bus_serial` | same | 3,427 | `ImplementsKeyLine`, `UnkeyedWhenReleased` for calls that do not overlap |
| `iambic_safety` | dits of 3 and 4 samples | 1,302,524 | `KeyedExactly` and `SymbolOrder` with interrupts, speed and polarity changes anywhere |
| `iambic_live` | one speed | 481,490 | `ComesToRest`, `HeldKeepsSounding` |
| `winkey` | 14 bytes, buffer of 2, one memory | 493,878 | `ImplementsSendQueue`, `SpeedAgrees`, `GapFollowsHistory` |
| `engine` | three texts | 309,553 | `CountCovered`, `EveryMarkKeyed`, `EchoFollowsText`, `PressConsumed`, `OnAirMatchesSidetone`, `NeverStuck` |
| `wifi` | waits 1, 2, 3; queue of 2 | 56,874 | `RetryDiscipline`, `ConnectedIsReal`, `ConnectedAcrossReboots`, `AttemptsEnd` |
| `keyboard` | 16 chords, one slot, texts up to 1 | 1,010,472 | `CommandsAreFresh`, `KeyedOnlyByK`, `FormsStayFresh`, `TimeoutSparesForms` |
| `text` | ring of 3, window of 2, 4 characters | 7,168,790 | `RingHoldsTheLast`, `NothingLeftUnshown`, `PressLights` |
| `decoders` | both keyers, 4 marks, ring of 4 | 782,941 | `MarksSurvive`, `LettersAsKeyed` |
| `store` | 2 slots, 2 networks, 2 faults, 4 saves | 2,819,368 | `SavedAsAsked`, `NameBeforePass`, `RebootChangesNothing` |
| `console` | rings of 2, chunk of 1, 3 writes each | 5,230,022 | `RingHoldsSession`, `ReplayIsExact`, `DrainIsBounded`, `StraysBounded`, `TapHoldsTheLast` |

`decoders` and `console` also check the type invariant of their module (`DecTypeOK`,
`ConTypeOK`); for the others it is only proved, for every instance (section 4).

### 3.1 Bounds, and why they are enough

* Bus: two tasks because the device has two that call it; two sources on the
  audio task overlap there, one on `loop()` overlaps across cores. Nothing in
  the module counts further than the number of sources.
* Keyer: `Dits` fixes the speeds. The gentle pair {3, 4} meets the bound of the
  theorem with equality. `Frames` is a buffer, `MaxGap` caps the
  count of silence past any word space, where the code's comparison no longer
  changes. The live run needs no second speed: speed touches no lever.
* Bridge: `MCHostBytes` has a byte of every kind the parser tells apart, by
  parser state, with zero and an out-of-range speed as parameters; the memory
  contains a character without Morse code. `Capacity` 2 is the least in which
  full, non-empty and newest differ. The local speed 25 differs from the
  protocol's default 20 and from the host's 60, clamped to 50.
* Engine: a text without code (which must not leave the player playing), a mark
  between two blanks (the boundary rule for continuations, both ways, and the
  blanks that the echo passes) and two words, with two marks of one character, as
  in every letter of more than one element, and behind them a character without a
  code. A longer text repeats these. Nothing else is bounded: the state is finite.
* Wi-Fi: waits 1, 2, 3 give a first wait, a doubled one and a capped one.
  `MaxPosted` bounds new steps of the driver, keys and timed polls, never
  deliveries; a queue of two is the least that holds an address and the loss
  behind it. A key can still post two events at a time.
* Keyboard: a key for every kind of handler, one at a time, and Enter with Esc,
  which is how a key is held while another acts. A list of two networks with one
  row shown scrolls; a text of one character is empty or full. The theorems hold
  for every set of chords.
* Text: a ring must be larger than the window (`TextBounds`: the code has 200
  characters and the panel shows fewer); with four characters a ring of three wraps and drops
  its oldest, and a window of two is drawn in two steps. `Changes` stops keys and the clock, not the tasks. Proved for every size.
* Decoders: a ring of 4 wraps within two marks, so that an event of the past lies
  where the next one is read after the reset. `Silences` has a length
  of every class (1 and 2 within a letter, 3 between letters, 7 between words). Four marks make two letters and the gap between words.
* Store: two slots, of which one is edited while the other must stay; two networks,
  so that a save replaces one by the other; numbers on both sides of the limits.
  Two faults let a save fail or be cut, and the next one meet what is left. Four
  operations suffice for an edit, its loss, a second edit by the other editor and a
  boot. The run may deadlock when the saves and faults are used up.
* Console: a capture ring of two overflows with three writes, and a replay with
  chunks of one gives up the lock twice. The run stops when each task has made its
  writes (`Limit`), with no deadlock to look for: a write never waits.

### 3.2 Fairness, and why the code justifies it

* Keyer: the audio task is paced by DMA and never blocks; a pending interrupt is
  served; a call of `setReversed` that began returns. The operator owes nothing:
  `ComesToRest` only assumes that the levers stay released.
* Engine: the audio task is paced by DMA (`FillBuffer`), and a `playText()` that has
  set up its text returns (`Publish`). `NeverStuck` assumes that the levers come to
  rest, no text is started and the page sets no type any more; loop() owes nothing,
  not even to stop a text. It excepts `Frozen`: a mark whose keyer the web page has
  taken out of the routing keeps its count until the type is changed back (hazard
  at `web_ui.cpp:359`).
* Wi-Fi: `loop()` polls for ever, the driver and its event task are not starved.
  A link need not come up, nor a reason be final: after `Calm` the network is
  within reach and the driver answers in less than the longest wait (five
  minutes; an attempt is given 15 s), which is what retries with growing waits
  are for. `AttemptsEnd` fails without the growth.
  A device that booted as an access point is excepted: it never registers the
  station's handlers, so that its attempts end in timeouts for ever
  (`network_manager.cpp:191`).
* The other modules state no fairness. A caller of the bus returns; text in the
  bridge waits for a player that the operator may keep busy; the display task, the
  decoders and the replay are each a loop that renders, reads or drains what is
  there, and their properties say what holds when they have nothing left to do.

### 3.3 Where code and documents disagree, and what the properties leave out

A property that a sentence of the code promises and the code does not keep is
stated in the form that does hold; the rest is listed here.

Keying:

* The bus fires callbacks after the atomic update that decides them. When two
  cores overlap, the down edge can be delivered after the up edge that followed
  it, and `onBusDown` can read the enable flag before `setEnabled(false)` runs to
  its end on the other core (`radio_keyer.cpp:43`): the line stays HIGH with no key
  held, or with the output disabled. `KeyLine` is implemented by calls that do not
  overlap.
* An element is measured twice (`iambic_keyer.cpp:136`, `morse_generator.cpp:311`). A
  change of speed of more than a third between the two makes the mark longer than
  the element, and its `keyUp()` is never reached; up to a third it is harmless
  (`KeyedExactlyAlways`).
* A text started while a lever is held is cancelled by the next buffer, which
  services no keyer until the lever is released (`audio_engine.cpp:316`): a mark
  that a keyer had under way stays on the air without side tone, against
  `docs/keyer.md:41`. `OnAirMatchesSidetone` excepts `suppressed`. It also
  excepts a playing text: a press that is latched but already released costs
  its mark one silent buffer.
* A comment (`morse_generator.cpp:30-41`) says that the player's keyed flag needs no
  protection. Between `advanceToNextElement()`'s key-down and its store of
  `_wasElKeyDown` (275, 279) a `stop()` on the other core takes nothing back and
  the count stays up; the branch of the exhausted text publishes IDLE before it
  is through, so that a text started in between loses its first mark.
* A character without a code in front of one that has a code puts the echo
  out of step: "#A B" is shown as "# A B". So does one behind a blank: "A #" is
  shown with two blanks, for the blank is shown because something follows it, and
  again at the end of the elements. `EchoFollowsText` is about texts whose
  characters without a code come last, and not behind a blank (`CodelessLast`).
* The documents (`README.md:390`, `docs/keyer.md:216-219`) say that K held on the
  decoder screen keys the transmitter. The press of K on the decoder opens the
  settings of the keying and keys nothing until it is released, while a K held on
  any other screen does key, in a form as well (`Hold`). `KeyedOnlyByK` says what matters for both: nothing stays
  keyed without the key.

WinKeyer:

* One flag is both the operator's setting and the host's wish (`winkey.cpp:48`). The
  comment above it says that the two are AND-ed; a host switches on an output that
  the operator switched off.
* A reset of the protocol sets the mirror of the speed to 20 whatever is in use
  (`winkey_bridge.cpp:153`); `SpeedAgrees` waits for the synchronisation after it.

Wi-Fi and storage:

* The role of an access point is stored and never taken back
  (`net_config.cpp:111`): a network joined afterwards is not joined again after a
  power cycle. `ConnectedAcrossReboots` excepts it.
* A begin that fails in an automatic retry ends the retries
  (`network_manager.cpp:162`). 0 stands for "no retry", which the sum of the clock
  and the wait can be after 49.7 days (146); the model has no clock.
* A cut between two writes leaves the new name with the old passphrase, or the
  access point's role with an empty or old passphrase, because the role is
  written before it. `NameBeforePass` is what the order does promise.
* A namespace that fails to open for reading reads as empty
  (`net_config.cpp:31`, `memory_store.cpp:33`): a load-modify-save at that moment
  erases the rest. `Store` lets opening fail for writing only, which is how NVS
  fails when it is full; `putString()`'s results are ignored
  (`memory_store.cpp:60`), and writes of the model succeed once it is open.
* `netConfigClear()`'s result is ignored (`network_manager.cpp:317`): a network that
  could not be forgotten is back after a reboot (`torn` in `RebootChangesNothing`).
  The web page says "applied" although the save failed (`web_ui.cpp:335`), stores a
  value that the model clamped, and its edit of one text drops a keyboard edit
  whose save failed.
* `startAp()` overwrites the passphrase in RAM while the station's name stays
  (`network_manager.cpp:392`).

Keyboard and display:

* Esc held while a form opens acts on the form, for `main.cpp` primes Enter and the
  printable keys only; `CommandsAreFresh` excepts it. A scan-list `;` still held as
  Enter opens the form is typed into the passphrase.
* `s_lastSc` is not reset on the way to the decoder, so that the second visit of
  the same form is not primed; what was remembered then is what `Known` of the
  proof relies on. The question whether to forget a network survives leaving the
  screen by button A.
* The comment of the gate (`main.cpp:729-735`) says that the key that cancels a text
  does nothing else on this tick; the key is also handled (781-795): `Cancels`
  ends the text and the action of the key follows.
* The display task reads the clock and the time of activity in two steps; a key in
  between makes their difference huge, so that the overlay of that moment can
  close (`Decide` in phase "tail"), and the panel blank (`touched` in `Blank`). It is
  lit again at once (`PressLights`); a Wi-Fi form is spared (`TimeoutSparesForms`),
  the memory editor is not.
* Two appends that overlap lose a length or a character; `RingHoldsTheLast` and
  `NothingLeftUnshown` hold while none have (`raced`).

Console:

* The header (`console_io.h:13-17`) says that in WinKey mode the bridge is the only
  writer. A log write whose mode was read before the switch is sent after it:
  one of the other core's writes, and no more (`StraysBounded`). The other way
  round, a write can be pushed after the replay and then stays in the ring.
* `log_ring.h:18-22` says that racing writers corrupt at most one byte. A writer that
  stalls between its load and its store moves the head back over all that was
  written meanwhile; `TapHoldsTheLast` is about copies that do not overlap.

## 4. What TLAPS proves

For every value of the constants that meets the named assumptions of the modules:

| Module | Theorems | Argument |
|---|---|---|
| `KeyEventBusProofs` | `TypeCorrect`, `EdgesAlwaysBalance`, `DemandAlwaysCovered` for `Spec` | `EdgesBalance` is inductive with the types and "a release under way saw a positive count" (`SeenPositive`); the cardinality of the tasks at a label moves by one with each step (`PendingMoves`) |
| | `SerialImplementsKeyLine`, `SerialDisabledIsLow`, `SerialUnkeyedWhenReleased` for `SerialSpec` | `SerialInv`: at most one task is in a call, and at each label the pin, the cached flag and the count stand in a fixed relation (`CallState`); a step of the one call is a step of `KeyLine` or a stutter under the mapping |
| `KeyerProofs` | `TypeCorrect`; `KeyedExactlyAlways` if no two speeds differ by more than a third; `SymbolOrderAlways` | `MarkFits`: between the two measurements the element's length is that of some speed, so the mark measured at another gentle speed fits; `Grammar` ties the last symbol to the place of the audio task |
| | of `Decoders`: `DecTypeCorrect`, `MarksAlwaysSurvive`, `LettersAlwaysAsKeyed` | `StraightInv` says where the two indices of the event ring can stand at each step of the edge machine, also between the two stores of its reset, and which events lie there, the read one of the past included; `MarksInv` that `loop()` lacks at most the release it has not read; `LettersInv` counts in what is keyed the silence that it is still to decode (`Rest`). `PaddleInv`: the symbol ring holds what is keyed and not yet decoded |
| `SerialProofs` | `TypeCorrect`, `SpeedAlwaysAgrees`, `GapAlwaysFollows`, `BridgeImplementsSendQueue` | the effects of all commands on text and on tempo are summarised once (`TextEffect`, `TempoEffect`); `RateInv`: once pushed, mirror, model and host agree; `GapInv` relates the flags to what the polls saw; `QuietInv` says that nothing is keyed while idle |
| | of `Console`: `ConTypeCorrect`, `DrainAlwaysBounded`, `StraysAlwaysBounded`, `ConRingAlways`, `ReplayAlwaysExact`, `TapAlwaysHolds` | `ModeInv`: a write that reads the mode after the switch obeys it, so that each task has at most the one it had under way. `HeldInv`: the ring is the end of the session. `ExactInv` divides the session into what has left, the chunk and the ring, and says of each part whether it is on the line; it needs that a task's numbers are new (`FreshInv`) and that a chunk leaves room for the one write that may come before it is sent (`SpareInv`). `TapInv` says at each of the four steps of the one copy under way what the log ring holds |
| `AudioEngineProofs` | `TypeCorrect`, `CountAlwaysCovered`, `EveryMarkAlwaysKeyed`, `PressAlwaysConsumed`, `OnAirAlwaysSounds`; `EncodeSpells` and `EchoAlwaysFollows` | `PlayInv` adds to the types that a playing text is within an element and that the edge detector `_wasElKeyDown` says exactly whether the player is within a mark (`EdgeIsMark`), which is what it owes to the bus; `ConsumedInv` says that a consumed press is unlatched once the suppression ends, and that until then a lever that is down is known to be down. `EncodeSpells` divides the elements of a text among its characters (`Spelled`, `InPlace`), by induction over the text; `EchoInv` gives the echo's place in that division after every element: in a mark of a character, behind a character, or in a blank behind a word (`InMark`, `Passed`, `InBlank`) |
| `WifiMgrProofs` | `TypeCorrect`, `RetryDisciplineAlways`, `ConnectedAlwaysReal`, `ConnectedAlwaysStored` | `RetryDiscipline` is inductive, because a scheduled wait is never zero (`Doubling`). `ConnectedIsReal` is not: `NewsInv` adds that an address recorded or queued while the link is not up has the news of its loss behind it in the queue (`Followed`), and that every step that takes a link down tells so last (`Carried`). `JoinInv`: a station that knows a network, or is about to join one, has it stored |
| `KeyboardProofs` | `TypeCorrect`, `CommandsAlwaysFresh`, `AlwaysKeyedOnlyByK`, `FormsAlwaysFresh`, `TimeoutAlwaysSpares`, `CursorAlwaysShown` | the steps of a pass are summarised once (`OpeningStep`, `HandlingStep`, `OthersStep`). `CarriedInv` says of each form which memory knows a key that was carried into it: its family's `seen`, or the field's `prev`; `FreshInv` adds the moment behind the handler, which has just restarted the timer; `DismissInv` that no Wi-Fi form opens between the decision and the act |
| `TextModelProofs` | `TypeCorrect`, `AlwaysHoldsTheLast`, `AlwaysShownAll`, `PressAlwaysLights`, `AlwaysDrawsWhenLit` | `RingInv` says of each place of the one append under way what is in the ring (`Settled`, `Written`, `StepOf`); `CountInv` that the counter drawn is never ahead, and behind while the panel is dark; `ShownInv` that, if nothing was appended since the counter was read, the task has loaded the ring's own head and length and printed the beginning of the latest text; `PressInv` and `LitInv` follow the wake request |
| `StoreProofs` | `TypeCorrect`, `AlwaysSavedAsAsked`, `NameAlwaysFirst`, `RebootNeverChanges` | `Inv` relates the save under way to the rest: each write left is about its key and carries what was asked, or carries what is there already (`JobInv`); the name stands before the passphrase (`OrderInv`); what is in force is what the flash will hold once the save is through (`KeptInv`). Each operation's writes satisfy this by a lemma of its own |

`NewsInv` needs the queue: an address may sit in it long after the link it
belongs to is gone. What saves the manager is that the loss is queued behind it.
`JobInv` is why a cut costs only what the save is about: a load-modify-save rewrites
every other key with the value it has. `EchoInv` shows that the rule for blanks in
`advanceToNextElement()` cannot do without its two cases: a blank in front of the first word is
shown at once, one behind a word when another word follows it.

Induction over a text is done without an induction theorem: the numbers for which
a statement holds are a set with 0 and with the successor of each of its members, and
such a set is `Nat`, for the least number that it lacked would have a predecessor
in it (`NatClosed`, from `WFMin`).

Assumptions: the sets of tasks and sources are finite; speeds are positive
and `MaxGap` exceeds every word space; bytes are bytes, memories are non-empty
text, operator speeds lie in 5..50; texts are sequences of marks and spaces (and, for
`EchoAlwaysFollows` alone, what `encode()` makes of them with a table of dits and
dahs, their characters without a code being last: `EncodedTexts`); the
first wait is positive and no longer than the longest; the slots of the store
have distinct keys that are no setting's, and its least number is no greater than
its greatest; the window is smaller than the text ring; the chords contain the empty
one, and the setting of the keying is a flag. TLC evaluates them in the runs.

Only model-checked: the liveness properties (`ComesToRest`, `HeldKeepsSounding`,
`AttemptsEnd`, `NeverStuck`), since fairness and ENABLED are out of the prover's
reach. Every other property of a run is a theorem.

## 5. Plan

Modelled so far, in the order of what a fault does: a stuck transmitter, wrong code
on the air, wrong text, no network; then keys on the wrong screen, text not
shown, what a power cut loses, a disturbed host.

Next, in this order:

1. `Player`: `stop` on one core against `advanceToNextElement` on the other, at the
   grain of the fields they share, with both measurements of a mark and
   `clearMemory` store by store. `AudioEngine`'s player is its abstract specification
   for calls that do not overlap. What can be promised for calls that do is less
   than the comments say (3.3); the property is which overlaps leave no count.
2. A queue that may drop its oldest as the abstract specification of the three
   rings, which `TextModel`, `Decoders` and `Console` implement.
3. `WifiMgr` composed with `Store`: `Restart` with a save cut in two, in place of its
   atomic store; passphrases as model values, for the buffer that station and access
   point share.

## 6. Not modelled

Sample synthesis, envelopes and fast sine (floating point); the drawing of each
screen; HTTP parsing, JSON and pages; codec and I2S set-up; the vendored and
host-side scripts and tests. They hold no protocol of their own: the envelope's one
concurrent behaviour, regeneration at first use after a change of speed, is in
`IambicKeyer`; what requests do to the device is in `Keyboard`, `Store` and
`AudioEngine`. Without a caller, and left out for it: `clearDecodedText()`,
`netConfigClearAp()`, `memoryBankClear()`, `stopAp()`; `StraightKeyer::reset()` and the
settings menu are reachable only from a screen that nothing opens. The rest of what
is missing is the plan above.
