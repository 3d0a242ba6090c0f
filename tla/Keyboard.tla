------------------------------- MODULE Keyboard -------------------------------
(***************************************************************************)
(* The keyboard of the device: handleKeyboard() in loop(), its screens and *)
(* forms, and what runs beside it: the overlay timeout of the display      *)
(* task, the player, the Wi-Fi state machine, the web page and the host.   *)
(*                                                                         *)
(* One pass of loop() is several steps, where the display task can come    *)
(* between: the scan of the keys with the global handler that acts on it   *)
(* ("scan"), the restart of the overlay's timer ("stamp"), the handler of  *)
(* the screen ("route"), and the tail: the held K, Enter and button A.     *)
(* The keys change one at a time: two passes are far closer than two keys. *)
(*                                                                         *)
(* A text is its length, and a setting a number from 0 to its greatest     *)
(* value.  The passphrases and the memory editor are one field, which is   *)
(* empty, as the scan list is, on the decoder: every way into a form or    *)
(* the list fills them anew.                                               *)
(***************************************************************************)
EXTENDS Integers, FiniteSets

CONSTANTS
  Chords,   \* the sets of keys that may be held at once
  Slots,    \* the digit keys, each of which names a memory
  Cap,      \* the longest text
  Top,      \* the live, with the greatest value of each
  Page,     \* rows of the scan list that are shown
  Networks  \* the most networks a scan finds

\* The key that opens each settings screen, which has the setting's name.
SettingOf == [W |-> "wpm", F |-> "freq", V |-> "volume",
              K |-> "keying", S |-> "polarity"]

Settings == {SettingOf[k] : k \in DOMAIN SettingOf}

Letters == {"W", "F", "P", "V", "M", "K", "D", "C", "N", "A", "S"}

Tracked == Letters \union {"enter", ";", "."}

Printable == Letters \union Slots \union {";", ".", "x", "r", "y"}

Modifiers == {"left", "right"}

Keys == Printable \union Modifiers \union {"enter", "esc", "bs", "btnA"}

Forms == {"password", "ap"}

WifiScreens == Forms \union {"list", "info"}

MemoryScreens == {"pick", "edit"}

Screens == {"decoder"} \union Settings \union WifiScreens \union MemoryScreens

ASSUME ChordsType == Chords \subseteq SUBSET Keys /\ {} \in Chords
ASSUME SlotsType ==
  "0" \in Slots /\ Slots \subseteq {"0", "1", "2", "3", "4", "5", "6", "7", "8", "9"}
ASSUME TopType == Top \in [Settings -> Nat] /\ Top["keying"] = 1
ASSUME BoundsType == {Cap, Page, Networks} \subseteq Nat \ {0}

VARIABLES
  phase,     \* where loop() is
  held,      \* the keys down at the last scan
  last,      \* wasW, wasEnter...: the keys down at the scan before, while a pass runs
  screen,    \* MorseModel's screen
  old,       \* the overlay's timer is past OVERLAY_TIMEOUT_MS
  dismiss,   \* the display task has decided to return to the decoder
  playing,   \* MorseGenerator::isPlaying()
  live,      \* MorseModel: the settings
  bank,      \* MorseModel: the bank
  slot,      \* _memoryPickSlot, or in the editor _memoryEditingSlot
  field,     \* the text field: len, cursor, and prev, the keys feed() saw down
  seen,      \* per family of forms: s_lastSc, and the keys at its last pass
  digit,     \* s_lastDigit
  list,      \* the scan list: how many, cursor, top row
  confirm,   \* _wifiNetConfirmForget
  link,      \* WifiMgr: connecting, an access point ("ap"), or neither
  own,       \* kRadioActive: the keyboard holds the transmitter keyed
  mute,      \* suppressKUntilRelease
  skipped,   \* history: the last pass ended at the gate
  carried,   \* history: the keys held since one form replaced another
  replayed      \* history: of those, the ones the last handler acted on

keys == <<held, last>>
overlay == <<screen, old, dismiss>>
wifi == <<list, confirm, link>>
radio == <<own, mute>>
form == <<field, seen, carried, replayed>>
vars == <<phase, keys, overlay, playing, live, bank, slot, form, digit,
          wifi, radio, skipped>>

NoKey == "none"

Empty == [len |-> 0, cursor |-> 0, prev |-> {}]

NoList == [count |-> 0, cursor |-> 0, top |-> 0]

Init ==
  /\ phase = "scan"
  /\ held = {}
  /\ last = {}
  /\ screen = "decoder"
  /\ old = FALSE
  /\ dismiss = FALSE
  /\ playing = FALSE
  /\ live = [s \in Settings |-> 0]
  /\ bank = [s \in Slots |-> 0]
  /\ slot = "0"
  /\ field = Empty
  /\ seen = [f \in {"wifi", "memory"} |-> [on |-> "decoder", keys |-> {}]]
  /\ digit = NoKey
  /\ list = NoList
  /\ confirm = FALSE
  /\ link = "idle"
  /\ own = FALSE
  /\ mute = FALSE
  /\ skipped = FALSE
  /\ carried = {}
  /\ replayed = {}

\* On the decoder nothing reads the field, the list and the slot before they are filled
\* anew, and nothing the timer, whose age is chosen when an overlay opens.
Emptied(s) ==
  /\ field' = IF s = "decoder" THEN Empty ELSE field
  /\ list' = IF s = "decoder" THEN NoList ELSE list
  /\ slot' = IF s = "decoder" THEN "0" ELSE slot

-----------------------------------------------------------------------------
(* The scan of the keys and the gate.                                      *)

\* A text that plays is stopped by the first tracked key that goes down.
Cancels == playing /\ held' \intersect Tracked # {} /\ held \intersect Tracked = {}

\* While a text goes on, a pass with a tracked key down ends at the gate.
Consumes == playing /\ ~Cancels /\ held' \intersect Tracked # {}

\* updateKeyList() finds at most one key changed.  The display task is never
\* held up between its decision and the next change of a key.
ScanKeys ==
  /\ phase = "scan"
  /\ held' \in {c \in Chords : Cardinality((c \ held) \union (held \ c)) <= 1}
  /\ dismiss => held' = held
  /\ last' = held
  /\ carried' = carried \intersect held'
  /\ UNCHANGED replayed

Pressed(k) == k \in held' \ held

\* The screens on which the handler of a key acts.
ActsOn(k) ==
  CASE k \in DOMAIN SettingOf -> {"decoder", SettingOf[k]}
    [] k \in {"M", "C", "A", "N"} -> {"decoder"}
    [] k = "P" -> Screens \ MemoryScreens
    [] OTHER -> {}

\* The pass ends at the gate: nothing else sees the keys.
ConsumedPass ==
  /\ ScanKeys
  /\ Consumes
  /\ skipped' = TRUE
  /\ UNCHANGED <<phase, overlay, playing, live, bank, slot, field, seen,
                 digit, wifi, radio>>

Pass ==
  /\ ScanKeys
  /\ ~Consumes
  /\ skipped' = FALSE

\* No handler before the screen's own acts on the key.
PlainPass ==
  /\ Pass
  /\ \A k \in Keys : Pressed(k) => screen \notin ActsOn(k)
  /\ playing' = (playing /\ ~Cancels)
  /\ phase' = "route"
  /\ UNCHANGED <<overlay, live, bank, slot, field, seen, digit, wifi, radio>>

-----------------------------------------------------------------------------
(* The handlers of the keys that open a screen.                            *)

\* setScreen(); the overlay's timer is still that of the overlay before.
Open(s) ==
  /\ screen' = s
  /\ phase' = IF s = "decoder" THEN "route" ELSE "stamp"
  /\ old' \in IF s = "decoder" THEN {FALSE} ELSE BOOLEAN
  /\ UNCHANGED dismiss

Handles(k) ==
  /\ Pass
  /\ Pressed(k)
  /\ screen \in ActsOn(k)
  /\ playing' = (playing /\ ~Cancels)
  /\ UNCHANGED <<live, bank, digit, seen>>

\* W, F, V, S: open and close a settings screen.
Toggle(k) ==
  /\ k \in DOMAIN SettingOf \ {"K"}
  /\ Handles(k)
  /\ Open(IF screen = "decoder" THEN SettingOf[k] ELSE "decoder")
  /\ UNCHANGED <<slot, field, wifi, radio>>

\* K: as the others, and the key neither keys nor stays keyed.
ToggleKeying ==
  /\ Handles("K")
  /\ Open(IF screen = "decoder" THEN "keying" ELSE "decoder")
  /\ own' = FALSE
  /\ mute' = TRUE
  /\ UNCHANGED <<slot, field, wifi>>

\* M: the picker shows the first memory.
OpenPicker ==
  /\ Handles("M")
  /\ Open("pick")
  /\ slot' = "0"
  /\ UNCHANGED <<field, wifi, radio>>

\* C: an access point is dropped, the list is emptied and a scan begins.
OpenList ==
  /\ Handles("C")
  /\ Open("list")
  /\ list' = NoList
  /\ confirm' = FALSE
  /\ field' = Empty
  /\ link' = "idle"
  /\ UNCHANGED <<slot, radio>>

\* A: the state of the access point that runs, or its passphrase.
OpenAccessPoint ==
  /\ Handles("A")
  /\ IF link = "ap"
     THEN /\ Open("info")
          /\ UNCHANGED <<list, confirm, field, link>>
     ELSE /\ Open("ap")
          /\ list' = NoList
          /\ confirm' = FALSE
          /\ field' = [Empty EXCEPT !.prev = {"enter"}]
          /\ link' = "idle"
  /\ UNCHANGED <<slot, radio>>

\* N: the state of the network.
OpenInfo ==
  /\ Handles("N")
  /\ Open("info")
  /\ UNCHANGED <<slot, field, wifi, radio>>

\* P: plays a text, if none plays.
PlayDemo ==
  /\ Pass
  /\ Pressed("P")
  /\ screen \in ActsOn("P")
  /\ playing' = TRUE
  /\ phase' = "route"
  /\ UNCHANGED <<overlay, live, bank, slot, field, seen, digit, wifi, radio>>

\* setOverlayStartMillis() of the key that opened the screen.
Stamp ==
  /\ phase = "stamp"
  /\ phase' = "route"
  /\ old' = FALSE
  /\ UNCHANGED <<keys, screen, dismiss, playing, live, bank, slot, form,
                 digit, wifi, radio, skipped>>

-----------------------------------------------------------------------------
(* The handlers of the screens.                                            *)

Route(screens) ==
  /\ phase = "route"
  /\ screen \in screens
  /\ phase' = "tail"
  /\ UNCHANGED <<keys, dismiss, skipped, radio>>

\* What pollKeys() finds: no character at all while Fn is held.
Prints(p) ==
  LET found == IF held \intersect Modifiers = {} THEN held \intersect Printable ELSE {}
  IN p \in (IF found = {} THEN {NoKey} ELSE found)

\* A settings screen: one step up or down, within its bounds.
AdjustSetting ==
  /\ Route(Settings)
  /\ old' = FALSE
  /\ live' = [live EXCEPT ![screen] =
       IF ";" \in held \ last /\ @ < Top[screen] THEN @ + 1
       ELSE IF "." \in held \ last /\ @ > 0 THEN @ - 1 ELSE @]
  /\ UNCHANGED <<screen, playing, bank, slot, form, digit, wifi>>

\* The decoder: a digit plays its memory, unless a text plays.
PlayDigit ==
  /\ Route({"decoder"})
  /\ \E p \in Keys \union {NoKey} :
       /\ Prints(p)
       /\ digit' = IF p \in Slots THEN p ELSE NoKey
       /\ playing' = (playing \/ (p \in Slots /\ p # digit /\ bank[p] > 0))
  /\ UNCHANGED <<screen, old, live, bank, slot, form, wifi>>

\* The keys a form keeps from one pass to the next.
Watched ==
  [list |-> {";", ".", "enter", "esc"}, password |-> Modifiers, ap |-> Modifiers,
   info |-> {"x", "r", "enter", "esc", "y", "N"}, pick |-> Slots \union {"x", "enter", "esc"},
   edit |-> Modifiers]

\* Fault: the handler of a form takes the keys it finds down for new ones.
Unprimed(f) == seen[f].keys

\* The keys a form takes for already down: those of its own last pass, or,
\* when another form of the family came between, those down as it opens.
Before(f) == IF seen[f].on = screen THEN seen[f].keys ELSE held

Fresh(f, k) == k \in held \ Before(f)

\* Fault: a form lets its overlay's timer run.
InFormTimed(f, s) ==
  /\ Route({s})
  /\ seen' = [seen EXCEPT ![f] = [on |-> s, keys |-> held \intersect Watched[s]]]
  /\ UNCHANGED <<live, playing, digit, old>>

\* The overlay stays, and the keys are remembered for the next pass.
InForm(f, s) ==
  /\ Route({s})
  /\ old' = FALSE
  /\ seen' = [seen EXCEPT ![f] = [on |-> s, keys |-> held \intersect Watched[s]]]
  /\ UNCHANGED <<live, playing, digit>>

Acts(ks) == replayed' = ks \intersect carried

Commands(f) == {k \in Watched[screen] : Fresh(f, k)}

\* Another form of the family opens: what is down now was meant for this one.
Leave(s) ==
  /\ screen' = s
  /\ carried' = IF s = "decoder" THEN {} ELSE held

Stay == UNCHANGED <<screen, carried>>

Connect == link' \in {"connecting", "idle"}

MoveCursor(l, d) ==
  LET to == IF l.cursor + d < 0 THEN 0
            ELSE IF l.cursor + d >= l.count THEN l.count - 1 ELSE l.cursor + d
  IN IF l.count = 0 THEN NoList
     ELSE [l EXCEPT !.cursor = to,
                    !.top = IF to < @ THEN to
                            ELSE IF to >= @ + Page THEN to - (Page - 1) ELSE @]

\* The scan list: ; and . move the cursor, Enter chooses, Esc gives up.
InList ==
  LET up == IF Fresh("wifi", ";") THEN MoveCursor(list, -1) ELSE list
      moved == IF Fresh("wifi", ".") THEN MoveCursor(up, 1) ELSE up
      chosen == Fresh("wifi", "enter") /\ moved.cursor < moved.count
  IN /\ InForm("wifi", "list")
     /\ Acts(Commands("wifi"))
     /\ \/ /\ Fresh("wifi", "esc")
           /\ Leave("decoder")
           /\ Emptied("decoder")
           /\ link' = "idle"
           /\ confirm' = FALSE
        \/ /\ ~Fresh("wifi", "esc") /\ chosen
           /\ list' = moved
           /\ UNCHANGED confirm
           /\ \/ Leave("info") /\ Connect /\ UNCHANGED field
              \/ /\ Leave("password")
                 /\ field' = [Empty EXCEPT !.prev = {"enter"}]
                 /\ UNCHANGED link
        \/ /\ ~Fresh("wifi", "esc") /\ ~chosen
           /\ list' = moved
           /\ Stay
           /\ UNCHANGED <<confirm, link, field>>
     /\ UNCHANGED <<bank, slot>>

Shift(f, d) ==
  [f EXCEPT !.cursor = IF @ + d < 0 THEN 0 ELSE IF @ + d > f.len THEN f.len ELSE @ + d]

\* feed(): what one pass does to the field, and what it reports.
Feed(f, p) ==
  LET new == (held \intersect {"enter", "esc", "bs"}) \union ({p} \ {NoKey})
      kept == [f EXCEPT !.prev = new]
      edge(k) == k \in new /\ k \notin f.prev
  IN CASE edge("esc") -> [field |-> kept, result |-> "ESC"]
       [] ~edge("esc") /\ edge("enter") -> [field |-> kept, result |-> "ENTER"]
       [] ~edge("esc") /\ ~edge("enter") /\ edge("bs") ->
            [field |-> IF f.cursor = 0 THEN kept
                       ELSE [kept EXCEPT !.len = @ - 1, !.cursor = @ - 1],
             result |-> "CHANGED"]
       [] OTHER ->
            [field |-> IF p # NoKey /\ edge(p) /\ f.len < Cap
                       THEN [kept EXCEPT !.len = @ + 1, !.cursor = @ + 1] ELSE kept,
             result |-> "CHANGED"]

\* A pass of a form with a text field: the cursor keys, then feed() with what
\* is left.  The access point's form discards the character it opens with.
Edited(f, p) ==
  LET shifts == {<<"left", -1>>, <<"right", 1>>}
      moves == {s \in shifts : Fresh(f, s[1])}
      moved == IF moves = {} THEN field ELSE Shift(field, (CHOOSE s \in moves : TRUE)[2])
      primed == IF screen = "ap" /\ seen[f].on # screen /\ p # NoKey
                THEN [moved EXCEPT !.prev = (@ \ Printable) \union {p}] ELSE moved
  IN Feed(primed, IF moves = {} THEN p ELSE NoKey)

KeyOf(result) == CASE result = "ENTER" -> "enter" [] result = "ESC" -> "esc" [] OTHER -> NoKey

\* The passphrase of a network: Enter connects, Esc goes back to the list.
InPassword ==
  /\ InForm("wifi", "password")
  /\ \E p \in Keys \union {NoKey} :
       /\ Prints(p)
       /\ LET e == Edited("wifi", p) IN
          /\ Acts({KeyOf(e.result)})
          /\ \/ e.result = "ENTER" /\ Leave("info") /\ Connect /\ field' = Empty
             \/ e.result = "ESC" /\ Leave("list") /\ field' = Empty /\ UNCHANGED link
             \/ e.result = "CHANGED" /\ Stay /\ field' = e.field /\ UNCHANGED link
  /\ UNCHANGED <<list, confirm, bank, slot>>

\* The passphrase of the access point: Enter starts it, if the radio can.
InAccessPoint ==
  /\ InForm("wifi", "ap")
  /\ \E p \in Keys \union {NoKey} :
       /\ Prints(p)
       /\ LET e == Edited("wifi", p) IN
          /\ Acts({KeyOf(e.result)})
          /\ \/ e.result = "ENTER" /\ Leave("info") /\ field' = Empty /\ link' \in {"ap", "idle"}
             \/ e.result = "ESC" /\ Leave("decoder") /\ field' = Empty /\ UNCHANGED link
             \/ e.result = "CHANGED" /\ Stay /\ field' = e.field /\ UNCHANGED link
  /\ list' = NoList
  /\ UNCHANGED <<confirm, bank, slot>>

\* The question whether to forget the network takes every key but its own.
InQuestion ==
  /\ InForm("wifi", "info")
  /\ Acts(Commands("wifi"))
  /\ confirm
  /\ confirm' = ~(Fresh("wifi", "y") \/ Fresh("wifi", "N") \/ Fresh("wifi", "esc"))
  /\ link' = IF Fresh("wifi", "y") THEN "idle" ELSE link
  /\ Stay
  /\ UNCHANGED <<list, bank, slot, field>>

\* The network's state: X drops or asks, R retries, Enter and Esc leave, and
\* give up an attempt that is still under way.
InInfo ==
  LET leaves == Fresh("wifi", "enter") \/ Fresh("wifi", "esc")
  IN /\ InForm("wifi", "info")
     /\ Acts(Commands("wifi"))
     /\ ~confirm
     /\ \E drops \in IF link = "ap" THEN {TRUE} ELSE BOOLEAN :
          LET left == IF Fresh("wifi", "x") /\ drops THEN "idle" ELSE link
          IN /\ confirm' = (Fresh("wifi", "x") /\ ~drops)
             /\ \E l \in IF Fresh("wifi", "r") THEN {left, "connecting", "idle"} ELSE {left} :
                  link' = IF leaves /\ l = "connecting" THEN "idle" ELSE l
     /\ IF leaves THEN Leave("decoder") ELSE Stay
     /\ Emptied(screen')
     /\ UNCHANGED <<bank, slot>>

\* The picker: a digit shows its memory, X clears the one shown, Enter edits
\* it, Esc leaves.  Enter does not wait for the rest of the pass.
InPicker ==
  /\ InForm("memory", "pick")
  /\ Acts(Commands("memory"))
  /\ \E p \in Keys \union {NoKey} :
       /\ Prints(p)
       /\ LET shown == IF p \in Slots /\ Fresh("memory", p) THEN p ELSE slot
              cleared == IF Fresh("memory", "x") THEN [bank EXCEPT ![shown] = 0] ELSE bank
          IN /\ bank' = cleared
             /\ IF Fresh("memory", "enter")
                THEN /\ Leave("edit")
                     /\ field' = [len |-> cleared[shown], cursor |-> cleared[shown],
                                  prev |-> {"enter"} \union ({p} \ {NoKey})]
                ELSE /\ UNCHANGED field
                     /\ IF Fresh("memory", "esc") THEN Leave("decoder") ELSE Stay
             /\ slot' = IF screen' = "decoder" THEN "0" ELSE shown
  /\ UNCHANGED wifi

\* The editor: Enter puts the field into the memory and saves, Esc discards.
InEditor ==
  /\ InForm("memory", "edit")
  /\ \E p \in Keys \union {NoKey} :
       /\ Prints(p)
       /\ LET e == Edited("memory", p) IN
          /\ Acts({KeyOf(e.result)})
          /\ IF e.result = "CHANGED" THEN Stay /\ field' = e.field /\ UNCHANGED <<list, slot>>
             ELSE Leave("decoder") /\ Emptied("decoder")
          /\ bank' = IF e.result = "ENTER" THEN [bank EXCEPT ![slot] = e.field.len] ELSE bank
  /\ UNCHANGED <<confirm, link>>

-----------------------------------------------------------------------------
(* The tail of the pass.                                                   *)

\* Fault: the key-down of a held K outlives the key.
HoldForever(s) == own' = (own \/ (live["keying"] = 1 /\ s # "keying" /\ ~mute /\ "K" \in held))

\* A held K keys the transmitter, on every screen but one.
Hold(s) == own' = (live["keying"] = 1 /\ s # "keying" /\ ~mute /\ "K" \in held)

\* Enter (which also saves the setting that is shown) and button A close an
\* overlay; Enter leaves the forms to their own handlers.
Tail ==
  /\ phase = "tail"
  /\ phase' = "scan"
  /\ last' = held
  /\ Hold(screen)
  /\ mute' = (mute /\ "K" \in held)
  /\ LET enter == "enter" \in held \ last /\ screen \notin WifiScreens \union MemoryScreens
         buttonA == "btnA" \in held \ last
     IN screen' = IF enter \/ buttonA THEN "decoder" ELSE screen
  /\ Emptied(screen')
  /\ old' = (old /\ screen' # "decoder")
  /\ carried' = IF screen' = "decoder" THEN {} ELSE carried
  /\ replayed' = {}
  /\ UNCHANGED <<held, dismiss, playing, live, bank, seen, digit, confirm, link,
                 skipped>>

-----------------------------------------------------------------------------
(* What runs beside the keyboard.                                          *)

\* The player ends on its own, on the audio task.  Only the scan asks whether
\* it plays, so it is enough that it ends between two passes.
EndText ==
  /\ phase = "scan"
  /\ playing
  /\ playing' = FALSE
  /\ UNCHANGED <<phase, keys, overlay, live, bank, slot, form, digit, wifi,
                 radio, skipped>>

\* Between two passes: the host or the web page begins a text.
PlayRemote ==
  /\ phase = "scan"
  /\ ~playing
  /\ playing' = TRUE
  /\ UNCHANGED <<phase, keys, overlay, live, bank, slot, form, digit, wifi,
                 radio, skipped>>

\* POST /api/settings: a setting is set.
WebSetting ==
  /\ phase = "scan"
  /\ \E s \in Settings : \E v \in 0 .. Top[s] :
       live' = [live EXCEPT ![s] = v]
  /\ UNCHANGED <<phase, keys, overlay, playing, bank, slot, form, digit, wifi,
                 radio, skipped>>

\* POST /api/memory: a memory gets a new text.
WebMemory ==
  /\ phase = "scan"
  /\ \E s \in Slots : \E n \in 0 .. Cap :
       bank' = [bank EXCEPT ![s] = n]
  /\ UNCHANGED <<phase, keys, overlay, playing, live, slot, form, digit, wifi,
                 radio, skipped>>

\* WifiMgr::poll() and mirrorWifiState(): an attempt or the access point ends, or
\* a scan does.
WifiPoll ==
  /\ phase = "scan"
  /\ \/ link # "idle" /\ link' = "idle" /\ UNCHANGED list
     \/ /\ screen = "list" /\ list.count = 0
        /\ \E n \in 1 .. Networks : list' = [list EXCEPT !.count = n]
        /\ UNCHANGED link
  /\ UNCHANGED <<phase, keys, overlay, playing, live, bank, slot, form, digit,
                 confirm, radio, skipped>>

\* OVERLAY_TIMEOUT_MS go by in which loop() did not restart the timer: the gate
\* ends every pass.
Age ==
  /\ phase = "scan"
  /\ ~old
  /\ screen # "decoder" /\ skipped
  /\ old' = TRUE
  /\ UNCHANGED <<phase, keys, screen, dismiss, playing, live, bank, slot, form,
                 digit, wifi, radio, skipped>>

\* Fault: the forms time out as the overlays do.
TimesOutAnywhere == screen # "decoder"

TimesOut == screen \notin {"decoder"} \union WifiScreens

\* The display task finds the overlay too old, also when the timer is restarted
\* after it has read the clock: the difference is then below zero, and huge...
Decide ==
  /\ ~dismiss
  /\ TimesOut
  /\ old \/ phase = "tail"
  /\ dismiss' = TRUE
  /\ UNCHANGED <<phase, keys, screen, old, playing, live, bank, slot, form,
                 digit, wifi, radio, skipped>>

\* ...and returns to the decoder.
Dismiss ==
  /\ dismiss
  /\ dismiss' = FALSE
  /\ screen' = "decoder"
  /\ Emptied("decoder")
  /\ old' = FALSE
  /\ carried' = {}
  /\ UNCHANGED <<phase, keys, playing, live, bank, seen, replayed, digit, confirm,
                 link, radio, skipped>>

Opening ==
  \/ \E k \in DOMAIN SettingOf : Toggle(k)
  \/ ToggleKeying
  \/ OpenPicker
  \/ OpenList
  \/ OpenAccessPoint
  \/ OpenInfo
  \/ PlayDemo

Handling ==
  \/ AdjustSetting
  \/ PlayDigit
  \/ InList
  \/ InPassword
  \/ InAccessPoint
  \/ InQuestion
  \/ InInfo
  \/ InPicker
  \/ InEditor

Loop == ConsumedPass \/ PlainPass \/ Opening \/ Stamp \/ Handling \/ Tail

Others == EndText \/ PlayRemote \/ WebSetting \/ WebMemory \/ WifiPoll \/ Age
            \/ Decide \/ Dismiss

Next == Loop \/ Others

Spec == Init /\ [][Next]_vars

-----------------------------------------------------------------------------
(* Properties.                                                             *)

FieldType == [len : 0 .. Cap, cursor : 0 .. Cap, prev : SUBSET Keys]

SeenType == [on : Screens, keys : SUBSET Keys]

ListType == [count : 0 .. Networks, cursor : 0 .. Networks, top : 0 .. Networks]

LoopType ==
  /\ phase \in {"scan", "stamp", "route", "tail"}
  /\ held \in Chords /\ last \in Chords
  /\ playing \in BOOLEAN /\ skipped \in BOOLEAN
  /\ own \in BOOLEAN /\ mute \in BOOLEAN
  /\ digit \in Slots \union {NoKey}

ModelType ==
  /\ screen \in Screens /\ old \in BOOLEAN /\ dismiss \in BOOLEAN
  /\ live \in [Settings -> Nat] /\ bank \in [Slots -> 0 .. Cap] /\ slot \in Slots

FormType ==
  /\ field \in FieldType /\ field.cursor <= field.len
  /\ seen \in [{"wifi", "memory"} -> SeenType]
  /\ carried \subseteq Keys /\ replayed \subseteq Keys

WifiType ==
  list \in ListType /\ confirm \in BOOLEAN /\ link \in {"idle", "connecting", "ap"}

\* Every variable has its type (MorseModel, and the statics of main.cpp).
TypeOK == LoopType /\ ModelType /\ FormType /\ WifiType

\* A key held down when one form replaces another was meant for the first: no
\* handler acts on it before it is released (main.cpp:118-128, the comment on
\* the Enter that would drop the connection it has just begun).  Only a held Esc
\* may: no way into a text field primes it, and the form is given up at once.
CommandsAreFresh == replayed \subseteq {"esc"}

\* The cursor of the scan list is on a row that is shown, and on a network
\* while there is one (wifiAdjustScanCursor()).
CursorIsShown ==
  screen = "list" /\ list.count > 0 =>
    /\ list.cursor < list.count
    /\ list.cursor \in list.top .. list.top + Page - 1

\* A keyboard that holds the transmitter keyed has its K down, unless the gate
\* ended the pass that would have released it: nothing else leaves the
\* transmitter keyed with no key down.
KeyedOnlyByK == phase = "scan" /\ own => "K" \in held \/ skipped

\* The timer of a form runs out only while a text ends every pass at the gate:
\* each pass of an operator who is still typing restarts it (main.cpp:110-116,
\* 449-453).
FormsStayFresh ==
  phase = "scan" /\ old /\ screen \in WifiScreens \union MemoryScreens => skipped

\* The display task never takes a Wi-Fi form away from the operator, also when
\* it decides before the screen changes and acts after it.
TimeoutSparesForms == [][dismiss /\ ~dismiss' => screen \notin WifiScreens]_vars
=============================================================================
