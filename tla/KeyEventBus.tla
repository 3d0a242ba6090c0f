----------------------------- MODULE KeyEventBus -----------------------------
(***************************************************************************)
(* KeyEventBus and its one sink, RadioKeyer, at the grain of their atomic  *)
(* memory accesses.  The audio task (core 1) and loop() (core 0) call      *)
(* keyDown, keyUp, forceAllUp and setEnabled; the callbacks run on the     *)
(* caller's task, after the update of the count that triggers them.        *)
(*                                                                         *)
(* Spec lets the calls of the tasks overlap freely, as two cores do.       *)
(* SerialSpec runs every call to its end before another task starts one,   *)
(* as a single core without preemption, and every host unit test, does.    *)
(***************************************************************************)
EXTENDS Integers, FiniteSets

CONSTANTS
  Tasks,        \* the callers: the audio task and loop()
  Producers,    \* the CW sources
  RunsOn,       \* the task each producer makes its calls from
  Controllers   \* the tasks that call forceAllUp() and setEnabled()

ASSUME TasksFinite == IsFiniteSet(Tasks)
ASSUME BusProducersFinite == IsFiniteSet(Producers)
ASSUME RunsOnType == RunsOn \in [Producers -> Tasks]
ASSUME ControllersType == Controllers \subseteq Tasks

VARIABLES
  demand,      \* std::atomic<int> _demand
  enabled,     \* std::atomic<bool> _enabled
  keyed,       \* std::atomic<bool> _keyed
  gpio,        \* the level of PIN_RADIO_KEY
  pc,          \* per task: the next access of the call it is in
  seen,        \* per task: keyUp()'s local `prev`
  disabling,   \* per task: forceAllUp() was called by setEnabled(false)
  held,        \* producers whose keyDown() is not yet matched by a keyUp()
  delivered    \* history: onDown callbacks run, less onUp callbacks run

vars == <<demand, enabled, keyed, gpio, pc, seen, disabling, held, delivered>>

Labels == {"idle", "downGate", "downTest", "driveHigh", "markHigh",
           "decrement", "upTest", "driveLow", "markLow",
           "offForce", "offLow", "offMark"}

Init ==
  /\ demand = 0
  /\ enabled = FALSE
  /\ keyed = FALSE
  /\ gpio = FALSE
  /\ pc = [t \in Tasks |-> "idle"]
  /\ seen = [t \in Tasks |-> 0]
  /\ disabling = [t \in Tasks |-> FALSE]
  /\ held = {}
  /\ delivered = 0

Goto(t, label) == pc' = [pc EXCEPT ![t] = label]

At(t, label) == pc[t] = label

\* Where a call continues after its onUp callbacks.
AfterUp(t) == IF disabling[t] THEN "offLow" ELSE "idle"

-----------------------------------------------------------------------------
(* keyDown() and RadioKeyer's onBusDown().                                 *)

\* _demand.fetch_add(1): only the 0 -> 1 edge fires the sinks.
KeyDown(t, p) ==
  /\ At(t, "idle")
  /\ RunsOn[p] = t
  /\ p \notin held
  /\ held' = held \union {p}
  /\ demand' = demand + 1
  /\ Goto(t, IF demand = 0 THEN "downGate" ELSE "idle")
  /\ UNCHANGED <<enabled, keyed, gpio, seen, disabling, delivered>>

\* onBusDown(): `if (!_enabled) return`.
DownGate(t) ==
  /\ At(t, "downGate")
  /\ delivered' = delivered + 1
  /\ Goto(t, IF enabled THEN "downTest" ELSE "idle")
  /\ UNCHANGED <<demand, enabled, keyed, gpio, seen, disabling, held>>

\* onBusDown(): `if (!_keyed)`.
DownTest(t) ==
  /\ At(t, "downTest")
  /\ Goto(t, IF keyed THEN "idle" ELSE "driveHigh")
  /\ UNCHANGED <<demand, enabled, keyed, gpio, seen, disabling, held, delivered>>

\* applyLevel(true), first the pin and then the cached flag.
DriveHigh(t) ==
  /\ At(t, "driveHigh")
  /\ gpio' = TRUE
  /\ Goto(t, "markHigh")
  /\ UNCHANGED <<demand, enabled, keyed, seen, disabling, held, delivered>>

MarkHigh(t) ==
  /\ At(t, "markHigh")
  /\ keyed' = TRUE
  /\ Goto(t, "idle")
  /\ UNCHANGED <<demand, enabled, gpio, seen, disabling, held, delivered>>

-----------------------------------------------------------------------------
(* keyUp(), forceAllUp() and RadioKeyer's onBusUp().                       *)

\* keyUp(): the load before the compare-and-swap loop.
KeyUp(t, p) ==
  /\ At(t, "idle")
  /\ RunsOn[p] = t
  /\ p \in held
  /\ held' = held \ {p}
  /\ seen' = [seen EXCEPT ![t] = demand]
  /\ Goto(t, IF demand > 0 THEN "decrement" ELSE "idle")
  /\ UNCHANGED <<demand, enabled, keyed, gpio, disabling, delivered>>

\* Fault: a plain store instead of the compare-and-swap.
DecrementUncompared(t) ==
  /\ At(t, "decrement")
  /\ demand' = seen[t] - 1
  /\ Goto(t, IF seen[t] = 1 THEN "upTest" ELSE "idle")
  /\ UNCHANGED <<enabled, keyed, gpio, seen, disabling, held, delivered>>

\* compare_exchange_weak succeeds: the 1 -> 0 edge fires the sinks.
Decrement(t) ==
  /\ At(t, "decrement")
  /\ demand = seen[t]
  /\ demand' = seen[t] - 1
  /\ Goto(t, IF seen[t] = 1 THEN "upTest" ELSE "idle")
  /\ UNCHANGED <<enabled, keyed, gpio, seen, disabling, held, delivered>>

\* compare_exchange_weak fails and reloads `prev`.
Reload(t) ==
  /\ At(t, "decrement")
  /\ demand # seen[t]
  /\ seen' = [seen EXCEPT ![t] = demand]
  /\ Goto(t, IF demand > 0 THEN "decrement" ELSE "idle")
  /\ UNCHANGED <<demand, enabled, keyed, gpio, disabling, held, delivered>>

\* onBusUp(): `if (!_keyed) return`.
UpTest(t) ==
  /\ At(t, "upTest")
  /\ delivered' = delivered - 1
  /\ Goto(t, IF keyed THEN "driveLow" ELSE AfterUp(t))
  /\ UNCHANGED <<demand, enabled, keyed, gpio, seen, disabling, held>>

\* applyLevel(false), first the pin and then the cached flag.
DriveLow(t) ==
  /\ At(t, "driveLow")
  /\ gpio' = FALSE
  /\ Goto(t, "markLow")
  /\ UNCHANGED <<demand, enabled, keyed, seen, disabling, held, delivered>>

MarkLow(t) ==
  /\ At(t, "markLow")
  /\ keyed' = FALSE
  /\ Goto(t, AfterUp(t))
  /\ UNCHANGED <<demand, enabled, gpio, seen, disabling, held, delivered>>

\* _demand.exchange(0): fires onUp when anything was outstanding.
Drain(t, onward) ==
  /\ demand' = 0
  /\ Goto(t, IF demand > 0 THEN "upTest" ELSE onward)

\* Fault: the count is drained and the sinks are not told.
ForceAllUpSilent(t) ==
  /\ At(t, "idle")
  /\ t \in Controllers
  /\ demand' = 0
  /\ UNCHANGED <<enabled, keyed, gpio, pc, seen, disabling, held, delivered>>

ForceAllUp(t) ==
  /\ At(t, "idle")
  /\ t \in Controllers
  /\ Drain(t, "idle")
  /\ UNCHANGED <<enabled, keyed, gpio, seen, disabling, held, delivered>>

-----------------------------------------------------------------------------
(* RadioKeyer::setEnabled().  A call that changes nothing returns early.   *)

Enable(t) ==
  /\ At(t, "idle")
  /\ t \in Controllers
  /\ ~enabled
  /\ enabled' = TRUE
  /\ UNCHANGED <<demand, keyed, gpio, pc, seen, disabling, held, delivered>>

Disable(t) ==
  /\ At(t, "idle")
  /\ t \in Controllers
  /\ enabled
  /\ enabled' = FALSE
  /\ disabling' = [disabling EXCEPT ![t] = TRUE]
  /\ Goto(t, "offForce")
  /\ UNCHANGED <<demand, keyed, gpio, seen, held, delivered>>

\* Fault: disabling leaves the outstanding demand in place.
OffForceUndrained(t) ==
  /\ At(t, "offForce")
  /\ Goto(t, "offLow")
  /\ UNCHANGED <<demand, enabled, keyed, gpio, seen, disabling, held, delivered>>

OffForce(t) ==
  /\ At(t, "offForce")
  /\ Drain(t, "offLow")
  /\ UNCHANGED <<enabled, keyed, gpio, seen, disabling, held, delivered>>

\* The applyLevel(false) that ends setEnabled(false).
OffLow(t) ==
  /\ At(t, "offLow")
  /\ gpio' = FALSE
  /\ Goto(t, "offMark")
  /\ UNCHANGED <<demand, enabled, keyed, seen, disabling, held, delivered>>

OffMark(t) ==
  /\ At(t, "offMark")
  /\ keyed' = FALSE
  /\ disabling' = [disabling EXCEPT ![t] = FALSE]
  /\ Goto(t, "idle")
  /\ UNCHANGED <<demand, enabled, gpio, seen, held, delivered>>

-----------------------------------------------------------------------------
Callback(t) ==
  \/ DownGate(t) \/ DownTest(t) \/ DriveHigh(t) \/ MarkHigh(t)
  \/ UpTest(t) \/ DriveLow(t) \/ MarkLow(t)

Step(t) ==
  \/ \E p \in Producers : KeyDown(t, p) \/ KeyUp(t, p)
  \/ Decrement(t) \/ Reload(t)
  \/ Callback(t)
  \/ ForceAllUp(t)
  \/ Enable(t) \/ Disable(t) \/ OffForce(t) \/ OffLow(t) \/ OffMark(t)

Next == \E t \in Tasks : Step(t)

Spec == Init /\ [][Next]_vars

\* No other task is inside a call.
Alone(t) == \A u \in Tasks \ {t} : At(u, "idle")

SerialNext == \E t \in Tasks : Alone(t) /\ Step(t)

SerialSpec == Init /\ [][SerialNext]_vars

-----------------------------------------------------------------------------
Pending(label) == {t \in Tasks : At(t, label)}

Quiescent == \A t \in Tasks : At(t, "idle")

TypeOK ==
  /\ demand \in Nat
  /\ enabled \in BOOLEAN
  /\ keyed \in BOOLEAN
  /\ gpio \in BOOLEAN
  /\ pc \in [Tasks -> Labels]
  /\ seen \in [Tasks -> Nat]
  /\ disabling \in [Tasks -> BOOLEAN]
  /\ held \subseteq Producers
  /\ delivered \in Int

\* Every edge of the count is owed to the sinks exactly once: the callbacks
\* run so far and those still pending add up to the level of the count,
\* however the calls of the two cores overlap.
EdgesBalance ==
  delivered + Cardinality(Pending("downGate")) - Cardinality(Pending("upTest"))
    = IF demand > 0 THEN 1 ELSE 0

\* The saturating compare-and-swap never takes more than it was given: the
\* count is covered by the producers that still hold their key and the
\* releases under way.
DemandCovered ==
  demand <= Cardinality(held) + Cardinality(Pending("decrement"))

\* Once no call is running, nobody holds a key and so the transmitter is off
\* the air (radio_keyer.h: the line is high while a CW tone is generated).
UnkeyedWhenReleased ==
  Quiescent /\ held = {} => ~gpio

\* Once no call is running, a disabled output is LOW, and the cached flag
\* tells the level of the pin (isKeyed() "reflects the physical line").
DisabledIsLow ==
  Quiescent => (~enabled => ~gpio) /\ (keyed = gpio)

-----------------------------------------------------------------------------
(* The call under way, if any, seen as done: the serial specification      *)
(* implements KeyLine with each call taking effect at its first access.    *)

Rising == {"downTest", "driveHigh", "markHigh"}
Falling == {"upTest", "driveLow", "markLow", "offForce", "offLow", "offMark"}

SomeAt(labels) == \E t \in Tasks : pc[t] \in labels

DemandSeen ==
  IF SomeAt({"offForce"}) THEN 0
  ELSE IF SomeAt({"decrement"}) THEN demand - 1
  ELSE demand

LineSeen ==
  IF SomeAt(Falling) THEN FALSE
  ELSE IF SomeAt(Rising) THEN TRUE
  ELSE IF SomeAt({"downGate"}) THEN gpio \/ enabled
  ELSE IF SomeAt({"decrement"}) THEN gpio /\ demand # 1
  ELSE gpio

Promise == INSTANCE KeyLine WITH demand <- DemandSeen, line <- LineSeen

\* Call by call, the bus and its sink do what KeyLine promises.
ImplementsKeyLine == Promise!Spec

=============================================================================
