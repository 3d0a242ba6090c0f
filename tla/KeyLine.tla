------------------------------- MODULE KeyLine -------------------------------
(***************************************************************************)
(* What the keying path promises, one call at a time: a reference count of *)
(* key-downs (KeyEventBus) in front of one transmitter line (RadioKeyer).  *)
(* Each action is a whole call of the C++ interface, with every callback   *)
(* it makes.  KeyEventBus is the detailed specification that splits these  *)
(* calls into their atomic memory accesses and implements this module as   *)
(* long as the calls do not overlap.                                       *)
(***************************************************************************)
EXTENDS Naturals

CONSTANT Producers   \* the CW sources: paddle keyer, straight key, player, K key

VARIABLES
  held,      \* producers whose keyDown() is not yet matched by a keyUp()
  demand,    \* KeyEventBus: _demand
  enabled,   \* RadioKeyer: _enabled
  line       \* RadioKeyer: the level of PIN_RADIO_KEY, cached in _keyed

vars == <<held, demand, enabled, line>>

Init ==
  /\ held = {}
  /\ demand = 0
  /\ enabled = FALSE
  /\ line = FALSE

\* keyDown(): only the 0 -> 1 edge reaches the sink, and the sink ignores it
\* while the output is disabled.
KeyDown(p) ==
  /\ p \in Producers \ held
  /\ held' = held \union {p}
  /\ demand' = demand + 1
  /\ line' = (line \/ (demand = 0 /\ enabled))
  /\ UNCHANGED enabled

\* keyUp(): the count saturates at zero and only the 1 -> 0 edge reaches the
\* sink.  The count is anonymous: it does not know whose key-down it releases.
KeyUp(p) ==
  /\ p \in held
  /\ held' = held \ {p}
  /\ demand' = IF demand = 0 THEN 0 ELSE demand - 1
  /\ line' = (line /\ demand # 1)
  /\ UNCHANGED enabled

\* forceAllUp(): drains the count; the producers are not told.
ForceAllUp ==
  /\ demand' = 0
  /\ line' = (line /\ demand = 0)
  /\ UNCHANGED <<held, enabled>>

\* setEnabled(true) restores no demand from before.
Enable ==
  /\ ~enabled
  /\ enabled' = TRUE
  /\ UNCHANGED <<held, demand, line>>

\* setEnabled(false) drains the bus and drives the line LOW.
Disable ==
  /\ enabled
  /\ enabled' = FALSE
  /\ demand' = 0
  /\ line' = FALSE
  /\ UNCHANGED held

Next ==
  \/ \E p \in Producers : KeyDown(p) \/ KeyUp(p)
  \/ ForceAllUp
  \/ Enable
  \/ Disable

Spec == Init /\ [][Next]_vars

=============================================================================
