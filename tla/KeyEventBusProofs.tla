-------------------------- MODULE KeyEventBusProofs --------------------------
(***************************************************************************)
(* Proofs about KeyEventBus, for any set of tasks and producers: the       *)
(* accounting invariants of the overlapping specification, and that the    *)
(* serial specification implements KeyLine.                                *)
(***************************************************************************)
EXTENDS KeyEventBus, FiniteSetTheorems, TLAPS

-----------------------------------------------------------------------------
(* Counting the tasks at a label.                                          *)

\* A task that moves from one label to another leaves the one count and
\* enters the other; the other tasks do not count differently.
LEMMA MoveCount ==
  ASSUME NEW f \in [Tasks -> Labels], NEW t \in Tasks, NEW to \in Labels,
         NEW m \in Labels
  PROVE  Cardinality({u \in Tasks : [f EXCEPT ![t] = to][u] = m})
           = Cardinality({u \in Tasks : f[u] = m})
             + (IF to = m THEN 1 ELSE 0) - (IF f[t] = m THEN 1 ELSE 0)
<1> DEFINE S == {u \in Tasks : f[u] = m}
           R == {u \in Tasks : [f EXCEPT ![t] = to][u] = m}
<1>1. IsFiniteSet(S)
  BY TasksFinite, FS_Subset
<1>2. IsFiniteSet(S \ {t}) /\ Cardinality(S \ {t})
        = IF f[t] = m THEN Cardinality(S) - 1 ELSE Cardinality(S)
  BY <1>1, FS_RemoveElement
<1>3. Cardinality(S) \in Nat
  BY <1>1, FS_CardinalityType
<1>4. CASE to = m
  <2>1. R = (S \ {t}) \union {t}
    BY <1>4
  <2>2. Cardinality(R) = Cardinality(S \ {t}) + 1
    BY <1>2, <2>1, FS_AddElement
  <2> QED
    BY <1>2, <1>3, <1>4, <2>2
<1>5. CASE to # m
  <2>1. R = S \ {t}
    BY <1>5
  <2> QED
    BY <1>2, <1>3, <1>5, <2>1
<1> QED
  BY <1>4, <1>5

\* The same for a step of a task.
LEMMA PendingMoves ==
  ASSUME TypeOK, NEW t \in Tasks, NEW to \in Labels, Goto(t, to), NEW m \in Labels
  PROVE  Cardinality(Pending(m))'
           = Cardinality(Pending(m))
             + (IF to = m THEN 1 ELSE 0) - (IF pc[t] = m THEN 1 ELSE 0)
BY MoveCount DEF TypeOK, Goto, Pending, At

\* Finitely many tasks: the pending calls can be counted.
LEMMA PendingFinite ==
  ASSUME NEW m
  PROVE  Cardinality(Pending(m)) \in Nat
BY TasksFinite, FS_Subset, FS_CardinalityType DEF Pending

\* A step that moves no task leaves the pending calls alone.
LEMMA PendingSame ==
  ASSUME UNCHANGED pc, NEW m
  PROVE  Cardinality(Pending(m))' = Cardinality(Pending(m))
BY DEF Pending, At

-----------------------------------------------------------------------------
(* The overlapping specification.                                          *)

\* A task that is about to decrement has seen a positive count: the loop
\* leaves as soon as it reads zero.
SeenPositive == \A t \in Tasks : At(t, "decrement") => seen[t] > 0

Typed == TypeOK /\ SeenPositive

\* Every step of a task keeps the types, whatever the other tasks are doing.
LEMMA StepTyped ==
  ASSUME Typed, NEW t \in Tasks, Step(t)
  PROVE  Typed'
<1> USE DEF Typed, TypeOK, SeenPositive, At, Goto, Labels, AfterUp
<1>1. ASSUME NEW p \in Producers, KeyDown(t, p) PROVE Typed'
  BY <1>1 DEF KeyDown
<1>2. ASSUME NEW p \in Producers, KeyUp(t, p) PROVE Typed'
  BY <1>2 DEF KeyUp
<1>3. CASE Decrement(t)
  BY <1>3 DEF Decrement
<1>4. CASE Reload(t)
  BY <1>4 DEF Reload
<1>5. CASE DownGate(t)
  BY <1>5 DEF DownGate
<1>6. CASE DownTest(t)
  BY <1>6 DEF DownTest
<1>7. CASE DriveHigh(t)
  BY <1>7 DEF DriveHigh
<1>8. CASE MarkHigh(t)
  BY <1>8 DEF MarkHigh
<1>9. CASE UpTest(t)
  BY <1>9 DEF UpTest
<1>10. CASE DriveLow(t)
  BY <1>10 DEF DriveLow
<1>11. CASE MarkLow(t)
  BY <1>11 DEF MarkLow
<1>12. CASE ForceAllUp(t)
  BY <1>12 DEF ForceAllUp, Drain
<1>13. CASE Enable(t)
  BY <1>13 DEF Enable
<1>14. CASE Disable(t)
  BY <1>14 DEF Disable
<1>15. CASE OffForce(t)
  BY <1>15 DEF OffForce, Drain
<1>16. CASE OffLow(t)
  BY <1>16 DEF OffLow
<1>17. CASE OffMark(t)
  BY <1>17 DEF OffMark
<1> QED
  BY <1>1, <1>2, <1>3, <1>4, <1>5, <1>6, <1>7, <1>8, <1>9, <1>10, <1>11, <1>12,
     <1>13, <1>14, <1>15, <1>16, <1>17 DEF Step, Callback

\* The initial values have their types.
LEMMA InitTyped == Init => Typed
<1> SUFFICES ASSUME Init PROVE Typed
  OBVIOUS
<1>1. disabling \in [Tasks -> BOOLEAN]
  BY Zenon DEF Init
<1>2. pc \in [Tasks -> Labels] /\ seen \in [Tasks -> Nat]
  BY DEF Init, Labels
<1>3. SeenPositive
  BY DEF Init, SeenPositive, At
<1>4. demand \in Nat /\ delivered \in Int
  BY DEF Init
<1>5. held \subseteq Producers
  BY DEF Init
<1>6. enabled \in BOOLEAN /\ keyed \in BOOLEAN /\ gpio \in BOOLEAN
  BY Zenon DEF Init
<1> QED
  BY <1>1, <1>2, <1>3, <1>4, <1>5, <1>6, Zenon DEF Typed, TypeOK

\* Stuttering keeps the types.
LEMMA StutterTyped == Typed /\ UNCHANGED vars => Typed'
BY DEF Typed, TypeOK, SeenPositive, At, vars

\* The types of the bus hold in every state of every overlap of calls; in
\* particular the saturating keyUp() never makes the count negative.
THEOREM TypeCorrect == Spec => []TypeOK
<1>1. Typed /\ [Next]_vars => Typed'
  BY StepTyped, StutterTyped DEF Next
<1>2. Typed => TypeOK
  BY DEF Typed
<1> QED
  BY InitTyped, <1>1, <1>2, PTL DEF Spec

\* Every 0 -> 1 edge of the count is delivered to the sink as one onDown and
\* every 1 -> 0 edge as one onUp, in every overlap of calls.
THEOREM EdgesAlwaysBalance == Spec => []EdgesBalance
<1> DEFINE D == Cardinality(Pending("downGate"))
           U == Cardinality(Pending("upTest"))
<1>1. Init => EdgesBalance
  <2>1. Init => Pending("downGate") = {} /\ Pending("upTest") = {}
    BY DEF Init, Pending, At
  <2> QED
    BY <2>1, FS_EmptySet DEF Init, EdgesBalance
<1>2. ASSUME Typed, EdgesBalance, NEW t \in Tasks, Step(t)
      PROVE  EdgesBalance'
  <2> USE <1>2
  <2>0. /\ D \in Nat /\ U \in Nat /\ delivered \in Int /\ demand \in Nat
        /\ pc \in [Tasks -> Labels] /\ TypeOK
        /\ delivered + D - U = IF demand > 0 THEN 1 ELSE 0
    BY PendingFinite DEF Typed, TypeOK, EdgesBalance
  <2>1. ASSUME NEW to \in Labels, Goto(t, to)
        PROVE  /\ D' = D + (IF to = "downGate" THEN 1 ELSE 0)
                         - (IF pc[t] = "downGate" THEN 1 ELSE 0)
               /\ U' = U + (IF to = "upTest" THEN 1 ELSE 0)
                         - (IF pc[t] = "upTest" THEN 1 ELSE 0)
    <3>1. "downGate" \in Labels /\ "upTest" \in Labels
      BY DEF Labels
    <3> QED
      BY <2>0, <2>1, <3>1, PendingMoves
  <2>2. SUFFICES delivered' + D' - U' = IF demand' > 0 THEN 1 ELSE 0
    BY DEF EdgesBalance
  <2>3. ASSUME NEW p \in Producers, KeyDown(t, p)
        PROVE  delivered' + D' - U' = IF demand' > 0 THEN 1 ELSE 0
    <3>1. CASE demand = 0
      BY <2>0, <2>1, <2>3, <3>1 DEF KeyDown, At, Labels
    <3>2. CASE demand # 0
      BY <2>0, <2>1, <2>3, <3>2 DEF KeyDown, At, Labels
    <3> QED
      BY <3>1, <3>2
  <2>4. ASSUME NEW p \in Producers, KeyUp(t, p)
        PROVE  delivered' + D' - U' = IF demand' > 0 THEN 1 ELSE 0
    BY <2>0, <2>1, <2>4 DEF KeyUp, At, Labels
  <2>5. CASE Decrement(t)
    <3>1. seen[t] = demand /\ seen[t] > 0
      BY <2>5 DEF Decrement, Typed, SeenPositive
    <3>2. CASE demand = 1
      BY <2>0, <2>1, <2>5, <3>1, <3>2 DEF Decrement, At, Labels
    <3>3. CASE demand # 1
      BY <2>0, <2>1, <2>5, <3>1, <3>3 DEF Decrement, At, Labels
    <3> QED
      BY <3>2, <3>3
  <2>6. CASE Reload(t)
    BY <2>0, <2>1, <2>6 DEF Reload, At, Labels
  <2>7. CASE DownGate(t)
    BY <2>0, <2>1, <2>7 DEF DownGate, At, Labels
  <2>8. CASE UpTest(t)
    BY <2>0, <2>1, <2>8 DEF UpTest, At, Labels, AfterUp
  <2>9. CASE DownTest(t) \/ DriveHigh(t) \/ MarkHigh(t)
    BY <2>0, <2>1, <2>9 DEF DownTest, DriveHigh, MarkHigh, At, Labels
  <2>10. CASE DriveLow(t) \/ MarkLow(t)
    BY <2>0, <2>1, <2>10 DEF DriveLow, MarkLow, At, Labels, AfterUp
  <2>11. CASE ForceAllUp(t) \/ OffForce(t)
    <3>1. CASE demand > 0
      BY <2>0, <2>1, <2>11, <3>1 DEF ForceAllUp, OffForce, Drain, At, Labels
    <3>2. CASE demand = 0
      BY <2>0, <2>1, <2>11, <3>2 DEF ForceAllUp, OffForce, Drain, At, Labels
    <3> QED
      BY <2>0, <3>1, <3>2
  <2>12. CASE Enable(t)
    BY <2>0, <2>12, PendingSame DEF Enable
  <2>13. CASE Disable(t) \/ OffLow(t) \/ OffMark(t)
    BY <2>0, <2>1, <2>13 DEF Disable, OffLow, OffMark, At, Labels
  <2> QED
    BY <2>3, <2>4, <2>5, <2>6, <2>7, <2>8, <2>9, <2>10, <2>11, <2>12, <2>13
    DEF Step, Callback
<1>3. EdgesBalance /\ UNCHANGED vars => EdgesBalance'
  BY PendingSame DEF EdgesBalance, vars
<1>4. Typed /\ EdgesBalance /\ [Next]_vars => Typed' /\ EdgesBalance'
  BY <1>2, <1>3, StepTyped, StutterTyped DEF Next
<1> QED
  BY <1>1, <1>4, InitTyped, PTL DEF Spec

\* keyUp() never takes more from the count than its producer put there, in
\* every overlap of calls.
THEOREM DemandAlwaysCovered == Spec => []DemandCovered
<1> DEFINE H == Cardinality(held)
           D == Cardinality(Pending("decrement"))
<1>1. Init => DemandCovered
  <2>1. ASSUME Init PROVE D \in Nat /\ H = 0 /\ demand = 0
    BY <2>1, PendingFinite, FS_EmptySet DEF Init
  <2> QED
    BY <2>1 DEF DemandCovered
<1>2. ASSUME Typed, DemandCovered, NEW t \in Tasks, Step(t)
      PROVE  DemandCovered'
  <2> USE <1>2
  <2>0. /\ D \in Nat /\ H \in Nat /\ demand \in Nat /\ demand <= H + D
        /\ IsFiniteSet(held) /\ pc \in [Tasks -> Labels] /\ TypeOK
    BY PendingFinite, BusProducersFinite, FS_Subset, FS_CardinalityType
    DEF Typed, TypeOK, DemandCovered
  <2>1. ASSUME NEW to \in Labels, Goto(t, to)
        PROVE  D' = D + (IF to = "decrement" THEN 1 ELSE 0)
                      - (IF pc[t] = "decrement" THEN 1 ELSE 0)
    <3>1. "decrement" \in Labels
      BY DEF Labels
    <3> QED
      BY <2>0, <2>1, <3>1, PendingMoves
  <2>2. SUFFICES demand' <= H' + D'
    BY DEF DemandCovered
  <2>3. ASSUME NEW p \in Producers, KeyDown(t, p) PROVE demand' <= H' + D'
    <3>1. H' = H + 1
      BY <2>0, <2>3, FS_AddElement DEF KeyDown
    <3>2. D' = D
      BY <2>0, <2>1, <2>3 DEF KeyDown, At, Labels
    <3> QED
      BY <2>0, <2>3, <3>1, <3>2 DEF KeyDown
  <2>4. ASSUME NEW p \in Producers, KeyUp(t, p) PROVE demand' <= H' + D'
    <3>1. H' = H - 1
      BY <2>0, <2>4, FS_RemoveElement DEF KeyUp
    <3>2. D' = D + (IF demand > 0 THEN 1 ELSE 0)
      BY <2>0, <2>1, <2>4 DEF KeyUp, At, Labels
    <3>3. D' \in Nat /\ H' \in Nat
      BY <2>0, <2>4, <3>2, FS_RemoveElement, FS_CardinalityType DEF KeyUp
    <3> QED
      BY <2>0, <2>4, <3>1, <3>2, <3>3 DEF KeyUp
  <2>5. CASE Decrement(t)
    <3>1. D' = D - 1
      BY <2>0, <2>1, <2>5 DEF Decrement, At, Labels
    <3> QED
      BY <2>0, <2>5, <3>1 DEF Decrement
  <2>6. CASE Reload(t)
    <3>1. D' = D - (IF demand > 0 THEN 0 ELSE 1)
      BY <2>0, <2>1, <2>6 DEF Reload, At, Labels
    <3>2. D' \in Int /\ H' = H /\ demand' = demand
      BY <2>0, <2>6, <3>1 DEF Reload
    <3>3. CASE demand > 0
      BY <2>0, <3>1, <3>2, <3>3
    <3>4. CASE ~(demand > 0)
      <4>1. D' \in Nat
        BY TasksFinite, FS_Subset, FS_CardinalityType DEF Pending
      <4> QED
        BY <2>0, <3>2, <3>4, <4>1
    <3> QED
      BY <3>3, <3>4
  <2>7. CASE DownGate(t) \/ DownTest(t) \/ DriveHigh(t) \/ MarkHigh(t)
    <3>1. D' = D
      BY <2>0, <2>1, <2>7 DEF DownGate, DownTest, DriveHigh, MarkHigh, At, Labels
    <3> QED
      BY <2>0, <2>7, <3>1 DEF DownGate, DownTest, DriveHigh, MarkHigh
  <2>8. CASE UpTest(t) \/ DriveLow(t) \/ MarkLow(t)
    <3>1. D' = D
      BY <2>0, <2>1, <2>8 DEF UpTest, DriveLow, MarkLow, At, Labels, AfterUp
    <3> QED
      BY <2>0, <2>8, <3>1 DEF UpTest, DriveLow, MarkLow
  <2>9. CASE ForceAllUp(t) \/ OffForce(t)
    <3>1. D' \in Nat /\ H' = H /\ demand' = 0
      BY <2>0, <2>9, TasksFinite, FS_Subset, FS_CardinalityType
      DEF ForceAllUp, OffForce, Drain, Pending
    <3> QED
      BY <2>0, <3>1
  <2>10. CASE Enable(t)
    BY <2>0, <2>10, PendingSame DEF Enable
  <2>11. CASE Disable(t) \/ OffLow(t) \/ OffMark(t)
    <3>1. D' = D
      BY <2>0, <2>1, <2>11 DEF Disable, OffLow, OffMark, At, Labels
    <3> QED
      BY <2>0, <2>11, <3>1 DEF Disable, OffLow, OffMark
  <2> QED
    BY <2>3, <2>4, <2>5, <2>6, <2>7, <2>8, <2>9, <2>10, <2>11 DEF Step, Callback
<1>3. DemandCovered /\ UNCHANGED vars => DemandCovered'
  BY PendingSame DEF DemandCovered, vars
<1>4. Typed /\ DemandCovered /\ [Next]_vars => Typed' /\ DemandCovered'
  BY <1>2, <1>3, StepTyped, StutterTyped DEF Next
<1> QED
  BY <1>1, <1>4, InitTyped, PTL DEF Spec

-----------------------------------------------------------------------------
(* The serial specification.                                               *)

\* At most one task is inside a call.
OneCall == \A t, u \in Tasks : t # u => At(t, "idle") \/ At(u, "idle")

\* What a task knows of the shared state at each access of its call.
CallState(t) ==
  /\ disabling[t] => pc[t] \in Falling /\ ~enabled
  /\ pc[t] \in {"offForce", "offLow", "offMark"} => disabling[t]
  /\ pc[t] = "downGate" => demand > 0 /\ ~gpio /\ ~keyed
  /\ pc[t] \in {"downTest", "driveHigh"} => demand > 0 /\ enabled /\ ~gpio /\ ~keyed
  /\ pc[t] = "markHigh" => demand > 0 /\ enabled /\ gpio
  /\ pc[t] = "decrement" =>
       /\ seen[t] = demand /\ demand > 0
       /\ keyed = gpio /\ (gpio => enabled)
  /\ pc[t] \in {"upTest", "driveLow"} => demand = 0 /\ (keyed = gpio)
  /\ pc[t] = "markLow" => demand = 0 /\ ~gpio
  /\ pc[t] = "offForce" => (keyed = gpio)
  /\ pc[t] = "offLow" => demand = 0
  /\ pc[t] = "offMark" => demand = 0 /\ ~gpio

Rest == Quiescent => (keyed = gpio) /\ (gpio => enabled /\ demand > 0)

SerialInv ==
  /\ Typed
  /\ OneCall
  /\ \A t \in Tasks : CallState(t)
  /\ Rest

RestPred == (keyed = gpio) /\ (gpio => enabled /\ demand > 0)

\* While a task makes its call the others stand still outside theirs.
LEMMA OthersRest ==
  ASSUME SerialInv, NEW t \in Tasks, Alone(t), Step(t)
  PROVE  /\ Alone(t)'
         /\ OneCall'
         /\ \A u \in Tasks \ {t} : CallState(u)'
         /\ At(t, "idle") => RestPred
         /\ At(t, "idle")' => Quiescent'
         /\ Quiescent' => At(t, "idle")'
<1>1. \A u \in Tasks \ {t} : pc[u] = "idle" /\ pc'[u] = "idle"
  <2>1. \A u \in Tasks \ {t} : pc'[u] = pc[u]
    BY DEF SerialInv, Typed, TypeOK, Step, Callback, Goto, Drain, KeyDown, KeyUp,
       Decrement, Reload, DownGate, DownTest, DriveHigh, MarkHigh, UpTest, DriveLow,
       MarkLow, ForceAllUp, Enable, Disable, OffForce, OffLow, OffMark
  <2> QED
    BY <2>1 DEF Alone, At
<1>2. \A u \in Tasks \ {t} : disabling'[u] = disabling[u]
  BY DEF SerialInv, Typed, TypeOK, Step, Callback, Drain, KeyDown, KeyUp, Decrement, Reload,
     DownGate, DownTest, DriveHigh, MarkHigh, UpTest, DriveLow, MarkLow,
     ForceAllUp, Enable, Disable, OffForce, OffLow, OffMark
<1>3. \A u \in Tasks \ {t} : ~disabling[u]
  BY <1>1 DEF SerialInv, CallState, Falling
<1>4. \A u \in Tasks \ {t} : CallState(u)'
  BY <1>1, <1>2, <1>3 DEF CallState
<1>5. Alone(t)' /\ OneCall'
  BY <1>1 DEF Alone, OneCall, At
<1>6. At(t, "idle") => RestPred
  BY <1>1 DEF SerialInv, Rest, RestPred, Quiescent, At
<1> QED
  BY <1>1, <1>4, <1>5, <1>6 DEF Quiescent, At

\* The state as the task in the call sees it.
DemandAt(t) ==
  IF pc[t] = "offForce" THEN 0 ELSE IF pc[t] = "decrement" THEN demand - 1 ELSE demand

LineAt(t) ==
  IF pc[t] \in Falling THEN FALSE
  ELSE IF pc[t] \in Rising THEN TRUE
  ELSE IF pc[t] = "downGate" THEN gpio \/ enabled
  ELSE IF pc[t] = "decrement" THEN gpio /\ demand # 1
  ELSE gpio

\* With every other call at rest, the state seen through the mapping is
\* that of the one call under way.
LEMMA SeenIsMine ==
  ASSUME NEW t \in Tasks, Alone(t)
  PROVE  DemandSeen = DemandAt(t) /\ LineSeen = LineAt(t)
<1>1. \A L : "idle" \notin L => (SomeAt(L) <=> pc[t] \in L)
  BY DEF Alone, At, SomeAt
<1>2. /\ SomeAt(Falling) <=> pc[t] \in Falling
      /\ SomeAt(Rising) <=> pc[t] \in Rising
      /\ SomeAt({"downGate"}) <=> pc[t] = "downGate"
      /\ SomeAt({"decrement"}) <=> pc[t] = "decrement"
      /\ SomeAt({"offForce"}) <=> pc[t] = "offForce"
  BY <1>1 DEF Falling, Rising
<1> QED
  BY <1>2 DEF DemandSeen, LineSeen, DemandAt, LineAt

\* One access of the only call under way keeps what the call knows, leaves the
\* bus at rest when it is the last one, and is a step of KeyLine when it is
\* the one where the call takes effect.
MyStepOK(t) ==
  /\ CallState(t)'
  /\ At(t, "idle")' => RestPred'
  /\ \/ \E p \in Producers : 
          /\ p \notin held /\ held' = held \union {p}
          /\ DemandAt(t)' = DemandAt(t) + 1
          /\ LineAt(t)' = (LineAt(t) \/ (DemandAt(t) = 0 /\ enabled))
          /\ UNCHANGED enabled
     \/ \E p \in Producers :
          /\ p \in held /\ held' = held \ {p}
          /\ DemandAt(t)' = IF DemandAt(t) = 0 THEN 0 ELSE DemandAt(t) - 1
          /\ LineAt(t)' = (LineAt(t) /\ DemandAt(t) # 1)
          /\ UNCHANGED enabled
     \/ /\ DemandAt(t)' = 0
        /\ LineAt(t)' = (LineAt(t) /\ DemandAt(t) = 0)
        /\ UNCHANGED <<held, enabled>>
     \/ ~enabled /\ enabled' = TRUE /\ held' = held
        /\ DemandAt(t)' = DemandAt(t) /\ LineAt(t)' = LineAt(t)
     \/ enabled /\ enabled' = FALSE /\ held' = held
        /\ DemandAt(t)' = 0 /\ LineAt(t)' = FALSE
     \/ UNCHANGED <<held, enabled>> /\ DemandAt(t)' = DemandAt(t)
        /\ LineAt(t)' = LineAt(t)

\* One step of the one call under way: the invariant, and what KeyLine sees.
LEMMA MyStep ==
  ASSUME SerialInv, NEW t \in Tasks, Alone(t), Step(t),
         At(t, "idle") => RestPred
  PROVE  MyStepOK(t)
<1> USE DEF At, Goto, Labels, AfterUp, Rising, Falling, RestPred
<1>0. /\ CallState(t) /\ demand \in Nat /\ enabled \in BOOLEAN /\ keyed \in BOOLEAN
      /\ gpio \in BOOLEAN /\ pc \in [Tasks -> Labels] /\ seen \in [Tasks -> Nat]
      /\ disabling \in [Tasks -> BOOLEAN]
  BY DEF SerialInv, Typed, TypeOK
<1>1. ASSUME NEW p \in Producers, KeyDown(t, p) PROVE MyStepOK(t)
  BY <1>0, <1>1 DEF KeyDown, CallState, MyStepOK, DemandAt, LineAt
<1>2. ASSUME NEW p \in Producers, KeyUp(t, p) PROVE MyStepOK(t)
  BY <1>0, <1>2 DEF KeyUp, CallState, MyStepOK, DemandAt, LineAt
<1>3. CASE Decrement(t)
  <2>1. ~disabling[t] /\ ~disabling'[t]
    BY <1>0, <1>3 DEF Decrement, CallState
  <2>2. UNCHANGED <<held, enabled>> /\ DemandAt(t)' = DemandAt(t)
        /\ LineAt(t)' = LineAt(t)
    <3>1. CASE seen[t] = 1
      BY <1>0, <1>3, <3>1 DEF Decrement, CallState, DemandAt, LineAt
    <3>2. CASE seen[t] # 1
      BY <1>0, <1>3, <3>2 DEF Decrement, CallState, DemandAt, LineAt
    <3> QED
      BY <3>1, <3>2
  <2>3. CallState(t)' /\ (At(t, "idle")' => RestPred')
    BY <1>0, <1>3, <2>1 DEF Decrement, CallState
  <2> QED
    BY <2>2, <2>3 DEF MyStepOK
<1>4. CASE Reload(t)
  BY <1>0, <1>4 DEF Reload, CallState, MyStepOK
<1>5. CASE DownGate(t)
  BY <1>0, <1>5 DEF DownGate, CallState, MyStepOK, DemandAt, LineAt
<1>6. CASE DownTest(t)
  BY <1>0, <1>6 DEF DownTest, CallState, MyStepOK, DemandAt, LineAt
<1>7. CASE DriveHigh(t)
  BY <1>0, <1>7 DEF DriveHigh, CallState, MyStepOK, DemandAt, LineAt
<1>8. CASE MarkHigh(t)
  BY <1>0, <1>8 DEF MarkHigh, CallState, MyStepOK, DemandAt, LineAt
<1>9. CASE UpTest(t)
  <2>1. UNCHANGED <<held, enabled>> /\ DemandAt(t)' = DemandAt(t)
    BY <1>0, <1>9 DEF UpTest, CallState, DemandAt
  <2>2. LineAt(t)' = LineAt(t)
    <3>1. CASE keyed \/ disabling[t]
      BY <1>0, <1>9, <3>1 DEF UpTest, CallState, LineAt
    <3>2. CASE ~keyed /\ ~disabling[t]
      BY <1>0, <1>9, <3>2 DEF UpTest, CallState, LineAt
    <3> QED
      BY <3>1, <3>2
  <2>3. CallState(t)' /\ (At(t, "idle")' => RestPred')
    BY <1>0, <1>9 DEF UpTest, CallState
  <2> QED
    BY <2>1, <2>2, <2>3 DEF MyStepOK
<1>10. CASE DriveLow(t)
  BY <1>0, <1>10 DEF DriveLow, CallState, MyStepOK, DemandAt, LineAt
<1>11. CASE MarkLow(t)
  BY <1>0, <1>11 DEF MarkLow, CallState, MyStepOK, DemandAt, LineAt
<1>12. CASE ForceAllUp(t)
  <2>1. ~disabling[t] /\ ~disabling'[t]
    BY <1>0, <1>12 DEF ForceAllUp, CallState
  <2>2. /\ DemandAt(t)' = 0
        /\ LineAt(t)' = (LineAt(t) /\ DemandAt(t) = 0)
        /\ UNCHANGED <<held, enabled>>
    <3>1. CASE demand > 0
      <4>1. pc[t] = "idle" /\ pc'[t] = "upTest" /\ demand' = 0
        BY <1>0, <1>12, <3>1 DEF ForceAllUp, Drain
      <4>2. DemandAt(t) = demand /\ DemandAt(t)' = 0 /\ ~LineAt(t)'
        BY <4>1 DEF DemandAt, LineAt
      <4>3. LineAt(t)' = FALSE
        BY <4>1 DEF LineAt
      <4>4. DemandAt(t) # 0
        BY <1>0, <3>1, <4>2
      <4>5. LineAt(t)' = (LineAt(t) /\ DemandAt(t) = 0)
        BY <4>3, <4>4, Zenon
      <4> QED
        BY <1>12, <4>2, <4>5 DEF ForceAllUp
    <3>2. CASE ~(demand > 0)
      BY <1>0, <1>12, <3>2 DEF ForceAllUp, Drain, DemandAt, LineAt
    <3> QED
      BY <3>1, <3>2
  <2>3. CallState(t)' /\ (At(t, "idle")' => RestPred')
    BY <1>0, <1>12, <2>1 DEF ForceAllUp, Drain, CallState
  <2> QED
    BY <2>2, <2>3 DEF MyStepOK
<1>13. CASE Enable(t)
  BY <1>0, <1>13 DEF Enable, CallState, MyStepOK, DemandAt, LineAt
<1>14. CASE Disable(t)
  BY <1>0, <1>14 DEF Disable, CallState, MyStepOK, DemandAt, LineAt
<1>15. CASE OffForce(t)
  BY <1>0, <1>15 DEF OffForce, Drain, CallState, MyStepOK, DemandAt, LineAt
<1>16. CASE OffLow(t)
  BY <1>0, <1>16 DEF OffLow, CallState, MyStepOK, DemandAt, LineAt
<1>17. CASE OffMark(t)
  BY <1>0, <1>17 DEF OffMark, CallState, MyStepOK, DemandAt, LineAt
<1> QED
  BY <1>1, <1>2, <1>3, <1>4, <1>5, <1>6, <1>7, <1>8, <1>9, <1>10, <1>11, <1>12,
     <1>13, <1>14, <1>15, <1>16, <1>17 DEF Step, Callback

\* A step of the serial specification is a step of KeyLine or a stutter.
LEMMA SerialStep ==
  ASSUME SerialInv, [SerialNext]_vars
  PROVE  SerialInv' /\ [Promise!Next]_(Promise!vars)
<1>1. CASE UNCHANGED vars
  <2>1. SerialInv'
    BY <1>1, StutterTyped
    DEF SerialInv, OneCall, CallState, Rest, Quiescent, At, vars
  <2>2. UNCHANGED Promise!vars
    BY <1>1 DEF Promise!vars, DemandSeen, LineSeen, SomeAt, vars
  <2> QED
    BY <2>1, <2>2
<1>2. ASSUME NEW t \in Tasks, Alone(t), Step(t)
      PROVE  SerialInv' /\ [Promise!Next]_(Promise!vars)
  <2>1. /\ Alone(t)' /\ OneCall' /\ \A u \in Tasks \ {t} : CallState(u)'
        /\ At(t, "idle") => RestPred
        /\ Quiescent' => At(t, "idle")'
    BY <1>2, OthersRest
  <2>2. MyStepOK(t)
    BY <1>2, <2>1, MyStep
  <2>3. SerialInv'
    <3>1. Typed'
      BY <1>2, StepTyped DEF SerialInv
    <3>2. Rest'
      BY <2>1, <2>2 DEF MyStepOK, Rest, RestPred
    <3>3. \A u \in Tasks : CallState(u)'
      BY <2>1, <2>2 DEF MyStepOK
    <3> QED
      BY <2>1, <3>1, <3>2, <3>3 DEF SerialInv
  <2>4. /\ DemandSeen = DemandAt(t) /\ LineSeen = LineAt(t)
        /\ DemandSeen' = DemandAt(t)' /\ LineSeen' = LineAt(t)'
    <3>1. DemandSeen = DemandAt(t) /\ LineSeen = LineAt(t)
      BY <1>2, SeenIsMine
    <3>2. Alone(t) => DemandSeen = DemandAt(t) /\ LineSeen = LineAt(t)
      BY SeenIsMine
    <3>3. (Alone(t) => DemandSeen = DemandAt(t) /\ LineSeen = LineAt(t))'
      BY SeenIsMine, PTL
    <3> QED
      BY <2>1, <3>1, <3>3
  <2>5. [Promise!Next]_(Promise!vars)
    BY <2>2, <2>4
    DEF MyStepOK, Promise!Next, Promise!vars, Promise!KeyDown, Promise!KeyUp,
        Promise!ForceAllUp, Promise!Enable, Promise!Disable
  <2> QED
    BY <2>3, <2>5
<1> QED
  BY <1>1, <1>2 DEF SerialNext

\* The initial state satisfies the invariant and is one of KeyLine's.
LEMMA SerialInit == Init => SerialInv /\ Promise!Init
<1> SUFFICES ASSUME Init PROVE SerialInv /\ Promise!Init
  OBVIOUS
<1>1. \A t \in Tasks : pc[t] = "idle" /\ ~disabling[t]
  BY DEF Init
<1>2. SerialInv
  BY <1>1, InitTyped
  DEF Init, SerialInv, OneCall, CallState, Rest, At
<1>3. \A L : "idle" \notin L => ~SomeAt(L)
  BY <1>1 DEF SomeAt
<1>4. DemandSeen = demand /\ LineSeen = gpio
  BY <1>3 DEF DemandSeen, LineSeen, Falling, Rising
<1> QED
  BY <1>2, <1>4 DEF Init, Promise!Init

\* As long as calls do not overlap, the bus and its sink do what KeyLine
\* promises, whatever the calls and whoever makes them.
THEOREM SerialImplementsKeyLine == SerialSpec => ImplementsKeyLine
<1>1. SerialInv /\ [SerialNext]_vars => SerialInv' /\ [Promise!Next]_(Promise!vars)
  BY SerialStep
<1> QED
  BY SerialInit, <1>1, PTL DEF SerialSpec, ImplementsKeyLine, Promise!Spec

\* A disabled output is LOW and the cached flag tells the level of the pin
\* whenever no call is running, as long as calls do not overlap.
THEOREM SerialDisabledIsLow == SerialSpec => []DisabledIsLow
<1>1. SerialInv => DisabledIsLow
  BY DEF SerialInv, Rest, DisabledIsLow
<1>2. SerialInv /\ [SerialNext]_vars => SerialInv'
  BY SerialStep
<1> QED
  BY SerialInit, <1>1, <1>2, PTL DEF SerialSpec

\* Once every producer has released its key the transmitter is off the air,
\* as long as calls do not overlap.
THEOREM SerialUnkeyedWhenReleased == SerialSpec => []UnkeyedWhenReleased
<1>1. SerialSpec => Spec
  <2>1. [SerialNext]_vars => [Next]_vars
    BY DEF SerialNext, Next
  <2> QED
    BY <2>1, PTL DEF SerialSpec, Spec
<1>2. SerialInv /\ DemandCovered => UnkeyedWhenReleased
  <2> SUFFICES ASSUME SerialInv, DemandCovered, Quiescent, held = {}, gpio
               PROVE  FALSE
    BY DEF UnkeyedWhenReleased
  <2>1. demand > 0 /\ demand \in Nat
    BY DEF SerialInv, Rest, Typed, TypeOK
  <2>2. Pending("decrement") = {}
    BY DEF Quiescent, Pending, At
  <2> QED
    BY <2>1, <2>2, FS_EmptySet DEF DemandCovered
<1>3. SerialInv /\ [SerialNext]_vars => SerialInv'
  BY SerialStep
<1> QED
  BY SerialInit, <1>1, <1>2, <1>3, DemandAlwaysCovered, PTL DEF SerialSpec

=============================================================================
