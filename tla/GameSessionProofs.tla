------------------------- MODULE GameSessionProofs --------------------------
(***************************************************************************)
(* What GameSession promises for every frame length, step length and scale *)
(* of time.  The invariant counts the step that is being simulated, and    *)
(* bounds the steps of a frame together with the time it still holds.      *)
(***************************************************************************)
EXTENDS GameSession, TLAPS

USE SessionAssumption DEF SessionAssumption

\* Steps the client has still to finish: none or one.
Pending == IF pc \in {"server", "client"} THEN 1 ELSE 0

\* Every tick of the clock that was not cut off is in a step that was simulated,
\* in the one that is being simulated, or in the stepper.
Accounted == timeScale * (prev - dropped) = fixedDelta * (predicted + Pending) + accumulator

\* Between frames the stepper holds less than a step.
HeldBelowStep == pc = "idle" => accumulator < fixedDelta

\* On a listen server the server is ahead of the client by the step between its
\* tick and the client's.
InStep ==
  /\ Listen => served = predicted + (IF pc = "client" THEN 1 ELSE 0)
  /\ ~Listen => pc # "server"

\* What a frame has simulated and has still to simulate is what it began with.
Budget == fixedDelta * steps + accumulator < maxDelta * timeScale + fixedDelta

IInv ==
  /\ TypeOK
  /\ Accounted
  /\ InStep
  /\ Budget
  /\ HeldBelowStep

-----------------------------------------------------------------------------
\* Scaling does not change the order of two times.
LEMMA ScaleMonotone ==
  ASSUME NEW a \in Nat, NEW b \in Nat, NEW c \in Nat, a <= b
  PROVE  a * c \in Nat /\ a * c <= b * c
<1>1. PICK d \in Nat : b = a + d
  <2>1. b - a \in Nat /\ b = a + (b - a)
    OBVIOUS
  <2> QED BY <2>1
<1>2. b * c = a * c + d * c
  BY <1>1
<1>3. a * c \in Nat /\ d * c \in Nat
  OBVIOUS
<1> QED BY <1>2, <1>3

\* A frame accounts for no more than the clamped time.
LEMMA TickBounded ==
  ASSUME TypeOK
  PROVE  Tick \in Nat /\ Tick <= maxDelta * timeScale
<1>1. now - prev \in Nat
  BY DEF TypeOK
<1>2. CASE now - prev < maxDelta
  <2>1. Tick = (now - prev) * timeScale
    BY <1>2 DEF Tick
  <2>2. (now - prev) * timeScale \in Nat /\ (now - prev) * timeScale <= maxDelta * timeScale
    BY <1>1, <1>2, ScaleMonotone
  <2> QED BY <2>1, <2>2
<1>3. CASE ~(now - prev < maxDelta)
  <2>1. Tick = maxDelta * timeScale
    BY <1>3 DEF Tick
  <2>2. maxDelta * timeScale \in Nat
    BY ScaleMonotone
  <2> QED BY <2>1, <2>2
<1> QED BY <1>2, <1>3

\* A step more is its length more.
LEMMA OneStepMore ==
  ASSUME NEW n \in Nat
  PROVE  /\ fixedDelta * n \in Nat
         /\ fixedDelta * (n + 1) = fixedDelta * n + fixedDelta
  OBVIOUS

\* The clock time of a frame is what it accounts for and what Tick cuts off.
LEMMA TickSplits ==
  ASSUME TypeOK
  PROVE  /\ Excess \in Nat
         /\ \E c \in Nat : now - prev = c + Excess /\ Tick = timeScale * c
<1>1. now - prev \in Nat
  BY DEF TypeOK
<1>2. \A c \in Nat : c * timeScale = timeScale * c
  OBVIOUS
<1>3. CASE now - prev < maxDelta
  <2>1. Excess = 0 /\ Tick = (now - prev) * timeScale
    BY <1>1, <1>3 DEF Excess, Tick
  <2>2. Tick = timeScale * (now - prev)
    BY <1>1, <1>2, <2>1
  <2>3. now - prev = (now - prev) + Excess
    BY <1>1, <2>1
  <2> QED BY <1>1, <2>1, <2>2, <2>3
<1>4. CASE ~(now - prev < maxDelta)
  <2>1. Excess = now - prev - maxDelta /\ Tick = maxDelta * timeScale
    BY <1>1, <1>4 DEF Excess, Tick
  <2>2. now - prev = maxDelta + Excess /\ Excess \in Nat
    BY <1>1, <1>4, <2>1
  <2> QED BY <1>2, <2>1, <2>2
<1> QED BY <1>3, <1>4

LEMMA InitInv == Init => IInv
<1> SUFFICES ASSUME Init PROVE IInv
  OBVIOUS
<1> USE DEF Init
<1>1. TypeOK
  BY DEF TypeOK
<1>2. Accounted
  BY DEF Accounted, Pending
<1>3. Budget
  <2>1. maxDelta * timeScale \in Nat
    BY ScaleMonotone
  <2>2. fixedDelta * 0 = 0
    OBVIOUS
  <2> QED BY <2>1, <2>2 DEF Budget
<1>4. InStep /\ HeldBelowStep
  BY DEF InStep, HeldBelowStep
<1> QED BY <1>1, <1>2, <1>3, <1>4 DEF IInv

LEMMA StepInv == IInv /\ [Next]_vars => IInv'
<1> SUFFICES ASSUME IInv, [Next]_vars PROVE IInv'
  OBVIOUS
<1>0. TypeOK /\ Accounted /\ InStep /\ Budget /\ HeldBelowStep
  BY DEF IInv
<1>1. ASSUME NEW ticks \in 1..MaxElapsed, Elapse(ticks) PROVE IInv'
  <2>1. TypeOK'
    BY <1>0, <1>1 DEF TypeOK, Elapse
  <2>2. (Accounted /\ InStep /\ Budget /\ HeldBelowStep)'
    BY <1>0, <1>1 DEF Elapse, Accounted, Pending, InStep, Budget, HeldBelowStep
  <2> QED BY <2>1, <2>2 DEF IInv
<1>2. CASE BeginFrame
  <2>0. Tick \in Nat /\ Tick <= maxDelta * timeScale
    BY <1>0, TickBounded
  <2>1. TypeOK'
    <3>1. prev' = now /\ dropped' = dropped + Excess
      BY <1>2 DEF BeginFrame
    <3>2. Excess \in Nat
      BY <1>0, TickSplits
    <3>3. Excess <= now - prev
      BY <1>0 DEF TypeOK, Excess
    <3>4. dropped' \in 0..prev'
      BY <1>0, <3>1, <3>2, <3>3 DEF TypeOK
    <3> QED BY <1>0, <1>2, <2>0, <3>4 DEF TypeOK, BeginFrame
  <2>2. Accounted'
    <3>1. Pending = 0 /\ Pending' = 0
      BY <1>2 DEF BeginFrame, Pending
    <3>2. /\ prev' = now /\ dropped' = dropped + Excess
          /\ accumulator' = accumulator + Tick
          /\ predicted' = predicted
      BY <1>2 DEF BeginFrame
    <3>3. PICK c \in Nat : now - prev = c + Excess /\ Tick = timeScale * c
      BY <1>0, TickSplits
    <3>4. prev' - dropped' = (prev - dropped) + c /\ prev - dropped \in Nat
      <4>1. Excess \in Nat
        BY <1>0, TickSplits
      <4> QED BY <1>0, <3>2, <3>3, <4>1 DEF TypeOK
    <3>5. \A n \in Nat : timeScale * (n + c) = timeScale * n + timeScale * c /\ timeScale * n \in Nat
      OBVIOUS
    <3>6. timeScale * (prev' - dropped') = timeScale * (prev - dropped) + Tick
      BY <3>3, <3>4, <3>5
    <3>7. fixedDelta * (predicted + 0) \in Nat
      BY <1>0, OneStepMore DEF TypeOK
    <3> QED BY <1>0, <2>0, <3>1, <3>2, <3>6, <3>7 DEF Accounted, TypeOK
  <2>3. Budget'
    <3>1. accumulator' < maxDelta * timeScale + fixedDelta
      <4>1. accumulator < fixedDelta /\ accumulator \in Nat
        BY <1>0, <1>2 DEF BeginFrame, HeldBelowStep, TypeOK
      <4>2. maxDelta * timeScale \in Nat
        BY ScaleMonotone
      <4>3. accumulator' = accumulator + Tick
        BY <1>2 DEF BeginFrame
      <4> QED BY <2>0, <4>1, <4>2, <4>3
    <3>2. fixedDelta * steps' = 0
      BY <1>2 DEF BeginFrame
    <3>3. accumulator' \in Nat
      BY <2>1 DEF TypeOK
    <3> QED BY <3>1, <3>2, <3>3 DEF Budget
  <2>4. (InStep /\ HeldBelowStep)'
    BY <1>0, <1>2 DEF BeginFrame, InStep, HeldBelowStep
  <2> QED BY <2>1, <2>2, <2>3, <2>4 DEF IInv
<1>3. CASE Step
  <2>1. TypeOK'
    BY <1>0, <1>3 DEF TypeOK, Step
  <2>2. Accounted'
    <3>1. Pending = 0 /\ Pending' = 1
      BY <1>3 DEF Step, Pending
    <3>2. fixedDelta * (predicted + 1) = fixedDelta * predicted + fixedDelta
      BY <1>0, OneStepMore DEF TypeOK
    <3>3. timeScale * (prev - dropped) = fixedDelta * predicted + accumulator
      BY <1>0, <3>1 DEF Accounted, TypeOK
    <3>4. /\ prev' = prev /\ dropped' = dropped
          /\ accumulator' = accumulator - fixedDelta
          /\ predicted' = predicted
      BY <1>3 DEF Step
    <3>5. fixedDelta * predicted \in Nat
      BY <1>0, OneStepMore DEF TypeOK
    <3>6. timeScale * (prev' - dropped') = fixedDelta * (predicted + 1) + accumulator'
      BY <1>0, <3>2, <3>3, <3>4, <3>5 DEF TypeOK
    <3> QED BY <3>1, <3>4, <3>6 DEF Accounted
  <2>3. Budget'
    <3>1. fixedDelta * (steps + 1) = fixedDelta * steps + fixedDelta
      BY <1>0, OneStepMore DEF TypeOK
    <3>2. fixedDelta * steps \in Nat /\ maxDelta * timeScale \in Nat
      BY <1>0, OneStepMore, ScaleMonotone DEF TypeOK
    <3>3. steps' = steps + 1 /\ accumulator' = accumulator - fixedDelta
      BY <1>3 DEF Step
    <3>4. fixedDelta * (steps + 1) + accumulator' = fixedDelta * steps + accumulator
      BY <1>0, <3>1, <3>2, <3>3 DEF TypeOK
    <3> QED BY <1>0, <3>3, <3>4 DEF Budget
  <2>4. (InStep /\ HeldBelowStep)'
    BY <1>0, <1>3 DEF Step, InStep, HeldBelowStep, TypeOK
  <2> QED BY <2>1, <2>2, <2>3, <2>4 DEF IInv
<1>4. CASE ServerTick
  <2>1. TypeOK'
    BY <1>0, <1>4 DEF TypeOK, ServerTick
  <2>2. Accounted'
    BY <1>0, <1>4 DEF ServerTick, Accounted, Pending
  <2>3. (InStep /\ Budget /\ HeldBelowStep)'
    BY <1>0, <1>4 DEF ServerTick, InStep, Budget, HeldBelowStep, TypeOK
  <2> QED BY <2>1, <2>2, <2>3 DEF IInv
<1>5. CASE PredictTick
  <2>1. TypeOK'
    BY <1>0, <1>5 DEF TypeOK, PredictTick
  <2>2. Accounted'
    <3>1. Pending = 1 /\ Pending' = 0
      BY <1>5 DEF PredictTick, Pending
    <3>2. predicted + 1 = predicted' + 0
      BY <1>0, <1>5 DEF PredictTick, TypeOK
    <3> QED BY <1>0, <1>5, <3>1, <3>2 DEF PredictTick, Accounted
  <2>3. (InStep /\ Budget /\ HeldBelowStep)'
    BY <1>0, <1>5 DEF PredictTick, InStep, Budget, HeldBelowStep, TypeOK
  <2> QED BY <2>1, <2>2, <2>3 DEF IInv
<1>6. CASE Render
  <2>1. TypeOK'
    BY <1>0, <1>6 DEF TypeOK, Render
  <2>2. (Accounted /\ InStep /\ Budget /\ HeldBelowStep)'
    BY <1>0, <1>6 DEF Render, Accounted, Pending, InStep, Budget, HeldBelowStep
  <2> QED BY <2>1, <2>2 DEF IInv
<1>7. CASE UNCHANGED vars
  BY <1>0, <1>7 DEF vars, IInv, TypeOK, Accounted, Pending, InStep, Budget,
     HeldBelowStep
<1> QED BY <1>1, <1>2, <1>3, <1>4, <1>5, <1>6, <1>7 DEF Next

\* IInv holds in every reachable state.
LEMMA Invariance == Spec => []IInv
  BY InitInv, StepInv, PTL DEF Spec

-----------------------------------------------------------------------------
\* The variables of the session keep their types.
THEOREM TypeCorrect == Spec => []TypeOK
<1>1. IInv => TypeOK
  BY DEF IInv
<1> QED BY <1>1, Invariance, PTL

\* No game time is lost or made up against the clock over any number of frames,
\* and server and client simulate the same steps, for every length of step and frame.
THEOREM NoTimeLost == Spec => []TimeAccounted
<1>1. IInv => TimeAccounted
  <2> SUFFICES ASSUME IInv, pc \in {"idle", "loop"}
               PROVE  /\ timeScale * (prev - dropped) = fixedDelta * predicted + accumulator
                      /\ Listen => served = predicted
    BY DEF TimeAccounted
  <2>1. Pending = 0 /\ pc # "client"
    BY DEF Pending
  <2> QED BY <2>1 DEF IInv, TypeOK, Accounted, InStep
<1> QED BY <1>1, Invariance, PTL

\* A frame takes a bounded number of steps, however long each of them takes.
THEOREM FramesEnd == Spec => []StepsBounded
<1>1. IInv => StepsBounded
  <2> SUFFICES ASSUME IInv PROVE StepsBounded
    OBVIOUS
  <2>1. fixedDelta * steps \in Nat /\ maxDelta * timeScale \in Nat
    BY OneStepMore, ScaleMonotone DEF IInv, TypeOK
  <2> QED BY <2>1 DEF IInv, TypeOK, Budget, StepsBounded
<1> QED BY <1>1, Invariance, PTL
=============================================================================
