---------------------------- MODULE GameSession -----------------------------
(***************************************************************************)
(* GameSession::Frame over FrameClock and FixedStepper: the time between   *)
(* two frames is cut into steps of fixed length, each simulated by the     *)
(* server, where there is one, and by the client.                          *)
(*                                                                         *)
(* Time is counted in ticks, of which the code's seconds are multiples;    *)
(* rounding of doubles is left out.  The clock may run on between any two  *)
(* steps of the frame.  The client and server objects are external: all    *)
(* that is kept of their work is that it was done.                         *)
(***************************************************************************)
EXTENDS Integers

CONSTANTS
  maxDelta,            \* most time a frame may account for
  timeScale,           \* ticks of game time for a tick of the clock
  fixedDelta,          \* game time of a step
  Listen,              \* whether there is a server
  MaxElapsed,          \* bound: ticks the clock advances at once
  MaxTime              \* bound: reading at which the clock stops

ASSUME SessionAssumption ==
  /\ maxDelta \in Nat
  /\ timeScale \in Nat
  /\ fixedDelta \in Nat \ {0}
  /\ Listen \in BOOLEAN
  /\ MaxElapsed \in Nat
  /\ MaxTime \in Nat

VARIABLES
  now,                 \* steady_clock::now()
  prev,                \* prev of the frame clock
  accumulator,         \* accumulator of the stepper
  pc,                  \* where Frame is
  steps,               \* history: steps taken in this frame
  dropped,             \* history: clock time that frames did not account for
  served, predicted    \* history: steps of the server, of the client

vars == <<now, prev, accumulator, pc, steps, dropped, served, predicted>>

Init ==
  /\ now = 0
  /\ prev = 0
  /\ accumulator = 0
  /\ pc = "idle"
  /\ steps = 0
  /\ dropped = 0
  /\ served = 0
  /\ predicted = 0

Elapse(ticks) ==
  /\ now + ticks <= MaxTime
  /\ now' = now + ticks
  /\ UNCHANGED <<prev, accumulator, pc, steps, dropped, served, predicted>>

\* Mutant of Tick: the time is not clamped.
TickUnclamped == (now - prev) * timeScale

\* The clock never goes back, so the difference is not negative.
Tick == (IF now - prev < maxDelta THEN now - prev ELSE maxDelta) * timeScale

\* What Tick cuts off a frame that took longer than it may.
Excess == IF now - prev > maxDelta THEN now - prev - maxDelta ELSE 0

\* Mutant of BeginFrame: prev is not set.
BeginFrameKeepsPrev ==
  /\ pc = "idle"
  /\ accumulator' = accumulator + Tick
  /\ dropped' = dropped + Excess
  /\ steps' = 0
  /\ pc' = "loop"
  /\ UNCHANGED <<now, prev, served, predicted>>

\* Tick and AddTime.
BeginFrame ==
  /\ pc = "idle"
  /\ prev' = now
  /\ accumulator' = accumulator + Tick
  /\ dropped' = dropped + Excess
  /\ steps' = 0
  /\ pc' = "loop"
  /\ UNCHANGED <<now, served, predicted>>

\* Mutant of Step: a step is taken before its time has come.
StepEarly ==
  /\ pc = "loop"
  /\ accumulator > 0
  /\ accumulator' = accumulator - fixedDelta
  /\ steps' = steps + 1
  /\ pc' = IF Listen THEN "server" ELSE "client"
  /\ UNCHANGED <<now, prev, dropped, served, predicted>>

\* Step returns true, and the client processes its input.
Step ==
  /\ pc = "loop"
  /\ accumulator >= fixedDelta
  /\ accumulator' = accumulator - fixedDelta
  /\ steps' = steps + 1
  /\ pc' = IF Listen THEN "server" ELSE "client"
  /\ UNCHANGED <<now, prev, dropped, served, predicted>>

ServerTick ==
  /\ pc = "server"
  /\ served' = served + 1
  /\ pc' = "client"
  /\ UNCHANGED <<now, prev, accumulator, steps, dropped, predicted>>

PredictTick ==
  /\ pc = "client"
  /\ predicted' = predicted + 1
  /\ pc' = "loop"
  /\ UNCHANGED <<now, prev, accumulator, steps, dropped, served>>

\* Step returns false; the client renders at accumulator / fixedDelta.
Render ==
  /\ pc = "loop"
  /\ accumulator < fixedDelta
  /\ pc' = "idle"
  /\ UNCHANGED <<now, prev, accumulator, steps, dropped, served, predicted>>

Next ==
  \/ \E ticks \in 1..MaxElapsed : Elapse(ticks)
  \/ BeginFrame \/ Step \/ ServerTick \/ PredictTick \/ Render

Spec == Init /\ [][Next]_vars

-----------------------------------------------------------------------------
(* Properties.                                                             *)

TypeOK ==
  /\ now \in Nat
  /\ prev \in 0..now
  /\ accumulator \in Nat
  /\ pc \in {"idle", "loop", "server", "client"}
  /\ steps \in Nat
  /\ dropped \in 0..prev
  /\ served \in Nat
  /\ predicted \in Nat

\* No game time is lost or made up over any number of frames: the clock time up
\* to the last frame, less what Tick cut off frames that took too long, is at
\* the scale of time what was simulated and what the stepper still holds, and
\* server and client have simulated the same steps whenever a step is over.
TimeAccounted ==
  /\ pc \in {"idle", "loop"} =>
       timeScale * (prev - dropped) = fixedDelta * predicted + accumulator
  /\ pc \in {"idle", "loop"} /\ Listen => served = predicted

\* However long the steps themselves take, the frame does not run ever further
\* behind the clock: Tick clamps what one frame has to catch up with.
StepsBounded == fixedDelta * steps < maxDelta * timeScale + fixedDelta
=============================================================================
