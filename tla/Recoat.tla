------------------------------- MODULE Recoat -------------------------------
(***************************************************************************)
(* The recoat sequencer of the Mega (src/src/arduino-mega/recoat.cpp): one *)
(* powder pass run step by step over the three axes.  As in Motion, each   *)
(* operation is an operator: from the sequencer's record c and the axes ax *)
(* to the set of outcomes [c, ax], since a step of the sequencer also      *)
(* starts or stops axes.                                                   *)
(***************************************************************************)
EXTENDS Motion

CONSTANTS
  MaxPasses,        \* bound on recoat_cycle_t.passes
  RehomeInterval,   \* WIPE_REHOME_INTERVAL
  MaxWait           \* longest settle or pause, in service passes

ASSUME RecoatAssumption ==
  /\ MaxPasses \in Nat \ {0}
  /\ RehomeInterval \in 1 .. 255
  /\ MaxWait \in Nat

Step == {"IDLE", "FEED_RISE", "BED_DROP", "SETTLE", "SWEEP", "SWEEP_PAUSE",
         "CLEAR_DROP", "RETURN", "CLEAR_RAISE", "REHOME", "PARK"}

ParkMode == {"OVERFLOW", "SUPPLY"}

Result == {"NONE", "OK", "FAILED"}

CycleRecord ==
  [step        : Step,
   mode        : ParkMode,
   passes      : 1 .. MaxPasses,
   pass        : 0 .. MaxPasses,
   clearance   : BOOLEAN,               \* clearance_um # 0
   rehomeDue   : BOOLEAN,
   rehomed     : BOOLEAN,
   wait        : 0 .. MaxWait,          \* passes left of a settle or a pause
   result      : Result,
   sinceRehome : 0 .. 255]              \* cycles_since_rehome, a uint8_t

(* recoat::begin() *)
CycleAtBoot ==
  [step |-> "IDLE", mode |-> "OVERFLOW", passes |-> 1, pass |-> 0,
   clearance |-> FALSE, rehomeDue |-> FALSE, rehomed |-> FALSE, wait |-> 0,
   result |-> "NONE", sinceRehome |-> 0]

Active(c) == c.step # "IDLE"

AnyBusy(ax) == \E a \in Axis : Busy(ax[a])

(* All the axes functions that take axis a's record from choice[a]. *)
EachAxis(choice) ==
  {[a \in Axis |-> IF a = "FEED" THEN f ELSE IF a = "BED" THEN b ELSE w] :
     f \in choice["FEED"], b \in choice["BED"], w \in choice["WIPE"]}

(* motion::stopAll() *)
StopAll(ax) == EachAxis([a \in Axis |-> Stopped(ax[a])])

(* fail() *)
Fail(c, ax) ==
  {[c |-> [c EXCEPT !.step = "IDLE", !.result = "FAILED"], ax |-> f] :
     f \in StopAll(ax)}

(* recoat::abort() followed by recoat::consumeResult(), as every caller in *)
(* main.cpp pairs them: nothing if no cycle runs, and no result is left.   *)
Abort(c, ax) ==
  {[c |-> [c EXCEPT !.step = "IDLE", !.result = "NONE"], ax |-> f] :
     f \in IF Active(c) THEN StopAll(ax) ELSE {ax}}

-----------------------------------------------------------------------------
(* nextStep(): what follows the step just done, and the pass it ends.      *)

(* A faulty variant: the clearance is only made on the first pass. *)
ClearingOnce(c) == c.mode = "SUPPLY" /\ c.clearance /\ c.pass = 0

Overflow(c) == c.mode = "OVERFLOW"
Clearing(c) == c.mode = "SUPPLY" /\ c.clearance

EndsPass(c) ==
  \/ c.step = "SWEEP" /\ Overflow(c)
  \/ c.step = "RETURN" /\ ~Overflow(c) /\ ~Clearing(c)
  \/ c.step = "CLEAR_RAISE"

PassCounted(c) == IF EndsPass(c) THEN [c EXCEPT !.pass = @ + 1] ELSE c

(* A faulty variant: a supply-park cycle forgets the re-home it owes. *)
AfterSupplyPassUnhomed(c) == IF c.pass + 1 < c.passes THEN "SWEEP" ELSE "DONE"

(* Where a supply-park pass leads once the blade is back and the bed up. *)
AfterSupplyPass(c) ==
  IF c.pass + 1 < c.passes THEN "SWEEP"
  ELSE IF c.rehomeDue THEN "REHOME" ELSE "DONE"

NextStep(c) ==
  CASE c.step = "BED_DROP" -> IF ~Overflow(c) THEN "SETTLE"
                              ELSE IF c.rehomeDue THEN "REHOME" ELSE "RETURN"
    [] c.step = "REHOME" -> "PARK"
    [] c.step = "PARK" -> IF ~Overflow(c) THEN "DONE"
                          ELSE IF c.pass = 0 THEN "FEED_RISE" ELSE "SWEEP"
    [] c.step = "RETURN" -> IF Overflow(c)
                              THEN IF c.pass = 0 THEN "FEED_RISE" ELSE "SWEEP"
                            ELSE IF Clearing(c) THEN "CLEAR_RAISE"
                            ELSE AfterSupplyPass(c)
    [] c.step = "FEED_RISE" -> IF Overflow(c) THEN "SETTLE" ELSE "BED_DROP"
    [] c.step = "SETTLE" -> "SWEEP"
    [] c.step = "SWEEP" -> IF ~Overflow(c) THEN "SWEEP_PAUSE"
                           ELSE IF c.pass + 1 < c.passes THEN "RETURN"
                           ELSE "DONE"
    [] c.step = "SWEEP_PAUSE" -> IF Clearing(c) THEN "CLEAR_DROP" ELSE "RETURN"
    [] c.step = "CLEAR_DROP" -> "RETURN"
    [] c.step = "CLEAR_RAISE" -> AfterSupplyPass(c)
    [] OTHER -> "DONE"

-----------------------------------------------------------------------------
(* enter(): make step the current one and start its work.                  *)

AxisOf(step) ==
  CASE step = "FEED_RISE" -> "FEED"
    [] step \in {"BED_DROP", "CLEAR_DROP", "CLEAR_RAISE"} -> "BED"
    [] OTHER -> "WIPE"

(* Bed drops take their backlash up from below; no other step asks to. *)
ApproachOf(step) ==
  IF step \in {"BED_DROP", "CLEAR_DROP"} THEN "neg" ELSE "none"

Waits(step) == step \in {"SETTLE", "SWEEP_PAUSE"}

(* startMove(), startMoveAbs(): an axis that refuses fails the cycle. *)
EnterMove(c, ax, step) ==
  LET a == AxisOf(step)
  IN IF Busy(ax[a]) THEN Fail([c EXCEPT !.step = step], ax)
     ELSE {[c |-> [c EXCEPT !.step = step], ax |-> [ax EXCEPT ![a] = x]] :
             x \in Moved(ax[a], ApproachOf(step))}

EnterRehome(c, ax) ==
  LET d == [c EXCEPT !.step = "REHOME", !.rehomed = TRUE]
  IN IF Busy(ax["WIPE"]) THEN Fail(d, ax)
     ELSE {[c |-> d, ax |-> [ax EXCEPT !["WIPE"] = HomeStarted(@)]]}

EnterWait(c, ax, step) ==
  {[c |-> [c EXCEPT !.step = step, !.wait = w], ax |-> ax] : w \in 0 .. MaxWait}

EnterDone(c, ax) ==
  {[c |-> [c EXCEPT !.step = "IDLE", !.result = "OK",
                    !.sinceRehome = IF c.rehomed THEN 0 ELSE (@ + 1) % 256],
    ax |-> ax]}

Enter(c, ax, step) ==
  CASE step = "DONE"   -> EnterDone(c, ax)
    [] step = "REHOME" -> EnterRehome(c, ax)
    [] Waits(step)     -> EnterWait(c, ax, step)
    [] OTHER           -> EnterMove(c, ax, step)

(* Faulty variants: a cycle may start on a moving machine, or on a wiper   *)
(* whose zero means nothing.                                               *)
StartableMoving(c, ax) == ~Active(c) /\ ax["WIPE"].homed
StartableUnhomed(c, ax) == ~Active(c) /\ ~AnyBusy(ax)

(* recoat::start(): the conditions it accepts a cycle under, the cycle it  *)
(* sets up, and the first step it enters.                                  *)
Startable(c, ax) ==
  /\ ~Active(c)
  /\ ~AnyBusy(ax)
  /\ ax["WIPE"].homed

Started(c, ax, mode, passes, clearance) ==
  Enter([c EXCEPT !.mode = mode, !.passes = passes, !.pass = 0,
                  !.clearance = clearance, !.rehomed = FALSE,
                  !.rehomeDue = c.sinceRehome >= RehomeInterval,
                  !.result = "NONE"],
        ax, IF mode = "OVERFLOW" THEN "BED_DROP" ELSE "FEED_RISE")

(* recoat::service(): nothing while idle, waiting, or while any axis still *)
(* moves; otherwise on to the next step.                                   *)
StepDone(c, ax) ==
  /\ Active(c)
  /\ IF Waits(c.step) THEN c.wait = 0 ELSE ~AnyBusy(ax)

CycleServiced(c, ax) ==
  IF StepDone(c, ax) THEN Enter(PassCounted(c), ax, NextStep(c))
  ELSE IF Active(c) /\ Waits(c.step)
    THEN {[c |-> [c EXCEPT !.wait = @ - 1], ax |-> ax]}
  ELSE {[c |-> c, ax |-> ax]}
=============================================================================
