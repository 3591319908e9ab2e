------------------------------- MODULE Motion -------------------------------
(***************************************************************************)
(* One stepper axis of the Mega (src/src/arduino-mega/motion.cpp) at the   *)
(* level the main loop sees it: which phase it is in, how far the stepper  *)
(* still has to run, and whether the axis has a usable zero.  Distances    *)
(* are counted in service passes and signed by the direction of travel,    *)
(* the way AccelStepper::distanceToGo() is; absolute positions, speeds and *)
(* ramps are left out.  Each operation is an operator from the axis's      *)
(* record to the set of records it may leave behind, so that the main      *)
(* loop and the recoat sequencer can call it within one step of theirs.    *)
(***************************************************************************)
EXTENDS Integers

CONSTANTS
  MaxTravel,       \* longest commanded move, in service passes
  SeekSpan,        \* passes of a seek that are counted
  HomeSamples      \* switch approaches averaged by one home (HOME_SAMPLES)

ASSUME MotionAssumption ==
  /\ MaxTravel \in Nat \ {0}
  /\ SeekSpan \in Nat \ {0}
  /\ HomeSamples \in Nat \ {0}

Axis == {"FEED", "BED", "WIPE"}

Phase == {"IDLE", "MOVE", "OVERSHOOT", "HOME_SEEK", "HOME_STUTTER_STOP",
          "HOME_STUTTER_BACK", "HOME_BACKOFF", "HOME_AVERAGE", "HOME_PARK",
          "TRACK_SEEK", "TRACK_RETURN"}

HomingPhase == Phase \ {"IDLE", "MOVE", "OVERSHOOT"}

(* The phases only a switch ends. *)
SeekPhase ==
  {"HOME_SEEK", "HOME_STUTTER_STOP", "HOME_STUTTER_BACK", "TRACK_SEEK"}

(* The longest distance any phase sets out with. *)
Reach == IF MaxTravel > SeekSpan THEN MaxTravel ELSE SeekSpan

AxisRecord ==
  [phase      : Phase,
   togo       : -Reach .. Reach,      \* stepper.distanceToGo()
   back       : {-1, 0, 1},           \* from an overshoot to final_target
   mark       : -SeekSpan .. 0,       \* stutter_mark: togo when the seek began
   homed      : BOOLEAN,              \* AXIS_FLAG_HOMED
   moving     : BOOLEAN,              \* AXIS_FLAG_MOVING
   sample     : 0 .. HomeSamples,     \* home_sample
   limitFault : BOOLEAN]              \* limit_fault, until consumed

(* Only the wiper has a far switch; only the pistons stutter.  No axis has *)
(* fewer than one switch, at the end it homes to.                          *)
HasFarSwitch(a) == a = "WIPE"
Stutters(a) == a # "WIPE"

(* The axis as motion::begin() leaves it: a zero only if one was restored  *)
(* from the position store, which holds the pistons and not the wiper.     *)
AxisAtBoot(restored) ==
  [phase |-> "IDLE", togo |-> 0, back |-> 0, mark |-> 0, homed |-> restored,
   moving |-> FALSE, sample |-> 0, limitFault |-> FALSE]

Busy(x) == x.phase # "IDLE"

(* AccelStepper::run(): at most one step toward the target. *)
RunStep(d) == IF d > 0 THEN d - 1 ELSE IF d < 0 THEN d + 1 ELSE 0

(* Can the switch in the direction of travel be read closed?  There is no  *)
(* switch at the top of a piston, and none to look at when standing still. *)
SwitchAhead(a, d) == d < 0 \/ (d > 0 /\ HasFarSwitch(a))

-----------------------------------------------------------------------------
(* serviceAxis(), phase by phase.                                          *)

(* PH_MOVE and PH_OVERSHOOT cut short by a switch: frozen on the spot, the *)
(* fault latched, the zero deliberately left alone.                        *)
TripMove(a, x) ==
  IF SwitchAhead(a, x.togo)
    THEN {[x EXCEPT !.phase = "IDLE", !.togo = 0, !.back = 0,
                    !.limitFault = TRUE]}
    ELSE {}

(* PH_MOVE and PH_OVERSHOOT otherwise.  The overshoot ends by turning back *)
(* to the real target, one backlash away the other way.                    *)
RunMove(x) ==
  IF x.togo # 0 THEN {[x EXCEPT !.togo = RunStep(@)]}
  ELSE IF x.phase = "MOVE" THEN {[x EXCEPT !.phase = "IDLE"]}
  ELSE {[x EXCEPT !.phase = "MOVE", !.togo = x.back, !.back = 0]}

(* beginSeek(), with d the travel left to the switch: the mark a stutter    *)
(* is measured from is set anew.                                           *)
SeekBegun(x, d) == [x EXCEPT !.phase = "HOME_SEEK", !.togo = d, !.mark = d]

(* A stutter is due once the seek has come STUTTER_INTERVAL_UM from its    *)
(* mark: one pass at least, and any number more.  The passes beyond        *)
(* SeekSpan, of which there is no end if no switch is met, are not told    *)
(* apart.                                                                  *)
StutterDue(a, x) == Stutters(a) /\ (x.togo > x.mark \/ x.togo = 0)

(* PH_HOME_SEEK: the switch is met, or (pistons) the drive pauses for a    *)
(* stutter, or it goes on, without end if the switch never closes.  While  *)
(* the drive stops and backs off, mark keeps the travel left.              *)
SeekHome(a, x) ==
  {[x EXCEPT !.phase = "HOME_BACKOFF", !.togo = 1, !.mark = 0],
   [x EXCEPT !.togo = RunStep(@)]}
  \union (IF StutterDue(a, x)
            THEN {[x EXCEPT !.phase = "HOME_STUTTER_STOP", !.togo = -1,
                            !.mark = x.togo]}
            ELSE {})

(* The phases that run to a point and then take the next step of a home.   *)
(* Stopping and backing off cancel out, as STUTTER_BACKOFF_UM is well      *)
(* below the interval: a stuttered seek resumes where it broke off, and    *)
(* may stutter again for every pass it then travels.                       *)
AfterRun(a, x) ==
  CASE x.phase = "HOME_STUTTER_STOP" ->
         [x EXCEPT !.phase = "HOME_STUTTER_BACK", !.togo = 1]
    [] x.phase = "HOME_STUTTER_BACK" ->
         SeekBegun(x, x.mark)
    [] x.phase = "HOME_BACKOFF" ->
         IF x.sample + 1 < HomeSamples
           THEN SeekBegun([x EXCEPT !.sample = @ + 1], -1)
           ELSE [x EXCEPT !.phase = "HOME_AVERAGE", !.togo = -1,
                          !.sample = @ + 1]
    [] x.phase = "HOME_AVERAGE" ->
         [x EXCEPT !.phase = "HOME_PARK", !.togo = 1]
    [] x.phase = "HOME_PARK" ->
         [x EXCEPT !.homed = TRUE,
                   !.phase = IF HasFarSwitch(a) THEN "TRACK_SEEK" ELSE "IDLE",
                   !.togo = IF HasFarSwitch(a) THEN SeekSpan ELSE 0]
    [] x.phase = "TRACK_RETURN" -> [x EXCEPT !.phase = "IDLE"]

RunPhase(a, x) ==
  IF x.togo # 0 THEN {[x EXCEPT !.togo = RunStep(@)]} ELSE {AfterRun(a, x)}

(* PH_TRACK_SEEK (wiper): out to the far switch to measure the travel,     *)
(* then all the way back.                                                  *)
SeekFar(x) ==
  {[x EXCEPT !.phase = "TRACK_RETURN", !.togo = -SeekSpan],
   [x EXCEPT !.togo = RunStep(@)]}

ServiceAxis(a, x) ==
  CASE x.phase = "IDLE"                   -> {[x EXCEPT !.moving = FALSE]}
    [] x.phase \in {"MOVE", "OVERSHOOT"} -> TripMove(a, x) \union RunMove(x)
    [] x.phase = "HOME_SEEK"              -> SeekHome(a, x)
    [] x.phase = "TRACK_SEEK"             -> SeekFar(x)
    [] OTHER                              -> RunPhase(a, x)

(* motion::service() for one axis: what serviceAxis() left, with           *)
(* AXIS_FLAG_MOVING raised if it is still under way.  The flag is only     *)
(* ever lowered by a pass that finds the axis idle already.                *)
Serviced(a, x) ==
  {[y EXCEPT !.moving = @ \/ Busy(y)] : y \in ServiceAxis(a, x)}

-----------------------------------------------------------------------------
(* The calls.                                                              *)

(* motion::moveTo() on an idle axis: straight there or, for a move that    *)
(* asks for it, past the target first on the side the flag names: low for  *)
(* "neg" and a move going down, high for "pos" and a move going up.  What  *)
(* clampTarget() leaves of the distance asked for may be nothing, or even  *)
(* lead the other way, for an axis that stands beyond its bounds: the call *)
(* succeeds all the same.                                                  *)
MoveDistances == -MaxTravel .. MaxTravel

Approach == {"none", "neg", "pos"}

Overshoots(approach, d) ==
  \/ approach = "neg" /\ d < 0
  \/ approach = "pos" /\ d > 0

Moved(x, approach) ==
  {[x EXCEPT !.phase = IF Overshoots(approach, d) THEN "OVERSHOOT" ELSE "MOVE",
             !.togo = d,
             !.back = IF ~Overshoots(approach, d) THEN 0
                      ELSE IF d < 0 THEN 1 ELSE -1,
             !.moving = TRUE] : d \in MoveDistances}

(* A faulty variant: home_sample is left where the last home took it. *)
HomeStartedStaleSample(x) ==
  SeekBegun([x EXCEPT !.homed = FALSE], -SeekSpan)

(* motion::home() on an idle axis: the zero is given up before the seek. *)
HomeStarted(x) ==
  SeekBegun([x EXCEPT !.homed = FALSE, !.sample = 0], -SeekSpan)

(* motion::stop(): whatever the axis was doing becomes a short move to     *)
(* where the deceleration ramp ends.  Nothing to do for an idle axis, and  *)
(* a stepper that has no distance left has no ramp either.                 *)
Stopped(x) ==
  IF ~Busy(x) THEN {x}
  ELSE {[x EXCEPT !.phase = "MOVE", !.togo = d, !.back = 0, !.mark = 0] :
          d \in IF x.togo = 0 THEN {0}
                ELSE IF x.togo < 0 THEN x.togo .. -1 ELSE 1 .. x.togo}

(* motion::estop() *)
Frozen(x) == [x EXCEPT !.phase = "IDLE", !.togo = 0, !.back = 0,
                       !.mark = 0, !.moving = FALSE]
=============================================================================
