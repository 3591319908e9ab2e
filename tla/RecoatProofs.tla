---------------------------- MODULE RecoatProofs ----------------------------
(***************************************************************************)
(* Lemmas about the operators of Motion and Recoat: what each of them may  *)
(* leave behind, for any travel, any number of samples and passes.         *)
(***************************************************************************)
EXTENDS Recoat, TLAPS

USE MotionAssumption, RecoatAssumption DEF MotionAssumption, RecoatAssumption

-----------------------------------------------------------------------------
(* An axis of the right type is not enough to stay so: home_sample only    *)
(* keeps within home_pos[] because a home that still seeks has samples     *)
(* left to take, and the mark of a stutter on the way because a seek never *)
(* runs but toward the switch.                                             *)

Seeking == {"HOME_SEEK", "HOME_STUTTER_STOP", "HOME_STUTTER_BACK",
            "HOME_BACKOFF"}

GoodAxis ==
  {x \in AxisRecord : /\ x.phase \in Seeking => x.sample < HomeSamples
                      /\ x.phase = "HOME_SEEK" => x.togo \in -SeekSpan .. 0}

GoodAxes == [Axis -> GoodAxis]

LEMMA ReachFacts ==
  /\ Reach \in Nat \ {0}
  /\ MaxTravel <= Reach
  /\ SeekSpan <= Reach
  /\ \A d \in {-1, 0, 1, SeekSpan, -SeekSpan} : d \in -Reach .. Reach
  /\ \A d \in -Reach .. Reach : RunStep(d) \in -Reach .. Reach
  /\ \A d \in -SeekSpan .. 0 : d \in -Reach .. Reach /\ RunStep(d) \in -SeekSpan .. 0
  /\ -1 \in -SeekSpan .. 0 /\ -SeekSpan \in -SeekSpan .. 0 /\ 0 \in -SeekSpan .. 0
BY DEF Reach, RunStep

LEMMA AxisFields ==
  ASSUME NEW x \in GoodAxis
  PROVE  /\ x = [phase |-> x.phase, togo |-> x.togo, back |-> x.back,
                 mark |-> x.mark, homed |-> x.homed, moving |-> x.moving,
                 sample |-> x.sample, limitFault |-> x.limitFault]
         /\ x.phase \in Phase
         /\ x.togo \in -Reach .. Reach
         /\ x.back \in {-1, 0, 1}
         /\ x.mark \in -SeekSpan .. 0
         /\ x.phase = "HOME_SEEK" => x.togo \in -SeekSpan .. 0
         /\ x.homed \in BOOLEAN /\ x.moving \in BOOLEAN
         /\ x.sample \in 0 .. HomeSamples
         /\ x.limitFault \in BOOLEAN
         /\ x.phase \in Seeking => x.sample < HomeSamples
BY DEF GoodAxis, AxisRecord

LEMMA SeekBegunGood ==
  ASSUME NEW x \in GoodAxis, NEW d \in -SeekSpan .. 0, x.sample < HomeSamples
  PROVE  SeekBegun(x, d) \in GoodAxis
BY ReachFacts, AxisFields DEF SeekBegun, GoodAxis, AxisRecord, Phase, Seeking

LEMMA AtBootGood ==
  ASSUME NEW r \in BOOLEAN
  PROVE  AxisAtBoot(r) \in GoodAxis
BY ReachFacts DEF AxisAtBoot, GoodAxis, AxisRecord, Phase, Seeking

LEMMA TripGood ==
  ASSUME NEW a \in Axis, NEW x \in GoodAxis
  PROVE  TripMove(a, x) \subseteq GoodAxis
<1>1. [x EXCEPT !.phase = "IDLE", !.togo = 0, !.back = 0,
                !.limitFault = TRUE] \in GoodAxis
  BY ReachFacts, AxisFields DEF GoodAxis, AxisRecord, Phase, Seeking
<1> QED
  BY <1>1 DEF TripMove

LEMMA RunMoveGood ==
  ASSUME NEW x \in GoodAxis, x.phase \in {"MOVE", "OVERSHOOT"}
  PROVE  RunMove(x) \subseteq GoodAxis
<1>1. [x EXCEPT !.togo = RunStep(@)] \in GoodAxis
  BY ReachFacts, AxisFields DEF GoodAxis, AxisRecord
<1>2. [x EXCEPT !.phase = "IDLE"] \in GoodAxis
  BY ReachFacts, AxisFields DEF GoodAxis, AxisRecord, Phase, Seeking
<1>3. [x EXCEPT !.phase = "MOVE", !.togo = x.back, !.back = 0] \in GoodAxis
  <2>1. x.back \in -Reach .. Reach
    BY ReachFacts, AxisFields
  <2> QED
    BY <2>1, AxisFields DEF GoodAxis, AxisRecord, Phase, Seeking
<1> QED
  BY <1>1, <1>2, <1>3 DEF RunMove

LEMMA SeekHomeGood ==
  ASSUME NEW a \in Axis, NEW x \in GoodAxis, x.phase = "HOME_SEEK"
  PROVE  SeekHome(a, x) \subseteq GoodAxis
<1>1. [x EXCEPT !.phase = "HOME_BACKOFF", !.togo = 1, !.mark = 0] \in GoodAxis
  BY ReachFacts, AxisFields DEF GoodAxis, AxisRecord, Phase, Seeking
<1>2. [x EXCEPT !.togo = RunStep(@)] \in GoodAxis
  BY ReachFacts, AxisFields DEF GoodAxis, AxisRecord
<1>3. [x EXCEPT !.phase = "HOME_STUTTER_STOP", !.togo = -1, !.mark = x.togo]
        \in GoodAxis
  BY ReachFacts, AxisFields DEF GoodAxis, AxisRecord, Phase, Seeking
<1> QED
  BY <1>1, <1>2, <1>3 DEF SeekHome

LEMMA RunPhaseGood ==
  ASSUME NEW a \in Axis, NEW x \in GoodAxis,
         x.phase \in {"HOME_STUTTER_STOP", "HOME_STUTTER_BACK", "HOME_BACKOFF",
                      "HOME_AVERAGE", "HOME_PARK", "TRACK_RETURN"}
  PROVE  RunPhase(a, x) \subseteq GoodAxis
<1>1. [x EXCEPT !.togo = RunStep(@)] \in GoodAxis
  BY ReachFacts, AxisFields DEF GoodAxis, AxisRecord
<1>2. AfterRun(a, x) \in GoodAxis
  <2>1. CASE x.phase = "HOME_STUTTER_STOP"
    <3>1. [x EXCEPT !.phase = "HOME_STUTTER_BACK", !.togo = 1] \in GoodAxis
      BY <2>1, ReachFacts, AxisFields DEF GoodAxis, AxisRecord, Phase, Seeking
    <3> QED
      BY <2>1, <3>1 DEF AfterRun
  <2>2. CASE x.phase = "HOME_STUTTER_BACK"
    <3>1. SeekBegun(x, x.mark) \in GoodAxis
      BY <2>2, AxisFields, SeekBegunGood DEF Seeking
    <3> QED
      BY <2>2, <3>1 DEF AfterRun
  <2>3. CASE x.phase = "HOME_BACKOFF" /\ x.sample + 1 < HomeSamples
    <3>0. x.sample + 1 \in 0 .. HomeSamples
      BY <2>3, AxisFields
    <3>1. [x EXCEPT !.sample = @ + 1] \in GoodAxis
      BY <2>3, <3>0, AxisFields DEF GoodAxis, AxisRecord
    <3>2. [x EXCEPT !.sample = @ + 1].sample = x.sample + 1
      BY AxisFields
    <3>3. SeekBegun([x EXCEPT !.sample = @ + 1], -1) \in GoodAxis
      BY <2>3, <3>1, <3>2, ReachFacts, SeekBegunGood
    <3> QED
      BY <2>3, <3>3 DEF AfterRun
  <2>4. CASE x.phase = "HOME_BACKOFF" /\ ~(x.sample + 1 < HomeSamples)
    <3>0. x.sample + 1 \in 0 .. HomeSamples
      BY <2>4, AxisFields DEF Seeking
    <3>1. [x EXCEPT !.phase = "HOME_AVERAGE", !.togo = -1, !.sample = @ + 1]
            \in GoodAxis
      BY <2>4, <3>0, ReachFacts, AxisFields DEF GoodAxis, AxisRecord, Phase, Seeking
    <3> QED
      BY <2>4, <3>1 DEF AfterRun
  <2>5. CASE x.phase = "HOME_AVERAGE"
    <3>1. [x EXCEPT !.phase = "HOME_PARK", !.togo = 1] \in GoodAxis
      BY <2>5, ReachFacts, AxisFields DEF GoodAxis, AxisRecord, Phase, Seeking
    <3> QED
      BY <2>5, <3>1 DEF AfterRun
  <2>6. CASE x.phase = "HOME_PARK"
    <3>1. [x EXCEPT !.homed = TRUE, !.phase = "TRACK_SEEK", !.togo = SeekSpan]
            \in GoodAxis
      BY <2>6, ReachFacts, AxisFields DEF GoodAxis, AxisRecord, Phase, Seeking
    <3>2. [x EXCEPT !.homed = TRUE, !.phase = "IDLE", !.togo = 0] \in GoodAxis
      BY <2>6, ReachFacts, AxisFields DEF GoodAxis, AxisRecord, Phase, Seeking
    <3> QED
      BY <2>6, <3>1, <3>2 DEF AfterRun
  <2>7. CASE x.phase = "TRACK_RETURN"
    <3>1. [x EXCEPT !.phase = "IDLE"] \in GoodAxis
      BY <2>7, ReachFacts, AxisFields DEF GoodAxis, AxisRecord, Phase, Seeking
    <3> QED
      BY <2>7, <3>1 DEF AfterRun
  <2> QED
    BY <2>1, <2>2, <2>3, <2>4, <2>5, <2>6, <2>7
<1> QED
  BY <1>1, <1>2 DEF RunPhase

LEMMA SeekFarGood ==
  ASSUME NEW x \in GoodAxis, x.phase = "TRACK_SEEK"
  PROVE  SeekFar(x) \subseteq GoodAxis
<1>1. [x EXCEPT !.phase = "TRACK_RETURN", !.togo = -SeekSpan] \in GoodAxis
  BY ReachFacts, AxisFields DEF GoodAxis, AxisRecord, Phase, Seeking
<1>2. [x EXCEPT !.togo = RunStep(@)] \in GoodAxis
  BY ReachFacts, AxisFields DEF GoodAxis, AxisRecord
<1> QED
  BY <1>1, <1>2 DEF SeekFar

LEMMA ServiceAxisGood ==
  ASSUME NEW a \in Axis, NEW x \in GoodAxis
  PROVE  ServiceAxis(a, x) \subseteq GoodAxis
<1>1. CASE x.phase = "IDLE"
  <2>1. [x EXCEPT !.moving = FALSE] \in GoodAxis
    BY AxisFields DEF GoodAxis, AxisRecord
  <2> QED
    BY <1>1, <2>1 DEF ServiceAxis
<1>2. CASE x.phase \in {"MOVE", "OVERSHOOT"}
  BY <1>2, TripGood, RunMoveGood DEF ServiceAxis
<1>3. CASE x.phase = "HOME_SEEK"
  BY <1>3, SeekHomeGood DEF ServiceAxis
<1>4. CASE x.phase = "TRACK_SEEK"
  BY <1>4, SeekFarGood DEF ServiceAxis
<1>5. CASE x.phase \in {"HOME_STUTTER_STOP", "HOME_STUTTER_BACK",
                        "HOME_BACKOFF", "HOME_AVERAGE", "HOME_PARK",
                        "TRACK_RETURN"}
  BY <1>5, RunPhaseGood DEF ServiceAxis
<1> QED
  BY <1>1, <1>2, <1>3, <1>4, <1>5, AxisFields DEF Phase

LEMMA ServicedGood ==
  ASSUME NEW a \in Axis, NEW x \in GoodAxis
  PROVE  Serviced(a, x) \subseteq GoodAxis
<1>1. ServiceAxis(a, x) \subseteq GoodAxis
  BY ServiceAxisGood
<1>2. \A y \in GoodAxis : [y EXCEPT !.moving = @ \/ Busy(y)] \in GoodAxis
  <2> SUFFICES ASSUME NEW y \in GoodAxis
               PROVE  [y EXCEPT !.moving = y.moving \/ Busy(y)] \in GoodAxis
    OBVIOUS
  <2>1. (y.moving \/ Busy(y)) \in BOOLEAN
    BY DEF Busy
  <2> QED
    BY <2>1, AxisFields DEF GoodAxis, AxisRecord
<1> QED
  BY <1>1, <1>2 DEF Serviced

LEMMA MovedGood ==
  ASSUME NEW x \in GoodAxis, NEW approach \in Approach
  PROVE  Moved(x, approach) \subseteq GoodAxis
<1>1. \A p \in {"MOVE", "OVERSHOOT"}, d \in -Reach .. Reach, b \in {-1, 0, 1} :
        [x EXCEPT !.phase = p, !.togo = d, !.back = b, !.moving = TRUE]
          \in GoodAxis
  BY AxisFields DEF GoodAxis, AxisRecord, Phase, Seeking
<1>2. \A d \in MoveDistances : d \in -Reach .. Reach
  BY ReachFacts DEF MoveDistances
<1> SUFFICES ASSUME NEW y \in Moved(x, approach) PROVE y \in GoodAxis
  OBVIOUS
<1>3. PICK d \in MoveDistances :
        y = [x EXCEPT !.phase = IF Overshoots(approach, d) THEN "OVERSHOOT"
                                ELSE "MOVE",
                      !.togo = d,
                      !.back = IF ~Overshoots(approach, d) THEN 0
                               ELSE IF d < 0 THEN 1 ELSE -1,
                      !.moving = TRUE]
  BY DEF Moved
<1>4. PICK p \in {"MOVE", "OVERSHOOT"}, b \in {-1, 0, 1} :
        y = [x EXCEPT !.phase = p, !.togo = d, !.back = b, !.moving = TRUE]
  BY <1>3
<1> QED
  BY <1>1, <1>2, <1>4

LEMMA HomeStartedGood ==
  ASSUME NEW x \in GoodAxis
  PROVE  HomeStarted(x) \in GoodAxis
<1> DEFINE y == [x EXCEPT !.homed = FALSE, !.sample = 0]
<1>1. y \in GoodAxis /\ y.sample = 0
  <2>1. 0 \in 0 .. HomeSamples /\ 0 < HomeSamples /\ FALSE \in BOOLEAN
    OBVIOUS
  <2>2. y \in AxisRecord
    <3>1. x \in AxisRecord
      BY DEF GoodAxis
    <3>2. [x EXCEPT !.homed = FALSE] \in AxisRecord
      BY <3>1 DEF AxisRecord
    <3> QED
      BY <2>1, <3>2 DEF AxisRecord
  <2>4. y.sample = 0
    BY AxisFields DEF y
  <2>3. y.phase = x.phase /\ y.togo = x.togo
    BY AxisFields
  <2> HIDE DEF y
  <2> QED
    BY <2>1, <2>2, <2>3, <2>4, AxisFields DEF GoodAxis
<1> HIDE DEF y
<1>2. SeekBegun(y, -SeekSpan) \in GoodAxis
  BY <1>1, ReachFacts, SeekBegunGood
<1> QED
  BY <1>2 DEF HomeStarted, y

LEMMA StoppedGood ==
  ASSUME NEW x \in GoodAxis
  PROVE  Stopped(x) \subseteq GoodAxis
<1>1. \A d \in -Reach .. Reach :
        [x EXCEPT !.phase = "MOVE", !.togo = d, !.back = 0, !.mark = 0]
          \in GoodAxis
  BY ReachFacts, AxisFields DEF GoodAxis, AxisRecord, Phase, Seeking
<1>2. /\ 0 \in -Reach .. Reach
      /\ \A d \in x.togo .. -1 : d \in -Reach .. Reach
      /\ \A d \in 1 .. x.togo : d \in -Reach .. Reach
  BY ReachFacts, AxisFields
<1> QED
  BY <1>1, <1>2 DEF Stopped

LEMMA FrozenGood ==
  ASSUME NEW x \in GoodAxis
  PROVE  Frozen(x) \in GoodAxis
BY ReachFacts, AxisFields DEF Frozen, GoodAxis, AxisRecord, Phase, Seeking

-----------------------------------------------------------------------------
(* The axes together.                                                      *)

LEMMA EachAxisMember ==
  ASSUME NEW choice, NEW ax \in EachAxis(choice)
  PROVE  /\ DOMAIN ax = Axis
         /\ ax = [a \in Axis |-> ax[a]]
         /\ \A a \in Axis : ax[a] \in choice[a]
BY DEF EachAxis, Axis

LEMMA StopAllGood ==
  ASSUME NEW ax \in GoodAxes
  PROVE  StopAll(ax) \subseteq GoodAxes
<1> SUFFICES ASSUME NEW f \in StopAll(ax) PROVE f \in GoodAxes
  OBVIOUS
<1>1. /\ f = [a \in Axis |-> f[a]]
      /\ \A a \in Axis : f[a] \in Stopped(ax[a])
  BY EachAxisMember DEF StopAll
<1>2. \A a \in Axis : f[a] \in GoodAxis
  BY <1>1, StoppedGood DEF GoodAxes
<1> QED
  BY <1>1, <1>2 DEF GoodAxes

LEMMA FrozenAxesGood ==
  ASSUME NEW ax \in GoodAxes
  PROVE  [a \in Axis |-> Frozen(ax[a])] \in GoodAxes
BY FrozenGood DEF GoodAxes

-----------------------------------------------------------------------------
(* The sequencer.  pass keeps within its type because only a step with a   *)
(* pass left to make can end one; the re-home at the end of a supply-park  *)
(* cycle is the one place that is entered with none left.                  *)

EndingSteps(c) == c.mode = "SUPPLY" /\ c.step \in {"REHOME", "PARK"}

GoodCycle ==
  {c \in CycleRecord :
     /\ Active(c) /\ ~EndingSteps(c) => c.pass < c.passes
     /\ c.step = "CLEAR_RAISE" => c.mode = "SUPPLY"}

Outcome == [c : GoodCycle, ax : GoodAxes]

LEMMA CycleFields ==
  ASSUME NEW c \in CycleRecord
  PROVE  /\ c = [step |-> c.step, mode |-> c.mode, passes |-> c.passes,
                 pass |-> c.pass, clearance |-> c.clearance,
                 rehomeDue |-> c.rehomeDue, rehomed |-> c.rehomed,
                 wait |-> c.wait, result |-> c.result,
                 sinceRehome |-> c.sinceRehome]
         /\ c.step \in Step
         /\ c.mode \in ParkMode
         /\ c.passes \in 1 .. MaxPasses
         /\ c.pass \in 0 .. MaxPasses
         /\ c.clearance \in BOOLEAN
         /\ c.rehomeDue \in BOOLEAN /\ c.rehomed \in BOOLEAN
         /\ c.wait \in 0 .. MaxWait
         /\ c.result \in Result
         /\ c.sinceRehome \in 0 .. 255
BY DEF CycleRecord

LEMMA CycleAtBootGood == CycleAtBoot \in GoodCycle
BY DEF CycleAtBoot, GoodCycle, CycleRecord, Step, ParkMode, Result, Active

LEMMA FailGood ==
  ASSUME NEW c \in CycleRecord, NEW ax \in GoodAxes
  PROVE  Fail(c, ax) \subseteq Outcome
<1>1. [c EXCEPT !.step = "IDLE", !.result = "FAILED"] \in GoodCycle
  BY CycleFields DEF GoodCycle, CycleRecord, Step, Result, Active
<1> QED
  BY <1>1, StopAllGood DEF Fail, Outcome

LEMMA AbortGood ==
  ASSUME NEW c \in GoodCycle, NEW ax \in GoodAxes
  PROVE  Abort(c, ax) \subseteq Outcome
<1>1. [c EXCEPT !.step = "IDLE", !.result = "NONE"] \in GoodCycle
  <2>1. c \in CycleRecord
    BY DEF GoodCycle
  <2> QED
    BY <2>1, CycleFields
    DEF GoodCycle, CycleRecord, Step, Result, Active
<1> QED
  BY <1>1, StopAllGood DEF Abort, Outcome

LEMMA AbortEffect ==
  ASSUME NEW c \in GoodCycle, NEW ax, NEW o \in Abort(c, ax)
  PROVE  /\ ~Active(o.c)
         /\ o.c.result = "NONE"
         /\ o.c.sinceRehome = c.sinceRehome
         /\ o.ax = ax \/ o.ax \in StopAll(ax)
<1>1. PICK f \in (IF Active(c) THEN StopAll(ax) ELSE {ax}) :
        o = [c |-> [c EXCEPT !.step = "IDLE", !.result = "NONE"], ax |-> f]
  BY DEF Abort
<1>2. c \in CycleRecord
  BY DEF GoodCycle
<1> DEFINE d == [c EXCEPT !.step = "IDLE", !.result = "NONE"]
<1>3. d.step = "IDLE" /\ d.result = "NONE" /\ d.sinceRehome = c.sinceRehome
  BY <1>2 DEF CycleRecord
<1>4. o.c = d /\ o.ax = f
  BY <1>1
<1> HIDE DEF d
<1> QED
  BY <1>1, <1>3, <1>4 DEF Active

LEMMA PassCountedGood ==
  ASSUME NEW c \in GoodCycle, Active(c)
  PROVE  PassCounted(c) \in CycleRecord
<1>1. c \in CycleRecord
  BY DEF GoodCycle
<1>2. CASE EndsPass(c)
  <2>1. c.pass < c.passes
    BY <1>2 DEF GoodCycle, EndsPass, EndingSteps
  <2>2. c.pass + 1 \in 0 .. MaxPasses
    BY <1>1, <2>1, CycleFields
  <2> QED
    BY <1>1, <1>2, <2>2, CycleFields DEF PassCounted, CycleRecord
<1>3. CASE ~EndsPass(c)
  BY <1>1, <1>3 DEF PassCounted
<1> QED
  BY <1>2, <1>3

(* The steps enter() may be given, and the passes it needs left for them. *)
Enterable(c, step) ==
  /\ step \in (Step \ {"IDLE"}) \union {"DONE"}
  /\ step # "DONE" /\ ~(c.mode = "SUPPLY" /\ step \in {"REHOME", "PARK"})
       => c.pass < c.passes
  /\ step = "CLEAR_RAISE" => c.mode = "SUPPLY"

LEMMA NextStepEnterable ==
  ASSUME NEW c \in GoodCycle, Active(c)
  PROVE  Enterable(PassCounted(c), NextStep(c))
<1>1. c \in CycleRecord
  BY DEF GoodCycle
<1>2. NextStep(c) \in (Step \ {"IDLE"}) \union {"DONE"}
  BY DEF NextStep, AfterSupplyPass, Step
<1>3. /\ PassCounted(c).mode = c.mode
      /\ PassCounted(c).passes = c.passes
      /\ PassCounted(c).pass = IF EndsPass(c) THEN c.pass + 1 ELSE c.pass
  BY <1>1, CycleFields DEF PassCounted
<1>4. ASSUME NextStep(c) # "DONE",
             ~(c.mode = "SUPPLY" /\ NextStep(c) \in {"REHOME", "PARK"})
      PROVE  IF EndsPass(c) THEN c.pass + 1 < c.passes ELSE c.pass < c.passes
  <2>1. c.mode = "OVERFLOW" \/ c.mode = "SUPPLY"
    BY <1>1, CycleFields DEF ParkMode
  <2>2. CASE EndsPass(c)
    <3>1. c.step \in {"SWEEP", "RETURN", "CLEAR_RAISE"}
      BY <2>2 DEF EndsPass
    <3>2. c.step = "SWEEP" => c.pass + 1 < c.passes
      BY <1>4, <2>2 DEF EndsPass, NextStep
    <3>3. c.step = "RETURN" => NextStep(c) = AfterSupplyPass(c) /\ ~Overflow(c)
      BY <2>2 DEF EndsPass, NextStep
    <3>4. c.step = "CLEAR_RAISE"
            => NextStep(c) = AfterSupplyPass(c) /\ ~Overflow(c)
      BY DEF NextStep, GoodCycle, Overflow
    <3> QED
      BY <1>4, <2>1, <2>2, <3>1, <3>2, <3>3, <3>4 DEF AfterSupplyPass, Overflow
  <2>3. CASE ~EndsPass(c)
    <3>1. ~EndingSteps(c)
      BY <1>4 DEF EndingSteps, NextStep, Overflow
    <3> QED
      BY <2>3, <3>1 DEF GoodCycle
  <2> QED
    BY <2>2, <2>3
<1>5. NextStep(c) = "CLEAR_RAISE" => c.mode = "SUPPLY"
  BY <1>1, CycleFields
  DEF NextStep, AfterSupplyPass, Clearing
<1> QED
  BY <1>2, <1>3, <1>4, <1>5 DEF Enterable

LEMMA EnteredGood ==
  ASSUME NEW c \in CycleRecord, NEW step, step # "DONE", Enterable(c, step),
         NEW d \in CycleRecord, d.step = step, d.mode = c.mode,
         d.passes = c.passes, d.pass = c.pass
  PROVE  d \in GoodCycle
BY DEF Enterable, EndingSteps, GoodCycle

LEMMA EnterGood ==
  ASSUME NEW c \in CycleRecord, NEW ax \in GoodAxes, NEW step,
         Enterable(c, step)
  PROVE  Enter(c, ax, step) \subseteq Outcome
<1>1. CASE step = "DONE"
  <2>1. \A n \in 0 .. 255 :
          [c EXCEPT !.step = "IDLE", !.result = "OK", !.sinceRehome = n]
            \in GoodCycle
    BY CycleFields DEF GoodCycle, CycleRecord, Step, Result, Active
  <2>2. (c.sinceRehome + 1) % 256 \in 0 .. 255 /\ 0 \in 0 .. 255
    BY CycleFields
  <2>3. PICK n \in 0 .. 255 :
          n = IF c.rehomed THEN 0 ELSE (c.sinceRehome + 1) % 256
    BY <2>2
  <2>4. [c EXCEPT !.step = "IDLE", !.result = "OK",
                  !.sinceRehome = IF c.rehomed THEN 0
                                  ELSE (c.sinceRehome + 1) % 256] \in GoodCycle
    BY <2>1, <2>3
  <2> QED
    <3>1. Enter(c, ax, step) = EnterDone(c, ax)
      BY <1>1 DEF Enter, Waits
    <3> QED
      BY <2>4, <3>1 DEF EnterDone, Outcome
<1>2. ASSUME step # "DONE"
      PROVE  step \in Step /\ step # "IDLE"
  BY <1>2 DEF Enterable
<1>3. CASE step = "REHOME"
  <2> DEFINE d == [c EXCEPT !.step = "REHOME", !.rehomed = TRUE]
  <2>1. d \in CycleRecord
    BY CycleFields DEF CycleRecord, Step
  <2>2. d \in GoodCycle
    <3>1. d.step = step /\ d.mode = c.mode /\ d.passes = c.passes
            /\ d.pass = c.pass
      BY <1>3, CycleFields
    <3> HIDE DEF d
    <3> QED
      BY <1>3, <2>1, <3>1, EnteredGood
  <2>3. Fail(d, ax) \subseteq Outcome
    BY <2>1, FailGood
  <2>4. [ax EXCEPT !["WIPE"] = HomeStarted(@)] \in GoodAxes
    BY HomeStartedGood DEF GoodAxes, Axis
  <2>5. Enter(c, ax, step) = EnterRehome(c, ax)
    BY <1>3 DEF Enter, Waits
  <2> QED
    BY <2>2, <2>3, <2>4, <2>5 DEF EnterRehome, Outcome
<1>4. CASE Waits(step)
  <2>1. Enter(c, ax, step) = EnterWait(c, ax, step)
    BY <1>4 DEF Enter, Waits
  <2>2. ASSUME NEW w \in 0 .. MaxWait
        PROVE  [c EXCEPT !.step = step, !.wait = w] \in GoodCycle
    <3> DEFINE d == [c EXCEPT !.step = step, !.wait = w]
    <3>1. step # "DONE" /\ step \in Step
      BY <1>2, <1>4 DEF Waits
    <3>2. d \in CycleRecord
      BY <3>1, CycleFields DEF CycleRecord
    <3>3. d.step = step /\ d.mode = c.mode /\ d.passes = c.passes
            /\ d.pass = c.pass
      BY CycleFields
    <3> HIDE DEF d
    <3>4. d \in GoodCycle
      BY <3>1, <3>2, <3>3, EnteredGood
    <3> QED
      BY <3>4 DEF d
  <2>3. \A o \in EnterWait(c, ax, step) : o \in Outcome
    <3> SUFFICES ASSUME NEW w \in 0 .. MaxWait
                 PROVE  [c |-> [c EXCEPT !.step = step, !.wait = w], ax |-> ax]
                          \in Outcome
      BY DEF EnterWait
    <3> QED
      BY <2>2 DEF Outcome
  <2> QED
    BY <2>1, <2>3
<1>5. CASE step \notin {"DONE", "REHOME"} /\ ~Waits(step)
  <2> DEFINE d == [c EXCEPT !.step = step]
  <2>0. d \in CycleRecord
    BY <1>2, <1>5, CycleFields DEF CycleRecord
  <2>1. d \in GoodCycle /\ d \in CycleRecord
    <3>1. d.step = step /\ d.mode = c.mode /\ d.passes = c.passes
            /\ d.pass = c.pass
      BY CycleFields
    <3> HIDE DEF d
    <3> QED
      BY <1>5, <2>0, <3>1, EnteredGood
  <2>2. Fail(d, ax) \subseteq Outcome
    BY <2>1, FailGood
  <2>3. AxisOf(step) \in Axis /\ ApproachOf(step) \in Approach
    BY DEF AxisOf, ApproachOf, Axis, Approach
  <2>4. \A x \in Moved(ax[AxisOf(step)], ApproachOf(step)) :
          [ax EXCEPT ![AxisOf(step)] = x] \in GoodAxes
    BY <2>3, MovedGood DEF GoodAxes
  <2>5. Enter(c, ax, step) = EnterMove(c, ax, step)
    BY <1>5 DEF Enter
  <2>6. CASE Busy(ax[AxisOf(step)])
    BY <2>2, <2>5, <2>6 DEF EnterMove
  <2>7. CASE ~Busy(ax[AxisOf(step)])
    BY <2>1, <2>4, <2>5, <2>7 DEF EnterMove, Outcome
  <2> QED
    BY <2>6, <2>7
<1> QED
  BY <1>1, <1>3, <1>4, <1>5

LEMMA FreshCycleType ==
  ASSUME NEW c \in CycleRecord, NEW mode \in ParkMode,
         NEW passes \in 1 .. MaxPasses, NEW pass \in 0 .. MaxPasses,
         NEW clearance \in BOOLEAN, NEW rehomed \in BOOLEAN,
         NEW due \in BOOLEAN, NEW result \in Result
  PROVE  [c EXCEPT !.mode = mode, !.passes = passes, !.pass = pass,
                   !.clearance = clearance, !.rehomed = rehomed,
                   !.rehomeDue = due, !.result = result] \in CycleRecord
BY DEF CycleRecord

LEMMA StartedGood ==
  ASSUME NEW c \in GoodCycle, NEW ax \in GoodAxes, NEW mode \in ParkMode,
         NEW passes \in 1 .. MaxPasses, NEW clearance \in BOOLEAN
  PROVE  Started(c, ax, mode, passes, clearance) \subseteq Outcome
<1>1. c \in CycleRecord
  BY DEF GoodCycle
<1>2. PICK due \in BOOLEAN : due = (c.sinceRehome >= RehomeInterval)
  <2>1. (c.sinceRehome >= RehomeInterval) \in BOOLEAN
    OBVIOUS
  <2> QED
    BY <2>1, Zenon
<1> DEFINE d == [c EXCEPT !.mode = mode, !.passes = passes, !.pass = 0,
                          !.clearance = clearance, !.rehomed = FALSE,
                          !.rehomeDue = due, !.result = "NONE"]
           first == IF mode = "OVERFLOW" THEN "BED_DROP" ELSE "FEED_RISE"
<1>3. d \in CycleRecord
  <2>1. 0 \in 0 .. MaxPasses /\ "NONE" \in Result /\ FALSE \in BOOLEAN
    BY DEF Result
  <2> QED
    BY <1>1, <2>1, FreshCycleType
<1>4. Enterable(d, first)
  BY <1>1, CycleFields DEF Enterable, Step
<1>5. Started(c, ax, mode, passes, clearance) = Enter(d, ax, first)
  BY <1>2 DEF Started
<1> HIDE DEF d, first
<1> QED
  BY <1>3, <1>4, <1>5, EnterGood

LEMMA CycleServicedGood ==
  ASSUME NEW c \in GoodCycle, NEW ax \in GoodAxes
  PROVE  CycleServiced(c, ax) \subseteq Outcome
<1>1. CASE StepDone(c, ax)
  BY <1>1, PassCountedGood, NextStepEnterable, EnterGood
  DEF StepDone, CycleServiced
<1>2. CASE ~StepDone(c, ax) /\ Active(c) /\ Waits(c.step)
  <2>1. c \in CycleRecord
    BY DEF GoodCycle
  <2>2. c.wait - 1 \in 0 .. MaxWait
    BY <1>2, <2>1, CycleFields DEF StepDone
  <2>3. [c EXCEPT !.wait = @ - 1] \in GoodCycle
    <3> DEFINE d == [c EXCEPT !.wait = @ - 1]
    <3>1. d \in CycleRecord
      BY <2>1, <2>2, CycleFields DEF CycleRecord
    <3> QED
      BY <2>1, <3>1, CycleFields DEF GoodCycle, Active, EndingSteps
  <2> QED
    BY <1>2, <2>3 DEF CycleServiced, Outcome
<1>3. CASE ~StepDone(c, ax) /\ ~(Active(c) /\ Waits(c.step))
  BY <1>3 DEF CycleServiced, Outcome
<1> QED
  BY <1>1, <1>2, <1>3

-----------------------------------------------------------------------------
(* What a cycle keeps to while it runs.  That it waits only on axes at     *)
(* rest is why no step of it is refused; that it says truly whether a      *)
(* re-home is due, and has it still to come when it owes one, is why the   *)
(* count of cycles keeps within the interval; and a wiper without a zero   *)
(* is on its way to one.                                                   *)

Zeroing == Seeking \union {"HOME_AVERAGE", "HOME_PARK"}

WaitsAtRest(c, ax) == Active(c) /\ Waits(c.step) => ~AnyBusy(ax)

DueKnown(c) == c.rehomeDue <=> c.sinceRehome >= RehomeInterval

RehomeToCome(c) ==
  c.rehomeDue /\ ~c.rehomed =>
    IF Overflow(c) THEN c.step = "BED_DROP" ELSE c.step \notin {"REHOME", "PARK"}

Referenced(c, ax) ==
  \/ ax["WIPE"].homed
  \/ c.step = "REHOME" /\ ax["WIPE"].phase \in Zeroing

SequenceOK(c, ax) ==
  /\ c.result # "FAILED"
  /\ c.sinceRehome <= RehomeInterval
  /\ WaitsAtRest(c, ax)
  /\ Active(c) => DueKnown(c) /\ RehomeToCome(c) /\ Referenced(c, ax)

LEMMA NoCycleOK ==
  ASSUME NEW c, NEW ax, ~Active(c), c.result # "FAILED",
         c.sinceRehome <= RehomeInterval
  PROVE  SequenceOK(c, ax)
BY DEF SequenceOK, WaitsAtRest

LEMMA AbortOK ==
  ASSUME NEW c \in GoodCycle, NEW ax, NEW o \in Abort(c, ax), NEW other,
         c.sinceRehome <= RehomeInterval
  PROVE  SequenceOK(o.c, other)
BY AbortEffect, NoCycleOK

(* A step may be entered, on axes at rest and a wiper with a zero, if it   *)
(* does not pass over a re-home still owed.                                *)
OwedStep(c, step) ==
  c.rehomeDue /\ ~c.rehomed =>
    IF Overflow(c) THEN step \in {"BED_DROP", "REHOME"}
    ELSE step \notin {"PARK", "DONE"}

EnterReady(c, ax, step) ==
  /\ ~AnyBusy(ax)
  /\ ax["WIPE"].homed
  /\ c.result # "FAILED"
  /\ c.sinceRehome <= RehomeInterval
  /\ DueKnown(c)
  /\ OwedStep(c, step)

LEMMA EnterDoneOK ==
  ASSUME NEW c \in CycleRecord, NEW ax \in GoodAxes,
         EnterReady(c, ax, "DONE"), NEW o \in EnterDone(c, ax)
  PROVE  SequenceOK(o.c, o.ax)
<1>1. PICK n \in 0 .. 255 :
        n = IF c.rehomed THEN 0 ELSE (c.sinceRehome + 1) % 256
  BY CycleFields
<1>2. n <= RehomeInterval
  <2>1. CASE c.rehomed
    BY <1>1, <2>1
  <2>2. CASE ~c.rehomed
    <3>1. ~c.rehomeDue
      BY <2>2 DEF EnterReady, OwedStep
    <3>2. ~(c.sinceRehome >= RehomeInterval)
      BY <3>1 DEF EnterReady, DueKnown
    <3>3. c.sinceRehome \in 0 .. 255
      BY CycleFields
    <3>4. c.sinceRehome + 1 <= RehomeInterval /\ c.sinceRehome + 1 \in 0 .. 255
      BY <3>2, <3>3
    <3>5. n = (c.sinceRehome + 1) % 256
      BY <1>1, <2>2
    <3>6. \A k \in 0 .. 255 : k % 256 = k
      OBVIOUS
    <3> QED
      BY <3>4, <3>5, <3>6
  <2> QED
    BY <2>1, <2>2
<1> DEFINE d == [c EXCEPT !.step = "IDLE", !.result = "OK", !.sinceRehome = n]
<1>3. o.c = d
  BY <1>1 DEF EnterDone
<1>4. d.step = "IDLE" /\ d.result = "OK" /\ d.sinceRehome = n
  BY DEF CycleRecord
<1> HIDE DEF d
<1> QED
  BY <1>2, <1>3, <1>4, NoCycleOK DEF Active

LEMMA EnterRehomeOK ==
  ASSUME NEW c \in CycleRecord, NEW ax \in GoodAxes,
         EnterReady(c, ax, "REHOME"), NEW o \in EnterRehome(c, ax)
  PROVE  SequenceOK(o.c, o.ax)
<1> DEFINE d == [c EXCEPT !.step = "REHOME", !.rehomed = TRUE]
<1>1. ~Busy(ax["WIPE"])
  BY DEF EnterReady, AnyBusy, Axis
<1>2. o.c = d /\ o.ax = [ax EXCEPT !["WIPE"] = HomeStarted(@)]
  BY <1>1 DEF EnterRehome
<1>3. /\ d.step = "REHOME" /\ d.rehomed = TRUE
      /\ d.result = c.result /\ d.sinceRehome = c.sinceRehome
      /\ d.rehomeDue = c.rehomeDue
  BY DEF CycleRecord
<1>4. o.ax["WIPE"].phase = "HOME_SEEK"
  <2>1. ax["WIPE"] \in GoodAxis
    BY DEF GoodAxes, Axis
  <2>2. HomeStarted(ax["WIPE"]).phase = "HOME_SEEK"
    BY <2>1, AxisFields DEF HomeStarted, SeekBegun
  <2> QED
    BY <1>2, <2>2 DEF GoodAxes, Axis
<1> HIDE DEF d
<1> QED
  BY <1>2, <1>3, <1>4
  DEF EnterReady, SequenceOK, WaitsAtRest, Waits, DueKnown, RehomeToCome,
      Referenced, Zeroing, Seeking

LEMMA EnterWaitOK ==
  ASSUME NEW c \in CycleRecord, NEW ax \in GoodAxes, NEW step, Waits(step),
         EnterReady(c, ax, step), NEW o \in EnterWait(c, ax, step)
  PROVE  SequenceOK(o.c, o.ax)
<1>1. PICK w \in 0 .. MaxWait :
        o = [c |-> [c EXCEPT !.step = step, !.wait = w], ax |-> ax]
  BY DEF EnterWait
<1> DEFINE d == [c EXCEPT !.step = step, !.wait = w]
<1>2. o.c = d /\ o.ax = ax
  BY <1>1
<1>3. /\ d.step = step /\ d.rehomed = c.rehomed /\ d.mode = c.mode
      /\ d.result = c.result /\ d.sinceRehome = c.sinceRehome
      /\ d.rehomeDue = c.rehomeDue
  BY DEF CycleRecord
<1> HIDE DEF d
<1> QED
  BY <1>2, <1>3
  DEF EnterReady, OwedStep, SequenceOK, WaitsAtRest, Waits, DueKnown,
      RehomeToCome, Referenced, Overflow

LEMMA MovedWiper ==
  ASSUME NEW ax \in GoodAxes, NEW a \in Axis, NEW approach \in Approach,
         NEW x \in Moved(ax[a], approach)
  PROVE  [ax EXCEPT ![a] = x]["WIPE"].homed = ax["WIPE"].homed
<1>1. x.homed = ax[a].homed
  <2>1. ax[a] \in AxisRecord
    BY DEF GoodAxes, GoodAxis
  <2> QED
    BY <2>1 DEF Moved, AxisRecord
<1> QED
  BY <1>1 DEF GoodAxes, Axis

LEMMA EnterMoveOK ==
  ASSUME NEW c \in CycleRecord, NEW ax \in GoodAxes, NEW step,
         step \notin {"DONE", "REHOME"}, ~Waits(step),
         EnterReady(c, ax, step), NEW o \in EnterMove(c, ax, step)
  PROVE  SequenceOK(o.c, o.ax)
<1> DEFINE a == AxisOf(step)
           d == [c EXCEPT !.step = step]
<1>1. a \in Axis /\ ApproachOf(step) \in Approach
  BY DEF AxisOf, ApproachOf, Axis, Approach
<1>2. ~Busy(ax[a])
  BY <1>1 DEF EnterReady, AnyBusy
<1>3. PICK x \in Moved(ax[a], ApproachOf(step)) :
        o = [c |-> d, ax |-> [ax EXCEPT ![a] = x]]
  BY <1>2 DEF EnterMove
<1>4. o.c = d /\ o.ax["WIPE"].homed
  BY <1>1, <1>3, MovedWiper DEF EnterReady
<1>5. /\ d.step = step /\ d.rehomed = c.rehomed /\ d.mode = c.mode
      /\ d.result = c.result /\ d.sinceRehome = c.sinceRehome
      /\ d.rehomeDue = c.rehomeDue
  BY DEF CycleRecord
<1> HIDE DEF a, d
<1> QED
  BY <1>4, <1>5
  DEF EnterReady, OwedStep, SequenceOK, WaitsAtRest, DueKnown, RehomeToCome,
      Referenced, Overflow

LEMMA EnterOK ==
  ASSUME NEW c \in CycleRecord, NEW ax \in GoodAxes, NEW step,
         EnterReady(c, ax, step), NEW o \in Enter(c, ax, step)
  PROVE  SequenceOK(o.c, o.ax)
<1>1. CASE step = "DONE"
  BY <1>1, EnterDoneOK DEF Enter, Waits
<1>2. CASE step = "REHOME"
  BY <1>2, EnterRehomeOK DEF Enter, Waits
<1>3. CASE Waits(step)
  BY <1>3, EnterWaitOK DEF Enter, Waits
<1>4. CASE step \notin {"DONE", "REHOME"} /\ ~Waits(step)
  BY <1>4, EnterMoveOK DEF Enter
<1> QED
  BY <1>1, <1>2, <1>3, <1>4

(* The next step of a running cycle never passes over an owed re-home. *)
LEMMA NextStepOwed ==
  ASSUME NEW c \in GoodCycle, Active(c), RehomeToCome(c)
  PROVE  OwedStep(PassCounted(c), NextStep(c))
<1>1. c \in CycleRecord
  BY DEF GoodCycle
<1>2. /\ PassCounted(c).mode = c.mode
      /\ PassCounted(c).rehomeDue = c.rehomeDue
      /\ PassCounted(c).rehomed = c.rehomed
  BY <1>1 DEF PassCounted, CycleRecord
<1>3. CASE Overflow(c)
  BY <1>2, <1>3
  DEF RehomeToCome, OwedStep, NextStep, Overflow
<1>4. CASE ~Overflow(c) /\ c.rehomeDue /\ ~c.rehomed
  <2>1. c.step \in Step \ {"IDLE", "REHOME", "PARK"}
    BY <1>1, <1>4, CycleFields DEF RehomeToCome, Active
  <2>2. AfterSupplyPass(c) \in {"SWEEP", "REHOME"}
    BY <1>4 DEF AfterSupplyPass
  <2> QED
    BY <1>2, <1>4, <2>1, <2>2 DEF OwedStep, NextStep, Overflow, Step
<1> QED
  BY <1>2, <1>3, <1>4 DEF OwedStep, Overflow

LEMMA CycleServicedOK ==
  ASSUME NEW c \in GoodCycle, NEW ax \in GoodAxes, SequenceOK(c, ax),
         NEW o \in CycleServiced(c, ax)
  PROVE  SequenceOK(o.c, o.ax)
<1>0. c \in CycleRecord
  BY DEF GoodCycle
<1>1. CASE StepDone(c, ax)
  <2>1. Active(c) /\ ~AnyBusy(ax)
    BY <1>1 DEF StepDone, SequenceOK, WaitsAtRest
  <2>2. ax["WIPE"].homed
    BY <2>1
    DEF SequenceOK, Referenced, AnyBusy, Busy, Zeroing, Seeking, Axis
  <2>3. /\ PassCounted(c).result = c.result
        /\ PassCounted(c).sinceRehome = c.sinceRehome
        /\ PassCounted(c).rehomeDue = c.rehomeDue
    BY <1>0 DEF PassCounted, CycleRecord
  <2>4. EnterReady(PassCounted(c), ax, NextStep(c))
    BY <2>1, <2>2, <2>3, NextStepOwed DEF EnterReady, SequenceOK, DueKnown
  <2> QED
    BY <1>1, <2>1, <2>4, PassCountedGood, EnterOK DEF CycleServiced
<1>2. CASE ~StepDone(c, ax) /\ Active(c) /\ Waits(c.step)
  <2> DEFINE d == [c EXCEPT !.wait = @ - 1]
  <2>1. o.c = d /\ o.ax = ax
    BY <1>2 DEF CycleServiced
  <2>2. /\ d.step = c.step /\ d.rehomed = c.rehomed /\ d.mode = c.mode
        /\ d.result = c.result /\ d.sinceRehome = c.sinceRehome
        /\ d.rehomeDue = c.rehomeDue
    BY <1>0 DEF CycleRecord
  <2> HIDE DEF d
  <2> QED
    BY <2>1, <2>2
    DEF SequenceOK, WaitsAtRest, DueKnown, RehomeToCome, Referenced, Active,
        Overflow
<1>3. CASE ~StepDone(c, ax) /\ ~(Active(c) /\ Waits(c.step))
  BY <1>3 DEF CycleServiced
<1> QED
  BY <1>1, <1>2, <1>3

LEMMA StartedOK ==
  ASSUME NEW c \in GoodCycle, NEW ax \in GoodAxes, NEW mode \in ParkMode,
         NEW passes \in 1 .. MaxPasses, NEW clearance \in BOOLEAN,
         Startable(c, ax), c.sinceRehome <= RehomeInterval,
         NEW o \in Started(c, ax, mode, passes, clearance)
  PROVE  SequenceOK(o.c, o.ax)
<1>1. c \in CycleRecord
  BY DEF GoodCycle
<1>2. PICK due \in BOOLEAN : due = (c.sinceRehome >= RehomeInterval)
  <2>1. (c.sinceRehome >= RehomeInterval) \in BOOLEAN
    OBVIOUS
  <2> QED
    BY <2>1, Zenon
<1> DEFINE d == [c EXCEPT !.mode = mode, !.passes = passes, !.pass = 0,
                          !.clearance = clearance, !.rehomed = FALSE,
                          !.rehomeDue = due, !.result = "NONE"]
           first == IF mode = "OVERFLOW" THEN "BED_DROP" ELSE "FEED_RISE"
<1>3. d \in CycleRecord
  <2>1. 0 \in 0 .. MaxPasses /\ "NONE" \in Result /\ FALSE \in BOOLEAN
    BY DEF Result
  <2> QED
    BY <1>1, <2>1, FreshCycleType
<1>4. Started(c, ax, mode, passes, clearance) = Enter(d, ax, first)
  BY <1>2 DEF Started
<1>5. /\ d.mode = mode /\ d.result = "NONE" /\ d.rehomeDue = due
      /\ d.sinceRehome = c.sinceRehome
  BY <1>1 DEF CycleRecord
<1>6. OwedStep(d, first)
  BY <1>5 DEF OwedStep, Overflow
<1>7. EnterReady(d, ax, first)
  BY <1>2, <1>5, <1>6 DEF EnterReady, Startable, DueKnown
<1> HIDE DEF d, first
<1> QED
  BY <1>3, <1>4, <1>7, EnterOK

(* A service pass takes no zero away, and a wiper on its way to one gets   *)
(* it before it comes to rest.                                             *)
LEMMA ServicedZero ==
  ASSUME NEW a \in Axis, NEW x \in GoodAxis, NEW y \in Serviced(a, x)
  PROVE  /\ x.homed => y.homed
         /\ x.phase \in Zeroing => y.homed \/ y.phase \in Zeroing
<1>1. PICK z \in ServiceAxis(a, x) : y = [z EXCEPT !.moving = @ \/ Busy(z)]
  BY DEF Serviced
<1>2. x \in AxisRecord
  BY DEF GoodAxis
<1>3. /\ x.homed => z.homed
      /\ x.phase \in Zeroing => z.homed \/ z.phase \in Zeroing
  <2>1. CASE x.phase = "IDLE"
    BY <1>2, <2>1 DEF ServiceAxis, AxisRecord, Zeroing, Seeking
  <2>2. CASE x.phase \in {"MOVE", "OVERSHOOT"}
    <3>1. x.phase \notin Zeroing
      BY <2>2 DEF Zeroing, Seeking
    <3>2. z \in TripMove(a, x) \/ z \in RunMove(x)
      BY <2>2 DEF ServiceAxis
    <3>3. z \in TripMove(a, x) => z.homed = x.homed
      BY <1>2 DEF TripMove, AxisRecord
    <3>4. z \in RunMove(x) => z.homed = x.homed
      BY <1>2 DEF RunMove, AxisRecord
    <3> QED
      BY <3>1, <3>2, <3>3, <3>4
  <2>3. CASE x.phase = "HOME_SEEK"
    BY <1>2, <2>3 DEF ServiceAxis, SeekHome, AxisRecord, Zeroing, Seeking
  <2>4. CASE x.phase = "TRACK_SEEK"
    BY <1>2, <2>4 DEF ServiceAxis, SeekFar, AxisRecord, Zeroing, Seeking
  <2>5. CASE x.phase \in {"HOME_STUTTER_STOP", "HOME_STUTTER_BACK",
                          "HOME_BACKOFF", "HOME_AVERAGE", "HOME_PARK",
                          "TRACK_RETURN"}
    <3>1. z = [x EXCEPT !.togo = RunStep(@)] \/ z = AfterRun(a, x)
      BY <2>5 DEF ServiceAxis, RunPhase
    <3>2. CASE z = [x EXCEPT !.togo = RunStep(@)]
      BY <1>2, <3>2 DEF AxisRecord
    <3>3. CASE z = AfterRun(a, x)
      BY <1>2, <2>5, <3>3 DEF AfterRun, SeekBegun, AxisRecord, Zeroing, Seeking
    <3> QED
      BY <3>1, <3>2, <3>3
  <2> QED
    BY <1>2, <2>1, <2>2, <2>3, <2>4, <2>5 DEF AxisRecord, Phase
<1>4. z \in GoodAxis
  <2>1. ServiceAxis(a, x) \subseteq GoodAxis
    BY ServiceAxisGood
  <2> QED
    BY <2>1
<1>5. y.homed = z.homed /\ y.phase = z.phase
  BY <1>1, <1>4 DEF GoodAxis, AxisRecord
<1> QED
  BY <1>3, <1>5

-----------------------------------------------------------------------------
(* Who is at work and who met a switch, through every call.                *)

(* A fault is only ever left by a pass of service(). *)
SameFault(x, y) == y.limitFault = x.limitFault

LEMMA MovedEffect ==
  ASSUME NEW x \in GoodAxis, NEW approach \in Approach,
         NEW y \in Moved(x, approach)
  PROVE  /\ Busy(y) /\ SameFault(x, y)
<1>1. x \in AxisRecord
  BY DEF GoodAxis
<1>2. PICK d \in MoveDistances :
        y = [x EXCEPT !.phase = IF Overshoots(approach, d)
                                  THEN "OVERSHOOT" ELSE "MOVE",
                      !.togo = d,
                      !.back = IF ~Overshoots(approach, d) THEN 0
                               ELSE IF d < 0 THEN 1 ELSE -1,
                      !.moving = TRUE]
  BY DEF Moved
<1>3. /\ y.phase \in {"MOVE", "OVERSHOOT"}
      /\ y.togo = d
      /\ y.limitFault = x.limitFault
  BY <1>1, <1>2 DEF AxisRecord
<1> QED
  BY <1>2, <1>3 DEF Busy, SameFault, MoveDistances

LEMMA HomeStartedEffect ==
  ASSUME NEW x \in GoodAxis
  PROVE  /\ Busy(HomeStarted(x)) /\ SameFault(x, HomeStarted(x))
         /\ HomeStarted(x).togo # 0
<1>1. /\ HomeStarted(x).phase = "HOME_SEEK"
      /\ HomeStarted(x).togo = -SeekSpan
      /\ HomeStarted(x).limitFault = x.limitFault
  BY AxisFields DEF HomeStarted, SeekBegun
<1> QED
  BY <1>1 DEF Busy, SameFault

(* A stopped axis still has to be found idle by a pass, and one that had   *)
(* distance to go keeps some.                                              *)
LEMMA StoppedEffect ==
  ASSUME NEW x \in GoodAxis, NEW y \in Stopped(x)
  PROVE  /\ Busy(y) <=> Busy(x)
         /\ SameFault(x, y)
         /\ Busy(x) /\ x.togo # 0 => y.togo # 0
<1>1. CASE ~Busy(x)
  BY <1>1 DEF Stopped, SameFault
<1>2. CASE Busy(x)
  <2>1. PICK d \in IF x.togo = 0 THEN {0}
                   ELSE IF x.togo < 0 THEN x.togo .. -1 ELSE 1 .. x.togo :
          y = [x EXCEPT !.phase = "MOVE", !.togo = d, !.back = 0, !.mark = 0]
    BY <1>2 DEF Stopped
  <2>2. y.phase = "MOVE" /\ y.togo = d /\ y.limitFault = x.limitFault
    BY <2>1, AxisFields
  <2>3. x.togo # 0 => d # 0
    BY <2>1, AxisFields
  <2> QED
    BY <1>2, <2>2, <2>3 DEF Busy, SameFault
<1> QED
  BY <1>1, <1>2

LEMMA FrozenEffect ==
  ASSUME NEW x \in GoodAxis
  PROVE  ~Busy(Frozen(x)) /\ SameFault(x, Frozen(x))
BY AxisFields DEF Frozen, Busy, SameFault

(* One pass ends no work that has distance to go, unless a switch does;    *)
(* it starts none, and leaves every fault for main.cpp to consume.         *)
LEMMA ServicedEffect ==
  ASSUME NEW a \in Axis, NEW x \in GoodAxis, NEW y \in Serviced(a, x)
  PROVE  /\ Busy(x) /\ x.togo # 0 => Busy(y) \/ y.limitFault
         /\ Busy(y) => Busy(x)
         /\ x.limitFault => y.limitFault
         /\ ~Busy(x) => SameFault(x, y)
<1>1. PICK z \in ServiceAxis(a, x) : y = [z EXCEPT !.moving = @ \/ Busy(z)]
  BY DEF Serviced
<1>2. x \in AxisRecord
  BY DEF GoodAxis
<1>3. /\ Busy(x) /\ x.togo # 0 => Busy(z) \/ z.limitFault
      /\ Busy(z) => Busy(x)
      /\ x.limitFault => z.limitFault
      /\ ~Busy(x) => SameFault(x, z)
  <2>1. CASE x.phase = "IDLE"
    BY <1>2, <2>1 DEF ServiceAxis, AxisRecord, Busy, SameFault
  <2>2. CASE x.phase \in {"MOVE", "OVERSHOOT"}
    <3>1. Busy(x)
      BY <2>2 DEF Busy
    <3>2. z \in TripMove(a, x) \/ z \in RunMove(x)
      BY <2>2 DEF ServiceAxis
    <3>3. z \in TripMove(a, x) => z.limitFault
      BY <1>2 DEF TripMove, AxisRecord
    <3>4. z \in RunMove(x) =>
            /\ z.limitFault = x.limitFault
            /\ x.togo # 0 => z.phase = x.phase
      BY <1>2 DEF RunMove, AxisRecord
    <3> QED
      BY <3>1, <3>2, <3>3, <3>4 DEF Busy
  <2>3. CASE x.phase = "HOME_SEEK"
    BY <1>2, <2>3 DEF ServiceAxis, SeekHome, AxisRecord, Busy
  <2>4. CASE x.phase = "TRACK_SEEK"
    BY <1>2, <2>4 DEF ServiceAxis, SeekFar, AxisRecord, Busy
  <2>5. CASE x.phase \in {"HOME_STUTTER_STOP", "HOME_STUTTER_BACK",
                          "HOME_BACKOFF", "HOME_AVERAGE", "HOME_PARK",
                          "TRACK_RETURN"}
    <3>1. Busy(x)
      BY <2>5 DEF Busy
    <3>2. z \in RunPhase(a, x)
      BY <2>5 DEF ServiceAxis
    <3>3. CASE x.togo # 0
      <4>1. z = [x EXCEPT !.togo = RunStep(@)]
        BY <3>2, <3>3 DEF RunPhase
      <4> QED
        BY <1>2, <3>1, <4>1 DEF AxisRecord, Busy
    <3>4. CASE x.togo = 0
      <4>1. z = AfterRun(a, x)
        BY <3>2, <3>4 DEF RunPhase
      <4>2. z.limitFault = x.limitFault
        BY <1>2, <2>5, <4>1 DEF AfterRun, SeekBegun, AxisRecord
      <4> QED
        BY <3>1, <3>4, <4>2
    <3> QED
      BY <3>3, <3>4
  <2> QED
    BY <1>2, <2>1, <2>2, <2>3, <2>4, <2>5 DEF AxisRecord, Phase
<1>4. z \in GoodAxis
  <2>1. ServiceAxis(a, x) \subseteq GoodAxis
    BY ServiceAxisGood
  <2> QED
    BY <2>1
<1>5. y.phase = z.phase /\ y.limitFault = z.limitFault
  BY <1>1, <1>4 DEF GoodAxis, AxisRecord
<1> QED
  BY <1>3, <1>5 DEF Busy, SameFault

(* A fault is raised by a move with some way to go, and ends it.           *)
LEMMA ServicedFault ==
  ASSUME NEW a \in Axis, NEW x \in GoodAxis, NEW y \in Serviced(a, x),
         y.limitFault, ~x.limitFault
  PROVE  /\ x.phase \in {"MOVE", "OVERSHOOT"}
         /\ x.togo # 0
         /\ ~Busy(y)
<1>1. PICK z \in ServiceAxis(a, x) : y = [z EXCEPT !.moving = @ \/ Busy(z)]
  BY DEF Serviced
<1>2. x \in AxisRecord
  BY DEF GoodAxis
<1>3. z \in GoodAxis
  <2>1. ServiceAxis(a, x) \subseteq GoodAxis
    BY ServiceAxisGood
  <2> QED
    BY <2>1
<1>4. y.phase = z.phase /\ y.limitFault = z.limitFault
  BY <1>1, <1>3 DEF GoodAxis, AxisRecord
<1>5. ASSUME z.limitFault
      PROVE  z \in TripMove(a, x) /\ x.phase \in {"MOVE", "OVERSHOOT"}
  <2>1. x.phase # "IDLE"
    BY <1>2, <1>5 DEF ServiceAxis, AxisRecord
  <2>2. CASE x.phase \in {"MOVE", "OVERSHOOT"}
    <3>1. z \in TripMove(a, x) \/ z \in RunMove(x)
      BY <2>2 DEF ServiceAxis
    <3>2. z \notin RunMove(x)
      BY <1>2, <1>5 DEF RunMove, AxisRecord
    <3> QED
      BY <2>2, <3>1, <3>2
  <2>3. x.phase # "HOME_SEEK"
    BY <1>2, <1>5 DEF ServiceAxis, SeekHome, AxisRecord
  <2>4. x.phase # "TRACK_SEEK"
    BY <1>2, <1>5 DEF ServiceAxis, SeekFar, AxisRecord
  <2>5. CASE x.phase \in {"HOME_STUTTER_STOP", "HOME_STUTTER_BACK",
                          "HOME_BACKOFF", "HOME_AVERAGE", "HOME_PARK",
                          "TRACK_RETURN"}
    <3>1. z \in RunPhase(a, x)
      BY <2>5 DEF ServiceAxis
    <3>2. [x EXCEPT !.togo = RunStep(@)].limitFault = x.limitFault
      BY <1>2 DEF AxisRecord
    <3>3. AfterRun(a, x).limitFault = x.limitFault
      BY <1>2, <2>5 DEF AfterRun, SeekBegun, AxisRecord
    <3> QED
      BY <1>5, <3>1, <3>2, <3>3 DEF RunPhase
  <2> QED
    BY <1>2, <2>1, <2>2, <2>3, <2>4, <2>5 DEF AxisRecord, Phase
<1>6. z \in TripMove(a, x) => x.togo # 0 /\ z.phase = "IDLE"
  <2>1. x.togo # 0 \/ TripMove(a, x) = {}
    BY DEF TripMove, SwitchAhead
  <2>2. z \in TripMove(a, x) => z.phase = "IDLE"
    BY <1>2 DEF TripMove, AxisRecord
  <2> QED
    BY <2>1, <2>2
<1> QED
  BY <1>4, <1>5, <1>6 DEF Busy

LEMMA StopAllEffect ==
  ASSUME NEW ax \in GoodAxes, NEW f \in StopAll(ax), NEW a \in Axis
  PROVE  /\ Busy(f[a]) <=> Busy(ax[a])
         /\ SameFault(ax[a], f[a])
         /\ Busy(ax[a]) /\ ax[a].togo # 0 => f[a].togo # 0
<1>1. f[a] \in Stopped(ax[a])
  BY EachAxisMember DEF StopAll
<1> QED
  BY <1>1, StoppedEffect DEF GoodAxes

LEMMA AbortAxes ==
  ASSUME NEW c \in GoodCycle, NEW ax \in GoodAxes, NEW o \in Abort(c, ax),
         NEW a \in Axis
  PROVE  /\ Busy(o.ax[a]) <=> Busy(ax[a])
         /\ SameFault(ax[a], o.ax[a])
         /\ Busy(ax[a]) /\ ax[a].togo # 0 => o.ax[a].togo # 0
<1>1. o.ax = ax \/ o.ax \in StopAll(ax)
  BY AbortEffect
<1> QED
  BY <1>1, StopAllEffect DEF SameFault

(* Entering a step touches no fault, and leaves a cycle that runs in it or *)
(* one that has a result.                                                  *)
InStep(c, d, step) ==
  /\ d.step = step
  /\ d.mode = c.mode /\ d.passes = c.passes /\ d.clearance = c.clearance

LEMMA EnterEffect ==
  ASSUME NEW c \in CycleRecord, NEW ax \in GoodAxes, NEW step,
         step \in (Step \ {"IDLE"}) \union {"DONE"},
         NEW o \in Enter(c, ax, step)
  PROVE  /\ Active(o.c) \/ o.c.result # "NONE"
         /\ Active(o.c) => InStep(c, o.c, step)
         /\ step # "DONE" /\ ~AnyBusy(ax) => Active(o.c)
         /\ \A a \in Axis : SameFault(ax[a], o.ax[a])
<1>1. ASSUME NEW d \in CycleRecord, NEW p \in Fail(d, ax)
      PROVE  /\ p.c.result # "NONE" /\ ~Active(p.c)
             /\ \A a \in Axis : SameFault(ax[a], p.ax[a])
  <2>1. PICK f \in StopAll(ax) :
          p = [c |-> [d EXCEPT !.step = "IDLE", !.result = "FAILED"],
               ax |-> f]
    BY <1>1 DEF Fail
  <2>2. p.c.result = "FAILED" /\ p.c.step = "IDLE" /\ p.ax = f
    BY <2>1 DEF CycleRecord
  <2> QED
    BY <2>2, StopAllEffect DEF Active
<1>2. CASE step = "DONE"
  <2> DEFINE n == IF c.rehomed THEN 0 ELSE (c.sinceRehome + 1) % 256
  <2>0. o \in EnterDone(c, ax)
    BY <1>2 DEF Enter, Waits
  <2>1. o = [c |-> [c EXCEPT !.step = "IDLE", !.result = "OK",
                             !.sinceRehome = n],
             ax |-> ax]
    BY <2>0, Zenon DEF EnterDone
  <2> HIDE DEF n
  <2>2. o.c.result = "OK" /\ o.c.step = "IDLE" /\ o.ax = ax
    BY <2>1 DEF CycleRecord
  <2> QED
    BY <1>2, <2>2 DEF Active, SameFault
<1>3. CASE step = "REHOME"
  <2> DEFINE d == [c EXCEPT !.step = "REHOME", !.rehomed = TRUE]
  <2>1. d \in CycleRecord /\ InStep(c, d, "REHOME")
    BY CycleFields DEF CycleRecord, Step, InStep
  <2>2. o \in EnterRehome(c, ax)
    BY <1>3 DEF Enter, Waits
  <2>3. CASE Busy(ax["WIPE"])
    <3>1. o \in Fail(d, ax) /\ AnyBusy(ax)
      BY <2>2, <2>3 DEF EnterRehome, AnyBusy, Axis
    <3> HIDE DEF d
    <3> QED
      BY <1>1, <2>1, <3>1
  <2>4. CASE ~Busy(ax["WIPE"])
    <3>1. o.c = d /\ o.ax = [ax EXCEPT !["WIPE"] = HomeStarted(@)]
      BY <2>2, <2>4 DEF EnterRehome
    <3>2. \A a \in Axis : SameFault(ax[a], o.ax[a])
      BY <3>1, HomeStartedEffect DEF GoodAxes, SameFault
    <3> HIDE DEF d
    <3> QED
      BY <1>3, <2>1, <3>1, <3>2 DEF Active, InStep
  <2> QED
    BY <2>3, <2>4
<1>4. CASE Waits(step)
  <2>1. PICK w \in 0 .. MaxWait :
          o = [c |-> [c EXCEPT !.step = step, !.wait = w], ax |-> ax]
    BY <1>4 DEF Enter, EnterWait, Waits
  <2>2. InStep(c, o.c, step) /\ o.ax = ax
    BY <2>1 DEF CycleRecord, InStep
  <2> QED
    BY <1>4, <2>2 DEF Active, Waits, SameFault, InStep
<1>5. CASE step \notin {"DONE", "REHOME"} /\ ~Waits(step)
  <2> DEFINE b == AxisOf(step)
             d == [c EXCEPT !.step = step]
  <2>1. b \in Axis /\ ApproachOf(step) \in Approach
    BY DEF AxisOf, ApproachOf, Axis, Approach
  <2>2. d \in CycleRecord /\ InStep(c, d, step)
    BY <1>5, CycleFields DEF CycleRecord, InStep
  <2>3. o \in EnterMove(c, ax, step)
    BY <1>5 DEF Enter
  <2>4. CASE Busy(ax[b])
    <3>1. o \in Fail(d, ax) /\ AnyBusy(ax)
      BY <2>1, <2>3, <2>4 DEF EnterMove, AnyBusy
    <3> HIDE DEF d, b
    <3> QED
      BY <1>1, <2>2, <3>1
  <2>5. CASE ~Busy(ax[b])
    <3>1. PICK x \in Moved(ax[b], ApproachOf(step)) :
            o = [c |-> d, ax |-> [ax EXCEPT ![b] = x]]
      BY <2>3, <2>5 DEF EnterMove
    <3>2. SameFault(ax[b], x)
      BY <2>1, MovedEffect DEF GoodAxes
    <3>3. \A a \in Axis : SameFault(ax[a], o.ax[a])
      BY <3>1, <3>2 DEF GoodAxes, SameFault
    <3>4. o.c = d
      BY <3>1
    <3> HIDE DEF d, b
    <3> QED
      BY <1>5, <2>2, <3>3, <3>4 DEF Active, InStep
  <2> QED
    BY <2>4, <2>5
<1> QED
  BY <1>2, <1>3, <1>4, <1>5

LEMMA CycleServicedEffect ==
  ASSUME NEW c \in GoodCycle, NEW ax \in GoodAxes,
         NEW o \in CycleServiced(c, ax)
  PROVE  /\ ~Active(c) => o = [c |-> c, ax |-> ax]
         /\ Active(c) => Active(o.c) \/ o.c.result # "NONE"
         /\ Active(o.c) =>
              InStep(c, o.c, IF StepDone(c, ax) THEN NextStep(c) ELSE c.step)
         /\ \A a \in Axis : SameFault(ax[a], o.ax[a])
<1>0. c \in CycleRecord
  BY DEF GoodCycle
<1>1. CASE StepDone(c, ax)
  <2>1. Active(c)
    BY <1>1 DEF StepDone
  <2>2. NextStep(c) \in (Step \ {"IDLE"}) \union {"DONE"}
    BY <2>1, NextStepEnterable DEF Enterable
  <2>3. o \in Enter(PassCounted(c), ax, NextStep(c))
    BY <1>1 DEF CycleServiced
  <2>4. InStep(c, PassCounted(c), c.step)
    BY <1>0 DEF PassCounted, CycleRecord, InStep
  <2> QED
    BY <1>1, <2>1, <2>2, <2>3, <2>4, PassCountedGood, EnterEffect DEF InStep
<1>2. CASE ~StepDone(c, ax) /\ Active(c) /\ Waits(c.step)
  <2>1. o = [c |-> [c EXCEPT !.wait = @ - 1], ax |-> ax]
    BY <1>2 DEF CycleServiced
  <2>2. InStep(c, o.c, c.step) /\ o.ax = ax
    BY <1>0, <2>1, CycleFields DEF InStep
  <2> QED
    BY <1>2, <2>2 DEF Active, SameFault, InStep
<1>3. CASE ~StepDone(c, ax) /\ ~(Active(c) /\ Waits(c.step))
  <2>1. o = [c |-> c, ax |-> ax]
    BY <1>3 DEF CycleServiced
  <2> QED
    BY <1>3, <2>1 DEF SameFault, InStep
<1> QED
  BY <1>1, <1>2, <1>3

LEMMA StartedEffect ==
  ASSUME NEW c \in GoodCycle, NEW ax \in GoodAxes, NEW mode \in ParkMode,
         NEW passes \in 1 .. MaxPasses, NEW clearance \in BOOLEAN,
         Startable(c, ax), NEW o \in Started(c, ax, mode, passes, clearance)
  PROVE  /\ Active(o.c)
         /\ o.c.mode = mode
         /\ o.c.step = IF mode = "OVERFLOW" THEN "BED_DROP" ELSE "FEED_RISE"
         /\ \A a \in Axis : SameFault(ax[a], o.ax[a])
<1>1. c \in CycleRecord
  BY DEF GoodCycle
<1>2. PICK due \in BOOLEAN : due = (c.sinceRehome >= RehomeInterval)
  <2>1. (c.sinceRehome >= RehomeInterval) \in BOOLEAN
    OBVIOUS
  <2> QED
    BY <2>1, Zenon
<1> DEFINE d == [c EXCEPT !.mode = mode, !.passes = passes, !.pass = 0,
                          !.clearance = clearance, !.rehomed = FALSE,
                          !.rehomeDue = due, !.result = "NONE"]
           first == IF mode = "OVERFLOW" THEN "BED_DROP" ELSE "FEED_RISE"
<1>3. d \in CycleRecord
  <2>1. 0 \in 0 .. MaxPasses /\ "NONE" \in Result /\ FALSE \in BOOLEAN
    BY DEF Result
  <2> QED
    BY <1>1, <2>1, FreshCycleType
<1>4. Started(c, ax, mode, passes, clearance) = Enter(d, ax, first)
  BY <1>2 DEF Started
<1>5. first \in (Step \ {"IDLE"}) \union {"DONE"} /\ first # "DONE"
  BY DEF Step
<1>6. ~AnyBusy(ax)
  BY DEF Startable
<1>7. d.mode = mode
  BY <1>1 DEF CycleRecord
<1> HIDE DEF d
<1> QED
  BY <1>3, <1>4, <1>5, <1>6, <1>7, EnterEffect DEF InStep
=============================================================================
