--------------------------- MODULE MegaLoopProofs ---------------------------
(***************************************************************************)
(* Proofs about MegaLoop, for every value of its constants: any number of  *)
(* commands, passes and samples and any travel, with moves of no length,   *)
(* switches that close together and drops that lower nothing.              *)
(***************************************************************************)
EXTENDS MegaLoop, RecoatProofs

USE MegaLoopAssumption DEF MegaLoopAssumption

-----------------------------------------------------------------------------
(* Type correctness: the variables of the loop, with the axes and the      *)
(* sequencer in the inductive form of their types.                         *)

OtherTypes ==
  /\ pc \in Place
  /\ pend \in [Slot -> 0 .. MaxCommands]
  /\ wasBusy \in [Axis -> BOOLEAN]
  /\ state \in State
  /\ latched \subseteq {"MOTION", "TEMP"}
  /\ accepted \in 0 .. MaxCommands
  /\ answer \in [Command -> {"none", "OK", "REFUSED"}]
  /\ cut \subseteq Command
  /\ instant \subseteq Command
  /\ eclipsed \subseteq Command
  /\ late \subseteq Command
  /\ layer \in Layer
  /\ lowers \in BOOLEAN

Machine == axes \in GoodAxes /\ cycle \in GoodCycle

TypeInv == Machine /\ OtherTypes

LEMMA TypeInvImplies == TypeInv => TypeOK
BY DEF TypeInv, Machine, OtherTypes, TypeOK, GoodAxes, GoodAxis, GoodCycle

LEMMA OweAnswerType ==
  ASSUME TypeInv, NEW slot \in Slot, OweAnswer(slot)
  PROVE  accepted' \in 0 .. MaxCommands /\ pend' \in [Slot -> 0 .. MaxCommands]
<1>1. accepted + 1 \in 0 .. MaxCommands
  BY DEF OweAnswer, TypeInv, OtherTypes
<1> QED
  BY <1>1 DEF OweAnswer, TypeInv, OtherTypes

LEMMA MarkedType ==
  ASSUME TypeInv, NEW slot \in Slot, OweAnswer(slot), NEW a \in Axis, Marked(a)
  PROVE  instant' \subseteq Command /\ late' \subseteq Command
<1>1. accepted + 1 \in Command
  BY DEF OweAnswer, TypeInv, OtherTypes, Command
<1> QED
  BY <1>1 DEF Marked, TypeInv, OtherTypes

LEMMA LowersType ==
  ASSUME TypeInv, axes' \in GoodAxes, lowers' = Lowers
  PROVE  lowers' \in BOOLEAN
<1>1. axes'["BED"].togo \in -Reach .. Reach
  BY AxisFields DEF GoodAxes, Axis
<1>2. (axes'["BED"].togo < 0) \in BOOLEAN
  BY <1>1
<1> QED
  BY <1>2 DEF Lowers, TypeInv, OtherTypes

LEMMA SettleType ==
  ASSUME TypeInv, NEW S \in SUBSET Slot, NEW verdict \in {"OK", "REFUSED"},
         Settle(S, verdict)
  PROVE  /\ pend' \in [Slot -> 0 .. MaxCommands]
         /\ answer' \in [Command -> {"none", "OK", "REFUSED"}]
<1>1. 0 \in 0 .. MaxCommands
  OBVIOUS
<1> QED
  BY <1>1 DEF Settle, TypeInv, OtherTypes

LEMMA AbortStep ==
  ASSUME TypeInv, NEW ax \in GoodAxes, NEW o \in Abort(cycle, ax)
  PROVE  o.c \in GoodCycle /\ o.ax \in GoodAxes
BY AbortGood DEF TypeInv, Machine, Outcome

LEMMA InitTypeInv == Init => TypeInv
<1> SUFFICES ASSUME Init PROVE TypeInv
  OBVIOUS
<1>1. axes \in GoodAxes
  <2>1. PICK feed \in BOOLEAN, bed \in BOOLEAN :
          axes = [a \in Axis |-> AxisAtBoot(\/ a = "FEED" /\ feed
                                            \/ a = "BED" /\ bed)]
    BY DEF Init
  <2>2. ASSUME NEW a \in Axis
        PROVE  ((a = "FEED" /\ feed) \/ (a = "BED" /\ bed)) \in BOOLEAN
    OBVIOUS
  <2> QED
    BY <2>1, <2>2, AtBootGood DEF GoodAxes
<1>2. cycle \in GoodCycle
  BY CycleAtBootGood DEF Init
<1>3. /\ pc \in Place /\ state \in State /\ layer \in Layer
      /\ latched \subseteq {"MOTION", "TEMP"} /\ lowers \in BOOLEAN
      /\ cut \subseteq Command /\ instant \subseteq Command
      /\ eclipsed \subseteq Command /\ late \subseteq Command
  BY DEF Init, Place, State, Layer
<1>4. /\ pend \in [Slot -> 0 .. MaxCommands]
      /\ wasBusy \in [Axis -> BOOLEAN]
      /\ accepted \in 0 .. MaxCommands
      /\ answer \in [Command -> {"none", "OK", "REFUSED"}]
  BY DEF Init
<1> QED
  BY <1>1, <1>2, <1>3, <1>4 DEF TypeInv, Machine, OtherTypes

LEMMA PacketTypeInv ==
  ASSUME TypeInv, Packet
  PROVE  TypeInv'
<1>1. ASSUME NEW a \in Axis, NEW approach \in Approach, AxisMove(a, approach)
      PROVE  TypeInv'
  <2>1. a \in Slot
    BY DEF Slot
  <2>2. accepted' \in 0 .. MaxCommands /\ pend' \in [Slot -> 0 .. MaxCommands]
    BY <1>1, <2>1, OweAnswerType DEF AxisMove
  <2>4. instant' \subseteq Command /\ late' \subseteq Command
    BY <1>1, <2>1, MarkedType DEF AxisMove
  <2>3. axes' \in GoodAxes
    BY <1>1, MovedGood DEF AxisMove, TypeInv, Machine, GoodAxes
  <2> QED
    BY <1>1, <2>2, <2>3, <2>4 DEF AxisMove, TypeInv, Machine, OtherTypes, blade
<1>2. ASSUME NEW a \in Axis, AxisHome(a)
      PROVE  TypeInv'
  <2>1. a \in Slot
    BY DEF Slot
  <2>2. accepted' \in 0 .. MaxCommands /\ pend' \in [Slot -> 0 .. MaxCommands]
    BY <1>2, <2>1, OweAnswerType DEF AxisHome
  <2>4. instant' \subseteq Command /\ late' \subseteq Command
    BY <1>2, <2>1, MarkedType DEF AxisHome
  <2>3. axes' \in GoodAxes
    BY <1>2, HomeStartedGood DEF AxisHome, TypeInv, Machine, GoodAxes
  <2> QED
    BY <1>2, <2>2, <2>3, <2>4 DEF AxisHome, TypeInv, Machine, OtherTypes, blade
<1>3. ASSUME NEW a \in Axis, AxisStop(a)
      PROVE  TypeInv'
  <2>1. {"RECOAT"} \in SUBSET Slot
    BY DEF Slot
  <2>2. /\ pend' \in [Slot -> 0 .. MaxCommands]
        /\ answer' \in [Command -> {"none", "OK", "REFUSED"}]
    BY <1>3, <2>1, SettleType DEF AxisStop
  <2>3. PICK o \in Abort(cycle, axes) :
          /\ cycle' = o.c
          /\ \E x \in Stopped(o.ax[a]) : axes' = [o.ax EXCEPT ![a] = x]
    BY <1>3 DEF AxisStop
  <2>4. cycle' \in GoodCycle /\ o.ax \in GoodAxes
    BY <2>3, AbortStep DEF TypeInv, Machine
  <2>5. axes' \in GoodAxes
    BY <2>3, <2>4, StoppedGood DEF GoodAxes
  <2> QED
    BY <1>3, <2>2, <2>4, <2>5 DEF AxisStop, TypeInv, Machine, OtherTypes,
                                     marks, blade
<1>4. ASSUME NEW mode \in ParkMode, NEW passes \in 1 .. MaxPasses,
             NEW clearance \in BOOLEAN, RecoatCycle(mode, passes, clearance)
      PROVE  TypeInv'
  <2>1. "RECOAT" \in Slot
    BY DEF Slot
  <2>2. accepted' \in 0 .. MaxCommands /\ pend' \in [Slot -> 0 .. MaxCommands]
    BY <1>4, <2>1, OweAnswerType DEF RecoatCycle
  <2>3. cycle' \in GoodCycle /\ axes' \in GoodAxes
    BY <1>4, StartedGood DEF RecoatCycle, TypeInv, Machine, Outcome
  <2>4. lowers' \in BOOLEAN
    BY <1>4, <2>3, LowersType DEF RecoatCycle
  <2> QED
    BY <1>4, <2>2, <2>3, <2>4
    DEF RecoatCycle, TypeInv, Machine, OtherTypes, marks
<1>5. ASSUME FaultClear PROVE TypeInv'
  BY <1>5 DEF FaultClear, TypeInv, Machine, OtherTypes, marks, blade
<1>6. ASSUME Estop PROVE TypeInv'
  <2>1. /\ pend' \in [Slot -> 0 .. MaxCommands]
        /\ answer' \in [Command -> {"none", "OK", "REFUSED"}]
    BY <1>6, SettleType DEF Estop
  <2>2. cycle' \in GoodCycle /\ axes' \in GoodAxes
    <3>1. [a \in Axis |-> Frozen(axes[a])] \in GoodAxes
      BY FrozenAxesGood DEF TypeInv, Machine
    <3> QED
      BY <1>6, <3>1, AbortStep DEF Estop
  <2> QED
    BY <1>6, <2>1, <2>2
    DEF Estop, TypeInv, Machine, OtherTypes, State, marks, blade
<1> QED
  BY <1>1, <1>2, <1>3, <1>4, <1>5, <1>6 DEF Packet

LEMMA FirstFaultedType ==
  ASSUME FaultedAxes # {}
  PROVE  FirstFaulted \in Axis /\ FirstFaulted \in FaultedAxes
BY DEF FirstFaulted, FaultedAxes, Axis

LEMMA AcknowledgedGood ==
  ASSUME TypeInv, FaultedAxes # {}
  PROVE  Acknowledged \in GoodAxes
<1>1. FirstFaulted \in Axis
  BY FirstFaultedType
<1>2. \A x \in GoodAxis : [x EXCEPT !.limitFault = FALSE] \in GoodAxis
  BY AxisFields DEF GoodAxis, AxisRecord
<1> QED
  BY <1>1, <1>2 DEF Acknowledged, TypeInv, Machine, GoodAxes

LEMMA LoopTypeInv ==
  ASSUME TypeInv, LoopStep
  PROVE  TypeInv'
<1>1. ASSUME PollDone PROVE TypeInv'
  BY <1>1 DEF PollDone, TypeInv, Machine, OtherTypes, Place, marks, blade
<1>2. ASSUME MotionService PROVE TypeInv'
  <2>1. axes' \in EachAxis([a \in Axis |-> Serviced(a, axes[a])])
    BY <1>2 DEF MotionService
  <2>2. /\ axes' = [a \in Axis |-> axes'[a]]
        /\ \A a \in Axis : axes'[a] \in Serviced(a, axes[a])
    BY <2>1, EachAxisMember
  <2>3. axes' \in GoodAxes
    <3>1. \A a \in Axis : axes'[a] \in GoodAxis
      BY <2>2, ServicedGood DEF TypeInv, Machine, GoodAxes
    <3> QED
      BY <2>2, <3>1 DEF GoodAxes
  <2>4. \A a \in Axis : Owner(a) \in 0 .. MaxCommands
    BY DEF Owner, TypeInv, OtherTypes, Slot
  <2>5. cut' \subseteq Command
    <3> SUFFICES ASSUME NEW i \in cut' PROVE i \in Command
      OBVIOUS
    <3>1. i \in cut \/ \E a \in Axis : i = Owner(a) /\ i # 0
      BY <1>2 DEF MotionService
    <3>2. CASE i \in cut
      BY <3>2 DEF TypeInv, OtherTypes
    <3>3. ASSUME NEW a \in Axis, i = Owner(a), i # 0 PROVE i \in Command
      <4>1. i \in 0 .. MaxCommands
        BY <2>4, <3>3
      <4> QED
        BY <3>3, <4>1 DEF Command
    <3> QED
      BY <3>1, <3>2, <3>3
  <2> QED
    BY <1>2, <2>3, <2>5
    DEF MotionService, TypeInv, Machine, OtherTypes, Place, blade
<1>3. ASSUME RecoatService PROVE TypeInv'
  <2>1. cycle' \in GoodCycle /\ axes' \in GoodAxes
    BY <1>3, CycleServicedGood DEF RecoatService, TypeInv, Machine, Outcome
  <2>2. layer' \in Layer
    BY <1>3 DEF RecoatService, LayerAfter, TypeInv, OtherTypes, Layer
  <2>3. lowers' \in BOOLEAN
    BY <1>3, <2>1, LowersType DEF RecoatService
  <2> QED
    BY <1>3, <2>1, <2>2, <2>3
    DEF RecoatService, TypeInv, Machine, OtherTypes, Place, marks
<1>4. ASSUME ServiceFaults PROVE TypeInv'
  <2>1. /\ axes' \in GoodAxes /\ cycle' \in GoodCycle
        /\ pend' \in [Slot -> 0 .. MaxCommands]
        /\ answer' \in [Command -> {"none", "OK", "REFUSED"}]
    <3>1. CASE NoLimitFault
      BY <3>1 DEF NoLimitFault, TypeInv, Machine, OtherTypes
    <3>2. CASE LimitFaultAlone
      <4>1. {FirstFaulted} \in SUBSET Slot
        BY <3>2, FirstFaultedType DEF LimitFaultAlone, Slot
      <4> QED
        BY <3>2, <4>1, SettleType, AcknowledgedGood
        DEF LimitFaultAlone, TypeInv, Machine
    <3>3. CASE LimitFaultInCycle
      <4>1. {FirstFaulted, "RECOAT"} \in SUBSET Slot
        BY <3>3, FirstFaultedType DEF LimitFaultInCycle, Slot
      <4>2. axes' \in GoodAxes /\ cycle' \in GoodCycle
        BY <3>3, AcknowledgedGood, AbortStep DEF LimitFaultInCycle
      <4> QED
        BY <3>3, <4>1, <4>2, SettleType DEF LimitFaultInCycle
    <3> QED
      BY <1>4, <3>1, <3>2, <3>3 DEF ServiceFaults
  <2>2. latched' \subseteq {"MOTION", "TEMP"}
    BY <1>4 DEF ServiceFaults, TypeInv, OtherTypes
  <2>3. eclipsed' \subseteq Command
    <3>1. \A a \in Axis : pend[a] \in 0 .. MaxCommands
      BY DEF TypeInv, OtherTypes, Slot
    <3>2. Waiting \subseteq Command
      BY <3>1 DEF Waiting, FaultedAxes, Command
    <3> QED
      BY <1>4, <3>2 DEF ServiceFaults, TypeInv, OtherTypes
  <2> QED
    BY <1>4, <2>1, <2>2, <2>3
    DEF ServiceFaults, TypeInv, Machine, OtherTypes, Place, blade
<1>5. ASSUME ServiceCompletions PROVE TypeInv'
  <2>1. cycle' \in GoodCycle
    <3> DEFINE d == [cycle EXCEPT !.result = "NONE"]
    <3>1. cycle \in CycleRecord
      BY DEF TypeInv, Machine, GoodCycle
    <3>2. d \in CycleRecord
      BY <3>1, CycleFields DEF CycleRecord, Result
    <3>3. d \in GoodCycle
      BY <3>1, <3>2, CycleFields
      DEF TypeInv, Machine, GoodCycle, Active, EndingSteps
    <3> QED
      BY <1>5, <3>3 DEF ServiceCompletions
  <2>2. /\ pend' \in [Slot -> 0 .. MaxCommands]
        /\ answer' \in [Command -> {"none", "OK", "REFUSED"}]
    <3>1. 0 \in 0 .. MaxCommands
      OBVIOUS
    <3> QED
      BY <1>5, <3>1 DEF ServiceCompletions, TypeInv, OtherTypes
  <2>3. wasBusy' \in [Axis -> BOOLEAN]
    BY <1>5 DEF ServiceCompletions, Busy
  <2> QED
    BY <1>5, <2>1, <2>2, <2>3
    DEF ServiceCompletions, TypeInv, Machine, OtherTypes, Place, marks, blade
<1>6. ASSUME UpdateState PROVE TypeInv'
  BY <1>6
  DEF UpdateState, TypeInv, Machine, OtherTypes, Place, State, marks, blade
<1> QED
  BY <1>1, <1>2, <1>3, <1>4, <1>5, <1>6 DEF LoopStep

LEMMA NextTypeInv == TypeInv /\ [Next]_vars => TypeInv'
<1> SUFFICES ASSUME TypeInv, [Next]_vars PROVE TypeInv'
  OBVIOUS
<1>1. CASE UNCHANGED vars
  BY <1>1 DEF vars, loopVars, marks, blade, TypeInv, Machine, OtherTypes
<1> QED
  BY <1>1, PacketTypeInv, LoopTypeInv DEF Next

LEMMA AlwaysTypeInv == Spec => []TypeInv
BY InitTypeInv, NextTypeInv, PTL DEF Spec

(* Every variable of the loop keeps its type; home_sample within home_pos[] *)
(* and the pass counter within its bound are the parts that need more than  *)
(* the types (motion.cpp, recoat.cpp).                                      *)
THEOREM MegaLoopTyped == Spec => []TypeOK
BY AlwaysTypeInv, TypeInvImplies, PTL

-----------------------------------------------------------------------------
(* The emergency stop.                                                     *)

LEMMA FrozenAtRest ==
  ASSUME NEW ax \in GoodAxes, NEW a \in Axis
  PROVE  ~Busy(Frozen(ax[a]))
BY AxisFields DEF GoodAxes, Frozen, Busy

LEMMA AtRestStaysAtRest ==
  ASSUME NEW a \in Axis, NEW x \in GoodAxis, ~Busy(x), NEW y \in Serviced(a, x)
  PROVE  ~Busy(y) /\ y.homed = x.homed
BY AxisFields DEF Serviced, ServiceAxis, Busy

LEMMA AcknowledgedPhases ==
  ASSUME TypeInv, FaultedAxes # {}, NEW a \in Axis
  PROVE  /\ Acknowledged[a].phase = axes[a].phase
         /\ Acknowledged[a].homed = axes[a].homed
<1>1. FirstFaulted \in Axis
  BY FirstFaultedType
<1>2. axes[a] \in GoodAxis /\ axes[FirstFaulted] \in GoodAxis
  BY <1>1 DEF TypeInv, Machine, GoodAxes
<1> QED
  BY <1>1, <1>2, AxisFields DEF Acknowledged, TypeInv, Machine, GoodAxes

LEMMA SettleClears ==
  ASSUME TypeInv, NEW S \in SUBSET Slot, NEW verdict, Settle(S, verdict)
  PROVE  /\ \A s \in S : pend'[s] = 0
         /\ \A s \in Slot : pend'[s] = 0 \/ pend'[s] = pend[s]
BY DEF Settle, TypeInv, OtherTypes

LEMMA EstopAtRest ==
  ASSUME TypeInv, Estop
  PROVE  EstopHolds'
<1>1. \A s \in Slot : pend'[s] = 0
  BY SettleClears DEF Estop
<1> DEFINE frozen == [a \in Axis |-> Frozen(axes[a])]
<1>2. frozen \in GoodAxes /\ \A a \in Axis : ~Busy(frozen[a])
  BY FrozenAxesGood, FrozenAtRest DEF TypeInv, Machine
<1>3. PICK o \in Abort(cycle, frozen) : cycle' = o.c /\ axes' = o.ax
  BY DEF Estop
<1>4. ~Active(cycle')
  BY <1>3, AbortEffect DEF TypeInv, Machine
<1>5. ASSUME NEW a \in Axis PROVE ~Busy(axes'[a])
  <2>1. axes' = frozen \/ axes' \in StopAll(frozen)
    BY <1>3, AbortEffect DEF TypeInv, Machine
  <2>2. ASSUME axes' \in StopAll(frozen) PROVE axes'[a] \in Stopped(frozen[a])
    BY <2>2, EachAxisMember DEF StopAll
  <2>3. Stopped(frozen[a]) = {frozen[a]}
    BY <1>2 DEF Stopped
  <2> HIDE DEF frozen
  <2> QED
    BY <1>2, <2>1, <2>2, <2>3
<1> QED
  BY <1>1, <1>4, <1>5 DEF EstopHolds

LEMMA LoopKeepsEstop ==
  ASSUME TypeInv, EstopHolds, LoopStep
  PROVE  EstopHolds'
<1> SUFFICES ASSUME state' = "ESTOP"
             PROVE  /\ \A a \in Axis : ~Busy(axes'[a])
                    /\ ~Active(cycle')
                    /\ \A s \in Slot : pend'[s] = 0
  BY DEF EstopHolds
<1>0. /\ state = "ESTOP"
      /\ \A a \in Axis : ~Busy(axes[a])
      /\ ~Active(cycle)
      /\ \A s \in Slot : pend[s] = 0
  BY DEF LoopStep, PollDone, MotionService, RecoatService, ServiceFaults,
         ServiceCompletions, UpdateState, EstopHolds
<1>1. CASE PollDone
  BY <1>0, <1>1 DEF PollDone
<1>2. CASE MotionService
  <2>1. ASSUME NEW a \in Axis PROVE axes'[a] \in Serviced(a, axes[a])
    BY <1>2, EachAxisMember DEF MotionService
  <2>2. \A a \in Axis : ~Busy(axes'[a])
    BY <1>0, <2>1, AtRestStaysAtRest DEF TypeInv, Machine, GoodAxes
  <2> QED
    BY <1>0, <1>2, <2>2 DEF MotionService
<1>3. CASE RecoatService
  BY <1>0, <1>3 DEF RecoatService, CycleServiced, StepDone
<1>4. CASE ServiceFaults
  <2>1. CASE NoLimitFault
    BY <1>0, <2>1 DEF NoLimitFault
  <2>2. CASE LimitFaultAlone
    <3>1. {FirstFaulted} \in SUBSET Slot
      BY <2>2, FirstFaultedType DEF LimitFaultAlone, Slot
    <3>2. \A s \in Slot : pend'[s] = 0
      BY <1>0, <2>2, <3>1, SettleClears DEF LimitFaultAlone
    <3>3. \A a \in Axis : ~Busy(axes'[a])
      BY <1>0, <2>2, AcknowledgedPhases DEF LimitFaultAlone, Busy
    <3> QED
      BY <1>0, <2>2, <3>2, <3>3 DEF LimitFaultAlone
  <2>3. CASE LimitFaultInCycle
    BY <1>0, <2>3 DEF LimitFaultInCycle
  <2> QED
    BY <1>4, <2>1, <2>2, <2>3 DEF ServiceFaults
<1>5. CASE ServiceCompletions
  <2>1. \A s \in Slot : pend'[s] = 0
    BY <1>0, <1>5 DEF ServiceCompletions
  <2>2. cycle'.step = cycle.step
    BY <1>5, CycleFields DEF ServiceCompletions, TypeInv, Machine, GoodCycle
  <2> QED
    BY <1>0, <1>5, <2>1, <2>2 DEF ServiceCompletions, Active
<1>6. CASE UpdateState
  BY <1>0, <1>6 DEF UpdateState
<1> QED
  BY <1>1, <1>2, <1>3, <1>4, <1>5, <1>6 DEF LoopStep

LEMMA NextKeepsEstop == TypeInv /\ EstopHolds /\ [Next]_vars => EstopHolds'
<1> SUFFICES ASSUME TypeInv, EstopHolds, [Next]_vars PROVE EstopHolds'
  OBVIOUS
<1>1. CASE Estop
  BY <1>1, EstopAtRest
<1>2. CASE Packet /\ ~Estop
  <2>1. state # "ESTOP" /\ state' = state
    BY <1>2
    DEF Packet, AxisMove, AxisHome, AxisStop, RecoatCycle, FaultClear,
        Listening
  <2> QED
    BY <2>1 DEF EstopHolds
<1>3. CASE LoopStep
  BY <1>3, LoopKeepsEstop
<1>4. CASE UNCHANGED vars
  BY <1>4 DEF vars, loopVars, EstopHolds
<1> QED
  BY <1>1, <1>2, <1>3, <1>4 DEF Next

(* After an emergency stop nothing moves, no cycle runs and no command is  *)
(* owed an answer, in every part of the loop (main.cpp enterEstop()).      *)
THEOREM EstopAlwaysHolds == Spec => []EstopHolds
<1>1. Init => EstopHolds
  BY DEF Init, EstopHolds
<1>2. (TypeInv /\ EstopHolds) /\ [Next]_vars => (TypeInv /\ EstopHolds)'
  BY NextTypeInv, NextKeepsEstop
<1> QED
  BY <1>1, <1>2, InitTypeInv, PTL DEF Spec

(* The emergency stop is never left and nothing is accepted in it          *)
(* (main.cpp onPacket(), updateState()).                                   *)
THEOREM EstopIsLatched == Spec => EstopLatched
<1>1. [Next]_vars
        => [state = "ESTOP" => state' = "ESTOP" /\ accepted' = accepted]_vars
  <2> SUFFICES ASSUME Next, state = "ESTOP"
               PROVE  state' = "ESTOP" /\ accepted' = accepted
    BY DEF vars, loopVars
  <2>1. CASE Packet
    BY <2>1
    DEF Packet, AxisMove, AxisHome, AxisStop, RecoatCycle, FaultClear, Estop,
        Listening
  <2>2. CASE LoopStep
    BY <2>2
    DEF LoopStep, PollDone, MotionService, RecoatService, ServiceFaults,
        ServiceCompletions, UpdateState
  <2> QED
    BY <2>1, <2>2 DEF Next
<1> QED
  BY <1>1, PTL DEF Spec, EstopLatched

-----------------------------------------------------------------------------
(* The cycle.                                                              *)

CycleInv == SequenceOK(cycle, axes)

LEMMA PacketCycleInv ==
  ASSUME TypeInv, CycleInv, Packet
  PROVE  CycleInv'
<1>0. cycle \in GoodCycle /\ axes \in GoodAxes
  BY DEF TypeInv, Machine
<1>1. /\ cycle.sinceRehome <= RehomeInterval
      /\ cycle.result # "FAILED"
  BY DEF CycleInv, SequenceOK
<1>2. ASSUME cycle' = cycle, ~Active(cycle) PROVE CycleInv'
  BY <1>1, <1>2, NoCycleOK DEF CycleInv
<1>3. ASSUME NEW a \in Axis, AxisStop(a) PROVE CycleInv'
  BY <1>0, <1>1, <1>3, AbortOK DEF AxisStop, CycleInv
<1>4. ASSUME NEW mode \in ParkMode, NEW passes \in 1 .. MaxPasses,
             NEW clearance \in BOOLEAN, RecoatCycle(mode, passes, clearance)
      PROVE  CycleInv'
  BY <1>0, <1>1, <1>4, StartedOK DEF RecoatCycle, CycleInv
<1>5. ASSUME FaultClear PROVE CycleInv'
  BY <1>5 DEF FaultClear, CycleInv
<1>6. ASSUME Estop PROVE CycleInv'
  BY <1>0, <1>1, <1>6, AbortOK DEF Estop, CycleInv
<1> QED
  BY <1>2, <1>3, <1>4, <1>5, <1>6 DEF Packet, AxisMove, AxisHome

LEMMA MotionCycleInv ==
  ASSUME TypeInv, CycleInv, MotionService
  PROVE  CycleInv'
<1>1. ASSUME NEW a \in Axis
      PROVE  axes[a] \in GoodAxis /\ axes'[a] \in Serviced(a, axes[a])
  BY EachAxisMember DEF MotionService, TypeInv, Machine, GoodAxes
<1>2. ~AnyBusy(axes) => ~AnyBusy(axes')
  BY <1>1, AtRestStaysAtRest DEF AnyBusy
<1>3. Referenced(cycle, axes) => Referenced(cycle, axes')
  <2>1. "WIPE" \in Axis
    BY DEF Axis
  <2> QED
    BY <1>1, <2>1, ServicedZero DEF Referenced
<1> QED
  BY <1>2, <1>3 DEF MotionService, CycleInv, SequenceOK, WaitsAtRest

LEMMA LoopCycleInv ==
  ASSUME TypeInv, CycleInv, LoopStep
  PROVE  CycleInv'
<1>0. cycle \in GoodCycle /\ cycle \in CycleRecord /\ axes \in GoodAxes
  BY DEF TypeInv, Machine, GoodCycle
<1>1. ASSUME PollDone PROVE CycleInv'
  BY <1>1 DEF PollDone, CycleInv
<1>2. ASSUME MotionService PROVE CycleInv'
  BY <1>2, MotionCycleInv
<1>3. ASSUME RecoatService PROVE CycleInv'
  BY <1>0, <1>3, CycleServicedOK DEF RecoatService, CycleInv
<1>4. ASSUME ServiceFaults PROVE CycleInv'
  <2>1. CASE NoLimitFault
    BY <2>1 DEF NoLimitFault, CycleInv
  <2>2. CASE LimitFaultAlone
    BY <2>2, NoCycleOK DEF LimitFaultAlone, CycleInv, SequenceOK
  <2>3. CASE LimitFaultInCycle
    BY <1>0, <2>3, AbortOK DEF LimitFaultInCycle, CycleInv, SequenceOK
  <2> QED
    BY <1>4, <2>1, <2>2, <2>3 DEF ServiceFaults
<1>5. ASSUME ServiceCompletions PROVE CycleInv'
  <2> DEFINE d == [cycle EXCEPT !.result = "NONE"]
  <2>1. cycle' = d /\ axes' = axes
    BY <1>5 DEF ServiceCompletions
  <2>2. /\ d.result = "NONE" /\ d.step = cycle.step
        /\ d.rehomed = cycle.rehomed /\ d.mode = cycle.mode
        /\ d.sinceRehome = cycle.sinceRehome
        /\ d.rehomeDue = cycle.rehomeDue
    BY <1>0 DEF CycleRecord
  <2> HIDE DEF d
  <2> QED
    BY <2>1, <2>2
    DEF CycleInv, SequenceOK, WaitsAtRest, DueKnown, RehomeToCome, Referenced,
        Active, Overflow
<1>6. ASSUME UpdateState PROVE CycleInv'
  BY <1>6 DEF UpdateState, CycleInv
<1> QED
  BY <1>1, <1>2, <1>3, <1>4, <1>5, <1>6 DEF LoopStep

LEMMA AlwaysCycleInv == Spec => [](TypeInv /\ CycleInv)
<1>1. Init => CycleInv
  <2>1. /\ CycleAtBoot.step = "IDLE" /\ CycleAtBoot.result = "NONE"
        /\ CycleAtBoot.sinceRehome = 0
    BY DEF CycleAtBoot
  <2>2. ~Active(CycleAtBoot) /\ CycleAtBoot.sinceRehome <= RehomeInterval
    BY <2>1, RecoatAssumption DEF Active, RecoatAssumption
  <2> QED
    BY <2>1, <2>2, NoCycleOK DEF Init, CycleInv
<1>2. (TypeInv /\ CycleInv) /\ [Next]_vars => (TypeInv /\ CycleInv)'
  <2> SUFFICES ASSUME TypeInv, CycleInv, [Next]_vars PROVE (TypeInv /\ CycleInv)'
    OBVIOUS
  <2>1. CASE UNCHANGED vars
    BY <2>1, NextTypeInv DEF vars, loopVars, CycleInv
  <2> QED
    BY <2>1, NextTypeInv, PacketCycleInv, LoopCycleInv DEF Next
<1> QED
  BY <1>1, <1>2, InitTypeInv, PTL DEF Spec

(* No step of a cycle is refused by its axis: RESULT_FAILED never comes    *)
(* from inside the sequencer (recoat.cpp enter(), fail()).                 *)
THEOREM StepsAreNeverRefused == Spec => []StepsNeverRefused
<1>1. CycleInv => StepsNeverRefused
  BY DEF CycleInv, SequenceOK, StepsNeverRefused
<1> QED
  BY <1>1, AlwaysCycleInv, PTL

(* No more than WIPE_REHOME_INTERVAL cycles complete on one home of the    *)
(* wiper (recoat.cpp nextStep(), cycles_since_rehome).                     *)
THEOREM RehomedAlwaysInTime == Spec => []RehomedInTime
<1>1. CycleInv => RehomedInTime
  BY DEF CycleInv, SequenceOK, RehomedInTime
<1> QED
  BY <1>1, AlwaysCycleInv, PTL

(* Every step of a cycle but its re-home runs on a homed wiper (recoat.cpp *)
(* start(), motion.cpp PH_HOME_PARK).                                      *)
THEOREM SweepsAlwaysReferenced == Spec => []SweepsReferenced
<1>1. CycleInv => SweepsReferenced
  BY DEF CycleInv, SequenceOK, Referenced, SweepsReferenced, Busy, Zeroing,
         Seeking
<1> QED
  BY <1>1, AlwaysCycleInv, PTL

-----------------------------------------------------------------------------
(* The answers owed.  First what a step does to the slots: it fills one    *)
(* with a new number, or it only empties some.                             *)

LEMMA OweEffect ==
  ASSUME TypeInv, NEW slot \in Slot, OweAnswer(slot)
  PROVE  /\ accepted \in Nat /\ accepted' = accepted + 1
         /\ accepted' \in Command
         /\ pend'[slot] = accepted'
         /\ \A s \in Slot \ {slot} : pend'[s] = pend[s]
<1>1. accepted \in 0 .. MaxCommands /\ accepted + 1 <= MaxCommands
  BY DEF OweAnswer, TypeInv, OtherTypes
<1>2. pend' = [pend EXCEPT ![slot] = accepted + 1] /\ accepted' = accepted + 1
  BY DEF OweAnswer
<1> QED
  BY <1>1, <1>2 DEF TypeInv, OtherTypes, Command

LEMMA SettleEffect ==
  ASSUME TypeInv, NEW S \in SUBSET Slot, NEW verdict, Settle(S, verdict)
  PROVE  /\ \A s \in S : pend'[s] = 0
         /\ \A s \in Slot \ S : pend'[s] = pend[s]
         /\ \A i \in Command :
              answer'[i] = IF \E s \in S : pend[s] = i THEN verdict
                           ELSE answer[i]
BY DEF Settle, TypeInv, OtherTypes

Settled == \A s \in Slot : pend'[s] = 0 \/ pend'[s] = pend[s]

LEMMA CompletionsEffect ==
  ASSUME TypeInv, ServiceCompletions
  PROVE  /\ \A s \in Slot : pend'[s] = 0 \/ pend'[s] = pend[s]
         /\ cycle'.step = cycle.step
         /\ axes' = axes
         /\ \A a \in Axis : pend'[a] = IF a \in Finished THEN 0 ELSE pend[a]
         /\ \A a \in Axis : wasBusy'[a] = Busy(axes[a])
         /\ cycle.result # "NONE" => pend'["RECOAT"] = 0
<1>1. cycle'.step = cycle.step /\ axes' = axes
  BY CycleFields DEF ServiceCompletions, TypeInv, Machine, GoodCycle
<1>2. cycle.result \in {"NONE", "OK", "FAILED"}
  BY CycleFields DEF TypeInv, Machine, GoodCycle, Result
<1> DEFINE done == Finished \union
                     (IF cycle.result = "OK" THEN {"RECOAT"} ELSE {})
<1>3. pend' = [s \in Slot |->
                 IF s \in done \/ (s = "RECOAT" /\ cycle.result = "FAILED")
                   THEN 0 ELSE pend[s]]
  BY DEF ServiceCompletions
<1>4. ASSUME NEW a \in Axis
      PROVE  a \in Slot /\ a # "RECOAT" /\ (a \in done <=> a \in Finished)
  BY DEF Slot, Axis
<1>5. \A a \in Axis : wasBusy'[a] = Busy(axes[a])
  BY DEF ServiceCompletions
<1>6. "RECOAT" \in Slot /\ (cycle.result = "OK" => "RECOAT" \in done)
  BY DEF Slot
<1> HIDE DEF done
<1> QED
  BY <1>1, <1>2, <1>3, <1>4, <1>5, <1>6

LEMMA FaultSlots ==
  ASSUME FaultedAxes # {}
  PROVE  {FirstFaulted} \in SUBSET Slot /\ {FirstFaulted, "RECOAT"} \in SUBSET Slot
BY FirstFaultedType DEF Slot

LEMMA SlotSteps ==
  ASSUME TypeInv, [Next]_vars
  PROVE  \/ \E slot \in Slot : OweAnswer(slot) /\ cut' = cut
         \/ Settled /\ accepted' = accepted
<1>1. ASSUME NEW a \in Axis, NEW approach \in Approach, AxisMove(a, approach)
      PROVE  OweAnswer(a) /\ cut' = cut /\ a \in Slot
  BY <1>1 DEF AxisMove, Slot
<1>2. ASSUME NEW a \in Axis, AxisHome(a)
      PROVE  OweAnswer(a) /\ cut' = cut /\ a \in Slot
  BY <1>2 DEF AxisHome, Slot
<1>3. ASSUME NEW a \in Axis, AxisStop(a)
      PROVE  Settled /\ accepted' = accepted
  <2>1. {"RECOAT"} \in SUBSET Slot
    BY DEF Slot
  <2> QED
    BY <1>3, <2>1, SettleEffect DEF AxisStop, Settled
<1>4. ASSUME NEW mode \in ParkMode, NEW passes \in 1 .. MaxPasses,
             NEW clearance \in BOOLEAN, RecoatCycle(mode, passes, clearance)
      PROVE  OweAnswer("RECOAT") /\ cut' = cut /\ "RECOAT" \in Slot
  BY <1>4 DEF RecoatCycle, Slot, marks
<1>5. CASE FaultClear
  BY <1>5 DEF FaultClear, Settled
<1>6. CASE Estop
  BY <1>6, SettleEffect DEF Estop, Settled
<1>7. CASE PollDone \/ MotionService \/ RecoatService \/ UpdateState
  BY <1>7 DEF PollDone, MotionService, RecoatService, UpdateState, Settled
<1>8. CASE ServiceFaults
  <2>1. Settled
    <3>1. CASE NoLimitFault
      BY <3>1 DEF NoLimitFault, Settled
    <3>2. CASE LimitFaultAlone
      BY <3>2, FaultSlots, SettleEffect DEF LimitFaultAlone, Settled
    <3>3. CASE LimitFaultInCycle
      BY <3>3, FaultSlots, SettleEffect DEF LimitFaultInCycle, Settled
    <3> QED
      BY <1>8, <3>1, <3>2, <3>3 DEF ServiceFaults
  <2> QED
    BY <1>8, <2>1 DEF ServiceFaults
<1>9. CASE ServiceCompletions
  BY <1>9, CompletionsEffect DEF ServiceCompletions, Settled
<1>10. CASE UNCHANGED vars
  BY <1>10 DEF vars, loopVars, Settled
<1> QED
  BY <1>1, <1>2, <1>3, <1>4, <1>5, <1>6, <1>7, <1>8, <1>9, <1>10
  DEF Next, Packet, LoopStep

LEMMA CutSteps ==
  ASSUME TypeInv, [Next]_vars
  PROVE  cut' = cut \/ MotionService
BY DEF Next, Packet, LoopStep, AxisMove, AxisHome, AxisStop, RecoatCycle,
       FaultClear, Estop, PollDone, RecoatService, ServiceFaults,
       ServiceCompletions, UpdateState, vars, loopVars, marks

(* Every number in a slot or among the cut commands was given, and no two  *)
(* slots hold the same.                                                    *)
Numbered ==
  /\ \A s \in Slot : pend[s] <= accepted
  /\ \A s, t \in Slot : pend[s] = pend[t] /\ pend[s] # 0 => s = t
  /\ \A i \in cut : i <= accepted

LEMMA NextNumbered ==
  ASSUME TypeInv, Numbered, [Next]_vars
  PROVE  Numbered'
<1>0. /\ accepted \in Nat
      /\ \A s \in Slot : pend[s] \in Nat
      /\ \A i \in cut : i \in Nat
  BY DEF TypeInv, OtherTypes, Command
<1>1. ASSUME NEW slot \in Slot, OweAnswer(slot), cut' = cut
      PROVE  Numbered'
  <2>1. /\ accepted' = accepted + 1
        /\ pend'[slot] = accepted'
        /\ \A s \in Slot \ {slot} : pend'[s] = pend[s]
    BY <1>1, OweEffect
  <2>2. \A s \in Slot : pend'[s] <= accepted'
    BY <1>0, <2>1 DEF Numbered
  <2>3. \A i \in cut' : i <= accepted'
    BY <1>0, <1>1, <2>1 DEF Numbered
  <2>4. \A s \in Slot \ {slot} : pend'[s] # accepted'
    BY <1>0, <2>1 DEF Numbered
  <2>5. \A s, t \in Slot : pend'[s] = pend'[t] /\ pend'[s] # 0 => s = t
    BY <2>1, <2>4 DEF Numbered
  <2> QED
    BY <2>2, <2>3, <2>5 DEF Numbered
<1>2. ASSUME Settled, accepted' = accepted
      PROVE  Numbered'
  <2>1. \A s \in Slot : pend'[s] <= accepted'
    BY <1>0, <1>2 DEF Numbered, Settled
  <2>2. \A s, t \in Slot : pend'[s] = pend'[t] /\ pend'[s] # 0 => s = t
    BY <1>2 DEF Numbered, Settled
  <2>3. ASSUME NEW i \in cut' PROVE i <= accepted
    <3>1. CASE i \in cut
      BY <3>1 DEF Numbered
    <3>2. CASE i \notin cut
      <4>1. MotionService
        BY <2>3, <3>2, CutSteps
      <4>2. PICK a \in Axis : i = Owner(a)
        BY <2>3, <3>2, <4>1 DEF MotionService
      <4>3. PICK s \in Slot : i = pend[s]
        BY <4>2 DEF Owner, Slot
      <4> QED
        BY <4>3 DEF Numbered
    <3> QED
      BY <3>1, <3>2
  <2> QED
    BY <1>2, <2>1, <2>2, <2>3 DEF Numbered
<1> QED
  BY <1>1, <1>2, SlotSteps

LEMMA AlwaysNumbered == Spec => [](TypeInv /\ Numbered)
<1>1. Init => Numbered
  BY DEF Init, Numbered
<1>2. (TypeInv /\ Numbered) /\ [Next]_vars => (TypeInv /\ Numbered)'
  BY NextTypeInv, NextNumbered
<1> QED
  BY <1>1, <1>2, InitTypeInv, PTL DEF Spec

(* No command is answered twice.  A step that changes an answer empties    *)
(* the slot it was owed from.                                              *)
AnswersGiven ==
  \A i \in Command :
    answer'[i] = answer[i] \/ \E s \in Slot : pend[s] = i /\ pend'[s] = 0

LEMMA SettleGives ==
  ASSUME TypeInv, NEW S \in SUBSET Slot, NEW verdict, Settle(S, verdict)
  PROVE  Settled /\ AnswersGiven
BY SettleEffect DEF Settled, AnswersGiven

LEMMA CompletionsGive ==
  ASSUME TypeInv, ServiceCompletions
  PROVE  Settled /\ AnswersGiven
<1> DEFINE done == Finished \union
                     (IF cycle.result = "OK" THEN {"RECOAT"} ELSE {})
           empty(s) == s \in done \/ (s = "RECOAT" /\ cycle.result = "FAILED")
<1>1. /\ pend' = [s \in Slot |-> IF empty(s) THEN 0 ELSE pend[s]]
      /\ answer' = [i \in Command |->
                      IF \E s \in done : pend[s] = i THEN "OK"
                      ELSE IF cycle.result = "FAILED" /\ pend["RECOAT"] = i
                        THEN "REFUSED" ELSE answer[i]]
  BY DEF ServiceCompletions
<1>2. done \subseteq Slot /\ "RECOAT" \in Slot
  BY DEF Finished, Slot
<1> HIDE DEF done
<1>3. \A s \in Slot : pend'[s] = IF empty(s) THEN 0 ELSE pend[s]
  BY <1>1
<1>4. ASSUME NEW i \in Command, answer'[i] # answer[i]
      PROVE  \E s \in Slot : pend[s] = i /\ pend'[s] = 0
  <2>1. PICK s \in Slot : pend[s] = i /\ empty(s)
    BY <1>1, <1>2, <1>4
  <2> QED
    BY <1>3, <2>1
<1> QED
  BY <1>3, <1>4 DEF Settled, AnswersGiven

LEMMA AnswerSteps ==
  ASSUME TypeInv, [Next]_vars
  PROVE  \/ \E slot \in Slot : OweAnswer(slot) /\ answer' = answer
         \/ Settled /\ AnswersGiven /\ accepted' = accepted
<1>1. ASSUME UNCHANGED <<pend, answer>>
      PROVE  Settled /\ AnswersGiven
  BY <1>1 DEF Settled, AnswersGiven
<1>2. ASSUME NEW a \in Axis, NEW approach \in Approach, AxisMove(a, approach)
      PROVE  OweAnswer(a) /\ answer' = answer /\ a \in Slot
  BY <1>2 DEF AxisMove, Slot
<1>3. ASSUME NEW a \in Axis, AxisHome(a)
      PROVE  OweAnswer(a) /\ answer' = answer /\ a \in Slot
  BY <1>3 DEF AxisHome, Slot
<1>4. ASSUME NEW a \in Axis, AxisStop(a)
      PROVE  Settled /\ AnswersGiven /\ accepted' = accepted
  <2>1. {"RECOAT"} \in SUBSET Slot
    BY DEF Slot
  <2> QED
    BY <1>4, <2>1, SettleGives DEF AxisStop
<1>5. ASSUME NEW mode \in ParkMode, NEW passes \in 1 .. MaxPasses,
             NEW clearance \in BOOLEAN, RecoatCycle(mode, passes, clearance)
      PROVE  OweAnswer("RECOAT") /\ answer' = answer /\ "RECOAT" \in Slot
  BY <1>5 DEF RecoatCycle, Slot
<1>6. CASE Estop
  BY <1>6, SettleGives DEF Estop
<1>7. CASE \/ FaultClear
           \/ PollDone
           \/ MotionService
           \/ RecoatService
           \/ UpdateState
           \/ UNCHANGED vars
  <2>1. UNCHANGED <<pend, answer, accepted>>
    BY <1>7 DEF FaultClear, PollDone, MotionService, RecoatService, UpdateState,
                vars, loopVars
  <2> QED
    BY <1>1, <2>1
<1>8. CASE ServiceFaults
  <2>1. CASE NoLimitFault
    BY <1>1, <1>8, <2>1 DEF NoLimitFault, ServiceFaults
  <2>2. CASE LimitFaultAlone
    BY <1>8, <2>2, FaultSlots, SettleGives DEF LimitFaultAlone, ServiceFaults
  <2>3. CASE LimitFaultInCycle
    BY <1>8, <2>3, FaultSlots, SettleGives DEF LimitFaultInCycle, ServiceFaults
  <2> QED
    BY <1>8, <2>1, <2>2, <2>3 DEF ServiceFaults
<1>9. CASE ServiceCompletions
  BY <1>9, CompletionsGive DEF ServiceCompletions
<1> QED
  BY <1>2, <1>3, <1>4, <1>5, <1>6, <1>7, <1>8, <1>9 DEF Next, Packet, LoopStep

(* A slot never holds a command that has its answer.                       *)
Unanswered ==
  /\ \A s \in Slot : pend[s] # 0 => answer[pend[s]] = "none"
  /\ \A i \in Command : i > accepted => answer[i] = "none"

LEMMA UnansweredStep ==
  ASSUME TypeInv, TypeInv', Numbered, Unanswered, [Next]_vars
  PROVE  /\ Unanswered'
         /\ \A i \in Command : answer[i] # "none" => answer'[i] = answer[i]
<1>0. /\ accepted \in Nat
      /\ \A s \in Slot : pend[s] \in 0 .. MaxCommands
      /\ \A s \in Slot : pend'[s] \in 0 .. MaxCommands
      /\ Command = 1 .. MaxCommands
  BY DEF TypeInv, OtherTypes, Command
<1>1. ASSUME NEW slot \in Slot, OweAnswer(slot), answer' = answer
      PROVE  Unanswered'
  <2>1. /\ accepted' = accepted + 1 /\ accepted' \in Command
        /\ pend'[slot] = accepted'
        /\ \A s \in Slot \ {slot} : pend'[s] = pend[s]
    BY <1>1, OweEffect
  <2>2. answer'[accepted'] = "none"
    BY <1>0, <1>1, <2>1 DEF Unanswered
  <2>3. \A s \in Slot : pend'[s] # 0 => answer'[pend'[s]] = "none"
    BY <1>1, <2>1, <2>2 DEF Unanswered
  <2>4. \A i \in Command : i > accepted' => answer'[i] = "none"
    BY <1>0, <1>1, <2>1 DEF Unanswered
  <2> QED
    BY <2>3, <2>4 DEF Unanswered
<1>2. ASSUME Settled, AnswersGiven, accepted' = accepted
      PROVE  Unanswered'
  <2>1. ASSUME NEW s \in Slot, pend'[s] # 0
        PROVE  answer'[pend'[s]] = "none"
    <3>1. pend'[s] = pend[s] /\ pend[s] \in Command
      BY <1>0, <1>2, <2>1 DEF Settled
    <3>2. answer[pend[s]] = "none"
      BY <2>1, <3>1 DEF Unanswered
    <3>3. \A t \in Slot : pend[t] = pend[s] => t = s
      BY <2>1, <3>1 DEF Numbered
    <3>4. ~ \E t \in Slot : pend[t] = pend[s] /\ pend'[t] = 0
      BY <2>1, <3>3
    <3>5. answer'[pend[s]] = answer[pend[s]]
      BY <1>2, <3>1, <3>4 DEF AnswersGiven
    <3> QED
      BY <3>1, <3>2, <3>5
  <2>2. ASSUME NEW i \in Command, i > accepted'
        PROVE  answer'[i] = "none"
    <3>1. \A s \in Slot : pend[s] # i
      BY <1>0, <1>2, <2>2 DEF Numbered
    <3>2. answer'[i] = answer[i]
      BY <1>2, <3>1 DEF AnswersGiven
    <3> QED
      BY <1>2, <2>2, <3>2 DEF Unanswered
  <2> QED
    BY <2>1, <2>2 DEF Unanswered
<1>3. ASSUME NEW i \in Command, answer[i] # "none", AnswersGiven
      PROVE  answer'[i] = answer[i]
  <2>1. \A s \in Slot : pend[s] # i
    BY <1>0, <1>3 DEF Unanswered
  <2> QED
    BY <1>3, <2>1 DEF AnswersGiven
<1> QED
  BY <1>1, <1>2, <1>3, AnswerSteps

(* An answer given is final: no fault, completion, stop or emergency stop  *)
(* sends a second one for the same command (main.cpp settleAck()), without *)
(* any assumption on the switches.                                         *)
AnswersFinal ==
  [][\A i \in Command : answer[i] # "none" => answer'[i] = answer[i]]_vars

THEOREM AnswersAreFinal == Spec => AnswersFinal
<1>1. Init => Unanswered
  BY DEF Init, Unanswered
<1>2. (TypeInv /\ Numbered) /\ (TypeInv /\ Numbered)' /\ Unanswered /\ [Next]_vars
        => /\ Unanswered'
           /\ [\A i \in Command : answer[i] # "none" => answer'[i] = answer[i]]_vars
  BY UnansweredStep
<1> QED
  BY <1>1, <1>2, AlwaysNumbered, PTL DEF Spec, AnswersFinal

-----------------------------------------------------------------------------
(* A cycle cut short.  Between the trip and serviceFaults() the cycle may  *)
(* go on, but the fault that will end it is there.                         *)

CutCycle ==
  Active(cycle) /\ pend["RECOAT"] \in cut =>
    pc \in {"recoat", "faults"} /\ FaultedAxes # {}

LEMMA PacketCutCycle ==
  ASSUME TypeInv, Numbered, CutCycle, Packet
  PROVE  CutCycle'
<1>0. cycle \in GoodCycle /\ axes \in GoodAxes /\ "RECOAT" \in Slot
  BY DEF TypeInv, Machine, Slot
<1>1. ASSUME cycle' = cycle, ~Active(cycle) PROVE CutCycle'
  BY <1>1 DEF CutCycle
<1>2. ASSUME ~Active(cycle') PROVE CutCycle'
  BY <1>2 DEF CutCycle
<1>3. ASSUME NEW a \in Axis, AxisStop(a) PROVE CutCycle'
  BY <1>0, <1>2, <1>3, AbortEffect DEF AxisStop
<1>4. ASSUME NEW mode \in ParkMode, NEW passes \in 1 .. MaxPasses,
             NEW clearance \in BOOLEAN, RecoatCycle(mode, passes, clearance)
      PROVE  CutCycle'
  <2>1. pend'["RECOAT"] = accepted + 1 /\ accepted \in Nat
    BY <1>0, <1>4, OweEffect DEF RecoatCycle
  <2>2. cut' = cut /\ \A i \in cut : i \in Nat /\ i <= accepted
    BY <1>4 DEF RecoatCycle, Numbered, TypeInv, OtherTypes, Command, marks
  <2> QED
    BY <2>1, <2>2 DEF CutCycle
<1>5. ASSUME FaultClear PROVE CutCycle'
  BY <1>5 DEF FaultClear, CutCycle, FaultedAxes, marks
<1>6. ASSUME Estop PROVE CutCycle'
  <2>1. [a \in Axis |-> Frozen(axes[a])] \in GoodAxes
    BY <1>0, FrozenAxesGood
  <2> QED
    BY <1>0, <1>2, <1>6, <2>1, AbortEffect DEF Estop
<1> QED
  BY <1>1, <1>3, <1>4, <1>5, <1>6 DEF Packet, AxisMove, AxisHome

(* A trip is a fault raised, and every fault that a pass raises is a trip. *)
LEMMA TrippedFault ==
  ASSUME TypeInv, MotionService, NEW a \in Axis
  PROVE  /\ Tripped(a) => axes'[a].limitFault
         /\ axes[a].limitFault => axes'[a].limitFault
         /\ axes'[a].limitFault => axes[a].limitFault \/ Tripped(a)
<1>1. axes[a] \in GoodAxis /\ axes'[a] \in Serviced(a, axes[a])
  BY EachAxisMember DEF MotionService, TypeInv, Machine, GoodAxes
<1>2. Tripped(a) => Busy(axes[a]) /\ axes[a].togo # 0 /\ ~Busy(axes'[a])
  BY DEF Tripped, Busy
<1> QED
  BY <1>1, <1>2, ServicedEffect, ServicedFault DEF Tripped

LEMMA LoopCutCycle ==
  ASSUME TypeInv, CutCycle, LoopStep
  PROVE  CutCycle'
<1>0. cycle \in GoodCycle /\ axes \in GoodAxes /\ "RECOAT" \in Slot /\ 0 \notin cut
  BY DEF TypeInv, Machine, OtherTypes, Slot, Command
<1>1. ASSUME PollDone PROVE CutCycle'
  BY <1>1 DEF PollDone, CutCycle, marks
<1>2. ASSUME MotionService PROVE CutCycle'
  <2> SUFFICES ASSUME Active(cycle'), pend'["RECOAT"] \in cut'
               PROVE  pc' = "recoat" /\ FaultedAxes' # {}
    BY DEF CutCycle
  <2>1. pend["RECOAT"] \in cut' /\ pend["RECOAT"] \notin cut
    BY <1>2 DEF MotionService, CutCycle
  <2>2. PICK a \in Axis : Tripped(a)
    BY <1>2, <2>1 DEF MotionService
  <2>3. a \in FaultedAxes'
    BY <1>2, <2>2, TrippedFault DEF FaultedAxes
  <2> QED
    BY <1>2, <2>3 DEF MotionService
<1>3. ASSUME RecoatService PROVE CutCycle'
  <2>1. /\ Active(cycle') => Active(cycle)
        /\ \A a \in Axis : axes'[a].limitFault = axes[a].limitFault
    BY <1>0, <1>3, CycleServicedEffect DEF RecoatService, SameFault
  <2> QED
    BY <1>3, <2>1 DEF RecoatService, CutCycle, FaultedAxes, marks
<1>4. ASSUME ServiceFaults PROVE CutCycle'
  <2>1. CASE NoLimitFault
    BY <1>4, <2>1 DEF NoLimitFault, CutCycle, ServiceFaults
  <2>2. CASE LimitFaultAlone
    BY <2>2 DEF LimitFaultAlone, CutCycle
  <2>3. CASE LimitFaultInCycle
    BY <1>0, <2>3, AbortEffect DEF LimitFaultInCycle, CutCycle
  <2> QED
    BY <1>4, <2>1, <2>2, <2>3 DEF ServiceFaults
<1>5. ASSUME ServiceCompletions PROVE CutCycle'
  <2>1. /\ cycle'.step = cycle.step
        /\ pend'["RECOAT"] = 0 \/ pend'["RECOAT"] = pend["RECOAT"]
        /\ cut' = cut /\ pc = "completions"
    BY <1>0, <1>5, CompletionsEffect DEF ServiceCompletions, marks
  <2> QED
    BY <1>0, <2>1 DEF CutCycle, Active
<1>6. ASSUME UpdateState PROVE CutCycle'
  BY <1>6 DEF UpdateState, CutCycle, marks
<1> QED
  BY <1>1, <1>2, <1>3, <1>4, <1>5, <1>6 DEF LoopStep

(* A cycle one of whose axes met a switch is over before anything is       *)
(* stepped again, even when two switches close at once (main.cpp           *)
(* serviceFaults() behind recoat::service()).                              *)
THEOREM CutCycleAlwaysStops == Spec => []CutCycleStops
<1>1. Init => CutCycle
  BY DEF Init, CutCycle
<1>2. TypeInv /\ Numbered /\ CutCycle /\ [Next]_vars => CutCycle'
  <2> SUFFICES ASSUME TypeInv, Numbered, CutCycle, [Next]_vars
               PROVE  CutCycle'
    OBVIOUS
  <2>1. CASE UNCHANGED vars
    BY <2>1 DEF vars, loopVars, marks, CutCycle, FaultedAxes
  <2> QED
    BY <2>1, PacketCutCycle, LoopCutCycle DEF Next
<1>3. CutCycle => CutCycleStops
  BY DEF CutCycle, CutCycleStops
<1> QED
  BY <1>1, <1>2, <1>3, AlwaysNumbered, PTL DEF Spec

-----------------------------------------------------------------------------
(* The answers of moves and homes.  Completion is an edge: an axis seen    *)
(* busy, then idle.  A command owed an answer has an axis whose edge is    *)
(* still to come, or a fault that will settle it, unless its edge is one   *)
(* that serviceCompletions() may miss.                                     *)

Watched(a) ==
  /\ pc \in {"poll", "motion"} =>
       Busy(axes[a]) /\ (wasBusy[a] \/ axes[a].togo # 0)
  /\ pc \in {"recoat", "faults"} =>
       wasBusy[a] \/ Busy(axes[a]) \/ axes[a].limitFault
  /\ pc = "completions" => wasBusy[a] \/ Busy(axes[a])
  /\ pc = "state" => wasBusy[a] /\ Busy(axes[a])

OwedWatched == \A a \in Axis : pend[a] \notin {0} \union Unseen => Watched(a)

(* A command cut short and not eclipsed is about to be refused for it. *)
CutKnown ==
  \A a \in Axis :
    pend[a] \in cut \ eclipsed =>
      pc \in {"recoat", "faults"} /\ axes[a].limitFault

(* What a fault on an axis will refuse has met a switch, was accepted      *)
(* while the fault was already there, or was over at once.                 *)
Refusable == cut \union late \union instant

FaultKnown ==
  /\ \A a \in Axis : axes[a].limitFault => pend[a] \in {0} \union Refusable
  /\ eclipsed \subseteq Refusable

CycleOwed ==
  pend["RECOAT"] # 0 =>
    \/ Active(cycle)
    \/ pc \in {"faults", "completions"} /\ cycle.result # "NONE"

AnswersInv ==
  OwedWatched /\ CutKnown /\ FaultKnown /\ CycleOwed /\ CycleHasAxes

LEMMA AcknowledgedFaults ==
  ASSUME TypeInv, FaultedAxes # {}, NEW a \in Axis
  PROVE  /\ a = FirstFaulted => ~Acknowledged[a].limitFault
         /\ a # FirstFaulted => Acknowledged[a] = axes[a]
         /\ Busy(Acknowledged[a]) <=> Busy(axes[a])
<1>1. FirstFaulted \in Axis /\ axes \in GoodAxes
  BY FirstFaultedType DEF TypeInv, Machine
<1>2. axes[FirstFaulted] \in AxisRecord
  BY <1>1 DEF GoodAxes, GoodAxis
<1>3. ~[axes[FirstFaulted] EXCEPT !.limitFault = FALSE].limitFault
  BY <1>2 DEF AxisRecord
<1>4. Acknowledged = [axes EXCEPT ![FirstFaulted] =
                        [axes[FirstFaulted] EXCEPT !.limitFault = FALSE]]
  BY <1>1 DEF Acknowledged, GoodAxes
<1>5. Busy(Acknowledged[a]) <=> Busy(axes[a])
  BY AcknowledgedPhases DEF Busy
<1> QED
  BY <1>1, <1>3, <1>4, <1>5 DEF GoodAxes

(* A call that ends no work and meets no switch. *)
KeepsWork(x, y) ==
  /\ Busy(x) => Busy(y)
  /\ Busy(x) /\ x.togo # 0 => y.togo # 0
  /\ SameFault(x, y)

(* The marks only grow: what was excused stays excused. *)
MarksGrow ==
  /\ cut \subseteq cut' /\ instant \subseteq instant'
  /\ eclipsed \subseteq eclipsed' /\ late \subseteq late'

LEMMA PacketMarks ==
  ASSUME Packet
  PROVE  MarksGrow /\ cut' = cut /\ eclipsed' = eclipsed
BY DEF Packet, AxisMove, AxisHome, AxisStop, RecoatCycle, FaultClear, Estop,
       Marked, marks, MarksGrow

LEMMA PacketKeepsAnswers ==
  ASSUME TypeInv, Numbered, AnswersInv, Packet
  PROVE  AnswersInv'
<1>0. /\ pc = "poll" /\ pc' = "poll"
      /\ cut' = cut /\ eclipsed' = eclipsed
      /\ instant \subseteq instant' /\ late \subseteq late'
  <2>1. pc = "poll" /\ pc' = "poll"
    BY DEF Packet, AxisMove, AxisHome, AxisStop, RecoatCycle, FaultClear,
           Estop, Listening
  <2> QED
    BY <2>1, PacketMarks DEF MarksGrow
<1>1. /\ axes \in GoodAxes /\ cycle \in GoodCycle
      /\ "RECOAT" \in Slot /\ "RECOAT" \notin Axis
      /\ \A a \in Axis : axes[a] \in GoodAxis /\ a \in Slot
  BY DEF TypeInv, Machine, GoodAxes, Slot, Axis
<1>2. /\ \A a \in Axis : pend[a] \notin {0} \union Unseen =>
           Busy(axes[a]) /\ (wasBusy[a] \/ axes[a].togo # 0)
      /\ \A a \in Axis : pend[a] \notin cut \ eclipsed
      /\ \A a \in Axis :
           axes[a].limitFault => pend[a] \in {0} \union Refusable
      /\ pend["RECOAT"] # 0 => Active(cycle)
      /\ Active(cycle) => \A a \in Axis : pend[a] \in {0} \union Unseen
  BY <1>0
  DEF AnswersInv, OwedWatched, Watched, CutKnown, FaultKnown, CycleOwed,
      CycleHasAxes
<1>3. \A i \in cut : i \in Nat /\ i <= accepted
  BY DEF Numbered, TypeInv, OtherTypes, Command
<1>3a. eclipsed' \subseteq Refusable' /\ Refusable \subseteq Refusable'
  BY <1>0 DEF AnswersInv, FaultKnown, Refusable
<1>3b. Unseen \subseteq Unseen'
  BY <1>0 DEF Unseen
(* What is left to show of each packet. *)
<1>4. ASSUME \A a \in Axis : axes'[a].limitFault =>
               pend'[a] \in {0} \union Refusable',
             \A a \in Axis : pend'[a] \notin {0} \union Unseen' =>
               Busy(axes'[a]) /\ (wasBusy'[a] \/ axes'[a].togo # 0),
             \A a \in Axis : pend'[a] \notin cut \ eclipsed,
             pend'["RECOAT"] # 0 => Active(cycle'),
             Active(cycle') => \A a \in Axis : pend'[a] \in {0} \union Unseen'
      PROVE  AnswersInv'
  <2>1. FaultKnown'
    BY <1>3a, <1>4 DEF FaultKnown
  <2>2. OwedWatched'
    BY <1>0, <1>4 DEF OwedWatched, Watched
  <2>3. CutKnown'
    BY <1>0, <1>4 DEF CutKnown
  <2>4. CycleOwed' /\ CycleHasAxes'
    BY <1>4 DEF CycleOwed, CycleHasAxes
  <2> QED
    BY <2>1, <2>2, <2>3, <2>4 DEF AnswersInv
(* A packet that keeps the slots of the axes, or empties them. *)
<1>4a. ASSUME \A a \in Axis : KeepsWork(axes[a], axes'[a]),
              \A a \in Axis : pend'[a] = 0 \/ pend'[a] = pend[a],
              wasBusy' = wasBusy,
              pend'["RECOAT"] # 0 => Active(cycle'),
              Active(cycle') => Active(cycle)
       PROVE  AnswersInv'
  <2>1. \A a \in Axis : axes'[a].limitFault =>
          pend'[a] \in {0} \union Refusable'
    BY <1>2, <1>3a, <1>4a DEF KeepsWork, SameFault
  <2>2. \A a \in Axis : pend'[a] \notin {0} \union Unseen' =>
          Busy(axes'[a]) /\ (wasBusy'[a] \/ axes'[a].togo # 0)
    BY <1>2, <1>3b, <1>4a DEF KeepsWork
  <2>3. \A a \in Axis : pend'[a] \notin cut \ eclipsed
    <3>1. 0 \notin cut
      BY DEF TypeInv, OtherTypes, Command
    <3> QED
      BY <1>2, <1>4a, <3>1
  <2>4. Active(cycle') => \A a \in Axis : pend'[a] \in {0} \union Unseen'
    BY <1>2, <1>3b, <1>4a
  <2> QED
    BY <1>4, <1>4a, <2>1, <2>2, <2>3, <2>4
(* A command accepted for one axis. *)
<1>5. ASSUME NEW a \in Axis, NEW x \in GoodAxis,
             ~Active(cycle), cycle' = cycle, wasBusy' = wasBusy,
             axes' = [axes EXCEPT ![a] = x], OweAnswer(a), Marked(a),
             Busy(x), SameFault(axes[a], x)
      PROVE  AnswersInv'
  <2>1. /\ axes'[a] = x
        /\ \A b \in Axis \ {a} : axes'[b] = axes[b]
    BY <1>1, <1>5 DEF GoodAxes
  <2>2. /\ accepted \in Nat
        /\ pend'[a] = accepted + 1
        /\ \A s \in Slot \ {a} : pend'[s] = pend[s]
    BY <1>1, <1>5, OweEffect
  <2>3. pend'[a] \notin cut
    BY <1>3, <2>2
  <2>4. /\ x.togo = 0 => pend'[a] \in instant'
        /\ axes[a].limitFault => pend'[a] \in late'
    BY <1>5, <2>1, <2>2 DEF Marked
  <2>5. ASSUME NEW b \in Axis
        PROVE  /\ pend'[b] \notin {0} \union Unseen' =>
                    Busy(axes'[b]) /\ (wasBusy'[b] \/ axes'[b].togo # 0)
               /\ axes'[b].limitFault => pend'[b] \in {0} \union Refusable'
               /\ pend'[b] \notin cut \ eclipsed
    <3>1. CASE b = a
      BY <1>5, <2>1, <2>3, <2>4, <3>1 DEF Unseen, Refusable, SameFault
    <3>2. CASE b # a
      <4>1. pend'[b] = pend[b] /\ axes'[b] = axes[b] /\ wasBusy'[b] = wasBusy[b]
        BY <1>1, <1>5, <2>1, <2>2, <3>2
      <4> QED
        BY <1>2, <1>3a, <1>3b, <4>1
    <3> QED
      BY <3>1, <3>2
  <2>6. pend'["RECOAT"] = 0
    BY <1>1, <1>2, <1>5, <2>2
  <2> QED
    BY <1>4, <1>5, <2>5, <2>6
<1>6. ASSUME NEW a \in Axis, NEW approach \in Approach, AxisMove(a, approach)
      PROVE  AnswersInv'
  <2>1. PICK x \in Moved(axes[a], approach) : axes' = [axes EXCEPT ![a] = x]
    BY <1>6 DEF AxisMove
  <2>2. x \in GoodAxis
    BY <1>1, MovedGood
  <2>3. Busy(x) /\ SameFault(axes[a], x)
    BY <1>1, MovedEffect
  <2> QED
    BY <1>5, <1>6, <2>1, <2>2, <2>3 DEF AxisMove
<1>7. ASSUME NEW a \in Axis, AxisHome(a)
      PROVE  AnswersInv'
  <2> DEFINE x == HomeStarted(axes[a])
  <2>1. axes' = [axes EXCEPT ![a] = x]
    BY <1>1, <1>7 DEF AxisHome, GoodAxes
  <2>2. x \in GoodAxis /\ Busy(x) /\ SameFault(axes[a], x)
    BY <1>1, HomeStartedGood, HomeStartedEffect
  <2> HIDE DEF x
  <2> QED
    BY <1>5, <1>7, <2>1, <2>2 DEF AxisHome
<1>8. ASSUME NEW b \in Axis, AxisStop(b)
      PROVE  AnswersInv'
  <2>1. PICK o \in Abort(cycle, axes) :
          /\ cycle' = o.c
          /\ \E x \in Stopped(o.ax[b]) : axes' = [o.ax EXCEPT ![b] = x]
    BY <1>8 DEF AxisStop
  <2>2. PICK x \in Stopped(o.ax[b]) : axes' = [o.ax EXCEPT ![b] = x]
    BY <2>1
  <2>3. o.ax \in GoodAxes /\ ~Active(cycle')
    BY <1>1, <2>1, AbortStep, AbortEffect
  <2>4. \A a \in Axis : KeepsWork(axes[a], o.ax[a])
    BY <1>1, <2>1, AbortAxes DEF KeepsWork
  <2>5. KeepsWork(o.ax[b], x)
    BY <2>3, StoppedEffect DEF KeepsWork, GoodAxes
  <2>6. ASSUME NEW a \in Axis PROVE KeepsWork(axes[a], axes'[a])
    <3>1. axes'[a] = IF a = b THEN x ELSE o.ax[a]
      BY <2>2, <2>3 DEF GoodAxes
    <3> QED
      BY <2>4, <2>5, <3>1 DEF KeepsWork, SameFault
  <2>7. /\ pend'["RECOAT"] = 0
        /\ \A a \in Axis : pend'[a] = pend[a]
    <3>1. {"RECOAT"} \in SUBSET Slot /\ \A a \in Axis : a \in Slot \ {"RECOAT"}
      BY <1>1
    <3> QED
      BY <1>8, <3>1, SettleEffect DEF AxisStop
  <2>8. wasBusy' = wasBusy
    BY <1>8 DEF AxisStop
  <2> QED
    BY <1>4a, <2>3, <2>6, <2>7, <2>8
<1>9. ASSUME NEW mode \in ParkMode, NEW passes \in 1 .. MaxPasses,
             NEW clearance \in BOOLEAN, RecoatCycle(mode, passes, clearance)
      PROVE  AnswersInv'
  <2>1. Active(cycle') /\ \A a \in Axis : SameFault(axes[a], axes'[a])
    BY <1>1, <1>9, StartedEffect DEF RecoatCycle
  <2>2. \A a \in Axis : pend[a] \in {0} \union Unseen
    BY <1>2, <1>9 DEF RecoatCycle, Startable, AnyBusy
  <2>3. \A a \in Axis : pend'[a] = pend[a]
    BY <1>1, <1>9, OweEffect DEF RecoatCycle
  <2>4. \A a \in Axis : pend'[a] \in {0} \union Unseen'
    BY <1>3b, <2>2, <2>3
  <2>5. \A a \in Axis : axes'[a].limitFault =>
          pend'[a] \in {0} \union Refusable'
    BY <1>2, <1>3a, <2>1, <2>3 DEF SameFault
  <2> QED
    BY <1>2, <1>4, <2>1, <2>3, <2>4, <2>5
<1>10. ASSUME FaultClear PROVE AnswersInv'
  <2>1. UNCHANGED <<axes, cycle, pend, wasBusy>>
    BY <1>10 DEF FaultClear
  <2> QED
    BY <1>2, <1>4a, <2>1 DEF KeepsWork, SameFault
<1>11. ASSUME Estop PROVE AnswersInv'
  <2>1. [a \in Axis |-> Frozen(axes[a])] \in GoodAxes
    BY <1>1, FrozenAxesGood
  <2>2. ~Active(cycle')
    BY <1>1, <1>11, <2>1, AbortEffect DEF Estop
  <2>3. \A s \in Slot : pend'[s] = 0
    BY <1>11, SettleEffect DEF Estop
  <2>4. 0 \notin cut
    BY DEF TypeInv, OtherTypes, Command
  <2> QED
    BY <1>1, <1>4, <2>2, <2>3, <2>4
<1> QED
  BY <1>6, <1>7, <1>8, <1>9, <1>10, <1>11 DEF Packet

LEMMA MotionKeepsAnswers ==
  ASSUME TypeInv, Numbered, AnswersInv, MotionService
  PROVE  AnswersInv'
<1>0. /\ pc = "motion" /\ pc' = "recoat"
      /\ UNCHANGED <<cycle, pend, wasBusy, instant, eclipsed, late>>
      /\ cut' = cut \union ({Owner(b) : b \in {c \in Axis : Tripped(c)}} \ {0})
      /\ "RECOAT" \in Slot /\ "RECOAT" \notin Axis
      /\ \A a \in Axis : a \in Slot
  BY DEF MotionService, Slot, Axis
<1>1. /\ \A a \in Axis : pend[a] \notin {0} \union Unseen =>
           Busy(axes[a]) /\ (wasBusy[a] \/ axes[a].togo # 0)
      /\ \A a \in Axis : pend[a] \notin cut \ eclipsed
      /\ \A a \in Axis :
           axes[a].limitFault => pend[a] \in {0} \union Refusable
      /\ eclipsed \subseteq Refusable
      /\ pend["RECOAT"] # 0 => Active(cycle)
      /\ Active(cycle) => \A a \in Axis : pend[a] \in {0} \union Unseen
  BY <1>0
  DEF AnswersInv, OwedWatched, Watched, CutKnown, FaultKnown, CycleOwed,
      CycleHasAxes
<1>2. Unseen' = Unseen /\ Refusable \subseteq Refusable'
  BY <1>0 DEF Unseen, Refusable
<1>3. OwedWatched'
  <2> SUFFICES ASSUME NEW a \in Axis, pend[a] \notin {0} \union Unseen
               PROVE  Watched(a)'
    BY <1>0, <1>2 DEF OwedWatched
  <2>1. Busy(axes[a]) /\ (wasBusy[a] \/ axes[a].togo # 0)
    BY <1>1
  <2>2. axes[a] \in GoodAxis /\ axes'[a] \in Serviced(a, axes[a])
    BY EachAxisMember DEF MotionService, TypeInv, Machine, GoodAxes
  <2>3. wasBusy[a] \/ Busy(axes'[a]) \/ axes'[a].limitFault
    BY <2>1, <2>2, ServicedEffect
  <2> QED
    BY <1>0, <2>3 DEF Watched
<1>4. CutKnown'
  <2> SUFFICES ASSUME NEW a \in Axis, pend[a] \in cut', pend[a] \notin eclipsed
               PROVE  axes'[a].limitFault
    BY <1>0 DEF CutKnown
  <2>1. pend[a] \notin cut
    BY <1>1
  <2>2. PICK b \in Axis : Tripped(b) /\ pend[a] = Owner(b) /\ pend[a] # 0
    BY <1>0, <2>1
  <2>3. b = a
    <3>1. PICK s \in Slot : Owner(b) = pend[s] /\ s \in {"RECOAT", b}
      BY <1>0 DEF Owner
    <3>2. s = a
      BY <1>0, <2>2, <3>1 DEF Numbered
    <3> QED
      BY <1>0, <3>1, <3>2
  <2> QED
    BY <2>2, <2>3, TrippedFault
<1>5. FaultKnown'
  <2>1. ASSUME NEW a \in Axis, axes'[a].limitFault
        PROVE  pend[a] \in {0} \union Refusable'
    <3>1. CASE axes[a].limitFault
      BY <1>1, <1>2, <3>1
    <3>2. CASE Active(cycle)
      BY <1>1, <1>2, <3>2 DEF Unseen, Refusable
    <3>3. CASE ~axes[a].limitFault /\ ~Active(cycle)
      <4>1. Tripped(a)
        BY <2>1, <3>3, TrippedFault
      <4>2. Owner(a) = pend[a]
        BY <3>3 DEF Owner
      <4> QED
        BY <1>0, <4>1, <4>2 DEF Refusable
    <3> QED
      BY <3>1, <3>2, <3>3
  <2> QED
    BY <1>0, <1>1, <1>2, <2>1 DEF FaultKnown
<1>6. CycleOwed' /\ CycleHasAxes'
  BY <1>0, <1>1, <1>2 DEF CycleOwed, CycleHasAxes
<1> QED
  BY <1>3, <1>4, <1>5, <1>6 DEF AnswersInv

LEMMA RecoatKeepsAnswers ==
  ASSUME TypeInv, AnswersInv, RecoatService
  PROVE  AnswersInv'
<1>0. /\ pc = "recoat" /\ pc' = "faults"
      /\ UNCHANGED <<pend, wasBusy, cut, instant, eclipsed, late>>
      /\ cycle \in GoodCycle /\ axes \in GoodAxes
  BY DEF RecoatService, TypeInv, Machine, marks
<1>1. /\ ~Active(cycle) => cycle' = cycle /\ axes' = axes
      /\ Active(cycle) => Active(cycle') \/ cycle'.result # "NONE"
      /\ \A a \in Axis : axes'[a].limitFault = axes[a].limitFault
  BY <1>0, CycleServicedEffect DEF RecoatService, SameFault
<1>2. Unseen' = Unseen /\ Refusable' = Refusable
  BY <1>0 DEF Unseen, Refusable
<1>3. CutKnown' /\ FaultKnown'
  BY <1>0, <1>1, <1>2 DEF AnswersInv, CutKnown, FaultKnown
<1>4. CASE Active(cycle)
  <2>1. \A a \in Axis : pend[a] \in {0} \union Unseen
    BY <1>4 DEF AnswersInv, CycleHasAxes
  <2>2. OwedWatched' /\ CycleHasAxes'
    BY <1>0, <1>2, <2>1 DEF OwedWatched, CycleHasAxes
  <2>3. CycleOwed'
    BY <1>0, <1>1, <1>4 DEF CycleOwed
  <2> QED
    BY <1>3, <2>2, <2>3 DEF AnswersInv
<1>5. CASE ~Active(cycle)
  <2>1. pend["RECOAT"] = 0
    BY <1>0, <1>5 DEF AnswersInv, CycleOwed
  <2>2. cycle' = cycle /\ axes' = axes
    BY <1>1, <1>5
  <2>3. OwedWatched'
    BY <1>0, <1>2, <2>2 DEF AnswersInv, OwedWatched, Watched
  <2>4. CycleOwed' /\ CycleHasAxes'
    BY <1>0, <1>5, <2>1, <2>2 DEF CycleOwed, CycleHasAxes
  <2> QED
    BY <1>3, <2>3, <2>4 DEF AnswersInv
<1> QED
  BY <1>4, <1>5

LEMMA FaultsKeepAnswers ==
  ASSUME TypeInv, AnswersInv, ServiceFaults
  PROVE  AnswersInv'
<1>0. /\ pc = "faults" /\ pc' = "completions"
      /\ UNCHANGED <<wasBusy, cut, instant, late>>
      /\ eclipsed' = eclipsed \union Waiting
      /\ cycle \in GoodCycle /\ axes \in GoodAxes
      /\ "RECOAT" \in Slot /\ "RECOAT" \notin Axis
      /\ \A a \in Axis : a \in Slot
  BY DEF ServiceFaults, TypeInv, Machine, Slot, Axis
<1>1. /\ \A a \in Axis : pend[a] \notin {0} \union Unseen =>
           wasBusy[a] \/ Busy(axes[a]) \/ axes[a].limitFault
      /\ \A a \in Axis : pend[a] \in cut \ eclipsed => axes[a].limitFault
      /\ \A a \in Axis :
           axes[a].limitFault => pend[a] \in {0} \union Refusable
      /\ eclipsed \subseteq Refusable
      /\ pend["RECOAT"] # 0 => Active(cycle) \/ cycle.result # "NONE"
      /\ Active(cycle) => \A a \in Axis : pend[a] \in {0} \union Unseen
  BY <1>0
  DEF AnswersInv, OwedWatched, Watched, CutKnown, FaultKnown, CycleOwed,
      CycleHasAxes
<1>2. Refusable' = Refusable /\ Unseen \subseteq Unseen' /\ 0 \notin cut
  BY <1>0 DEF Refusable, Unseen, TypeInv, OtherTypes, Command
<1>3. eclipsed' \subseteq Refusable
  BY <1>0, <1>1 DEF Waiting, FaultedAxes
(* An axis whose slot is still taken has no fault left, or one that waits. *)
<1>4. ASSUME NEW a \in Axis, pend[a] # 0, axes[a].limitFault, a # FirstFaulted
      PROVE  pend[a] \in eclipsed'
  BY <1>0, <1>4 DEF Waiting, FaultedAxes
<1>5. ASSUME \A a \in Axis : pend'[a] = 0 \/ pend'[a] = pend[a],
             \A a \in Axis : axes[a].limitFault /\ a = FirstFaulted =>
               pend'[a] = 0,
             \A a \in Axis : axes'[a].limitFault => axes[a].limitFault,
             \A a \in Axis : pend'[a] \notin {0} \union Unseen /\ Busy(axes[a])
               => Busy(axes'[a]),
             pend'["RECOAT"] # 0 => Active(cycle') \/ cycle'.result # "NONE",
             Active(cycle') => Active(cycle)
      PROVE  AnswersInv'
  <2>1. OwedWatched'
    <3> SUFFICES ASSUME NEW a \in Axis, pend'[a] \notin {0} \union Unseen'
                 PROVE  wasBusy[a] \/ Busy(axes'[a])
      BY <1>0 DEF OwedWatched, Watched
    <3>1. pend'[a] = pend[a] /\ pend[a] \notin {0} \union Unseen
      BY <1>2, <1>5
    <3>2. ~axes[a].limitFault
      BY <1>4, <1>5, <3>1 DEF Unseen
    <3> QED
      BY <1>1, <1>5, <3>1, <3>2
  <2>2. CutKnown'
    <3> SUFFICES ASSUME NEW a \in Axis, pend'[a] \in cut,
                        pend'[a] \notin eclipsed'
                 PROVE  FALSE
      BY <1>0 DEF CutKnown
    <3>1. pend'[a] = pend[a] /\ pend[a] # 0
      BY <1>2, <1>5
    <3>2. axes[a].limitFault
      BY <1>0, <1>1, <3>1
    <3> QED
      BY <1>4, <1>5, <3>1, <3>2
  <2>3. FaultKnown'
    BY <1>1, <1>2, <1>3, <1>5 DEF FaultKnown
  <2>4. CycleOwed' /\ CycleHasAxes'
    BY <1>0, <1>1, <1>2, <1>5 DEF CycleOwed, CycleHasAxes
  <2> QED
    BY <2>1, <2>2, <2>3, <2>4 DEF AnswersInv
<1>6. CASE NoLimitFault
  <2>1. \A a \in Axis : ~axes[a].limitFault
    BY <1>6 DEF NoLimitFault, FaultedAxes
  <2>2. UNCHANGED <<axes, cycle, pend>>
    BY <1>6 DEF NoLimitFault
  <2> QED
    BY <1>1, <1>5, <2>1, <2>2
<1>7. ASSUME FaultedAxes # {}
      PROVE  \A a \in Axis :
               /\ Acknowledged[a].limitFault => axes[a].limitFault
               /\ Busy(Acknowledged[a]) <=> Busy(axes[a])
  BY <1>7, AcknowledgedFaults
<1>8. CASE LimitFaultAlone
  <2>1. /\ FaultedAxes # {} /\ ~Active(cycle) /\ cycle' = cycle
        /\ axes' = Acknowledged
    BY <1>8 DEF LimitFaultAlone
  <2>2. FirstFaulted \in Axis
    BY <2>1, FirstFaultedType
  <2>3. /\ pend'[FirstFaulted] = 0
        /\ \A s \in Slot \ {FirstFaulted} : pend'[s] = pend[s]
    BY <1>8, <2>1, FaultSlots, SettleEffect DEF LimitFaultAlone
  <2>4. \A a \in Axis : pend'[a] = 0 \/ pend'[a] = pend[a]
    BY <1>0, <2>3
  <2>5. pend'["RECOAT"] = pend["RECOAT"]
    BY <1>0, <2>2, <2>3
  <2> QED
    BY <1>1, <1>5, <1>7, <2>1, <2>3, <2>4, <2>5
<1>9. CASE LimitFaultInCycle
  <2>1. FaultedAxes # {} /\ Active(cycle)
    BY <1>9 DEF LimitFaultInCycle
  <2>2. Acknowledged \in GoodAxes
    BY <2>1, AcknowledgedGood
  <2>3. PICK o \in Abort(cycle, Acknowledged) : cycle' = o.c /\ axes' = o.ax
    BY <1>9 DEF LimitFaultInCycle
  <2>4. /\ ~Active(cycle')
        /\ \A a \in Axis : /\ SameFault(Acknowledged[a], axes'[a])
                           /\ Busy(axes'[a]) <=> Busy(Acknowledged[a])
    BY <1>0, <2>2, <2>3, AbortEffect, AbortAxes
  <2>5. /\ pend'["RECOAT"] = 0 /\ pend'[FirstFaulted] = 0
        /\ \A s \in Slot : pend'[s] = 0 \/ pend'[s] = pend[s]
    BY <1>9, <2>1, FaultSlots, SettleEffect DEF LimitFaultInCycle
  <2>6. \A a \in Axis : pend'[a] = 0 \/ pend'[a] = pend[a]
    BY <1>0, <2>5
  <2>7. \A a \in Axis : axes'[a].limitFault => axes[a].limitFault
    BY <1>7, <2>1, <2>4 DEF SameFault
  <2>8. \A a \in Axis : Busy(axes[a]) => Busy(axes'[a])
    BY <1>7, <2>1, <2>4
  <2> QED
    BY <1>5, <2>4, <2>5, <2>6, <2>7, <2>8
<1> QED
  BY <1>6, <1>8, <1>9 DEF ServiceFaults

LEMMA CompletionsKeepAnswers ==
  ASSUME TypeInv, AnswersInv, ServiceCompletions
  PROVE  AnswersInv'
<1>1. /\ pc = "completions" /\ pc' = "state"
      /\ UNCHANGED <<cut, instant, eclipsed, late>>
  BY DEF ServiceCompletions, marks
<1>2. /\ cycle'.step = cycle.step
      /\ axes' = axes
      /\ \A a \in Axis : pend'[a] = IF a \in Finished THEN 0 ELSE pend[a]
      /\ \A a \in Axis : wasBusy'[a] = Busy(axes[a])
      /\ cycle.result # "NONE" => pend'["RECOAT"] = 0
      /\ pend'["RECOAT"] = 0 \/ pend'["RECOAT"] = pend["RECOAT"]
  BY CompletionsEffect DEF Slot
<1>3. Unseen' = Unseen /\ Refusable' = Refusable /\ 0 \notin cut
  BY <1>1 DEF Unseen, Refusable, TypeInv, OtherTypes, Command
<1>4. OwedWatched'
  <2> SUFFICES ASSUME NEW a \in Axis, pend'[a] \notin {0} \union Unseen
               PROVE  Watched(a)'
    BY <1>3 DEF OwedWatched
  <2>1. a \notin Finished /\ pend'[a] = pend[a]
    BY <1>2
  <2>2. wasBusy[a] \/ Busy(axes[a])
    BY <1>1, <2>1 DEF AnswersInv, OwedWatched, Watched
  <2>3. Busy(axes[a])
    BY <2>1, <2>2 DEF Finished
  <2>4. wasBusy'[a] /\ Busy(axes'[a])
    BY <1>2, <2>3
  <2> QED
    BY <1>1, <2>4 DEF Watched
<1>5. CutKnown'
  BY <1>1, <1>2, <1>3 DEF AnswersInv, CutKnown
<1>6. FaultKnown'
  BY <1>1, <1>2, <1>3 DEF AnswersInv, FaultKnown
<1>7. CycleOwed'
  BY <1>1, <1>2 DEF AnswersInv, CycleOwed, Active
<1>8. CycleHasAxes'
  BY <1>2, <1>3 DEF AnswersInv, CycleHasAxes, Active
<1> QED
  BY <1>4, <1>5, <1>6, <1>7, <1>8 DEF AnswersInv

LEMMA RestKeepsAnswers ==
  ASSUME AnswersInv, PollDone \/ UpdateState \/ UNCHANGED vars
  PROVE  AnswersInv'
<1>1. /\ UNCHANGED <<axes, cycle, pend, wasBusy, cut, instant, eclipsed, late>>
      /\ \/ pc' = pc
         \/ pc = "poll" /\ pc' = "motion"
         \/ pc = "state" /\ pc' = "poll"
  BY DEF PollDone, UpdateState, vars, loopVars, marks
<1>2. OwedWatched'
  BY <1>1 DEF AnswersInv, OwedWatched, Watched, Unseen
<1>3. CutKnown' /\ FaultKnown'
  BY <1>1 DEF AnswersInv, CutKnown, FaultKnown, Refusable
<1>4. CycleOwed' /\ CycleHasAxes'
  BY <1>1 DEF AnswersInv, CycleOwed, CycleHasAxes, Unseen
<1> QED
  BY <1>2, <1>3, <1>4 DEF AnswersInv

LEMMA NextKeepsAnswers ==
  ASSUME TypeInv, Numbered, AnswersInv, [Next]_vars
  PROVE  AnswersInv'
BY PacketKeepsAnswers, MotionKeepsAnswers, RecoatKeepsAnswers,
   FaultsKeepAnswers, CompletionsKeepAnswers, RestKeepsAnswers
DEF Next, LoopStep

LEMMA AlwaysAnswersInv == Spec => [](TypeInv /\ Numbered /\ AnswersInv)
<1>1. Init => AnswersInv
  <2> SUFFICES ASSUME Init PROVE AnswersInv
    OBVIOUS
  <2>1. \A a \in Axis : ~axes[a].limitFault /\ pend[a] = 0
    BY DEF Init, AxisAtBoot, Slot
  <2>2. OwedWatched /\ CutKnown
    BY <2>1 DEF Init, OwedWatched, CutKnown
  <2>3. FaultKnown
    BY <2>1 DEF Init, FaultKnown
  <2>4. CycleOwed /\ CycleHasAxes
    BY <2>1 DEF Init, CycleOwed, CycleHasAxes, Slot
  <2> QED
    BY <2>2, <2>3, <2>4 DEF AnswersInv
<1>2. TypeInv /\ Numbered /\ AnswersInv /\ [Next]_vars => AnswersInv'
  BY NextKeepsAnswers
<1> QED
  BY <1>1, <1>2, AlwaysNumbered, PTL DEF Spec

(* A cycle shares no axis with a command of the host whose edge is still   *)
(* to come (recoat.cpp start(), main.cpp onPacket()).                      *)
THEOREM CycleAlwaysHasAxes == Spec => []CycleHasAxes
BY AlwaysAnswersInv, PTL DEF AnswersInv

-----------------------------------------------------------------------------

LEMMA SettleKeepsOwed ==
  ASSUME TypeInv, NoAnswerLost, NEW S \in SUBSET Slot, NEW verdict,
         verdict # "none", Settle(S, verdict), accepted' = accepted,
         Unseen \subseteq Unseen'
  PROVE  NoAnswerLost'
<1> SUFFICES ASSUME NEW i \in 1 .. accepted, answer'[i] = "none", i \notin Unseen
             PROVE  \E s \in Slot : pend'[s] = i
  BY DEF NoAnswerLost
<1>1. i \in Command
  BY DEF Command, TypeInv, OtherTypes
<1>2. answer[i] = "none" /\ ~\E s \in S : pend[s] = i
  BY <1>1, SettleEffect
<1>3. PICK s \in Slot : pend[s] = i
  BY <1>2 DEF NoAnswerLost
<1> QED
  BY <1>2, <1>3, SettleEffect

LEMMA OweKeepsOwed ==
  ASSUME TypeInv, NoAnswerLost, NEW slot \in Slot, OweAnswer(slot),
         pend[slot] \in {0} \union Unseen, answer' = answer,
         Unseen \subseteq Unseen'
  PROVE  NoAnswerLost'
<1> SUFFICES ASSUME NEW i \in 1 .. accepted', answer[i] = "none", i \notin Unseen
             PROVE  \E s \in Slot : pend'[s] = i
  BY DEF NoAnswerLost
<1>1. /\ accepted \in Nat /\ accepted' = accepted + 1
      /\ pend'[slot] = accepted'
      /\ \A s \in Slot \ {slot} : pend'[s] = pend[s]
  BY OweEffect
<1>2. CASE i = accepted'
  BY <1>1, <1>2
<1>3. CASE i \in 1 .. accepted
  <2>1. PICK s \in Slot : pend[s] = i
    BY <1>3 DEF NoAnswerLost
  <2>2. s # slot
    BY <1>3, <2>1
  <2> QED
    BY <1>1, <2>1, <2>2
<1> QED
  BY <1>1, <1>2, <1>3

LEMMA NextKeepsOwed ==
  ASSUME TypeInv, AnswersInv, NoAnswerLost, [Next]_vars
  PROVE  NoAnswerLost'
<1>0. Unseen \subseteq Unseen'
  BY DEF Next, Packet, LoopStep, AxisMove, AxisHome, AxisStop, RecoatCycle,
         FaultClear, Estop, Marked, PollDone, MotionService, RecoatService,
         ServiceFaults, ServiceCompletions, UpdateState, vars, loopVars, marks,
         Unseen
<1>1. ASSUME NEW a \in Axis, ~Busy(axes[a]), Listening
      PROVE  pend[a] \in {0} \union Unseen
  BY <1>1 DEF AnswersInv, OwedWatched, Watched, Listening
<1>2. ASSUME NEW a \in Axis, NEW approach \in Approach, AxisMove(a, approach)
      PROVE  NoAnswerLost'
  BY <1>0, <1>1, <1>2, OweKeepsOwed DEF AxisMove, Slot
<1>3. ASSUME NEW a \in Axis, AxisHome(a) PROVE NoAnswerLost'
  BY <1>0, <1>1, <1>3, OweKeepsOwed DEF AxisHome, Slot
<1>4. ASSUME NEW a \in Axis, AxisStop(a) PROVE NoAnswerLost'
  <2>1. {"RECOAT"} \in SUBSET Slot
    BY DEF Slot
  <2> QED
    BY <1>0, <1>4, <2>1, SettleKeepsOwed DEF AxisStop
<1>5. ASSUME NEW mode \in ParkMode, NEW passes \in 1 .. MaxPasses,
             NEW clearance \in BOOLEAN, RecoatCycle(mode, passes, clearance)
      PROVE  NoAnswerLost'
  <2>1. pend["RECOAT"] = 0
    BY <1>5 DEF RecoatCycle, Startable, Listening, AnswersInv, CycleOwed
  <2> QED
    BY <1>0, <1>5, <2>1, OweKeepsOwed DEF RecoatCycle, Slot
<1>6. ASSUME Estop PROVE NoAnswerLost'
  BY <1>0, <1>6, SettleKeepsOwed DEF Estop
<1>7. CASE UNCHANGED <<pend, answer, accepted>>
  BY <1>0, <1>7 DEF NoAnswerLost
<1>8. CASE ServiceFaults
  <2>1. accepted' = accepted
    BY <1>8 DEF ServiceFaults
  <2>2. CASE NoLimitFault
    BY <1>7, <2>1, <2>2 DEF NoLimitFault
  <2>3. CASE LimitFaultAlone
    BY <1>0, <2>1, <2>3, FaultSlots, SettleKeepsOwed DEF LimitFaultAlone
  <2>4. CASE LimitFaultInCycle
    BY <1>0, <2>1, <2>4, FaultSlots, SettleKeepsOwed DEF LimitFaultInCycle
  <2> QED
    BY <1>8, <2>2, <2>3, <2>4 DEF ServiceFaults
<1>9. CASE ServiceCompletions
  <2> SUFFICES ASSUME NEW i \in 1 .. accepted, answer'[i] = "none",
                      i \notin Unseen
               PROVE  \E s \in Slot : pend'[s] = i
    BY <1>0, <1>9 DEF NoAnswerLost, ServiceCompletions
  <2>1. i \in Command
    BY DEF Command, TypeInv, OtherTypes
  <2> DEFINE done == Finished \union
                       (IF cycle.result = "OK" THEN {"RECOAT"} ELSE {})
  <2>2. /\ pend' = [s \in Slot |->
                     IF s \in done \/ (s = "RECOAT" /\ cycle.result = "FAILED")
                       THEN 0 ELSE pend[s]]
        /\ answer' = [j \in Command |->
                       IF \E s \in done : pend[s] = j THEN "OK"
                       ELSE IF cycle.result = "FAILED" /\ pend["RECOAT"] = j
                         THEN "REFUSED" ELSE answer[j]]
    BY <1>9 DEF ServiceCompletions
  <2> HIDE DEF done
  <2>3. /\ answer[i] = "none"
        /\ ~\E s \in done : pend[s] = i
        /\ ~(cycle.result = "FAILED" /\ pend["RECOAT"] = i)
    BY <2>1, <2>2
  <2>4. PICK s \in Slot : pend[s] = i
    BY <2>3 DEF NoAnswerLost
  <2> QED
    BY <2>2, <2>3, <2>4
<1>10. CASE \/ FaultClear \/ PollDone \/ MotionService \/ RecoatService
            \/ UpdateState \/ UNCHANGED vars
  BY <1>7, <1>10
  DEF FaultClear, PollDone, MotionService, RecoatService, UpdateState, vars,
      loopVars
<1> QED
  BY <1>2, <1>3, <1>4, <1>5, <1>6, <1>8, <1>9, <1>10 DEF Next, Packet, LoopStep

(* Until it is answered an accepted command holds a slot, and none but one *)
(* whose edge went unseen is overwritten (main.cpp sendAckLater(),         *)
(* settleAck()).                                                           *)
THEOREM AnswersNeverLost == Spec => []NoAnswerLost
<1>1. Init => NoAnswerLost
  BY DEF Init, NoAnswerLost
<1>2. TypeInv /\ AnswersInv /\ NoAnswerLost /\ [Next]_vars => NoAnswerLost'
  BY NextKeepsOwed
<1> QED
  BY <1>1, <1>2, AlwaysAnswersInv, PTL DEF Spec

LEMMA HonestStep ==
  ASSUME TypeInv, Numbered, AnswersInv, Next, NEW a \in Axis
  PROVE  /\ Settles(a, "OK") => pend[a] \notin cut \ eclipsed
         /\ Settles(a, "REFUSED") => \/ pend[a] \in cut \union late \union instant
                                     \/ state' = "ESTOP"
<1> SUFFICES ASSUME NEW i \in Command, i = pend[a], answer[i] = "none",
                    answer'[i] # "none"
             PROVE  /\ answer'[i] = "OK" => i \notin cut \ eclipsed
                    /\ answer'[i] = "REFUSED" =>
                         i \in Refusable \/ state' = "ESTOP"
  <2>1. pend[a] # 0 => pend[a] \in Command
    BY DEF TypeInv, OtherTypes, Slot, Command
  <2> QED
    BY <2>1 DEF Settles, Refusable
<1>0. /\ a \in Slot /\ a # "RECOAT" /\ "RECOAT" \in Slot /\ i # 0
      /\ \A s \in Slot : pend[s] = i => s = a
  BY DEF Slot, Axis, Numbered, Command
<1>1. axes[a].limitFault => i \in Refusable
  BY <1>0 DEF AnswersInv, FaultKnown
<1>2. CASE UNCHANGED answer
  BY <1>2
<1>3. ASSUME NEW b \in Axis, AxisStop(b) PROVE FALSE
  <2>1. {"RECOAT"} \in SUBSET Slot
    BY DEF Slot
  <2> QED
    BY <1>0, <1>3, <2>1, SettleEffect DEF AxisStop
<1>4. CASE Estop
  <2>1. state' = "ESTOP" /\ answer'[i] = "REFUSED"
    BY <1>4, SettleEffect DEF Estop
  <2> QED
    BY <2>1
<1>5. CASE ServiceFaults
  <2>1. CASE NoLimitFault
    BY <1>2, <2>1 DEF NoLimitFault
  <2>2. ASSUME NEW S \in SUBSET Slot, Settle(S, "REFUSED"), FaultedAxes # {},
               S \subseteq {FirstFaulted, "RECOAT"}
        PROVE  answer'[i] = "REFUSED" /\ i \in Refusable
    <3>1. answer'[i] = "REFUSED" /\ \E s \in S : pend[s] = i
      BY <2>2, SettleEffect
    <3>2. a = FirstFaulted
      BY <1>0, <2>2, <3>1
    <3>3. a \in FaultedAxes
      BY <2>2, <3>2, FirstFaultedType
    <3> QED
      BY <1>1, <3>1, <3>3 DEF FaultedAxes
  <2>3. CASE LimitFaultAlone
    BY <2>2, <2>3, FaultSlots DEF LimitFaultAlone
  <2>4. CASE LimitFaultInCycle
    BY <2>2, <2>4, FaultSlots DEF LimitFaultInCycle
  <2> QED
    BY <1>5, <2>1, <2>3, <2>4 DEF ServiceFaults
<1>6. CASE ServiceCompletions
  <2>1. i \notin cut \ eclipsed
    BY <1>6 DEF ServiceCompletions, AnswersInv, CutKnown
  <2> DEFINE done == Finished \union
                       (IF cycle.result = "OK" THEN {"RECOAT"} ELSE {})
  <2>2. answer' = [j \in Command |->
                     IF \E s \in done : pend[s] = j THEN "OK"
                     ELSE IF cycle.result = "FAILED" /\ pend["RECOAT"] = j
                       THEN "REFUSED" ELSE answer[j]]
    BY <1>6 DEF ServiceCompletions
  <2> HIDE DEF done
  <2>3. pend["RECOAT"] # i
    BY <1>0
  <2>4. answer'[i] = "OK"
    BY <2>2, <2>3
  <2> QED
    BY <2>1, <2>4
<1> QED
  BY <1>2, <1>3, <1>4, <1>5, <1>6
  DEF Next, Packet, LoopStep, AxisMove, AxisHome, RecoatCycle, FaultClear,
      PollDone, MotionService, RecoatService, UpdateState

(* A move or a home that a switch cut short is answered OK only if its     *)
(* fault waited for another axis's, and none is refused but for a switch,  *)
(* a fault its axis still had, having been over at once, or the emergency  *)
(* stop (main.cpp serviceFaults(), serviceCompletions()).                  *)
THEOREM MoveAnswersAlwaysHonest == Spec => MoveAnswersHonest
<1>1. TypeInv /\ Numbered /\ AnswersInv /\ [Next]_vars
        => [\A a \in Axis :
              /\ Settles(a, "OK") => pend[a] \notin cut \ eclipsed
              /\ Settles(a, "REFUSED") =>
                   \/ pend[a] \in cut \union late \union instant
                   \/ state' = "ESTOP"]_vars
  BY HonestStep
<1> QED
  BY <1>1, AlwaysAnswersInv, PTL DEF Spec, MoveAnswersHonest

-----------------------------------------------------------------------------
(* What the blade would cross.  Each step of a cycle finds the bed as the  *)
(* step before left it, unless a switch cut that one short, and then the   *)
(* fault is consumed before anything moves.  The last drop is the one that *)
(* matters: if it set out downward, it lowered the bed.                    *)

LayerFits(c, l, low) ==
  /\ c.step \in {"SWEEP_PAUSE", "CLEAR_DROP", "CLEAR_RAISE"} => ~Overflow(c)
  /\ Overflow(c) /\ c.passes = 1 /\ c.step # "BED_DROP" /\ low => l = "open"
  /\ ~Overflow(c) /\ c.clearance /\ c.step = "RETURN" /\ low => l = "cleared"

LayerKnown ==
  Active(cycle) /\ ~(pc = "faults" /\ FaultedAxes # {})
    => LayerFits(cycle, layer, lowers)

(* What a step that ended, uncut, leaves. *)
LayerLeft(c, l, low) ==
  IF c.step \in Drops /\ ~low THEN l
  ELSE CASE c.step = "BED_DROP"    -> "open"
         [] c.step = "SWEEP"       -> "fresh"
         [] c.step = "CLEAR_DROP"  -> "cleared"
         [] c.step = "CLEAR_RAISE" -> "fresh"
         [] OTHER                  -> l

LEMMA NextStepFits ==
  ASSUME NEW c \in GoodCycle, NEW l, NEW d, NEW low \in BOOLEAN, NEW lower,
         Active(c), LayerFits(c, l, low),
         NextStep(c) # "DONE", InStep(c, d, NextStep(c)),
         d.step \notin Drops => lower = low
  PROVE  LayerFits(d, LayerLeft(c, l, low), lower)
<1> DEFINE m == LayerLeft(c, l, low)
<1>1. /\ c.step \in Step /\ c.mode \in ParkMode /\ c.clearance \in BOOLEAN
      /\ c.passes \in 1 .. MaxPasses /\ c.pass \in 0 .. MaxPasses
      /\ c.rehomeDue \in BOOLEAN
      /\ Overflow(c) => c.pass < c.passes
  BY CycleFields DEF GoodCycle, EndingSteps, Overflow
<1>2. Overflow(d) <=> Overflow(c)
  BY DEF Overflow, InStep
<1>3. CASE Overflow(c)
  <2>1. c.step \notin {"SWEEP_PAUSE", "CLEAR_DROP", "CLEAR_RAISE"}
    BY <1>3 DEF LayerFits
  <2>2. /\ d.step \notin {"SWEEP_PAUSE", "CLEAR_DROP", "CLEAR_RAISE"}
        /\ c.passes = 1 => c.step # "SWEEP"
    BY <1>1, <1>3, <2>1
    DEF NextStep, InStep, Overflow, Clearing, AfterSupplyPass, Active, Step
  <2>3. c.passes = 1 /\ low => m = "open"
    BY <1>3, <2>1, <2>2 DEF LayerFits, LayerLeft
  <2>4. d.step # "BED_DROP" => lower = low
    BY <2>2 DEF Drops
  <2>5. d.passes = c.passes
    BY DEF InStep
  <2> QED
    BY <1>2, <1>3, <2>2, <2>3, <2>4, <2>5 DEF LayerFits
<1>4. CASE ~Overflow(c)
  <2>1. d.clearance /\ d.step = "RETURN" => c.step = "CLEAR_DROP"
    BY <1>1, <1>4
    DEF NextStep, InStep, Overflow, Clearing, AfterSupplyPass, Active, Step,
        ParkMode
  <2>2. c.step = "CLEAR_DROP" /\ low => m = "cleared"
    BY DEF LayerLeft
  <2>3. d.step = "RETURN" => lower = low
    BY DEF Drops
  <2> QED
    BY <1>2, <1>4, <2>1, <2>2, <2>3 DEF LayerFits
<1> QED
  BY <1>3, <1>4

LEMMA RecoatKeepsLayer ==
  ASSUME TypeInv, CycleInv, LayerKnown, RecoatService
  PROVE  LayerKnown'
<1> SUFFICES ASSUME Active(cycle'), FaultedAxes' = {}
             PROVE  LayerFits(cycle', layer', lowers')
  BY DEF LayerKnown, RecoatService
<1>1. cycle \in GoodCycle /\ axes \in GoodAxes /\ pc = "recoat"
  BY DEF TypeInv, Machine, RecoatService
<1>2. /\ Active(cycle)
      /\ InStep(cycle, cycle',
                IF StepDone(cycle, axes) THEN NextStep(cycle) ELSE cycle.step)
      /\ \A a \in Axis : axes'[a].limitFault = axes[a].limitFault
  BY <1>1, CycleServicedEffect DEF RecoatService, SameFault
<1>3. LayerFits(cycle, layer, lowers) /\ lowers \in BOOLEAN
  BY <1>1, <1>2 DEF LayerKnown, TypeInv, OtherTypes
<1>3a. cycle'.step \notin Drops \ {cycle.step} => lowers' = lowers
  BY DEF RecoatService, Lowers
<1>4. CASE StepDone(cycle, axes)
  <2>1. AxisOf(cycle.step) \in Axis
    BY DEF AxisOf, Axis
  <2>2. ~axes[AxisOf(cycle.step)].limitFault
    BY <1>2, <2>1 DEF FaultedAxes
  <2>3. layer' = LayerLeft(cycle, layer, lowers)
    BY <1>4, <2>2 DEF RecoatService, LayerAfter, LayerLeft
  <2>4. cycle'.step # "DONE"
    BY CycleServicedGood, <1>1 DEF RecoatService, Outcome, GoodCycle, CycleRecord, Step
  <2>5. NextStep(cycle) # "DONE"
    BY <1>2, <1>4, <2>4 DEF InStep
  <2>6. InStep(cycle, cycle', NextStep(cycle))
    BY <1>2, <1>4
  <2>7. cycle'.step \notin Drops => lowers' = lowers
    BY <1>3a
  <2>8. LayerFits(cycle', LayerLeft(cycle, layer, lowers), lowers')
    BY <1>1, <1>2, <1>3, <2>5, <2>6, <2>7, NextStepFits
  <2> QED
    BY <2>3, <2>8
<1>5. CASE ~StepDone(cycle, axes)
  <2>1. layer' = layer
    BY <1>5 DEF RecoatService
  <2> QED
    BY <1>2, <1>3, <1>3a, <1>5, <2>1 DEF LayerFits, InStep, Overflow
<1> QED
  BY <1>4, <1>5

LEMMA PacketKeepsLayer ==
  ASSUME TypeInv, LayerKnown, Packet
  PROVE  LayerKnown'
<1>0. cycle \in GoodCycle /\ axes \in GoodAxes
  BY DEF TypeInv, Machine
<1>1. ASSUME ~Active(cycle') PROVE LayerKnown'
  BY <1>1 DEF LayerKnown
<1>2. ASSUME NEW a \in Axis, AxisStop(a) PROVE LayerKnown'
  BY <1>0, <1>1, <1>2, AbortEffect DEF AxisStop
<1>3. ASSUME NEW mode \in ParkMode, NEW passes \in 1 .. MaxPasses,
             NEW clearance \in BOOLEAN, RecoatCycle(mode, passes, clearance)
      PROVE  LayerKnown'
  <2>1. /\ cycle'.mode = mode
        /\ cycle'.step = IF mode = "OVERFLOW" THEN "BED_DROP" ELSE "FEED_RISE"
    BY <1>0, <1>3, StartedEffect DEF RecoatCycle
  <2>2. LayerFits(cycle', layer', lowers')
    BY <2>1 DEF LayerFits, Overflow
  <2> QED
    BY <2>2 DEF LayerKnown
<1>4. ASSUME FaultClear PROVE LayerKnown'
  BY <1>4 DEF FaultClear, LayerKnown, FaultedAxes, blade
<1>5. ASSUME Estop PROVE LayerKnown'
  <2>1. [a \in Axis |-> Frozen(axes[a])] \in GoodAxes
    BY <1>0, FrozenAxesGood
  <2> QED
    BY <1>0, <1>1, <1>5, <2>1, AbortEffect DEF Estop
<1> QED
  BY <1>1, <1>2, <1>3, <1>4, <1>5 DEF Packet, AxisMove, AxisHome

LEMMA LoopKeepsLayer ==
  ASSUME TypeInv, CycleInv, LayerKnown, LoopStep
  PROVE  LayerKnown'
<1>1. CASE PollDone \/ UpdateState \/ MotionService
  BY <1>1 DEF PollDone, UpdateState, MotionService, LayerKnown, blade
<1>2. CASE RecoatService
  BY <1>2, RecoatKeepsLayer
<1>3. CASE ServiceFaults
  <2>1. CASE NoLimitFault
    BY <1>3, <2>1 DEF NoLimitFault, ServiceFaults, LayerKnown, blade
  <2>2. CASE LimitFaultAlone
    BY <2>2 DEF LimitFaultAlone, LayerKnown
  <2>3. CASE LimitFaultInCycle
    BY <2>3, AbortEffect DEF LimitFaultInCycle, LayerKnown, TypeInv, Machine
  <2> QED
    BY <1>3, <2>1, <2>2, <2>3 DEF ServiceFaults
<1>4. CASE ServiceCompletions
  <2>1. /\ cycle'.step = cycle.step /\ cycle'.mode = cycle.mode
        /\ cycle'.passes = cycle.passes /\ cycle'.clearance = cycle.clearance
        /\ layer' = layer /\ lowers' = lowers /\ pc = "completions"
    BY <1>4, CycleFields
    DEF ServiceCompletions, TypeInv, Machine, GoodCycle, blade
  <2> QED
    BY <2>1 DEF LayerKnown, LayerFits, Overflow, Active
<1> QED
  BY <1>1, <1>2, <1>3, <1>4 DEF LoopStep

(* A blade travelling back over the bed meets no powder it has just        *)
(* spread, in the cycles that promise it and whose last drop lowers the    *)
(* bed, though a switch may cut any of their moves short (recoat.cpp       *)
(* nextStep()).                                                            *)
THEOREM BladeAlwaysClear == Spec => []BladeClear
<1>1. Init => LayerKnown
  BY DEF Init, LayerKnown, CycleAtBoot, Active
<1>2. TypeInv /\ CycleInv /\ LayerKnown /\ [Next]_vars => LayerKnown'
  <2> SUFFICES ASSUME TypeInv, CycleInv, LayerKnown, [Next]_vars
               PROVE  LayerKnown'
    OBVIOUS
  <2>1. CASE UNCHANGED vars
    BY <2>1 DEF vars, loopVars, blade, LayerKnown, FaultedAxes
  <2> QED
    BY <2>1, PacketKeepsLayer, LoopKeepsLayer DEF Next
<1>3. LayerKnown => BladeClear
  <2> SUFFICES ASSUME LayerKnown, pc = "motion", CrossesBed,
                      IF Overflow(cycle) THEN cycle.passes = 1
                      ELSE cycle.clearance /\ cycle.step # "REHOME",
                      lowers
               PROVE  layer # "fresh"
    BY DEF BladeClear
  <2>1. cycle.step \in {"RETURN", "REHOME"}
    BY DEF CrossesBed
  <2>2. LayerFits(cycle, layer, lowers)
    BY <2>1 DEF LayerKnown, Active
  <2> QED
    BY <2>1, <2>2 DEF LayerFits
<1> QED
  BY <1>1, <1>2, <1>3, AlwaysCycleInv, PTL DEF Spec
=============================================================================
