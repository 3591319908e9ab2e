------------------------------ MODULE MegaLoop ------------------------------
(***************************************************************************)
(* The Mega's main loop (src/src/arduino-mega/main.cpp) around its three   *)
(* axes and its recoat sequencer: the packets that command them, the       *)
(* answers those commands are owed, the faults they latch and the          *)
(* emergency stop.  The program is one thread; pc names the call of loop() *)
(* that runs next.  A poll may dispatch any number of packets, each of     *)
(* them one action.  Commands answered when their work finishes are        *)
(* numbered as they are accepted; a command refused on the spot changes    *)
(* nothing here and is left out.                                           *)
(***************************************************************************)
EXTENDS Recoat

CONSTANTS
  MaxCommands,         \* bound: deferred commands accepted in one behaviour
  SensorsFail,         \* TRUE: a temperature channel may go invalid
  Chamber              \* what updateState() may find of the chamber

ASSUME MegaLoopAssumption ==
  /\ MaxCommands \in Nat \ {0}
  /\ SensorsFail \in BOOLEAN
  /\ Chamber \subseteq {"purging", "inert", "air"}
  /\ Chamber # {}

VARIABLES
  pc,         \* the part of loop() that runs next
  axes,       \* motion.cpp: axes[]
  cycle,      \* recoat.cpp: c and cycles_since_rehome
  pend,       \* axis_pending[], recoat_pending: the command owed an answer, or 0
  wasBusy,    \* axis_was_busy[]
  state,      \* machine_state
  latched,    \* latched_flags, without FAULTBIT_ESTOP (state tells)
  (* Observation only. *)
  accepted,   \* number of deferred commands accepted so far
  answer,     \* what each of them was answered
  cut,        \* the commands whose work a limit switch cut short
  instant,    \* the moves accepted with no way to go
  eclipsed,   \* the commands whose fault had to wait for another axis's
  late,       \* the commands accepted on an axis whose fault still waits
  layer,      \* what the blade would cross: see LayerAfter
  lowers      \* did the bed's last drop set out downward?

marks == <<cut, instant, eclipsed, late>>
blade == <<layer, lowers>>
loopVars == <<pc, axes, cycle, pend, wasBusy, state, latched>>
vars == <<loopVars, accepted, answer, marks, blade>>

Place == {"poll", "motion", "recoat", "faults", "completions", "state"}
State == {"IDLE", "READY", "HOMING", "PURGING", "FAULT", "ESTOP"}
Slot == Axis \union {"RECOAT"}
Command == 1 .. MaxCommands

(* layer: "open" bed lowered and unspread, "fresh" just spread, "cleared"  *)
(* spread but lowered out of the way of the blade.                         *)
Layer == {"open", "fresh", "cleared"}

Init ==
  /\ pc = "poll"
  /\ \E feed, bed \in BOOLEAN :
       axes = [a \in Axis |-> AxisAtBoot(\/ a = "FEED" /\ feed
                                         \/ a = "BED" /\ bed)]
  /\ cycle = CycleAtBoot
  /\ pend = [s \in Slot |-> 0]
  /\ wasBusy = [a \in Axis |-> FALSE]
  /\ state = "IDLE"
  /\ latched = {}
  /\ accepted = 0
  /\ answer = [i \in Command |-> "none"]
  /\ cut = {}
  /\ instant = {}
  /\ eclipsed = {}
  /\ late = {}
  /\ layer = "open"
  /\ lowers = FALSE

-----------------------------------------------------------------------------
(* sendAckLater(): the slot is simply overwritten. *)
OweAnswer(slot) ==
  /\ accepted < MaxCommands
  /\ accepted' = accepted + 1
  /\ pend' = [pend EXCEPT ![slot] = accepted + 1]

(* A move of no length is over before serviceCompletions() has seen its    *)
(* axis busy; and an axis may be commanded again while the fault it last   *)
(* raised still waits for serviceFaults().                                 *)
Marked(a) ==
  /\ instant' = IF axes'[a].togo = 0 THEN instant \union {accepted + 1}
                ELSE instant
  /\ late' = IF axes[a].limitFault THEN late \union {accepted + 1} ELSE late

(* Nothing but the bed's own moves lowers the bed, and bed_um has no sign  *)
(* that start() would check.                                               *)
Drops == {"BED_DROP", "CLEAR_DROP"}

Lowers == IF cycle'.step \in Drops \ {cycle.step}
            THEN axes'["BED"].togo < 0 ELSE lowers

(* settleAck() on every slot of S: those owing nothing are passed over. *)
Settle(S, verdict) ==
  /\ pend' = [s \in Slot |-> IF s \in S THEN 0 ELSE pend[s]]
  /\ answer' = [i \in Command |->
                  IF \E s \in S : pend[s] = i THEN verdict ELSE answer[i]]

(* The ESTOP latch in front of every other message. *)
Listening == pc = "poll" /\ state # "ESTOP"

-----------------------------------------------------------------------------
(* onPacket(), one action per message that changes the state.              *)

(* A faulty variant: a move is accepted while a cycle runs. *)
AxisMoveInCycle(a, approach) ==
  /\ Listening
  /\ ~Busy(axes[a])
  /\ \E x \in Moved(axes[a], approach) : axes' = [axes EXCEPT ![a] = x]
  /\ OweAnswer(a)
  /\ Marked(a)
  /\ UNCHANGED <<pc, cycle, wasBusy, state, latched, answer, cut>>
  /\ UNCHANGED <<eclipsed, blade>>

(* handleAxisMove().  AXIS_MOVE_NO_BOUNDS only adds refusals here, since   *)
(* this level has no positions to bound.                                   *)
AxisMove(a, approach) ==
  /\ Listening
  /\ ~Active(cycle)
  /\ ~Busy(axes[a])
  /\ \E x \in Moved(axes[a], approach) : axes' = [axes EXCEPT ![a] = x]
  /\ OweAnswer(a)
  /\ Marked(a)
  /\ UNCHANGED <<pc, cycle, wasBusy, state, latched, answer, cut>>
  /\ UNCHANGED <<eclipsed, blade>>

(* A faulty variant: motion::home() does not look at the phase. *)
AxisHomeWhileBusy(a) ==
  /\ Listening
  /\ ~Active(cycle)
  /\ axes' = [axes EXCEPT ![a] = HomeStarted(@)]
  /\ OweAnswer(a)
  /\ Marked(a)
  /\ UNCHANGED <<pc, cycle, wasBusy, state, latched, answer, cut>>
  /\ UNCHANGED <<eclipsed, blade>>

(* handleAxisHome() *)
AxisHome(a) ==
  /\ Listening
  /\ ~Active(cycle)
  /\ ~Busy(axes[a])
  /\ axes' = [axes EXCEPT ![a] = HomeStarted(@)]
  /\ OweAnswer(a)
  /\ Marked(a)
  /\ UNCHANGED <<pc, cycle, wasBusy, state, latched, answer, cut>>
  /\ UNCHANGED <<eclipsed, blade>>

(* A faulty variant: the aborted cycle's answer is forgotten. *)
AxisStopSilently(a) ==
  /\ Listening
  /\ \E o \in Abort(cycle, axes) :
       /\ cycle' = o.c
       /\ \E x \in Stopped(o.ax[a]) : axes' = [o.ax EXCEPT ![a] = x]
  /\ UNCHANGED <<pc, pend, wasBusy, state, latched, accepted, answer, marks, blade>>

(* handleAxisStop(): the cycle goes first, then the axis, whose own owed   *)
(* answer is left to its completion.                                       *)
AxisStop(a) ==
  /\ Listening
  /\ \E o \in Abort(cycle, axes) :
       /\ cycle' = o.c
       /\ \E x \in Stopped(o.ax[a]) : axes' = [o.ax EXCEPT ![a] = x]
  /\ Settle({"RECOAT"}, "REFUSED")
  /\ UNCHANGED <<pc, wasBusy, state, latched, accepted, marks, blade>>

(* handleRecoat() *)
RecoatCycle(mode, passes, clearance) ==
  /\ Listening
  /\ Startable(cycle, axes)
  /\ \E o \in Started(cycle, axes, mode, passes, clearance) :
       cycle' = o.c /\ axes' = o.ax
  /\ OweAnswer("RECOAT")
  /\ lowers' = Lowers
  /\ UNCHANGED <<pc, wasBusy, state, latched, answer, marks, layer>>

(* MSG_FAULT_CLEAR *)
FaultClear ==
  /\ Listening
  /\ latched' = {}
  /\ UNCHANGED <<pc, axes, cycle, pend, wasBusy, state>>
  /\ UNCHANGED <<accepted, answer, marks, blade>>

(* A faulty variant: the axes are frozen and the cycle is left running. *)
EstopAxesOnly ==
  /\ pc = "poll"
  /\ axes' = [a \in Axis |-> Frozen(axes[a])]
  /\ state' = "ESTOP"
  /\ Settle(Slot, "REFUSED")
  /\ UNCHANGED <<pc, cycle, wasBusy, latched, accepted, marks, blade>>

(* enterEstop(), taken in every state.  The axes are frozen first, so that *)
(* the abort finds nothing left to ramp down.                              *)
Estop ==
  /\ pc = "poll"
  /\ \E o \in Abort(cycle, [a \in Axis |-> Frozen(axes[a])]) :
       cycle' = o.c /\ axes' = o.ax
  /\ state' = "ESTOP"
  /\ Settle(Slot, "REFUSED")
  /\ UNCHANGED <<pc, wasBusy, latched, accepted, marks, blade>>

Packet ==
  \/ \E a \in Axis, approach \in Approach : AxisMove(a, approach)
  \/ \E a \in Axis : AxisHome(a)
  \/ \E a \in Axis : AxisStop(a)
  \/ \E mode \in ParkMode, passes \in 1 .. MaxPasses, clearance \in BOOLEAN :
       RecoatCycle(mode, passes, clearance)
  \/ FaultClear
  \/ Estop

-----------------------------------------------------------------------------
(* The rest of loop().                                                     *)

PollDone ==
  /\ pc = "poll"
  /\ pc' = "motion"
  /\ UNCHANGED <<axes, cycle, pend, wasBusy, state, latched>>
  /\ UNCHANGED <<accepted, answer, marks, blade>>

(* Whose work axis a is doing. *)
Owner(a) == IF Active(cycle) THEN pend["RECOAT"] ELSE pend[a]

(* A move with some way still to go only ends at a switch.  Its fault may  *)
(* have been there before, unconsumed.                                     *)
Tripped(a) ==
  /\ axes[a].phase \in {"MOVE", "OVERSHOOT"}
  /\ axes[a].togo # 0
  /\ ~Busy(axes'[a])

MotionService ==
  /\ pc = "motion"
  /\ pc' = "recoat"
  /\ axes' \in EachAxis([a \in Axis |-> Serviced(a, axes[a])])
  /\ cut' = cut \union ({Owner(a) : a \in {b \in Axis : Tripped(b)}} \ {0})
  /\ UNCHANGED <<cycle, pend, wasBusy, state, latched>>
  /\ UNCHANGED <<accepted, answer, instant, eclipsed, late, blade>>

(* What a step of the cycle leaves under the blade once it is done, unless *)
(* a switch cut it short, or it was a drop that lowered nothing.           *)
LayerAfter(step) ==
  IF \/ step \notin {"SETTLE", "SWEEP_PAUSE"} /\ axes[AxisOf(step)].limitFault
     \/ step \in Drops /\ ~lowers
    THEN layer
  ELSE CASE step = "BED_DROP"    -> "open"
         [] step = "SWEEP"       -> "fresh"
         [] step = "CLEAR_DROP"  -> "cleared"
         [] step = "CLEAR_RAISE" -> "fresh"
         [] OTHER                -> layer

RecoatService ==
  /\ pc = "recoat"
  /\ pc' = "faults"
  /\ \E o \in CycleServiced(cycle, axes) : cycle' = o.c /\ axes' = o.ax
  /\ layer' = IF StepDone(cycle, axes) THEN LayerAfter(cycle.step) ELSE layer
  /\ lowers' = Lowers
  /\ UNCHANGED <<pend, wasBusy, state, latched, accepted, answer, marks>>

(* consumeLimitFault() takes the first faulted axis only; any other waits  *)
(* for the next time round the loop.                                       *)
FaultedAxes == {a \in Axis : axes[a].limitFault}

FirstFaulted ==
  IF "FEED" \in FaultedAxes THEN "FEED"
  ELSE IF "BED" \in FaultedAxes THEN "BED" ELSE "WIPE"

NoLimitFault ==
  /\ FaultedAxes = {}
  /\ UNCHANGED <<axes, cycle, pend, answer>>

Acknowledged == [axes EXCEPT ![FirstFaulted].limitFault = FALSE]

(* A faulty variant: the fault is reported, its command left pending. *)
LimitFaultUnsettled ==
  /\ FaultedAxes # {}
  /\ ~Active(cycle)
  /\ axes' = Acknowledged
  /\ UNCHANGED <<cycle, pend, answer>>

LimitFaultAlone ==
  /\ FaultedAxes # {}
  /\ ~Active(cycle)
  /\ axes' = Acknowledged
  /\ Settle({FirstFaulted}, "REFUSED")
  /\ UNCHANGED cycle

(* A faulty variant: the cycle is refused but not stopped. *)
LimitFaultCycleGoesOn ==
  /\ FaultedAxes # {}
  /\ Active(cycle)
  /\ axes' = Acknowledged
  /\ Settle({FirstFaulted}, "REFUSED")
  /\ UNCHANGED cycle

LimitFaultInCycle ==
  /\ FaultedAxes # {}
  /\ Active(cycle)
  /\ \E o \in Abort(cycle, Acknowledged) : cycle' = o.c /\ axes' = o.ax
  /\ Settle({FirstFaulted, "RECOAT"}, "REFUSED")

(* The commands of axes whose fault is not looked at this time. *)
Waiting == {pend[a] : a \in FaultedAxes \ {FirstFaulted}} \ {0}

(* serviceFaults(), of which a limit switch and a sensor gone invalid are  *)
(* the two that latch.                                                     *)
ServiceFaults ==
  /\ pc = "faults"
  /\ pc' = "completions"
  /\ NoLimitFault \/ LimitFaultAlone \/ LimitFaultInCycle
  /\ \E dead \in {FALSE, SensorsFail} :
       latched' = latched \union (IF FaultedAxes # {} THEN {"MOTION"} ELSE {})
                          \union (IF dead THEN {"TEMP"} ELSE {})
  /\ eclipsed' = eclipsed \union Waiting
  /\ UNCHANGED <<wasBusy, state, accepted, cut, instant, late, blade>>

(* serviceCompletions(): a busy axis found idle settles its slot; the      *)
(* result of a cycle, if any, settles its own.                             *)
Finished == {a \in Axis : wasBusy[a] /\ ~Busy(axes[a])}

ServiceCompletions ==
  /\ pc = "completions"
  /\ pc' = "state"
  /\ LET done == Finished \union
                   (IF cycle.result = "OK" THEN {"RECOAT"} ELSE {})
     IN /\ pend' = [s \in Slot |->
                      IF s \in done \/ (s = "RECOAT" /\ cycle.result = "FAILED")
                        THEN 0 ELSE pend[s]]
        /\ answer' = [i \in Command |->
                        IF \E s \in done : pend[s] = i THEN "OK"
                        ELSE IF cycle.result = "FAILED" /\ pend["RECOAT"] = i
                          THEN "REFUSED" ELSE answer[i]]
  /\ cycle' = [cycle EXCEPT !.result = "NONE"]
  /\ wasBusy' = [a \in Axis |-> Busy(axes[a])]
  /\ UNCHANGED <<axes, state, latched, accepted, marks, blade>>

(* updateState() *)
UpdateState ==
  /\ pc = "state"
  /\ pc' = "poll"
  /\ \E chamber \in Chamber :
       state' = IF state = "ESTOP" THEN "ESTOP"
                ELSE IF latched # {} THEN "FAULT"
                ELSE IF \E a \in Axis : axes[a].phase \in HomingPhase
                  THEN "HOMING"
                ELSE IF chamber = "purging" THEN "PURGING"
                ELSE IF chamber = "inert" /\ axes["WIPE"].homed THEN "READY"
                ELSE "IDLE"
  /\ UNCHANGED <<axes, cycle, pend, wasBusy, latched>>
  /\ UNCHANGED <<accepted, answer, marks, blade>>

LoopStep ==
  \/ PollDone
  \/ MotionService
  \/ RecoatService
  \/ ServiceFaults
  \/ ServiceCompletions
  \/ UpdateState

Next == Packet \/ LoopStep

Spec == Init /\ [][Next]_vars

(* loop() is called for ever, and link.poll() returns after at most 128    *)
(* bytes: no stream of packets keeps the rest of the loop from running.    *)
FairSpec == Spec /\ WF_vars(LoopStep)

-----------------------------------------------------------------------------
(* Properties.                                                             *)

(* The type of every variable. *)
TypeOK ==
  /\ pc \in Place
  /\ axes \in [Axis -> AxisRecord]
  /\ cycle \in CycleRecord
  /\ pend \in [Slot -> 0 .. MaxCommands]
  /\ wasBusy \in [Axis -> BOOLEAN]
  /\ state \in State
  /\ latched \subseteq {"MOTION", "TEMP"}
  /\ accepted \in 0 .. MaxCommands
  /\ answer \in [Command -> {"none", "OK", "REFUSED"}]
  /\ cut \subseteq Command
  /\ instant \subseteq Command
  /\ eclipsed \subseteq Command
  /\ late \subseteq Command
  /\ layer \in Layer
  /\ lowers \in BOOLEAN

(* Once an emergency stop is acted on nothing moves, no cycle is left to   *)
(* start another move from recoat::service(), and no command is still owed *)
(* an answer, whatever part of the loop the packet found the board in      *)
(* (main.cpp enterEstop(): "Everything off, everything frozen").           *)
EstopHolds ==
  state = "ESTOP" =>
    /\ \A a \in Axis : ~Busy(axes[a])
    /\ ~Active(cycle)
    /\ \A s \in Slot : pend[s] = 0

(* The emergency stop is latched: no packet and no part of the loop leaves *)
(* it, and none is accepted as work ("Nothing may start moving again").    *)
EstopLatched ==
  [][state = "ESTOP" => state' = "ESTOP" /\ accepted' = accepted]_vars

(* The commands serviceCompletions() may lose sight of: no edge of theirs  *)
(* is seen, or one is seen before their fault is.                          *)
Unseen == instant \union eclipsed

(* A cycle in progress shares no axis with a command from the host: it     *)
(* only starts on a machine at rest, and onPacket() keeps others off       *)
(* until it ends, however it ends.  What it may find in a slot is the stale *)
(* entry of a move that no edge will settle.                               *)
CycleHasAxes ==
  Active(cycle) => \A a \in Axis : pend[a] \in {0} \union Unseen

(* No step of a cycle is ever refused by its axis, so RESULT_FAILED never  *)
(* comes from inside the sequencer: whatever stops a cycle is answered by  *)
(* the packet or the fault that stopped it.                                *)
StepsNeverRefused ==
  cycle.result # "FAILED"

(* The blade's targets are absolute: every step of a cycle runs on a homed *)
(* wiper, the re-home excepted, and that one leaves it homed again.        *)
SweepsReferenced ==
  Active(cycle) =>
    \/ axes["WIPE"].homed
    \/ cycle.step = "REHOME" /\ Busy(axes["WIPE"])

(* The open-loop wiper is never trusted for more completed cycles than     *)
(* WIPE_REHOME_INTERVAL, although the decision is taken at the start of a  *)
(* cycle and acted on at a point that depends on its park mode.            *)
RehomedInTime ==
  cycle.sinceRehome <= RehomeInterval

(* The blade travels back: the return traverse, or a re-home.  In supply   *)
(* park the re-home starts beside the switch, and crosses the bed only     *)
(* when it goes on to measure its travel.                                  *)
CrossesBed ==
  \/ cycle.step = "RETURN"
  \/ /\ cycle.step = "REHOME"
     /\ \/ Overflow(cycle)
        \/ axes["WIPE"].phase \in {"TRACK_SEEK", "TRACK_RETURN"}

(* Whenever steps are about to be made, a blade travelling back over the   *)
(* bed does not meet powder it has just spread, if the drop before it did  *)
(* lower the bed: in a single-pass overflow cycle, and in a supply cycle   *)
(* with a clearance until its re-home, even when a switch cuts the bed's   *)
(* move short under it.  The length of the drop and its sign are the       *)
(* host's: a drop that lowers nothing clears nothing.                      *)
BladeClear ==
  /\ pc = "motion"
  /\ CrossesBed
  /\ IF Overflow(cycle) THEN cycle.passes = 1
     ELSE cycle.clearance /\ cycle.step # "REHOME"
  /\ lowers
  => layer # "fresh"

(* What recoat.cpp says of the overflow park: "the build-plate drop [...]  *)
(* is also the clearance for the return traverse [...] the blade never     *)
(* crosses freshly spread powder".  No cycle checks that its drop drops.   *)
DropClearsReturn ==
  pc = "motion" /\ CrossesBed /\ Overflow(cycle) => layer # "fresh"

(* No accepted command loses its answer: until it is answered it holds one *)
(* of the slots, none of which is overwritten.  Only of a move that was    *)
(* over at once, or of one whose fault waited for another axis's, may the  *)
(* slot be taken by the next.                                              *)
NoAnswerLost ==
  \A i \in 1 .. accepted :
    answer[i] = "none" => i \in Unseen \/ \E s \in Slot : pend[s] = i

(* A cycle whose axis met a switch is over before anything is stepped      *)
(* again, though recoat::service() runs between the trip and the fault.    *)
CutCycleStops ==
  pc \in {"poll", "motion"} /\ Active(cycle) => pend["RECOAT"] \notin cut

Settles(s, verdict) ==
  /\ pend[s] # 0
  /\ answer[pend[s]] = "none"
  /\ answer'[pend[s]] = verdict

(* A move or a home is answered ACK_OK only if no switch cut it short, and *)
(* ACK_REFUSED only if one did or the emergency stop took it (PROTOCOL.md: *)
(* "a move that is cut short by a limit switch is answered ACK_REFUSED").  *)
(* The exceptions are what a fault that waits does: the command it was     *)
(* raised by may be answered OK, and the next on its axis refused; and a   *)
(* move that was over at once may be answered by what the axis does next.  *)
MoveAnswersHonest ==
  [][\A a \in Axis :
       /\ Settles(a, "OK") => pend[a] \notin cut \ eclipsed
       /\ Settles(a, "REFUSED") => \/ pend[a] \in cut \union late \union instant
                                   \/ state' = "ESTOP"]_vars

(* A home, or the re-home of a cycle, still looks for a switch. *)
SeeksFor(i) == \E a \in Axis : axes[a].phase \in SeekPhase /\ Owner(a) = i

(* Every accepted command is answered in the end (PROTOCOL.md: they "are   *)
(* answered with MSG_ACK when the work finishes"), a move of no length and *)
(* one whose fault waited excepted; unless it ends up seeking, for ever, a *)
(* switch that never closes.                                               *)
EveryCommandAnswered ==
  \A i \in Command :
    []<>~SeeksFor(i) => (accepted >= i ~> answer[i] # "none" \/ i \in Unseen)

(* The same of the work that does finish, without the other exceptions, as *)
(* PROTOCOL.md has it.                                                     *)
EveryMoveAnswered ==
  \A i \in Command :
    []<>~SeeksFor(i) => (accepted >= i ~> answer[i] # "none")

(* PROTOCOL.md without exceptions: no move that a switch cut is answered   *)
(* ACK_OK.                                                                 *)
CutMoveRefused ==
  [][\A a \in Axis : Settles(a, "OK") => pend[a] \notin cut]_vars

(* recoat.h of RESULT_FAILED: "an axis [...] hit an unexpected limit".  No *)
(* cycle is answered as done that a switch cut short.                      *)
CutCycleRefused ==
  [][Settles("RECOAT", "OK") => pend["RECOAT"] \notin cut]_vars
=============================================================================
