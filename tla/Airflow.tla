------------------------------- MODULE Airflow -------------------------------
(***************************************************************************)
(* The Mega's purge and fans (src/src/arduino-mega/airflow.cpp) with the   *)
(* oxygen readings they go by (sensors.cpp) and the parts of the loop that *)
(* command and report them (main.cpp).  pc names the part of loop() that   *)
(* runs next.  Time is counted in seconds, of which a round of the loop    *)
(* lets at most one pass; a fan's duty is one of four levels.              *)
(***************************************************************************)
EXTENDS Integers

CONSTANTS
  Ppm,           \* what an oxygen channel may read
  PpmMod,        \* readings and targets wrap here (2^16)
  Margin,        \* PURGE_HOLD_MARGIN_PPM
  Displace,      \* PURGE_STAGE1_S
  Hold,          \* PURGE_STAGE3_S
  Requests,      \* what a purge may be asked for, defaults filled in
  Horizon        \* bound of the clocks, past which nothing compares them

ASSUME AirflowAssumption ==
  /\ PpmMod \in Nat \ {0}
  /\ Ppm \subseteq 0 .. PpmMod - 1 /\ Ppm # {}
  /\ Margin \in Nat
  /\ Displace \in Nat
  /\ Hold \in Nat
  /\ Requests \subseteq
       [target : 0 .. PpmMod - 1, timeout : Nat, minMix : Nat]
  /\ Requests # {}
  /\ Horizon \in Nat /\ Displace <= Horizon /\ Hold <= Horizon
  /\ \A r \in Requests : r.timeout <= Horizon /\ r.minMix <= Horizon

VARIABLES
  pc,
  estop,         \* machine_state is STATE_ESTOP
  oxygen,        \* oxy_ppm; -1 before the channel is first sampled
  nextChannel,   \* next_channel, among the oxygen channels
  stage,         \* purge_stage
  changed,       \* stage_changed
  valve,         \* valve_open
  fans,
  request,       \* purge_target_ppm, purge_timeout_s, purge_min_mix_s
  elapsed,       \* seconds since stage_start_ms
  total,         \* seconds since purge_start_ms
  openSeconds,   \* purge_open_s
  result,        \* purge_result
  (* Observation only. *)
  told,          \* the last status published of a purge: its stage and result
  rose           \* oxygen was seen back at the limit since the valve shut

timers == <<elapsed, total>>
purge == <<stage, changed, valve, request, openSeconds, result>>
seen == <<told, rose>>
vars == <<pc, estop, oxygen, nextChannel, purge, fans, timers, seen>>

Channel == {0, 1}
Fan == {"blower", "radiator"}
Level == {"off", "host", "purge", "print"}
Stage == {"IDLE", "DISPLACE", "MIX", "VERIFY"}
Verdict == {"NONE", "PASSED", "FAILED"}

Purging == stage # "IDLE"

(* oxygenWorstPpm(): a channel not sampled yet is not valid and not looked *)
(* at; without any the answer is 0.                                        *)
Worst == IF oxygen[0] >= oxygen[1]
           THEN IF oxygen[0] = -1 THEN 0 ELSE oxygen[0] ELSE oxygen[1]

Init ==
  /\ pc = "poll"
  /\ estop = FALSE
  /\ oxygen = [c \in Channel |-> -1]
  /\ nextChannel = 0
  /\ stage = "IDLE"
  /\ changed = FALSE
  /\ valve = "shut"
  /\ fans = [f \in Fan |-> "off"]
  /\ request \in Requests
  /\ elapsed = 0
  /\ total = 0
  /\ openSeconds = 0
  /\ result = "NONE"
  /\ told = [stage |-> "IDLE", result |-> "NONE"]
  /\ rose = FALSE

-----------------------------------------------------------------------------
(* A faulty variant: the stage is set before it is compared. *)
EnterStageUnflagged(s) ==
  /\ stage' = s
  /\ changed' = changed
  /\ elapsed' = 0
  /\ valve' = IF s \in {"DISPLACE", "MIX"} THEN "open" ELSE "shut"
  /\ fans' = [fans EXCEPT !["blower"] =
                CASE s = "DISPLACE" -> "off"
                  [] s = "MIX"      -> "purge"
                  [] s = "VERIFY"   -> @
                  [] s = "IDLE"     -> "print"]

(* enterStage(): the outputs, the flag and the stage's clock.  The blower  *)
(* keeps running into VERIFY.                                              *)
EnterStage(s) ==
  /\ stage' = s
  /\ changed' = (changed \/ s # stage)
  /\ elapsed' = 0
  /\ valve' = IF s \in {"DISPLACE", "MIX"} THEN "open" ELSE "shut"
  /\ fans' = [fans EXCEPT !["blower"] =
                CASE s = "DISPLACE" -> "off"
                  [] s = "MIX"      -> "purge"
                  [] s = "VERIFY"   -> @
                  [] s = "IDLE"     -> "print"]

(* The packets.  Past the emergency stop nothing but reports is answered.  *)
Listening == pc = "poll" /\ ~estop

(* setPurge() with enable set *)
PurgeStart(r) ==
  /\ Listening
  /\ ~Purging
  /\ EnterStage("DISPLACE")
  /\ request' = r
  /\ result' = "NONE"
  /\ openSeconds' = 0
  /\ total' = 0
  /\ UNCHANGED <<pc, estop, oxygen, nextChannel, seen>>

(* setPurge() with enable clear, purging or not.  The stage is left        *)
(* without stage_changed, and no status is published.                      *)
PurgeAbort ==
  /\ Listening
  /\ stage' = "IDLE"
  /\ result' = "NONE"
  /\ valve' = "shut"
  /\ fans' = [fans EXCEPT !["blower"] = "off"]
  /\ elapsed' = 0 /\ total' = 0
  /\ UNCHANGED <<pc, estop, oxygen, nextChannel, changed, request, openSeconds, seen>>

(* A faulty variant: the purge does not own its blower. *)
FanSetAlways(f, level) ==
  /\ Listening
  /\ fans' = [fans EXCEPT ![f] = level]
  /\ UNCHANGED <<pc, estop, oxygen, nextChannel, purge, timers, seen>>

(* setFan(), FAN_MODE_OFF or FAN_MODE_MANUAL *)
FanSet(f, level) ==
  /\ Listening
  /\ ~(f = "blower" /\ Purging)
  /\ fans' = [fans EXCEPT ![f] = level]
  /\ UNCHANGED <<pc, estop, oxygen, nextChannel, purge, timers, seen>>

(* A faulty variant: allOff() leaves the stage to run on. *)
EstopOutputsOnly ==
  /\ pc = "poll"
  /\ estop' = TRUE
  /\ fans' = [f \in Fan |-> "off"]
  /\ result' = "NONE"
  /\ valve' = "shut"
  /\ UNCHANGED <<pc, oxygen, nextChannel, stage, timers, changed, request>>
  /\ UNCHANGED <<openSeconds, seen>>

(* enterEstop(): allOff() *)
Estop ==
  /\ pc = "poll"
  /\ estop' = TRUE
  /\ fans' = [f \in Fan |-> "off"]
  /\ stage' = "IDLE"
  /\ result' = "NONE"
  /\ valve' = "shut"
  /\ elapsed' = 0 /\ total' = 0
  /\ UNCHANGED <<pc, oxygen, nextChannel, changed, request, openSeconds, seen>>

Packet ==
  \/ \E r \in Requests : PurgeStart(r)
  \/ PurgeAbort
  \/ \E f \in Fan, level \in {"off", "host"} : FanSet(f, level)
  \/ Estop

(* The clocks run in a purge only, and stop at the bound. *)
Advanced(clock, seconds) ==
  IF ~Purging THEN 0
  ELSE IF clock + seconds <= Horizon THEN clock + seconds ELSE Horizon

(* The poll is over; up to a second may pass before the purge is serviced. *)
PollDone(seconds) ==
  /\ pc = "poll"
  /\ pc' = "sensors"
  /\ elapsed' = Advanced(elapsed, seconds)
  /\ total' = Advanced(total, seconds)
  /\ UNCHANGED <<estop, oxygen, nextChannel, purge, fans, seen>>

-----------------------------------------------------------------------------
(* A faulty variant: the next channel does not wrap. *)
SensorsServiceUnwrapped ==
  /\ pc = "sensors"
  /\ pc' = "airflow"
  /\ \/ UNCHANGED <<oxygen, nextChannel>>
     \/ /\ \E ppm \in Ppm : oxygen' = [oxygen EXCEPT ![nextChannel] = ppm]
        /\ nextChannel' = nextChannel + 1
  /\ UNCHANGED <<estop, purge, fans, timers, seen>>

(* sensors::service(): the next channel, unless it is not time yet or the  *)
(* next one is a thermistor.                                               *)
SensorsService ==
  /\ pc = "sensors"
  /\ pc' = "airflow"
  /\ \/ UNCHANGED <<oxygen, nextChannel>>
     \/ /\ \E ppm \in Ppm : oxygen' = [oxygen EXCEPT ![nextChannel] = ppm]
        /\ nextChannel' = 1 - nextChannel
  /\ UNCHANGED <<estop, purge, fans, timers, seen>>

(* airflow::service(), a stage each.                                       *)
StageElapsed(seconds) == elapsed >= seconds

(* A uint16_t sum. *)
Limit == (request.target + Margin) % PpmMod

DisplaceDone ==
  /\ stage = "DISPLACE"
  /\ StageElapsed(Displace)
  /\ EnterStage("MIX")
  /\ UNCHANGED <<total, request, openSeconds, result>>

(* A faulty variant: a timeout does not end the mix. *)
MixOverByReading == StageElapsed(request.minMix) /\ Worst < request.target

(* A reading low enough ends the mix once the minimum is over; the timeout *)
(* ends it at any reading, and before the minimum if it is shorter.        *)
MixOver ==
  \/ StageElapsed(request.minMix) /\ Worst < request.target
  \/ StageElapsed(request.timeout)

MixDone ==
  /\ stage = "MIX"
  /\ MixOver
  /\ EnterStage("VERIFY")
  /\ openSeconds' = total
  /\ UNCHANGED <<total, request, result>>

HoldFailed ==
  /\ stage = "VERIFY"
  /\ Worst >= Limit
  /\ EnterStage("IDLE")
  /\ result' = "FAILED"
  /\ UNCHANGED <<total, request, openSeconds>>

(* A faulty variant: the time is looked at before the reading. *)
HoldPassedUnseen ==
  /\ stage = "VERIFY"
  /\ StageElapsed(Hold)
  /\ EnterStage("IDLE")
  /\ result' = "PASSED"
  /\ UNCHANGED <<total, request, openSeconds>>

HoldPassed ==
  /\ stage = "VERIFY"
  /\ Worst < Limit
  /\ StageElapsed(Hold)
  /\ EnterStage("IDLE")
  /\ result' = "PASSED"
  /\ UNCHANGED <<total, request, openSeconds>>

StageGoesOn ==
  /\ CASE stage = "IDLE"     -> TRUE
       [] stage = "DISPLACE" -> ~StageElapsed(Displace)
       [] stage = "MIX"      -> ~MixOver
       [] stage = "VERIFY"   -> Worst < Limit /\ ~StageElapsed(Hold)
  /\ UNCHANGED <<purge, fans, timers>>

AirflowService ==
  /\ pc = "airflow"
  /\ pc' = "faults"
  /\ DisplaceDone \/ MixDone \/ HoldFailed \/ HoldPassed \/ StageGoesOn
  /\ rose' = (stage = "VERIFY" /\ (rose \/ Worst >= request.target + Margin))
  /\ UNCHANGED <<estop, oxygen, nextChannel, told>>

-----------------------------------------------------------------------------
(* A faulty variant: the result is read and stays to be read again. *)
ServiceFaultsAgain ==
  /\ pc = "faults"
  /\ pc' = "reports"
  /\ told' = IF result # "NONE" THEN [stage |-> stage, result |-> result] ELSE told
  /\ UNCHANGED <<estop, oxygen, nextChannel, purge, fans, timers, rose>>

(* serviceFaults(): the result is consumed and logged, and then a status   *)
(* is filled in from what is left.                                         *)
ServiceFaults ==
  /\ pc = "faults"
  /\ pc' = "reports"
  /\ result' = "NONE"
  /\ told' = IF result # "NONE" THEN [stage |-> stage, result |-> result'] ELSE told
  /\ UNCHANGED <<estop, oxygen, nextChannel, stage, changed, valve, request>>
  /\ UNCHANGED <<openSeconds, fans, timers, rose>>

(* serviceReports(): on a change of stage, and now and then in between.    *)
ServiceReports ==
  /\ pc = "reports"
  /\ pc' = "poll"
  /\ changed' = (changed /\ ~Purging)
  /\ told' \in IF ~Purging THEN {told}
               ELSE {[stage |-> stage, result |-> result]}
                      \union (IF changed THEN {} ELSE {told})
  /\ UNCHANGED <<estop, oxygen, nextChannel, stage, valve, request>>
  /\ UNCHANGED <<openSeconds, result, fans, timers, rose>>

LoopStep ==
  \/ \E seconds \in {0, 1} : PollDone(seconds)
  \/ SensorsService
  \/ AirflowService
  \/ ServiceFaults
  \/ ServiceReports

Next == Packet \/ LoopStep

Spec == Init /\ [][Next]_vars

(* The loop goes round for ever, and time passes. *)
FairSpec == Spec /\ WF_vars(LoopStep) /\ SF_vars(PollDone(1))

-----------------------------------------------------------------------------
(* Properties.                                                             *)

(* The type of every variable. *)
TypeOK ==
  /\ pc \in {"poll", "sensors", "airflow", "faults", "reports"}
  /\ estop \in BOOLEAN
  /\ oxygen \in [Channel -> Ppm \union {-1}]
  /\ nextChannel \in Channel
  /\ stage \in Stage
  /\ changed \in BOOLEAN
  /\ valve \in {"open", "shut"}
  /\ fans \in [Fan -> Level]
  /\ request \in Requests
  /\ elapsed \in Nat /\ total \in Nat /\ elapsed <= total
  /\ openSeconds \in Nat
  /\ result \in Verdict
  /\ told \in [stage : Stage, result : Verdict]
  /\ rose \in BOOLEAN

(* The valve and the blower are where the stage wants them, whatever the   *)
(* host asks of the fan meanwhile and however the purge ended: argon flows *)
(* in DISPLACE and MIX only, air is stirred in MIX and VERIFY only.        *)
OutputsFollowStage ==
  /\ valve = "open" <=> stage \in {"DISPLACE", "MIX"}
  /\ stage = "DISPLACE" => fans["blower"] = "off"
  /\ stage \in {"MIX", "VERIFY"} => fans["blower"] = "purge"

(* After an emergency stop no part of the loop opens the valve or starts a *)
(* fan again, as airflow::service() would with a stage left to run.        *)
EstopAirOff ==
  estop => /\ ~Purging /\ valve = "shut" /\ \A f \in Fan : fans[f] = "off"
           /\ result = "NONE"

(* A purge passes only if oxygen stayed below the limit in every round of  *)
(* the hold, and fails only if it did not.                                 *)
VerdictHonest ==
  [][/\ result = "NONE" /\ result' = "PASSED" => ~rose'
     /\ result = "NONE" /\ result' = "FAILED" => rose']_vars

(* A verdict is taken up in the round that reached it: no later purge,     *)
(* abort or round can find it.                                             *)
VerdictTakenUp == pc \in {"poll", "sensors", "airflow"} => result = "NONE"

(* A host knows the stage of a running purge at the end of every round     *)
(* (PROTOCOL.md: a status "is published on every stage change"), although  *)
(* stage_changed survives the end of a purge unread.                       *)
StagePublished ==
  [][pc = "reports" /\ Purging => told'.stage = stage]_vars

(* Every purge ends, whatever oxygen does. *)
EveryPurgeEnds == Purging ~> ~Purging

-----------------------------------------------------------------------------
(* What the documents say and the code does not keep to.                   *)

(* The status published at the end of a purge tells its verdict            *)
(* (protocol.h: purge_status_t.result is "meaningful once stage is IDLE"). *)
VerdictPublished ==
  [][pc = "faults" /\ result # "NONE" => told'.result = result]_vars
=============================================================================
