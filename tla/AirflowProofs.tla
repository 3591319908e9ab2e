---------------------------- MODULE AirflowProofs ----------------------------
(***************************************************************************)
(* Proofs about Airflow, for every set of readings and requests and every  *)
(* length of the stages.                                                   *)
(***************************************************************************)
EXTENDS Airflow, TLAPS

(* Entering a stage puts the outputs where the stage wants them, if the    *)
(* blower ran for the purge wherever VERIFY is entered.                    *)
LEMMA EnterStageOutputs ==
  ASSUME TypeOK, NEW s \in Stage, EnterStage(s),
         s = "VERIFY" => fans["blower"] = "purge"
  PROVE  OutputsFollowStage'
<1>1. stage' = s
  BY DEF EnterStage
<1>2. valve' = IF s \in {"DISPLACE", "MIX"} THEN "open" ELSE "shut"
  BY DEF EnterStage
<1>3. /\ s = "DISPLACE" => fans'["blower"] = "off"
      /\ s \in {"MIX", "VERIFY"} => fans'["blower"] = "purge"
  BY DEF TypeOK, EnterStage, Fan, Level, Stage
<1> QED
  BY <1>1, <1>2, <1>3 DEF OutputsFollowStage, Stage

-----------------------------------------------------------------------------
(* Types.                                                                  *)

LEMMA PacketTyped == TypeOK /\ Packet => TypeOK'
<1> SUFFICES ASSUME TypeOK, Packet PROVE TypeOK'
  OBVIOUS
<1> USE AirflowAssumption
<1>1. ASSUME NEW r \in Requests, PurgeStart(r) PROVE TypeOK'
  <2>1. fans' \in [Fan -> Level] /\ stage' \in Stage
    BY <1>1 DEF TypeOK, PurgeStart, EnterStage, Fan, Level, Stage
  <2> QED
    BY <1>1, <2>1 DEF TypeOK, PurgeStart, EnterStage, Verdict, seen
<1>2. CASE PurgeAbort
  <2>1. fans' \in [Fan -> Level]
    BY <1>2 DEF TypeOK, PurgeAbort, Fan, Level
  <2> QED
    BY <1>2, <2>1 DEF TypeOK, PurgeAbort, Stage, Verdict, seen
<1>3. ASSUME NEW f \in Fan, NEW level \in {"off", "host"}, FanSet(f, level)
      PROVE  TypeOK'
  <2>1. fans' \in [Fan -> Level]
    BY <1>3 DEF TypeOK, FanSet, Level
  <2> QED
    BY <1>3, <2>1 DEF TypeOK, FanSet, purge, timers, seen
<1>4. CASE Estop
  <2>1. fans' \in [Fan -> Level]
    BY <1>4 DEF TypeOK, Estop, Level
  <2> QED
    BY <1>4, <2>1 DEF TypeOK, Estop, Stage, Verdict, seen
<1> QED
  BY <1>1, <1>2, <1>3, <1>4 DEF Packet

LEMMA ServiceTyped == TypeOK /\ AirflowService => TypeOK'
<1> SUFFICES ASSUME TypeOK, AirflowService PROVE TypeOK'
  OBVIOUS
<1> USE AirflowAssumption
<1>1. rose' \in BOOLEAN
  BY DEF AirflowService, TypeOK
<1>2. /\ pc' = "faults"
      /\ UNCHANGED <<estop, oxygen, nextChannel, told>>
  BY DEF AirflowService
<1>3. ASSUME NEW s \in Stage, EnterStage(s)
      PROVE  /\ fans' \in [Fan -> Level] /\ stage' \in Stage
             /\ valve' \in {"open", "shut"} /\ changed' \in BOOLEAN
             /\ elapsed' = 0
  BY <1>3 DEF TypeOK, EnterStage, Fan, Level, Stage
<1>4. CASE DisplaceDone
  <2>1. EnterStage("MIX") /\ "MIX" \in Stage
    BY <1>4 DEF DisplaceDone, Stage
  <2> QED
    BY <1>1, <1>2, <1>3, <1>4, <2>1 DEF TypeOK, DisplaceDone
<1>5. CASE MixDone
  <2>1. EnterStage("VERIFY") /\ "VERIFY" \in Stage
    BY <1>5 DEF MixDone, Stage
  <2> QED
    BY <1>1, <1>2, <1>3, <1>5, <2>1 DEF TypeOK, MixDone
<1>6. CASE HoldFailed \/ HoldPassed
  <2>1. EnterStage("IDLE") /\ "IDLE" \in Stage
    BY <1>6 DEF HoldFailed, HoldPassed, Stage
  <2> QED
    BY <1>1, <1>2, <1>3, <1>6, <2>1 DEF TypeOK, HoldFailed, HoldPassed, Verdict
<1>7. CASE StageGoesOn
  BY <1>1, <1>2, <1>7 DEF TypeOK, StageGoesOn, purge, timers
<1> QED
  BY <1>4, <1>5, <1>6, <1>7 DEF AirflowService

(* Type correctness for every reading, request and stage length: the ring  *)
(* of channels, the clocks of the purge and of its stage, and what is told *)
(* of it.                                                                  *)
THEOREM AirflowTyped == Spec => []TypeOK
<1>1. Init => TypeOK
  <2> SUFFICES ASSUME Init PROVE TypeOK
    OBVIOUS
  <2>1. oxygen \in [Channel -> Ppm \union {-1}] /\ nextChannel \in Channel
    BY DEF Init, Channel
  <2>2. told \in [stage : Stage, result : Verdict]
    BY DEF Init, Stage, Verdict
  <2>3. fans \in [Fan -> Level]
    BY DEF Init, Level
  <2>4. rose \in BOOLEAN /\ changed \in BOOLEAN /\ estop \in BOOLEAN
    BY DEF Init
  <2>5. /\ pc = "poll" /\ valve = "shut"
        /\ request \in Requests
        /\ stage \in Stage /\ result \in Verdict
    BY DEF Init, Stage, Verdict
  <2>6. /\ elapsed \in Nat /\ total \in Nat /\ elapsed <= total
        /\ openSeconds \in Nat
    BY DEF Init
  <2> QED
    BY <2>1, <2>2, <2>3, <2>4, <2>5, <2>6 DEF TypeOK
<1>2. TypeOK /\ [Next]_vars => TypeOK'
  <2> SUFFICES ASSUME TypeOK, [Next]_vars PROVE TypeOK'
    OBVIOUS
  <2>1. CASE Packet
    BY <2>1, PacketTyped
  <2>2. ASSUME NEW seconds \in {0, 1}, PollDone(seconds) PROVE TypeOK'
    <3>1. elapsed' \in Nat /\ total' \in Nat /\ elapsed' <= total'
      BY <2>2, AirflowAssumption DEF PollDone, TypeOK, Advanced
    <3> QED
      BY <2>2, <3>1 DEF TypeOK, PollDone, purge, seen
  <2>3. CASE SensorsService
    <3>1. oxygen' \in [Channel -> Ppm \union {-1}] /\ nextChannel' \in Channel
      BY <2>3 DEF SensorsService, TypeOK, Channel
    <3> QED
      BY <2>3, <3>1 DEF TypeOK, SensorsService, purge, timers, seen
  <2>4. CASE AirflowService
    BY <2>4, ServiceTyped
  <2>5. CASE ServiceFaults
    BY <2>5 DEF TypeOK, ServiceFaults, timers, Verdict
  <2>6. CASE ServiceReports
    <3>1. told' \in [stage : Stage, result : Verdict]
      BY <2>6 DEF ServiceReports, TypeOK
    <3>2. changed' \in BOOLEAN
      BY <2>6 DEF ServiceReports, TypeOK
    <3> QED
      BY <2>6, <3>1, <3>2 DEF TypeOK, ServiceReports, timers
  <2>7. CASE UNCHANGED vars
    BY <2>7 DEF TypeOK, vars, purge, timers, seen
  <2> QED
    BY <2>1, <2>2, <2>3, <2>4, <2>5, <2>6, <2>7 DEF Next, LoopStep
<1> QED
  BY <1>1, <1>2, PTL DEF Spec

-----------------------------------------------------------------------------
(* Safety.                                                                 *)

LEMMA EnterStageTo ==
  ASSUME NEW s, EnterStage(s)
  PROVE  stage' = s
  BY DEF EnterStage

LEMMA PacketOutputs ==
  TypeOK /\ OutputsFollowStage /\ Packet => OutputsFollowStage'
<1> SUFFICES ASSUME TypeOK, OutputsFollowStage, Packet PROVE OutputsFollowStage'
  OBVIOUS
<1>1. ASSUME NEW r \in Requests, PurgeStart(r) PROVE OutputsFollowStage'
  BY <1>1, EnterStageOutputs DEF PurgeStart, Stage
<1>2. CASE PurgeAbort
  BY <1>2 DEF PurgeAbort, OutputsFollowStage
<1>3. ASSUME NEW f \in Fan, NEW level \in {"off", "host"}, FanSet(f, level)
      PROVE  OutputsFollowStage'
  <2>1. ~Purging \/ fans'["blower"] = fans["blower"]
    BY <1>3 DEF FanSet, TypeOK, Fan
  <2>2. UNCHANGED <<stage, valve>>
    BY <1>3 DEF FanSet, purge
  <2> QED
    BY <2>1, <2>2 DEF OutputsFollowStage, Purging
<1>4. CASE Estop
  BY <1>4 DEF Estop, OutputsFollowStage
<1> QED
  BY <1>1, <1>2, <1>3, <1>4 DEF Packet

LEMMA ServiceOutputs ==
  TypeOK /\ OutputsFollowStage /\ AirflowService => OutputsFollowStage'
<1> SUFFICES ASSUME TypeOK, OutputsFollowStage, AirflowService
             PROVE  OutputsFollowStage'
  OBVIOUS
<1>1. CASE DisplaceDone
  BY <1>1, EnterStageOutputs DEF DisplaceDone, Stage
<1>2. CASE MixDone
  <2>1. fans["blower"] = "purge" /\ EnterStage("VERIFY")
    BY <1>2 DEF MixDone, OutputsFollowStage
  <2> QED
    BY <2>1, EnterStageOutputs DEF Stage
<1>3. CASE HoldFailed \/ HoldPassed
  BY <1>3, EnterStageOutputs DEF HoldFailed, HoldPassed, Stage
<1>4. CASE StageGoesOn
  BY <1>4 DEF StageGoesOn, purge, OutputsFollowStage
<1> QED
  BY <1>1, <1>2, <1>3, <1>4 DEF AirflowService

(* The valve and the blower are where the stage wants them in every        *)
(* reachable state, whatever packets come between two rounds.              *)
THEOREM OutputsAlwaysFollowStage == Spec => []OutputsFollowStage
<1>1. Init => OutputsFollowStage
  BY DEF Init, OutputsFollowStage
<1>2. TypeOK /\ OutputsFollowStage /\ [Next]_vars => OutputsFollowStage'
  <2> SUFFICES ASSUME TypeOK, OutputsFollowStage, [Next]_vars
               PROVE  OutputsFollowStage'
    OBVIOUS
  <2>1. CASE Packet
    BY <2>1, PacketOutputs
  <2>2. CASE AirflowService
    BY <2>2, ServiceOutputs
  <2>3. CASE \/ \E seconds \in {0, 1} : PollDone(seconds)
             \/ SensorsService
             \/ ServiceFaults
             \/ ServiceReports
             \/ UNCHANGED vars
    <3>1. UNCHANGED <<stage, valve, fans>>
      BY <2>3
      DEF PollDone, SensorsService, ServiceFaults, ServiceReports, vars, purge
    <3> QED
      BY <3>1 DEF OutputsFollowStage
  <2> QED
    BY <2>1, <2>2, <2>3 DEF Next, LoopStep
<1> QED
  BY <1>1, <1>2, AirflowTyped, PTL DEF Spec

(* With the emergency stop latched nothing flows and no fan runs, for ever:*)
(* the stage it leaves idle keeps airflow::service() from the outputs.     *)
THEOREM EstopAlwaysAirOff == Spec => []EstopAirOff
<1>1. Init => EstopAirOff
  BY DEF Init, EstopAirOff
<1>2. TypeOK /\ EstopAirOff /\ [Next]_vars => EstopAirOff'
  <2> SUFFICES ASSUME TypeOK, EstopAirOff, [Next]_vars, estop'
               PROVE  EstopAirOff'
    BY DEF EstopAirOff
  <2>1. CASE Packet
    <3>1. CASE Estop
      BY <3>1 DEF Estop, EstopAirOff, Purging
    <3>2. CASE ~Estop
      BY <2>1, <3>2 DEF Packet, PurgeStart, PurgeAbort, FanSet, Listening
    <3> QED
      BY <3>1, <3>2
  <2>2. CASE AirflowService
    <3>1. estop /\ stage = "IDLE"
      BY <2>2 DEF AirflowService, EstopAirOff, Purging
    <3>2. StageGoesOn
      BY <2>2, <3>1
      DEF AirflowService, DisplaceDone, MixDone, HoldFailed, HoldPassed
    <3> QED
      BY <3>1, <3>2 DEF StageGoesOn, purge, EstopAirOff, Purging
  <2>3. CASE ServiceFaults
    BY <2>3 DEF ServiceFaults, EstopAirOff, Purging
  <2>4. CASE \/ \E seconds \in {0, 1} : PollDone(seconds)
             \/ SensorsService
             \/ ServiceReports
             \/ UNCHANGED vars
    <3>1. UNCHANGED <<estop, stage, valve, fans, result>>
      BY <2>4 DEF PollDone, SensorsService, ServiceReports, vars, purge
    <3> QED
      BY <3>1 DEF EstopAirOff, Purging
  <2> QED
    BY <2>1, <2>2, <2>3, <2>4 DEF Next, LoopStep
<1> QED
  BY <1>1, <1>2, AirflowTyped, PTL DEF Spec

(* Between two rounds no hold that goes on has seen oxygen at the limit:   *)
(* it would have failed in the round that saw it.                          *)
HoldUnbroken == rose => stage # "VERIFY"

LEMMA WorstTyped == TypeOK => Worst \in Int
<1> SUFFICES ASSUME TypeOK PROVE Worst \in Int
  OBVIOUS
<1>1. oxygen[0] \in Ppm \union {-1} /\ oxygen[1] \in Ppm \union {-1}
  BY DEF TypeOK, Channel
<1>2. \A ppm \in Ppm : ppm \in Int
  <2>1. PpmMod - 1 \in Int /\ Ppm \subseteq 0 .. PpmMod - 1
    BY AirflowAssumption
  <2> QED
    BY <2>1
<1> QED
  BY <1>1, <1>2 DEF Worst

(* For requests whose limit does not wrap at 16 bits, a purge passes only  *)
(* if oxygen stayed below the limit in every round of the hold, and fails  *)
(* only if it did not.                                                     *)
THEOREM VerdictAlwaysHonest ==
  ASSUME \A r \in Requests : r.target + Margin < PpmMod
  PROVE  Spec => VerdictHonest
<1>1. Init => HoldUnbroken
  BY DEF Init, HoldUnbroken
<1>2. TypeOK => Limit = request.target + Margin /\ Limit \in Nat
  BY AirflowAssumption DEF TypeOK, Limit
<1>3. TypeOK /\ HoldUnbroken /\ [Next]_vars =>
        /\ HoldUnbroken'
        /\ result = "NONE" /\ result' = "PASSED" => ~rose'
        /\ result = "NONE" /\ result' = "FAILED" => rose'
  <2> DEFINE Goal == /\ HoldUnbroken'
                     /\ result = "NONE" /\ result' = "PASSED" => ~rose'
                     /\ result = "NONE" /\ result' = "FAILED" => rose'
  <2> SUFFICES ASSUME TypeOK, HoldUnbroken, [Next]_vars PROVE Goal
    OBVIOUS
  <2>1. CASE Packet
    BY <2>1, EnterStageTo
    DEF Packet, PurgeStart, PurgeAbort, FanSet, Estop, purge, seen, HoldUnbroken
  <2>2. CASE AirflowService
    <3>1. rose' = (stage = "VERIFY" /\ (rose \/ Worst >= Limit))
      BY <1>2, <2>2 DEF AirflowService
    <3>2. CASE DisplaceDone
      BY <3>1, <3>2, EnterStageTo DEF DisplaceDone, HoldUnbroken
    <3>3. CASE MixDone
      BY <3>1, <3>3 DEF MixDone, HoldUnbroken
    <3>4. CASE HoldFailed
      BY <3>1, <3>4, EnterStageTo DEF HoldFailed, HoldUnbroken
    <3>5. CASE HoldPassed
      <4>1. Worst \in Int
        BY WorstTyped
      <4>2. ~(Worst >= Limit)
        BY <1>2, <3>5, <4>1 DEF HoldPassed
      <4>3. ~rose'
        BY <3>1, <3>5, <4>2 DEF HoldPassed, HoldUnbroken
      <4> QED
        BY <3>5, <4>3 DEF HoldPassed, HoldUnbroken
    <3>6. CASE StageGoesOn
      <4>1. Worst \in Int
        BY WorstTyped
      <4>2. stage = "VERIFY" => ~(Worst >= Limit)
        BY <1>2, <3>6, <4>1 DEF StageGoesOn
      <4>3. stage = "VERIFY" => ~rose'
        BY <3>1, <4>2 DEF HoldUnbroken
      <4> QED
        BY <3>1, <3>6, <4>3 DEF StageGoesOn, purge, HoldUnbroken
    <3> QED
      BY <2>2, <3>2, <3>3, <3>4, <3>5, <3>6 DEF AirflowService
  <2>3. CASE \/ \E seconds \in {0, 1} : PollDone(seconds)
             \/ SensorsService
             \/ ServiceFaults
             \/ ServiceReports
             \/ UNCHANGED vars
    <3>1. /\ UNCHANGED <<stage, rose>>
          /\ result' \in {result, "NONE"}
      BY <2>3
      DEF PollDone, SensorsService, ServiceFaults, ServiceReports, vars, purge, seen
    <3> QED
      BY <3>1 DEF HoldUnbroken
  <2> QED
    BY <2>1, <2>2, <2>3 DEF Next, LoopStep
<1>4. TypeOK /\ HoldUnbroken /\ [Next]_vars => HoldUnbroken'
  BY <1>3
<1>5. TypeOK /\ HoldUnbroken /\ [Next]_vars =>
        [/\ result = "NONE" /\ result' = "PASSED" => ~rose'
         /\ result = "NONE" /\ result' = "FAILED" => rose']_vars
  BY <1>3
<1> QED
  BY <1>1, <1>4, <1>5, AirflowTyped, PTL DEF Spec, VerdictHonest

-----------------------------------------------------------------------------
(* What the rest of the loop is told.                                      *)

(* Only serviceFaults() comes between a verdict and its being taken up.    *)
Untaken == result # "NONE" => pc = "faults"

(* A verdict is taken up in the round that reached it, for every reading,  *)
(* request and stage length.                                               *)
THEOREM VerdictAlwaysTakenUp == Spec => []VerdictTakenUp
<1>1. Init => Untaken
  BY DEF Init, Untaken
<1>2. Untaken /\ [Next]_vars => Untaken'
  <2> SUFFICES ASSUME Untaken, [Next]_vars PROVE Untaken'
    OBVIOUS
  <2>1. CASE Packet
    BY <2>1 DEF Packet, PurgeStart, PurgeAbort, FanSet, Estop, Listening,
       purge, Untaken
  <2>2. CASE AirflowService
    BY <2>2 DEF AirflowService, Untaken
  <2>3. CASE ServiceFaults
    BY <2>3 DEF ServiceFaults, Untaken
  <2>4. CASE \E seconds \in {0, 1} : PollDone(seconds)
    BY <2>4 DEF PollDone, purge, Untaken
  <2>5. CASE SensorsService
    BY <2>5 DEF SensorsService, purge, Untaken
  <2>6. CASE ServiceReports
    BY <2>6 DEF ServiceReports, Untaken
  <2>7. CASE UNCHANGED vars
    BY <2>7 DEF vars, purge, Untaken
  <2> QED
    BY <2>1, <2>2, <2>3, <2>4, <2>5, <2>6, <2>7 DEF Next, LoopStep
<1>3. Untaken => VerdictTakenUp
  BY DEF Untaken, VerdictTakenUp
<1> QED
  BY <1>1, <1>2, <1>3, PTL DEF Spec

(* A stage the host was not told of is still flagged, although the flag is *)
(* read behind a short circuit and survives the end of a purge.            *)
Flagged == Purging /\ ~changed => told.stage = stage

LEMMA EnterStageFlagged ==
  ASSUME TypeOK, Flagged, NEW s, EnterStage(s), UNCHANGED told
  PROVE  Flagged'
<1>1. stage' = s /\ changed' = (changed \/ s # stage)
  BY DEF EnterStage
<1>2. CASE s = stage
  BY <1>1, <1>2 DEF Flagged, Purging, TypeOK
<1>3. CASE s # stage
  BY <1>1, <1>3 DEF Flagged
<1> QED
  BY <1>2, <1>3

(* The host knows the stage of a running purge at the end of every round.  *)
THEOREM StageAlwaysPublished == Spec => StagePublished
<1>1. Init => Flagged
  BY DEF Init, Flagged, Purging
<1>2. TypeOK /\ Flagged /\ [Next]_vars => Flagged'
  <2> SUFFICES ASSUME TypeOK, Flagged, [Next]_vars PROVE Flagged'
    OBVIOUS
  <2>1. ASSUME NEW r \in Requests, PurgeStart(r) PROVE Flagged'
    BY <2>1, EnterStageFlagged DEF PurgeStart, seen
  <2>2. CASE PurgeAbort \/ Estop
    BY <2>2 DEF PurgeAbort, Estop, Flagged, Purging
  <2>3. CASE AirflowService
    <3>1. UNCHANGED told
      BY <2>3 DEF AirflowService
    <3>2. CASE StageGoesOn
      BY <3>1, <3>2 DEF StageGoesOn, purge, Flagged, Purging
    <3> QED
      BY <2>3, <3>1, <3>2, EnterStageFlagged
      DEF AirflowService, DisplaceDone, MixDone, HoldFailed, HoldPassed
  <2>4. CASE ServiceFaults
    BY <2>4 DEF ServiceFaults, Flagged, Purging
  <2>5. CASE ServiceReports
    BY <2>5 DEF ServiceReports, Flagged, Purging
  <2>6. CASE \/ \E f \in Fan, level \in {"off", "host"} : FanSet(f, level)
             \/ \E seconds \in {0, 1} : PollDone(seconds)
             \/ SensorsService
             \/ UNCHANGED vars
    <3>1. UNCHANGED <<stage, changed, told>>
      BY <2>6 DEF FanSet, PollDone, SensorsService, vars, purge, seen
    <3> QED
      BY <3>1 DEF Flagged, Purging
  <2> QED
    BY <2>1, <2>2, <2>3, <2>4, <2>5, <2>6 DEF Next, Packet, LoopStep
<1>3. Flagged /\ [Next]_vars =>
        [pc = "reports" /\ Purging => told'.stage = stage]_vars
  <2> SUFFICES ASSUME Flagged, [Next]_vars, pc = "reports", Purging,
                      ~UNCHANGED vars
               PROVE  told'.stage = stage
    OBVIOUS
  <2>1. ServiceReports
    BY DEF Next, Packet, LoopStep, PurgeStart, PurgeAbort, FanSet, Estop,
       Listening, PollDone, SensorsService, AirflowService, ServiceFaults
  <2> QED
    BY <2>1 DEF ServiceReports, Flagged
<1> QED
  BY <1>1, <1>2, <1>3, AirflowTyped, PTL DEF Spec, StagePublished
-----------------------------------------------------------------------------
(* How long a purge lasts.                                                 *)

(* A stage, of no length too, lasts up to the next service at least.       *)
AtLeastOne(seconds) == IF seconds = 0 THEN 1 ELSE seconds

DisplaceTakes == AtLeastOne(Displace)
MixTakes == AtLeastOne(request.timeout)
HoldTakes == AtLeastOne(Hold)

(* Argon flows no longer than the displacement and the timeout asked for,  *)
(* and the purge ends with the hold: no reading keeps a stage going, and   *)
(* no fan packet or other round of the loop starts its clock again.        *)
PurgeBounded ==
  /\ valve = "open" => total <= DisplaceTakes + MixTakes
  /\ openSeconds <= DisplaceTakes + MixTakes
  /\ Purging => total <= DisplaceTakes + MixTakes + HoldTakes

(* The clock of a stage against its length, which only the time that goes  *)
(* by between a poll and the service brings it up to; and the clock of the *)
(* purge against the stages before.                                        *)
StageClocks(waiting) ==
  /\ stage = "DISPLACE" => /\ elapsed < DisplaceTakes + waiting
                           /\ total <= elapsed
  /\ stage = "MIX" => /\ elapsed < MixTakes + waiting
                      /\ total <= DisplaceTakes + elapsed
  /\ stage = "VERIFY" => /\ elapsed < HoldTakes + waiting
                         /\ total <= DisplaceTakes + MixTakes + elapsed

Clocks ==
  /\ StageClocks(IF pc \in {"sensors", "airflow"} THEN 1 ELSE 0)
  /\ openSeconds <= DisplaceTakes + MixTakes

LEMMA StageLengths ==
  ASSUME TypeOK
  PROVE  /\ DisplaceTakes \in Nat /\ MixTakes \in Nat /\ HoldTakes \in Nat
         /\ DisplaceTakes > 0 /\ MixTakes > 0 /\ HoldTakes > 0
         /\ DisplaceTakes >= Displace /\ MixTakes >= request.timeout
         /\ HoldTakes >= Hold
         /\ elapsed \in Nat /\ total \in Nat /\ openSeconds \in Nat
         /\ elapsed <= total /\ stage \in Stage
         /\ Displace \in Nat /\ request.timeout \in Nat /\ Hold \in Nat
BY AirflowAssumption DEF TypeOK, DisplaceTakes, MixTakes, HoldTakes, AtLeastOne

LEMMA ClocksPacket ==
  ASSUME TypeOK, Clocks, Packet
  PROVE  Clocks'
<1>1. ASSUME NEW r \in Requests, PurgeStart(r) PROVE Clocks'
  <2>1. /\ stage' = "DISPLACE" /\ elapsed' = 0 /\ total' = 0 /\ openSeconds' = 0
        /\ pc' = "poll" /\ request' = r
    BY <1>1 DEF PurgeStart, EnterStage, Listening
  <2>2. DisplaceTakes \in Nat /\ DisplaceTakes > 0
    BY StageLengths
  <2>3. r.timeout \in Nat
    BY AirflowAssumption
  <2> QED
    BY <2>1, <2>2, <2>3 DEF Clocks, StageClocks, DisplaceTakes, MixTakes, AtLeastOne
<1>2. CASE PurgeAbort \/ Estop
  BY <1>2 DEF PurgeAbort, Estop, Clocks, StageClocks, DisplaceTakes, MixTakes
<1>3. ASSUME NEW f \in Fan, NEW level \in {"off", "host"}, FanSet(f, level)
      PROVE  Clocks'
  BY <1>3 DEF FanSet, purge, timers, Clocks, StageClocks, DisplaceTakes, MixTakes,
              HoldTakes
<1> QED
  BY <1>1, <1>2, <1>3 DEF Packet

(* A stage that goes on has not reached its length, and the next one       *)
(* starts where that one ended.                                            *)
LEMMA ClocksService ==
  ASSUME TypeOK, Clocks, AirflowService
  PROVE  Clocks'
<1>0. /\ pc = "airflow" /\ pc' = "faults" /\ request' = request
      /\ StageClocks(1) /\ openSeconds <= DisplaceTakes + MixTakes
  BY DEF AirflowService, DisplaceDone, MixDone, HoldFailed, HoldPassed, StageGoesOn,
         purge, Clocks
<1>1. /\ DisplaceTakes' = DisplaceTakes /\ MixTakes' = MixTakes
      /\ HoldTakes' = HoldTakes
  BY <1>0 DEF DisplaceTakes, MixTakes, HoldTakes
<1>2. CASE DisplaceDone
  <2>1. /\ stage = "DISPLACE" /\ stage' = "MIX" /\ elapsed' = 0
        /\ UNCHANGED <<total, openSeconds>>
    BY <1>2 DEF DisplaceDone, EnterStage
  <2> QED
    BY <1>0, <1>1, <2>1, StageLengths DEF Clocks, StageClocks
<1>3. CASE MixDone
  <2>1. /\ stage = "MIX" /\ stage' = "VERIFY" /\ elapsed' = 0
        /\ total' = total /\ openSeconds' = total
    BY <1>3 DEF MixDone, EnterStage
  <2> QED
    BY <1>0, <1>1, <2>1, StageLengths DEF Clocks, StageClocks
<1>4. CASE HoldFailed \/ HoldPassed
  <2>1. stage' = "IDLE" /\ openSeconds' = openSeconds
    BY <1>4 DEF HoldFailed, HoldPassed, EnterStage
  <2> QED
    BY <1>0, <1>1, <2>1 DEF Clocks, StageClocks
<1>5. CASE StageGoesOn
  <2>1. UNCHANGED <<stage, elapsed, total, openSeconds>>
    BY <1>5 DEF StageGoesOn, purge, timers
  <2>2. /\ stage = "DISPLACE" => elapsed < Displace
        /\ stage = "MIX" => elapsed < request.timeout
        /\ stage = "VERIFY" => elapsed < Hold
    <3>1. stage = "DISPLACE" => ~(elapsed >= Displace)
      BY <1>5 DEF StageGoesOn, StageElapsed
    <3>2. stage = "MIX" => ~(elapsed >= request.timeout)
      BY <1>5 DEF StageGoesOn, MixOver, StageElapsed
    <3>3. stage = "VERIFY" => ~(elapsed >= Hold)
      BY <1>5 DEF StageGoesOn, StageElapsed
    <3> QED
      BY <3>1, <3>2, <3>3, StageLengths
  <2> QED
    BY <1>0, <1>1, <2>1, <2>2, StageLengths DEF Clocks, StageClocks
<1> QED
  BY <1>2, <1>3, <1>4, <1>5 DEF AirflowService

LEMMA ClocksPoll ==
  ASSUME TypeOK, Clocks, NEW seconds \in {0, 1}, PollDone(seconds)
  PROVE  Clocks'
<1>0. /\ pc = "poll" /\ pc' = "sensors"
      /\ UNCHANGED <<stage, request, openSeconds>>
      /\ elapsed' = Advanced(elapsed, seconds) /\ total' = Advanced(total, seconds)
      /\ StageClocks(0) /\ openSeconds <= DisplaceTakes + MixTakes
  BY DEF PollDone, purge, Clocks
<1>1. /\ DisplaceTakes' = DisplaceTakes /\ MixTakes' = MixTakes
      /\ HoldTakes' = HoldTakes
  BY <1>0 DEF DisplaceTakes, MixTakes, HoldTakes
<1>2. Purging => /\ elapsed' <= elapsed + 1
                 /\ elapsed' \in Nat /\ total' \in Nat
                 /\ total' <= elapsed' + (total - elapsed)
  BY <1>0, StageLengths, AirflowAssumption DEF Advanced
<1>3. Purging <=> stage # "IDLE"
  BY DEF Purging
<1> QED
  BY <1>0, <1>1, <1>2, <1>3, StageLengths DEF Clocks, StageClocks

(* A purge is over, and the valve shut, within the length of its stages    *)
(* and the timeout asked for, a round of the loop more for a stage of no   *)
(* length; whatever oxygen reads and whatever packets come between.        *)
THEOREM PurgeAlwaysBounded == Spec => []PurgeBounded
<1>1. Init => Clocks
  <2> SUFFICES ASSUME Init PROVE Clocks
    OBVIOUS
  <2>1. request \in Requests /\ request.timeout \in Nat /\ Displace \in Nat
    BY AirflowAssumption DEF Init
  <2> QED
    BY <2>1 DEF Init, Clocks, StageClocks, DisplaceTakes, MixTakes, AtLeastOne
<1>2. TypeOK /\ Clocks /\ [Next]_vars => Clocks'
  <2> SUFFICES ASSUME TypeOK, Clocks, [Next]_vars PROVE Clocks'
    OBVIOUS
  <2>1. CASE Packet
    BY <2>1, ClocksPacket
  <2>2. CASE AirflowService
    BY <2>2, ClocksService
  <2>3. ASSUME NEW seconds \in {0, 1}, PollDone(seconds) PROVE Clocks'
    BY <2>3, ClocksPoll
  <2>4. CASE SensorsService \/ ServiceFaults \/ ServiceReports \/ UNCHANGED vars
    <3>1. /\ UNCHANGED <<stage, request, openSeconds, elapsed, total>>
          /\ pc \in {"sensors", "airflow"} <=> pc' \in {"sensors", "airflow"}
      BY <2>4 DEF SensorsService, ServiceFaults, ServiceReports, vars, purge, timers
    <3> QED
      BY <3>1 DEF Clocks, StageClocks, DisplaceTakes, MixTakes, HoldTakes
  <2> QED
    BY <2>1, <2>2, <2>3, <2>4 DEF Next, LoopStep
<1>3. TypeOK /\ OutputsFollowStage /\ Clocks => PurgeBounded
  <2> SUFFICES ASSUME TypeOK, OutputsFollowStage, Clocks PROVE PurgeBounded
    OBVIOUS
  <2>1. StageClocks(1)
    BY StageLengths DEF Clocks, StageClocks
  <2> QED
    BY <2>1, StageLengths
    DEF Clocks, StageClocks, OutputsFollowStage, PurgeBounded, Purging, Stage
<1> QED
  BY <1>1, <1>2, <1>3, AirflowTyped, OutputsAlwaysFollowStage, PTL DEF Spec
=============================================================================
