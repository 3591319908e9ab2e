---------------------------- MODULE GalvoEngine ----------------------------
(***************************************************************************)
(* The galvo engine of the Teensy (src/src/teensy-galvo/xy2_engine.cpp).   *)
(* The DMA plays two buffers of frames in turn; each time it changes over  *)
(* an interrupt refills the one that has run out from the running pattern. *)
(* A command changes the pattern and refills both buffers itself, with     *)
(* interrupts on, before it sends the DMA back to the start of the first.  *)
(*                                                                         *)
(* The interrupt preempts the foreground and is not preempted: it is one   *)
(* action; the foreground writes one frame, or one shared variable, per    *)
(* action.  A coordinate of a pattern is named by the sample it belongs    *)
(* to: the geometry and the encoding of a frame are left out.              *)
(***************************************************************************)
EXTENDS Integers

CONSTANTS
  N,          \* kBufSamples: the frames in a buffer
  Patterns,   \* the moving patterns a command may start
  Total,      \* Total[p]: samples in one round of pattern p
  Points,     \* the points a command may hold the beam at
  Center,     \* kCenterPosition, one of them
  Corner,     \* the corner of the step test, one of them
  NoPattern,  \* PATTERN_NONE
  FillSwaps   \* bound: buffers that run out while one change is carried out

ASSUME GalvoAssumption ==
  /\ N \in Nat \ {0}
  /\ Total \in [Patterns -> Nat \ {0}]
  /\ Center \in Points /\ Corner \in Points
  /\ NoPattern \notin Patterns
  /\ Patterns \intersect Points = {}
  /\ FillSwaps \in Nat

VARIABLES
  kind, static, next,  \* g_pattern: kind, static_x and static_y, next_sample
  pos,                 \* g_pos_x, g_pos_y
  frames,              \* g_frames_a, g_frames_b
  active, cur,         \* the DMA's SADDR: the buffer it reads, and the frame
  pending,             \* the DMA's interrupt is raised and not yet served
  pc,                  \* the step of a command that runs next
  k, lnext,            \* full_buffer_refill(): frames written, its local next
  snap,                \* stop_at_current(): the x it has read
  testxy,              \* g_testxy_state
  swaps,               \* buffers that ran out since the change began
  late, age            \* observation: see Interrupted and DmaIsr

pattern == <<kind, static>>
ring == <<frames, active, cur, pending>>
refill == <<pc, k, lnext, snap>>
vars == <<pattern, next, pos, ring, refill, testxy, swaps, late, age>>

Buffer == {"A", "B"}
Other(b) == IF b = "A" THEN "B" ELSE "A"

Coord == (Patterns \union Points) \X Nat
Sample == Coord \X Coord

Still(p) == <<<<p, 0>>, <<p, 0>>>>

(* g_pattern.total_samples, which every change sets with the kind. *)
Round == IF kind = NoPattern THEN 1 ELSE Total[kind]

(* gen_sample() of any index. *)
GenSample(i) ==
  IF kind = NoPattern
    THEN static
    ELSE <<<<kind, i % Round>>, <<kind, i % Round>>>>

-----------------------------------------------------------------------------
(* The DMA and its interrupt.                                              *)

(* The DMA reads the next frame; at the end of a buffer it changes over    *)
(* and raises its interrupt.  A buffer lasts 82 ms and more, an interrupt  *)
(* is served within microseconds and one change takes some 10 ms: no       *)
(* buffer ends before the interrupt of the last one has been served, no    *)
(* more than FillSwaps end during one change, and none in the few          *)
(* instructions between the reload and the end of the change.              *)
Play ==
  /\ IF cur < N - 1
       THEN /\ cur' = cur + 1
            /\ UNCHANGED <<active, pending, swaps>>
       ELSE /\ ~pending
            /\ pc \notin {"next", "x", "y"}
            /\ pc # "idle" => swaps < FillSwaps
            /\ cur' = 0
            /\ active' = Other(active)
            /\ pending' = TRUE
            /\ swaps' = IF pc = "idle" THEN 0 ELSE swaps + 1
  /\ UNCHANGED <<pattern, next, pos, frames, refill, testxy, late, age>>

(* Faulty variant: g_pos is left at the first sample, not the last. *)
RefillBufferFirst(b) ==
  /\ frames' = [frames EXCEPT ![b] = [i \in 0 .. N - 1 |-> GenSample(next + i)]]
  /\ next' = (next + N) % Round
  /\ pos' = GenSample(next)

(* refill_buffer(). *)
RefillBuffer(b) ==
  /\ frames' = [frames EXCEPT ![b] = [i \in 0 .. N - 1 |-> GenSample(next + i)]]
  /\ next' = (next + N) % Round
  /\ pos' = GenSample(next + N - 1)

(* An interrupt that undoes part of a change: it comes after the change    *)
(* has begun to fill the second buffer, and refills that one from where    *)
(* the change began; or just before the change publishes its next sample.  *)
Interrupted(b) ==
  \/ b = "B" /\ pc = "fill" /\ k > N
  \/ b = "B" /\ pc = "reload"
  \/ pc = "next"

(* dma_isr(): SADDR tells which buffer is active; the other is refilled.   *)
(* age counts the interrupts since the last change was complete, up to 2.  *)
DmaIsr ==
  /\ pending
  /\ RefillBuffer(Other(active))
  /\ pending' = FALSE
  /\ late' = (late \/ Interrupted(Other(active)))
  /\ age' = IF pc \in {"idle", "stop"} /\ age < 2 THEN age + 1 ELSE age
  /\ UNCHANGED <<pattern, active, cur, refill, testxy, swaps>>

-----------------------------------------------------------------------------
(* full_buffer_refill(), which every command ends with.  The foreground    *)
(* does not run while an interrupt is pending, unless it masks it.         *)

Step(from, to) ==
  /\ pc = from
  /\ pc' = to
  /\ from # "reload" => ~pending

BeginRefill ==
  /\ Step("start", "fill")
  /\ k' = 0
  /\ lnext' = next
  /\ UNCHANGED <<pattern, next, pos, ring, snap, testxy, swaps, late, age>>

(* Faulty variants: the second buffer is left as it was; the shared next   *)
(* sample is published buffer by buffer; the round is not closed.          *)
FillFrameFirstOnly ==
  /\ Step("fill", IF k = 2 * N - 1 THEN "reload" ELSE "fill")
  /\ frames' = IF k < N THEN [frames EXCEPT !["A"][k] = GenSample(lnext)]
                        ELSE frames
  /\ k' = k + 1
  /\ lnext' = (lnext + 1) % Round
  /\ UNCHANGED <<pattern, next, pos, active, cur, pending, snap, testxy,
                 swaps, late, age>>

FillFramePublishes ==
  /\ Step("fill", IF k = 2 * N - 1 THEN "reload" ELSE "fill")
  /\ frames' = IF k < N
                 THEN [frames EXCEPT !["A"][k] = GenSample(lnext)]
                 ELSE [frames EXCEPT !["B"][k - N] = GenSample(lnext)]
  /\ k' = k + 1
  /\ lnext' = (lnext + 1) % Round
  /\ next' = IF k' = N THEN lnext' ELSE next
  /\ UNCHANGED <<pattern, pos, active, cur, pending, snap, testxy, swaps,
                 late, age>>

FillFrameUnwrapped ==
  /\ Step("fill", IF k = 2 * N - 1 THEN "reload" ELSE "fill")
  /\ frames' = IF k < N
                 THEN [frames EXCEPT !["A"][k] = GenSample(lnext)]
                 ELSE [frames EXCEPT !["B"][k - N] = GenSample(lnext)]
  /\ k' = k + 1
  /\ lnext' = lnext + 1
  /\ UNCHANGED <<pattern, next, pos, active, cur, pending, snap, testxy,
                 swaps, late, age>>

(* One frame, of A and then of B, from the local next sample. *)
FillFrame ==
  /\ Step("fill", IF k = 2 * N - 1 THEN "reload" ELSE "fill")
  /\ frames' = IF k < N
                 THEN [frames EXCEPT !["A"][k] = GenSample(lnext)]
                 ELSE [frames EXCEPT !["B"][k - N] = GenSample(lnext)]
  /\ k' = k + 1
  /\ lnext' = (lnext + 1) % Round
  /\ UNCHANGED <<pattern, next, pos, active, cur, pending, snap, testxy,
                 swaps, late, age>>

(* The DMA stopped, its descriptor reloaded and started, with interrupts   *)
(* masked: one raised meanwhile stays pending.                             *)
Reload ==
  /\ Step("reload", "next")
  /\ active' = "A"
  /\ cur' = 0
  /\ UNCHANGED <<pattern, next, pos, frames, pending, k, lnext, snap, testxy,
                 swaps, late, age>>

PublishNext ==
  /\ Step("next", "x")
  /\ next' = lnext
  /\ UNCHANGED <<pattern, pos, ring, k, lnext, snap, testxy, swaps, late, age>>

(* g_pos_x and g_pos_y: the last sample of the refill.  set_position()     *)
(* then writes its point there again, which is the same.                   *)
LastFilled == GenSample(lnext + Round - 1)

PublishX ==
  /\ Step("x", "y")
  /\ pos' = <<LastFilled[1], pos[2]>>
  /\ UNCHANGED <<pattern, next, ring, k, lnext, snap, testxy, swaps, late, age>>

PublishY ==
  /\ Step("y", "idle")
  /\ pos' = <<pos[1], LastFilled[2]>>
  /\ k' = 0
  /\ lnext' = 0
  /\ swaps' = 0
  /\ UNCHANGED <<pattern, next, ring, snap, testxy, late, age>>

FullBufferRefill ==
  BeginRefill \/ FillFrame \/ Reload \/ PublishNext \/ PublishX \/ PublishY

-----------------------------------------------------------------------------
(* The commands.                                                           *)

(* The pattern and its next sample, set with interrupts masked. *)
Install(from, newKind, newStatic) ==
  /\ Step(from, "start")
  /\ kind' = newKind
  /\ static' = newStatic
  /\ next' = 0
  /\ snap' = <<Center, 0>>
  /\ late' = FALSE
  /\ age' = 0
  /\ UNCHANGED <<pos, ring, k, lnext, swaps>>

(* set_position(), from the console's xy and center. *)
SetPosition(p) ==
  /\ Install("idle", NoPattern, Still(p))
  /\ UNCHANGED testxy

(* start_square(), start_triangle() and start_circle(). *)
StartPattern(p) ==
  /\ Install("idle", p, static)
  /\ UNCHANGED testxy

(* stop_at_current(), from the console's stop and the emergency stop: the  *)
(* two coordinates are read one after the other, with interrupts on.       *)
StopReadX ==
  /\ Step("idle", "stop")
  /\ snap' = pos[1]
  /\ UNCHANGED <<pattern, next, pos, ring, k, lnext, testxy, swaps, late, age>>

StopReadY ==
  /\ Install("stop", NoPattern, <<snap, pos[2]>>)
  /\ UNCHANGED testxy

(* cmd_testxy(), refused while a test runs.  Its state is only looked at   *)
(* by the loop, after the refill.                                          *)
CmdTestxy ==
  /\ testxy = "IDLE"
  /\ testxy' = "CENTER"
  /\ Install("idle", NoPattern, Still(Center))

(* testxy_tick(), when a hold of 2 s is over: the time is left out. *)
TestxyTick ==
  \/ /\ testxy = "CENTER"
     /\ testxy' = "CORNER"
     /\ Install("idle", NoPattern, Still(Corner))
  \/ /\ testxy = "CORNER"
     /\ testxy' = "IDLE"
     /\ Install("idle", NoPattern, Still(Center))

Command ==
  \/ \E p \in Points : SetPosition(p)
  \/ \E p \in Patterns : StartPattern(p)
  \/ StopReadX
  \/ StopReadY
  \/ CmdTestxy

(* start_clk_sync(): both buffers primed with the center. *)
Init ==
  /\ kind = NoPattern
  /\ static = Still(Center)
  /\ next = 0
  /\ pos = Still(Center)
  /\ frames = [b \in Buffer |-> [i \in 0 .. N - 1 |-> Still(Center)]]
  /\ active = "A" /\ cur = 0 /\ pending = FALSE
  /\ pc = "idle" /\ k = 0 /\ lnext = 0
  /\ snap = <<Center, 0>>
  /\ testxy = "IDLE"
  /\ swaps = 0
  /\ late = FALSE /\ age = 0

Next ==
  \/ Play
  \/ DmaIsr
  \/ FullBufferRefill
  \/ Command
  \/ TestxyTick

Spec == Init /\ [][Next]_vars

-----------------------------------------------------------------------------
(* Properties.                                                             *)

(* The type of every variable. *)
TypeOK ==
  /\ kind \in Patterns \union {NoPattern}
  /\ static \in Sample
  /\ next \in 0 .. Round - 1
  /\ pos \in Sample
  /\ frames \in [Buffer -> [0 .. N - 1 -> Sample]]
  /\ active \in Buffer
  /\ cur \in 0 .. N - 1
  /\ pending \in BOOLEAN
  /\ pc \in {"idle", "stop", "start", "fill", "reload", "next", "x", "y"}
  /\ k \in 0 .. 2 * N
  /\ lnext \in 0 .. Round - 1
  /\ snap \in Coord
  /\ testxy \in {"IDLE", "CENTER", "CORNER"}
  /\ swaps \in 0 .. FillSwaps
  /\ late \in BOOLEAN
  /\ age \in 0 .. 2

Settled == pc \in {"idle", "stop"}

(* The samples the running pattern is made of. *)
Path == {GenSample(i) : i \in 0 .. Round - 1}

(* From the reload on, whatever interrupts came during the change, the two *)
(* buffers hold the running pattern and nothing of the one before it: the  *)
(* beam never goes back to it, and a static hold never drifts.             *)
NoStaleFrame ==
  pc \in {"idle", "stop", "next", "x", "y"} =>
    \A b \in Buffer, i \in 0 .. N - 1 : frames[b][i] \in Path

(* What the monitor looks for, monitor_tick(): a frame off the point held. *)
RingDrift ==
  /\ kind = NoPattern
  /\ \E b \in Buffer, i \in 0 .. N - 1 : frames[b][i] # static

MonitorSilent == pc = "idle" => ~RingDrift

(* The frames queued are consecutive samples that lead up to next_sample:  *)
(* the buffer being read, and after it the other, unless that one has run  *)
(* out and waits for its refill.                                           *)
InOrder ==
  \A i \in 0 .. N - 1 :
    IF pending
      THEN frames[active][i] = GenSample(next + i - N)
      ELSE /\ frames[active][i] = GenSample(next + i - 2 * N)
           /\ frames[Other(active)][i] = GenSample(next + i - N)

(* The stream skips and repeats nothing, from one buffer to the next and   *)
(* for ever, after every change that no interrupt undid in part.  If one   *)
(* did, the stream is in order again from the second interrupt on.         *)
StreamInOrder == Settled /\ (~late \/ age = 2) => InOrder

(* The samples the beam has not played yet: the rest of the buffer being   *)
(* read, and the other, which no interrupt is waiting to refill.           *)
Ahead ==
  {frames[active][i] : i \in cur .. N - 1}
  \union {frames[Other(active)][i] : i \in 0 .. N - 1}

(* A stop holds a sample that is still to be played: the beam goes on to a *)
(* point of its pattern at most two buffers ahead, and never back to one   *)
(* it has passed.  If a buffer runs out between the reads of the two       *)
(* coordinates, each of them is that of such a sample, but not of the same *)
(* one, and the point may be off the pattern.                              *)
StopHoldsQueued ==
  [][StopReadY /\ (~late \/ age = 2) =>
       \E s, t \in Ahead :
         static' = <<s[1], t[2]>> /\ (swaps = 0 => s = t)]_vars

(* "Freeze the beam at whatever position the running pattern is on right   *)
(* now" (xy2_engine.h): at least at one of its positions.                  *)
StopOnPath == [][StopReadY => static' \in Path]_vars

(* "immediate and glitch-free" (xy2_engine.h): when a change is complete   *)
(* the stream is in order, whenever its interrupts came.                   *)
GlitchFree == Settled => InOrder
=============================================================================
