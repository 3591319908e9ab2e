# Printer-Control-Firmware: models, checks and proofs

TLA+ specifications of the Moiren SLM printer's firmware, written from the
source: what each part keeps, every step that changes it, what must hold, and
what TLC and TLAPS say of it. Paths below are relative to the repository.

## The system

Three boards, each a single loop, talk in packets over serial links.

| Board | Parts | State | Interacts by |
|---|---|---|---|
| Arduino Mega | `main.cpp` | machine state, latched faults, the answers owed per axis and to the recoat cycle | calls every part below, in a fixed order, once per loop |
| | `motion.cpp` | three axes: phase, stepper, flags, home samples, a limit fault | called by packets and by the sequencer; tells `persist` |
| | `recoat.cpp` | the cycle under way, its result, cycles since a re-home | starts and stops axes; polls whether they are idle |
| | `persist.cpp` | a ring of position records and two settings copies in EEPROM, one writer | told by `motion` and `settings`; read at boot |
| | `airflow.cpp`, `sensors.cpp`, `safety.cpp` | purge stage, fans; readings and their validity; debounced interlocks | the purge reads oxygen; `main` publishes and latches |
| | `settings.cpp`, `lighting.cpp` | ranges and values; one output | packets |
| Teensy 4.1 | `node.cpp`, `main.cpp` | e-stop latch, machine state, packet/console split | packets; stops the galvo and the laser |
| | `job_store.cpp` | job file and temporary on SD, the transfer under way | upload packets; boot |
| | `field_correction.cpp` | active and staged table, one cached cell | upload packets; the map command |
| | `xy2_engine.cpp` | two DMA buffers, the pattern, timed test | DMA interrupt; node, console |
| | `laser_io.cpp`, `watchdog.cpp`, `dac.cpp`, `adc.cpp`, `console.cpp` | command lines, arm latch, bench outputs | node, console, timer interrupt |
| ESP32 | `main.cpp` | a commanded duty, no output yet | packets |
| shared | `lib/moiren_link` | receive state machine, counters | every board |

What is hard here:

- *Order within one loop.* The Mega has no concurrency but its loop gives one:
  packets may arrive between any two rounds, `motion::service()` can trip a
  switch, `recoat::service()` acts on it, and only then `serviceFaults()` looks.
- *Answers deferred.* Moves, homes and cycles are answered when the work ends;
  stops, faults, cycles and the emergency stop all compete for the same slots.
- *Power cuts.* EEPROM is written a byte per pass from a structure that goes on
  changing; the SD commit is a removal and a rename.
- *Interrupts.* The galvo's buffers are refilled by an interrupt while the
  foreground changes the pattern.
- *Noise.* Lost and broken bytes on the links, chunks out of order.

What makes each part correct:

- *Loop, motion, recoat:* every accepted command is answered once, in the end,
  and truthfully; a cycle has its axes to itself, a referenced blade, a re-home
  in time, and never drags the blade over what it has spread; the emergency
  stop ends everything and for ever.
- *Persist:* whatever a power cut leaves, a boot finds the last whole record and
  settings; nothing the board goes by stays unsaved.
- *Purge:* argon and stirring follow the stage alone, the verdict is what the
  hold saw and reaches the host, every purge ends.
- *Safety inputs, settings:* an interlock is debounced but never lost; no value
  out of range is ever stored or used.
- *Job store, field correction:* an upload is taken whole or not at all, and
  replaces its predecessor in one step.
- *Galvo engine:* one stream of samples, in order, none repeated or skipped
  across the two buffers; after a change nothing of the pattern before it is
  played; a stop holds a point of the running pattern.
- *Teensy node, laser, watchdog:* nothing is armed or moving after the emergency
  stop; what is reported is what the latch holds.
- *Link:* a packet is delivered whole or not at all, and after noise reception
  comes back.

`hazards` in `PROJECT.json` lists the places, each with the property that
covers it or the reason none does yet.

## Modules

| Module | Models | Kind |
|---|---|---|
| `Motion` | `motion.cpp`: one axis, every phase | operators on an axis's record |
| `Recoat` | `recoat.cpp`: the sequencer over three axes | operators on the cycle and the axes |
| `MegaLoop` | `main.cpp`: `loop()`, packets, answers, faults, states | state machine, composes the two above |
| `Airflow` | `airflow.cpp`, the oxygen part of `sensors.cpp`, and what `main.cpp` does with both | state machine |
| `Durable` | what becomes of the settings at most: a register replaced in one step, at risk only after a save during a write | abstract specification |
| `Persist` | `persist.cpp` | state machine, implements `Durable` |
| `JobSlot` | what becomes of the job file at most: announced, then lost or replaced whole | abstract specification |
| `TableSlot` | what `field_correction.h` promises: a table only ever replaced whole | abstract specification |
| `JobStore` | `job_store.cpp` | state machine, implements `JobSlot` |
| `FieldCorrection` | `field_correction.cpp`: upload, cell cache, `apply()` | actions and operators |
| `TeensyNode` | `node.cpp` and the lines of `console.cpp` that drive something | state machine, composes `FieldCorrection`, implements `TableSlot` |
| `GalvoEngine` | `xy2_engine.cpp`: buffers, DMA, interrupt, commands | state machine |
| `SharedPort` | `lib/moiren_link` and `node::poll()` over a faulty wire | state machine |
| `MCMegaLoop`, `MCPersist`, `MCJobStore`, `MCAirflow`, `MCGalvoEngine`, `MCSharedPort`, `MCTeensyNode` | values of the constants for TLC | |
| `RecoatProofs`, `MegaLoopProofs`, `AirflowProofs`, `PersistProofs`, `JobStoreProofs`, `TeensyNodeProofs`, `GalvoProofs`, `SharedPortProofs` | theorems | |

Operators called "a faulty variant" stand next to the operator they differ from.
They are never part of a specification: each is the form a plausible mistake
would take, and each makes the property it is meant for fail.

### Motion, Recoat, MegaLoop

An axis is a record: its phase (`phase_t`), how far its stepper has to go,
counted in passes of `motion::service()` and signed by direction, the distance
back from a backlash overshoot, whether it has a zero, the approaches averaged
so far, and the limit fault not yet consumed. Absolute positions, ramps and
speeds are left out. A switch may close in any pass of a move in its
direction, on any number of axes at once; only the wiper has a far one. A seek may
meet its switch in any pass or never do so, and a piston's seek may stutter again
for every pass it has come (`StutterDue`), any number of times; of its passes
`SeekSpan` are counted. What `clampTarget()` leaves of a move may be nothing, or
lead the other way, and the call still succeeds (`MoveDistances`).

`moveTo`, `home`, `stop`, `serviceAxis` and the sequencer's `enter`, `nextStep`,
`start`, `abort` are operators from the state they find to the set of states
they may leave. They are operators because in the code they are calls made
inside one step of the loop: the step that ends a sweep also starts the next
move, and an abort stops all three axes at once. `MegaLoop` turns them into
actions. Its `pc` names the call of `loop()` that runs next; at `"poll"` any
number of packets may be handled, one action each. `sensors`, `safety`,
`airflow` and `persist` change nothing this module reads, except through the
chamber's condition that `updateState()` looks at (`Chamber`) and a sensor that
goes invalid (`SensorsFail`), both left to chance.

A command whose answer is deferred gets a number when it is accepted, and
`pend` holds that number in the slot of the code's `pending_t`; 0 is a slot not
active. The rest is for observation: `answer`, what each command was told; `cut`,
whose work a switch cut short; `instant`, the moves accepted with no way to go;
`eclipsed`, the commands whose fault waited for another axis's to be consumed;
`late`, those accepted on an axis whose fault still waits; `layer`, what the blade
would drag through, and `lowers`, whether the bed's last drop set out downward. A
drop leaves the bed open or cleared only if it lowers it and no switch cuts it
(`LayerAfter`). Commands refused on the spot change nothing and are left out. Power
loss of the Mega is not in this module; `Persist` has it.

### JobStore, JobSlot

A file is a sequence of chunks, the first one holding the header, and no file
is the empty sequence. The CRC covers the body only, as in the code. Any
upload message may come at any time, with any index and content. The SD calls
fail as `Faults` says. `upload_end()` is one action up to the commit, which is
two: `CommitRemove` and `CommitRename`, since the power may fail in between.
All other calls are atomic with respect to power, which is sound for them: what
they leave half done is a temporary file that the next boot removes.

`SlotSpec` maps `JobSlot` to the file that is really on the card, by the body it has,
and to the job a commit under way is of: a commit announces its job, may lose the one
there, and replaces it or gives up. `HaveTracksCard` is about the copy in RAM: `have`
and `jobId` agree with the card except after a commit that removed the old job and
could not rename the new one (`lost`, for observation), and a file whose header is
not its body's, which no check covers, goes by either name. `kept`, for observation
too, says that the temporary file is one the card would not remove or read back.

### Persist, Durable

A cell stands for the bytes of a field; each pass of `service()` writes one cell
from RAM as it is then. A CRC is represented by the content it was computed
from, so that a record is valid exactly if nothing changed in between. The power
may fail at any state and may spoil the cell being burned (a cell that already
reads right is not burned, as with `eeprom_update_byte`). The timers that settle
and space records are left to chance, which allows more than the code does.

Sequence numbers wrap at `SeqMod`, for records and for settings, and there is no
bound on how many of either are written: `budget` (`SeqMod` records are no bound)
only tells which of the two a behaviour does without end, and `saves` counts the
settings saved since any were last queued to be written. Settings may be saved at any
time, during a write of settings or of a record too. `torn` is for observation: from a
save during a write of settings until the two copies are whole and apart again, and
whether the write since then goes over the last good one.

`Durable` has a save, which the register in RAM takes at once; storing it, at any time
after; and a power cycle, which goes back to what was stored. A save while one is owed
may put what is stored at risk (`risk`), and only then may it change without a store.
`Register` maps what a boot would load now to what is stored, and `torn` to the risk.

### Airflow

The purge in the loop, with `pc` as in `MegaLoop`: packets, the sampling of
one channel, `airflow::service()`, then `serviceFaults()` and `serviceReports()`.
Requests carry the target, the timeout and the minimum mix after defaults have
been filled in (`settings.cpp`). Any channel may read anything at any sample, and
a channel that was never sampled does not count. The build as configured
substitutes one fixed value for both channels (`OXYGEN_OVERRIDE`), which is one
of the behaviours of the model; the verdict then only says that the substitute
is below the limit. Duties are four levels (off, set by the host, of the purge,
of the print). A timer is a count of seconds, kept only while a purge runs. `told`
is the last status published of a purge and `rose` whether oxygen was seen at the
limit since the valve shut; both are for observation. `MegaLoop` and `Airflow`
share the loop but no variable beyond the latched emergency stop, which is why
they are two modules.

### GalvoEngine

The two frame buffers, the DMA that reads them in turn, its interrupt, and the
commands that change the pattern. The interrupt preempts the foreground and is
not preempted, so `DmaIsr` is one action; the foreground writes one frame, or one
shared variable, per action, and the interrupt may come between any two unless
the code masks it. A coordinate is named by the sample of the pattern it belongs
to, so that a stream that repeats or skips shows, and a stop's two coordinates are read in two
actions; the geometry of a pattern and the
encoding of a frame are left out. `late` and `age` are for observation: whether an
interrupt undid part of a change, and how many came since. `Play` says what the
timing allows: no buffer ends before the interrupt of the last one was served,
nor in the few instructions after the reload, and at most `FillSwaps` end during a
change (a buffer lasts 82 ms and a change some 10 ms, so 1).

### SharedPort

The receive state machine of `moiren_link.cpp`, byte by byte, with `node::poll()`,
which gives a byte to it or to the console. The header before LEN is one byte that
names a packet, and the CRC one byte that names the packet it was computed over; it
never matches by chance. The host sends whole packets; on the way a byte may be
lost or altered, the rest may never come, or come after a silence. At most
`MaxFaults` things go wrong between two silences.

### FieldCorrection, TeensyNode

`FieldCorrection` has the chunked upload into a staging table, the commit, the cache
of one cell's corners and the arithmetic of `apply()`: clamp, scale with truncating
division, interpolation with the shift's rounding. A table stands for its CRC.
`TeensyNode` adds the emergency stop and its refusals, the console, which looks at no
stop, the laser lines, the timed corner test, what the beam was last told (`"frozen"` is
nothing since the stop that latched), and `told`, what the sender of a table
knows from the answers. Coordinates are taken below a kilometre, where no `int32_t`
of the code wraps. A reset is a new behaviour, as nothing here outlives it.
`SharedPort` shows how a packet reaches the node, `GalvoEngine` what "stop" does to the
beam, `JobStore` what becomes of the job packets: they share no variable with
`TeensyNode` beyond these calls, and so are modules of their own.

## Runs

| Run | Bounds | Shows |
|---|---|---|
| `MegaCycle` | 3 commands, 1-2 passes, re-home after 1 cycle, moves of up to 1 pass, none among them | a cycle never shares its axes, is never refused a step, always runs on a referenced blade, re-homes in time, keeps the returning blade off powder, and ends before anything moves once a switch cuts it |
| `MegaAnswers` | 2 commands, seeks of 2 counted passes, 2 home samples, waits; weak fairness of the loop | the emergency stop holds; every answer is kept, honest, and given in the end, with the exceptions the properties name |
| `MegaPurge` | 2 channels of 3 readings, 3 requests (among them a timeout shorter than the minimum, and none), stages of 1 s, 2^16 taken as 16; fairness of the loop and of time | the outputs follow the stage, the emergency stop keeps the air off, the verdict is honest and taken up once, the host knows the stage, and every purge ends |
| `Persist` | ring of 3, numbers modulo 8; records without end, or saves without end, one between two writes begun, so that it may fall within each; one torn record in a row | a boot finds the last whole record and the last whole settings; nothing unsaved is forgotten; the settings are a register replaced in one step, except as `torn` says |
| `JobStore` | 2 jobs of 2 chunks, every fault, power cuts anywhere | what is under the job's name is a whole body, RAM agrees with the card as far as the code makes it, no transfer strands its temporary file, and the job file implements the slot |
| `TeensyNode` | 3x3 grid of cells of 4 counts, 2 tables in chunks of 5 points and 4, 4 coordinates, one laser line | the table in use is only replaced by a whole one with its scale, every coordinate follows it whatever is cached, the final answer is OK exactly if all was received |
| `GalvoEngine` | buffers of 3 frames, patterns of 4 and 7 samples, 2 points, one interrupt per change | nothing of an old pattern is played after the reload, the stream skips nothing unless an interrupt undid part of the change, and then not beyond the second interrupt, and a stop holds a sample still to be played |
| `SharedPort` | 3 packets of at most 1 payload byte (of 2), 3 values of noise, 3 faults between silences; fairness below | the receive buffer is never overrun, after a silence every key and every packet goes where it belongs, and a packet cut off is given up |
| `PurgeVerdict` | violation | the last status of a purge never tells its verdict |
| `GalvoGlitch` | violation; buffers of 2 frames | an interrupt late in a change makes the stream repeat or skip a buffer |
| `EstopFreezes` | violation; all four lines | the timed corner test moves the beam after the emergency stop |
| `MoveAtOnce` | violation; 1 command, fairness as in `MegaAnswers` | a move of no length is never answered |

Why the bounds are enough. What is proved (below) has no bounds; of the rest:

- `MegaLoop`: two commands are the least that can compete for a slot and three let
  a cycle follow a home and precede another; a move one pass long is still seen
  between two calls of the loop, may trip or not, and may overshoot, and one of no
  length is not seen; two counted passes of a seek let it stutter, travel and stutter
  again; two passes and an interval of one make every branch of `nextStep()` happen.
- `JobStore`: two jobs tell an old from a new one, and nothing but its name tells one
  from another, which makes them symmetric; a header and a chunk of body are a first
  and a last chunk, and a file that could not be removed may grow beyond them.
- `Persist`: a ring of three has an oldest, a middle and a newest slot, and records
  go on through the wrap of slots and of numbers for ever; SeqMod is more than twice
  the ring, as 65536 is. So do the numbers of the settings: one save between the starts
  of two writes is enough to go round, and to fall within a write, again and again;
  `SavesAssumption` leaves no room for more. Records and saves share nothing but the
  writer, which does one at a time; mixed without end they are left to the proofs. The
  values saved are only compared with each other, which makes them symmetric.
- `Airflow`: readings below the target, between it and the limit, and at the limit
  are told apart, and a stage of one second may end in the round it began or later;
  the clocks stop at `Horizon`, beyond every length they are compared with, which
  nothing but the argon figure would notice.
- `GalvoEngine`: one pattern shorter than the two buffers together and one longer,
  neither a multiple of a buffer, so that every phase of the pattern meets every
  frame.
- `SharedPort`: a payload that is itself a start byte, one that could have been typed,
  and none; noise that is a start byte, a length, and a length beyond the buffer.
- `TeensyNode`: four cells, so that there are inner and outer grid lines, offsets of
  both signs, and coordinates in different cells, on a grid point and off the field.
  One line stands for all in the passing run: no guard reads one.

`MegaCycle` looks at states through `CycleView`, which leaves out the numbers of
the commands and the answers already given. It is sound for its properties: no
guard and no property of that run reads an answer, and a number only tells
whether its slot is taken, whether its work was cut short and whether it is one of
the commands a completion may miss, which the view keeps. `MegaAnswers`, whose properties are about answers, uses no view.

`MegaAnswers` and `MegaCycle` take a chamber that is inert and sensors that work: what
`updateState()` and a failed sensor do to the state decides nothing of what the
properties read. The theorems have all of it (`Chamber`, `SensorsFail`).

What the properties leave out, and the assumptions of the passing runs:

- `CycleHasAxes`, `NoAnswerLost`, `MoveAnswersHonest` and `EveryCommandAnswered` name
  what the code loses, and nothing else is left out: a move over at once (`instant`),
  of which no edge is seen, and a command whose fault waits for another axis's
  (`eclipsed`), which is answered as done; the fault of the latter may refuse the next
  command on its axis (`late`). `MoveAtOnce` and the property
  `CutMoveRefused` show each without the exception. `EveryCommandAnswered` promises nothing to a command that ends up seeking
  for ever a switch that never closes (`SeeksFor`), as the code has no timeout.
- `BladeClear` speaks of single-pass overflow cycles, and of supply cycles with a
  clearance up to their re-home (divergences 6 and 7), whose last drop set out downward
  (`lowers`; divergence 16): the length of a drop and its sign are the host's.
- `HaveTracksCard` excepts a commit that lost the old job (`lost`; divergence 15),
  `SettingsKept` and `SettingsSpec` what follows a save during a write (`torn`;
  divergence 9).
- `SavesAssumption`: between the starts of two writes of the settings a host saves less
  often than a quarter of 2^16 times. A write waits for at most one record and burns a
  byte per pass, so that two are fractions of a second apart.
- `MaxTears` is at most `Slots - 2`: if a change in RAM spoiled every record of
  a whole round of the ring, nothing valid would be left. A change has to fall
  within each of at least `Slots - 1` writes in a row.
- `FillSwaps = 1` for `StreamInOrder` and `StopHoldsQueued`, from the timing above.
  `StopHoldsQueued` allows the two coordinates to be of different samples only if a
  buffer ran out between their reads (divergence 11).
- `MaxFaults > 0` for `SplitIsExact`, which takes a count of 0 to say that nothing
  has gone wrong since the last silence. A silence inside a packet counts as the
  greatest number of faults.
- `Requests` whose limit does not wrap at 16 bits, for `VerdictHonest`.

CHECK_DEADLOCK is left on in every run: none of these systems ever stops.

*Fairness.* `MegaAnswers` and `MegaPurge` assume `WF(LoopStep)`. `loop()` is called
for ever and `link.poll()` handles at most 128 bytes a call, so a flood of packets
cannot keep the rest of the loop from running. `MegaPurge` also assumes
`SF(PollDone(1))`: of the rounds of the loop, ever again one takes the clock across a
second, which is what `millis()` does. `SharedPort` assumes `WF(GapTimeout)`, since
the Teensy's loop polls for ever, and that with nothing on its way either a key or the
end of the gap comes, since time goes on. Nothing is assumed of hosts or
switches. The other runs check safety only.

## Divergences found

Where the code does otherwise than a comment or a document of the repository says.
Those that begin with the name of a run are what it finds. Those that begin with a
property and a run: the property is stated by the run's module and fails under the
run's bounds, checked in place of the run's own. The others were read in the code.

1. `PurgeVerdict`. `protocol.h:731` calls the result of a purge status "meaningful
   once stage is IDLE", and `protocol.h:726` has a status published "once when it
   ends". `serviceFaults()` consumes the verdict (`main.cpp:534`) before it fills in
   that status (`main.cpp:544-546`), which always says NONE.
2. `GalvoGlitch`. `xy2_engine.h:36-38` promises an "immediate and glitch-free"
   change and `xy2_engine.cpp:244-248` that an interrupt in the middle is harmless.
   It is for the first buffer only: an interrupt late in the fill refills the second
   from the start of the pattern.
3. `EstopFreezes`. `node.h:33-35` says the emergency stop "freezes the beam where it
   stands". `stop_at_current()` leaves the timed corner test running, whose next
   hold moves the beam (`xy2_engine.cpp:742-762`).
4. `MoveAtOnce`. A move to where the axis already is starts and ends between two looks
   of `serviceCompletions()` (`main.cpp:593`) and is never answered, although
   `PROTOCOL.md:330-333` says every move is.
5. `CutCycleRefused`, under `MegaAnswers`. A cycle whose last sweep meets a switch ends its last step before the
   fault is consumed, and is answered OK (`recoat.cpp:280-295`), against `recoat.h:32`.
6. A supply-park cycle that is due a re-home crosses the fresh layer to measure the
   travel (`motion.cpp:283-304`), against `PROTOCOL.md:379-380`.
7. Between the passes of a multi-pass overflow cycle the blade travels back over
   powder, against `recoat.cpp:18-19`.
8. `FailedTransferKeepsJob`, under `JobStore`. A power cut between the removal and the rename of a commit
   (`job_store.cpp:195-201`) leaves neither the old job nor the new, against
   `job_store.h:22`.
9. `OneCopyGood`, under `Persist`. A save while the settings are being written (`persist.cpp:286-292`) tears
   the copy under way, and the next write goes over the other: a cut in it leaves none,
   against `config.h:240-241`.
10. After a bad length or CRC the link drops what it has read, where
    `PROTOCOL.md:114-127` asks for a rescan from the byte after the start byte.
    `SplitIsExact` therefore speaks of what follows a silence.
11. `StopOnPath`, under `GalvoEngine`. A stop freezes the beam at the last sample queued, up to two buffers
   ahead, where `xy2_engine.h:34` says "at whatever position the running pattern is on
   right now"; and if a buffer runs out between the reads of x and y, at a point that is
   on no position of the pattern. `StopHoldsQueued` is what holds.
12. A DATA packet too short for its own header is refused by `node.cpp:192-195`
    without ending the transfer, against "any rejection ends the transfer"
    (`field_correction.cpp:133-135`). It is one of `OtherPacket`.
13. After `wdt starve` the node goes on reporting ARMED (`node.cpp:43`), and the sweep
    of the DAC goes on after an emergency stop. Read in the code; neither part is
    modelled.
14. `CutMoveRefused`, under `MegaAnswers`. Of two moves that meet their switches in one pass the second is answered
   OK (`main.cpp:519`), against `PROTOCOL.md:335`.
15. `HaveMeansJob`, under `JobStore`. After a rename that fails (`job_store.cpp:198`) `have_job()` goes on
   naming the job that the commit removed, against `job_store.h:43`.
16. `DropClearsReturn`, under `MegaCycle`. `bed_um` has no sign that `start()` would check and a clamp may leave
   nothing of it (`recoat.cpp:181`, `motion.cpp:146-158`): an overflow cycle whose drop
   lowers nothing returns over fresh powder, against `recoat.cpp:16-19`.

## Proofs

Checked with TLAPS for every value of the constants, under the named assumptions
on them (`MotionAssumption` and so on, which TLC evaluates in the runs) and what the
middle column adds.

| Theorem | States | Assuming | Rests on |
|---|---|---|---|
| `MegaLoopTyped` | `[]TypeOK` | | `TypeInv` |
| `EstopAlwaysHolds`, `EstopIsLatched` | `[]EstopHolds`, `EstopLatched` | | `TypeInv` |
| `StepsAreNeverRefused`, `SweepsAlwaysReferenced`, `RehomedAlwaysInTime` | the properties of those names | | `TypeInv /\ CycleInv` |
| `CutCycleAlwaysStops` | `[]CutCycleStops` | | `Numbered /\ CutCycle` |
| `AnswersAreFinal` | `AnswersFinal`: no command is answered twice | | `Numbered /\ Unanswered` |
| `BladeAlwaysClear` | `[]BladeClear` | | `CycleInv /\ LayerKnown` |
| `CycleAlwaysHasAxes`, `AnswersNeverLost`, `MoveAnswersAlwaysHonest` | `[]CycleHasAxes`, `[]NoAnswerLost`, `MoveAnswersHonest` | | `Numbered /\ AnswersInv` |
| `AirflowTyped`, `OutputsAlwaysFollowStage`, `EstopAlwaysAirOff` | `[]TypeOK`, `[]OutputsFollowStage`, `[]EstopAirOff` | | themselves |
| `VerdictAlwaysHonest` | `VerdictHonest` | requests do not wrap | `HoldUnbroken` |
| `VerdictAlwaysTakenUp` | `[]VerdictTakenUp` | | `Untaken` |
| `StageAlwaysPublished` | `StagePublished` | | `Flagged` |
| `PurgeAlwaysBounded` | `[]PurgeBounded`: how long argon flows and a purge lasts | | `Clocks` |
| `BootAlwaysFindsKept` | `[]BootFindsKept` | | `StoreTyped /\ RingInv` |
| `PersistTyped`, `QuietAlwaysSaved` | `[]TypeOK`, `[]QuietIsSaved` | | `QuietInv` besides |
| `SettingsAlwaysKept`, `SettingsImplementRegister` | `[]SettingsKept`, `SettingsSpec` | | `SettingsInv` besides |
| `JobStoreTyped` | `[]TypeOK` | | itself |
| `PrintableAlwaysVerified` | `[]PrintableIsVerified`, every fault and cut allowed | | `VerifiedInv` |
| `NothingIsStranded` | `[]NoStrandedFile`, every fault and cut allowed | | itself |
| `HaveAlwaysTracksCard` | `[]HaveTracksCard`, every fault and cut allowed | | `VerifiedInv /\ HaveInv` |
| `JobStoreImplementsSlot` | `SlotSpec`, every fault and cut allowed | | `VerifiedInv` |
| `TeensyNodeTyped` | `[]TypeOK` | | itself |
| `MapAlwaysFollowsTable` | `[]MapFollowsTable` | | `CacheCoherent`, interpolation lemmas |
| `EndAlwaysHonest`, `FieldImplementsSlot` | `EndIsHonest`, `TableSlotSpec` | | `TransferKnown` |
| `GalvoTyped` | `[]TypeOK` | | `Typed` |
| `BeamNeverGoesBack`, `HoldNeverDrifts` | `[]NoStaleFrame`, `[]MonitorSilent` | | `WrittenOnPath` |
| `StreamAlwaysInOrder`, `StopAlwaysHoldsQueued` | `[]StreamInOrder`, `StopHoldsQueued` | `OneSwap` | `Stream /\ Position` |
| `SharedPortTyped`, `ParserNeverOverruns` | `[]TypeOK`, `[]NeverOverruns` | | `Typed` |
| `PortAlwaysSplit` | `SplitIsExact` | `MaxFaults > 0` | `Synchronous` |

*MegaLoop.* `TypeOK` is not inductive: a home counts a sample at a time and a
cycle a pass at a time, and only the phase says that there is room for one more.
`TypeInv` adds it (`GoodAxis`: a seeking axis has taken fewer than `HomeSamples`;
`GoodCycle`: a step that does not end the cycle has a pass left, and only a
supply cycle raises the bed again).

`StepsNeverRefused` looks local and is not. It needs that a step is entered only
when its axis is at rest, so that a waiting step has all three at rest
(`WaitsAtRest`), and that no packet touches an axis while a cycle is active. The
re-home needs `DueKnown` (the decision taken at the start agrees with the
counter) and `RehomeToCome` (a due re-home not yet done still lies on the path
`nextStep()` will follow), and the reference of the sweeps needs that a re-home
under way leads to a zero (`Referenced`, `Zeroing`).

A cycle that a switch has cut may go on for one call, but the fault that will end
it is then there (`CutCycle`), and while it is, the layer under the blade may be
anything; otherwise each step finds the bed as the step before left it, a drop that
lowered nothing apart (`LayerKnown`).

The answers of moves and homes rest on an edge: an axis seen busy, then idle.
`OwedWatched` says that an axis that owes an answer has its edge still to come, or a
fault that will settle it instead, unless the command in its slot is one of those no
edge will settle (`Unseen`). `CutKnown` says that a command cut short has its fault
waiting until it is refused, or was eclipsed, and `FaultKnown` that a fault waiting can
only refuse a command it is fair to refuse (`Refusable`). None of it assumes anything of
moves or switches.

That no command is answered twice (`AnswersFinal`) needs none of this, only that a
slot holds a command without an answer (`Unanswered`), no two hold the same, and
every step that answers empties the slot (`AnswerSteps`).

`RecoatProofs` proves all of this of the operators, one lemma for each;
`MegaLoopProofs` of the actions.

*Airflow.* `OutputsFollowStage` is inductive because VERIFY is only entered
from MIX, whose blower it keeps. `VerdictHonest` needs `HoldUnbroken`: a hold that
goes on has never seen oxygen at the limit, as the round that sees it fails the
hold before it looks at the time. `StagePublished` needs `Flagged`: a stage the host
was not told of has its flag set still.

`PurgeBounded` is the part of `EveryPurgeEnds` that needs no fairness: as long as
seconds go by a purge has to end, since the clock of a stage is below the stage's
length whenever a round is over (`Clocks`), and that of the purge is at most the sum
of the stages gone through. The bound is exact: a round takes at most a second, and
a stage of no length one round.

*Persist.* `BootFindsKept` says what the scan of a ring returns, so the invariant
has to be about every slot of a ring of any size. Counted from the slot to be
written next, a slot can hold a valid record of one number only, that of the turn
before, and none if it was torn since the last whole record; the remains of a record
that was torn before a boot went back have the number of this turn (`SlotOK`). All of those numbers lie
within two turns of the ring, so with `SeqMod > 2 * Slots` the signed 16-bit
comparison orders them across its wrap (`LaterIsNewer`), and the scan finds the
greatest. That it does is an induction over the slots read so far (`ScanFinds`): the
rule of induction is got from the least counterexample, `WFMin` on the order of
`Nat`. A boot after tears goes back to the slot that was torn first (`RingRewinds`);
after `Slots - 1` tears in a row the next record would go over the last whole one,
hence the bound on `MaxTears`.

The positions are never lost silently for any number of records (`UnderWay`: a cell
burned already differs from RAM only if the record is dirty again). For the settings
`QuietInv` says by how much a copy may be behind RAM. With nothing being written,
each save since the last write has moved the number in RAM on by one, so a copy that
is valid is at most `saves` behind, and none behind only if it is what RAM holds
(`Recent`); hence `saves` is what `SavesAssumption` bounds, and no number of saves
in all. A save that slips in under the writer leaves a copy that is a mixture, and
is owed a write, until which nothing is said of that copy; when the last cell is
burned with nothing owed, the copy is what RAM holds and the other is older
(`Burning`, `Precedes`). Hence `QuietIsSaved` makes no exception of such saves.

As long as no save came during a write (`torn` is "no"), one copy is good, the one not
written next (`PairInv`). The CRC is the last cell of a copy: while one is written the
CRC it still holds is of content older than the other copy's, so that the copy under way
cannot be the newest valid one before it is whole (`Pair`). The good copy's number is
exactly `saves` behind RAM's while nothing is written, so the copy written next is newer
than it, wherever the numbers wrap. After a save during a write less is known, and
`KeptInv` says what: the copy left alone, if it is whole, still has the settings last
stored whole; if it is not, either nothing was ever stored or the write goes over what
was the good one ("over"). When a write ends whole with nothing owed and the other copy
whole too, `PairInv` holds again (`PairAgain`). Together (`SettingsInv`) these say what a
boot would load in every state; it changes with the last cell of a write, when it becomes
what RAM holds, and otherwise only at risk. The first is the step `Store` of `Durable`,
the second `Unsettled` or a `PowerCycle` (`RegisterStep`, `RiskyStep`).

*JobStore.* `VerifiedInv` says a commit under way is of a verified file named by the
transfer. That is all the refinement needs, for whatever the card does and wherever the
power is cut (`SlotStep`). `HaveInv` follows the copy in RAM through a commit, where the
file is gone for a step (`GoneForNow`), and past one that fails (`lost`), over files whose
header nothing has checked (`Names`).

*TeensyNode.* `TransferKnown` relates the staging area to what the sender was told.
`LerpCellBetween` bounds the interpolation by the corners for any grid and offsets:
a division that rounds down never leaves the interval it interpolates in.

*GalvoEngine.* `Position` says of which samples `g_pos_x` and what was read of it are, also
if an interrupt came since: a buffer back. `Stream` says of every step of a change which samples the frames
written so far are, and from where an interrupt would refill: an interrupt rewrites
the first buffer with what it holds already, and what it does to the second is `late`.
The lemmas on remainders remove the round of a pattern from the argument.

*SharedPort.* `Synchronous`: with no fault since a silence the parser is between two
packets, or in the middle of the one being sent with just its first bytes received.

Only model-checked: `EveryCommandAnswered`, `EveryPurgeEnds` and `ConsoleNotDeaf`,
since liveness under fairness is out of the prover's reach; what safety has to say about
the first two is `AnswersNeverLost` and `PurgeAlwaysBounded`. Every invariant and every
action property that a passing run checks, and each of the three refinements, is
stated by a theorem, under the assumptions of the table.

## Not modelled

- Absolute positions of the axes, ramps, the travel measurement and the backlash
  arithmetic: `Motion` counts passes. Hence also that a power cut during a home
  restores the zero the home gave up (`persist.cpp:249`), which needs both modules.
- `safety.cpp`: two-sample debounce of live flags; `settings.cpp`: range checks of one
  value at a time; `lighting.cpp`: one output. Straight-line code that a unit test
  reaches.
- `sensors.cpp` beyond oxygen: temperatures, warnings, the broken-sensor report.
- `watchdog.cpp`, `dac.cpp`, `adc.cpp`: bench outputs and one flag, without
  feedback into anything modelled. `laser_io.cpp` beyond the lines driven.
- The geometry of a pattern and the encoding of a frame in `xy2_engine.cpp`, the clock
  rate, the monitor's statistics, and every console line that only prints.
- The link's counters, its answer to another protocol version, and ports that are
  not shared with a console. Reports, heartbeats, wording and formatting.
- The ESP32, a stub; the wire layouts, constants only; the host tools, scripts without
  machine state.

## Plan

The order in which the modules were written is that of how much rests on each:
`MegaLoop`, `JobStore`, `Persist`, `Airflow`, then the Teensy's `GalvoEngine`,
`SharedPort` and `TeensyNode`, and the theorems about each as it stood. What would
come next:

1. `AxisMotion`: absolute positions, clamping, backlash and travel measurement,
   implementing `Motion`'s phases; and `Persist` composed with it, for the zero a
   home gives up.
2. The debounced interlocks of `safety.cpp` and the validity of temperatures, composed
   with `MegaLoop`'s latched faults.
3. The faults the node reports, its heartbeats and the watchdog.
