------------------------------- MODULE Persist -------------------------------
(***************************************************************************)
(* The Mega's EEPROM store (src/src/arduino-mega/persist.cpp): the piston  *)
(* positions in a ring of records and the settings in two copies, both     *)
(* trickled out through one writer that burns a cell per pass straight     *)
(* from the structure in RAM, which its owners go on changing.  A cell     *)
(* stands for the bytes of one field; the power may fail at any moment,    *)
(* and may spoil the cell being burned.  A CRC is the content it covers.   *)
(* The settle time and the spacing of records are left to chance.          *)
(***************************************************************************)
EXTENDS Integers, Sequences

CONSTANTS
  Pistons,        \* the axes kept
  Positions,      \* the positions of an axis, PERSIST_MIN_DELTA_UM apart
  Values,         \* settings a host may save
  Junk,           \* what a blank or a spoilt cell reads as
  Slots,          \* PERSIST_SLOT_COUNT
  SeqMod,         \* sequence numbers wrap here (2^16)
  Budgets,        \* bounds: see budget
  MaxTears        \* bound: consecutive records spoilt by a change in RAM

ASSUME PersistAssumption ==
  /\ 0 \in Positions
  /\ Slots \in Nat /\ Slots >= 2
  /\ SeqMod \in Nat /\ SeqMod % 2 = 0 /\ SeqMod > 2 * Slots
  /\ Budgets \subseteq [records : 0 .. SeqMod, saves : 0 .. SeqMod]
  /\ Budgets # {}
  /\ MaxTears \in Nat /\ MaxTears <= Slots - 2
  /\ Junk \notin Values \union (0 .. SeqMod - 1)
  /\ Junk \notin [value : Values \union {Junk}, crc : {Junk},
                   seq : {Junk} \union (0 .. SeqMod - 1)]
  /\ Junk \notin [seq : {Junk} \union (0 .. SeqMod - 1),
                   pos : {Junk} \union [Pistons -> Positions],
                   mask : {Junk} \union SUBSET Pistons, crc : {Junk}]

(* Between two writes of the settings, fractions of a second apart, a host *)
(* does not save a quarter of 2^16 times.                                  *)
ASSUME SavesAssumption == \A b \in Budgets : 4 * b.saves < SeqMod

VARIABLES
  ring, copies,             \* the EEPROM: records, and settings_blob_t twice
  live, nextSlot, dirty,
  settings,                 \* settings_live
  copy, pending,            \* settings_copy, settings_pending
  writer,                   \* writing, write_src and write_index
  budget,                   \* bounds on live.seq and on saves
  saves,                    \* settings saved since they were last queued
  tears,                    \* records spoilt since the last whole one
  (* Observation only. *)
  kept,                     \* the last whole record, or that booted with
  keptValue,                \* the settings last stored whole, or booted with
  torn                      \* see Torn

records == <<live, nextSlot, dirty>>
bounds == <<budget, saves, tears, kept, keptValue, torn>>
vars == <<ring, copies, records, settings, copy, pending, writer, bounds>>

Slot == 0 .. Slots - 1
Seq16 == 0 .. SeqMod - 1

(* The cells of each structure in the order they are burned; the last is   *)
(* the CRC over the others.                                                *)
RecordCells == <<"seq", "pos", "mask", "crc">>
BlobCells == <<"value", "seq", "crc">>

Content(r) == [r EXCEPT !.crc = Junk]
Summed(r) == [r EXCEPT !.crc = Content(r)]
Valid(r) == r.crc = Content(r)

ZeroRecord ==
  [seq |-> 0, pos |-> [p \in Pistons |-> 0], mask |-> {}, crc |-> Junk]
ZeroBlob == [value |-> Junk, seq |-> 0, crc |-> Junk]
Idle == [of |-> "none", at |-> 1]

(* "torn": a save came while the settings were being written, since which  *)
(* the two copies have not both been whole and apart.  "over": the one     *)
(* left alone by the write since is not whole.                             *)
Torn == {"no", "torn", "over"}

(* "Newer" is a signed 16-bit difference. *)
Newer(a, b) == (a - b) % SeqMod \in 1 .. SeqMod \div 2 - 1

(* The scan of begin(): the newest valid record, or -1. *)
Better(r, b, i) ==
  IF Valid(r[i]) /\ (b = -1 \/ Newer(r[i].seq, r[b].seq)) THEN i ELSE b

ScanOf(r) ==
  LET best[i \in -1 .. Slots - 1] ==
        IF i = -1 THEN -1 ELSE Better(r, best[i - 1], i)
  IN best

NewestOf(r) == ScanOf(r)[Slots - 1]

Newest == NewestOf(ring)

(* A faulty variant: numbers that have wrapped are taken for old. *)
NewestCopyUnsigned(both) ==
  IF Valid(both[0]) /\ ~(Valid(both[1]) /\ both[1].seq > both[0].seq) THEN 0
  ELSE IF Valid(both[1]) THEN 1 ELSE -1

(* The same in loadSettings(), of the two copies. *)
NewestCopyOf(both) ==
  IF Valid(both[0]) /\ ~(Valid(both[1]) /\ Newer(both[1].seq, both[0].seq)) THEN 0
  ELSE IF Valid(both[1]) THEN 1 ELSE -1

NewestCopy == NewestCopyOf(copies)

Init ==
  /\ ring = [s \in Slot |-> ZeroRecord]
  /\ copies = [c \in {0, 1} |-> ZeroBlob]
  /\ live = ZeroRecord
  /\ nextSlot = 0
  /\ dirty = FALSE
  /\ settings = ZeroBlob
  /\ copy = 0
  /\ pending = FALSE
  /\ writer = Idle
  /\ budget \in Budgets
  /\ saves = 0
  /\ tears = 0
  /\ kept = ZeroRecord
  /\ keptValue = Junk
  /\ torn = "no"

-----------------------------------------------------------------------------
(* A change to a record under way may spoil it. *)
MayChange == writer.of = "record" => tears < MaxTears

(* A faulty variant: a record under way is trusted to take the change too. *)
NoteTrustsWriter(p, x) ==
  /\ MayChange
  /\ x # live.pos[p] \/ p \notin live.mask
  /\ live' = [live EXCEPT !.pos[p] = x, !.mask = @ \union {p}]
  /\ dirty' = (dirty \/ writer.of # "record")
  /\ UNCHANGED <<ring, copies, nextSlot, settings, copy, pending, writer, bounds>>

(* note(), of an axis at rest that has a zero. *)
Note(p, x) ==
  /\ MayChange
  /\ x # live.pos[p] \/ p \notin live.mask
  /\ live' = [live EXCEPT !.pos[p] = x, !.mask = @ \union {p}]
  /\ dirty' = TRUE
  /\ UNCHANGED <<ring, copies, nextSlot, settings, copy, pending, writer, bounds>>

(* forget(), as a home begins. *)
Forget(p) ==
  /\ MayChange
  /\ p \in live.mask
  /\ live' = [live EXCEPT !.pos[p] = 0, !.mask = @ \ {p}]
  /\ dirty' = TRUE
  /\ UNCHANGED <<ring, copies, nextSlot, settings, copy, pending, writer, bounds>>

(* saveSettings(): the blob is changed in place, even as it is written. *)
SaveSettings(v) ==
  /\ saves < budget.saves
  /\ settings' = Summed([value |-> v, seq |-> (settings.seq + 1) % SeqMod,
                         crc |-> Junk])
  /\ pending' = TRUE
  /\ saves' = saves + 1
  /\ torn' = IF torn = "no" /\ writer.of = "settings" THEN "torn" ELSE torn
  /\ UNCHANGED <<ring, copies, records, copy, writer, budget, tears, kept, keptValue>>

-----------------------------------------------------------------------------
(* service()                                                               *)

(* A faulty variant: the ring does not wrap. *)
SlotAfterUnwrapped(slot) == slot + 1

SlotAfter(slot) == (slot + 1) % Slots

(* One more cell of the record; after the last, the next slot is next.     *)
(* written becomes live, of which only the sequence number matters before  *)
(* the next boot, and that one is still live's.                            *)
WriteRecord ==
  /\ writer.of = "record"
  /\ LET cell == RecordCells[writer.at]
         slot == [ring[nextSlot] EXCEPT ![cell] = live[cell]]
         last == writer.at = Len(RecordCells)
     IN /\ ring' = [ring EXCEPT ![nextSlot] = slot]
        /\ writer' = IF last THEN Idle ELSE [writer EXCEPT !.at = @ + 1]
        /\ nextSlot' = IF last THEN SlotAfter(nextSlot) ELSE nextSlot
        /\ tears' = IF ~last THEN tears ELSE IF Valid(slot) THEN 0 ELSE tears + 1
        /\ kept' = IF last /\ Valid(slot) THEN slot ELSE kept
  /\ UNCHANGED <<copies, live, dirty, settings, copy, pending, budget, saves,
                 keptValue, torn>>

(* One more cell of the settings, in the copy settings_copy moved on from. *)
WriteSettings ==
  /\ writer.of = "settings"
  /\ LET cell == BlobCells[writer.at]
         blob == [copies[1 - copy] EXCEPT ![cell] = settings[cell]]
         last == writer.at = Len(BlobCells)
     IN /\ copies' = [copies EXCEPT ![1 - copy] = blob]
        /\ writer' = IF last THEN Idle ELSE [writer EXCEPT !.at = @ + 1]
        /\ keptValue' = IF last /\ Valid(blob) THEN blob.value ELSE keptValue
        /\ torn' = IF ~(last /\ Valid(blob)) THEN torn
                   ELSE IF Valid(copies[copy]) /\ copies[copy] # blob /\ ~pending
                   THEN "no"
                   ELSE IF torn = "over" THEN "torn" ELSE torn
  /\ UNCHANGED <<ring, records, settings, copy, pending, budget, saves, tears, kept>>

(* A faulty variant: every save goes to the same copy. *)
QueueSettingsInPlace ==
  /\ writer.of = "none"
  /\ pending
  /\ pending' = FALSE
  /\ writer' = [of |-> "settings", at |-> 1]
  /\ saves' = 0
  /\ UNCHANGED <<ring, copies, records, settings, copy, budget, tears, kept,
                 keptValue, torn>>

(* Settings go first. *)
QueueSettings ==
  /\ writer.of = "none"
  /\ pending
  /\ pending' = FALSE
  /\ writer' = [of |-> "settings", at |-> 1]
  /\ copy' = 1 - copy
  /\ saves' = 0
  /\ torn' = IF torn # "no" /\ ~Valid(copies[1 - copy]) THEN "over" ELSE torn
  /\ UNCHANGED <<ring, copies, records, settings, budget, tears, kept, keptValue>>

(* beginWrite(), once every axis has been still long enough. *)
BeginWrite ==
  /\ writer.of = "none"
  /\ ~pending
  /\ dirty
  /\ live.seq < budget.records
  /\ live' = Summed([live EXCEPT !.seq = (@ + 1) % SeqMod])
  /\ dirty' = FALSE
  /\ writer' = [of |-> "record", at |-> 1]
  /\ UNCHANGED <<ring, copies, nextSlot, settings, copy, pending, bounds>>

-----------------------------------------------------------------------------
(* What the EEPROM may hold once the power has failed: a cell that already *)
(* reads as it should is not burned, and cannot be spoilt.                 *)
Spoilt ==
  {<<ring, copies>>}
  \union {<<[ring EXCEPT ![nextSlot][cell] = Junk], copies>> : cell \in
            {RecordCells[i] : i \in IF writer.of = "record" THEN {writer.at} ELSE {}}
              \intersect {c \in DOMAIN live : ring[nextSlot][c] # live[c]}}
  \union {<<ring, [copies EXCEPT ![1 - copy][cell] = Junk]>> : cell \in
            {BlobCells[i] : i \in IF writer.of = "settings" THEN {writer.at} ELSE {}}
              \intersect {c \in DOMAIN settings : copies[1 - copy][c] # settings[c]}}

(* A faulty variant: the ring is rewritten from its start at every boot. *)
PowerCycleRestartsRing ==
  /\ \E left \in Spoilt : ring' = left[1] /\ copies' = left[2]
  /\ live' = IF Newest' = -1 THEN ZeroRecord ELSE ring'[Newest']
  /\ nextSlot' = 0
  /\ settings' = IF NewestCopy' = -1 THEN ZeroBlob ELSE copies'[NewestCopy']
  /\ copy' = IF NewestCopy' = -1 THEN 0 ELSE 1 - NewestCopy'
  /\ dirty' = FALSE
  /\ pending' = FALSE
  /\ writer' = Idle
  /\ saves' = 0
  /\ tears' = 0
  /\ UNCHANGED budget
  /\ kept' = live'
  /\ keptValue' = settings'.value
  /\ torn' = IF torn = "no" THEN "no" ELSE "torn"

(* Power lost and back: begin() and, from settings::begin(),               *)
(* loadSettings().                                                         *)
PowerCycle ==
  /\ \E left \in Spoilt : ring' = left[1] /\ copies' = left[2]
  /\ live' = IF Newest' = -1 THEN ZeroRecord ELSE ring'[Newest']
  /\ nextSlot' = IF Newest' = -1 THEN 0 ELSE SlotAfter(Newest')
  /\ settings' = IF NewestCopy' = -1 THEN ZeroBlob ELSE copies'[NewestCopy']
  /\ copy' = IF NewestCopy' = -1 THEN 0 ELSE 1 - NewestCopy'
  /\ dirty' = FALSE
  /\ pending' = FALSE
  /\ writer' = Idle
  /\ saves' = 0
  /\ tears' = 0
  /\ UNCHANGED budget
  /\ kept' = live'
  /\ keptValue' = settings'.value
  /\ torn' = IF torn = "no" THEN "no" ELSE "torn"

Next ==
  \/ \E p \in Pistons : Forget(p) \/ \E x \in Positions : Note(p, x)
  \/ \E v \in Values : SaveSettings(v)
  \/ WriteRecord
  \/ WriteSettings
  \/ QueueSettings
  \/ BeginWrite
  \/ PowerCycle

Spec == Init /\ [][Next]_vars

-----------------------------------------------------------------------------
(* Properties.                                                             *)

(* The type of every variable. *)
TypeOK ==
  /\ DOMAIN ring = Slot /\ \A s \in Slot : DOMAIN ring[s] = DOMAIN ZeroRecord
  /\ DOMAIN copies = {0, 1} /\ \A c \in {0, 1} : DOMAIN copies[c] = DOMAIN ZeroBlob
  /\ live.seq \in Seq16
  /\ live.pos \in [Pistons -> Positions]
  /\ live.mask \subseteq Pistons
  /\ nextSlot \in Slot
  /\ dirty \in BOOLEAN
  /\ settings.value \in Values \union {Junk}
  /\ settings.seq \in Seq16
  /\ copy \in {0, 1}
  /\ pending \in BOOLEAN
  /\ writer \in [of : {"none"}, at : {1}]
                  \union [of : {"record"}, at : 1 .. Len(RecordCells)]
                  \union [of : {"settings"}, at : 1 .. Len(BlobCells)]
  /\ budget \in Budgets
  /\ saves \in 0 .. budget.saves
  /\ tears \in 0 .. MaxTears

(* What a boot would restore now. *)
Restored == IF Newest = -1 THEN ZeroRecord ELSE ring[Newest]
Loaded == IF NewestCopy = -1 THEN Junk ELSE copies[NewestCopy].value

(* What a boot would restore is the last record that was written whole, or *)
(* that the board booted with; if it is another, it is in the slot being   *)
(* written just now.  No cut, spoilt cell, change under the writer or wrap *)
(* of the ring or of the numbers brings back an older one.                 *)
BootFindsKept ==
  \/ Restored = kept
  \/ writer.of = "record" /\ Newest = nextSlot

(* With nothing left to save, a boot would restore what the board goes by: *)
(* a change that slipped in under the writer is still owed a record.       *)
QuietIsSaved ==
  /\ ~dirty /\ writer.of # "record" =>
       Restored.pos = live.pos /\ Restored.mask = live.mask
  /\ ~pending /\ writer.of # "settings" => Loaded = settings.value

(* A boot finds the settings last stored whole, unless those being written *)
(* are whole already.  It finds none only after a save that came while     *)
(* settings were being written: when the next write goes over the one copy *)
(* that was good.                                                          *)
SettingsKept ==
  \/ Loaded = keptValue
  \/ writer.of = "settings" /\ NewestCopy = 1 - copy
  \/ torn = "over" /\ NewestCopy = -1

(* The settings are one durable register, whose content is replaced in one *)
(* step, except after a save that came while they were being written.      *)
Register == INSTANCE Durable WITH
  Blank <- Junk, current <- settings.value, stored <- Loaded,
  owed <- pending \/ writer.of = "settings", risk <- torn # "no"

SettingsSpec == Register!Spec

(* What the code does not do.  "Two alternating copies so a power cut      *)
(* during a write cannot destroy the only good one" (config.h): once       *)
(* settings are stored, one copy of the two is whole.                      *)
OneCopyGood == keptValue # Junk => NewestCopy # -1
=============================================================================
