---------------------------- MODULE PersistProofs ----------------------------
(***************************************************************************)
(* Proofs about Persist, for any ring, any settings and with the power cut *)
(* in any cell.                                                            *)
(*                                                                         *)
(* The settings: a CRC is the last cell burned, so that a copy under way   *)
(* is not valid before it is whole: the CRC it still holds is of content   *)
(* older than the other copy.  By how many saves a copy is behind the      *)
(* settings in RAM is known (Recent, SettingsInv); that is less than half  *)
(* of SeqMod, so that the numbers tell which is newer, however often they  *)
(* wrap.                                                                   *)
(*                                                                         *)
(* The ring: a slot is known by the steps it is ahead of the one to be     *)
(* written next.  The CRC in it can only be of the number the slot got in  *)
(* the turn before, or of the one it gets in this turn, if a record was    *)
(* torn there before a boot went back.  All of these are less than half of *)
(* SeqMod apart, on which the scan of begin() depends; that the scan finds *)
(* the newest of such records goes by induction over the slots read.       *)
(***************************************************************************)
EXTENDS Persist, WellFoundedInduction, TLAPS

USE PersistAssumption DEF PersistAssumption

SeqNo == 0 .. SeqMod - 1

(* What is ever summed, and what a copy may hold. *)
Sum == [value : Values, seq : SeqNo, crc : {Junk}]
Blob == [value : Values \union {Junk}, seq : SeqNo \union {Junk},
         crc : Sum \union {Junk}]

LEMMA JunkIsNoSum == Junk \notin Sum
<1>1. ASSUME Junk \in Sum PROVE FALSE
  <2>1. Junk \in [value : Values \union {Junk}, crc : {Junk},
                  seq : {Junk} \union (0 .. SeqMod - 1)]
    BY <1>1 DEF Sum, SeqNo
  <2> QED
    BY <2>1
<1> QED
  BY <1>1

LEMMA ValidBlob ==
  ASSUME NEW b \in Blob
  PROVE  /\ Valid(b) => b.crc \in Sum /\ b.value \in Values
                        /\ b.seq \in SeqNo /\ b.crc.seq = b.seq
         /\ b.crc = Junk => ~Valid(b)
<1>1. Content(b) = [value |-> b.value, seq |-> b.seq, crc |-> Junk]
  BY DEF Content, Blob
<1>2. Content(b) # Junk
  <2>1. Content(b) \in [value : Values \union {Junk}, crc : {Junk},
                        seq : {Junk} \union (0 .. SeqMod - 1)]
    BY <1>1 DEF Blob, SeqNo
  <2> QED
    BY <2>1
<1>3. ASSUME Valid(b)
      PROVE  b.crc \in Sum /\ b.value \in Values /\ b.seq \in SeqNo
             /\ b.crc.seq = b.seq
  <2>1. b.crc = Content(b) /\ b.crc \in Sum
    BY <1>2, <1>3 DEF Valid, Blob
  <2> QED
    BY <1>1, <2>1 DEF Sum
<1> QED
  BY <1>2, <1>3 DEF Valid

LEMMA SummedBlob ==
  ASSUME NEW v \in Values, NEW n \in SeqNo, NEW x, NEW s,
         s = Summed([value |-> v, seq |-> n, crc |-> x])
  PROVE  s \in Blob /\ Valid(s) /\ s.value = v /\ s.seq = n
<1> DEFINE r == [value |-> v, seq |-> n, crc |-> x]
           c == [value |-> v, seq |-> n, crc |-> Junk]
<1>1. Content(r) = c
  BY DEF Content
<1>2. s = [value |-> v, seq |-> n, crc |-> c]
  BY <1>1 DEF Summed
<1>3. c \in Sum
  BY DEF Sum
<1>4. s \in Blob
  BY <1>2, <1>3 DEF Blob
<1>5. Content(s) = c
  BY <1>2 DEF Content
<1> QED
  BY <1>2, <1>4, <1>5 DEF Valid

WritingSettings == writer.of = "settings"
Writing == writer.of = "record"

(* What a failing power leaves: all but the cell being burned.             *)
LEMMA SpoiltCells ==
  ASSUME settings \in Blob, NEW left \in Spoilt
  PROVE  /\ \/ left[1] = ring
            \/ /\ Writing
               /\ left[1] = [ring EXCEPT ![nextSlot] =
                               [ring[nextSlot] EXCEPT ![RecordCells[writer.at]] = Junk]]
         /\ \/ left[2] = copies
            \/ /\ WritingSettings
               /\ \E cell \in {"value", "seq", "crc"} :
                    left[2] = [copies EXCEPT ![1 - copy][cell] = Junk]
<1> DEFINE Cells(of, names) == {names[i] : i \in IF writer.of = of THEN {writer.at} ELSE {}}
           RecordCuts == Cells("record", RecordCells)
             \intersect {c \in DOMAIN live : ring[nextSlot][c] # live[c]}
           BlobCuts == Cells("settings", BlobCells)
             \intersect {c \in DOMAIN settings : copies[1 - copy][c] # settings[c]}
<1>1. left \in {<<ring, copies>>}
          \union {<<[ring EXCEPT ![nextSlot][cell] = Junk], copies>> :
                    cell \in RecordCuts}
          \union {<<ring, [copies EXCEPT ![1 - copy][cell] = Junk]>> :
                    cell \in BlobCuts}
  BY Zenon DEF Spoilt
<1>2. \A cell \in RecordCuts : Writing /\ cell = RecordCells[writer.at]
  BY DEF Writing
<1>3. \A cell \in BlobCuts : WritingSettings /\ cell \in {"value", "seq", "crc"}
  <2>1. DOMAIN settings = {"value", "seq", "crc"}
    BY DEF Blob
  <2> QED
    BY <2>1 DEF WritingSettings
<1> HIDE DEF RecordCuts, BlobCuts
<1>4. \/ left = <<ring, copies>>
      \/ \E cell \in RecordCuts :
           left = <<[ring EXCEPT ![nextSlot][cell] = Junk], copies>>
      \/ \E cell \in BlobCuts :
           left = <<ring, [copies EXCEPT ![1 - copy][cell] = Junk]>>
  BY <1>1, Zenon
<1>5. CASE left = <<ring, copies>>
  BY <1>5
<1>6. ASSUME NEW cell \in RecordCuts,
             left = <<[ring EXCEPT ![nextSlot][cell] = Junk], copies>>
      PROVE  /\ Writing /\ left[2] = copies
             /\ left[1] = [ring EXCEPT ![nextSlot] =
                             [ring[nextSlot] EXCEPT ![RecordCells[writer.at]] = Junk]]
  <2>1. Writing /\ cell = RecordCells[writer.at]
    BY <1>2
  <2>2. left[1] = [ring EXCEPT ![nextSlot][cell] = Junk] /\ left[2] = copies
    BY <1>6
  <2>3. [ring EXCEPT ![nextSlot][cell] = Junk]
          = [ring EXCEPT ![nextSlot] = [ring[nextSlot] EXCEPT ![cell] = Junk]]
    OBVIOUS
  <2> QED
    BY <2>1, <2>2, <2>3
<1>7. ASSUME NEW cell \in BlobCuts,
             left = <<ring, [copies EXCEPT ![1 - copy][cell] = Junk]>>
      PROVE  /\ left[1] = ring /\ WritingSettings
             /\ cell \in {"value", "seq", "crc"}
             /\ left[2] = [copies EXCEPT ![1 - copy][cell] = Junk]
  BY <1>3, <1>7
<1> QED
  BY <1>4, <1>5, <1>6, <1>7

-----------------------------------------------------------------------------
(* The scan.                                                               *)

(* Induction, from the least counterexample. *)
LEMMA NatSetInduction ==
  ASSUME NEW T \in SUBSET Nat, 0 \in T, \A n \in T : n + 1 \in T
  PROVE  T = Nat
<1> SUFFICES ASSUME Nat \ T # {} PROVE FALSE
  OBVIOUS
<1> DEFINE R == OpToRel(<, Nat)
<1>1. IsWellFoundedOn(R, Nat)
  BY NatLessThanWellFounded
<1>2. PICK x \in Nat \ T : \A y \in Nat \ T : <<y, x>> \notin R
  <2> HIDE DEF R
  <2> QED
    BY <1>1, WFMin
<1>3. x # 0 /\ x - 1 \in Nat /\ x - 1 \notin T
  <2>1. x \in Nat /\ x \notin T /\ x # 0
    OBVIOUS
  <2>2. x - 1 \in Nat /\ (x - 1) + 1 = x
    BY <2>1
  <2> QED
    BY <2>1, <2>2
<1>4. <<x - 1, x>> \in R
  BY <1>3 DEF OpToRel
<1> QED
  BY <1>2, <1>3, <1>4

(* A prefix of the scan exists, one slot longer at a time. *)
Scans(r, f, n) ==
  f = [i \in -1 .. n - 1 |-> IF i = -1 THEN -1 ELSE Better(r, f[i - 1], i)]

LEMMA ScanExists ==
  ASSUME NEW r
  PROVE  \A n \in Nat : \E f : Scans(r, f, n)
<1> DEFINE T == {n \in Nat : \E f : Scans(r, f, n)}
<1>1. 0 \in T
  <2> DEFINE f == [i \in -1 .. -1 |-> -1]
  <2>1. Scans(r, f, 0)
    BY DEF Scans
  <2> QED
    BY <2>1
<1>2. ASSUME NEW n \in T PROVE n + 1 \in T
  <2>1. PICK f : Scans(r, f, n)
    OBVIOUS
  <2> DEFINE step(g, i) == IF i = -1 THEN -1 ELSE Better(r, g[i - 1], i)
             g == [i \in -1 .. n |-> IF i = n THEN step(f, n) ELSE f[i]]
  <2>2. \A i \in -1 .. n - 1 : f[i] = step(f, i)
    BY <2>1 DEF Scans
  <2>3. \A i \in -1 .. n : g[i] = step(g, i)
    <3> SUFFICES ASSUME NEW i \in -1 .. n PROVE g[i] = step(g, i)
      OBVIOUS
    <3> HIDE DEF step
    <3>1. g[i] = step(f, i)
      BY <2>2
    <3>2. i # -1 => g[i - 1] = f[i - 1]
      OBVIOUS
    <3> QED
      BY <3>1, <3>2 DEF step
  <2>4. g = [i \in -1 .. n |-> step(g, i)]
    <3> HIDE DEF step
    <3>1. g = [i \in -1 .. n |-> g[i]]
      OBVIOUS
    <3> HIDE DEF g
    <3> QED
      BY <2>3, <3>1
  <2>5. Scans(r, g, n + 1)
    <3> HIDE DEF g
    <3>1. (n + 1) - 1 = n
      OBVIOUS
    <3> QED
      BY <2>4, <3>1 DEF Scans
  <2> QED
    BY <2>5
<1> HIDE DEF T
<1>3. T \in SUBSET Nat
  BY DEF T
<1>4. T = Nat
  BY <1>1, <1>2, <1>3, NatSetInduction
<1> QED
  BY <1>4 DEF T

LEMMA ScanStep ==
  ASSUME NEW r
  PROVE  /\ ScanOf(r)[-1] = -1
         /\ \A i \in Slot : ScanOf(r)[i] = Better(r, ScanOf(r)[i - 1], i)
<1> DEFINE Def(f) == [i \in -1 .. Slots - 1 |->
                        IF i = -1 THEN -1 ELSE Better(r, f[i - 1], i)]
<1>1. ScanOf(r) = CHOOSE f : f = Def(f)
  BY Zenon DEF ScanOf
<1>2. \E f : f = Def(f)
  <2>1. PICK f : Scans(r, f, Slots)
    BY ScanExists
  <2> QED
    BY <2>1, Zenon DEF Scans
<1>3. (CHOOSE f : f = Def(f)) = Def(CHOOSE f : f = Def(f))
  <2> HIDE DEF Def
  <2> QED
    BY <1>2, Zenon
<1>4. PICK f : f = ScanOf(r) /\ f = Def(f)
  BY <1>1, <1>3
<1>5. \A i \in -1 .. Slots - 1 : f[i] = IF i = -1 THEN -1 ELSE Better(r, f[i - 1], i)
  BY <1>4
<1> HIDE DEF Def
<1> QED
  BY <1>4, <1>5 DEF Slot

(* The scan ends at the one valid record that is newer than every other. *)
LEMMA ScanFinds ==
  ASSUME NEW r, NEW w \in Slot, Valid(r[w]),
         \A i \in Slot \ {w} : Valid(r[i]) =>
            Newer(r[w].seq, r[i].seq) /\ ~Newer(r[i].seq, r[w].seq)
  PROVE  NewestOf(r) = w
<1> DEFINE at == ScanOf(r)
           Right(i) == IF i < w THEN at[i] \in -1 .. i /\ (at[i] # -1 => Valid(r[at[i]]))
                       ELSE at[i] = w
           T == {n \in Nat : n \in Slot => Right(n)}
<1>1. at[-1] = -1 /\ \A i \in Slot : at[i] = Better(r, at[i - 1], i)
  BY ScanStep
<1>2. ASSUME NEW i \in Slot, i = 0 \/ Right(i - 1) PROVE Right(i)
  <2>1. at[i] = Better(r, at[i - 1], i)
    BY <1>1
  <2>2. CASE i < w
    <3>1. at[i - 1] \in -1 .. i - 1 /\ (at[i - 1] # -1 => Valid(r[at[i - 1]]))
      BY <1>1, <1>2, <2>2 DEF Slot
    <3> QED
      BY <2>1, <2>2, <3>1 DEF Better, Slot
  <2>3. CASE i = w
    <3>1. at[i - 1] \in -1 .. i - 1 /\ (at[i - 1] # -1 => Valid(r[at[i - 1]]))
      BY <1>1, <1>2, <2>3 DEF Slot
    <3>2. at[i - 1] # -1 => Newer(r[w].seq, r[at[i - 1]].seq)
      BY <2>3, <3>1 DEF Slot
    <3> QED
      BY <2>1, <2>3, <3>1, <3>2 DEF Better, Slot
  <2>4. CASE i > w
    <3>1. at[i - 1] = w /\ w # -1
      BY <1>2, <2>4 DEF Slot
    <3>2. Valid(r[i]) => ~Newer(r[i].seq, r[w].seq)
      <4>1. i \in Slot \ {w}
        BY <2>4 DEF Slot
      <4> QED
        BY <4>1
    <3> QED
      BY <2>1, <2>4, <3>1, <3>2 DEF Better, Slot
  <2> QED
    BY <2>2, <2>3, <2>4 DEF Slot
<1> HIDE DEF Right
<1>3. 0 \in T
  BY <1>2
<1>4. ASSUME NEW n \in T PROVE n + 1 \in T
  <2>1. n + 1 \in Slot => n \in Slot /\ (n + 1) - 1 = n
    BY DEF Slot
  <2> QED
    BY <1>2, <2>1
<1> HIDE DEF T
<1>5. T = Nat
  <2>1. T \in SUBSET Nat
    BY DEF T
  <2> QED
    BY <1>3, <1>4, <2>1, NatSetInduction
<1>6. Right(Slots - 1)
  BY <1>5 DEF T, Slot
<1> QED
  BY <1>6 DEF Right, Slot, NewestOf

LEMMA ScanFindsNone ==
  ASSUME NEW r, \A i \in Slot : ~Valid(r[i])
  PROVE  NewestOf(r) = -1
<1> DEFINE at == ScanOf(r)
           T == {n \in Nat : n \in Slot => at[n] = -1}
<1>1. at[-1] = -1 /\ \A i \in Slot : at[i] = Better(r, at[i - 1], i)
  BY ScanStep
<1>2. 0 \in T
  BY <1>1 DEF Better, Slot
<1>3. ASSUME NEW n \in T PROVE n + 1 \in T
  <2>1. n + 1 \in Slot => n \in Slot /\ (n + 1) - 1 = n
    BY DEF Slot
  <2> QED
    BY <1>1, <2>1 DEF Better
<1> HIDE DEF T
<1>4. T = Nat
  <2>1. T \in SUBSET Nat
    BY DEF T
  <2> QED
    BY <1>2, <1>3, <2>1, NatSetInduction
<1> QED
  BY <1>4 DEF T, Slot, NewestOf

Places == {Junk} \union [Pistons -> Positions]
Masks == {Junk} \union SUBSET Pistons
RecordSum == [seq : SeqNo, pos : [Pistons -> Positions],
              mask : SUBSET Pistons, crc : {Junk}]
Record == [seq : SeqNo \union {Junk}, pos : Places, mask : Masks,
           crc : RecordSum \union {Junk}]

LEMMA JunkIsNoContent ==
  ASSUME NEW r \in Record
  PROVE  /\ Content(r) = [seq |-> r.seq, pos |-> r.pos, mask |-> r.mask, crc |-> Junk]
         /\ Content(r) # Junk
<1>1. Content(r) = [seq |-> r.seq, pos |-> r.pos, mask |-> r.mask, crc |-> Junk]
  BY DEF Content, Record
<1>2. Content(r) \in [seq : {Junk} \union (0 .. SeqMod - 1),
                      pos : {Junk} \union [Pistons -> Positions],
                      mask : {Junk} \union SUBSET Pistons, crc : {Junk}]
  <2>1. /\ r.seq \in {Junk} \union (0 .. SeqMod - 1)
        /\ r.pos \in {Junk} \union [Pistons -> Positions]
        /\ r.mask \in {Junk} \union SUBSET Pistons
    BY DEF Record, Places, Masks, SeqNo
  <2> QED
    BY <1>1, <2>1
<1> QED
  BY <1>1, <1>2

LEMMA ValidRecord ==
  ASSUME NEW r \in Record
  PROVE  /\ Valid(r) => /\ r.crc # Junk /\ r.seq \in SeqNo
                        /\ r.pos \in [Pistons -> Positions]
                        /\ r.mask \in SUBSET Pistons /\ r.crc.seq = r.seq
         /\ r.crc = Junk => ~Valid(r)
         /\ r.crc # Junk => r.crc \in RecordSum /\ r.crc.seq \in SeqNo
<1>1. r.crc # Junk => r.crc \in RecordSum /\ r.crc.seq \in SeqNo
  BY DEF Record, RecordSum
<1>2. ASSUME Valid(r)
      PROVE  /\ r.crc # Junk /\ r.seq \in SeqNo
             /\ r.pos \in [Pistons -> Positions]
             /\ r.mask \in SUBSET Pistons /\ r.crc.seq = r.seq
  <2>1. r.crc = Content(r) /\ r.crc # Junk
    BY <1>2, JunkIsNoContent DEF Valid
  <2>2. r.crc \in RecordSum
    BY <2>1 DEF Record
  <2>3. /\ r.crc.seq = r.seq /\ r.crc.pos = r.pos /\ r.crc.mask = r.mask
    BY <2>1, JunkIsNoContent
  <2> QED
    BY <2>1, <2>2, <2>3 DEF RecordSum
<1> QED
  BY <1>1, <1>2, JunkIsNoContent DEF Valid

-----------------------------------------------------------------------------
(* Slots and numbers. *)
Ahead(n, i) == IF i >= n THEN i - n ELSE i - n + Slots
Shift(q, d) ==
  IF q + d < 0 THEN q + d + SeqMod
  ELSE IF q + d >= SeqMod THEN q + d - SeqMod ELSE q + d
OldNumber(n, q, i) == Shift(q, Ahead(n, i) + 1 - Slots)
NewNumber(n, q, i) == Shift(q, Ahead(n, i) + 1)

Near == -Slots .. Slots

LEMMA ShiftTyped ==
  ASSUME NEW q \in SeqNo, NEW d \in Near
  PROVE  Shift(q, d) \in SeqNo
BY DEF Shift, SeqNo, Near

LEMMA ShiftTwice ==
  ASSUME NEW q \in SeqNo, NEW d \in Near, NEW e \in Near, d + e \in Near
  PROVE  Shift(Shift(q, d), e) = Shift(q, d + e)
BY DEF Shift, SeqNo, Near

LEMMA ShiftNone ==
  ASSUME NEW q \in SeqNo
  PROVE  Shift(q, 0) = q
BY DEF Shift, SeqNo

LEMMA ShiftIsMod ==
  ASSUME NEW q \in SeqNo
  PROVE  (q + 1) % SeqMod = Shift(q, 1)
<1>1. CASE q + 1 < SeqMod
  <2>1. (q + 1) % SeqMod = q + 1
    BY <1>1 DEF SeqNo
  <2> QED
    BY <1>1, <2>1 DEF Shift, SeqNo
<1>2. CASE q + 1 = SeqMod
  <2>1. (q + 1) % SeqMod = 0
    BY <1>2 DEF SeqNo
  <2> QED
    BY <1>2, <2>1 DEF Shift, SeqNo
<1> QED
  BY <1>1, <1>2 DEF SeqNo

LEMMA DifferenceMod ==
  ASSUME NEW a \in SeqNo, NEW b \in SeqNo
  PROVE  (a - b) % SeqMod = IF a >= b THEN a - b ELSE a - b + SeqMod
<1>1. CASE a >= b
  <2>1. a - b \in 0 .. SeqMod - 1
    BY <1>1 DEF SeqNo
  <2>2. (a - b) % SeqMod = a - b
    BY <2>1
  <2> QED
    BY <1>1, <2>2
<1>2. CASE a < b
  <2> DEFINE c == a - b + SeqMod
  <2>1. c \in 0 .. SeqMod - 1 /\ a - b = c - SeqMod
    BY <1>2 DEF SeqNo
  <2> HIDE DEF c
  <2>2. (c - SeqMod) % SeqMod = c
    BY <2>1
  <2> QED
    BY <1>2, <2>1, <2>2 DEF c, SeqNo
<1> QED
  BY <1>1, <1>2 DEF SeqNo

LEMMA LaterIsNewer ==
  ASSUME NEW q \in SeqNo, NEW c \in Near, NEW d \in Near, c < d, d - c <= Slots
  PROVE  /\ Newer(Shift(q, d), Shift(q, c))
         /\ ~Newer(Shift(q, c), Shift(q, d))
<1>1. PICK h \in Nat : SeqMod = 2 * h /\ SeqMod \div 2 = h
  <2>1. SeqMod \div 2 \in Nat /\ SeqMod = 2 * (SeqMod \div 2)
    OBVIOUS
  <2> QED
    BY <2>1
<1>2. Slots < h
  BY <1>1
<1> DEFINE a == Shift(q, d)
           b == Shift(q, c)
<1>3. a \in SeqNo /\ b \in SeqNo
  BY ShiftTyped
<1>4. (IF a >= b THEN a - b ELSE a - b + SeqMod) = d - c
  BY DEF Shift, SeqNo, Near
<1>5. (IF b >= a THEN b - a ELSE b - a + SeqMod) = SeqMod - (d - c)
  BY DEF Shift, SeqNo, Near
<1> HIDE DEF a, b
<1>6. (a - b) % SeqMod = d - c /\ (b - a) % SeqMod = SeqMod - (d - c)
  BY <1>3, <1>4, <1>5, DifferenceMod
<1>7. d - c \in 1 .. h - 1 /\ SeqMod - (d - c) \notin 1 .. h - 1
  BY <1>1, <1>2 DEF Near
<1> QED
  BY <1>1, <1>6, <1>7 DEF Newer, a, b

NoRecord(k) == k.crc = Junk

SlotOK(r, n, q, t, k, busy, i) ==
  /\ r[i].crc # Junk =>
       \/ r[i].crc.seq = OldNumber(n, q, i)
       \/ r[i].crc.seq = NewNumber(n, q, i) /\ Ahead(n, i) < Slots - t
  /\ Valid(r[i]) =>
       \/ /\ ~NoRecord(k) /\ Ahead(n, i) < Slots - t
          /\ r[i].crc.seq = OldNumber(n, q, i)
       \/ busy /\ i = n /\ r[i].crc.seq = NewNumber(n, q, i)
  /\ ~NoRecord(k) /\ Ahead(n, i) = Slots - 1 - t => r[i] = k

RingOK(r, n, q, t, k, busy) ==
  /\ \A i \in Slot : SlotOK(r, n, q, t, k, busy, i)
  /\ NoRecord(k) => k = ZeroRecord /\ n = t /\ q = t
  /\ ~NoRecord(k) => Valid(k) /\ k.seq = Shift(q, -t)

(* The slot a way ahead. *)
SlotAt(n, d) == IF n + d < Slots THEN n + d ELSE n + d - Slots

LEMMA AheadTyped ==
  ASSUME NEW n \in Slot, NEW i \in Slot
  PROVE  /\ Ahead(n, i) \in 0 .. Slots - 1
         /\ Ahead(n, i) = 0 <=> i = n
         /\ Ahead(n, i) + 1 \in Near /\ Ahead(n, i) + 1 - Slots \in Near
BY DEF Ahead, Slot, Near

LEMMA SlotAtTyped ==
  ASSUME NEW n \in Slot, NEW d \in 0 .. Slots - 1
  PROVE  /\ SlotAt(n, d) \in Slot
         /\ \A i \in Slot : Ahead(n, i) = d <=> i = SlotAt(n, d)
BY DEF SlotAt, Ahead, Slot

LEMMA SlotAfterAt ==
  ASSUME NEW n \in Slot
  PROVE  SlotAfter(n) = SlotAt(n, 1) /\ SlotAfter(n) \in Slot
<1>1. CASE n + 1 < Slots
  <2>1. (n + 1) % Slots = n + 1
    BY <1>1 DEF Slot
  <2> QED
    BY <1>1, <2>1 DEF SlotAfter, SlotAt, Slot
<1>2. CASE n + 1 = Slots
  <2>1. (n + 1) % Slots = 0
    BY <1>2 DEF Slot
  <2> QED
    BY <1>2, <2>1 DEF SlotAfter, SlotAt, Slot
<1> QED
  BY <1>1, <1>2 DEF Slot

(* What a boot finds. *)
LEMMA RingFindsNew ==
  ASSUME NEW r \in [Slot -> Record], NEW n \in Slot, NEW q \in SeqNo,
         \E t \in 0 .. MaxTears, k \in Record, busy \in BOOLEAN :
            RingOK(r, n, q, t, k, busy),
         Valid(r[n]), r[n].crc.seq = Shift(q, 1)
  PROVE  NewestOf(r) = n
<1>1. r[n].seq = Shift(q, 1)
  BY ValidRecord
<1>2. ASSUME NEW i \in Slot \ {n}, Valid(r[i])
      PROVE  Newer(r[n].seq, r[i].seq) /\ ~Newer(r[i].seq, r[n].seq)
  <2> DEFINE c == Ahead(n, i) + 1 - Slots
  <2>1. r[i].seq = Shift(q, c)
    BY <1>2, ValidRecord DEF RingOK, SlotOK, OldNumber
  <2>2. c \in Near /\ 1 \in Near /\ c < 1 /\ 1 - c <= Slots
    <3>1. Ahead(n, i) \in 1 .. Slots - 1
      BY AheadTyped
    <3> QED
      BY <3>1 DEF Near
  <2> HIDE DEF c
  <2> QED
    BY <1>1, <2>1, <2>2, LaterIsNewer
<1> QED
  BY <1>2, ScanFinds

LEMMA RingFindsKept ==
  ASSUME NEW r \in [Slot -> Record], NEW n \in Slot, NEW q \in SeqNo,
         NEW t \in 0 .. MaxTears, NEW k \in Record, NEW busy \in BOOLEAN,
         RingOK(r, n, q, t, k, busy),
         ~(busy /\ Valid(r[n]) /\ r[n].crc.seq = Shift(q, 1))
  PROVE  IF NoRecord(k) THEN NewestOf(r) = -1
         ELSE NewestOf(r) = SlotAt(n, Slots - 1 - t) /\ r[NewestOf(r)] = k
<1>0. NewNumber(n, q, n) = Shift(q, 1)
  BY DEF NewNumber, Ahead, Slot
<1>1. ASSUME NoRecord(k) PROVE NewestOf(r) = -1
  <2>1. \A i \in Slot : ~Valid(r[i])
    BY <1>0, <1>1 DEF RingOK, SlotOK
  <2> QED
    BY <2>1, ScanFindsNone
<1>2. ASSUME ~NoRecord(k)
      PROVE  NewestOf(r) = SlotAt(n, Slots - 1 - t) /\ r[NewestOf(r)] = k
  <2> DEFINE w == SlotAt(n, Slots - 1 - t)
  <2>1. /\ w \in Slot
        /\ \A i \in Slot : Ahead(n, i) = Slots - 1 - t <=> i = w
    BY SlotAtTyped
  <2> HIDE DEF w
  <2>2. r[w] = k /\ Valid(k) /\ k.seq = Shift(q, -t)
    BY <1>2, <2>1 DEF RingOK, SlotOK
  <2>3. ASSUME NEW i \in Slot \ {w}, Valid(r[i])
        PROVE  Newer(r[w].seq, r[i].seq) /\ ~Newer(r[i].seq, r[w].seq)
    <3> DEFINE c == Ahead(n, i) + 1 - Slots
    <3>1. r[i].seq = Shift(q, c) /\ Ahead(n, i) < Slots - t
      BY <1>0, <2>3, ValidRecord DEF RingOK, SlotOK, OldNumber
    <3>2. Ahead(n, i) # Slots - 1 - t
      BY <2>1
    <3>3. c \in Near /\ -t \in Near /\ c < -t /\ -t - c <= Slots
      BY <3>1, <3>2, AheadTyped DEF Near
    <3> HIDE DEF c
    <3> QED
      BY <2>2, <3>1, <3>3, LaterIsNewer
  <2>4. NewestOf(r) = w
    BY <2>1, <2>2, <2>3, ScanFinds
  <2> QED
    BY <2>2, <2>4 DEF w
<1> QED
  BY <1>1, <1>2

LEMMA KeptIsAhead ==
  ASSUME NEW r \in [Slot -> Record], NEW n \in Slot, NEW q \in SeqNo,
         NEW t \in 0 .. MaxTears, NEW k \in Record, NEW busy \in BOOLEAN,
         RingOK(r, n, q, t, k, busy)
  PROVE  \A i \in Slot : ~NoRecord(k) /\ Ahead(n, i) = Slots - 1 - t =>
            r[i] = k /\ Valid(r[i])
BY DEF RingOK, SlotOK

-----------------------------------------------------------------------------
(* A record completed. *)
Completed(r, n, b) == [r EXCEPT ![n] = b]

LEMMA MoveOn ==
  ASSUME NEW n \in Slot, NEW q \in SeqNo, NEW i \in Slot
  PROVE  /\ i # n => /\ Ahead(SlotAfter(n), i) = Ahead(n, i) - 1
                     /\ OldNumber(SlotAfter(n), Shift(q, 1), i) = OldNumber(n, q, i)
                     /\ NewNumber(SlotAfter(n), Shift(q, 1), i) = NewNumber(n, q, i)
         /\ i = n => /\ Ahead(SlotAfter(n), i) = Slots - 1
                     /\ OldNumber(SlotAfter(n), Shift(q, 1), i) = Shift(q, 1)
<1> DEFINE m == SlotAfter(n)
           p == Shift(q, 1)
<1>1. m \in Slot /\ m = SlotAt(n, 1) /\ p \in SeqNo /\ 1 \in Near
  BY SlotAfterAt, ShiftTyped DEF Near
<1>2. i # n => Ahead(m, i) = Ahead(n, i) - 1
  BY <1>1 DEF SlotAt, Ahead, Slot
<1>3. i = n => Ahead(m, i) = Slots - 1
  BY <1>1 DEF SlotAt, Ahead, Slot
<1>4. /\ Ahead(n, i) \in 0 .. Slots - 1
      /\ Ahead(n, i) = 0 <=> i = n
  BY AheadTyped
<1> HIDE DEF m
<1>5. ASSUME i # n
      PROVE OldNumber(m, p, i) = OldNumber(n, q, i) /\ NewNumber(m, p, i) = NewNumber(n, q, i)
  <2> DEFINE a == Ahead(n, i)
  <2>1. a \in 1 .. Slots - 1 /\ Ahead(m, i) = a - 1
    BY <1>2, <1>4, <1>5
  <2> HIDE DEF a
  <2>2. /\ (a - 1) + 1 - Slots \in Near /\ (a - 1) + 1 \in Near
        /\ 1 + ((a - 1) + 1 - Slots) \in Near /\ 1 + ((a - 1) + 1) \in Near
        /\ 1 + ((a - 1) + 1 - Slots) = a + 1 - Slots
        /\ 1 + ((a - 1) + 1) = a + 1
    BY <2>1 DEF Near
  <2>3. /\ Shift(p, (a - 1) + 1 - Slots) = Shift(q, a + 1 - Slots)
        /\ Shift(p, (a - 1) + 1) = Shift(q, a + 1)
    BY <1>1, <2>2, ShiftTwice
  <2> QED
    BY <2>1, <2>3 DEF OldNumber, NewNumber, a
<1>6. ASSUME i = n PROVE OldNumber(m, p, i) = Shift(q, 1)
  <2>1. (Slots - 1) + 1 - Slots = 0
    OBVIOUS
  <2> HIDE DEF p
  <2> QED
    BY <1>1, <1>3, <1>6, <2>1, ShiftNone DEF OldNumber, p
<1> QED
  BY <1>2, <1>3, <1>5, <1>6 DEF m

LEMMA RingKeeps ==
  ASSUME NEW r \in [Slot -> Record], NEW n \in Slot, NEW q \in SeqNo,
         \E t \in 0 .. MaxTears, k \in Record, busy \in BOOLEAN :
            RingOK(r, n, q, t, k, busy),
         NEW b \in Record, Valid(b), b.crc.seq = Shift(q, 1)
  PROVE  RingOK([r EXCEPT ![n] = b], SlotAfter(n), Shift(q, 1), 0, b, FALSE)
<1> DEFINE s == [r EXCEPT ![n] = b]
           m == SlotAfter(n)
           p == Shift(q, 1)
<1>0. PICK t \in 0 .. MaxTears, k \in Record, busy \in BOOLEAN :
        RingOK(r, n, q, t, k, busy)
  OBVIOUS
<1>1. ~NoRecord(b) /\ b.seq = p /\ p \in SeqNo /\ p = Shift(p, -0)
  <2>1. p \in SeqNo
    BY ShiftTyped DEF Near
  <2> HIDE DEF p
  <2>2. p = Shift(p, -0)
    BY <2>1 DEF Shift, SeqNo
  <2> QED
    BY <2>1, <2>2, ValidRecord DEF NoRecord, p
<1>2. ASSUME NEW i \in Slot PROVE SlotOK(s, m, p, 0, b, FALSE, i)
  <2>1. CASE i = n
    <3>1. s[i] = b
      BY <2>1
    <3>2. OldNumber(m, p, i) = p /\ Ahead(m, i) < Slots - 0
      BY <2>1, MoveOn
    <3> HIDE DEF s, m, p
    <3> QED
      BY <1>1, <3>1, <3>2 DEF SlotOK, p
  <2>2. CASE i # n
    <3>1. s[i] = r[i]
      BY <2>2
    <3>2. /\ Ahead(m, i) = Ahead(n, i) - 1
          /\ OldNumber(m, p, i) = OldNumber(n, q, i)
          /\ NewNumber(m, p, i) = NewNumber(n, q, i)
          /\ Ahead(n, i) \in 0 .. Slots - 1
      BY <2>2, MoveOn, AheadTyped
    <3>3. Ahead(m, i) < Slots - 0 /\ Ahead(m, i) # Slots - 1 - 0
      BY <3>2
    <3>4. SlotOK(r, n, q, t, k, busy, i)
      BY <1>0 DEF RingOK
    <3> HIDE DEF s, m, p
    <3> QED
      BY <1>1, <2>2, <3>1, <3>2, <3>3, <3>4 DEF SlotOK
  <2> QED
    BY <2>1, <2>2
<1> HIDE DEF s, m, p
<1>3. RingOK(s, m, p, 0, b, FALSE)
  BY <1>1, <1>2 DEF RingOK
<1> QED
  BY <1>3 DEF s, m, p

LEMMA RingTears ==
  ASSUME NEW r \in [Slot -> Record], NEW n \in Slot, NEW q \in SeqNo,
         NEW t \in 0 .. MaxTears, t < MaxTears,
         NEW k \in Record, NEW busy \in BOOLEAN,
         RingOK(r, n, q, t, k, busy),
         NEW b \in Record, ~Valid(b), b.crc.seq = Shift(q, 1)
  PROVE  RingOK([r EXCEPT ![n] = b], SlotAfter(n), Shift(q, 1), t + 1, k, FALSE)
<1> DEFINE s == [r EXCEPT ![n] = b]
           m == SlotAfter(n)
           p == Shift(q, 1)
<1>1. p \in SeqNo /\ t + 1 \in 1 .. MaxTears
  BY ShiftTyped DEF Near
<1>2. ASSUME NEW i \in Slot PROVE SlotOK(s, m, p, t + 1, k, FALSE, i)
  <2>1. CASE i = n
    <3>1. s[i] = b
      BY <2>1
    <3>2. OldNumber(m, p, i) = p /\ Ahead(m, i) = Slots - 1
      BY <2>1, MoveOn
    <3>3. Ahead(m, i) # Slots - 1 - (t + 1)
      BY <3>2
    <3> HIDE DEF s, m, p
    <3> QED
      BY <3>1, <3>2, <3>3 DEF SlotOK, p
  <2>2. CASE i # n
    <3>1. s[i] = r[i]
      BY <2>2
    <3>2. /\ Ahead(m, i) = Ahead(n, i) - 1
          /\ OldNumber(m, p, i) = OldNumber(n, q, i)
          /\ NewNumber(m, p, i) = NewNumber(n, q, i)
          /\ Ahead(n, i) \in 0 .. Slots - 1
      BY <2>2, MoveOn, AheadTyped
    <3>3. /\ Ahead(n, i) < Slots - t <=> Ahead(m, i) < Slots - (t + 1)
          /\ Ahead(n, i) = Slots - 1 - t <=> Ahead(m, i) = Slots - 1 - (t + 1)
      BY <3>2
    <3>4. SlotOK(r, n, q, t, k, busy, i)
      BY DEF RingOK
    <3> HIDE DEF s, m, p
    <3> QED
      BY <2>2, <3>1, <3>2, <3>3, <3>4 DEF SlotOK
  <2> QED
    BY <2>1, <2>2
<1>3. ~NoRecord(k) => Valid(k) /\ k.seq = Shift(p, -(t + 1))
  <2>1. -(t + 1) \in Near /\ 1 \in Near /\ 1 + -(t + 1) = -t /\ -t \in Near
    BY DEF Near
  <2>2. Shift(p, -(t + 1)) = Shift(q, -t)
    BY <2>1, ShiftTwice
  <2> QED
    BY <2>2 DEF RingOK
<1>4. NoRecord(k) => k = ZeroRecord /\ m = t + 1 /\ p = t + 1
  <2> SUFFICES ASSUME NoRecord(k) PROVE k = ZeroRecord /\ m = t + 1 /\ p = t + 1
    OBVIOUS
  <2>1. k = ZeroRecord /\ n = t /\ q = t
    BY DEF RingOK
  <2> QED
    BY <2>1, SlotAfterAt DEF SlotAt, Shift
<1> HIDE DEF s, m, p
<1>5. RingOK(s, m, p, t + 1, k, FALSE)
  BY <1>2, <1>3, <1>4 DEF RingOK
<1> QED
  BY <1>5 DEF s, m, p

(* The power fails, and the torn records are forgotten. *)
LEMMA MoveBack ==
  ASSUME NEW n \in Slot, NEW q \in SeqNo, NEW t \in 0 .. MaxTears, NEW i \in Slot,
         NEW m, m = SlotAfter(SlotAt(n, Slots - 1 - t))
  PROVE  /\ m \in Slot
         /\ Ahead(n, i) < Slots - t =>
              /\ Ahead(m, i) = Ahead(n, i) + t
              /\ OldNumber(m, Shift(q, -t), i) = OldNumber(n, q, i)
              /\ NewNumber(m, Shift(q, -t), i) = NewNumber(n, q, i)
         /\ Ahead(n, i) >= Slots - t =>
              /\ Ahead(m, i) = Ahead(n, i) + t - Slots
              /\ NewNumber(m, Shift(q, -t), i) = OldNumber(n, q, i)
<1> DEFINE w == SlotAt(n, Slots - 1 - t)
           a == Ahead(n, i)
           p == Shift(q, -t)
<1>1. w \in Slot /\ -t \in Near /\ p \in SeqNo /\ a \in 0 .. Slots - 1
  <2>1. -t \in Near /\ Slots - 1 - t \in 0 .. Slots - 1
    BY DEF Near
  <2> QED
    BY <2>1, SlotAtTyped, AheadTyped, ShiftTyped
<1>2. m \in Slot /\ m = SlotAt(w, 1)
  BY <1>1, SlotAfterAt
<1>3. Ahead(m, i) = IF a < Slots - t THEN a + t ELSE a + t - Slots
  BY <1>2 DEF SlotAt, Ahead, Slot
<1> HIDE DEF w, a
<1>4. ASSUME a < Slots - t
      PROVE  /\ OldNumber(m, p, i) = OldNumber(n, q, i)
             /\ NewNumber(m, p, i) = NewNumber(n, q, i)
  <2>1. /\ (a + t) + 1 - Slots \in Near /\ (a + t) + 1 \in Near
        /\ -t + ((a + t) + 1 - Slots) = a + 1 - Slots
        /\ -t + ((a + t) + 1) = a + 1
        /\ a + 1 - Slots \in Near /\ a + 1 \in Near
    BY <1>1, <1>4 DEF Near
  <2>2. /\ Shift(p, (a + t) + 1 - Slots) = Shift(q, a + 1 - Slots)
        /\ Shift(p, (a + t) + 1) = Shift(q, a + 1)
    BY <1>1, <2>1, ShiftTwice
  <2> QED
    BY <1>3, <1>4, <2>2 DEF OldNumber, NewNumber, a
<1>5. ASSUME a >= Slots - t
      PROVE  NewNumber(m, p, i) = OldNumber(n, q, i)
  <2>1. /\ (a + t - Slots) + 1 \in Near /\ a + 1 - Slots \in Near
        /\ -t + ((a + t - Slots) + 1) = a + 1 - Slots
    BY <1>1, <1>5 DEF Near
  <2>2. Shift(p, (a + t - Slots) + 1) = Shift(q, a + 1 - Slots)
    BY <1>1, <2>1, ShiftTwice
  <2> QED
    BY <1>1, <1>3, <1>5, <2>2 DEF OldNumber, NewNumber, a
<1> QED
  BY <1>1, <1>2, <1>3, <1>4, <1>5 DEF a, p

LEMMA RingRewinds ==
  ASSUME NEW r \in [Slot -> Record], NEW n \in Slot, NEW q \in SeqNo,
         NEW t \in 0 .. MaxTears, NEW k \in Record,
         RingOK(r, n, q, t, k, FALSE), ~NoRecord(k),
         NEW m, m = SlotAfter(SlotAt(n, Slots - 1 - t))
  PROVE  RingOK(r, m, k.seq, 0, k, FALSE)
<1> DEFINE p == Shift(q, -t)
<1>1. k.seq = p /\ Valid(k) /\ p \in SeqNo
  <2>1. -t \in Near
    BY DEF Near
  <2> QED
    BY <2>1, ShiftTyped DEF RingOK
<1> HIDE DEF p
<1>0. p = Shift(p, -0)
  BY <1>1 DEF Shift, SeqNo
<1>2. ASSUME NEW i \in Slot PROVE SlotOK(r, m, p, 0, k, FALSE, i)
  <2>1. SlotOK(r, n, q, t, k, FALSE, i)
    BY DEF RingOK
  <2>2. m \in Slot /\ Ahead(n, i) \in 0 .. Slots - 1 /\ Ahead(m, i) \in 0 .. Slots - 1
    BY MoveBack, AheadTyped
  <2>3. CASE Ahead(n, i) < Slots - t
    <3>1. /\ Ahead(m, i) = Ahead(n, i) + t
          /\ OldNumber(m, p, i) = OldNumber(n, q, i)
          /\ NewNumber(m, p, i) = NewNumber(n, q, i)
      BY <2>3, MoveBack DEF p
    <3>2. /\ Ahead(m, i) = Slots - 1 - 0 <=> Ahead(n, i) = Slots - 1 - t
          /\ Ahead(m, i) < Slots - 0
      BY <2>2, <3>1
    <3> QED
      BY <2>1, <2>3, <3>1, <3>2 DEF SlotOK
  <2>4. CASE ~(Ahead(n, i) < Slots - t)
    <3>1. /\ Ahead(m, i) = Ahead(n, i) + t - Slots
          /\ NewNumber(m, p, i) = OldNumber(n, q, i)
      <4>1. Ahead(n, i) >= Slots - t
        BY <2>2, <2>4
      <4> QED
        BY <4>1, MoveBack DEF p
    <3>2. Ahead(m, i) # Slots - 1 - 0 /\ Ahead(m, i) < Slots - 0
      BY <2>2, <3>1
    <3> QED
      BY <2>1, <2>4, <3>1, <3>2 DEF SlotOK
  <2> QED
    BY <2>3, <2>4
<1> QED
  BY <1>0, <1>1, <1>2 DEF RingOK

LEMMA RingStartsAgain ==
  ASSUME NEW r \in [Slot -> Record], NEW n \in Slot, NEW q \in SeqNo,
         NEW t \in 0 .. MaxTears, NEW k \in Record,
         RingOK(r, n, q, t, k, FALSE), NoRecord(k)
  PROVE  RingOK(r, 0, 0, 0, k, FALSE)
<1>1. k = ZeroRecord /\ n = t /\ q = t
  BY DEF RingOK
<1>2. ASSUME NEW i \in Slot PROVE SlotOK(r, 0, 0, 0, k, FALSE, i)
  <2>1. SlotOK(r, n, q, t, k, FALSE, i)
    BY DEF RingOK
  <2>3. 0 \in Slot /\ Ahead(0, i) < Slots - 0
    BY DEF Ahead, Slot
  <2>2. NewNumber(0, 0, i) = i + 1 /\ OldNumber(0, 0, i) = Shift(0, i + 1 - Slots)
    BY DEF NewNumber, OldNumber, Ahead, Shift, Slot
  <2>4. CASE i >= n
    <3>1. Ahead(n, i) = i - n
      BY <2>4 DEF Ahead
    <3>2. NewNumber(n, q, i) = i + 1
      BY <1>1, <3>1 DEF NewNumber, Shift, Slot
    <3>3. OldNumber(n, q, i) = Shift(0, i + 1 - Slots)
      BY <1>1, <3>1 DEF OldNumber, Shift, Slot
    <3> QED
      BY <2>1, <2>2, <2>3, <3>2, <3>3 DEF SlotOK
  <2>5. CASE ~(i >= n)
    <3>1. Ahead(n, i) = i - n + Slots
      BY <2>5 DEF Ahead, Slot
    <3>2. OldNumber(n, q, i) = i + 1
      BY <1>1, <3>1 DEF OldNumber, Shift, Slot
    <3>3. ~(Ahead(n, i) < Slots - t)
      BY <1>1, <2>5, <3>1 DEF Slot
    <3> QED
      BY <2>1, <2>2, <2>3, <3>2, <3>3 DEF SlotOK
  <2> QED
    BY <2>4, <2>5
<1> QED
  BY <1>1, <1>2 DEF RingOK

(* One cell burned, or spoilt. *)
LEMMA RingBurns ==
  ASSUME NEW r \in [Slot -> Record], NEW n \in Slot, NEW q \in SeqNo,
         NEW t \in 0 .. MaxTears, NEW k \in Record, NEW busy \in BOOLEAN,
         RingOK(r, n, q, t, k, busy), NEW b \in Record, NEW now \in BOOLEAN,
         b.crc \in {r[n].crc, Junk},
         Valid(b) => \/ Valid(r[n]) /\ (busy => now)
                     \/ now /\ b.seq = Shift(q, 1)
  PROVE  RingOK([r EXCEPT ![n] = b], n, q, t, k, now)
<1> DEFINE s == [r EXCEPT ![n] = b]
<1>1. Ahead(n, n) = 0 /\ NewNumber(n, q, n) = Shift(q, 1)
  BY DEF NewNumber, Ahead, Slot
<1>2. ASSUME NEW i \in Slot PROVE SlotOK(s, n, q, t, k, now, i)
  <2>1. SlotOK(r, n, q, t, k, busy, i)
    BY DEF RingOK
  <2>2. CASE i = n
    <3>1. s[i] = b /\ Ahead(n, i) # Slots - 1 - t
      BY <1>1, <2>2
    <3>2. Valid(b) => b.crc # Junk /\ b.crc.seq = b.seq
      BY ValidRecord
    <3> HIDE DEF s
    <3> QED
      BY <1>1, <2>1, <2>2, <3>1, <3>2 DEF SlotOK
  <2>3. CASE i # n
    <3>1. s[i] = r[i]
      BY <2>3
    <3> HIDE DEF s
    <3> QED
      BY <2>1, <2>3, <3>1 DEF SlotOK
  <2> QED
    BY <2>2, <2>3
<1> HIDE DEF s
<1>3. RingOK(s, n, q, t, k, now)
  BY <1>2 DEF RingOK
<1> QED
  BY <1>3 DEF s
-----------------------------------------------------------------------------
(* The state.                                                              *)

(* The number of the record before the one under way, or of the last one.  *)
LastNumber == IF Writing THEN Shift(live.seq, -1) ELSE live.seq

(* The number of the record under way is in its slot. *)
Numbered == Writing /\ writer.at > 1

Writers == [of : {"none"}, at : {1}] \union [of : {"record"}, at : 1 .. 4]
             \union [of : {"settings"}, at : 1 .. 3]

LiveTyped ==
  /\ live \in Record
  /\ live.seq \in SeqNo
  /\ live.pos \in [Pistons -> Positions]
  /\ live.mask \in SUBSET Pistons

StoreTyped ==
  /\ ring \in [Slot -> Record]
  /\ copies \in [{0, 1} -> Blob]
  /\ LiveTyped
  /\ nextSlot \in Slot
  /\ dirty \in BOOLEAN
  /\ settings \in Blob
  /\ settings.seq \in SeqNo
  /\ copy \in {0, 1}
  /\ pending \in BOOLEAN
  /\ writer \in Writers
  /\ budget \in Budgets
  /\ tears \in 0 .. MaxTears
  /\ kept \in Record

Clean ==
  /\ Valid(live)
  /\ writer.at > 2 => ring[nextSlot].pos = live.pos
  /\ writer.at > 3 => ring[nextSlot].mask = live.mask

UnderWay ==
  /\ live.crc # Junk
  /\ live.crc.seq = live.seq
  /\ writer.at > 1 => ring[nextSlot].seq = live.seq
  /\ tears = MaxTears => ~dirty
  /\ ~dirty => Clean

RingInv ==
  /\ RingOK(ring, nextSlot, LastNumber, tears, kept, Numbered)
  /\ Writing => UnderWay
  /\ ~Writing /\ ~dirty => kept.pos = live.pos /\ kept.mask = live.mask

StoreInv == StoreTyped /\ RingInv

LEMMA Numbers ==
  ASSUME StoreTyped
  PROVE  /\ LastNumber \in SeqNo
         /\ Numbered \in BOOLEAN
         /\ Writing => Shift(LastNumber, 1) = live.seq
         /\ Writing => writer.at \in 1 .. 4
<1>1. live.seq \in SeqNo /\ 1 \in Near /\ -1 \in Near /\ 0 \in Near /\ -1 + 1 = 0
  BY DEF StoreTyped, LiveTyped, Near
<1>2. LastNumber \in SeqNo
  BY <1>1, ShiftTyped DEF LastNumber
<1>3. Writing => Shift(LastNumber, 1) = live.seq
  BY <1>1, ShiftTwice, ShiftNone DEF LastNumber
<1>4. Writing => writer.at \in 1 .. 4
  BY DEF StoreTyped, Writers, Writing
<1> QED
  BY <1>2, <1>3, <1>4 DEF Numbered

LEMMA ZeroRecordTyped ==
  /\ ZeroRecord \in Record /\ ZeroRecord.seq = 0 /\ 0 \in SeqNo
  /\ ZeroRecord.pos \in [Pistons -> Positions]
  /\ ZeroRecord.mask \in SUBSET Pistons /\ ZeroRecord.crc = Junk
<1>1. [p \in Pistons |-> 0] \in [Pistons -> Positions] /\ {} \in SUBSET Pistons
  OBVIOUS
<1>2. 0 \in SeqNo
  BY DEF SeqNo
<1> QED
  BY <1>1, <1>2 DEF ZeroRecord, Record, Places, Masks

LEMMA InitStore == Init => StoreInv
<1> SUFFICES ASSUME Init PROVE StoreInv
  OBVIOUS
<1>1. /\ ring = [s \in Slot |-> ZeroRecord] /\ live = ZeroRecord /\ nextSlot = 0
      /\ kept = ZeroRecord /\ tears = 0 /\ writer = Idle /\ dirty = FALSE
  BY DEF Init
<1>2. ~Writing /\ ~Numbered /\ LastNumber = 0
  BY <1>1, ZeroRecordTyped DEF Writing, Numbered, LastNumber, Idle
<1>3. StoreTyped
  <2>1. ZeroBlob \in Blob /\ ZeroBlob.seq = 0
    BY DEF ZeroBlob, Blob, SeqNo
  <2>2. LiveTyped
    BY <1>1, ZeroRecordTyped DEF LiveTyped
  <2>3. 0 \in Slot /\ 0 \in SeqNo /\ Idle \in Writers
    BY DEF Slot, SeqNo, Idle, Writers
  <2>4. ring \in [Slot -> Record] /\ kept \in Record
    BY <1>1, ZeroRecordTyped
  <2>5. /\ copies \in [{0, 1} -> Blob] /\ settings \in Blob /\ settings.seq = 0
        /\ copy = 0 /\ pending = FALSE /\ budget \in Budgets
    BY <2>1 DEF Init
  <2>6. nextSlot \in Slot /\ writer \in Writers
    BY <1>1, <2>3
  <2>7. tears \in 0 .. MaxTears
    BY <1>1
  <2>8. dirty \in BOOLEAN /\ pending \in BOOLEAN
    BY <1>1, <2>5
  <2>9. settings.seq \in SeqNo /\ copy \in {0, 1}
    BY <2>3, <2>5
  <2> QED
    BY <2>2, <2>4, <2>5, <2>6, <2>7, <2>8, <2>9 DEF StoreTyped
<1>4. RingOK(ring, nextSlot, LastNumber, tears, kept, Numbered)
  <2>1. \A i \in Slot : ring[i].crc = Junk /\ ~Valid(ring[i])
    BY <1>1, ZeroRecordTyped, ValidRecord
  <2>2. NoRecord(kept)
    BY <1>1, ZeroRecordTyped DEF NoRecord
  <2> QED
    BY <1>1, <1>2, <2>1, <2>2 DEF RingOK, SlotOK
<1> QED
  BY <1>1, <1>2, <1>3, <1>4 DEF StoreInv, RingInv

(* What leaves the ring and its writer alone. *)
LEMMA RingUntouched ==
  ASSUME RingInv, UNCHANGED <<ring, records, tears, kept>>,
         \/ UNCHANGED writer
         \/ writer.of # "record" /\ writer'.of # "record"
  PROVE  RingInv'
<1>1. UNCHANGED <<ring, live, nextSlot, dirty, tears, kept>>
  BY DEF records
<1>2. /\ Writing' = Writing
      /\ Writing => UNCHANGED writer
  BY DEF Writing
<1>3. UNCHANGED <<LastNumber, Numbered>>
  BY <1>1, <1>2 DEF LastNumber, Numbered
<1>4. RingOK(ring, nextSlot, LastNumber, tears, kept, Numbered)'
  BY <1>1, <1>3 DEF RingInv
<1>5. (Writing => UnderWay)'
  BY <1>1, <1>2 DEF RingInv, UnderWay, Clean
<1> QED
  BY <1>1, <1>2, <1>4, <1>5 DEF RingInv

LEMMA SaveSettingsStep ==
  ASSUME StoreInv, NEW v \in Values, SaveSettings(v)
  PROVE  StoreInv'
<1>1. UNCHANGED <<ring, copies, records, copy, writer, budget, tears, kept>>
  BY DEF SaveSettings, bounds
<1>2. RingInv'
  BY <1>1, RingUntouched DEF StoreInv
<1>3. PICK n \in SeqNo : n = (settings.seq + 1) % SeqMod
  BY DEF StoreInv, StoreTyped, SeqNo
<1>4. settings' \in Blob /\ settings'.seq \in SeqNo
  BY <1>3, SummedBlob DEF SaveSettings
<1>5. pending' = TRUE
  BY DEF SaveSettings
<1>6. StoreTyped'
  <2>1. pending' \in BOOLEAN
    BY <1>5
  <2>2. UNCHANGED <<ring, copies, live, nextSlot, dirty, copy, writer, budget, tears, kept>>
    BY <1>1 DEF records
  <2>3. LiveTyped'
    BY <2>2 DEF StoreInv, StoreTyped, LiveTyped
  <2> QED
    BY <1>4, <2>1, <2>2, <2>3 DEF StoreInv, StoreTyped
<1> QED
  BY <1>2, <1>6 DEF StoreInv

LEMMA QueueSettingsStep ==
  ASSUME StoreInv, QueueSettings
  PROVE  StoreInv'
<1>1. /\ UNCHANGED <<ring, copies, records, settings, budget, tears, kept>>
      /\ writer.of = "none" /\ writer' = [of |-> "settings", at |-> 1]
      /\ copy' = 1 - copy /\ pending' = FALSE
  BY DEF QueueSettings, bounds
<1>2. RingInv'
  BY <1>1, RingUntouched DEF StoreInv
<1>3. writer' \in Writers
  BY <1>1 DEF Writers
<1>4. StoreTyped'
  <2>1. UNCHANGED <<ring, copies, live, nextSlot, dirty, settings, budget, tears, kept>>
    BY <1>1 DEF records
  <2>2. LiveTyped'
    BY <2>1 DEF StoreInv, StoreTyped, LiveTyped
  <2>3. copy' \in {0, 1}
    BY <1>1 DEF StoreInv, StoreTyped
  <2>4. pending' \in BOOLEAN
    BY <1>1
  <2> QED
    BY <1>3, <2>1, <2>2, <2>3, <2>4 DEF StoreInv, StoreTyped
<1> QED
  BY <1>2, <1>4 DEF StoreInv

(* One cell of a blob is changed to what the blob in RAM has, or spoilt. *)
LEMMA BlobCell ==
  ASSUME NEW x \in Blob, NEW s \in Blob, NEW cell \in {"value", "seq", "crc"}
  PROVE  /\ [x EXCEPT ![cell] = s[cell]] \in Blob
         /\ [x EXCEPT ![cell] = Junk] \in Blob
<1>1. PICK v, n, c : x = [value |-> v, seq |-> n, crc |-> c]
  BY DEF Blob
<1>2. /\ v \in Values \union {Junk} /\ n \in SeqNo \union {Junk}
      /\ c \in Sum \union {Junk}
      /\ s.value \in Values \union {Junk} /\ s.seq \in SeqNo \union {Junk}
      /\ s.crc \in Sum \union {Junk}
  BY <1>1 DEF Blob
<1>3. \A y : [x EXCEPT ![cell] = y] =
              [value |-> IF cell = "value" THEN y ELSE v,
               seq |-> IF cell = "seq" THEN y ELSE n,
               crc |-> IF cell = "crc" THEN y ELSE c]
  BY <1>1
<1>4. CASE cell = "value"
  BY <1>2, <1>3, <1>4 DEF Blob
<1>5. CASE cell = "seq"
  BY <1>2, <1>3, <1>5 DEF Blob
<1>6. CASE cell = "crc"
  BY <1>2, <1>3, <1>6 DEF Blob
<1> QED
  BY <1>4, <1>5, <1>6

(* The same of a record. *)
LEMMA RecordCell ==
  ASSUME NEW x \in Record, NEW s \in Record,
         NEW cell \in {"seq", "pos", "mask", "crc"}
  PROVE  /\ [x EXCEPT ![cell] = s[cell]] \in Record
         /\ [x EXCEPT ![cell] = Junk] \in Record
<1>1. PICK n, p, m, c : x = [seq |-> n, pos |-> p, mask |-> m, crc |-> c]
  BY DEF Record
<1>2. /\ n \in SeqNo \union {Junk} /\ p \in Places /\ m \in Masks
      /\ c \in RecordSum \union {Junk}
      /\ s.seq \in SeqNo \union {Junk} /\ s.pos \in Places /\ s.mask \in Masks
      /\ s.crc \in RecordSum \union {Junk}
  BY <1>1 DEF Record
<1>3. \A y : [x EXCEPT ![cell] = y] =
              [seq |-> IF cell = "seq" THEN y ELSE n,
               pos |-> IF cell = "pos" THEN y ELSE p,
               mask |-> IF cell = "mask" THEN y ELSE m,
               crc |-> IF cell = "crc" THEN y ELSE c]
  BY <1>1
<1>4. Junk \in Places /\ Junk \in Masks
  BY DEF Places, Masks
<1>5. CASE cell = "seq"
  BY <1>2, <1>3, <1>5 DEF Record
<1>6. CASE cell = "pos"
  BY <1>2, <1>3, <1>4, <1>6 DEF Record
<1>7. CASE cell = "mask"
  BY <1>2, <1>3, <1>4, <1>7 DEF Record
<1>8. CASE cell = "crc"
  BY <1>2, <1>3, <1>8 DEF Record
<1> QED
  BY <1>5, <1>6, <1>7, <1>8

LEMMA WriteSettingsStep ==
  ASSUME StoreInv, WriteSettings
  PROVE  StoreInv'
<1> DEFINE cell == BlobCells[writer.at]
<1>1. /\ UNCHANGED <<ring, records, settings, copy, pending, budget, tears, kept>>
      /\ writer.of = "settings" /\ writer.at \in 1 .. 3
      /\ copies' = [copies EXCEPT ![1 - copy] =
                      [copies[1 - copy] EXCEPT ![cell] = settings[cell]]]
      /\ writer' = IF writer.at = 3 THEN Idle ELSE [writer EXCEPT !.at = @ + 1]
  BY DEF WriteSettings, StoreInv, StoreTyped, Writers, BlobCells
<1>2. writer' \in Writers /\ writer'.of # "record"
  <2>1. writer = [of |-> "settings", at |-> writer.at]
    BY <1>1 DEF StoreInv, StoreTyped, Writers
  <2> QED
    BY <1>1, <2>1 DEF Writers, Idle
<1>3. RingInv'
  BY <1>1, <1>2, RingUntouched DEF StoreInv
<1>4. cell \in {"value", "seq", "crc"}
  BY <1>1 DEF BlobCells
<1>5. copies \in [{0, 1} -> Blob] /\ settings \in Blob /\ copy \in {0, 1}
  BY DEF StoreInv, StoreTyped
<1> HIDE DEF cell
<1>6. [copies[1 - copy] EXCEPT ![cell] = settings[cell]] \in Blob
  <2>1. copies[1 - copy] \in Blob
    BY <1>5
  <2> QED
    BY <1>4, <1>5, <2>1, BlobCell
<1>7. copies' \in [{0, 1} -> Blob]
  BY <1>1, <1>5, <1>6
<1>8. StoreTyped'
  BY <1>1, <1>2, <1>7 DEF StoreInv, StoreTyped, LiveTyped, records
<1> QED
  BY <1>3, <1>8 DEF StoreInv

(* A position noted or forgotten, under the writer too. *)
LEMMA LiveStep ==
  ASSUME StoreInv, MayChange, NEW p \in Pistons, NEW x \in Positions,
         NEW m \in SUBSET Pistons,
         live' = [live EXCEPT !.pos[p] = x, !.mask = m], dirty' = TRUE,
         UNCHANGED <<ring, copies, nextSlot, settings, copy, pending, writer, bounds>>
  PROVE  StoreInv'
<1>1. UNCHANGED <<ring, copies, nextSlot, settings, copy, pending, writer,
                  budget, tears, kept>>
  BY DEF bounds
<1>2. PICK n, o, k, c : live = [seq |-> n, pos |-> o, mask |-> k, crc |-> c]
  BY DEF StoreInv, StoreTyped, LiveTyped, Record
<1>3. /\ n \in SeqNo /\ o \in [Pistons -> Positions]
      /\ c \in RecordSum \union {Junk}
  BY <1>2 DEF StoreInv, StoreTyped, LiveTyped, Record
<1>4. PICK o2 \in [Pistons -> Positions] :
        live' = [seq |-> n, pos |-> o2, mask |-> m, crc |-> c]
  <2>1. [o EXCEPT ![p] = x] \in [Pistons -> Positions]
    BY <1>3
  <2>2. live' = [seq |-> n, pos |-> [o EXCEPT ![p] = x], mask |-> m, crc |-> c]
    BY <1>2
  <2> QED
    BY <2>1, <2>2
<1>5. /\ live'.seq = live.seq /\ live'.crc = live.crc
      /\ LiveTyped'
  BY <1>2, <1>3, <1>4 DEF LiveTyped, Record, Places, Masks
<1>6. StoreTyped'
  <2>1. dirty' \in BOOLEAN
    OBVIOUS
  <2> QED
    BY <1>1, <1>5, <2>1 DEF StoreInv, StoreTyped
<1>7. UNCHANGED <<Writing, LastNumber, Numbered>>
  BY <1>1, <1>5 DEF Writing, LastNumber, Numbered
<1>8. RingOK(ring, nextSlot, LastNumber, tears, kept, Numbered)'
  BY <1>1, <1>7 DEF StoreInv, RingInv
<1>9. (Writing => UnderWay)'
  <2> SUFFICES ASSUME Writing PROVE UnderWay'
    BY <1>7
  <2>1. tears # MaxTears
    BY DEF StoreInv, StoreTyped, MayChange, Writing
  <2> QED
    BY <1>1, <1>5, <2>1 DEF StoreInv, RingInv, UnderWay
<1> QED
  BY <1>6, <1>8, <1>9 DEF StoreInv, RingInv

LEMMA BeginWriteStep ==
  ASSUME StoreInv, BeginWrite
  PROVE  StoreInv'
<1>1. /\ UNCHANGED <<ring, copies, nextSlot, settings, copy, pending, budget, tears, kept>>
      /\ writer.of = "none" /\ writer' = [of |-> "record", at |-> 1]
      /\ dirty' = FALSE
      /\ live' = Summed([live EXCEPT !.seq = (@ + 1) % SeqMod])
  BY DEF BeginWrite, bounds
<1>2. PICK n, o, k, c : live = [seq |-> n, pos |-> o, mask |-> k, crc |-> c]
  BY DEF StoreInv, StoreTyped, LiveTyped, Record
<1>3. /\ n \in SeqNo /\ o \in [Pistons -> Positions] /\ k \in SUBSET Pistons
      /\ live.seq = n
  BY <1>2 DEF StoreInv, StoreTyped, LiveTyped
<1> DEFINE s == Shift(n, 1)
           body == [seq |-> s, pos |-> o, mask |-> k, crc |-> Junk]
<1>4. s \in SeqNo /\ (n + 1) % SeqMod = s
  BY <1>3, ShiftTyped, ShiftIsMod DEF Near
<1>5. Shift(s, -1) = n
  <2>1. 1 \in Near /\ -1 \in Near /\ 1 + -1 = 0 /\ 0 \in Near
    BY DEF Near
  <2> QED
    BY <1>3, <2>1, ShiftTwice, ShiftNone
<1> HIDE DEF s
<1>6. live' = [seq |-> s, pos |-> o, mask |-> k, crc |-> body]
  BY <1>1, <1>2, <1>4 DEF Summed, Content
<1>7. body \in RecordSum /\ body # Junk
  <2>1. body \in RecordSum
    BY <1>3, <1>4 DEF RecordSum
  <2>2. PICK r : r = [seq |-> s, pos |-> o, mask |-> k, crc |-> Junk]
    OBVIOUS
  <2>3. r \in Record
    BY <1>3, <1>4, <2>2 DEF Record, Places, Masks
  <2>4. Content(r) = body
    BY <2>2 DEF Content
  <2> QED
    BY <2>1, <2>3, <2>4, JunkIsNoContent
<1>8. LiveTyped' /\ live'.seq = s
  BY <1>3, <1>4, <1>6, <1>7 DEF LiveTyped, Record, Places, Masks
<1>9. Valid(live')
  BY <1>6 DEF Valid, Content
<1>10. live'.crc # Junk /\ live'.crc.seq = live'.seq
  BY <1>6, <1>7
<1>11. /\ ~Writing /\ ~Numbered /\ Writing' /\ ~Numbered'
       /\ writer'.at = 1
  BY <1>1 DEF Writing, Numbered
<1>12. LastNumber' = LastNumber
  BY <1>3, <1>5, <1>8, <1>11 DEF LastNumber
<1>13. StoreTyped'
  <2>1. dirty' \in BOOLEAN
    BY <1>1
  <2>2. writer' \in Writers
    BY <1>1 DEF Writers
  <2> QED
    BY <1>1, <1>8, <2>1, <2>2 DEF StoreInv, StoreTyped
<1>14. RingOK(ring, nextSlot, LastNumber, tears, kept, Numbered)'
  <2>1. Numbered' = Numbered
    BY <1>11 DEF Numbered
  <2> QED
    BY <1>1, <1>12, <2>1 DEF StoreInv, RingInv
<1>15. UnderWay'
  BY <1>1, <1>9, <1>10, <1>11 DEF UnderWay, Clean
<1> QED
  BY <1>11, <1>13, <1>14, <1>15 DEF StoreInv, RingInv

(* What the record under way looks like with one more cell burned. *)
Burnt(b, l, at) == [b EXCEPT ![RecordCells[at]] = l[RecordCells[at]]]

LEMMA NextCell ==
  ASSUME NEW b \in Record, NEW l \in Record, NEW at \in 1 .. 4
  PROVE  /\ Burnt(b, l, at) \in Record
         /\ Burnt(b, l, at).seq = IF at = 1 THEN l.seq ELSE b.seq
         /\ Burnt(b, l, at).pos = IF at = 2 THEN l.pos ELSE b.pos
         /\ Burnt(b, l, at).mask = IF at = 3 THEN l.mask ELSE b.mask
         /\ Burnt(b, l, at).crc = IF at = 4 THEN l.crc ELSE b.crc
<1>0. PICK c : c = Burnt(b, l, at)
  OBVIOUS
<1>1. RecordCells[at] \in {"seq", "pos", "mask", "crc"}
  BY DEF RecordCells
<1>2. c \in Record
  BY <1>0, <1>1, RecordCell DEF Burnt
<1>3. PICK n, p, m, k : b = [seq |-> n, pos |-> p, mask |-> m, crc |-> k]
  BY DEF Record
<1>4. CASE at = 1
  <2>1. c = [seq |-> l.seq, pos |-> p, mask |-> m, crc |-> k]
    BY <1>0, <1>3, <1>4 DEF RecordCells, Burnt
  <2> QED
    BY <1>0, <1>2, <1>3, <1>4, <2>1
<1>5. CASE at = 2
  <2>1. c = [seq |-> n, pos |-> l.pos, mask |-> m, crc |-> k]
    BY <1>0, <1>3, <1>5 DEF RecordCells, Burnt
  <2> QED
    BY <1>0, <1>2, <1>3, <1>5, <2>1
<1>6. CASE at = 3
  <2>1. c = [seq |-> n, pos |-> p, mask |-> l.mask, crc |-> k]
    BY <1>0, <1>3, <1>6 DEF RecordCells, Burnt
  <2> QED
    BY <1>0, <1>2, <1>3, <1>6, <2>1
<1>7. CASE at = 4
  <2>1. c = [seq |-> n, pos |-> p, mask |-> m, crc |-> l.crc]
    BY <1>0, <1>3, <1>7 DEF RecordCells, Burnt
  <2> QED
    BY <1>0, <1>2, <1>3, <1>7, <2>1
<1> QED
  BY <1>4, <1>5, <1>6, <1>7

LEMMA WriteRecordStep ==
  ASSUME StoreInv, WriteRecord
  PROVE  StoreInv'
<1> DEFINE q == LastNumber
           c == Burnt(ring[nextSlot], live, writer.at)
<1>1. /\ UNCHANGED <<copies, live, dirty, settings, copy, pending, budget>>
      /\ Writing /\ UnderWay
      /\ ring' = [ring EXCEPT ![nextSlot] = c]
      /\ writer' = IF writer.at = 4 THEN Idle ELSE [writer EXCEPT !.at = @ + 1]
      /\ nextSlot' = IF writer.at = 4 THEN SlotAfter(nextSlot) ELSE nextSlot
      /\ tears' = IF writer.at # 4 THEN tears ELSE IF Valid(c) THEN 0 ELSE tears + 1
      /\ kept' = IF writer.at = 4 /\ Valid(c) THEN c ELSE kept
  BY DEF WriteRecord, StoreInv, RingInv, Writing, RecordCells, Burnt
<1>2. /\ ring \in [Slot -> Record] /\ live \in Record /\ LiveTyped
      /\ nextSlot \in Slot
      /\ tears \in 0 .. MaxTears /\ kept \in Record
      /\ writer \in Writers /\ StoreTyped
  BY DEF StoreInv, StoreTyped, LiveTyped
<1>3. /\ q \in SeqNo /\ Numbered \in BOOLEAN /\ writer.at \in 1 .. 4
      /\ Shift(q, 1) = live.seq
  BY <1>1, <1>2, Numbers
<1>4. /\ c \in Record
      /\ c.seq = live.seq
      /\ c.pos = IF writer.at = 2 THEN live.pos ELSE ring[nextSlot].pos
      /\ c.mask = IF writer.at = 3 THEN live.mask ELSE ring[nextSlot].mask
      /\ c.crc = IF writer.at = 4 THEN live.crc ELSE ring[nextSlot].crc
  <2>1. ring[nextSlot] \in Record
    BY <1>2
  <2>2. writer.at # 1 => ring[nextSlot].seq = live.seq
    BY <1>1, <1>3 DEF UnderWay
  <2> HIDE DEF c
  <2>3. /\ c \in Record
        /\ c.seq = IF writer.at = 1 THEN live.seq ELSE ring[nextSlot].seq
        /\ c.pos = IF writer.at = 2 THEN live.pos ELSE ring[nextSlot].pos
        /\ c.mask = IF writer.at = 3 THEN live.mask ELSE ring[nextSlot].mask
        /\ c.crc = IF writer.at = 4 THEN live.crc ELSE ring[nextSlot].crc
    BY <1>2, <1>3, <2>1, NextCell DEF c
  <2> QED
    BY <2>2, <2>3
<1>5. RingOK(ring, nextSlot, q, tears, kept, Numbered)
  BY DEF StoreInv, RingInv
<1> HIDE DEF q, c
<1>6. ring' \in [Slot -> Record]
  BY <1>1, <1>2, <1>4
<1>7. CASE writer.at # 4
  <2>1. /\ Writing' /\ Numbered' /\ writer'.at = writer.at + 1
        /\ writer' \in Writers
        /\ UNCHANGED <<nextSlot, tears, kept>>
    <3>1. writer = [of |-> "record", at |-> writer.at]
      BY <1>1, <1>2 DEF Writers, Writing
    <3>2. writer' = [of |-> "record", at |-> writer.at + 1]
      BY <1>1, <1>7, <3>1
    <3>3. writer'.at = writer.at + 1 /\ writer'.of = "record"
      BY <3>2
    <3>4. writer' \in Writers
      BY <1>3, <1>7, <3>2 DEF Writers
    <3> QED
      BY <1>1, <1>3, <1>7, <3>3, <3>4 DEF Writing, Numbered
  <2>2. LastNumber' = q
    BY <1>1, <2>1 DEF LastNumber, q
  <2>3. RingOK(ring', nextSlot, q, tears, kept, TRUE)
    BY <1>1, <1>2, <1>3, <1>4, <1>5, <1>7, RingBurns
  <2>4. RingOK(ring, nextSlot, LastNumber, tears, kept, Numbered)'
    <3>1. Numbered' = TRUE
      BY <2>1 DEF Numbered
    <3> QED
      BY <2>1, <2>2, <2>3, <3>1
  <2>5. ring'[nextSlot'] = c
    BY <1>1, <1>2, <2>1
  <2>6. UnderWay'
    <3>1. /\ live'.crc # Junk /\ live'.crc.seq = live'.seq
          /\ tears' = MaxTears => ~dirty'
          /\ ring'[nextSlot'].seq = live'.seq
      BY <1>1, <1>4, <2>1, <2>5 DEF UnderWay
    <3>2. ASSUME ~dirty PROVE Clean'
      <4>1. /\ Valid(live)
            /\ writer.at > 2 => ring[nextSlot].pos = live.pos
        BY <1>1, <3>2 DEF UnderWay, Clean
      <4>2. /\ writer'.at > 2 => c.pos = live.pos
            /\ writer'.at > 3 => c.mask = live.mask
        BY <1>3, <1>4, <1>7, <2>1, <4>1
      <4> QED
        BY <1>1, <2>5, <4>1, <4>2 DEF Clean
    <3> QED
      BY <1>1, <3>1, <3>2 DEF UnderWay
  <2>7. StoreTyped'
    <3>1. LiveTyped'
      BY <1>1, <1>2 DEF LiveTyped
    <3> QED
      BY <1>1, <1>2, <1>6, <2>1, <3>1 DEF StoreTyped
  <2> QED
    BY <2>1, <2>4, <2>6, <2>7 DEF StoreInv, RingInv
<1>8. CASE writer.at = 4
  <2>1. /\ ~Writing' /\ ~Numbered' /\ writer' \in Writers
        /\ nextSlot' = SlotAfter(nextSlot) /\ nextSlot' \in Slot
    BY <1>1, <1>2, <1>8, SlotAfterAt DEF Writing, Numbered, Idle, Writers
  <2>2. LastNumber' = Shift(q, 1)
    BY <1>1, <1>3, <2>1 DEF LastNumber
  <2>3. c.crc # Junk /\ c.crc.seq = Shift(q, 1)
    BY <1>1, <1>3, <1>4, <1>8 DEF UnderWay
  <2>4. ~dirty => Valid(c) /\ c.pos = live.pos /\ c.mask = live.mask
    <3> SUFFICES ASSUME ~dirty
                 PROVE  Valid(c) /\ c.pos = live.pos /\ c.mask = live.mask
      OBVIOUS
    <3>1. Valid(live) /\ c.pos = live.pos /\ c.mask = live.mask
      BY <1>1, <1>4, <1>8 DEF UnderWay, Clean
    <3>2. c.seq = live.seq /\ c.crc = live.crc
      BY <1>4, <1>8
    <3>3. Content(c) = Content(live)
      BY <1>2, <1>4, <3>1, <3>2, JunkIsNoContent
    <3> QED
      BY <3>1, <3>2, <3>3 DEF Valid
  <2>5. CASE Valid(c)
    <3>1. kept' = c /\ tears' = 0
      BY <1>1, <1>8, <2>5
    <3>2. RingOK(ring', SlotAfter(nextSlot), Shift(q, 1), 0, c, FALSE)
      <4>1. \E t \in 0 .. MaxTears, k \in Record, busy \in BOOLEAN :
              RingOK(ring, nextSlot, q, t, k, busy)
        BY <1>2, <1>3, <1>5
      <4>2. ring' = [ring EXCEPT ![nextSlot] = c]
        BY <1>1
      <4> QED
        BY <1>2, <1>3, <1>4, <2>3, <2>5, <4>1, <4>2, RingKeeps
    <3>3. RingOK(ring, nextSlot, LastNumber, tears, kept, Numbered)'
      <4>1. Numbered' = FALSE
        BY <2>1 DEF Numbered
      <4> QED
        BY <2>1, <2>2, <3>1, <3>2, <4>1
    <3>4. StoreTyped'
      <4>1. LiveTyped'
        BY <1>1, <1>2 DEF LiveTyped
      <4>2. tears' \in 0 .. MaxTears /\ kept' \in Record
        BY <1>4, <3>1
      <4> QED
        BY <1>1, <1>2, <1>6, <2>1, <4>1, <4>2 DEF StoreTyped
    <3>5. (~Writing /\ ~dirty => kept.pos = live.pos /\ kept.mask = live.mask)'
      BY <1>1, <2>4, <3>1
    <3> QED
      BY <2>1, <3>3, <3>4, <3>5 DEF StoreInv, RingInv
  <2>6. CASE ~Valid(c)
    <3>1. kept' = kept /\ tears' = tears + 1 /\ dirty
      BY <1>1, <1>8, <2>4, <2>6
    <3>2. tears < MaxTears
      BY <1>1, <1>2, <3>1 DEF UnderWay
    <3>3. RingOK(ring', SlotAfter(nextSlot), Shift(q, 1), tears + 1, kept, FALSE)
      BY <1>1, <1>2, <1>3, <1>4, <1>5, <2>3, <2>6, <3>2, RingTears
    <3>4. RingOK(ring, nextSlot, LastNumber, tears, kept, Numbered)'
      <4>1. Numbered' = FALSE
        BY <2>1 DEF Numbered
      <4> QED
        BY <2>1, <2>2, <3>1, <3>3, <4>1
    <3>5. StoreTyped'
      <4>1. LiveTyped'
        BY <1>1, <1>2 DEF LiveTyped
      <4>2. tears' \in 0 .. MaxTears /\ kept' \in Record
        BY <1>2, <3>1, <3>2
      <4> QED
        BY <1>1, <1>2, <1>6, <2>1, <4>1, <4>2 DEF StoreTyped
    <3>6. dirty'
      BY <1>1, <3>1
    <3> QED
      BY <2>1, <3>4, <3>5, <3>6 DEF StoreInv, RingInv
  <2> QED
    BY <2>5, <2>6
<1> QED
  BY <1>7, <1>8

(* Cut in a cell, the ring is as it was but for the record under way.      *)
LEMMA CutRing ==
  ASSUME StoreInv, NEW r,
         \/ r = ring
         \/ /\ Writing
            /\ r = [ring EXCEPT ![nextSlot] =
                      [ring[nextSlot] EXCEPT ![RecordCells[writer.at]] = Junk]]
  PROVE  /\ r \in [Slot -> Record]
         /\ RingOK(r, nextSlot, LastNumber, tears, kept, Numbered)
<1>1. /\ ring \in [Slot -> Record] /\ nextSlot \in Slot /\ tears \in 0 .. MaxTears
      /\ kept \in Record /\ LastNumber \in SeqNo /\ Numbered \in BOOLEAN
      /\ RingOK(ring, nextSlot, LastNumber, tears, kept, Numbered)
      /\ ring[nextSlot] \in Record
  BY Numbers DEF StoreInv, StoreTyped, RingInv
<1>2. CASE r = ring
  BY <1>1, <1>2
<1>3. CASE Writing /\ r = [ring EXCEPT ![nextSlot] =
                [ring[nextSlot] EXCEPT ![RecordCells[writer.at]] = Junk]]
  <2> DEFINE b == [ring[nextSlot] EXCEPT ![RecordCells[writer.at]] = Junk]
  <2>1. /\ writer.at \in 1 .. 4 /\ UnderWay
        /\ Shift(LastNumber, 1) = live.seq
    BY <1>3, Numbers DEF StoreInv, RingInv
  <2>2. RecordCells[writer.at] \in {"seq", "pos", "mask", "crc"}
    BY <2>1 DEF RecordCells
  <2>3. b \in Record
    BY <1>1, <2>2, RecordCell
  <2>4. PICK n, p, m, k : ring[nextSlot] = [seq |-> n, pos |-> p, mask |-> m, crc |-> k]
    BY <1>1 DEF Record
  <2>5. /\ b.crc \in {ring[nextSlot].crc, Junk}
        /\ writer.at = 1 => b.seq = Junk
        /\ writer.at # 1 => b.seq = ring[nextSlot].seq
    BY <2>1, <2>4 DEF RecordCells
  <2> HIDE DEF b
  <2>6. Valid(b) => Numbered /\ b.seq = Shift(LastNumber, 1)
    <3> SUFFICES ASSUME Valid(b) PROVE Numbered /\ b.seq = Shift(LastNumber, 1)
      OBVIOUS
    <3>1. b.seq \in SeqNo
      BY <2>3, ValidRecord
    <3>2. Junk \notin SeqNo
      BY DEF SeqNo
    <3>3. writer.at # 1
      BY <2>5, <3>1, <3>2
    <3> QED
      BY <1>3, <2>1, <2>5, <3>3 DEF Numbered, UnderWay
  <2>7. r = [ring EXCEPT ![nextSlot] = b]
    BY <1>3 DEF b
  <2>8. r \in [Slot -> Record]
    BY <1>1, <2>3, <2>7
  <2>9. RingOK([ring EXCEPT ![nextSlot] = b], nextSlot, LastNumber, tears, kept, Numbered)
    <3>1. CASE Numbered
      <4>1. RingOK(ring, nextSlot, LastNumber, tears, kept, TRUE)
        <5>1. Numbered = TRUE
          BY <3>1 DEF Numbered
        <5> QED
          BY <1>1, <5>1
      <4>2. RingOK([ring EXCEPT ![nextSlot] = b], nextSlot, LastNumber, tears, kept, TRUE)
        BY <1>1, <2>3, <2>5, <2>6, <4>1, RingBurns
      <4>3. Numbered = TRUE
        BY <3>1 DEF Numbered
      <4> QED
        BY <4>2, <4>3
    <3>2. CASE ~Numbered
      <4>1. ~Valid(b)
        BY <2>6, <3>2
      <4>2. Numbered = FALSE
        BY <3>2 DEF Numbered
      <4>3. RingOK(ring, nextSlot, LastNumber, tears, kept, FALSE)
        BY <1>1, <4>2
      <4>4. RingOK([ring EXCEPT ![nextSlot] = b], nextSlot, LastNumber, tears, kept, FALSE)
        BY <1>1, <2>3, <2>5, <4>1, <4>3, RingBurns
      <4> QED
        BY <4>2, <4>4
    <3> QED
      BY <3>1, <3>2
  <2> QED
    BY <2>7, <2>8, <2>9
<1> QED
  BY <1>2, <1>3

LEMMA RingRests ==
  ASSUME NEW r \in [Slot -> Record], NEW n \in Slot, NEW q \in SeqNo,
         NEW t, NEW k, NEW busy \in BOOLEAN,
         RingOK(r, n, q, t, k, busy),
         ~(busy /\ Valid(r[n]) /\ r[n].crc.seq = Shift(q, 1))
  PROVE  RingOK(r, n, q, t, k, FALSE)
<1>1. NewNumber(n, q, n) = Shift(q, 1)
  BY DEF NewNumber, Ahead, Slot
<1> QED
  BY <1>1 DEF RingOK, SlotOK

LEMMA PowerCycleStep ==
  ASSUME StoreInv, PowerCycle
  PROVE  StoreInv'
<1> DEFINE q == LastNumber
<1>1. PICK left \in Spoilt : ring' = left[1] /\ copies' = left[2]
  BY DEF PowerCycle
<1>2. PICK r : r = ring'
  OBVIOUS
<1>3. /\ ring \in [Slot -> Record] /\ copies \in [{0, 1} -> Blob]
      /\ nextSlot \in Slot /\ tears \in 0 .. MaxTears
      /\ kept \in Record /\ q \in SeqNo /\ Numbered \in BOOLEAN
      /\ copy \in {0, 1} /\ budget \in Budgets /\ StoreTyped
  BY Numbers DEF StoreInv, StoreTyped
<1>4. /\ r \in [Slot -> Record]
      /\ RingOK(r, nextSlot, q, tears, kept, Numbered)
  <2>1. \/ r = ring
        \/ /\ Writing
           /\ r = [ring EXCEPT ![nextSlot] =
                     [ring[nextSlot] EXCEPT ![RecordCells[writer.at]] = Junk]]
    BY <1>1, <1>2, <1>3, SpoiltCells DEF StoreTyped
  <2> QED
    BY <2>1, CutRing
<1> HIDE DEF q
<1>5. /\ live' = IF NewestOf(r) = -1 THEN ZeroRecord ELSE r[NewestOf(r)]
      /\ nextSlot' = IF NewestOf(r) = -1 THEN 0 ELSE SlotAfter(NewestOf(r))
      /\ dirty' = FALSE /\ pending' = FALSE /\ writer' = Idle /\ tears' = 0
      /\ budget' = budget /\ kept' = live'
  BY <1>2 DEF PowerCycle, Newest
<1>6. ~Writing' /\ ~Numbered' /\ LastNumber' = live'.seq /\ writer' \in Writers
  BY <1>5 DEF Writing, Numbered, LastNumber, Idle, Writers
<1>7. /\ LiveTyped' /\ nextSlot' \in Slot
      /\ RingOK(r, nextSlot', live'.seq, 0, live', FALSE)
  <2>1. CASE Numbered /\ Valid(r[nextSlot]) /\ r[nextSlot].crc.seq = Shift(q, 1)
    <3>5. \E t \in 0 .. MaxTears, k \in Record, busy \in BOOLEAN :
            RingOK(r, nextSlot, q, t, k, busy)
      BY <1>3, <1>4
    <3>1. NewestOf(r) = nextSlot
      BY <1>3, <1>4, <2>1, <3>5, RingFindsNew
    <3>2. live' = r[nextSlot] /\ nextSlot' = SlotAfter(nextSlot)
      BY <1>3, <1>5, <3>1 DEF Slot
    <3>3. r[nextSlot] \in Record
      BY <1>3, <1>4
    <3>4. LiveTyped' /\ live'.seq = Shift(q, 1)
      BY <2>1, <3>2, <3>3, ValidRecord DEF LiveTyped
    <3>6. RingOK([r EXCEPT ![nextSlot] = r[nextSlot]], SlotAfter(nextSlot),
                 Shift(q, 1), 0, r[nextSlot], FALSE)
      BY <1>3, <1>4, <2>1, <3>3, <3>5, RingKeeps
    <3>7. [r EXCEPT ![nextSlot] = r[nextSlot]] = r
      BY <1>3, <1>4
    <3> QED
      BY <1>3, <3>2, <3>4, <3>6, <3>7, SlotAfterAt
  <2>2. CASE ~(Numbered /\ Valid(r[nextSlot]) /\ r[nextSlot].crc.seq = Shift(q, 1))
    <3>1. RingOK(r, nextSlot, q, tears, kept, FALSE)
      BY <1>3, <1>4, <2>2, RingRests
    <3>2. IF NoRecord(kept) THEN NewestOf(r) = -1
          ELSE /\ NewestOf(r) = SlotAt(nextSlot, Slots - 1 - tears)
               /\ r[NewestOf(r)] = kept
      BY <1>3, <1>4, <2>2, RingFindsKept
    <3>3. CASE NoRecord(kept)
      <4>1. live' = ZeroRecord /\ nextSlot' = 0 /\ kept = ZeroRecord
        BY <1>5, <3>1, <3>2, <3>3 DEF RingOK
      <4>2. RingOK(r, 0, 0, 0, kept, FALSE)
        BY <1>3, <1>4, <3>1, <3>3, RingStartsAgain
      <4>3. 0 \in Slot
        BY DEF Slot
      <4> QED
        BY <4>1, <4>2, <4>3, ZeroRecordTyped DEF LiveTyped
    <3>4. CASE ~NoRecord(kept)
      <4> DEFINE w == SlotAt(nextSlot, Slots - 1 - tears)
      <4>1. w \in Slot
        <5>1. Slots - 1 - tears \in 0 .. Slots - 1
          BY <1>3
        <5> QED
          BY <1>3, <5>1, SlotAtTyped
      <4> HIDE DEF w
      <4>2. NewestOf(r) = w /\ r[w] = kept /\ w # -1
        BY <3>2, <3>4, <4>1 DEF w, Slot
      <4>3. live' = kept /\ nextSlot' = SlotAfter(w)
        BY <1>5, <4>2
      <4>4. Valid(kept)
        BY <3>1, <3>4 DEF RingOK
      <4>5. LiveTyped'
        BY <1>3, <4>3, <4>4, ValidRecord DEF LiveTyped
      <4>6. RingOK(r, SlotAfter(w), kept.seq, 0, kept, FALSE)
        BY <1>3, <1>4, <3>1, <3>4, RingRewinds DEF w
      <4> QED
        BY <4>1, <4>3, <4>5, <4>6, SlotAfterAt
    <3> QED
      BY <3>3, <3>4
  <2> QED
    BY <2>1, <2>2
<1>8. RingInv'
  <2>1. Numbered' = FALSE
    BY <1>6 DEF Numbered
  <2>2. RingOK(ring, nextSlot, LastNumber, tears, kept, Numbered)'
    BY <1>2, <1>5, <1>6, <1>7, <2>1
  <2> QED
    BY <1>5, <1>6, <2>2 DEF RingInv
<1>9. copies' \in [{0, 1} -> Blob]
  <2>1. CASE copies' = copies
    BY <1>3, <2>1
  <2>2. ASSUME NEW cell \in {"value", "seq", "crc"},
               copies' = [copies EXCEPT ![1 - copy][cell] = Junk]
        PROVE  copies' \in [{0, 1} -> Blob]
    <3>1. copies[1 - copy] \in Blob
      BY <1>3
    <3>2. [copies[1 - copy] EXCEPT ![cell] = Junk] \in Blob
      BY <3>1, BlobCell
    <3>3. copies' = [copies EXCEPT ![1 - copy] = [copies[1 - copy] EXCEPT ![cell] = Junk]]
      BY <1>3, <2>2
    <3> QED
      BY <1>3, <3>2, <3>3
  <2> QED
    BY <1>1, <1>3, <2>1, <2>2, SpoiltCells DEF StoreTyped
<1>10. settings' \in Blob /\ settings'.seq \in SeqNo /\ copy' \in {0, 1}
  <2>1. PICK both : both = copies'
    OBVIOUS
  <2>2. /\ settings' = IF NewestCopyOf(both) = -1 THEN ZeroBlob ELSE both[NewestCopyOf(both)]
        /\ copy' = IF NewestCopyOf(both) = -1 THEN 0 ELSE 1 - NewestCopyOf(both)
    BY <2>1 DEF PowerCycle, NewestCopy
  <2>3. NewestCopyOf(both) \in {0, 1} => Valid(both[NewestCopyOf(both)])
    BY DEF NewestCopyOf
  <2>4. NewestCopyOf(both) \in {-1, 0, 1}
    BY DEF NewestCopyOf
  <2>5. ZeroBlob \in Blob /\ ZeroBlob.seq \in SeqNo
    BY DEF ZeroBlob, Blob, SeqNo
  <2>6. CASE NewestCopyOf(both) = -1
    BY <2>2, <2>5, <2>6
  <2>7. CASE NewestCopyOf(both) \in {0, 1}
    <3>1. both[NewestCopyOf(both)] \in Blob
      BY <1>9, <2>1, <2>7
    <3>2. both[NewestCopyOf(both)].seq \in SeqNo
      BY <2>3, <2>7, <3>1, ValidBlob
    <3>3. settings' = both[NewestCopyOf(both)] /\ copy' = 1 - NewestCopyOf(both)
      BY <2>2, <2>7
    <3> QED
      BY <2>7, <3>1, <3>2, <3>3
  <2> QED
    BY <2>4, <2>6, <2>7
<1>11. StoreTyped'
  <2>1. dirty' \in BOOLEAN /\ pending' \in BOOLEAN
    BY <1>5
  <2>2. tears' \in 0 .. MaxTears /\ kept' \in Record
    BY <1>5, <1>7 DEF LiveTyped
  <2>3. ring' \in [Slot -> Record] /\ budget' \in Budgets
    BY <1>2, <1>3, <1>4, <1>5
  <2> QED
    BY <1>6, <1>7, <1>9, <1>10, <2>1, <2>2, <2>3 DEF StoreTyped
<1> QED
  BY <1>8, <1>11 DEF StoreInv

LEMMA StoreStep == StoreInv /\ [Next]_vars => StoreInv'
<1> SUFFICES ASSUME StoreInv, [Next]_vars PROVE StoreInv'
  OBVIOUS
<1>1. ASSUME NEW p \in Pistons, Forget(p) PROVE StoreInv'
  <2>1. live.mask \ {p} \in SUBSET Pistons /\ 0 \in Positions
    BY DEF StoreInv, StoreTyped, LiveTyped
  <2>2. /\ MayChange /\ dirty' = TRUE
        /\ live' = [live EXCEPT !.pos[p] = 0, !.mask = live.mask \ {p}]
        /\ UNCHANGED <<ring, copies, nextSlot, settings, copy, pending, writer, bounds>>
    BY <1>1 DEF Forget
  <2> QED
    BY <2>1, <2>2, LiveStep
<1>2. ASSUME NEW p \in Pistons, NEW x \in Positions, Note(p, x) PROVE StoreInv'
  <2>1. live.mask \union {p} \in SUBSET Pistons
    BY DEF StoreInv, StoreTyped, LiveTyped
  <2>2. /\ MayChange /\ dirty' = TRUE
        /\ live' = [live EXCEPT !.pos[p] = x, !.mask = live.mask \union {p}]
        /\ UNCHANGED <<ring, copies, nextSlot, settings, copy, pending, writer, bounds>>
    BY <1>2 DEF Note
  <2> QED
    BY <2>1, <2>2, LiveStep
<1>3. ASSUME NEW v \in Values, SaveSettings(v) PROVE StoreInv'
  BY <1>3, SaveSettingsStep
<1>4. CASE WriteRecord
  BY <1>4, WriteRecordStep
<1>5. CASE WriteSettings
  BY <1>5, WriteSettingsStep
<1>6. CASE QueueSettings
  BY <1>6, QueueSettingsStep
<1>7. CASE BeginWrite
  BY <1>7, BeginWriteStep
<1>8. CASE PowerCycle
  BY <1>8, PowerCycleStep
<1>9. CASE UNCHANGED vars
  <2>1. UNCHANGED <<ring, copies, live, nextSlot, dirty, settings, copy, pending,
                    writer, budget, tears, kept>>
    BY <1>9 DEF vars, records, bounds
  <2>2. RingInv'
    BY <2>1, RingUntouched DEF StoreInv, records
  <2> QED
    BY <2>1, <2>2 DEF StoreInv, StoreTyped, LiveTyped
<1> QED
  BY <1>1, <1>2, <1>3, <1>4, <1>5, <1>6, <1>7, <1>8, <1>9 DEF Next

LEMMA StoreAlways == Spec => []StoreInv
BY InitStore, StoreStep, PTL DEF Spec

-----------------------------------------------------------------------------
(* What a boot finds of the positions.                                     *)

(* At rest a boot restores the last whole record; while one is written,    *)
(* that or the one under way.                                              *)
LEMMA RestoresKept ==
  ASSUME StoreInv
  PROVE  /\ ~Writing => Restored = kept
         /\ BootFindsKept
<1>1. /\ ring \in [Slot -> Record] /\ nextSlot \in Slot /\ tears \in 0 .. MaxTears
      /\ kept \in Record /\ LastNumber \in SeqNo /\ Numbered \in BOOLEAN
      /\ RingOK(ring, nextSlot, LastNumber, tears, kept, Numbered)
  BY Numbers DEF StoreInv, StoreTyped, RingInv
<1>2. Newest = NewestOf(ring)
  BY DEF Newest
<1>3. CASE Numbered /\ Valid(ring[nextSlot])
           /\ ring[nextSlot].crc.seq = Shift(LastNumber, 1)
  <2>1. Newest = nextSlot
    <3>1. \E t \in 0 .. MaxTears, k \in Record, busy \in BOOLEAN :
            RingOK(ring, nextSlot, LastNumber, t, k, busy)
      BY <1>1
    <3> QED
      BY <1>1, <1>2, <1>3, <3>1, RingFindsNew
  <2> QED
    BY <1>3, <2>1 DEF BootFindsKept, Numbered, Writing
<1>4. CASE ~(Numbered /\ Valid(ring[nextSlot])
             /\ ring[nextSlot].crc.seq = Shift(LastNumber, 1))
  <2>1. IF NoRecord(kept) THEN Newest = -1
        ELSE Newest = SlotAt(nextSlot, Slots - 1 - tears) /\ ring[Newest] = kept
    BY <1>1, <1>2, <1>4, RingFindsKept
  <2>2. SlotAt(nextSlot, Slots - 1 - tears) # -1
    <3>1. Slots - 1 - tears \in 0 .. Slots - 1
      BY <1>1
    <3> QED
      BY <1>1, <3>1, SlotAtTyped DEF Slot
  <2>3. Restored = kept
    BY <1>1, <2>1, <2>2 DEF Restored, RingOK
  <2> QED
    BY <2>3 DEF BootFindsKept
<1> QED
  BY <1>3, <1>4

(* A boot always finds the last record that was written whole, or the one  *)
(* being written just now: no cut, spoilt cell, change under the writer or *)
(* wrap of the ring or of the numbers brings an older position back.       *)
THEOREM BootAlwaysFindsKept == Spec => []BootFindsKept
<1>1. StoreInv => BootFindsKept
  BY RestoresKept
<1> QED
  BY <1>1, StoreAlways, PTL

-----------------------------------------------------------------------------
(* The settings, saved at any time, while they are written too.            *)

(* Number b was given a few saves after a. *)
Follows(b, a) == \E j \in Nat : j > 0 /\ 2 * j < SeqMod /\ b = Shift(a, j)

LEMMA ShiftOn ==
  ASSUME NEW q \in SeqNo, NEW j \in Nat, 2 * j < SeqMod
  PROVE  Shift(q, j) \in SeqNo /\ Shift(Shift(q, j), 1) = Shift(q, j + 1)
BY DEF Shift, SeqNo

LEMMA FollowsIsNewer ==
  ASSUME NEW a \in SeqNo, NEW b \in SeqNo, Follows(b, a)
  PROVE  Newer(b, a) /\ ~Newer(a, b)
<1>1. PICK j \in Nat : j > 0 /\ 2 * j < SeqMod /\ b = Shift(a, j)
  BY DEF Follows
<1>2. PICK h \in Nat : SeqMod = 2 * h /\ SeqMod \div 2 = h
  <2>1. SeqMod \div 2 \in Nat /\ SeqMod = 2 * (SeqMod \div 2)
    OBVIOUS
  <2> QED
    BY <2>1
<1>3. (IF b >= a THEN b - a ELSE b - a + SeqMod) = j
  BY <1>1 DEF Shift, SeqNo
<1>4. (IF a >= b THEN a - b ELSE a - b + SeqMod) = SeqMod - j
  BY <1>1 DEF Shift, SeqNo
<1>5. (b - a) % SeqMod = j /\ (a - b) % SeqMod = SeqMod - j
  BY <1>3, <1>4, DifferenceMod
<1>6. j \in 1 .. h - 1 /\ SeqMod - j \notin 1 .. h - 1
  BY <1>1, <1>2
<1> QED
  BY <1>2, <1>5, <1>6 DEF Newer

(* A save gives the number after. *)
LEMMA SaveNumbers ==
  ASSUME StoreTyped, NEW v \in Values, SaveSettings(v)
  PROVE  /\ Shift(settings.seq, 1) \in SeqNo
         /\ settings' = Summed([value |-> v, seq |-> Shift(settings.seq, 1),
                                crc |-> Junk])
         /\ settings' \in Blob /\ Valid(settings') /\ settings'.value = v
         /\ settings'.seq = Shift(settings.seq, 1)
<1>1. settings.seq \in SeqNo /\ 1 \in Near
  BY DEF StoreTyped, Near
<1>2. Shift(settings.seq, 1) \in SeqNo
  BY <1>1, ShiftTyped
<1>3. (settings.seq + 1) % SeqMod = Shift(settings.seq, 1)
  BY <1>1, ShiftIsMod
<1>4. settings' = Summed([value |-> v, seq |-> Shift(settings.seq, 1), crc |-> Junk])
  BY <1>3 DEF SaveSettings
<1> QED
  BY <1>2, <1>4, SummedBlob

LEMMA SettingsTyped ==
  ASSUME StoreTyped
  PROVE  /\ copies \in [{0, 1} -> Blob] /\ settings \in Blob
         /\ settings.seq \in SeqNo /\ copy \in {0, 1} /\ 1 - copy \in {0, 1}
         /\ budget \in Budgets /\ budget.saves \in Nat
         /\ 2 * budget.saves < SeqMod /\ 4 * budget.saves < SeqMod
         /\ \A c \in {0, 1} : /\ copies[c] \in Blob
                              /\ Valid(copies[c]) => copies[c].seq \in SeqNo
         /\ pending \in BOOLEAN
         /\ WritingSettings => writer.at \in 1 .. 3
<1>1. /\ budget \in Budgets /\ budget.saves \in Nat
      /\ 2 * budget.saves < SeqMod /\ 4 * budget.saves < SeqMod
  BY SavesAssumption DEF StoreTyped
<1>2. \A c \in {0, 1} : Valid(copies[c]) => copies[c].seq \in SeqNo
  BY ValidBlob DEF StoreTyped
<1>3. WritingSettings => writer.at \in 1 .. 3
  BY DEF StoreTyped, Writers, WritingSettings
<1> QED
  BY <1>1, <1>2, <1>3 DEF StoreTyped

(* Blob x, if it is one at all, is what s holds, or an earlier save. *)
Precedes(x, s) == Valid(x) => x.value = s.value \/ Follows(s.seq, x.seq)

(* The same of a blob written since all but the last n saves. *)
Recent(x, s, n) ==
  Valid(x) => \E j \in 0 .. n : /\ s.seq = Shift(x.seq, j)
                                /\ j = 0 => x.value = s.value

Burning ==
  ~pending => /\ Precedes(copies[copy], settings)
              /\ writer.at > 1 => copies[1 - copy].value = settings.value
              /\ writer.at > 2 => copies[1 - copy].seq = settings.seq

Resting ==
  /\ Recent(copies[1 - copy], settings, saves)
  /\ ~pending => Loaded = settings.value

QuietInv ==
  /\ saves \in 0 .. budget.saves
  /\ pending <=> saves > 0
  /\ pending \/ WritingSettings => Valid(settings)
  /\ WritingSettings => Burning
  /\ ~WritingSettings => Resting

LEMMA QuietUntouched ==
  ASSUME QuietInv, UNCHANGED <<copies, settings, copy, pending, budget, saves>>,
         \/ UNCHANGED writer
         \/ ~WritingSettings /\ ~WritingSettings'
  PROVE  QuietInv'
<1>1. /\ WritingSettings' <=> WritingSettings
      /\ WritingSettings => UNCHANGED writer
  BY DEF WritingSettings
<1>2. Resting' <=> Resting
  BY DEF Resting, Loaded, NewestCopy
<1>3. WritingSettings => (Burning' <=> Burning)
  BY <1>1 DEF Burning
<1> QED
  BY <1>1, <1>2, <1>3 DEF QuietInv

LEMMA RecentSave ==
  ASSUME StoreTyped, NEW v \in Values, SaveSettings(v),
         NEW n \in Nat, 2 * n < SeqMod, NEW x \in Blob, Recent(x, settings, n)
  PROVE  Recent(x, settings', n + 1)
<1>1. PICK new : new = settings'
  OBVIOUS
<1>2. Valid(x) => \E k \in 0 .. n + 1 : /\ new.seq = Shift(x.seq, k)
                                        /\ k = 0 => x.value = new.value
  <2> HAVE Valid(x)
  <2>1. PICK j \in 0 .. n : settings.seq = Shift(x.seq, j)
    BY DEF Recent
  <2>2. x.seq \in SeqNo
    BY ValidBlob
  <2>3. new.seq = Shift(settings.seq, 1)
    BY <1>1, SaveNumbers
  <2>4. new.seq = Shift(x.seq, j + 1)
    BY <2>1, <2>2, <2>3, ShiftOn
  <2>5. j + 1 \in 0 .. n + 1 /\ j + 1 # 0
    BY <2>1
  <2> QED
    BY <2>4, <2>5
<1>3. Recent(x, new, n + 1)
  BY <1>2 DEF Recent
<1> QED
  BY <1>1, <1>3

LEMMA QuietSave ==
  ASSUME StoreTyped, QuietInv, NEW v \in Values, SaveSettings(v)
  PROVE  QuietInv'
<1>1. /\ saves' = saves + 1 /\ pending'
      /\ UNCHANGED <<copies, copy, writer, budget>>
  BY DEF SaveSettings
<1>2. /\ saves \in Nat /\ saves < budget.saves /\ budget.saves \in Nat
      /\ 2 * budget.saves < SeqMod
  BY SettingsTyped DEF SaveSettings, QuietInv
<1>3. saves' \in 0 .. budget'.saves /\ saves' > 0
  BY <1>1, <1>2
<1>4. Valid(settings') /\ settings'.seq = Shift(settings.seq, 1)
  BY SaveNumbers
<1>5. WritingSettings' <=> WritingSettings
  BY <1>1 DEF WritingSettings
<1>6. ASSUME NEW x \in Blob, Recent(x, settings, saves)
      PROVE  Recent(x, settings', saves')
  BY <1>1, <1>2, <1>6, RecentSave
<1>7. ~WritingSettings => Resting'
  <2>1. copies[1 - copy] \in Blob
    BY SettingsTyped
  <2>2. ~WritingSettings => Recent(copies[1 - copy], settings', saves')
    BY <1>6, <2>1 DEF QuietInv, Resting
  <2> QED
    BY <1>1, <2>2 DEF Resting
<1>8. Burning'
  BY <1>1 DEF Burning
<1> QED
  BY <1>1, <1>3, <1>4, <1>5, <1>7, <1>8 DEF QuietInv

LEMMA QuietQueue ==
  ASSUME StoreTyped, QuietInv, QueueSettings
  PROVE  QuietInv'
<1>1. /\ UNCHANGED <<copies, settings, budget>> /\ pending /\ ~pending'
      /\ ~WritingSettings /\ WritingSettings' /\ writer'.at = 1
      /\ copy' = 1 - copy /\ saves' = 0
  BY DEF QueueSettings, WritingSettings
<1> DEFINE x == copies[1 - copy]
<1>2. /\ x \in Blob /\ Valid(x) => x.seq \in SeqNo
      /\ budget.saves \in Nat /\ 2 * budget.saves < SeqMod
      /\ saves \in 0 .. budget.saves
  BY SettingsTyped DEF QuietInv
<1>3. Recent(x, settings, saves)
  BY <1>1 DEF QuietInv, Resting
<1> HIDE DEF x
<1>4. Precedes(x, settings)
  <2> SUFFICES ASSUME Valid(x), x.value # settings.value
               PROVE  Follows(settings.seq, x.seq)
    BY DEF Precedes
  <2>1. PICK j \in 0 .. saves : /\ settings.seq = Shift(x.seq, j)
                                /\ j = 0 => x.value = settings.value
    BY <1>3 DEF Recent
  <2>2. j \in Nat /\ j > 0 /\ 2 * j < SeqMod
    BY <1>2, <2>1
  <2> QED
    BY <2>1, <2>2 DEF Follows
<1>5. Precedes(copies'[copy'], settings')
  BY <1>1, <1>4 DEF x
<1>6. Burning'
  BY <1>1, <1>5 DEF Burning
<1>7. Valid(settings') /\ saves' \in 0 .. budget'.saves /\ ~(saves' > 0)
  BY <1>1, <1>2 DEF QuietInv
<1> QED
  BY <1>1, <1>6, <1>7 DEF QuietInv

(* Of a blob and another that precedes it the scan finds the first, or as  *)
(* good a one.                                                             *)
LEMMA FindsLast ==
  ASSUME NEW both \in [{0, 1} -> Blob], NEW g \in {0, 1}, Valid(both[g]),
         Precedes(both[1 - g], both[g])
  PROVE  /\ NewestCopyOf(both) \in {0, 1}
         /\ both[NewestCopyOf(both)].value = both[g].value
<1> DEFINE x == 1 - g
<1>1. /\ x \in {0, 1} /\ both[g] \in Blob /\ both[x] \in Blob
      /\ g = 0 => x = 1
      /\ g = 1 => x = 0
  OBVIOUS
<1>2. Precedes(both[x], both[g])
  OBVIOUS
<1> HIDE DEF x
<1>3. Valid(both[x]) => \/ both[x].value = both[g].value
                        \/ /\ Newer(both[g].seq, both[x].seq)
                           /\ ~Newer(both[x].seq, both[g].seq)
  <2> SUFFICES ASSUME Valid(both[x]), both[x].value # both[g].value
               PROVE  /\ Newer(both[g].seq, both[x].seq)
                      /\ ~Newer(both[x].seq, both[g].seq)
    OBVIOUS
  <2>1. both[g].seq \in SeqNo /\ both[x].seq \in SeqNo
    BY <1>1, ValidBlob
  <2>2. Follows(both[g].seq, both[x].seq)
    BY <1>2 DEF Precedes
  <2> QED
    BY <2>1, <2>2, FollowsIsNewer
<1>4. CASE g = 0
  BY <1>1, <1>3, <1>4 DEF NewestCopyOf
<1>5. CASE g = 1
  BY <1>1, <1>3, <1>5 DEF NewestCopyOf
<1> QED
  BY <1>4, <1>5

(* A cell more of the settings.  Only the last makes a difference: with    *)
(* nothing saved since they were queued the copy is now what RAM holds.    *)
LEMMA QuietWrite ==
  ASSUME StoreTyped, QuietInv, WriteSettings
  PROVE  QuietInv'
<1> DEFINE x == copies[1 - copy]
           cell == BlobCells[writer.at]
           b == [x EXCEPT ![cell] = settings[cell]]
<1>1. /\ copies' = [copies EXCEPT ![1 - copy] = b]
      /\ writer' = IF writer.at = 3 THEN Idle ELSE [writer EXCEPT !.at = @ + 1]
      /\ UNCHANGED <<settings, copy, pending, budget, saves>>
      /\ WritingSettings
  BY DEF WriteSettings, BlobCells, WritingSettings
<1>2. /\ copies \in [{0, 1} -> Blob] /\ settings \in Blob /\ x \in Blob
      /\ settings.seq \in SeqNo /\ copy \in {0, 1} /\ 1 - copy \in {0, 1}
      /\ writer.at \in 1 .. 3 /\ budget.saves \in Nat
  BY <1>1, SettingsTyped
<1>3. /\ Valid(settings) /\ saves \in 0 .. budget.saves
      /\ pending <=> saves > 0
      /\ ~pending => Precedes(copies[copy], settings)
      /\ ~pending /\ writer.at > 1 => x.value = settings.value
      /\ ~pending /\ writer.at > 2 => x.seq = settings.seq
  BY <1>1 DEF QuietInv, Burning
<1>4. PICK v, n, c : x = [value |-> v, seq |-> n, crc |-> c]
  BY <1>2 DEF Blob
<1>5. /\ writer.at = 1 => b = [value |-> settings.value, seq |-> n, crc |-> c]
      /\ writer.at = 2 => b = [value |-> v, seq |-> settings.seq, crc |-> c]
      /\ writer.at = 3 => b = [value |-> v, seq |-> n, crc |-> settings.crc]
  BY <1>4 DEF BlobCells
<1>6. b \in Blob
  <2>1. cell \in {"value", "seq", "crc"}
    BY <1>2 DEF BlobCells
  <2> HIDE DEF x, cell
  <2> QED
    BY <1>2, <2>1, BlobCell
<1> HIDE DEF b
<1>7. /\ copies'[1 - copy] = b /\ copies'[copy] = copies[copy]
      /\ copies' \in [{0, 1} -> Blob]
  BY <1>1, <1>2, <1>6
<1>8. CASE writer.at # 3
  <2>1. /\ WritingSettings' /\ writer'.at = writer.at + 1
    <3>1. writer = [of |-> "settings", at |-> writer.at]
      BY <1>1 DEF StoreTyped, Writers, WritingSettings
    <3>2. writer' = [of |-> "settings", at |-> writer.at + 1]
      BY <1>1, <1>8, <3>1
    <3> QED
      BY <3>2 DEF WritingSettings
  <2>2. /\ ~pending /\ writer.at + 1 > 1 => b.value = settings.value
        /\ ~pending /\ writer.at + 1 > 2 => b.seq = settings.seq
    BY <1>2, <1>3, <1>4, <1>5, <1>8
  <2>3. Burning'
    BY <1>1, <1>3, <1>7, <2>1, <2>2 DEF Burning
  <2> QED
    BY <1>1, <1>3, <2>1, <2>3 DEF QuietInv
<1>9. CASE writer.at = 3
  <2>1. ~WritingSettings'
    BY <1>1, <1>9 DEF Idle, WritingSettings
  <2>2. Valid(b) => b.seq = settings.seq /\ b.value = settings.value
    <3> SUFFICES ASSUME Valid(b) PROVE b.seq = settings.seq /\ b.value = settings.value
      OBVIOUS
    <3>0. b.crc = settings.crc
      BY <1>5, <1>9
    <3>1. Content(b) = Content(settings)
      BY <1>3, <3>0 DEF Valid
    <3>2. /\ Content(b).value = b.value /\ Content(b).seq = b.seq
          /\ Content(settings).value = settings.value
          /\ Content(settings).seq = settings.seq
      BY <1>2, <1>6 DEF Content, Blob
    <3> QED
      BY <3>1, <3>2
  <2>3. Recent(b, settings, saves)
    <3>1. 0 \in 0 .. saves
      BY <1>2, <1>3
    <3>2. Shift(settings.seq, 0) = settings.seq
      BY <1>2, ShiftNone
    <3> QED
      BY <2>2, <3>1, <3>2 DEF Recent
  <2>4. ASSUME ~pending PROVE Loaded' = settings.value
    <3>1. b = settings
      <4>1. settings = [value |-> settings.value, seq |-> settings.seq,
                        crc |-> settings.crc]
        BY <1>2 DEF Blob
      <4> QED
        BY <1>3, <1>4, <1>5, <1>9, <2>4, <4>1
    <3>2. PICK both : both = copies'
      OBVIOUS
    <3>3. /\ both \in [{0, 1} -> Blob] /\ Valid(both[1 - copy])
          /\ both[1 - copy] = settings
          /\ Precedes(both[1 - (1 - copy)], both[1 - copy])
      <4>1. 1 - (1 - copy) = copy
        BY <1>2
      <4>2. both[1 - copy] = settings /\ both[copy] = copies[copy]
        BY <1>7, <3>1, <3>2
      <4> QED
        BY <1>3, <1>7, <2>4, <3>2, <4>1, <4>2
    <3>4. /\ NewestCopyOf(both) \in {0, 1}
          /\ both[NewestCopyOf(both)].value = settings.value
      BY <1>2, <3>3, FindsLast
    <3>5. NewestCopyOf(both) # -1
      BY <3>4
    <3> QED
      BY <3>2, <3>4, <3>5 DEF Loaded, NewestCopy
  <2>5. Resting'
    BY <1>1, <1>7, <2>3, <2>4 DEF Resting
  <2> QED
    BY <1>1, <1>3, <2>1, <2>5 DEF QuietInv
<1> QED
  BY <1>8, <1>9

(* Whatever the copies are after a cut, RAM is what the scan finds.        *)
LEMMA QuietPower ==
  ASSUME StoreTyped, StoreTyped', QuietInv, PowerCycle
  PROVE  QuietInv'
<1>1. PICK both : both = copies'
  OBVIOUS
<1> DEFINE g == NewestCopyOf(both)
<1>2. /\ settings' = IF g = -1 THEN ZeroBlob ELSE both[g]
      /\ copy' = IF g = -1 THEN 0 ELSE 1 - g
      /\ ~pending' /\ writer' = Idle /\ saves' = 0
      /\ Loaded' = IF g = -1 THEN Junk ELSE both[g].value
  BY <1>1 DEF PowerCycle, NewestCopy, Loaded
<1>3. budget' = budget /\ budget.saves \in Nat
  BY SettingsTyped DEF PowerCycle
<1>4. both \in [{0, 1} -> Blob] /\ settings'.seq \in SeqNo
  BY <1>1 DEF StoreTyped
<1>5. \/ g = -1 /\ ~Valid(both[0]) /\ ~Valid(both[1])
      \/ g \in {0, 1} /\ Valid(both[g])
  BY DEF NewestCopyOf
<1> HIDE DEF g
<1>6. Loaded' = settings'.value
  BY <1>2 DEF ZeroBlob
<1>7. Recent(both[1 - copy'], settings', saves')
  <2>1. CASE g = -1 /\ ~Valid(both[0]) /\ ~Valid(both[1])
    <3>1. 1 - copy' = 1
      BY <1>2, <2>1
    <3> QED
      BY <2>1, <3>1 DEF Recent
  <2>2. CASE g \in {0, 1}
    <3>1. both[1 - copy'] = settings'
      BY <1>2, <2>2
    <3>2. Shift(settings'.seq, 0) = settings'.seq /\ 0 \in 0 .. saves'
      BY <1>2, <1>4, ShiftNone
    <3> QED
      BY <3>1, <3>2 DEF Recent
  <2> QED
    BY <1>5, <2>1, <2>2
<1>8. Resting'
  BY <1>1, <1>6, <1>7 DEF Resting
<1>9. ~WritingSettings' /\ saves' \in 0 .. budget'.saves /\ ~(saves' > 0)
  BY <1>2, <1>3 DEF WritingSettings, Idle
<1> QED
  BY <1>2, <1>8, <1>9 DEF QuietInv

LEMMA QuietStep == StoreInv /\ QuietInv /\ StoreInv' /\ [Next]_vars => QuietInv'
<1> SUFFICES ASSUME StoreInv, QuietInv, StoreInv', [Next]_vars PROVE QuietInv'
  OBVIOUS
<1>0. StoreTyped /\ StoreTyped'
  BY DEF StoreInv
<1>1. ASSUME NEW p \in Pistons, Forget(p) \/ \E x \in Positions : Note(p, x)
      PROVE  QuietInv'
  <2>1. UNCHANGED <<copies, settings, copy, pending, budget, saves, writer>>
    BY <1>1 DEF Forget, Note, bounds
  <2> QED
    BY <2>1, QuietUntouched
<1>2. ASSUME NEW v \in Values, SaveSettings(v) PROVE QuietInv'
  BY <1>0, <1>2, QuietSave
<1>3. CASE WriteRecord
  <2>1. /\ UNCHANGED <<copies, settings, copy, pending, budget, saves>>
        /\ writer.of = "record"
        /\ writer' \in {Idle, [writer EXCEPT !.at = @ + 1]}
    BY <1>3 DEF WriteRecord
  <2>2. ~WritingSettings /\ ~WritingSettings'
    BY <1>0, <2>1 DEF WritingSettings, Idle, StoreTyped, Writers
  <2> QED
    BY <2>1, <2>2, QuietUntouched
<1>4. CASE WriteSettings
  BY <1>0, <1>4, QuietWrite
<1>5. CASE QueueSettings
  BY <1>0, <1>5, QuietQueue
<1>6. CASE BeginWrite
  <2>1. /\ UNCHANGED <<copies, settings, copy, pending, budget, saves>>
        /\ ~WritingSettings /\ ~WritingSettings'
    BY <1>6 DEF BeginWrite, bounds, WritingSettings
  <2> QED
    BY <2>1, QuietUntouched
<1>7. CASE PowerCycle
  BY <1>0, <1>7, QuietPower
<1>8. CASE UNCHANGED vars
  <2>1. UNCHANGED <<copies, settings, copy, pending, budget, saves, writer>>
    BY <1>8 DEF vars, bounds
  <2> QED
    BY <2>1, QuietUntouched
<1> QED
  BY <1>1, <1>2, <1>3, <1>4, <1>5, <1>6, <1>7, <1>8 DEF Next

LEMMA InitQuiet == Init => QuietInv
<1> SUFFICES ASSUME Init PROVE QuietInv
  OBVIOUS
<1>1. /\ copies[0] = ZeroBlob /\ copies[1] = ZeroBlob /\ settings = ZeroBlob
      /\ copy = 0 /\ ~pending /\ writer = Idle /\ saves = 0
      /\ budget \in Budgets /\ budget.saves \in Nat
  BY DEF Init
<1>2. ZeroBlob \in Blob /\ ZeroBlob.crc = Junk /\ ZeroBlob.value = Junk
  BY DEF ZeroBlob, Blob, SeqNo
<1>3. ~Valid(copies[0]) /\ ~Valid(copies[1])
  BY <1>1, <1>2, ValidBlob
<1>4. Loaded = Junk
  BY <1>3 DEF Loaded, NewestCopy, NewestCopyOf
<1>5. Resting
  BY <1>1, <1>2, <1>3, <1>4 DEF Resting, Recent
<1>6. ~WritingSettings
  BY <1>1 DEF WritingSettings, Idle
<1> QED
  BY <1>1, <1>5, <1>6 DEF QuietInv

LEMMA QuietAlways == Spec => [](StoreInv /\ QuietInv)
BY InitStore, InitQuiet, StoreStep, QuietStep, PTL DEF Spec

(* Every variable keeps to its type, the count of spoilt records and the   *)
(* numbers of records, settings and saves included, whatever is written,   *)
(* changed under the writer or cut.                                        *)
THEOREM PersistTyped == Spec => []TypeOK
<1>1. StoreInv /\ QuietInv => TypeOK
  <2> SUFFICES ASSUME StoreInv, QuietInv PROVE TypeOK
    OBVIOUS
  <2>1. DOMAIN ring = Slot /\ \A s \in Slot : DOMAIN ring[s] = DOMAIN ZeroRecord
    BY DEF StoreInv, StoreTyped, Record, ZeroRecord
  <2>2. DOMAIN copies = {0, 1} /\ \A c \in {0, 1} : DOMAIN copies[c] = DOMAIN ZeroBlob
    BY DEF StoreInv, StoreTyped, Blob, ZeroBlob
  <2>3. settings.value \in Values \union {Junk} /\ settings.seq \in Seq16
    BY DEF StoreInv, StoreTyped, Blob, Seq16, SeqNo
  <2>4. writer \in [of : {"none"}, at : {1}]
                  \union [of : {"record"}, at : 1 .. Len(RecordCells)]
                  \union [of : {"settings"}, at : 1 .. Len(BlobCells)]
    BY DEF StoreInv, StoreTyped, Writers, RecordCells, BlobCells
  <2> QED
    BY <2>1, <2>2, <2>3, <2>4
    DEF StoreInv, StoreTyped, LiveTyped, QuietInv, Seq16, SeqNo, TypeOK
<1> QED
  BY <1>1, QuietAlways, PTL

(* With nothing left to save, a boot would restore what the board goes by, *)
(* the settings included that were changed while they were written: they   *)
(* are still pending, and are written again.                               *)
THEOREM QuietAlwaysSaved == Spec => []QuietIsSaved
<1>1. StoreInv /\ QuietInv => QuietIsSaved
  <2> SUFFICES ASSUME StoreInv, QuietInv PROVE QuietIsSaved
    OBVIOUS
  <2>1. ~dirty /\ writer.of # "record" =>
          Restored.pos = live.pos /\ Restored.mask = live.mask
    BY RestoresKept DEF StoreInv, RingInv, Writing
  <2>2. ~pending /\ writer.of # "settings" => Loaded = settings.value
    BY DEF QuietInv, Resting, WritingSettings
  <2> QED
    BY <2>1, <2>2 DEF QuietIsSaved
<1> QED
  BY <1>1, QuietAlways, PTL

-----------------------------------------------------------------------------
(* What a boot finds of the settings, saves that come while they are being *)
(* written included.  The copy not written to is the last that was stored, *)
(* or is not whole because such a save came, or nothing was stored yet.    *)
(* While a save may have spoilt a copy, what a boot finds of the other is  *)
(* all that is known of it.                                                *)

Good == IF WritingSettings THEN copy ELSE 1 - copy

KeptInv ==
  /\ torn \in Torn
  /\ Valid(copies[Good]) => copies[Good].value = keptValue
  /\ ~Valid(copies[Good]) =>
       \/ keptValue = Junk
       \/ IF WritingSettings THEN torn = "over" ELSE torn # "no"
  /\ WritingSettings => Recent(copies[Good], settings, budget.saves + saves)
  /\ WritingSettings /\ torn = "no" => ~pending
  /\ ~WritingSettings => \/ Loaded = keptValue
                         \/ torn = "over" /\ NewestCopy = -1

LEMMA GoodTyped ==
  ASSUME StoreTyped
  PROVE  /\ Good \in {0, 1} /\ 1 - Good \in {0, 1} /\ 1 - (1 - Good) = Good
         /\ copies[Good] \in Blob /\ copies[1 - Good] \in Blob
BY DEF StoreTyped, Good

LEMMA GoodOfTwo ==
  ASSUME StoreTyped
  PROVE  /\ WritingSettings => Good = copy
         /\ ~WritingSettings => Good = 1 - copy
         /\ Good = 0 \/ Good = 1
BY DEF Good, StoreTyped

LEMMA RecentMore ==
  ASSUME NEW x, NEW n \in Nat, NEW m \in Nat, n <= m, Recent(x, settings, n)
  PROVE  Recent(x, settings, m)
BY DEF Recent

(* A blob written since fewer than half of the numbers were given out, if  *)
(* it is whole, is what s holds, or an earlier save.                       *)
LEMMA RecentPrecedes ==
  ASSUME NEW x, NEW s, NEW n \in Nat, 2 * n < SeqMod, Recent(x, s, n)
  PROVE  Precedes(x, s)
<1> SUFFICES ASSUME Valid(x), x.value # s.value PROVE Follows(s.seq, x.seq)
  BY DEF Precedes
<1>1. PICK j \in 0 .. n : /\ s.seq = Shift(x.seq, j)
                          /\ j = 0 => x.value = s.value
  BY DEF Recent
<1>2. j \in Nat /\ j > 0 /\ 2 * j < SeqMod
  BY <1>1
<1> QED
  BY <1>1, <1>2 DEF Follows

(* With one of the two not whole the scan finds the other, or nothing.     *)
LEMMA FindsOther ==
  ASSUME NEW both, NEW c \in {0, 1}, ~Valid(both[1 - c])
  PROVE  NewestCopyOf(both) = IF Valid(both[c]) THEN c ELSE -1
<1>1. CASE c = 0
  BY <1>1 DEF NewestCopyOf
<1>2. CASE c = 1
  BY <1>2 DEF NewestCopyOf
<1> QED
  BY <1>1, <1>2

(* A blob with the settings' CRC that is whole is the settings.            *)
LEMMA SameCrc ==
  ASSUME NEW b \in Blob, NEW s \in Blob, Valid(b), Valid(s), b.crc = s.crc
  PROVE  b = s
<1>1. Content(b) = Content(s)
  BY DEF Valid
<1>2. /\ Content(b).value = b.value /\ Content(b).seq = b.seq
      /\ Content(s).value = s.value /\ Content(s).seq = s.seq
  BY DEF Content, Blob
<1>3. /\ b = [value |-> b.value, seq |-> b.seq, crc |-> b.crc]
      /\ s = [value |-> s.value, seq |-> s.seq, crc |-> s.crc]
  BY DEF Blob
<1> QED
  BY <1>1, <1>2, <1>3

LEMMA KeptUntouched ==
  ASSUME KeptInv, WritingSettings' <=> WritingSettings,
         UNCHANGED <<copies, settings, copy, pending, saves, budget, keptValue, torn>>
  PROVE  KeptInv'
<1>1. Good' = Good
  BY DEF Good
<1>2. Loaded' = Loaded /\ NewestCopy' = NewestCopy
  BY DEF Loaded, NewestCopy
<1> HIDE DEF Good
<1> QED
  BY <1>1, <1>2 DEF KeptInv

LEMMA KeptSave ==
  ASSUME StoreTyped, QuietInv, KeptInv, NEW v \in Values, SaveSettings(v)
  PROVE  KeptInv'
<1>1. /\ saves' = saves + 1
      /\ UNCHANGED <<copies, copy, writer, budget, keptValue>>
      /\ torn' = IF torn = "no" /\ WritingSettings THEN "torn" ELSE torn
  BY DEF SaveSettings, WritingSettings
<1>2. (WritingSettings' <=> WritingSettings) /\ Good' = Good
  BY <1>1 DEF WritingSettings, Good
<1>3. Loaded' = Loaded /\ NewestCopy' = NewestCopy
  BY <1>1 DEF Loaded, NewestCopy
<1>4. /\ saves \in Nat /\ budget.saves \in Nat
      /\ 2 * (budget.saves + saves) < SeqMod
  BY SettingsTyped DEF QuietInv
<1>5. copies[Good] \in Blob
  BY GoodTyped
<1> HIDE DEF Good
<1>6. ASSUME WritingSettings
      PROVE  Recent(copies[Good], settings', budget.saves + saves')
  <2>1. Recent(copies[Good], settings, budget.saves + saves)
    BY <1>6 DEF KeptInv
  <2>2. budget.saves + saves' = (budget.saves + saves) + 1
    BY <1>1, <1>4
  <2> QED
    BY <1>4, <1>5, <2>1, <2>2, RecentSave
<1>7. /\ torn' \in Torn
      /\ torn = "over" => torn' = "over"
      /\ torn # "no" => torn' # "no"
      /\ ~WritingSettings => torn' = torn
      /\ WritingSettings => torn' # "no"
  BY <1>1 DEF KeptInv, Torn
<1> QED
  BY <1>1, <1>2, <1>3, <1>6, <1>7 DEF KeptInv

LEMMA KeptQueue ==
  ASSUME StoreTyped, QuietInv, KeptInv, QueueSettings
  PROVE  KeptInv'
<1>1. /\ ~WritingSettings /\ WritingSettings' /\ ~pending'
      /\ UNCHANGED <<copies, settings, budget, keptValue>>
      /\ saves' = 0 /\ Good' = Good /\ Good = 1 - copy
      /\ torn' = IF torn # "no" /\ ~Valid(copies[1 - copy]) THEN "over" ELSE torn
  BY DEF QueueSettings, WritingSettings, Good
<1>2. saves \in Nat /\ budget.saves \in Nat /\ saves <= budget.saves
  BY SettingsTyped DEF QuietInv
<1>3. Recent(copies[Good], settings, budget.saves + saves')
  <2>1. Recent(copies[Good], settings, saves)
    BY <1>1 DEF QuietInv, Resting
  <2>2. budget.saves + saves' = budget.saves
    BY <1>1, <1>2
  <2> HIDE DEF Good
  <2> QED
    BY <1>2, <2>1, <2>2, RecentMore
<1> HIDE DEF Good
<1>4. /\ torn' \in Torn
      /\ ~Valid(copies[Good]) => keptValue = Junk \/ torn' = "over"
  BY <1>1 DEF KeptInv, Torn
<1> QED
  BY <1>1, <1>3, <1>4 DEF KeptInv

(* A cell more: the last makes the copy the one to find, if no save spoilt *)
(* it.                                                                     *)
LEMMA KeptWrite ==
  ASSUME StoreTyped, QuietInv, KeptInv, WriteSettings
  PROVE  KeptInv'
<1> DEFINE g == copies[copy]
           x == copies[1 - copy]
           cell == BlobCells[writer.at]
           b == [x EXCEPT ![cell] = settings[cell]]
<1>0. /\ WritingSettings /\ Good = copy
      /\ copy \in {0, 1} /\ 1 - copy \in {0, 1} /\ 1 - (1 - copy) = copy
      /\ copies \in [{0, 1} -> Blob]
      /\ g \in Blob /\ x \in Blob /\ settings \in Blob
      /\ writer.at \in 1 .. 3 /\ pending \in BOOLEAN
      /\ saves \in Nat /\ budget.saves \in Nat
      /\ 2 * (budget.saves + saves) < SeqMod
      /\ Valid(settings)
  <2>1. WritingSettings
    BY DEF WriteSettings, WritingSettings
  <2>2. Good = copy
    BY <2>1 DEF Good
  <2>3. Valid(settings) /\ saves \in 0 .. budget.saves
    BY <2>1 DEF QuietInv
  <2>4. /\ budget.saves \in Nat /\ 4 * budget.saves < SeqMod
        /\ copy \in {0, 1} /\ 1 - copy \in {0, 1}
        /\ copies \in [{0, 1} -> Blob] /\ settings \in Blob
        /\ pending \in BOOLEAN
    BY SettingsTyped
  <2>5. writer.at \in 1 .. 3
    BY <2>1, SettingsTyped DEF WritingSettings
  <2>6. saves \in Nat /\ 2 * (budget.saves + saves) < SeqMod
    BY <2>3, <2>4 DEF PersistAssumption
  <2>7. /\ copies[copy] \in Blob /\ copies[1 - copy] \in Blob
        /\ 1 - (1 - copy) = copy
    BY <2>4
  <2> QED
    BY <2>1, <2>2, <2>3, <2>4, <2>5, <2>6, <2>7
<1>1. /\ copies' = [copies EXCEPT ![1 - copy] = b]
      /\ writer' = IF writer.at = 3 THEN Idle ELSE [writer EXCEPT !.at = @ + 1]
      /\ keptValue' = IF writer.at = 3 /\ Valid(b) THEN b.value ELSE keptValue
      /\ torn' = IF ~(writer.at = 3 /\ Valid(b)) THEN torn
                 ELSE IF Valid(g) /\ g # b /\ ~pending THEN "no"
                 ELSE IF torn = "over" THEN "torn" ELSE torn
      /\ UNCHANGED <<settings, copy, pending, budget, saves>>
  BY DEF WriteSettings, BlobCells
<1>2. PICK v, n, c : x = [value |-> v, seq |-> n, crc |-> c]
  BY <1>0 DEF Blob
<1>3. writer.at = 3 => b = [value |-> v, seq |-> n, crc |-> settings.crc]
  BY <1>2 DEF BlobCells
<1>4. b \in Blob
  <2>1. cell \in {"value", "seq", "crc"}
    BY <1>0 DEF BlobCells
  <2> HIDE DEF x, cell
  <2> QED
    BY <1>0, <2>1, BlobCell
<1>5. /\ torn \in Torn
      /\ Valid(g) => g.value = keptValue
      /\ ~Valid(g) => keptValue = Junk \/ torn = "over"
      /\ Recent(g, settings, budget.saves + saves)
      /\ torn = "no" => ~pending
  BY <1>0 DEF KeptInv
<1>6. torn = "no" /\ writer.at = 3 => b = settings
  <2> SUFFICES ASSUME torn = "no", writer.at = 3 PROVE b = settings
    OBVIOUS
  <2>1. v = settings.value /\ n = settings.seq
    BY <1>0, <1>2, <1>5 DEF QuietInv, Burning
  <2>2. settings = [value |-> settings.value, seq |-> settings.seq,
                    crc |-> settings.crc]
    BY <1>0 DEF Blob
  <2> QED
    BY <1>3, <2>1, <2>2
<1>7. b.crc = settings.crc \/ writer.at # 3
  BY <1>3
<1>8. torn' \in Torn
  BY <1>1, <1>5 DEF Torn
<1> HIDE DEF b, x
<1>9. copies'[1 - copy] = b /\ copies'[copy] = g
  BY <1>0, <1>1, <1>4
<1>10. CASE writer.at # 3
  <2>1. WritingSettings' /\ Good' = copy
    <3>1. writer = [of |-> "settings", at |-> writer.at]
      BY <1>0 DEF StoreTyped, Writers, WritingSettings
    <3>2. writer' = [of |-> "settings", at |-> writer.at + 1]
      BY <1>1, <1>10, <3>1
    <3> QED
      BY <1>1, <3>2 DEF WritingSettings, Good
  <2>2. torn' = torn /\ keptValue' = keptValue
    BY <1>1, <1>10
  <2> HIDE DEF Good
  <2> QED
    BY <1>1, <1>5, <1>8, <1>9, <2>1, <2>2 DEF KeptInv
<1>11. CASE writer.at = 3
  <2>1. ~WritingSettings' /\ Good' = 1 - copy
    BY <1>1, <1>11 DEF Idle, WritingSettings, Good
  <2>2. PICK both : both = copies'
    OBVIOUS
  <2>3. both[1 - copy] = b /\ both[copy] = g
    BY <1>9, <2>2
  <2>4. CASE Valid(b)
    <3>1. b = settings
      BY <1>0, <1>4, <1>7, <1>11, <2>4, SameCrc
    <3>2. keptValue' = b.value
      BY <1>1, <1>11, <2>4
    <3>3. Precedes(g, settings)
      BY <1>0, <1>5, RecentPrecedes
    <3>4. both \in [{0, 1} -> Blob] /\ Precedes(both[1 - (1 - copy)], both[1 - copy])
      BY <1>0, <1>1, <1>4, <2>2, <2>3, <3>1, <3>3
    <3>5. /\ NewestCopyOf(both) \in {0, 1}
          /\ both[NewestCopyOf(both)].value = b.value
      BY <1>0, <2>3, <2>4, <3>4, FindsLast
    <3>6. Loaded' = b.value
      <4>1. NewestCopyOf(both) # -1
        BY <3>5
      <4> QED
        BY <2>2, <3>5, <4>1 DEF Loaded, NewestCopy
    <3> HIDE DEF Good
    <3> QED
      BY <1>8, <1>9, <2>1, <2>4, <3>2, <3>6 DEF KeptInv
  <2>5. CASE ~Valid(b)
    <3>1. torn # "no" /\ torn' = torn /\ keptValue' = keptValue
      BY <1>0, <1>1, <1>6, <2>5, <1>11
    <3>2. NewestCopyOf(both) = IF Valid(g) THEN copy ELSE -1
      BY <1>0, <2>3, <2>5, FindsOther
    <3>3. /\ NewestCopy' = NewestCopyOf(both)
          /\ Loaded' = IF NewestCopyOf(both) = -1 THEN Junk
                       ELSE both[NewestCopyOf(both)].value
      BY <2>2 DEF Loaded, NewestCopy
    <3>4. Loaded' = keptValue \/ (torn = "over" /\ NewestCopy' = -1)
      <4>1. CASE Valid(g)
        <5>1. copy # -1
          BY <1>0
        <5> QED
          BY <1>5, <2>3, <3>2, <3>3, <4>1, <5>1
      <4>2. CASE ~Valid(g)
        BY <1>5, <3>2, <3>3, <4>2
      <4> QED
        BY <4>1, <4>2
    <3> HIDE DEF Good
    <3> QED
      BY <1>8, <1>9, <2>1, <2>5, <3>1, <3>4 DEF KeptInv
  <2> QED
    BY <2>4, <2>5
<1> QED
  BY <1>10, <1>11

LEMMA KeptPower ==
  ASSUME StoreTyped, QuietInv', KeptInv, PowerCycle
  PROVE  KeptInv'
<1>1. PICK both : both = copies'
  OBVIOUS
<1> DEFINE g == NewestCopyOf(both)
<1>2. /\ settings' = IF g = -1 THEN ZeroBlob ELSE both[g]
      /\ copy' = IF g = -1 THEN 0 ELSE 1 - g
      /\ ~pending' /\ writer' = Idle
      /\ keptValue' = settings'.value
      /\ torn' = IF torn = "no" THEN "no" ELSE "torn"
  BY <1>1 DEF PowerCycle, NewestCopy
<1>3. ~WritingSettings' /\ Good' = 1 - copy'
  BY <1>2 DEF WritingSettings, Good, Idle
<1>4. Loaded' = keptValue'
  BY <1>2, <1>3 DEF QuietInv, Resting
<1>5. \/ g = -1 /\ ~Valid(both[0]) /\ ~Valid(both[1])
      \/ g \in {0, 1} /\ Valid(both[g])
  BY DEF NewestCopyOf
<1> HIDE DEF g, Good
<1>6. torn' \in Torn
  BY <1>2 DEF Torn
<1>7. CASE g = -1
  <2>1. Good' = 1 /\ keptValue' = Junk
    BY <1>2, <1>3, <1>7 DEF ZeroBlob
  <2>2. ~Valid(copies'[Good'])
    BY <1>1, <1>5, <1>7, <2>1
  <2> QED
    BY <1>3, <1>4, <1>6, <2>1, <2>2 DEF KeptInv
<1>8. CASE g \in {0, 1} /\ Valid(both[g])
  <2>1. Good' = g /\ copies'[g] = settings'
    BY <1>1, <1>2, <1>3, <1>8
  <2>2. Valid(copies'[Good']) /\ copies'[Good'].value = keptValue'
    BY <1>1, <1>2, <1>8, <2>1
  <2> QED
    BY <1>3, <1>4, <1>6, <2>2 DEF KeptInv
<1> QED
  BY <1>5, <1>7, <1>8

LEMMA InitKept == Init => KeptInv
<1> SUFFICES ASSUME Init PROVE KeptInv
  OBVIOUS
<1>1. /\ copies[0] = ZeroBlob /\ copies[1] = ZeroBlob
      /\ copy = 0 /\ writer = Idle /\ keptValue = Junk /\ torn = "no"
  BY DEF Init
<1>2. ZeroBlob \in Blob /\ ZeroBlob.crc = Junk
  BY DEF ZeroBlob, Blob, SeqNo
<1>3. ~WritingSettings /\ Good = 1
  BY <1>1 DEF WritingSettings, Good, Idle
<1>4. ~Valid(copies[0]) /\ ~Valid(copies[1])
  BY <1>1, <1>2, ValidBlob
<1>5. Loaded = Junk
  BY <1>4 DEF Loaded, NewestCopy, NewestCopyOf
<1> HIDE DEF Good
<1> QED
  BY <1>1, <1>3, <1>4, <1>5 DEF KeptInv, Torn

-----------------------------------------------------------------------------
(* As long as no save comes while settings are written: one copy is good.  *)

(* The other copy, if its CRC was ever written, is older. *)
Pair(g, x, value) ==
  \/ g.crc = Junk /\ x.crc = Junk /\ value = Junk
  \/ Valid(g) /\ g.value = value /\ (x.crc # Junk => Follows(g.seq, x.crc.seq))

PairInv ==
  /\ Pair(copies[Good], copies[1 - Good], keptValue)
  /\ Valid(copies[Good]) =>
       IF WritingSettings THEN Follows(settings.seq, copies[Good].seq)
       ELSE settings.seq = Shift(copies[Good].seq, saves)
  /\ WritingSettings => ~pending

LEMMA FindsGood ==
  ASSUME NEW both \in [{0, 1} -> Blob], NEW g \in {0, 1}, NEW value,
         Pair(both[g], both[1 - g], value)
  PROVE  IF Valid(both[g]) THEN NewestCopyOf(both) = g
         ELSE /\ NewestCopyOf(both) = -1 /\ value = Junk
              /\ both[g].crc = Junk /\ both[1 - g].crc = Junk
<1> DEFINE x == 1 - g
<1>0. /\ x \in {0, 1} /\ both[g] \in Blob /\ both[x] \in Blob
      /\ g = 0 => x = 1
      /\ g = 1 => x = 0
  OBVIOUS
<1> HIDE DEF x
<1>1. CASE Valid(both[g])
  <2>1. both[g].crc # Junk /\ both[g].seq \in SeqNo
    BY <1>0, <1>1, ValidBlob
  <2>2. both[x].crc # Junk => Follows(both[g].seq, both[x].crc.seq)
    BY <1>1, <2>1 DEF Pair, x
  <2>3. Valid(both[x]) =>
          Newer(both[g].seq, both[x].seq) /\ ~Newer(both[x].seq, both[g].seq)
    <3> SUFFICES ASSUME Valid(both[x])
                 PROVE  /\ Newer(both[g].seq, both[x].seq)
                        /\ ~Newer(both[x].seq, both[g].seq)
      OBVIOUS
    <3>1. both[x].seq \in SeqNo /\ Follows(both[g].seq, both[x].seq)
      BY <1>0, <2>2, ValidBlob
    <3> QED
      BY <2>1, <3>1, FollowsIsNewer
  <2>4. CASE g = 0
    BY <1>0, <1>1, <2>3, <2>4 DEF NewestCopyOf
  <2>5. CASE g = 1
    BY <1>0, <1>1, <2>3, <2>5 DEF NewestCopyOf
  <2> QED
    BY <1>1, <2>4, <2>5
<1>2. CASE ~Valid(both[g])
  <2>1. both[g].crc = Junk /\ both[x].crc = Junk /\ value = Junk
    BY <1>2 DEF Pair, x
  <2>2. ~Valid(both[x])
    BY <1>0, <2>1, ValidBlob
  <2>3. NewestCopyOf(both) = -1
    BY <1>0, <1>2, <2>2 DEF NewestCopyOf
  <2> QED
    BY <1>2, <2>1, <2>3 DEF x
<1> QED
  BY <1>1, <1>2

LEMMA KeptIsFound ==
  ASSUME StoreTyped, PairInv
  PROVE  Loaded = keptValue
<1>1. copies \in [{0, 1} -> Blob] /\ Good \in {0, 1} /\ copies[Good] \in Blob
  BY GoodTyped DEF StoreTyped
<1>2. Pair(copies[Good], copies[1 - Good], keptValue)
  BY DEF PairInv
<1>3. IF Valid(copies[Good]) THEN NewestCopy = Good
      ELSE NewestCopy = -1 /\ keptValue = Junk
  <2> HIDE DEF Good
  <2> QED
    BY <1>1, <1>2, FindsGood DEF NewestCopy
<1>4. CASE Valid(copies[Good])
  <2>1. copies[Good].crc # Junk
    BY <1>1, <1>4, ValidBlob
  <2>2. Good # -1
    BY <1>1
  <2> QED
    BY <1>2, <1>3, <1>4, <2>1, <2>2 DEF Loaded, Pair
<1> QED
  BY <1>3, <1>4 DEF Loaded

LEMMA PairUntouched ==
  ASSUME PairInv, UNCHANGED <<copies, settings, copy, pending, saves, keptValue>>,
         WritingSettings' <=> WritingSettings
  PROVE  PairInv'
<1>1. Good' = Good
  BY DEF Good
<1> HIDE DEF Good
<1> QED
  BY <1>1 DEF PairInv

LEMMA PairSaveStep ==
  ASSUME StoreTyped, QuietInv, PairInv, torn = "no", torn' = "no",
         NEW v \in Values, SaveSettings(v)
  PROVE  PairInv'
<1>1. /\ ~WritingSettings /\ ~WritingSettings' /\ Good' = Good
      /\ saves' = saves + 1
      /\ UNCHANGED <<copies, copy, writer, budget, keptValue>>
  BY DEF SaveSettings, WritingSettings, Good
<1>2. saves \in Nat /\ 2 * saves < SeqMod
  BY SettingsTyped DEF QuietInv
<1>3. settings'.seq = Shift(settings.seq, 1)
  BY SaveNumbers
<1>4. Valid(copies[Good]) => settings'.seq = Shift(copies[Good].seq, saves + 1)
  <2> SUFFICES ASSUME Valid(copies[Good])
               PROVE  settings'.seq = Shift(copies[Good].seq, saves + 1)
    OBVIOUS
  <2>1. copies[Good].seq \in SeqNo
    BY GoodTyped, ValidBlob
  <2>2. settings.seq = Shift(copies[Good].seq, saves)
    BY <1>1 DEF PairInv
  <2> QED
    BY <1>2, <1>3, <2>1, <2>2, ShiftOn
<1> HIDE DEF Good
<1> QED
  BY <1>1, <1>4 DEF PairInv

LEMMA PairQueueStep ==
  ASSUME StoreTyped, QuietInv, PairInv, QueueSettings
  PROVE  PairInv'
<1>1. /\ ~WritingSettings /\ WritingSettings' /\ pending /\ ~pending'
      /\ UNCHANGED <<copies, settings, keptValue>>
      /\ Good' = Good
  BY DEF QueueSettings, WritingSettings, Good
<1>2. saves \in Nat /\ saves > 0 /\ 2 * saves < SeqMod
  BY <1>1, SettingsTyped DEF QuietInv
<1>3. Valid(copies[Good]) => Follows(settings.seq, copies[Good].seq)
  BY <1>1, <1>2 DEF PairInv, Follows
<1> HIDE DEF Good
<1> QED
  BY <1>1, <1>3 DEF PairInv

(* A cell of the copy that is not good; the last makes it the good one,    *)
(* with the value in RAM.                                                  *)
LEMMA PairWriteStep ==
  ASSUME StoreTyped, QuietInv, PairInv, WriteSettings
  PROVE  /\ PairInv'
         /\ keptValue' = IF writer.at = 3 THEN settings.value ELSE keptValue
<1> DEFINE g == copies[copy]
           x == copies[1 - copy]
           cell == BlobCells[writer.at]
           b == [x EXCEPT ![cell] = settings[cell]]
<1>0. /\ WritingSettings /\ Good = copy /\ ~pending
      /\ copy \in {0, 1} /\ 1 - copy \in {0, 1} /\ copies \in [{0, 1} -> Blob]
      /\ g \in Blob /\ x \in Blob /\ settings \in Blob
      /\ settings.seq \in SeqNo /\ writer.at \in 1 .. 3
  BY SettingsTyped DEF WriteSettings, WritingSettings, Good, PairInv
<1>1. /\ copies' = [copies EXCEPT ![1 - copy] = b]
      /\ writer' = IF writer.at = 3 THEN Idle ELSE [writer EXCEPT !.at = @ + 1]
      /\ keptValue' = IF writer.at = 3 /\ Valid(b) THEN b.value ELSE keptValue
      /\ UNCHANGED <<settings, copy, pending, saves>>
  BY DEF WriteSettings, BlobCells
<1>2. PICK v, n, c : x = [value |-> v, seq |-> n, crc |-> c]
  BY <1>0 DEF Blob
<1>3. /\ writer.at = 1 => b = [value |-> settings.value, seq |-> n, crc |-> c]
      /\ writer.at = 2 => b = [value |-> v, seq |-> settings.seq, crc |-> c]
      /\ writer.at = 3 => b = [value |-> v, seq |-> n, crc |-> settings.crc]
  BY <1>2 DEF BlobCells
<1>4. b \in Blob
  <2>1. cell \in {"value", "seq", "crc"}
    BY <1>0 DEF BlobCells
  <2> HIDE DEF x, cell
  <2> QED
    BY <1>0, <2>1, BlobCell
<1>5. /\ writer.at > 1 => v = settings.value
      /\ writer.at > 2 => n = settings.seq
  BY <1>0, <1>2 DEF QuietInv, Burning
<1>6. /\ Pair(g, x, keptValue) /\ Valid(settings)
      /\ Valid(g) => Follows(settings.seq, g.seq)
      /\ saves = 0
  <2>1. saves \in Nat /\ ~(saves > 0)
    BY <1>0, SettingsTyped DEF QuietInv
  <2> QED
    BY <1>0, <2>1 DEF PairInv, QuietInv
<1>7. x.crc = c
  BY <1>2
<1> HIDE DEF b
<1>8. copies'[1 - copy] = b /\ copies'[copy] = g
  BY <1>0, <1>1, <1>4
<1>9. CASE writer.at # 3
  <2>1. b.crc = c
    BY <1>0, <1>3, <1>9
  <2>2. WritingSettings' /\ Good' = copy /\ keptValue' = keptValue
    <3>1. writer = [of |-> "settings", at |-> writer.at]
      BY <1>0 DEF StoreTyped, Writers, WritingSettings
    <3>2. writer' = [of |-> "settings", at |-> writer.at + 1]
      BY <1>1, <1>9, <3>1
    <3> QED
      BY <1>1, <1>9, <3>2 DEF WritingSettings, Good
  <2>3. Pair(g, b, keptValue)
    BY <1>6, <1>7, <2>1 DEF Pair
  <2> HIDE DEF Good
  <2> QED
    BY <1>0, <1>1, <1>6, <1>8, <1>9, <2>2, <2>3 DEF PairInv
<1>10. CASE writer.at = 3
  <2>1. b = settings
    <3>1. settings = [value |-> settings.value, seq |-> settings.seq,
                      crc |-> settings.crc]
      BY <1>0 DEF Blob
    <3> QED
      BY <1>3, <1>5, <1>10, <3>1
  <2>2. ~WritingSettings' /\ Good' = 1 - copy /\ 1 - Good' = copy
    BY <1>0, <1>1, <1>10 DEF Idle, WritingSettings, Good
  <2>3. keptValue' = settings.value
    BY <1>1, <1>6, <1>10, <2>1
  <2>4. g.crc # Junk => Follows(settings.seq, g.crc.seq)
    <3> SUFFICES ASSUME g.crc # Junk PROVE Follows(settings.seq, g.crc.seq)
      OBVIOUS
    <3>1. Valid(g)
      BY <1>6 DEF Pair
    <3>2. g.crc.seq = g.seq
      BY <1>0, <3>1, ValidBlob
    <3> QED
      BY <1>6, <3>1, <3>2
  <2>5. Pair(settings, g, settings.value)
    BY <1>6, <2>4 DEF Pair
  <2>6. Shift(settings.seq, 0) = settings.seq
    BY <1>0, ShiftNone
  <2> HIDE DEF Good
  <2> QED
    BY <1>1, <1>6, <1>8, <1>10, <2>1, <2>2, <2>3, <2>5, <2>6 DEF PairInv
<1> QED
  BY <1>9, <1>10

(* The boot finds the copy that is good. *)
LEMMA PairPowerStep ==
  ASSUME StoreTyped, StoreTyped', PairInv, PowerCycle
  PROVE  PairInv' /\ keptValue' = keptValue
<1> DEFINE g == Good
<1>0. /\ g \in {0, 1} /\ 1 - g \in {0, 1} /\ 1 - (1 - g) = g
      /\ copies \in [{0, 1} -> Blob]
      /\ WritingSettings => g = copy
      /\ Pair(copies[g], copies[1 - g], keptValue)
  BY GoodTyped DEF PairInv, Good, StoreTyped
<1> HIDE DEF g
<1>1. PICK left \in Spoilt : copies' = left[2]
  BY DEF PowerCycle
<1>2. PICK both : both = copies'
  OBVIOUS
<1>3. \/ both = copies
      \/ /\ WritingSettings
         /\ \E cell \in {"value", "seq", "crc"} :
              both = [copies EXCEPT ![1 - g][cell] = Junk]
  BY <1>0, <1>1, <1>2, SpoiltCells DEF StoreTyped
<1>4. both \in [{0, 1} -> Blob]
  BY <1>2 DEF StoreTyped
<1>5. both[g] = copies[g] /\ both[1 - g].crc \in {copies[1 - g].crc, Junk}
  <2>1. CASE both = copies
    BY <2>1
  <2>2. ASSUME NEW cell \in {"value", "seq", "crc"},
               both = [copies EXCEPT ![1 - g][cell] = Junk]
        PROVE  both[g] = copies[g] /\ both[1 - g].crc \in {copies[1 - g].crc, Junk}
    <3> DEFINE x == copies[1 - g]
               y == [x EXCEPT ![cell] = Junk]
    <3>1. both = [copies EXCEPT ![1 - g] = y]
      BY <1>0, <2>2
    <3>2. y.crc \in {x.crc, Junk}
      <4>1. PICK v, n, c : x = [value |-> v, seq |-> n, crc |-> c]
        BY <1>0 DEF Blob
      <4>2. \/ y = [value |-> Junk, seq |-> n, crc |-> c]
            \/ y = [value |-> v, seq |-> Junk, crc |-> c]
            \/ y = [value |-> v, seq |-> n, crc |-> Junk]
        BY <4>1
      <4> QED
        BY <4>1, <4>2
    <3> HIDE DEF x, y
    <3> QED
      BY <1>0, <3>1, <3>2 DEF x
  <2> QED
    BY <1>3, <2>1, <2>2
<1>6. Pair(both[g], both[1 - g], keptValue)
  BY <1>0, <1>5 DEF Pair
<1>7. IF Valid(both[g]) THEN NewestCopyOf(both) = g
      ELSE /\ NewestCopyOf(both) = -1 /\ keptValue = Junk
           /\ both[g].crc = Junk /\ both[1 - g].crc = Junk
  BY <1>0, <1>4, <1>6, FindsGood
<1>8. /\ settings' = IF NewestCopyOf(both) = -1 THEN ZeroBlob
                     ELSE both[NewestCopyOf(both)]
      /\ copy' = IF NewestCopyOf(both) = -1 THEN 0 ELSE 1 - NewestCopyOf(both)
      /\ ~pending' /\ writer' = Idle /\ saves' = 0
      /\ keptValue' = settings'.value
  BY <1>2 DEF PowerCycle, NewestCopy
<1>9. ~WritingSettings' /\ Good' = 1 - copy'
  BY <1>8 DEF WritingSettings, Good, Idle
<1>10. CASE Valid(both[g])
  <2>1. settings' = both[g] /\ copy' = 1 - g /\ Good' = g
    BY <1>0, <1>7, <1>8, <1>9, <1>10
  <2>2. /\ both[g] \in Blob /\ both[g].crc # Junk /\ both[g].seq \in SeqNo
    BY <1>0, <1>4, <1>10, ValidBlob
  <2>3. keptValue' = keptValue
    BY <1>6, <1>8, <1>10, <2>1, <2>2 DEF Pair
  <2>4. Shift(both[g].seq, 0) = both[g].seq
    BY <2>2, ShiftNone
  <2> HIDE DEF Good
  <2> QED
    BY <1>2, <1>6, <1>8, <1>9, <2>1, <2>3, <2>4 DEF PairInv
<1>11. CASE ~Valid(both[g])
  <2>1. settings' = ZeroBlob /\ copy' = 0 /\ Good' = 1 /\ 1 - Good' = 0
    BY <1>7, <1>8, <1>9, <1>11
  <2>2. both[0].crc = Junk /\ both[1].crc = Junk /\ keptValue = Junk
    BY <1>0, <1>7, <1>11
  <2>3. keptValue' = Junk
    BY <1>8, <2>1 DEF ZeroBlob
  <2>4. Pair(both[1], both[0], Junk)
    BY <2>2 DEF Pair
  <2>5. ~Valid(both[1])
    BY <1>4, <2>2, ValidBlob
  <2> HIDE DEF Good
  <2> QED
    BY <1>2, <1>8, <1>9, <2>1, <2>2, <2>3, <2>4, <2>5 DEF PairInv
<1> QED
  BY <1>10, <1>11

LEMMA InitPair == Init => PairInv
<1> SUFFICES ASSUME Init PROVE PairInv
  OBVIOUS
<1>1. /\ copies[0] = ZeroBlob /\ copies[1] = ZeroBlob
      /\ copy = 0 /\ writer = Idle /\ keptValue = Junk
  BY DEF Init
<1>2. ZeroBlob \in Blob /\ ZeroBlob.crc = Junk
  BY DEF ZeroBlob, Blob, SeqNo
<1>3. ~WritingSettings /\ Good = 1
  BY <1>1 DEF WritingSettings, Good, Idle
<1>4. Pair(ZeroBlob, ZeroBlob, Junk) /\ ~Valid(ZeroBlob)
  BY <1>2, ValidBlob DEF Pair
<1> HIDE DEF Good
<1> QED
  BY <1>1, <1>3, <1>4 DEF PairInv

(* A step that has nothing to do with the settings. *)
Elsewhere ==
  \/ \E p \in Pistons : Forget(p) \/ \E x \in Positions : Note(p, x)
  \/ WriteRecord
  \/ BeginWrite
  \/ UNCHANGED vars

LEMMA ElsewhereStep ==
  ASSUME StoreTyped, Elsewhere
  PROVE  /\ UNCHANGED <<copies, settings, copy, pending, saves, budget, keptValue,
                         torn>>
         /\ WritingSettings' <=> WritingSettings
<1>1. ASSUME NEW p \in Pistons, Forget(p) \/ \E x \in Positions : Note(p, x)
      PROVE  UNCHANGED <<copies, settings, copy, pending, saves, budget, keptValue,
                         torn, writer>>
  BY <1>1 DEF Forget, Note, bounds
<1>2. CASE WriteRecord
  <2>1. /\ UNCHANGED <<copies, settings, copy, pending, saves, budget, keptValue,
                        torn>>
        /\ writer.of = "record"
        /\ writer' \in {Idle, [writer EXCEPT !.at = @ + 1]}
    BY <1>2 DEF WriteRecord
  <2> QED
    BY <2>1 DEF WritingSettings, Idle, StoreTyped, Writers
<1>3. CASE BeginWrite
  BY <1>3 DEF BeginWrite, bounds, WritingSettings
<1>4. CASE UNCHANGED vars
  BY <1>4 DEF vars, bounds, WritingSettings
<1> QED
  BY <1>1, <1>2, <1>3, <1>4 DEF Elsewhere, WritingSettings

LEMMA NextCases ==
  ASSUME [Next]_vars
  PROVE  \/ Elsewhere
         \/ \E v \in Values : SaveSettings(v)
         \/ WriteSettings
         \/ QueueSettings
         \/ PowerCycle
BY DEF Next, Elsewhere

(* Two whole copies that are apart are a pair again. *)
LEMMA PairAgain ==
  ASSUME StoreTyped, QuietInv, KeptInv, WriteSettings, torn # "no", torn' = "no"
  PROVE  PairInv'
<1> DEFINE g == copies[copy]
           x == copies[1 - copy]
           cell == BlobCells[writer.at]
           b == [x EXCEPT ![cell] = settings[cell]]
<1>0. /\ WritingSettings /\ Good = copy
      /\ copy \in {0, 1} /\ 1 - copy \in {0, 1} /\ 1 - (1 - copy) = copy
      /\ copies \in [{0, 1} -> Blob]
      /\ g \in Blob /\ x \in Blob /\ settings \in Blob /\ settings.seq \in SeqNo
      /\ writer.at \in 1 .. 3 /\ pending \in BOOLEAN
      /\ saves \in Nat /\ budget.saves \in Nat
      /\ 2 * (budget.saves + saves) < SeqMod
      /\ Valid(settings) /\ (pending <=> saves > 0)
  BY SettingsTyped DEF WriteSettings, WritingSettings, Good, QuietInv
<1>1. /\ copies' = [copies EXCEPT ![1 - copy] = b]
      /\ writer' = IF writer.at = 3 THEN Idle ELSE [writer EXCEPT !.at = @ + 1]
      /\ keptValue' = IF writer.at = 3 /\ Valid(b) THEN b.value ELSE keptValue
      /\ torn' = IF ~(writer.at = 3 /\ Valid(b)) THEN torn
                 ELSE IF Valid(g) /\ g # b /\ ~pending THEN "no"
                 ELSE IF torn = "over" THEN "torn" ELSE torn
      /\ UNCHANGED <<settings, copy, pending, saves>>
  BY DEF WriteSettings, BlobCells
<1>2. writer.at = 3 /\ Valid(b) /\ Valid(g) /\ g # b /\ ~pending
  BY <1>1
<1>3. PICK v, n, c : x = [value |-> v, seq |-> n, crc |-> c]
  BY <1>0 DEF Blob
<1>4. b = [value |-> v, seq |-> n, crc |-> settings.crc]
  BY <1>2, <1>3 DEF BlobCells
<1>5. b \in Blob
  <2>1. cell \in {"value", "seq", "crc"}
    BY <1>0 DEF BlobCells
  <2> HIDE DEF x, cell
  <2> QED
    BY <1>0, <2>1, BlobCell
<1>6. b.crc = settings.crc
  BY <1>4
<1> HIDE DEF b, x
<1>7. b = settings
  BY <1>0, <1>2, <1>5, <1>6, SameCrc
<1>8. copies'[1 - copy] = b /\ copies'[copy] = g
  BY <1>0, <1>1, <1>5
<1>9. Follows(settings.seq, g.crc.seq)
  <2>1. Recent(g, settings, budget.saves + saves)
    BY <1>0 DEF KeptInv
  <2>2. PICK j \in 0 .. budget.saves + saves :
               /\ settings.seq = Shift(g.seq, j)
               /\ j = 0 => g.value = settings.value
    BY <1>2, <2>1 DEF Recent
  <2>3. g.seq \in SeqNo /\ g.crc.seq = g.seq /\ g.crc = Content(g)
    BY <1>0, <1>2, ValidBlob DEF Valid
  <2>4. j # 0
    <3> SUFFICES ASSUME j = 0 PROVE FALSE
      OBVIOUS
    <3>1. g.value = settings.value /\ g.seq = settings.seq
      BY <2>2, <2>3, ShiftNone
    <3>2. Content(g) = Content(settings)
      BY <1>0, <3>1 DEF Content, Blob
    <3>3. g.crc = settings.crc
      BY <1>0, <2>3, <3>2 DEF Valid
    <3> QED
      BY <1>0, <1>2, <1>7, <3>3, SameCrc
  <2>5. j \in Nat /\ j > 0 /\ 2 * j < SeqMod
    BY <1>0, <2>2, <2>4
  <2> QED
    BY <2>2, <2>3, <2>5 DEF Follows
<1>10. Pair(settings, g, settings.value)
  BY <1>0, <1>9 DEF Pair
<1>11. ~WritingSettings' /\ Good' = 1 - copy /\ 1 - Good' = copy
  BY <1>0, <1>1, <1>2 DEF Idle, WritingSettings, Good
<1>12. saves = 0 /\ Shift(settings.seq, 0) = settings.seq
  BY <1>0, <1>2, ShiftNone
<1>13. keptValue' = settings.value
  BY <1>1, <1>2, <1>7
<1> HIDE DEF Good, g
<1> QED
  BY <1>1, <1>7, <1>8, <1>10, <1>11, <1>12, <1>13 DEF PairInv

-----------------------------------------------------------------------------
(* Both together.                                                          *)

SettingsInv ==
  /\ KeptInv
  /\ torn = "no" => PairInv

LEMMA SettingsStep ==
  ASSUME StoreInv, StoreInv', QuietInv, QuietInv', SettingsInv, [Next]_vars
  PROVE  SettingsInv'
<1>0. StoreTyped /\ StoreTyped' /\ KeptInv
  BY DEF StoreInv, SettingsInv
<1>1. CASE Elsewhere
  <2>1. /\ UNCHANGED <<copies, settings, copy, pending, saves, budget, keptValue,
                       torn>>
        /\ WritingSettings' <=> WritingSettings
    BY <1>0, <1>1, ElsewhereStep
  <2>2. KeptInv'
    BY <1>0, <2>1, KeptUntouched
  <2>3. torn = "no" => PairInv'
    BY <2>1, PairUntouched DEF SettingsInv
  <2> QED
    BY <2>1, <2>2, <2>3 DEF SettingsInv
<1>2. ASSUME NEW v \in Values, SaveSettings(v) PROVE SettingsInv'
  <2>1. KeptInv'
    BY <1>0, <1>2, KeptSave
  <2>2. torn' = "no" => torn = "no"
    BY <1>2 DEF SaveSettings
  <2>3. torn' = "no" => PairInv'
    BY <1>0, <1>2, <2>2, PairSaveStep DEF SettingsInv
  <2> QED
    BY <2>1, <2>3 DEF SettingsInv
<1>3. CASE WriteSettings
  <2>1. KeptInv'
    BY <1>0, <1>3, KeptWrite
  <2>2. torn = "no" => PairInv'
    BY <1>0, <1>3, PairWriteStep DEF SettingsInv
  <2>3. torn # "no" /\ torn' = "no" => PairInv'
    BY <1>0, <1>3, PairAgain
  <2> QED
    BY <2>1, <2>2, <2>3 DEF SettingsInv
<1>4. CASE QueueSettings
  <2>1. KeptInv'
    BY <1>0, <1>4, KeptQueue
  <2>2. torn' = "no" => torn = "no"
    BY <1>4 DEF QueueSettings
  <2>3. torn = "no" => PairInv'
    BY <1>0, <1>4, PairQueueStep DEF SettingsInv
  <2> QED
    BY <2>1, <2>2, <2>3 DEF SettingsInv
<1>5. CASE PowerCycle
  <2>1. KeptInv'
    BY <1>0, <1>5, KeptPower
  <2>2. torn' = "no" => torn = "no"
    BY <1>5 DEF PowerCycle
  <2>3. torn = "no" => PairInv'
    BY <1>0, <1>5, PairPowerStep DEF SettingsInv
  <2> QED
    BY <2>1, <2>2, <2>3 DEF SettingsInv
<1> QED
  BY <1>1, <1>2, <1>3, <1>4, <1>5, NextCases

LEMMA SettingsAlways == Spec => [](StoreInv /\ QuietInv /\ SettingsInv)
<1>1. Init => SettingsInv
  BY InitKept, InitPair DEF SettingsInv
<1>2. /\ StoreInv /\ QuietInv /\ SettingsInv
      /\ (StoreInv /\ QuietInv)'
      /\ [Next]_vars
      => SettingsInv'
  BY SettingsStep
<1> QED
  BY <1>1, <1>2, QuietAlways, PTL DEF Spec

(* A boot finds the settings last stored whole, or booted with, or those   *)
(* being written, wherever the power is cut and whatever it spoils, and    *)
(* however often their numbers wrap; and none only while the write after   *)
(* one that a save met goes over the copy that was good.                   *)
THEOREM SettingsAlwaysKept == Spec => []SettingsKept
<1>1. StoreInv /\ SettingsInv => SettingsKept
  <2> SUFFICES ASSUME StoreInv, SettingsInv PROVE SettingsKept
    OBVIOUS
  <2>1. StoreTyped /\ KeptInv
    BY DEF StoreInv, SettingsInv
  <2>2. CASE ~WritingSettings
    BY <2>1, <2>2 DEF KeptInv, SettingsKept
  <2>3. CASE WritingSettings
    <3>1. Good = copy /\ copy \in {0, 1}
      BY <2>1, <2>3, GoodOfTwo DEF StoreTyped
    <3>2. \/ NewestCopy = 1 - copy
          \/ NewestCopy = copy /\ Valid(copies[copy])
          \/ NewestCopy = -1 /\ ~Valid(copies[copy])
      BY <3>1 DEF NewestCopy, NewestCopyOf
    <3>3. copy # -1
      BY <3>1
    <3> HIDE DEF Good
    <3> QED
      BY <2>1, <2>3, <3>1, <3>2, <3>3
      DEF KeptInv, SettingsKept, Loaded, WritingSettings
  <2> QED
    BY <2>2, <2>3
<1> QED
  BY <1>1, SettingsAlways, PTL

-----------------------------------------------------------------------------
(* The register: the last cell of the settings stores them, and all the    *)
(* other steps of the writer leave what a boot would find alone.           *)
LEMMA LoadedTyped ==
  ASSUME StoreTyped
  PROVE  Loaded \in Values \union {Junk}
<1>1. NewestCopy \in {-1, 0, 1}
  BY DEF NewestCopy, NewestCopyOf
<1>2. \A c \in {0, 1} : copies[c].value \in Values \union {Junk}
  BY DEF StoreTyped, Blob
<1> QED
  BY <1>1, <1>2 DEF Loaded

LEMMA RegisterStep ==
  ASSUME StoreInv, StoreInv', QuietInv, PairInv, PairInv', torn = "no",
         torn' = "no", [Next]_vars
  PROVE  [Register!Next]_(Register!vars)
<1>0. /\ StoreTyped /\ StoreTyped'
      /\ Loaded = keptValue
  BY KeptIsFound DEF StoreInv
<1>1. Loaded' = keptValue'
  <2>1. (StoreTyped /\ PairInv => Loaded = keptValue)'
    BY KeptIsFound, PTL
  <2> QED
    BY <1>0, <2>1
<1>2. CASE Elsewhere
  <2>1. /\ UNCHANGED <<settings, pending, keptValue, torn>>
        /\ WritingSettings' <=> WritingSettings
    BY <1>0, <1>2, ElsewhereStep
  <2> QED
    BY <1>0, <1>1, <2>1 DEF Register!vars, WritingSettings
<1>3. ASSUME NEW v \in Values, SaveSettings(v) PROVE Register!Save(v)
  <2>1. settings'.value = v /\ pending' /\ keptValue' = keptValue
    BY <1>3 DEF SaveSettings, Summed
  <2> QED
    BY <1>0, <1>1, <2>1 DEF Register!Save
<1>4. CASE WriteSettings
  <2>1. /\ keptValue' = IF writer.at = 3 THEN settings.value ELSE keptValue
        /\ ~pending
    BY <1>0, <1>4, PairWriteStep DEF WriteSettings, PairInv, WritingSettings
  <2>2. /\ writer.of = "settings" /\ UNCHANGED <<settings, pending>>
        /\ writer' = IF writer.at = 3 THEN Idle ELSE [writer EXCEPT !.at = @ + 1]
    BY <1>4 DEF WriteSettings, BlobCells
  <2>3. CASE writer.at = 3
    <3>1. writer'.of = "none"
      BY <2>2, <2>3 DEF Idle
    <3> QED
      BY <1>1, <2>1, <2>2, <2>3, <3>1 DEF Register!Next, Register!Store
  <2>4. CASE writer.at # 3
    <3>1. writer'.of = "settings"
      BY <1>0, <2>2, <2>4 DEF StoreTyped, Writers
    <3> QED
      BY <1>0, <1>1, <2>1, <2>2, <2>4, <3>1 DEF Register!vars
  <2> QED
    BY <2>3, <2>4
<1>5. CASE QueueSettings
  <2>1. pending /\ writer'.of = "settings" /\ UNCHANGED <<settings, keptValue>>
    BY <1>5 DEF QueueSettings
  <2> QED
    BY <1>0, <1>1, <2>1 DEF Register!vars
<1>6. CASE PowerCycle
  <2>1. keptValue' = keptValue
    BY <1>0, <1>6, PairPowerStep
  <2>2. keptValue' = settings'.value /\ ~pending' /\ writer' = Idle
    BY <1>6 DEF PowerCycle
  <2>3. writer'.of = "none"
    BY <2>2 DEF Idle
  <2> QED
    BY <1>0, <1>1, <2>1, <2>2, <2>3 DEF Register!Next, Register!PowerCycle
<1> QED
  BY <1>2, <1>3, <1>4, <1>5, <1>6, NextCases DEF Register!Next

(* The steps of a register at risk, and the one that puts it at risk.      *)
LEMMA RiskyStep ==
  ASSUME StoreInv, StoreInv', QuietInv, QuietInv', KeptInv,
         torn # "no" \/ torn' # "no", [Next]_vars
  PROVE  [Register!Next]_(Register!vars)
<1>0. StoreTyped /\ StoreTyped' /\ Loaded' \in Values \union {Junk}
  <2>1. (StoreTyped => Loaded \in Values \union {Junk})'
    BY LoadedTyped, PTL
  <2> QED
    BY <2>1 DEF StoreInv
<1>1. pending \in BOOLEAN /\ pending' \in BOOLEAN
  BY <1>0 DEF StoreTyped
<1> DEFINE owed == pending \/ writer.of = "settings"
<1>2. ASSUME UNCHANGED <<settings, torn>>, torn # "no"
      PROVE  Register!Unsettled
  <2>1. owed' \in BOOLEAN
    OBVIOUS
  <2> QED
    BY <1>0, <1>2, <2>1 DEF Register!Unsettled
<1>3. CASE Elsewhere
  <2>1. UNCHANGED <<settings, torn>>
    BY <1>0, <1>3, ElsewhereStep
  <2> QED
    BY <1>2, <2>1 DEF Register!Next
<1>4. ASSUME NEW v \in Values, SaveSettings(v) PROVE Register!Save(v)
  <2>1. /\ settings'.value = v /\ pending' /\ UNCHANGED copies
        /\ torn' = IF torn = "no" /\ writer.of = "settings" THEN "torn" ELSE torn
    BY <1>4 DEF SaveSettings, Summed
  <2>2. Loaded' = Loaded
    BY <2>1 DEF Loaded, NewestCopy
  <2>3. (torn' # "no") \in {torn # "no", torn # "no" \/ owed}
    BY <2>1
  <2> QED
    BY <2>1, <2>2, <2>3 DEF Register!Save
<1>5. CASE WriteSettings
  <2>1. /\ WritingSettings /\ UNCHANGED <<settings, pending>>
        /\ writer.of = "settings"
    BY <1>5 DEF WriteSettings, WritingSettings
  <2>2. CASE torn' = "no"
    <3>1. torn # "no"
      BY <2>2
    <3>2. writer' = Idle /\ ~pending
      BY <1>5, <2>2, <3>1 DEF WriteSettings
    <3>3. ~WritingSettings' /\ writer'.of = "none"
      BY <3>2 DEF Idle, WritingSettings
    <3>4. Loaded' = settings'.value
      BY <2>1, <3>2, <3>3 DEF QuietInv, Resting
    <3> QED
      BY <2>1, <2>2, <3>2, <3>3, <3>4 DEF Register!Next, Register!Store
  <2>3. CASE torn' # "no"
    <3>1. torn # "no"
      BY <1>5, <2>3 DEF WriteSettings
    <3>2. owed' \in BOOLEAN
      OBVIOUS
    <3> QED
      BY <1>0, <2>1, <2>3, <3>1, <3>2 DEF Register!Next, Register!Unsettled
  <2> QED
    BY <2>2, <2>3
<1>6. CASE QueueSettings
  <2>1. UNCHANGED settings /\ torn # "no" /\ torn' # "no"
    BY <1>6 DEF QueueSettings
  <2>2. owed' \in BOOLEAN
    OBVIOUS
  <2> QED
    BY <1>0, <2>1, <2>2 DEF Register!Next, Register!Unsettled
<1>7. CASE PowerCycle
  <2>1. torn # "no" /\ torn' # "no" /\ ~pending' /\ writer' = Idle
    BY <1>7 DEF PowerCycle
  <2>2. ~WritingSettings' /\ writer'.of = "none"
    BY <2>1 DEF Idle, WritingSettings
  <2>3. Loaded' = settings'.value
    BY <2>1, <2>2 DEF QuietInv, Resting
  <2> QED
    BY <1>0, <2>1, <2>2, <2>3 DEF Register!Next, Register!PowerCycle
<1> HIDE DEF owed
<1> QED
  BY <1>3, <1>4, <1>5, <1>6, <1>7, NextCases DEF Register!Next

(* The two copies, the writer and the boot implement one register in RAM   *)
(* and one in the EEPROM that is replaced in one step: a power cut leaves  *)
(* either all of the settings last saved, or all of those stored before,   *)
(* unless a save met a write, until the two copies are whole again.        *)
THEOREM SettingsImplementRegister == Spec => SettingsSpec
<1>1. Init => Register!Init
  <2> SUFFICES ASSUME Init PROVE Register!Init
    OBVIOUS
  <2>1. StoreInv /\ PairInv
    BY InitStore, InitPair
  <2>2. Loaded = keptValue
    BY <2>1, KeptIsFound DEF StoreInv
  <2> QED
    BY <2>2 DEF Init, Register!Init, ZeroBlob, Idle
<1>2. /\ StoreInv /\ QuietInv /\ SettingsInv
      /\ (StoreInv /\ QuietInv /\ SettingsInv)'
      /\ [Next]_vars
      => [Register!Next]_(Register!vars)
  <2> SUFFICES ASSUME StoreInv, QuietInv, SettingsInv,
                      StoreInv', QuietInv', SettingsInv', [Next]_vars
               PROVE  [Register!Next]_(Register!vars)
    OBVIOUS
  <2>1. CASE torn = "no" /\ torn' = "no"
    BY <2>1, RegisterStep DEF SettingsInv
  <2>2. CASE torn # "no" \/ torn' # "no"
    BY <2>2, RiskyStep DEF SettingsInv
  <2> QED
    BY <2>1, <2>2
<1> QED
  BY <1>1, <1>2, SettingsAlways, PTL DEF Spec, SettingsSpec, Register!Spec
=============================================================================
