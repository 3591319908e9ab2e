-------------------------- MODULE TeensyNodeProofs --------------------------
(***************************************************************************)
(* Proofs about TeensyNode, for every grid, cell size, table and list of   *)
(* points, of every run of the machine.                                    *)
(*                                                                         *)
(* What MAPAPPLY answers stays within the frame: the cell of a coordinate  *)
(* is one of the grid (CellOfCount), an interpolation lies between its two *)
(* ends (LerpBetween, LerpCellBetween), and a clamp does the rest.  The    *)
(* type invariant rests on that.  The answers follow the table because the *)
(* table in use is the one last committed, or none (CacheCoherent), and a  *)
(* transfer is known to both of its sides (TransferKnown).                 *)
(***************************************************************************)
EXTENDS TeensyNode, SequenceTheorems, TLAPS

(* Multiplication keeps an order, and a positive product is one of numbers *)
(* that are.                                                               *)
LEMMA TimesMonotone ==
  ASSUME NEW a \in Int, NEW b \in Int, NEW c \in Nat, a <= b
  PROVE  a * c <= b * c
  OBVIOUS

LEMMA TimesPositive ==
  ASSUME NEW a \in Nat \ {0}, NEW b \in Nat \ {0}
  PROVE  a * b \in Nat \ {0}
  OBVIOUS

(* Integer division rounds down. *)
LEMMA DivRounds ==
  ASSUME NEW a \in Int, NEW b \in Nat \ {0}
  PROVE  /\ a \div b \in Int
         /\ b * (a \div b) <= a
         /\ a < b * (a \div b) + b
  OBVIOUS

LEMMA DivNat ==
  ASSUME NEW a \in Nat, NEW b \in Nat \ {0}
  PROVE  a \div b \in Nat
  OBVIOUS

LEMMA LeDiv ==
  ASSUME NEW a \in Int, NEW b \in Nat \ {0}, NEW k \in Int, k * b <= a
  PROVE  k <= a \div b
  OBVIOUS

LEMMA DivLe ==
  ASSUME NEW a \in Int, NEW b \in Nat \ {0}, NEW k \in Int, a <= k * b
  PROVE  a \div b <= k
  OBVIOUS

-----------------------------------------------------------------------------
(* apply(). *)

(* The field has at least one count, and Clamp() keeps to it, in order. *)
LEMMA FieldNonempty == Full \in Nat \ {0} /\ Mid \in Int
  BY TimesPositive, DivNat, FieldAssumption DEF Full, Mid

LEMMA ClampIn ==
  ASSUME NEW v \in Int
  PROVE  Clamp(v) \in 0 .. Full - 1
  BY FieldNonempty DEF Clamp

LEMMA ClampMonotone ==
  ASSUME NEW v \in Int, NEW w \in Int, v <= w
  PROVE  Clamp(v) <= Clamp(w)
  BY FieldNonempty DEF Clamp

LEMMA CountsIn ==
  ASSUME NEW um \in Int, scale \in Nat
  PROVE  Counts(um) \in 0 .. Full - 1
  <1>1. um * scale \in Int
    OBVIOUS
  <1>2. ASSUME NEW v \in Int PROVE Quotient(v, Unit) \in Int
    BY <1>2, DivRounds, FieldAssumption DEF Quotient
  <1>3. Mid + Quotient(um * scale, Unit) \in Int
    BY <1>1, <1>2, FieldNonempty
  <1>. QED
    BY <1>3, ClampIn DEF Counts

(* The cell of a count, and how far into it the count lies. *)
LEMMA CellOfCount ==
  ASSUME NEW n \in 0 .. Full - 1
  PROVE  /\ CellOf(n) \in 0 .. GridSize - 2
         /\ n - CellOf(n) * Cell \in 0 .. Cell - 1
  <1>1. n \div Cell \in Nat
    BY DivNat, FieldNonempty, FieldAssumption
  <1>2. /\ Cell * (n \div Cell) <= n
        /\ n < Cell * (n \div Cell) + Cell
    BY DivRounds, FieldNonempty, FieldAssumption
  <1>3. n \div Cell < GridSize - 1
    BY <1>1, <1>2, FieldAssumption DEF Full
  <1>4. CellOf(n) = n \div Cell
    BY <1>1, <1>3, FieldAssumption DEF CellOf
  <1>. QED
    BY <1>1, <1>2, <1>3, <1>4, FieldAssumption

(* Between two values Lerp() is between them, and at the first is it. *)
LEMMA LerpBetween ==
  ASSUME NEW from \in Int, NEW to \in Int, NEW f \in 0 .. Cell - 1,
         NEW lo \in Int, NEW hi \in Int,
         lo <= from, lo <= to, from <= hi, to <= hi
  PROVE  /\ Lerp(from, to, f) \in Int
         /\ lo <= Lerp(from, to, f) /\ Lerp(from, to, f) <= hi
         /\ f = 0 => Lerp(from, to, f) = from
  <1>. DEFINE d == to - from
              part == (d * f) \div Cell
  <1>1. d \in Int /\ f \in Int /\ Cell \in Nat \ {0} /\ d * f \in Int
    BY FieldAssumption
  <1>2. part \in Int
    BY <1>1, DivRounds
  <1>3. d >= 0 => 0 <= part /\ part <= d
    <2>. SUFFICES ASSUME d >= 0 PROVE 0 <= part /\ part <= d
      OBVIOUS
    <2>1. 0 * Cell <= d * f /\ d * f <= d * Cell
      BY <1>1
    <2>. QED
      BY <1>1, <2>1, LeDiv, DivLe
  <1>4. d < 0 => d <= part /\ part <= 0
    <2>. SUFFICES ASSUME d < 0 PROVE d <= part /\ part <= 0
      OBVIOUS
    <2>1. d * Cell <= d * f /\ d * f <= 0 * Cell
      BY <1>1
    <2>. QED
      BY <1>1, <2>1, LeDiv, DivLe
  <1>5. f = 0 => part = 0
    <2>. SUFFICES ASSUME f = 0 PROVE part = 0
      OBVIOUS
    <2>1. 0 * Cell <= d * f /\ d * f <= 0 * Cell
      BY <1>1
    <2>. QED
      BY <1>1, <1>2, <2>1, LeDiv, DivLe
  <1>6. Lerp(from, to, f) = from + part
    BY DEF Lerp
  <1>. HIDE DEF part
  <1>. QED
    BY <1>1, <1>2, <1>3, <1>4, <1>5, <1>6

LEMMA LerpCellBetween ==
  ASSUME NEW q, NEW d, \A i \in 1 .. 4 : q[i][d] \in Int,
         NEW fx \in 0 .. Cell - 1, NEW fy \in 0 .. Cell - 1,
         NEW lo \in Int, NEW hi \in Int,
         \A i \in 1 .. 4 : lo <= q[i][d] /\ q[i][d] <= hi
  PROVE  /\ LerpCell(q, d, fx, fy) \in Int
         /\ lo <= LerpCell(q, d, fx, fy) /\ LerpCell(q, d, fx, fy) <= hi
         /\ fx = 0 /\ fy = 0 => LerpCell(q, d, fx, fy) = q[1][d]
  <1>. DEFINE top == Lerp(q[1][d], q[2][d], fx)
              bot == Lerp(q[3][d], q[4][d], fx)
  <1>1. /\ q[1][d] \in Int /\ q[2][d] \in Int
        /\ q[3][d] \in Int /\ q[4][d] \in Int
        /\ lo <= q[1][d] /\ q[1][d] <= hi /\ lo <= q[2][d] /\ q[2][d] <= hi
        /\ lo <= q[3][d] /\ q[3][d] <= hi /\ lo <= q[4][d] /\ q[4][d] <= hi
    OBVIOUS
  <1>2. /\ top \in Int /\ lo <= top /\ top <= hi
        /\ fx = 0 => top = q[1][d]
    BY <1>1, LerpBetween
  <1>3. bot \in Int /\ lo <= bot /\ bot <= hi
    BY <1>1, LerpBetween
  <1>4. LerpCell(q, d, fx, fy) = Lerp(top, bot, fy)
    BY DEF LerpCell
  <1>. HIDE DEF top, bot
  <1>5. /\ Lerp(top, bot, fy) \in Int
        /\ lo <= Lerp(top, bot, fy) /\ Lerp(top, bot, fy) <= hi
        /\ fy = 0 => Lerp(top, bot, fy) = top
    BY <1>2, <1>3, LerpBetween
  <1>. QED
    BY <1>2, <1>4, <1>5

(* Of four numbers one is the least and one the greatest. *)
LEMMA LeastAndGreatest ==
  ASSUME NEW q, NEW d, \A i \in 1 .. 4 : q[i][d] \in Int
  PROVE  /\ \E i \in 1 .. 4 : \A j \in 1 .. 4 : q[i][d] <= q[j][d]
         /\ \E i \in 1 .. 4 : \A j \in 1 .. 4 : q[j][d] <= q[i][d]
  <1>. DEFINE v(i) == q[i][d]
  <1>1. v(1) \in Int /\ v(2) \in Int /\ v(3) \in Int /\ v(4) \in Int
    OBVIOUS
  <1>2. \A i \in 1 .. 4 : i = 1 \/ i = 2 \/ i = 3 \/ i = 4
    OBVIOUS
  <1>. HIDE DEF v
  <1>3. /\ \E i \in 1 .. 4 : \A j \in 1 .. 4 : v(i) <= v(j)
        /\ \E i \in 1 .. 4 : \A j \in 1 .. 4 : v(j) <= v(i)
    BY <1>1, <1>2
  <1>. QED
    BY <1>3 DEF v

(* The corners of a cell lie within the table. *)
LEMMA CornersTyped ==
  ASSUME NEW c \in (0 .. GridSize - 2) \X (0 .. GridSize - 2), active \in Table
  PROVE  CornersOf(c) \in Point \X Point \X Point \X Point
  <1>. DEFINE first == c[2] * GridSize + c[1] + 1
  <1>1. c[1] \in 0 .. GridSize - 2 /\ c[2] \in 0 .. GridSize - 2
    OBVIOUS
  <1>2. (c[2] + 1) * GridSize <= (GridSize - 1) * GridSize
    BY <1>1, TimesMonotone, FieldAssumption
  <1>3. 0 * GridSize <= c[2] * GridSize
    BY <1>1, TimesMonotone, FieldAssumption
  <1>4. c[2] * GridSize \in Int
    BY <1>1, FieldAssumption
  <1>5. /\ first \in 1 .. GridPoints
        /\ first + 1 \in 1 .. GridPoints
        /\ first + GridSize \in 1 .. GridPoints
        /\ first + GridSize + 1 \in 1 .. GridPoints
    BY <1>1, <1>2, <1>3, <1>4, FieldAssumption DEF GridPoints
  <1>6. CornersOf(c) = <<active[first], active[first + 1],
                         active[first + GridSize],
                         active[first + GridSize + 1]>>
    BY DEF CornersOf
  <1>. HIDE DEF first
  <1>. QED
    BY <1>5, <1>6 DEF Table

LEMMA CellAtTyped ==
  ASSUME NEW xum \in Int, NEW yum \in Int, scale \in Nat
  PROVE  CellAt(xum, yum) \in (0 .. GridSize - 2) \X (0 .. GridSize - 2)
  BY CountsIn, CellOfCount DEF CellAt

(* With a coherent cache, apply() uses the corners of the table in use. *)
LEMMA CornersFromTable ==
  ASSUME CacheCoherent, NEW c, c # NoCell
  PROVE  CornersFor(c) = CornersOf(c)
  BY DEF CornersFor, CacheCoherent

LEMMA NotNoCell ==
  ASSUME NEW c \in (0 .. GridSize - 2) \X (0 .. GridSize - 2)
  PROVE  c # NoCell
  BY DEF NoCell

(* What apply() makes of a coordinate follows the table in use, for every  *)
(* table, scale and grid.                                                  *)
LEMMA Follows ==
  ASSUME FieldTypeOK, CacheCoherent, NEW xum \in Int, NEW yum \in Int
  PROVE  FollowsTable(xum, yum)
  <1>. DEFINE count == <<Counts(xum), Counts(yum)>>
              c == CellAt(xum, yum)
              q == CornersOf(c)
              fx == count[1] - c[1] * Cell
              fy == count[2] - c[2] * Cell
              result == Applied(xum, yum)
  <1>1. scale \in Nat /\ active \in Table
    BY DEF FieldTypeOK
  <1>2. /\ Counts(xum) \in 0 .. Full - 1 /\ Counts(yum) \in 0 .. Full - 1
        /\ \A d \in 1 .. 2 : count[d] \in Int
    BY <1>1, CountsIn, FieldNonempty
  <1>3. /\ c = <<CellOf(Counts(xum)), CellOf(Counts(yum))>>
        /\ c \in (0 .. GridSize - 2) \X (0 .. GridSize - 2)
    BY <1>1, CellAtTyped DEF CellAt
  <1>4. fx \in 0 .. Cell - 1 /\ fy \in 0 .. Cell - 1
    BY <1>2, <1>3, CellOfCount
  <1>5. \A d \in 1 .. 2 : \A i \in 1 .. 4 : q[i][d] \in Int
    <2>1. q \in Point \X Point \X Point \X Point
      BY <1>1, <1>3, CornersTyped
    <2>. HIDE DEF q, c
    <2>. QED
      BY <2>1 DEF Point
  <1>6. CornersFor(c) = q
    BY <1>3, NotNoCell, CornersFromTable
  <1>7. CASE ~loaded
    BY <1>7 DEF FollowsTable, Applied
  <1>8. CASE loaded
    <2>1. result = <<Clamp(count[1] + LerpCell(q, 1, fx, fy)),
                     Clamp(count[2] + LerpCell(q, 2, fx, fy))>>
      BY <1>6, <1>8 DEF Applied
    <2>. DEFINE onGrid == \A d \in 1 .. 2 : count[d] = c[d] * Cell
                off(d) == LerpCell(q, d, fx, fy)
    <2>2. onGrid => fx = 0 /\ fy = 0
      BY <1>2, <1>3, FieldAssumption
    <2>3. ASSUME NEW d \in 1 .. 2
          PROVE  /\ onGrid => result[d] = Clamp(count[d] + q[1][d])
                 /\ \E i \in 1 .. 4 : Clamp(count[d] + q[i][d]) <= result[d]
                 /\ \E i \in 1 .. 4 : Clamp(count[d] + q[i][d]) >= result[d]
      <3>1. /\ result[d] = Clamp(count[d] + off(d))
            /\ count[d] \in Int
            /\ \A i \in 1 .. 4 : q[i][d] \in Int
        BY <1>2, <1>5, <2>1
      <3>. HIDE DEF q, count, result, c
      <3>2. PICK lo \in 1 .. 4, hi \in 1 .. 4 :
              \A j \in 1 .. 4 : q[lo][d] <= q[j][d] /\ q[j][d] <= q[hi][d]
        BY <3>1, LeastAndGreatest
      <3>3. q[lo][d] \in Int /\ q[hi][d] \in Int
        BY <3>1
      <3>4. fx \in 0 .. Cell - 1 /\ fy \in 0 .. Cell - 1
        BY <1>4
      <3>. HIDE DEF fx, fy
      <3>5. /\ off(d) \in Int
            /\ q[lo][d] <= off(d) /\ off(d) <= q[hi][d]
            /\ fx = 0 /\ fy = 0 => off(d) = q[1][d]
        BY <3>1, <3>2, <3>3, <3>4, LerpCellBetween
      <3>. HIDE DEF off
      <3>6. /\ Clamp(count[d] + q[lo][d]) <= Clamp(count[d] + off(d))
            /\ Clamp(count[d] + off(d)) <= Clamp(count[d] + q[hi][d])
        BY <3>1, <3>3, <3>5, ClampMonotone
      <3>7. /\ Clamp(count[d] + off(d)) \in Int
            /\ Clamp(count[d] + q[hi][d]) \in Int
        BY <3>1, <3>3, <3>5, ClampIn, FieldNonempty
      <3>. QED
        BY <2>2, <3>1, <3>5, <3>6, <3>7
    <2>. HIDE DEF q, result
    <2>. QED
      BY <1>8, <2>3 DEF FollowsTable, q, result
  <1>. QED
    BY <1>7, <1>8

-----------------------------------------------------------------------------
(* Type correctness.                                                       *)

(* What the host sends is a sequence of points. *)
LEMMA SentTyped == SentPoints \subseteq Seq(Point)
  <1>1. Zero \in Point
    BY DEF Zero, Point
  <1>2. ASSUME NEW t \in Tables, NEW i \in 0 .. LastChunk
        PROVE  ChunkOf(t, i) \in Seq(Point)
    <2>. DEFINE m == i * MaxPoints + 1
                n == IF (i + 1) * MaxPoints < GridPoints
                       THEN (i + 1) * MaxPoints ELSE GridPoints
    <2>1. GridPoints \in Nat
      BY FieldAssumption DEF GridPoints
    <2>2. i \in Nat
      BY <2>1, DivRounds, FieldAssumption DEF LastChunk
    <2>3. m \in Nat \ {0} /\ n \in Nat /\ n <= GridPoints
      BY <2>1, <2>2, FieldAssumption
    <2>4. ChunkOf(t, i) = SubSeq(Offset[t], m, n)
      BY DEF ChunkOf
    <2>. HIDE DEF m, n
    <2>5. \A j \in m .. n : Offset[t][j] \in Point
      BY <2>1, <2>3, FieldAssumption DEF Table
    <2>. QED
      BY <2>3, <2>4, <2>5, SubSeqProperties
  <1>3. [i \in 1 .. MaxPoints + 1 |-> Zero] \in Seq(Point)
    BY <1>1, FieldAssumption
  <1>4. <<>> \in Seq(Point)
    BY EmptySeq
  <1>. SUFFICES ASSUME NEW p \in SentPoints PROVE p \in Seq(Point)
    OBVIOUS
  <1>5. \/ \E t \in Tables, i \in 0 .. LastChunk : p = ChunkOf(t, i)
        \/ p = <<>> \/ p = [i \in 1 .. MaxPoints + 1 |-> Zero]
    BY DEF SentPoints
  <1>. QED
    BY <1>2, <1>3, <1>4, <1>5

LEMMA SameInterval ==
  ASSUME NEW m \in Nat, NEW n \in Nat, 1 .. m = 1 .. n
  PROVE  m = n
  <1>1. \A i \in Nat \ {0} : i <= m <=> i <= n
    OBVIOUS
  <1>2. m # 0 => m <= n
    BY <1>1
  <1>3. n # 0 => n <= m
    BY <1>1
  <1>. QED
    BY <1>2, <1>3

(* A staged table that is complete is a table. *)
LEMMA StagedTable ==
  ASSUME NEW s \in Seq(Point)
  PROVE  /\ Len(s) = GridPoints => s \in Table
         /\ s \in Table => Len(s) = GridPoints
  <1>1. /\ Len(s) \in Nat
        /\ s \in [1 .. Len(s) -> Point]
        /\ DOMAIN s = 1 .. Len(s)
    BY LenProperties
  <1>2. GridPoints \in Nat
    BY FieldAssumption DEF GridPoints
  <1>3. ASSUME s \in Table PROVE Len(s) = GridPoints
    <2>1. 1 .. Len(s) = 1 .. GridPoints
      BY <1>1, <1>3 DEF Table
    <2>. QED
      BY <1>1, <1>2, <2>1, SameInterval
  <1>. QED
    BY <1>1, <1>3 DEF Table

LEMMA HeaderTyped ==
  ASSUME NEW h \in Header
  PROVE  /\ h.table \in Tables /\ h.scale \in Nat
         /\ h.scale \in ScaleMin .. ScaleMax => h.scale = Scale[h.table]
  <1>1. PICK t \in Tables :
          \/ h = HeaderOf(t)
          \/ h = [HeaderOf(t) EXCEPT !.grid = 0]
          \/ h = [HeaderOf(t) EXCEPT !.scale = Placeholder]
    BY DEF Header
  <1>2. /\ h.table = t
        /\ h.scale = Scale[t] \/ h.scale = Placeholder
    BY <1>1 DEF HeaderOf
  <1>3. /\ Scale[t] \in Nat /\ Placeholder \in Nat
        /\ Placeholder \notin ScaleMin .. ScaleMax
    BY FieldAssumption
  <1>. QED
    BY <1>2, <1>3

LEMMA InitTyped ==
  ASSUME Init
  PROVE  TypeOK
  <1>1. Zero \in Point
    BY DEF Zero, Point
  <1>2. <<>> \in Seq(Point) /\ Len(<<>>) = 0
    BY EmptySeq
  <1>3. GridPoints \in Nat
    BY FieldAssumption DEF GridPoints
  <1>4. FieldTypeOK
    <2>1. /\ active \in Table
          /\ corners \in Point \X Point \X Point \X Point
      BY <1>1 DEF Init, FieldInit, Table
    <2>2. stage \in Seq(Point) /\ Len(stage) = 0 /\ expect = 0
      BY <1>2 DEF Init, FieldInit
    <2>3. Len(stage) <= GridPoints /\ expect \in 0 .. Len(stage)
      BY <1>3, <2>2
    <2>. QED
      BY <2>1, <2>2, <2>3, FieldAssumption DEF Init, FieldInit, FieldTypeOK
  <1>5. lines \subseteq Lines
    BY DEF Init
  <1>. QED
    BY <1>2, <1>4, <1>5 DEF Init, TypeOK, NoTransfer

LEMMA UploadBeginTyped ==
  ASSUME FieldTypeOK, NEW h \in Header, UploadBegin(h)
  PROVE  FieldTypeOK'
  <1>1. <<>> \in Seq(Point) /\ Len(<<>>) = 0
    BY EmptySeq
  <1>2. GridPoints \in Nat
    BY FieldAssumption DEF GridPoints
  <1>3. CASE UNCHANGED upload
    BY <1>3 DEF FieldTypeOK, UploadBegin, inUse, cache, upload
  <1>4. CASE /\ uploading' = TRUE /\ expect' = 0 /\ stage' = <<>>
             /\ want' = h.table /\ wantScale' = h.scale
    <2>1. stage' \in Seq(Point) /\ Len(stage') = 0
      BY <1>1, <1>4
    <2>2. Len(stage') <= GridPoints /\ expect' \in 0 .. Len(stage')
      BY <1>2, <1>4, <2>1
    <2>. QED
      BY <1>4, <2>1, <2>2, HeaderTyped
      DEF FieldTypeOK, UploadBegin, inUse, cache
  <1>. QED
    BY <1>3, <1>4 DEF UploadBegin

LEMMA UploadDataTyped ==
  ASSUME FieldTypeOK, NEW index, NEW points \in Seq(Point), NEW short,
         UploadData(index, points, short)
  PROVE  FieldTypeOK'
  <1>1. /\ stage \o points \in Seq(Point)
        /\ Len(stage \o points) = Len(stage) + Len(points)
    BY ConcatProperties DEF FieldTypeOK
  <1>2. Len(points) \in Nat /\ Len(stage) \in Nat /\ GridPoints \in Nat
    BY LenProperties, FieldAssumption DEF FieldTypeOK, GridPoints
  <1>3. /\ stage' \in Seq(Point) /\ Len(stage') <= GridPoints
        /\ expect' \in 0 .. Len(stage')
        /\ uploading' \in BOOLEAN /\ ack' \in {"OK", "REFUSED"}
    <2>1. CASE /\ uploading /\ Acceptable(index, points, short)
               /\ ack' = "OK" /\ stage' = stage \o points
               /\ expect' = expect + 1 /\ UNCHANGED uploading
      BY <1>1, <1>2, <2>1, FieldAssumption DEF FieldTypeOK, Acceptable
    <2>2. CASE /\ ack' = "REFUSED" /\ uploading' = FALSE
               /\ UNCHANGED <<stage, expect>>
      BY <2>2 DEF FieldTypeOK
    <2>. QED
      BY <2>1, <2>2 DEF UploadData
  <1>4. UNCHANGED <<inUse, cache, want, wantScale>>
    BY DEF UploadData
  <1>. QED
    BY <1>3, <1>4 DEF FieldTypeOK, inUse, cache

LEMMA UploadEndTyped ==
  ASSUME FieldTypeOK, UploadEnd
  PROVE  FieldTypeOK'
  <1>1. Verified => stage \in Table
    BY StagedTable DEF FieldTypeOK, Verified
  <1>. QED
    BY <1>1 DEF FieldTypeOK, UploadEnd, inUse

LEMMA FieldMapTyped ==
  ASSUME FieldTypeOK, NEW xum \in Int, NEW yum \in Int, FieldMap(xum, yum)
  PROVE  FieldTypeOK'
  <1>. DEFINE c == CellAt(xum, yum)
  <1>1. c \in (0 .. GridSize - 2) \X (0 .. GridSize - 2)
    BY CellAtTyped DEF FieldTypeOK
  <1>2. CornersFor(c) \in Point \X Point \X Point \X Point
    BY <1>1, CornersTyped DEF FieldTypeOK, CornersFor
  <1>3. UNCHANGED <<loaded, active, scale, uploading, expect, stage, want,
                    wantScale, ack>>
    BY DEF FieldMap, inUse, upload
  <1>4. \/ cell' = c /\ corners' = CornersFor(c)
        \/ UNCHANGED <<cell, corners>>
    BY DEF FieldMap, cache
  <1>. HIDE DEF c
  <1>. QED
    BY <1>1, <1>2, <1>3, <1>4 DEF FieldTypeOK

(* The packets and the lines that touch the correction, and the rest. *)
LEMMA StepTyped ==
  ASSUME TypeOK, [Next]_vars
  PROVE  TypeOK'
  <1>. USE DEF TypeOK
  <1>1. CASE Estop
    BY <1>1, NodeAssumption DEF Estop, inUse, upload, cache, FieldTypeOK
  <1>2. ASSUME NEW h \in Header, FieldBegin(h)
        PROVE  TypeOK'
    <2>1. FieldTypeOK'
      BY <1>2, UploadBeginTyped
      DEF FieldBegin, Refused, FieldTypeOK, inUse, upload, cache
    <2>2. <<>> \in Seq(Point) /\ h.table \in Tables
      BY EmptySeq, HeaderTyped
    <2>. QED
      BY <1>2, <2>1, <2>2 DEF FieldBegin, galvo
  <1>3. ASSUME NEW index \in 0 .. LastChunk, NEW points \in SentPoints,
               NEW short \in BOOLEAN, FieldData(index, points, short)
        PROVE  TypeOK'
    <2>1. points \in Seq(Point)
      BY SentTyped
    <2>2. FieldTypeOK'
      BY <1>3, <2>1, UploadDataTyped
      DEF FieldData, Refused, FieldTypeOK, inUse, upload, cache
    <2>3. told.points \o points \in Seq(Point)
      BY <2>1, ConcatProperties
    <2>. QED
      BY <1>3, <2>2, <2>3 DEF FieldData, galvo
  <1>4. CASE FieldEnd
    <2>1. FieldTypeOK'
      BY <1>4, UploadEndTyped
      DEF FieldEnd, Refused, FieldTypeOK, inUse, upload, cache
    <2>. QED
      BY <1>4, <2>1, EmptySeq DEF FieldEnd, galvo, NoTransfer
  <1>5. CASE OtherPacket
    BY <1>5 DEF OtherPacket, Refused, FieldTypeOK, inUse, upload, cache, galvo
  <1>6. CASE Console
    BY <1>6 DEF Console, LaserLine, MoveBeam, Testxy, galvo, FieldTypeOK,
                fieldVars, inUse, upload, cache
  <1>7. ASSUME NEW at \in Mapped, ConsoleMap(at[1], at[2])
        PROVE  TypeOK'
    <2>1. at[1] \in Int /\ at[2] \in Int
      BY NodeAssumption
    <2>2. FieldTypeOK'
      BY <1>7, <2>1, FieldMapTyped DEF ConsoleMap
    <2>. QED
      BY <1>7, <2>2 DEF ConsoleMap, galvo
  <1>8. CASE TestxyTick
    BY <1>8 DEF TestxyTick, FieldTypeOK, fieldVars, inUse, upload, cache
  <1>9. CASE UNCHANGED vars
    BY <1>9 DEF vars, galvo, FieldTypeOK, fieldVars, inUse, upload, cache
  <1>. QED
    BY <1>1, <1>2, <1>3, <1>4, <1>5, <1>6, <1>7, <1>8, <1>9 DEF Next

(* Every variable keeps its type, for every table, grid and bed. *)
THEOREM TeensyNodeTyped == Spec => []TypeOK
  BY InitTyped, StepTyped, PTL DEF Spec

-----------------------------------------------------------------------------
(* The table in use, the cache and the transfer under way.                 *)

(* A transfer under way is of a table of the host's, with its own scale;   *)
(* short of an emergency stop, the sender knows exactly what has arrived.  *)
TransferKnown ==
  /\ uploading => want \in Tables /\ wantScale = Scale[want]
  /\ ~estop =>
       /\ uploading <=> told.open
       /\ uploading => stage = told.points /\ want = told.table

Inv == TypeOK /\ CacheCoherent /\ TransferKnown

LEMMA InitInv ==
  ASSUME Init
  PROVE  Inv
  BY InitTyped DEF Init, FieldInit, Inv, CacheCoherent, TransferKnown, NoTransfer

LEMMA CacheStep ==
  ASSUME TypeOK, CacheCoherent, [Next]_vars
  PROVE  CacheCoherent'
  <1>1. ASSUME UNCHANGED <<inUse, cache>> PROVE CacheCoherent'
    BY <1>1 DEF CacheCoherent, CornersOf, inUse, cache
  <1>2. ASSUME NEW h \in Header, FieldBegin(h) PROVE CacheCoherent'
    BY <1>1, <1>2 DEF FieldBegin, Refused, UploadBegin
  <1>3. ASSUME NEW index, NEW points, NEW short, FieldData(index, points, short)
        PROVE  CacheCoherent'
    BY <1>1, <1>3 DEF FieldData, Refused, UploadData
  <1>4. CASE FieldEnd
    <2>1. CASE cell' = NoCell
      BY <2>1 DEF CacheCoherent
    <2>2. CASE UNCHANGED <<inUse, cache>>
      BY <1>1, <2>2
    <2>. QED
      BY <1>4, <2>1, <2>2 DEF FieldEnd, Refused, UploadEnd, cache
  <1>5. ASSUME NEW at \in Mapped, ConsoleMap(at[1], at[2])
        PROVE  CacheCoherent'
    <2>. DEFINE c == CellAt(at[1], at[2])
    <2>1. c # NoCell
      BY NodeAssumption, CellAtTyped, NotNoCell DEF TypeOK, FieldTypeOK
    <2>2. CornersFor(c) = CornersOf(c)
      BY <2>1, CornersFromTable
    <2>3. /\ UNCHANGED inUse
          /\ \/ loaded /\ cell' = c /\ corners' = CornersFor(c)
             \/ UNCHANGED cache
      BY <1>5 DEF ConsoleMap, FieldMap
    <2>. HIDE DEF c
    <2>4. CASE loaded /\ cell' = c /\ corners' = CornersFor(c)
      BY <2>2, <2>3, <2>4 DEF CacheCoherent, CornersOf, inUse
    <2>. QED
      BY <1>1, <2>3, <2>4
  <1>. QED
    BY <1>1, <1>2, <1>3, <1>4, <1>5
    DEF Next, Estop, OtherPacket, Refused, Console, TestxyTick, fieldVars, vars

LEMMA TransferStep ==
  ASSUME TypeOK, TransferKnown, [Next]_vars
  PROVE  TransferKnown'
  <1>1. ASSUME UNCHANGED <<upload, told>>, estop => estop' PROVE TransferKnown'
    BY <1>1 DEF TransferKnown, upload
  <1>2. ASSUME NEW h \in Header, FieldBegin(h) PROVE TransferKnown'
    BY <1>2, HeaderTyped
    DEF TransferKnown, FieldBegin, Refused, UploadBegin, upload
  <1>3. ASSUME NEW index, NEW points, NEW short, FieldData(index, points, short)
        PROVE  TransferKnown'
    <2>1. told \in [open : BOOLEAN, table : Tables \union {NoTable},
                    points : Seq(Point)]
      BY DEF TypeOK
    <2>2. CASE estop
      BY <1>3, <2>2 DEF TransferKnown, FieldData, Refused, upload
    <2>3. CASE ~estop /\ uploading /\ Acceptable(index, points, short)
      BY <1>3, <2>1, <2>3 DEF TransferKnown, FieldData, UploadData
    <2>4. CASE ~estop /\ ~(uploading /\ Acceptable(index, points, short))
      BY <1>3, <2>1, <2>4 DEF TransferKnown, FieldData, UploadData
    <2>. QED
      BY <2>2, <2>3, <2>4
  <1>4. CASE FieldEnd
    BY <1>4 DEF TransferKnown, FieldEnd, Refused, UploadEnd, upload, NoTransfer
  <1>5. CASE Estop \/ OtherPacket \/ Console \/ TestxyTick \/ UNCHANGED vars
    BY <1>1, <1>5
    DEF Estop, OtherPacket, Refused, Console, TestxyTick, fieldVars, vars
  <1>6. ASSUME NEW at \in Mapped, ConsoleMap(at[1], at[2])
        PROVE  TransferKnown'
    BY <1>1, <1>6 DEF ConsoleMap, FieldMap
  <1>. QED
    BY <1>2, <1>3, <1>4, <1>5, <1>6 DEF Next

LEMMA Invariance == Spec => []Inv
  <1>1. Inv /\ [Next]_vars => Inv'
    BY StepTyped, CacheStep, TransferStep DEF Inv
  <1>. QED
    BY <1>1, InitInv, PTL DEF Spec

(* Every point follows the table in use, whatever is cached, for every     *)
(* grid, scale and table.                                                  *)
THEOREM MapAlwaysFollowsTable == Spec => []MapFollowsTable
  <1>1. Inv => MapFollowsTable
    <2>. SUFFICES ASSUME Inv, NEW at \in Mapped
                  PROVE  FollowsTable(at[1], at[2])
      BY DEF MapFollowsTable
    <2>1. at[1] \in Int /\ at[2] \in Int
      BY NodeAssumption
    <2>. QED
      BY <2>1, Follows DEF Inv, TypeOK
  <1>. QED
    BY <1>1, Invariance, PTL

(* The final answer of a transfer is honest, and OK only of a whole table  *)
(* that is then in use.                                                    *)
THEOREM EndAlwaysHonest == Spec => EndIsHonest
  <1>1. ASSUME Inv, FieldEnd, ~estop
        PROVE  /\ ack' = "OK" <=> told.open /\ told.points = Offset[told.table]
               /\ ack' = "OK" => loaded' /\ active' = Offset[told.table]
    <2>1. UploadEnd
      BY <1>1 DEF FieldEnd
    <2>2. /\ uploading <=> told.open
          /\ uploading => stage = told.points /\ want = told.table
          /\ uploading => want \in Tables
      BY <1>1 DEF Inv, TransferKnown
    <2>3. uploading /\ stage = Offset[want] => Len(stage) = GridPoints
      BY <1>1, <2>2, StagedTable, FieldAssumption DEF Inv, TypeOK, FieldTypeOK
    <2>4. Verified <=> Len(stage) = GridPoints /\ stage = Offset[want]
      BY DEF Verified
    <2>5. CASE uploading /\ Verified
      BY <2>1, <2>2, <2>4, <2>5 DEF UploadEnd
    <2>6. CASE ~(uploading /\ Verified)
      BY <2>1, <2>2, <2>3, <2>4, <2>6 DEF UploadEnd
    <2>. QED
      BY <2>5, <2>6
  <1>2. Inv /\ [Next]_vars =>
          [FieldEnd /\ ~estop =>
             /\ ack' = "OK" <=> told.open /\ told.points = Offset[told.table]
             /\ ack' = "OK" => loaded' /\ active' = Offset[told.table]]_vars
    BY <1>1
  <1>. QED
    BY <1>2, Invariance, PTL DEF Spec, EndIsHonest

LEMMA SlotStep ==
  ASSUME Inv, [Next]_vars
  PROVE  [Slot!Next]_InUse
  <1>1. ASSUME UNCHANGED inUse PROVE InUse' = InUse
    BY <1>1 DEF InUse, inUse
  <1>2. ASSUME NEW h \in Header, FieldBegin(h) PROVE UNCHANGED inUse
    BY <1>2 DEF FieldBegin, Refused, UploadBegin
  <1>3. ASSUME NEW index, NEW points, NEW short, FieldData(index, points, short)
        PROVE  UNCHANGED inUse
    BY <1>3 DEF FieldData, Refused, UploadData
  <1>4. CASE FieldEnd
    <2>1. CASE UNCHANGED inUse
      BY <1>1, <2>1
    <2>2. CASE /\ uploading /\ Verified
               /\ active' = stage /\ scale' = wantScale /\ loaded' = TRUE
      <3>1. /\ want \in Tables
            /\ active' = Offset[want] /\ scale' = Scale[want] /\ loaded'
        BY <2>2 DEF Inv, TransferKnown, Verified
      <3>2. InUse' \in Tables
        BY <3>1 DEF InUse
      <3>. QED
        BY <3>2 DEF Slot!Next, Slot!Replace
    <2>. QED
      BY <1>4, <2>1, <2>2 DEF FieldEnd, Refused, UploadEnd
  <1>5. ASSUME NEW at \in Mapped, ConsoleMap(at[1], at[2])
        PROVE  UNCHANGED inUse
    BY <1>5 DEF ConsoleMap, FieldMap
  <1>. QED
    BY <1>1, <1>2, <1>3, <1>4, <1>5
    DEF Next, Estop, OtherPacket, Refused, Console, TestxyTick, fieldVars, vars

(* The table in use implements the slot: it is only ever replaced, in one  *)
(* step, by another whole one with its own scale.                          *)
THEOREM FieldImplementsSlot == Spec => TableSlotSpec
  <1>1. Init => Slot!Init
    BY DEF Init, FieldInit, Slot!Init, InUse
  <1>2. Inv /\ [Next]_vars => [Slot!Next]_InUse
    BY SlotStep
  <1>. QED
    BY <1>1, <1>2, Invariance, PTL DEF Spec, TableSlotSpec, Slot!Spec
=============================================================================
