-------------------------- MODULE FieldCorrection --------------------------
(***************************************************************************)
(* The field correction of the Teensy                                      *)
(* (src/src/teensy-galvo/field_correction.cpp): a grid of offsets uploaded *)
(* in chunks to a staging table, committed whole, and interpolated between *)
(* the four corners of a cell that are kept in a cache.                    *)
(*                                                                         *)
(* A table stands for its CRC, which never matches by chance.  ack is the  *)
(* answer to the last packet: REFUSED stands for every status but ACK_OK.  *)
(* The actions say nothing of the sender, which TeensyNode adds.           *)
(***************************************************************************)
EXTENDS Integers, Sequences

CONSTANTS
  GridSize,      \* kGridSize: grid lines each way
  Cell,          \* kCellCounts: counts from one line to the next
  Tables,        \* the correction tables a host may upload
  Offset,        \* Offset[t]: its points, row by row, each a pair dx, dy
  Scale,         \* Scale[t]: its scale, in counts per Unit
  ScaleMin, ScaleMax, \* FIELD_SCALE_MIN_MCPMM, FIELD_SCALE_MAX_MCPMM
  Placeholder,   \* a scale outside the band
  DefaultScale,  \* kCountsPerMm
  Unit,          \* the million that divides a coordinate times a scale
  MaxPoints,     \* FIELD_CORR_MAX_POINTS
  NoTable        \* no table

GridPoints == GridSize * GridSize
Point == Int \X Int
Table == [1 .. GridPoints -> Point]

ASSUME FieldAssumption ==
  /\ GridSize \in Nat /\ GridSize >= 2
  /\ Cell \in Nat \ {0}
  /\ Offset \in [Tables -> Table]
  /\ ScaleMin \in Nat /\ ScaleMax \in Nat
  /\ Scale \in [Tables -> ScaleMin .. ScaleMax]
  /\ Placeholder \in Nat \ (ScaleMin .. ScaleMax)
  /\ DefaultScale \in Nat
  /\ Unit \in Nat \ {0}
  /\ MaxPoints \in Nat \ {0}
  /\ NoTable \notin Tables

VARIABLES
  loaded, active, scale,  \* g_loaded, g_active_dx and _dy, g_scale_mcpmm
  uploading, expect,      \* g_uploading, g_expect_chunk
  stage,                  \* g_stage_dx and _dy, up to g_points_in
  want, wantScale,        \* g_want_crc as the table it belongs to, g_want_scale
  cell, corners,          \* the cell cache: g_cx and g_cy, and the four corners
  ack                     \* the answer to the last packet

inUse == <<loaded, active, scale>>
upload == <<uploading, expect, stage, want, wantScale>>
cache == <<cell, corners>>
fieldVars == <<inUse, upload, cache, ack>>

NoCell == <<-1, -1>>
Zero == <<0, 0>>

(* What a host may announce: a table with its scale, or with another grid, *)
(* or with the placeholder for a scale.                                    *)
HeaderOf(t) == [grid |-> GridSize, table |-> t, scale |-> Scale[t]]

Header ==
  {HeaderOf(t) : t \in Tables}
    \union {[HeaderOf(t) EXCEPT !.grid = 0] : t \in Tables}
    \union {[HeaderOf(t) EXCEPT !.scale = Placeholder] : t \in Tables}

FieldInit ==
  /\ loaded = FALSE
  /\ active = [i \in 1 .. GridPoints |-> Zero]
  /\ scale = DefaultScale
  /\ uploading = FALSE
  /\ expect = 0
  /\ stage = <<>>
  /\ want = NoTable
  /\ wantScale = 0
  /\ cell = NoCell
  /\ corners = <<Zero, Zero, Zero, Zero>>
  /\ ack = "none"

-----------------------------------------------------------------------------
(* The upload.                                                             *)

(* Faulty variant: the header's scale is taken down before it is checked.  *)
UploadBeginScaleFirst(h) ==
  /\ wantScale' = h.scale
  /\ \/ /\ h.grid # GridSize \/ h.scale \notin ScaleMin .. ScaleMax
        /\ ack' = "REFUSED"
        /\ UNCHANGED <<uploading, expect, stage, want>>
     \/ /\ h.grid = GridSize /\ h.scale \in ScaleMin .. ScaleMax
        /\ ack' = "OK"
        /\ uploading' = TRUE
        /\ expect' = 0
        /\ stage' = <<>>
        /\ want' = h.table
  /\ UNCHANGED <<inUse, cache>>

(* upload_begin(): a refused header leaves a transfer under way as it is. *)
UploadBegin(h) ==
  /\ \/ /\ h.grid # GridSize \/ h.scale \notin ScaleMin .. ScaleMax
        /\ ack' = "REFUSED"
        /\ UNCHANGED upload
     \/ /\ h.grid = GridSize /\ h.scale \in ScaleMin .. ScaleMax
        /\ ack' = "OK"
        /\ uploading' = TRUE
        /\ expect' = 0
        /\ stage' = <<>>
        /\ want' = h.table
        /\ wantScale' = h.scale
  /\ UNCHANGED <<inUse, cache>>

(* Faulty variant: the room left in the table is not looked at. *)
AcceptableAnyTotal(index, points, short) ==
  /\ index = expect
  /\ Len(points) \in 1 .. MaxPoints
  /\ ~short

(* In order, neither empty nor too long, not cut short and within the grid. *)
Acceptable(index, points, short) ==
  /\ index = expect
  /\ Len(points) \in 1 .. MaxPoints
  /\ ~short
  /\ Len(stage) + Len(points) <= GridPoints

(* Faulty variant: a refused chunk leaves the transfer open. *)
UploadDataStaysOpen(index, points, short) ==
  /\ IF uploading /\ Acceptable(index, points, short)
       THEN /\ ack' = "OK"
            /\ stage' = stage \o points
            /\ expect' = expect + 1
       ELSE /\ ack' = "REFUSED"
            /\ UNCHANGED <<stage, expect>>
  /\ UNCHANGED <<inUse, cache, uploading, want, wantScale>>

(* upload_data(): any rejection ends the transfer. *)
UploadData(index, points, short) ==
  /\ \/ /\ uploading /\ Acceptable(index, points, short)
        /\ ack' = "OK"
        /\ stage' = stage \o points
        /\ expect' = expect + 1
        /\ UNCHANGED uploading
     \/ /\ ~uploading \/ ~Acceptable(index, points, short)
        /\ ack' = "REFUSED"
        /\ uploading' = FALSE
        /\ UNCHANGED <<stage, expect>>
  /\ UNCHANGED <<inUse, cache, want, wantScale>>

(* The count, and then the CRC over what has arrived. *)
Verified == Len(stage) = GridPoints /\ stage = Offset[want]

(* Faulty variant: the cache outlives the table it was read from. *)
UploadEndKeepsCache ==
  /\ uploading' = FALSE
  /\ \/ /\ uploading /\ Verified
        /\ ack' = "OK"
        /\ active' = stage
        /\ scale' = wantScale
        /\ loaded' = TRUE
     \/ /\ ~uploading \/ ~Verified
        /\ ack' = "REFUSED"
        /\ UNCHANGED inUse
  /\ UNCHANGED <<cache, expect, stage, want, wantScale>>

(* upload_end(): "only now does anything change". *)
UploadEnd ==
  /\ uploading' = FALSE
  /\ \/ /\ uploading /\ Verified
        /\ ack' = "OK"
        /\ active' = stage
        /\ scale' = wantScale
        /\ loaded' = TRUE
        /\ cell' = NoCell     \* invalidateCache()
     \/ /\ ~uploading \/ ~Verified
        /\ ack' = "REFUSED"
        /\ UNCHANGED <<inUse, cell>>
  /\ UNCHANGED <<corners, expect, stage, want, wantScale>>

-----------------------------------------------------------------------------
(* apply(): a coordinate of the bed to counts.                             *)

Full == (GridSize - 1) * Cell
Mid == Full \div 2

Clamp(v) == IF v < 0 THEN 0 ELSE IF v >= Full THEN Full - 1 ELSE v

(* Division of the source language, which truncates. *)
Quotient(v, d) == IF v >= 0 THEN v \div d ELSE -((-v) \div d)

Counts(um) == Clamp(Mid + Quotient(um * scale, Unit))

(* The cell of a count: the last grid line has none beyond it. *)
CellOf(count) ==
  IF count \div Cell >= GridSize - 1 THEN GridSize - 2 ELSE count \div Cell

(* loadCell(). *)
CornersOf(c) ==
  LET first == c[2] * GridSize + c[1] + 1
  IN  <<active[first], active[first + 1],
        active[first + GridSize], active[first + GridSize + 1]>>

CellAt(xum, yum) == <<CellOf(Counts(xum)), CellOf(Counts(yum))>>

(* The corners of cell c that apply() uses, and leaves in the cache. *)
CornersFor(c) == IF c = cell THEN corners ELSE CornersOf(c)

Lerp(from, to, f) == from + (((to - from) * f) \div Cell)

(* lerpCell() of dx (d = 1) or dy (d = 2) at fx, fy counts into a cell. *)
LerpCell(q, d, fx, fy) ==
  Lerp(Lerp(q[1][d], q[2][d], fx), Lerp(q[3][d], q[4][d], fx), fy)

Applied(xum, yum) ==
  LET count == <<Counts(xum), Counts(yum)>>
      c == CellAt(xum, yum)
      q == CornersFor(c)
      offset(d) == LerpCell(q, d, count[1] - c[1] * Cell, count[2] - c[2] * Cell)
  IN  IF loaded THEN <<Clamp(count[1] + offset(1)), Clamp(count[2] + offset(2))>>
                ELSE count

(* cmd_map(): what apply() leaves behind. *)
FieldMap(xum, yum) ==
  /\ IF loaded
       THEN /\ cell' = CellAt(xum, yum)
            /\ corners' = CornersFor(CellAt(xum, yum))
       ELSE UNCHANGED cache
  /\ UNCHANGED <<inUse, upload, ack>>

-----------------------------------------------------------------------------
(* Properties of the component.                                            *)

(* The type of every variable. *)
FieldTypeOK ==
  /\ loaded \in BOOLEAN
  /\ active \in Table
  /\ scale \in Nat
  /\ uploading \in BOOLEAN
  /\ stage \in Seq(Point)
  /\ Len(stage) <= GridPoints
  /\ expect \in 0 .. Len(stage)
  /\ want \in Tables \union {NoTable}
  /\ wantScale \in Nat
  /\ cell \in {NoCell} \union ((0 .. GridSize - 2) \X (0 .. GridSize - 2))
  /\ corners \in Point \X Point \X Point \X Point
  /\ ack \in {"none", "OK", "REFUSED"}

(* The table in use: none, or one of the host's, whole and with its scale; *)
(* anything else stands for itself.                                        *)
InUse ==
  IF ~loaded THEN NoTable
  ELSE IF \E t \in Tables : active = Offset[t] /\ scale = Scale[t]
         THEN CHOOSE t \in Tables : active = Offset[t] /\ scale = Scale[t]
         ELSE <<active, scale>>

(* The cached corners are those of the table in use: none outlives the     *)
(* table it was read from.                                                 *)
CacheCoherent == cell # NoCell => loaded /\ corners = CornersOf(cell)

(* What apply() would make of a coordinate, whatever was mapped and        *)
(* uploaded before it: on a grid point exactly the table's offset, inside  *)
(* a cell an offset between the least and the greatest of its corners.     *)
FollowsTable(xum, yum) ==
  LET count == <<Counts(xum), Counts(yum)>>
      c == CellAt(xum, yum)
      q == CornersOf(c)
      onGrid == \A d \in 1 .. 2 : count[d] = c[d] * Cell
      result == Applied(xum, yum)
  IN  IF ~loaded THEN result = count
      ELSE \A d \in 1 .. 2 :
             /\ onGrid => result[d] = Clamp(count[d] + q[1][d])
             /\ \E i \in 1 .. 4 : Clamp(count[d] + q[i][d]) <= result[d]
             /\ \E i \in 1 .. 4 : Clamp(count[d] + q[i][d]) >= result[d]
=============================================================================
