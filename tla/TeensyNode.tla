---------------------------- MODULE TeensyNode ----------------------------
(***************************************************************************)
(* The Teensy as its host and a human at its console see it                *)
(* (src/src/teensy-galvo/node.cpp): packets are served or refused, the     *)
(* emergency stop latches, and the console drives the same laser lines and *)
(* the same beam by hand.  The loop serves one packet or one line at a     *)
(* time, and then the timed corner test.                                   *)
(*                                                                         *)
(* SharedPort shows how a packet gets here, GalvoEngine how the beam is    *)
(* moved, and JobStore what becomes of the job packets.  Everything here   *)
(* is gone at a reset, which is a behaviour of its own.                    *)
(***************************************************************************)
EXTENDS FieldCorrection

CONSTANTS
  Lines,   \* bound: the outputs of laser_io that are modelled
  Mapped   \* bound: the points of the bed that are mapped

ASSUME NodeAssumption ==
  /\ "ESTOP" \in Lines
  /\ Mapped \subseteq Int \X Int

VARIABLES
  estop,      \* estop_latched; machine_state is STATE_ESTOP with it
  lines,      \* the laser lines, and the interlock relay, that are driven
  beam,       \* the engine was last told to go somewhere or to stop, or was
              \* told nothing since the stop that latched froze the beam
  testxy,     \* g_testxy_state
  told        \* observation: what the answers tell the sender of a table

galvo == <<beam, testxy>>
vars == <<fieldVars, estop, lines, galvo, told>>

(* The transfer as its sender knows it: its table, whether any answer was  *)
(* a refusal, and the points whose receipt was answered with ACK_OK.       *)
NoTransfer == [open |-> FALSE, table |-> NoTable, points |-> <<>>]

Init ==
  /\ FieldInit
  /\ estop = FALSE
  /\ lines = {}    \* laser_io::init_safe()
  /\ beam = "driven" /\ testxy = "IDLE"
  /\ told = NoTransfer

-----------------------------------------------------------------------------
(* onPacket().                                                             *)

(* enterEstop(), the beam through xy2::stop_at_current(). *)
Estop ==
  /\ estop' = TRUE
  /\ lines' = {"ESTOP"}
  /\ beam' = IF estop /\ beam # "frozen" THEN "stopped" ELSE "frozen"
  /\ ack' = "OK"
  /\ UNCHANGED <<inUse, upload, cache, testxy, told>>

(* Once latched, every packet that is more than a question. *)
Refused ==
  /\ ack' = "REFUSED"
  /\ UNCHANGED <<inUse, upload, cache>>

FieldBegin(h) ==
  /\ IF estop THEN Refused ELSE UploadBegin(h)
  /\ told' = IF ack' = "OK"
               THEN [open |-> TRUE, table |-> h.table, points |-> <<>>]
               ELSE told
  /\ UNCHANGED <<estop, lines, galvo>>

FieldData(index, points, short) ==
  /\ IF estop THEN Refused ELSE UploadData(index, points, short)
  /\ told' = IF ack' = "OK" THEN [told EXCEPT !.points = @ \o points]
                            ELSE [told EXCEPT !.open = FALSE]
  /\ UNCHANGED <<estop, lines, galvo>>

FieldEnd ==
  /\ IF estop THEN Refused ELSE UploadEnd
  /\ told' = NoTransfer
  /\ UNCHANGED <<estop, lines, galvo>>

(* A packet that asks for the lines, the beam or the settings, is too      *)
(* short for its message, or is not known.                                 *)
OtherPacket ==
  /\ Refused
  /\ UNCHANGED <<estop, lines, galvo, told>>

-----------------------------------------------------------------------------
(* The console: the lines that drive something (console.cpp handle_line(), *)
(* laser_io::cmd(), cmd_interlock(), and the galvo engine's).  None looks  *)
(* at the emergency stop.                                                  *)

LaserLine(l) ==
  /\ lines' \in {lines \union {l}, lines \ {l}}
  /\ UNCHANGED galvo

(* "xy", "center", a pattern, "stop". *)
MoveBeam ==
  /\ beam' \in {"driven", "stopped"}
  /\ UNCHANGED <<lines, testxy>>

Testxy ==
  /\ testxy = "IDLE"
  /\ testxy' = "CENTER"
  /\ beam' = "driven"
  /\ UNCHANGED lines

Console ==
  /\ (\E l \in Lines : LaserLine(l)) \/ MoveBeam \/ Testxy
  /\ UNCHANGED <<fieldVars, estop, told>>

(* "field map". *)
ConsoleMap(xum, yum) ==
  /\ FieldMap(xum, yum)
  /\ UNCHANGED <<estop, lines, galvo, told>>

(* testxy_tick(), when a hold is over. *)
TestxyTick ==
  /\ \/ /\ testxy = "CENTER"
        /\ testxy' = "CORNER"
        /\ beam' = "driven"
     \/ /\ testxy = "CORNER"
        /\ testxy' = "IDLE"
        /\ beam' = "driven"
  /\ UNCHANGED <<fieldVars, estop, lines, told>>

-----------------------------------------------------------------------------
(* Chunk number i of table t, counted from 0, as the host cuts it. *)
ChunkOf(t, i) ==
  SubSeq(Offset[t], i * MaxPoints + 1,
         IF (i + 1) * MaxPoints < GridPoints THEN (i + 1) * MaxPoints
                                             ELSE GridPoints)

LastChunk == (GridPoints - 1) \div MaxPoints

(* The points of any chunk, none at all, and more than a packet holds. *)
SentPoints ==
  {ChunkOf(t, i) : t \in Tables, i \in 0 .. LastChunk}
    \union {<<>>, [i \in 1 .. MaxPoints + 1 |-> Zero]}

Next ==
  \/ Estop
  \/ \E h \in Header : FieldBegin(h)
  \/ \E index \in 0 .. LastChunk, points \in SentPoints, short \in BOOLEAN :
       FieldData(index, points, short)
  \/ FieldEnd
  \/ OtherPacket
  \/ Console
  \/ \E at \in Mapped : ConsoleMap(at[1], at[2])
  \/ TestxyTick

Spec == Init /\ [][Next]_vars

-----------------------------------------------------------------------------
(* Properties.                                                             *)

(* The type of every variable. *)
TypeOK ==
  /\ FieldTypeOK
  /\ estop \in BOOLEAN
  /\ lines \subseteq Lines
  /\ beam \in {"driven", "stopped", "frozen"}
  /\ testxy \in {"IDLE", "CENTER", "CORNER"}
  /\ told \in [open : BOOLEAN, table : Tables \union {NoTable},
               points : Seq(Point)]

(* "Nothing is applied until the whole table has arrived and its CRC       *)
(* checks out" (field_correction.h): the table in use is replaced, if at   *)
(* all, by another whole one and its own scale, in one step.               *)
Slot == INSTANCE TableSlot WITH slot <- InUse

TableSlotSpec == Slot!Spec

(* Every point follows the table in use, whatever the cache holds. *)
MapFollowsTable ==
  \A at \in Mapped : FollowsTable(at[1], at[2])

(* A transfer is answered ACK_OK at its end if and only if every chunk of  *)
(* it was, and these are the whole of the table announced, in order; that  *)
(* table is then in use.                                                   *)
EndIsHonest ==
  [][FieldEnd /\ ~estop =>
       /\ ack' = "OK" <=> told.open /\ told.points = Offset[told.table]
       /\ ack' = "OK" => loaded' /\ active' = Offset[told.table]]_vars

-----------------------------------------------------------------------------
(* What the documents say and the code does not keep to.                   *)

(* The emergency stop "freezes the beam where it stands" (node.h): from    *)
(* the stop that latched on, only a human at the console moves it, never   *)
(* what the loop goes on with by itself.                                   *)
EstopFreezes ==
  [][beam = "frozen" /\ ~Console => beam' = "frozen"]_vars
=============================================================================
