----------------------------- MODULE SharedPort -----------------------------
(***************************************************************************)
(* The Teensy's serial port, which carries packets and a human's console   *)
(* at once: the framing of src/lib/moiren_link/moiren_link.cpp, and        *)
(* node::poll() (src/src/teensy-galvo/node.cpp), which gives each byte to  *)
(* the one or the other.  The host writes a packet in one call, but on its *)
(* way a byte may be lost or altered, the rest may never come, or come     *)
(* only after a silence.                                                   *)
(*                                                                         *)
(* The six header bytes before LEN are one byte, which names a packet and  *)
(* so its version, addressee and message; the CRC is one byte, which names *)
(* the packet it was computed over.  A CRC never matches by chance.        *)
(***************************************************************************)
EXTENDS Integers, Sequences

CONSTANTS
  Packets,     \* the packets the host sends
  Payload,     \* Payload[p]: the values of the payload bytes of packet p
  Foreign,     \* the packets addressed to another node
  OldVersion,  \* those of another protocol version
  MaxPayload,  \* PACKET_MAX_PAYLOAD
  Noise,       \* bound: the values an altered byte may have
  MaxFaults,   \* bound: what may go wrong between two silences
  Nobody       \* the packet of a value that names none

(* The values a byte may have: the two SOF bytes, one that can be typed,   *)
(* one too large for a length, and small numbers.                          *)
Plain == {"A5", "5A", "key", "FF", "0", "1"}

ASSUME PortAssumption ==
  /\ MaxPayload \in Nat \ {0}
  /\ \A p \in Packets :
       /\ Payload[p] \in Seq(Plain)
       /\ Len(Payload[p]) <= 1
  /\ Foreign \subseteq Packets /\ OldVersion \subseteq Packets
  /\ Noise \subseteq Plain /\ MaxFaults \in Nat
  /\ Nobody \notin Packets

VARIABLES
  state, rx,  \* the link's state_, and rx_[0 .. idx_ - 1] inside a packet
  quiet,      \* PACKET_GAP_TIMEOUT_MS has passed since the last byte
  out,        \* the bytes of the packet being sent that are still to come
  event,      \* observation: what became of the byte, and of its packet
  faults      \* what has gone wrong on the wire since the last silence

vars == <<state, rx, quiet, out, event, faults>>

Value == (Plain \X {Nobody}) \union ({"head", "crc"} \X Packets)

PlainByte(v) == <<v, Nobody>>

HeaderLen == 2   \* PACKET_HEADER_LEN without the SOF bytes: a name, and LEN
CrcLen == 1      \* PACKET_CRC_LEN

(* What a byte means as a length.  Most values are legal ones. *)
LengthOf(b) ==
  IF b[1] = "0" THEN 0
  ELSE IF b[1] = "1" THEN 1
  ELSE IF b[1] = "FF" THEN MaxPayload + 1
  ELSE MaxPayload

(* The bytes the CRC covers, and a packet as MoirenLink::send() lays it out. *)
Covered(p) ==
  <<<<"head", p>>, PlainByte(IF Payload[p] = <<>> THEN "0" ELSE "1")>>
    \o [i \in 1 .. Len(Payload[p]) |-> PlainByte(Payload[p][i])]

Wire(p) ==
  <<PlainByte("A5"), PlainByte("5A")>> \o Covered(p) \o <<<<"crc", p>>>>

Receiving == state # "WAIT_SOF0"

NoEvent == <<"none", Nobody>>

Init ==
  /\ state = "WAIT_SOF0"
  /\ rx = <<>>
  /\ quiet = TRUE
  /\ out = <<>>
  /\ event = NoEvent
  /\ faults = 0

-----------------------------------------------------------------------------
(* MoirenLink::feedByte().                                                 *)

WaitSof0(b) ==
  /\ state = "WAIT_SOF0"
  /\ state' = IF b[1] = "A5" THEN "WAIT_SOF1" ELSE "WAIT_SOF0"
  /\ event' = <<"taken", Nobody>>
  /\ UNCHANGED rx

(* A repeated first SOF byte may still be followed by the second. *)
WaitSof1(b) ==
  /\ state = "WAIT_SOF1"
  /\ state' = IF b[1] = "5A" THEN "IN_HEADER"
              ELSE IF b[1] = "A5" THEN "WAIT_SOF1" ELSE "WAIT_SOF0"
  /\ event' = <<"taken", Nobody>>
  /\ UNCHANGED rx   \* idx_ = 0: it is empty outside a packet

(* Faulty variant: the length is not compared with the buffer. *)
InHeaderAnyLength(b) ==
  /\ state = "IN_HEADER"
  /\ rx' = Append(rx, b)
  /\ event' = <<"taken", Nobody>>
  /\ state' = IF Len(rx') < HeaderLen THEN "IN_HEADER"
              ELSE IF LengthOf(b) = 0 THEN "IN_CRC" ELSE "IN_PAYLOAD"

InHeader(b) ==
  /\ state = "IN_HEADER"
  /\ \/ /\ Len(rx) + 1 < HeaderLen
        /\ rx' = Append(rx, b)
        /\ state' = "IN_HEADER"
        /\ event' = <<"taken", Nobody>>
     \/ /\ Len(rx) + 1 = HeaderLen
        /\ LengthOf(b) > MaxPayload
        /\ rx' = <<>>
        /\ state' = "WAIT_SOF0"
        /\ event' = <<"length", Nobody>>
     \/ /\ Len(rx) + 1 = HeaderLen
        /\ LengthOf(b) <= MaxPayload
        /\ rx' = Append(rx, b)
        /\ state' = IF LengthOf(b) = 0 THEN "IN_CRC" ELSE "IN_PAYLOAD"
        /\ event' = <<"taken", Nobody>>

Length == LengthOf(rx[HeaderLen])

(* Faulty variant: the count is compared before the byte is counted. *)
InPayloadCountsLate(b) ==
  /\ state = "IN_PAYLOAD"
  /\ rx' = Append(rx, b)
  /\ state' = IF Len(rx) = HeaderLen + Length THEN "IN_CRC" ELSE "IN_PAYLOAD"
  /\ event' = <<"taken", Nobody>>

InPayload(b) ==
  /\ state = "IN_PAYLOAD"
  /\ rx' = Append(rx, b)
  /\ state' = IF Len(rx') = HeaderLen + Length THEN "IN_CRC" ELSE "IN_PAYLOAD"
  /\ event' = <<"taken", Nobody>>

(* dispatch(): not for us; a version we do not speak, answered with a      *)
(* fault; or handed to the node's handler.                                 *)
Dispatch(p) ==
  IF p \in Foreign THEN <<"foreign", p>>
  ELSE IF p \in OldVersion THEN <<"version", p>>
  ELSE <<"handled", p>>

(* One CRC byte stands for both. *)
InCrc(b) ==
  /\ state = "IN_CRC"
  /\ rx' = <<>>
  /\ state' = "WAIT_SOF0"
  /\ \/ \E p \in Packets :
          /\ rx = Covered(p) /\ b = <<"crc", p>>
          /\ event' = Dispatch(p)
     \/ /\ \A p \in Packets : rx # Covered(p) \/ b # <<"crc", p>>
        /\ event' = <<"crc", Nobody>>

FeedByte(b) ==
  WaitSof0(b) \/ WaitSof1(b) \/ InHeader(b) \/ InPayload(b) \/ InCrc(b)

-----------------------------------------------------------------------------
(* node::poll(): the timeout first, then the bytes that have come.  The    *)
(* 128 bytes a call may read are a bound on one pass, and left out.        *)

(* Faulty variant: the gap is timed anew, and the packet kept. *)
GapTimeoutKeepsPacket ==
  /\ Receiving
  /\ quiet
  /\ quiet' = FALSE
  /\ event' = NoEvent
  /\ UNCHANGED <<state, rx, out, faults>>

GapTimeout ==
  /\ Receiving
  /\ quiet
  /\ state' = "WAIT_SOF0"
  /\ rx' = <<>>
  /\ event' = NoEvent
  /\ UNCHANGED <<quiet, out, faults>>

ConsoleFeed(b) ==
  /\ event' = <<"console", Nobody>>
  /\ UNCHANGED <<state, rx>>

(* Faulty variant: only a packet under way is looked at. *)
PollBytePacketsOnly(b) ==
  /\ ~(Receiving /\ quiet)
  /\ quiet' = FALSE
  /\ \/ /\ Receiving
        /\ FeedByte(b)
     \/ /\ ~Receiving
        /\ ConsoleFeed(b)

PollByte(b) ==
  /\ ~(Receiving /\ quiet)
  /\ quiet' = FALSE
  /\ \/ /\ Receiving \/ b[1] = "A5"
        /\ FeedByte(b)
     \/ /\ ~Receiving /\ b[1] # "A5"
        /\ ConsoleFeed(b)

-----------------------------------------------------------------------------
(* The host, the human and the wire.                                       *)

OneMoreFault ==
  /\ faults < MaxFaults
  /\ faults' = faults + 1

HostSends(p) ==
  /\ out = <<>>
  /\ out' = Wire(p)
  /\ event' = NoEvent
  /\ UNCHANGED <<state, rx, quiet, faults>>

ByteArrives ==
  /\ out # <<>>
  /\ PollByte(Head(out))
  /\ out' = Tail(out)
  /\ UNCHANGED faults

ByteAltered ==
  /\ out # <<>>
  /\ \E v \in Noise : PollByte(PlainByte(v))
  /\ out' = Tail(out)
  /\ OneMoreFault

ByteLost ==
  /\ out # <<>>
  /\ out' = Tail(out)
  /\ OneMoreFault
  /\ event' = NoEvent
  /\ UNCHANGED <<state, rx, quiet>>

(* The host is unplugged: the rest of the packet never comes. *)
CutOff ==
  /\ out # <<>>
  /\ out' = <<>>
  /\ OneMoreFault
  /\ event' = NoEvent
  /\ UNCHANGED <<state, rx, quiet>>

(* A key, between two packets. *)
Type ==
  /\ out = <<>>
  /\ PollByte(PlainByte("key"))
  /\ UNCHANGED <<out, faults>>

(* PACKET_GAP_TIMEOUT_MS without a byte, between two packets or, when the  *)
(* host stalls, inside one.                                                *)
Silence ==
  /\ ~quiet
  /\ quiet' = TRUE
  /\ faults' = IF out = <<>> THEN 0 ELSE MaxFaults
  /\ event' = NoEvent
  /\ UNCHANGED <<state, rx, out>>

Next ==
  \/ \E p \in Packets : HostSends(p)
  \/ ByteArrives \/ ByteAltered \/ ByteLost \/ CutOff
  \/ Type
  \/ Silence
  \/ GapTimeout

Spec == Init /\ [][Next]_vars

(* The loop polls for ever, and with nothing on its way time goes on until *)
(* the next key or the end of the gap.                                     *)
Fairness ==
  /\ WF_vars(GapTimeout)
  /\ WF_vars(Type \/ (Silence /\ out = <<>>))

FairSpec == Spec /\ Fairness

-----------------------------------------------------------------------------
(* Properties.                                                             *)

(* The type of every variable; rx_ has room for the next byte, whatever    *)
(* length came over the wire.                                              *)
TypeOK ==
  /\ state \in {"WAIT_SOF0", "WAIT_SOF1", "IN_HEADER", "IN_PAYLOAD", "IN_CRC"}
  /\ rx \in Seq(Value)
  /\ Len(rx) < HeaderLen + MaxPayload + CrcLen
  /\ quiet \in BOOLEAN
  /\ out \in Seq(Value)
  /\ event \in {"none", "taken", "length", "crc", "console", "foreign",
                "version", "handled"} \X (Packets \union {Nobody})
  /\ faults \in 0 .. MaxFaults

(* The parser tests idx_ for equality with the count it waits for: it      *)
(* never steps over it, in any state, or it would run on past the end of   *)
(* rx_ and never come back to look for a packet.                           *)
NeverOverruns ==
  /\ state \in {"WAIT_SOF0", "WAIT_SOF1"} => Len(rx) = 0
  /\ state = "IN_HEADER" => Len(rx) < HeaderLen
  /\ state = "IN_PAYLOAD" =>
       Len(rx) >= HeaderLen /\ Len(rx) < HeaderLen + Length
  /\ state = "IN_CRC" => Len(rx) >= HeaderLen /\ Len(rx) = HeaderLen + Length

(* The byte that is due to settle the packet being sent. *)
Due == IF Len(out) = 1 THEN Dispatch(out[1][2]) ELSE <<"taken", Nobody>>

(* The port is split exactly (node.h): every key typed reaches the console *)
(* and nothing else does, and every packet reaches the handler, once and   *)
(* whole.  Whatever went wrong before, a silence makes it so again, with   *)
(* no loss after it.                                                       *)
SplitIsExact ==
  [][faults = 0 =>
       /\ Type => event' = <<"console", Nobody>>
       /\ ByteArrives => event' = Due]_vars

(* A packet cut off does not leave the console deaf (node.cpp): with       *)
(* nothing more on its way the link gives the packet up.                   *)
ConsoleNotDeaf ==
  Receiving /\ out = <<>> ~> ~Receiving \/ out # <<>>
=============================================================================
