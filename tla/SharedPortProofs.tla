-------------------------- MODULE SharedPortProofs --------------------------
(***************************************************************************)
(* Proofs about SharedPort, for every set of packets, every noise and any  *)
(* number of faults.  The type and the count of bytes received hold of     *)
(* each other: the count leaves room for one byte more because the length  *)
(* has been looked at, and the length is looked at because the count comes *)
(* by it.  That the port is split exactly rests on Synchronous: with no    *)
(* fault since the last silence, the bytes received are those of the       *)
(* packet being sent that are not still to come.                           *)
(***************************************************************************)
EXTENDS SharedPort, SequenceTheorems, TLAPS

LEMMA ConcatThree ==
  ASSUME NEW S, NEW s \in Seq(S), NEW c \in Seq(S), NEW e \in Seq(S)
  PROVE  /\ (s \o c) \o e \in Seq(S)
         /\ Len((s \o c) \o e) = Len(s) + Len(c) + Len(e)
         /\ \A i \in 1 .. Len(s) : ((s \o c) \o e)[i] = s[i]
         /\ \A i \in 1 .. Len(c) : ((s \o c) \o e)[i + Len(s)] = c[i]
         /\ \A i \in 1 .. Len(e) : ((s \o c) \o e)[i + Len(s) + Len(c)] = e[i]
<1>1. Len(s) \in Nat /\ Len(c) \in Nat /\ Len(e) \in Nat
  BY LenProperties
<1>2. PICK t \in Seq(S) : t = s \o c
  BY ConcatProperties
<1>3. /\ Len(t) = Len(s) + Len(c)
      /\ \A i \in 1 .. Len(s) + Len(c) :
           t[i] = IF i <= Len(s) THEN s[i] ELSE c[i - Len(s)]
  BY <1>2, ConcatProperties
<1>4. PICK u \in Seq(S) : u = t \o e
  BY ConcatProperties
<1>5. /\ Len(u) = Len(t) + Len(e)
      /\ \A i \in 1 .. Len(t) + Len(e) :
           u[i] = IF i <= Len(t) THEN t[i] ELSE e[i - Len(t)]
  BY <1>4, ConcatProperties
<1>6. \A i \in 1 .. Len(s) : u[i] = s[i]
  BY <1>1, <1>3, <1>5
<1>7. \A i \in 1 .. Len(c) : u[i + Len(s)] = c[i]
  BY <1>1, <1>3, <1>5
<1>8. \A i \in 1 .. Len(e) : u[i + Len(s) + Len(c)] = e[i]
  BY <1>1, <1>3, <1>5
<1>9. u = (s \o c) \o e /\ Len(u) = Len(s) + Len(c) + Len(e)
  BY <1>2, <1>3, <1>4, <1>5
<1> QED
  BY <1>6, <1>7, <1>8, <1>9

USE PortAssumption DEF PortAssumption

LEMMA LengthOfType ==
  ASSUME NEW b
  PROVE  LengthOf(b) \in Nat
BY DEF LengthOf

LEMMA PlainType ==
  ASSUME NEW v \in Plain
  PROVE  PlainByte(v) \in Value
BY DEF PlainByte, Value

LEMMA Lengths ==
  /\ LengthOf(PlainByte("0")) = 0
  /\ LengthOf(PlainByte("1")) = 1
BY DEF LengthOf, PlainByte

(* The bytes the CRC covers, one by one. *)
Size(p) == Len(Payload[p])

LEMMA CoveredFacts ==
  ASSUME NEW p \in Packets
  PROVE  /\ Size(p) \in {0, 1}
         /\ Covered(p) \in Seq(Value)
         /\ Len(Covered(p)) = 2 + Size(p)
         /\ Covered(p)[1] = <<"head", p>>
         /\ LengthOf(Covered(p)[2]) = Size(p)
<1> DEFINE h == <<<<"head", p>>, PlainByte(IF Payload[p] = <<>> THEN "0" ELSE "1")>>
           b == [i \in 1 .. Len(Payload[p]) |-> PlainByte(Payload[p][i])]
<1>1. /\ Payload[p] \in Seq(Plain) /\ Len(Payload[p]) \in Nat
      /\ Len(Payload[p]) <= 1
  BY LenProperties
<1>2. Size(p) \in {0, 1}
  <2>1. \A n \in Nat : n <= 1 => n \in {0, 1}
    OBVIOUS
  <2>2. Len(Payload[p]) \in {0, 1}
    BY <1>1, <2>1, Zenon
  <2> QED
    BY <2>2 DEF Size
<1>3. h \in Seq(Value) /\ Len(h) = 2 /\ h[1] = <<"head", p>>
      /\ h[2] = PlainByte(IF Payload[p] = <<>> THEN "0" ELSE "1")
  <2>1. <<"head", p>> \in Value
    BY DEF Value
  <2>2. PlainByte(IF Payload[p] = <<>> THEN "0" ELSE "1") \in Value
    BY PlainType DEF Plain
  <2> QED
    BY <2>1, <2>2
<1>4. \A i \in 1 .. Len(Payload[p]) : PlainByte(Payload[p][i]) \in Value
  BY <1>1, ElementOfSeq, PlainType
<1>5. b \in Seq(Value) /\ Len(b) = Size(p)
  BY <1>1, <1>4 DEF Size
<1>6. Covered(p) = h \o b
  BY DEF Covered
<1> HIDE DEF h, b
<1>7. /\ h \o b \in Seq(Value)
      /\ Len(h \o b) = Len(h) + Len(b)
      /\ \A i \in 1 .. Len(h) + Len(b) :
           (h \o b)[i] = IF i <= Len(h) THEN h[i] ELSE b[i - Len(h)]
  BY <1>3, <1>5, ConcatProperties
<1>8. (h \o b)[1] = h[1] /\ (h \o b)[2] = h[2]
  BY <1>2, <1>3, <1>5, <1>7
<1>9. LengthOf(h[2]) = Size(p)
  <2>1. CASE Payload[p] = <<>>
    BY <1>3, <2>1, Lengths DEF Size
  <2>2. CASE Payload[p] # <<>>
    <3>1. Size(p) # 0
      BY <1>1, <2>2, EmptySeq DEF Size
    <3> QED
      BY <1>2, <1>3, <2>2, <3>1, Lengths
  <2> QED
    BY <2>1, <2>2
<1> QED
  BY <1>2, <1>3, <1>5, <1>6, <1>7, <1>8, <1>9

(* A packet: the two SOF bytes, what the CRC covers, and the CRC. *)
LEMMA WireFacts ==
  ASSUME NEW p \in Packets
  PROVE  /\ Wire(p) \in Seq(Value)
         /\ Len(Wire(p)) = 5 + Size(p)
         /\ Wire(p)[1] = PlainByte("A5")
         /\ Wire(p)[2] = PlainByte("5A")
         /\ \A i \in 1 .. 2 + Size(p) : Wire(p)[i + 2] = Covered(p)[i]
         /\ Wire(p)[5 + Size(p)] = <<"crc", p>>
<1> DEFINE s == <<PlainByte("A5"), PlainByte("5A")>>
           c == Covered(p)
           e == <<<<"crc", p>>>>
<1>1. s \in Seq(Value) /\ Len(s) = 2 /\ s[1] = PlainByte("A5")
      /\ s[2] = PlainByte("5A")
  BY PlainType DEF Plain
<1>2. c \in Seq(Value) /\ Len(c) = 2 + Size(p) /\ Size(p) \in {0, 1}
  BY CoveredFacts
<1>3. e \in Seq(Value) /\ Len(e) = 1 /\ e[1] = <<"crc", p>>
  <2>1. <<"crc", p>> \in Value
    BY DEF Value
  <2> QED
    BY <2>1
<1>4. Wire(p) = (s \o c) \o e
  BY DEF Wire
<1> HIDE DEF s, c, e
<1> DEFINE w == (s \o c) \o e
<1>5. s \in Seq(Value) /\ c \in Seq(Value) /\ e \in Seq(Value)
  BY <1>1, <1>2, <1>3
<1>6. /\ w \in Seq(Value)
      /\ Len(w) = Len(s) + Len(c) + Len(e)
      /\ \A i \in 1 .. Len(s) : w[i] = s[i]
      /\ \A i \in 1 .. Len(c) : w[i + Len(s)] = c[i]
      /\ \A i \in 1 .. Len(e) : w[i + Len(s) + Len(c)] = e[i]
  BY ONLY <1>5, ConcatThree
<1> HIDE DEF w
<1>7. Len(w) = 5 + Size(p)
  BY <1>1, <1>2, <1>3, <1>6
<1>8. w[1] = s[1] /\ w[2] = s[2]
  BY <1>1, <1>6
<1>9. \A i \in 1 .. 2 + Size(p) : w[i + 2] = c[i]
  BY <1>1, <1>2, <1>6
<1>10. w[5 + Size(p)] = e[1]
  <2>1. 1 + Len(s) + Len(c) = 5 + Size(p) /\ 1 \in 1 .. Len(e)
    BY <1>1, <1>2, <1>3
  <2> QED
    BY <1>6, <2>1
<1> QED
  BY <1>1, <1>3, <1>4, <1>6, <1>7, <1>8, <1>9, <1>10 DEF c, w

-----------------------------------------------------------------------------
(* The type, and the count of bytes received.                              *)

LengthFits == state \in {"IN_PAYLOAD", "IN_CRC"} => Length <= MaxPayload

Typed == TypeOK /\ NeverOverruns /\ LengthFits

LEMMA FeedType ==
  ASSUME Typed, NEW b \in Value, FeedByte(b)
  PROVE  /\ state' \in {"WAIT_SOF0", "WAIT_SOF1", "IN_HEADER", "IN_PAYLOAD", "IN_CRC"}
         /\ rx' \in Seq(Value)
         /\ Len(rx') < HeaderLen + MaxPayload + CrcLen
         /\ event' \in {"none", "taken", "length", "crc", "console", "foreign",
                         "version", "handled"} \X (Packets \union {Nobody})
         /\ NeverOverruns' /\ LengthFits'
<1>a. rx \in Seq(Value) /\ Len(rx) \in Nat
      /\ Len(rx) < HeaderLen + MaxPayload + CrcLen
  BY LenProperties DEF Typed, TypeOK
<1>b. /\ Append(rx, b) \in Seq(Value)
      /\ Len(Append(rx, b)) = Len(rx) + 1
      /\ \A i \in 1 .. Len(rx) : Append(rx, b)[i] = rx[i]
      /\ Append(rx, b)[Len(rx) + 1] = b
  BY <1>a, AppendProperties
<1>c. <<>> \in Seq(Value) /\ Len(<<>>) = 0
  BY EmptySeq
<1>1. CASE WaitSof0(b)
  <2>1. rx' = rx /\ state' \in {"WAIT_SOF0", "WAIT_SOF1"} /\ Len(rx) = 0
    BY <1>1 DEF WaitSof0, Typed, NeverOverruns
  <2>2. event' = <<"taken", Nobody>>
    BY <1>1 DEF WaitSof0
  <2> QED
    BY <1>a, <2>1, <2>2 DEF NeverOverruns, LengthFits
<1>2. CASE WaitSof1(b)
  <2>1. rx' = rx /\ state' \in {"WAIT_SOF0", "WAIT_SOF1", "IN_HEADER"}
        /\ Len(rx) = 0
    BY <1>2 DEF WaitSof1, Typed, NeverOverruns
  <2>2. event' = <<"taken", Nobody>>
    BY <1>2 DEF WaitSof1
  <2> QED
    BY <1>a, <2>1, <2>2 DEF NeverOverruns, LengthFits, HeaderLen
<1>3. CASE InHeader(b)
  <2>a. Len(rx) < HeaderLen
    BY <1>3 DEF InHeader, Typed, NeverOverruns
  <2>1. CASE /\ Len(rx) + 1 < HeaderLen
             /\ rx' = Append(rx, b)
             /\ state' = "IN_HEADER"
             /\ event' = <<"taken", Nobody>>
    <3>1. Len(rx') < HeaderLen
      BY <1>b, <2>1
    <3> QED
      BY <1>a, <1>b, <2>1, <3>1 DEF NeverOverruns, LengthFits, HeaderLen, CrcLen
  <2>2. CASE /\ rx' = <<>>
             /\ state' = "WAIT_SOF0"
             /\ event' = <<"length", Nobody>>
    BY <1>c, <2>2 DEF NeverOverruns, LengthFits, HeaderLen, CrcLen
  <2>3. CASE /\ Len(rx) + 1 = HeaderLen
             /\ LengthOf(b) <= MaxPayload
             /\ rx' = Append(rx, b)
             /\ state' = IF LengthOf(b) = 0 THEN "IN_CRC" ELSE "IN_PAYLOAD"
             /\ event' = <<"taken", Nobody>>
    <3>1. Len(rx') = HeaderLen /\ rx'[HeaderLen] = b
      BY <1>b, <2>3
    <3>2. Length' = LengthOf(b)
      BY <3>1 DEF Length, LengthOf
    <3>3. LengthOf(b) \in Nat
      BY LengthOfType
    <3>4. NeverOverruns'
      BY <2>3, <3>1, <3>2, <3>3 DEF NeverOverruns, HeaderLen
    <3>5. LengthFits'
      BY <2>3, <3>2 DEF LengthFits
    <3> QED
      BY <1>a, <1>b, <2>3, <3>1, <3>4, <3>5 DEF HeaderLen, CrcLen
  <2> QED
    BY <1>3, <2>1, <2>2, <2>3 DEF InHeader
<1>4. CASE InPayload(b)
  <2>1. Len(rx) >= HeaderLen /\ Len(rx) < HeaderLen + Length /\ Length <= MaxPayload
    BY <1>4 DEF InPayload, Typed, NeverOverruns, LengthFits
  <2>2. rx' = Append(rx, b) /\ event' = <<"taken", Nobody>>
        /\ state' = IF Len(rx') = HeaderLen + Length THEN "IN_CRC" ELSE "IN_PAYLOAD"
    BY <1>4 DEF InPayload
  <2>3. rx'[HeaderLen] = rx[HeaderLen]
    BY <1>a, <1>b, <2>1, <2>2 DEF HeaderLen
  <2>4. Length' = Length /\ Length \in Nat
    BY <2>3, LengthOfType DEF Length, LengthOf
  <2>5. Len(rx') = Len(rx) + 1
    BY <1>b, <2>2
  <2>6. NeverOverruns'
    BY <1>a, <2>1, <2>2, <2>4, <2>5 DEF NeverOverruns, HeaderLen
  <2>7. LengthFits'
    BY <2>1, <2>4 DEF LengthFits
  <2> QED
    BY <1>a, <1>b, <2>1, <2>2, <2>4, <2>5, <2>6, <2>7 DEF HeaderLen, CrcLen
<1>5. CASE InCrc(b)
  <2>1. rx' = <<>> /\ state' = "WAIT_SOF0"
    BY <1>5 DEF InCrc
  <2>2. event' \in {"none", "taken", "length", "crc", "console", "foreign",
                    "version", "handled"} \X (Packets \union {Nobody})
    BY <1>5 DEF InCrc, Dispatch
  <2> QED
    BY <1>c, <2>1, <2>2 DEF NeverOverruns, LengthFits, HeaderLen, CrcLen
<1> QED
  BY <1>1, <1>2, <1>3, <1>4, <1>5 DEF FeedByte

LEMMA PollType ==
  ASSUME Typed, NEW b \in Value, PollByte(b), out' \in Seq(Value),
         faults' \in 0 .. MaxFaults
  PROVE  Typed'
<1>1. quiet' \in BOOLEAN
  BY DEF PollByte
<1>2. CASE FeedByte(b)
  BY <1>1, <1>2, FeedType DEF Typed, TypeOK
<1>3. CASE ConsoleFeed(b)
  BY <1>1, <1>3 DEF ConsoleFeed, Typed, TypeOK, NeverOverruns, LengthFits, Length
<1> QED
  BY <1>2, <1>3 DEF PollByte

LEMMA TypedInit == Init => Typed
<1> SUFFICES ASSUME Init PROVE Typed
  OBVIOUS
<1>1. <<>> \in Seq(Value) /\ Len(<<>>) = 0
  BY EmptySeq
<1> QED
  BY <1>1 DEF Init, Typed, TypeOK, NeverOverruns, LengthFits, NoEvent,
              HeaderLen, CrcLen

LEMMA TypedStep == Typed /\ [Next]_vars => Typed'
<1> SUFFICES ASSUME Typed, [Next]_vars PROVE Typed'
  OBVIOUS
<1>a. out \in Seq(Value) /\ faults \in 0 .. MaxFaults
  BY DEF Typed, TypeOK
<1>b. out # <<>> => Head(out) \in Value /\ Tail(out) \in Seq(Value)
  BY <1>a, HeadTailProperties
<1>c. OneMoreFault => faults' \in 0 .. MaxFaults
  BY <1>a DEF OneMoreFault
<1>d. ASSUME UNCHANGED <<state, rx>>, event' = NoEvent, quiet' \in BOOLEAN,
             out' \in Seq(Value), faults' \in 0 .. MaxFaults
      PROVE  Typed'
  BY <1>d DEF Typed, TypeOK, NeverOverruns, LengthFits, Length, NoEvent
<1>1. ASSUME NEW p \in Packets, HostSends(p)
      PROVE  Typed'
  BY <1>1, <1>a, <1>d, WireFacts DEF HostSends, Typed, TypeOK
<1>2. CASE ByteArrives
  BY <1>2, <1>a, <1>b, PollType DEF ByteArrives
<1>3. CASE ByteAltered
  <2>1. PICK v \in Noise : PollByte(PlainByte(v))
    BY <1>3 DEF ByteAltered
  <2>2. PlainByte(v) \in Value
    BY PlainType
  <2> QED
    BY <1>3, <1>b, <1>c, <2>1, <2>2, PollType DEF ByteAltered
<1>4. CASE ByteLost
  BY <1>4, <1>b, <1>c, <1>d DEF ByteLost, Typed, TypeOK
<1>5. CASE CutOff
  BY <1>5, <1>c, <1>d, EmptySeq DEF CutOff, Typed, TypeOK
<1>6. CASE Type
  <2>1. PlainByte("key") \in Value
    BY PlainType DEF Plain
  <2> QED
    BY <1>6, <1>a, <2>1, PollType DEF Type
<1>7. CASE Silence
  BY <1>7, <1>a, <1>d DEF Silence
<1>8. CASE GapTimeout
  <2>1. <<>> \in Seq(Value) /\ Len(<<>>) = 0
    BY EmptySeq
  <2> QED
    BY <1>8, <1>a, <2>1
    DEF GapTimeout, Typed, TypeOK, NeverOverruns, LengthFits, NoEvent,
        HeaderLen, CrcLen
<1>9. CASE UNCHANGED vars
  BY <1>9 DEF vars, Typed, TypeOK, NeverOverruns, LengthFits, Length
<1> QED
  BY <1>1, <1>2, <1>3, <1>4, <1>5, <1>6, <1>7, <1>8, <1>9 DEF Next

LEMMA AlwaysTyped == Spec => []Typed
  BY TypedInit, TypedStep, PTL DEF Spec

(* The types hold, and the receive buffer has room for the next byte. *)
THEOREM SharedPortTyped == Spec => []TypeOK
  BY AlwaysTyped, PTL DEF Typed

(* Whatever length came over the wire, the parser never steps over the     *)
(* count it waits for.                                                     *)
THEOREM ParserNeverOverruns == Spec => []NeverOverruns
  BY AlwaysTyped, PTL DEF Typed

-----------------------------------------------------------------------------
(* The split.  n bytes of packet p have come since the silence.            *)

InFlight(p, n) ==
  /\ ~quiet
  /\ Len(out) = 5 + Size(p) - n
  /\ \A i \in 1 .. 5 + Size(p) - n : out[i] = Wire(p)[n + i]
  /\ n >= 2 => /\ Len(rx) = n - 2
               /\ \A i \in 1 .. n - 2 : rx[i] = Covered(p)[i]
  /\ state = IF n = 1 THEN "WAIT_SOF1"
             ELSE IF n <= 3 THEN "IN_HEADER"
             ELSE IF n < 4 + Size(p) THEN "IN_PAYLOAD" ELSE "IN_CRC"

Between ==
  /\ out = <<>> \/ \E p \in Packets : out = Wire(p)
  /\ Receiving => quiet

Synchronous ==
  faults = 0 =>
    Between \/ \E p \in Packets : \E n \in 1 .. 4 + Size(p) : InFlight(p, n)

(* What the bytes of a packet are does not change.                         *)
LEMMA FlightNext ==
  ASSUME NEW p \in Packets, NEW n \in Nat,
         quiet' = FALSE,
         Len(out') = 5 + Size(p) - n,
         \A i \in 1 .. 5 + Size(p) - n : out'[i] = Wire(p)[n + i],
         n >= 2 => /\ Len(rx') = n - 2
                   /\ \A i \in 1 .. n - 2 : rx'[i] = Covered(p)[i],
         state' = IF n = 1 THEN "WAIT_SOF1"
                  ELSE IF n <= 3 THEN "IN_HEADER"
                  ELSE IF n < 4 + Size(p) THEN "IN_PAYLOAD" ELSE "IN_CRC"
  PROVE  InFlight(p, n)'
BY DEF InFlight, Size, Wire, Covered

(* The byte that comes is the one expected, and the packet goes on.        *)
LEMMA ArrivesInFlight ==
  ASSUME Typed, NEW p \in Packets, NEW n \in 1 .. 4 + Size(p), InFlight(p, n),
         ByteArrives
  PROVE  /\ event' = Due
         /\ n = 4 + Size(p) => out' = <<>> /\ ~Receiving'
         /\ n < 4 + Size(p) => InFlight(p, n + 1)'
<1> DEFINE b == Head(out)
<1>a. /\ Size(p) \in {0, 1} /\ n \in Nat /\ n >= 1 /\ n <= 4 + Size(p)
      /\ Len(out) = 5 + Size(p) - n
      /\ \A i \in 1 .. 5 + Size(p) - n : out[i] = Wire(p)[n + i]
  BY CoveredFacts DEF InFlight
<1>b. rx \in Seq(Value) /\ out \in Seq(Value) /\ out # <<>>
  BY DEF Typed, TypeOK, ByteArrives
<1>c. /\ PollByte(b) /\ out' = Tail(out)
  BY DEF ByteArrives
<1>d. /\ b \in Value /\ b = out[1]
      /\ Len(Tail(out)) = Len(out) - 1
      /\ \A i \in 1 .. Len(Tail(out)) : Tail(out)[i] = out[i + 1]
  BY <1>b, HeadTailProperties
<1> HIDE DEF b
<1>e. b = Wire(p)[n + 1]
  BY <1>a, <1>d
<1>f. Receiving /\ FeedByte(b) /\ quiet' = FALSE
  BY <1>a, <1>c DEF InFlight, Receiving, PollByte
<1>1. /\ Len(out') = 5 + Size(p) - (n + 1)
      /\ \A i \in 1 .. 5 + Size(p) - (n + 1) : out'[i] = Wire(p)[n + 1 + i]
  <2>1. Len(out') = 5 + Size(p) - (n + 1)
    BY <1>a, <1>c, <1>d
  <2>2. ASSUME NEW i \in 1 .. 5 + Size(p) - (n + 1)
        PROVE  out'[i] = Wire(p)[n + 1 + i]
    <3>1. i + 1 \in 1 .. 5 + Size(p) - n /\ n + (i + 1) = n + 1 + i
      BY <1>a
    <3>2. out'[i] = out[i + 1]
      BY <1>a, <1>c, <1>d, <2>1
    <3> QED
      BY <1>a, <3>1, <3>2
  <2> QED
    BY <2>1, <2>2
<1>2. n < 4 + Size(p) => Due = <<"taken", Nobody>>
  BY <1>a DEF Due
<1>g. /\ Append(rx, b) \in Seq(Value)
      /\ Len(Append(rx, b)) = Len(rx) + 1
      /\ \A i \in 1 .. Len(rx) : Append(rx, b)[i] = rx[i]
      /\ Append(rx, b)[Len(rx) + 1] = b
  BY <1>b, <1>d, AppendProperties
(* A byte the CRC covers is kept as it was sent. *)
<1>h. ASSUME n >= 2, n < 4 + Size(p), rx' = Append(rx, b)
      PROVE  /\ Len(rx') = (n + 1) - 2
             /\ \A i \in 1 .. (n + 1) - 2 : rx'[i] = Covered(p)[i]
  <2>1. /\ Len(rx) = n - 2
        /\ \A i \in 1 .. n - 2 : rx[i] = Covered(p)[i]
    BY <1>h DEF InFlight
  <2>2. b = Covered(p)[n - 1]
    <3>1. n - 1 \in 1 .. 2 + Size(p) /\ (n - 1) + 2 = n + 1
      BY <1>a, <1>h
    <3> QED
      BY <1>e, <3>1, WireFacts
  <2> QED
    BY <1>a, <1>g, <1>h, <2>1, <2>2
<1>3. CASE n = 1
  <2>1. state = "WAIT_SOF1"
    BY <1>3 DEF InFlight
  <2>2. WaitSof1(b)
    BY <1>f, <2>1 DEF FeedByte, WaitSof0, WaitSof1, InHeader, InPayload, InCrc
  <2>3. b[1] = "5A"
    BY <1>3, <1>e, WireFacts DEF PlainByte
  <2>4. state' = "IN_HEADER" /\ rx' = rx /\ event' = <<"taken", Nobody>>
    BY <2>2, <2>3 DEF WaitSof1
  <2>5. Len(rx) = 0
    BY <2>1 DEF Typed, NeverOverruns
  <2>6. Len(rx') = 2 - 2 /\ \A i \in 1 .. 2 - 2 : rx'[i] = Covered(p)[i]
    BY <2>4, <2>5
  <2>7. InFlight(p, n + 1)'
    <3>1. n + 1 = 2 /\ n + 1 \in Nat
      BY <1>3
    <3>2. state' = IF n + 1 = 1 THEN "WAIT_SOF1"
                   ELSE IF n + 1 <= 3 THEN "IN_HEADER"
                   ELSE IF n + 1 < 4 + Size(p) THEN "IN_PAYLOAD" ELSE "IN_CRC"
      BY <2>4, <3>1
    <3> QED
      BY <1>f, <1>1, <2>6, <3>1, <3>2, FlightNext
  <2> QED
    BY <1>a, <1>3, <1>2, <2>4, <2>7
<1>4. CASE n \in {2, 3}
  <2>1. state = "IN_HEADER" /\ Len(rx) = n - 2
    BY <1>4 DEF InFlight
  <2>2. InHeader(b)
    BY <1>f, <2>1 DEF FeedByte, WaitSof0, WaitSof1, InHeader, InPayload, InCrc
  <2>3. n = 3 => LengthOf(b) = Size(p)
    <3>1. n = 3 => b = Covered(p)[2]
      BY <1>a, <1>e, WireFacts
    <3> QED
      BY <3>1, CoveredFacts
  <2>4. /\ rx' = Append(rx, b) /\ event' = <<"taken", Nobody>>
        /\ n = 2 => state' = "IN_HEADER"
        /\ n = 3 => state' = IF Size(p) = 0 THEN "IN_CRC" ELSE "IN_PAYLOAD"
    <3>1. CASE n = 2
      BY <2>1, <2>2, <3>1 DEF InHeader, HeaderLen
    <3>2. CASE n = 3
      <4>1. LengthOf(b) <= MaxPayload /\ Len(rx) + 1 = HeaderLen
        BY <1>a, <2>1, <2>3, <3>2 DEF HeaderLen
      <4> QED
        BY <1>a, <2>2, <2>3, <3>2, <4>1 DEF InHeader
    <3> QED
      BY <1>4, <3>1, <3>2
  <2>5. /\ Len(rx') = (n + 1) - 2
        /\ \A i \in 1 .. (n + 1) - 2 : rx'[i] = Covered(p)[i]
    BY <1>a, <1>4, <1>h, <2>4
  <2>6. state' = IF n + 1 = 1 THEN "WAIT_SOF1"
                 ELSE IF n + 1 <= 3 THEN "IN_HEADER"
                 ELSE IF n + 1 < 4 + Size(p) THEN "IN_PAYLOAD" ELSE "IN_CRC"
    BY <1>a, <1>4, <2>4
  <2>7. InFlight(p, n + 1)'
    <3>1. n + 1 \in Nat
      BY <1>a
    <3> QED
      BY <1>f, <1>1, <2>5, <2>6, <3>1, FlightNext
  <2> QED
    BY <1>a, <1>4, <1>2, <2>4, <2>7
<1>5. CASE n = 4 /\ Size(p) = 1
  <2>1. state = "IN_PAYLOAD" /\ Len(rx) = 2 /\ rx[2] = Covered(p)[2]
    BY <1>5 DEF InFlight
  <2>2. InPayload(b)
    BY <1>f, <2>1 DEF FeedByte, WaitSof0, WaitSof1, InHeader, InPayload, InCrc
  <2>3. Length = 1
    BY <1>5, <2>1, CoveredFacts DEF Length, HeaderLen
  <2>4. rx' = Append(rx, b) /\ event' = <<"taken", Nobody>> /\ state' = "IN_CRC"
    BY <1>g, <2>1, <2>2, <2>3 DEF InPayload, HeaderLen
  <2>5. /\ Len(rx') = (n + 1) - 2
        /\ \A i \in 1 .. (n + 1) - 2 : rx'[i] = Covered(p)[i]
    BY <1>a, <1>5, <1>h, <2>4
  <2>6. state' = IF n + 1 = 1 THEN "WAIT_SOF1"
                 ELSE IF n + 1 <= 3 THEN "IN_HEADER"
                 ELSE IF n + 1 < 4 + Size(p) THEN "IN_PAYLOAD" ELSE "IN_CRC"
    BY <1>5, <2>4
  <2>7. InFlight(p, n + 1)'
    <3>1. n + 1 \in Nat
      BY <1>a
    <3> QED
      BY <1>f, <1>1, <2>5, <2>6, <3>1, FlightNext
  <2> QED
    BY <1>a, <1>5, <1>2, <2>4, <2>7
<1>6. CASE n = 4 + Size(p)
  <2>1. state = "IN_CRC" /\ Len(rx) = 2 + Size(p)
        /\ \A i \in 1 .. 2 + Size(p) : rx[i] = Covered(p)[i]
    BY <1>a, <1>6 DEF InFlight
  <2>2. InCrc(b)
    BY <1>f, <2>1 DEF FeedByte, WaitSof0, WaitSof1, InHeader, InPayload, InCrc
  <2>3. rx = Covered(p)
    BY <1>a, <1>b, <2>1, CoveredFacts, SeqEqual
  <2>4. b = <<"crc", p>>
    <3>1. n + 1 = 5 + Size(p)
      BY <1>a, <1>6
    <3> QED
      BY <1>e, <3>1, WireFacts
  <2>5. event' = Dispatch(p)
    <3>1. PICK q \in Packets : b = <<"crc", q>> /\ event' = Dispatch(q)
      BY <2>2, <2>3, <2>4 DEF InCrc
    <3>2. q = p
      BY <2>4, <3>1
    <3> QED
      BY <3>1, <3>2
  <2>6. Due = Dispatch(p)
    <3>1. Len(out) = 1 /\ out[1] = <<"crc", p>>
      BY <1>a, <1>6, <1>d, <2>4
    <3> QED
      BY <3>1 DEF Due
  <2>7. out' = <<>>
    <3>1. out' \in Seq(Value)
      BY <1>b, <1>c, HeadTailProperties
    <3>2. Len(out') = 0
      BY <1>a, <1>6, <1>1
    <3> QED
      BY <3>1, <3>2, EmptySeq
  <2>8. ~Receiving'
    BY <2>2 DEF InCrc, Receiving
  <2> QED
    BY <1>a, <1>6, <2>5, <2>6, <2>7, <2>8
<1> QED
  BY <1>a, <1>3, <1>4, <1>5, <1>6

(* The first byte of a packet, after a silence or another packet.          *)
LEMMA ArrivesFirst ==
  ASSUME Typed, Between, ByteArrives
  PROVE  /\ event' = Due
         /\ \E p \in Packets : InFlight(p, 1)'
<1>1. PICK p \in Packets : out = Wire(p)
  BY DEF Between, ByteArrives
<1>2. /\ out \in Seq(Value) /\ out # <<>>
      /\ Len(out) = 5 + Size(p) /\ Size(p) \in {0, 1} /\ out[1] = PlainByte("A5")
  BY <1>1, WireFacts, CoveredFacts DEF ByteArrives
<1>3. /\ PollByte(Head(out)) /\ out' = Tail(out)
  BY DEF ByteArrives
<1>4. /\ Head(out) = PlainByte("A5")
      /\ Len(out') = Len(out) - 1
      /\ \A i \in 1 .. Len(out') : out'[i] = out[i + 1]
  BY <1>2, <1>3, HeadTailProperties
<1>5. ~Receiving /\ state = "WAIT_SOF0" /\ quiet' = FALSE
  BY <1>3 DEF Between, PollByte, Receiving
<1>6. FeedByte(Head(out))
  BY <1>3, <1>4, <1>5 DEF PollByte, PlainByte
<1>7. WaitSof0(Head(out))
  BY <1>5, <1>6 DEF FeedByte, WaitSof0, WaitSof1, InHeader, InPayload, InCrc
<1>8. state' = "WAIT_SOF1" /\ event' = <<"taken", Nobody>>
  BY <1>4, <1>7 DEF WaitSof0, PlainByte
<1>9. Due = <<"taken", Nobody>>
  BY <1>2 DEF Due
<1>10. /\ Len(out') = 5 + Size(p) - 1
       /\ \A i \in 1 .. 5 + Size(p) - 1 : out'[i] = Wire(p)[1 + i]
  <2>1. Len(out') = 5 + Size(p) - 1
    BY <1>2, <1>4
  <2>2. ASSUME NEW i \in 1 .. 5 + Size(p) - 1
        PROVE  out'[i] = Wire(p)[1 + i]
    <3>1. i + 1 = 1 + i /\ i \in 1 .. Len(out')
      BY <1>2, <2>1
    <3> QED
      BY <1>1, <1>4, <3>1
  <2> QED
    BY <2>1, <2>2
<1>11. InFlight(p, 1)'
  <2>1. 1 \in Nat /\ ~(1 >= 2)
    OBVIOUS
  <2> QED
    BY <1>5, <1>8, <1>10, <2>1, FlightNext
<1> QED
  BY <1>8, <1>9, <1>11

LEMMA FlightOut ==
  ASSUME NEW p \in Packets, NEW n \in 1 .. 4 + Size(p), InFlight(p, n)
  PROVE  out # <<>>
<1>1. Size(p) \in {0, 1} /\ Len(out) = 5 + Size(p) - n
  BY CoveredFacts DEF InFlight
<1>2. Len(out) # 0
  BY <1>1
<1> QED
  BY <1>2

LEMMA SyncInit == Init => Synchronous
  BY DEF Init, Synchronous, Between, Receiving

LEMMA SyncStep ==
  ASSUME MaxFaults > 0, Typed, Synchronous, [Next]_vars
  PROVE  Synchronous'
<1> SUFFICES ASSUME faults' = 0
             PROVE  Between' \/ \E p \in Packets : \E n \in 1 .. 4 + Size(p) :
                                   InFlight(p, n)'
  BY DEF Synchronous, Size
<1>a. faults \in Nat /\ MaxFaults \in Nat
  BY DEF Typed, TypeOK
<1>b. faults = 0 /\ out = <<>> => Between
  BY FlightOut DEF Synchronous
<1>1. ASSUME NEW p \in Packets, HostSends(p)
      PROVE  Between'
  <2>1. faults = 0 /\ out = <<>>
    BY <1>1 DEF HostSends
  <2>2. Wire(p)' = Wire(p)
    BY DEF Wire, Covered, PlainByte
  <2>3. \E q \in Packets : out' = Wire(q)
    BY <1>1 DEF HostSends
  <2> QED
    BY <1>1, <1>b, <2>1, <2>3 DEF HostSends, Between, Receiving, Wire, Covered
<1>2. CASE ByteArrives
  <2>1. faults = 0
    BY <1>2 DEF ByteArrives
  <2>2. CASE Between
    <3>1. PICK p \in Packets : InFlight(p, 1)'
      BY <1>2, <2>2, ArrivesFirst
    <3>2. 1 \in 1 .. 4 + Size(p)
      BY CoveredFacts
    <3> QED
      BY <3>1, <3>2
  <2>3. ASSUME NEW p \in Packets, NEW n \in 1 .. 4 + Size(p), InFlight(p, n)
        PROVE  Between' \/ \E q \in Packets : \E m \in 1 .. 4 + Size(q) :
                              InFlight(q, m)'
    <3>1. CASE n = 4 + Size(p)
      BY <1>2, <2>3, <3>1, ArrivesInFlight DEF Between
    <3>2. CASE n < 4 + Size(p)
      <4>1. InFlight(p, n + 1)'
        BY <1>2, <2>3, <3>2, ArrivesInFlight
      <4>2. n + 1 \in 1 .. 4 + Size(p)
        BY <3>2, CoveredFacts
      <4> QED
        BY <4>1, <4>2
    <3>3. n = 4 + Size(p) \/ n < 4 + Size(p)
      BY CoveredFacts
    <3> QED
      BY <3>1, <3>2, <3>3
  <2> QED
    BY <2>1, <2>2, <2>3 DEF Synchronous
<1>3. CASE ByteAltered \/ ByteLost \/ CutOff
  BY <1>3, <1>a DEF ByteAltered, ByteLost, CutOff, OneMoreFault
<1>4. CASE Type
  <2>1. faults = 0 /\ out = <<>> /\ out' = <<>>
    BY <1>4 DEF Type
  <2>2. ~(Receiving /\ quiet) /\ PollByte(PlainByte("key"))
    BY <1>4 DEF Type, PollByte
  <2>3. ~Receiving
    BY <1>b, <2>1, <2>2 DEF Between
  <2>4. ConsoleFeed(PlainByte("key"))
    BY <2>2, <2>3 DEF PollByte, PlainByte
  <2> QED
    BY <2>1, <2>3, <2>4 DEF ConsoleFeed, Between, Receiving
<1>5. CASE Silence
  <2>1. out = <<>> /\ out' = <<>> /\ quiet' = TRUE
    BY <1>5, <1>a DEF Silence
  <2> QED
    BY <2>1 DEF Between
<1>6. CASE GapTimeout
  <2>1. faults = 0 /\ quiet /\ out' = out /\ state' = "WAIT_SOF0"
    BY <1>6 DEF GapTimeout
  <2>2. Between
    BY <2>1 DEF Synchronous, InFlight
  <2> QED
    BY <2>1, <2>2 DEF Between, Receiving, Wire, Covered
<1>7. CASE UNCHANGED vars
  <2>1. Between' = Between
    BY <1>7 DEF vars, Between, Receiving, Wire, Covered
  <2>2. \A p, n : InFlight(p, n)' = InFlight(p, n)
    BY <1>7 DEF vars, InFlight, Wire, Covered, Size
  <2> QED
    BY <1>7, <2>1, <2>2 DEF vars, Synchronous
<1> QED
  BY <1>1, <1>2, <1>3, <1>4, <1>5, <1>6, <1>7 DEF Next

(* Where nothing has gone wrong since the last silence, every key reaches  *)
(* the console, and every packet is taken byte by byte and handed on once, *)
(* whatever it is made of and whatever has gone wrong before.              *)
THEOREM PortAlwaysSplit ==
  ASSUME MaxFaults > 0
  PROVE  Spec => SplitIsExact
<1>1. Typed /\ Synchronous /\ [Next]_vars =>
        [faults = 0 =>
           /\ Type => event' = <<"console", Nobody>>
           /\ ByteArrives => event' = Due]_vars
  <2> SUFFICES ASSUME Typed, Synchronous, faults = 0
               PROVE  /\ Type => event' = <<"console", Nobody>>
                      /\ ByteArrives => event' = Due
    OBVIOUS
  <2>1. ASSUME Type
        PROVE  event' = <<"console", Nobody>>
    <3>1. out = <<>> /\ PollByte(PlainByte("key")) /\ ~(Receiving /\ quiet)
      BY <2>1 DEF Type, PollByte
    <3>2. Between
      BY <3>1, FlightOut DEF Synchronous
    <3>3. ~Receiving
      BY <3>1, <3>2 DEF Between
    <3> QED
      BY <3>1, <3>3 DEF PollByte, PlainByte, ConsoleFeed
  <2>2. ASSUME ByteArrives
        PROVE  event' = Due
    BY <2>2, ArrivesFirst, ArrivesInFlight DEF Synchronous
  <2> QED
    BY <2>1, <2>2
<1>2. Typed /\ Synchronous /\ [Next]_vars => (Typed /\ Synchronous)'
  BY TypedStep, SyncStep
<1>3. Init => Typed /\ Synchronous
  BY TypedInit, SyncInit
<1> QED
  BY <1>1, <1>2, <1>3, PTL DEF Spec, SplitIsExact
=============================================================================
