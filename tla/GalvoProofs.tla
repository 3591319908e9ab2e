---------------------------- MODULE GalvoProofs ----------------------------
(***************************************************************************)
(* Proofs about GalvoEngine, for every buffer length and every pattern.    *)
(*                                                                         *)
(* That a change leaves nothing of the pattern before it holds however     *)
(* many buffers end while it is carried out: a frame the change has        *)
(* written is a sample of the new pattern, and an interrupt writes more of *)
(* the same.  That the stream is in order needs at most one buffer to end  *)
(* during a change (OneSwap).  Its invariant says of every step of the     *)
(* change which samples the frames written so far are, and from where an   *)
(* interrupt would refill; the lemmas on remainders are what makes the     *)
(* round of a pattern disappear from it.                                   *)
(***************************************************************************)
EXTENDS GalvoEngine, TLAPS

-----------------------------------------------------------------------------
(* Remainders.                                                             *)

LEMMA ModRange ==
  ASSUME NEW a \in Int, NEW r \in Nat \ {0}
  PROVE  a % r \in 0 .. r - 1
  OBVIOUS

LEMMA ModOfRemainder ==
  ASSUME NEW r \in Nat \ {0}, NEW a \in 0 .. r - 1
  PROVE  a % r = a
  OBVIOUS

LEMMA DivMod ==
  ASSUME NEW a \in Int, NEW r \in Nat \ {0}
  PROVE  a \div r \in Int /\ a % r \in Int /\ a = r * (a \div r) + (a % r)
<1>1. a \div r \in Int
  OBVIOUS
<1>2. a % r \in Int
  OBVIOUS
<1>3. a = r * (a \div r) + (a % r)
  OBVIOUS
<1> QED
  BY <1>1, <1>2, <1>3

LEMMA MultBound ==
  ASSUME NEW r \in Nat \ {0}, NEW q \in Int, NEW y \in 0 .. r - 1,
         NEW z \in 0 .. r - 1, r * q = y - z
  PROVE  q = 0
<1>1. CASE q >= 1
  <2>1. r * q >= r
    BY <1>1
  <2> QED
    BY <2>1
<1>2. CASE q <= -1
  <2>1. r * q <= -r
    BY <1>2
  <2> QED
    BY <2>1
<1> QED
  BY <1>1, <1>2

(* Numbers that differ by a multiple of r have the same remainder. *)
LEMMA ModSame ==
  ASSUME NEW a \in Int, NEW b \in Int, NEW q \in Int, NEW r \in Nat \ {0},
         a = b + r * q
  PROVE  a % r = b % r
<1> DEFINE u == a \div r
           v == b \div r
           y == a % r
           z == b % r
<1>1. u \in Int /\ y \in 0 .. r - 1 /\ a = r * u + y
  BY DivMod, ModRange
<1>2. v \in Int /\ z \in 0 .. r - 1 /\ b = r * v + z
  BY DivMod, ModRange
<1> HIDE DEF u, v, y, z
<1>3. q + v - u \in Int
  BY <1>1, <1>2
<1>4. r * (q + v - u) = r * q + r * v - r * u
  BY <1>1, <1>2
<1>5. r * (q + v - u) = y - z
  <2> DEFINE p1 == r * q
             p2 == r * v
             p3 == r * u
  <2>1. p1 \in Int /\ p2 \in Int /\ p3 \in Int
    BY <1>1, <1>2
  <2>2. a = b + p1 /\ a = p3 + y /\ b = p2 + z
    BY <1>1, <1>2
  <2>3. r * (q + v - u) = p1 + p2 - p3
    BY <1>4
  <2> HIDE DEF p1, p2, p3
  <2>4. p1 + p2 - p3 = y - z
    BY <1>1, <1>2, <2>1, <2>2
  <2> QED
    BY <2>3, <2>4
<1>6. q + v - u = 0
  BY <1>1, <1>2, <1>3, <1>5, MultBound
<1>7. r * (q + v - u) = 0
  BY <1>6
<1>8. y - z = 0
  BY <1>5, <1>7
<1>9. y = z
  BY <1>1, <1>2, <1>8
<1> QED
  BY <1>9 DEF y, z

LEMMA ModAdd ==
  ASSUME NEW r \in Nat \ {0}, NEW s \in Int, NEW t \in Int, NEW u \in Int,
         s = t + r * u
  PROVE  s % r = t % r
  BY ModSame, ZenonT(30)

(* A remainder inside a sum can be dropped, and so can a whole round. *)
LEMMA ModShift ==
  ASSUME NEW a \in Int, NEW b \in Int, NEW r \in Nat \ {0}
  PROVE  ((a % r) + b) % r = (a + b) % r
<1>1. PICK u \in Int, y \in Int : y = a % r /\ a = r * u + y
  BY DivMod
<1>2. PICK s \in Int, t \in Int : s = a + b /\ t = y + b
  BY <1>1
<1>3. PICK p \in Int : p = r * u
  BY <1>1
<1>4. s = t + p
  BY <1>1, <1>2, <1>3
<1>5. s = t + r * u
  BY <1>3, <1>4
<1>6. s % r = t % r
  BY <1>5, ModAdd
<1> QED
  BY <1>1, <1>2, <1>6

LEMMA ModShiftWhole ==
  ASSUME NEW a \in Int, NEW r \in Nat \ {0}
  PROVE  (a + r) % r = a % r
<1> DEFINE s == a + r
<1>1. s \in Int /\ 1 \in Int /\ s = a + r * 1
  OBVIOUS
<1> HIDE DEF s
<1>2. s % r = a % r
  BY <1>1, ModSame
<1> QED
  BY <1>2 DEF s

-----------------------------------------------------------------------------
(* The samples of the running pattern.                                     *)

USE GalvoAssumption DEF GalvoAssumption

KindTyped == kind \in Patterns \union {NoPattern} /\ static \in Sample

LEMMA RoundType ==
  ASSUME KindTyped
  PROVE  Round \in Nat \ {0}
BY DEF KindTyped, Round

LEMMA SampleType ==
  ASSUME KindTyped, NEW i \in Int
  PROVE  GenSample(i) \in Sample
<1>1. CASE kind = NoPattern
  BY <1>1 DEF KindTyped, GenSample
<1>2. CASE kind # NoPattern
  <2>1. i % Round \in Nat
    BY RoundType, ModRange
  <2>2. <<kind, i % Round>> \in Coord
    BY <1>2, <2>1 DEF KindTyped, Coord
  <2> QED
    BY <1>2, <2>2 DEF GenSample, Sample
<1> QED
  BY <1>1, <1>2

(* gen_sample() goes round. *)
LEMMA SampleShift ==
  ASSUME KindTyped, NEW a \in Int, NEW b \in Int
  PROVE  GenSample((a % Round) + b) = GenSample(a + b)
<1>1. ((a % Round) + b) % Round = (a + b) % Round
  BY RoundType, ModShift
<1> QED
  BY <1>1 DEF GenSample

LEMMA SampleWhole ==
  ASSUME KindTyped, NEW a \in Int
  PROVE  GenSample(a + Round) = GenSample(a)
<1>1. (a + Round) % Round = a % Round
  BY RoundType, ModShiftWhole
<1> QED
  BY <1>1 DEF GenSample

(* Every sample is one of the first round. *)
LEMMA SampleOnPath ==
  ASSUME KindTyped, NEW i \in Int
  PROVE  GenSample(i) \in Path
<1>1. i % Round \in 0 .. Round - 1 /\ i % Round \in Int
  BY RoundType, ModRange
<1>2. GenSample((i % Round) + 0) = GenSample(i + 0)
  BY SampleShift
<1>3. (i % Round) + 0 = i % Round /\ i + 0 = i
  BY <1>1
<1>4. GenSample(i % Round) = GenSample(i)
  BY <1>2, <1>3
<1> QED
  BY <1>1, <1>4 DEF Path

(* While the pattern stays, its samples stay. *)
LEMMA PatternStays ==
  ASSUME UNCHANGED pattern
  PROVE  /\ Round' = Round
         /\ Path' = Path
         /\ KindTyped' = KindTyped
         /\ \A i : GenSample(i)' = GenSample(i)
<1>1. kind' = kind /\ static' = static
  BY DEF pattern
<1>2. Round' = Round
  BY <1>1 DEF Round
<1>3. \A i : GenSample(i)' = GenSample(i)
  BY <1>1, <1>2 DEF GenSample
<1>4. Path' = Path
  BY <1>2, <1>3 DEF Path
<1> QED
  BY <1>1, <1>2, <1>3, <1>4 DEF KindTyped

-----------------------------------------------------------------------------
(* The type.  Between two changes the local next of full_buffer_refill()   *)
(* is not in use, and a frame being written is one of the two buffers.     *)

LocalsOK ==
  /\ pc \in {"idle", "stop", "start"} => k = 0 /\ lnext = 0
  /\ pc = "fill" => k < 2 * N
  /\ pc \in {"reload", "next"} => k = 2 * N

Typed == TypeOK /\ LocalsOK

LEMMA TypedInit == Init => Typed
<1> SUFFICES ASSUME Init PROVE Typed
  OBVIOUS
<1>1. kind = NoPattern
  BY DEF Init
<1>2. Still(Center) \in Sample
  BY DEF Still, Sample, Coord
<1>3. Round = 1
  BY <1>1 DEF Round
<1>4. frames \in [Buffer -> [0 .. N - 1 -> Sample]]
  BY <1>2 DEF Init
<1>5. snap \in Coord
  BY DEF Init, Coord
<1>6. next \in 0 .. Round - 1 /\ lnext \in 0 .. Round - 1 /\ k \in 0 .. 2 * N
  BY <1>3 DEF Init
<1>7. cur \in 0 .. N - 1 /\ swaps \in 0 .. FillSwaps /\ age \in 0 .. 2
  BY DEF Init
<1>8. static \in Sample /\ pos \in Sample
  BY <1>2 DEF Init
<1> QED
  BY <1>1, <1>4, <1>5, <1>6, <1>7, <1>8
  DEF Init, Typed, TypeOK, LocalsOK, Buffer

LEMMA RefillType ==
  ASSUME TypeOK, NEW b \in Buffer, RefillBuffer(b)
  PROVE  /\ frames' \in [Buffer -> [0 .. N - 1 -> Sample]]
         /\ next' \in 0 .. Round - 1
         /\ pos' \in Sample
<1>1. KindTyped /\ next \in Int /\ N \in Int
  BY RoundType DEF TypeOK, KindTyped
<1>2. \A i \in 0 .. N - 1 : GenSample(next + i) \in Sample
  BY <1>1, SampleType
<1>3. frames' \in [Buffer -> [0 .. N - 1 -> Sample]]
  BY <1>2 DEF RefillBuffer, TypeOK
<1>4. next' \in 0 .. Round - 1
  <2>1. next + N \in Int /\ Round \in Nat \ {0}
    BY <1>1, RoundType
  <2>2. (next + N) % Round \in 0 .. Round - 1
    BY <2>1, ModRange
  <2> QED
    BY <2>2 DEF RefillBuffer
<1>5. next + N - 1 \in Int
  BY <1>1
<1>6. pos' \in Sample
  BY <1>1, <1>5, SampleType DEF RefillBuffer
<1> QED
  BY <1>3, <1>4, <1>6

LEMMA InstallType ==
  ASSUME Typed, NEW from \in {"idle", "stop"},
         NEW q \in Patterns \union {NoPattern}, NEW s \in Sample,
         Install(from, q, s), testxy' \in {"IDLE", "CENTER", "CORNER"}
  PROVE  Typed'
<1>1. kind' = q /\ static' = s /\ next' = 0 /\ pc' = "start" /\ pc = from
      /\ k' = k /\ lnext' = lnext /\ swaps' = swaps /\ late' = FALSE /\ age' = 0
      /\ pos' = pos /\ frames' = frames /\ active' = active /\ cur' = cur
      /\ pending' = pending /\ snap' = <<Center, 0>>
  BY DEF Install, Step, ring
<1>2. KindTyped'
  BY <1>1 DEF KindTyped
<1>3. Round' \in Nat \ {0}
  BY <1>2, RoundType DEF KindTyped, Round
<1>4. lnext' = 0 /\ k' = 0
  BY <1>1 DEF Typed, LocalsOK
<1>5. snap' \in Coord
  BY <1>1 DEF Coord
<1>6. next' \in 0 .. Round' - 1 /\ lnext' \in 0 .. Round' - 1
      /\ k' \in 0 .. 2 * N /\ age' \in 0 .. 2
  <2>1. \A m \in Nat \ {0} : 0 \in 0 .. m - 1
    OBVIOUS
  <2>2. 0 \in 0 .. 2 * N /\ 0 \in 0 .. 2
    OBVIOUS
  <2> QED
    BY <1>1, <1>3, <1>4, <2>1, <2>2, Zenon
<1>7. TypeOK'
  BY <1>1, <1>2, <1>5, <1>6 DEF Typed, TypeOK, KindTyped
<1> QED
  BY <1>1, <1>4, <1>7 DEF Typed, LocalsOK

LEMMA StillType ==
  ASSUME NEW p \in Points
  PROVE  Still(p) \in Sample
BY DEF Still, Sample, Coord

LEMMA TypedStep == Typed /\ [Next]_vars => Typed'
<1> SUFFICES ASSUME Typed, [Next]_vars PROVE Typed'
  OBVIOUS
<1>a. TypeOK /\ LocalsOK /\ KindTyped /\ Round \in Nat \ {0}
  BY RoundType DEF Typed, TypeOK, KindTyped
<1>1. CASE Play
  <2>0. cur' \in 0 .. N - 1
    BY <1>a, <1>1 DEF Play, TypeOK
  <2>1. active' \in Buffer /\ cur' \in 0 .. N - 1 /\ pending' \in BOOLEAN
    BY <1>a, <1>1, <2>0, Zenon DEF Play, TypeOK, Buffer, Other
  <2>2. swaps' \in 0 .. FillSwaps
    BY <1>a, <1>1 DEF Play, TypeOK
  <2>3. Round' = Round
    BY <1>1 DEF Play, pattern, Round
  <2> QED
    BY <1>a, <1>1, <2>1, <2>2, <2>3
    DEF Play, Typed, TypeOK, LocalsOK, pattern, refill
<1>2. CASE DmaIsr
  <2>1. Other(active) \in Buffer
    BY DEF Other, Buffer
  <2>2. /\ frames' \in [Buffer -> [0 .. N - 1 -> Sample]]
        /\ next' \in 0 .. Round - 1
        /\ pos' \in Sample
    BY <1>a, <1>2, <2>1, RefillType DEF DmaIsr
  <2>3. Round' = Round
    BY <1>2 DEF DmaIsr, pattern, Round
  <2>4. late' \in BOOLEAN
    BY <1>2 DEF DmaIsr
  <2>5. age' \in 0 .. 2
    BY <1>a, <1>2 DEF DmaIsr, TypeOK
  <2> QED
    BY <1>a, <1>2, <2>2, <2>3, <2>4, <2>5
    DEF DmaIsr, Typed, TypeOK, LocalsOK, pattern, refill
<1>3. CASE BeginRefill
  <2>1. Round' = Round
    BY <1>3 DEF BeginRefill, pattern, Round
  <2> QED
    BY <1>a, <1>3, <2>1
    DEF BeginRefill, Step, Typed, TypeOK, LocalsOK, pattern, ring
<1>4. CASE FillFrame
  <2>1. Round' = Round
    BY <1>4 DEF FillFrame, pattern, Round
  <2>2. GenSample(lnext) \in Sample /\ lnext + 1 \in Int
    BY <1>a, SampleType DEF TypeOK
  <2>3. frames' \in [Buffer -> [0 .. N - 1 -> Sample]]
    BY <1>a, <1>4, <2>2 DEF FillFrame, TypeOK
  <2>4. lnext' \in 0 .. Round - 1
    BY <1>a, <1>4, <2>2, ModRange DEF FillFrame
  <2>5. k < 2 * N /\ k \in Nat /\ k' = k + 1
    BY <1>a, <1>4 DEF FillFrame, Step, TypeOK, LocalsOK
  <2>6. k' \in 0 .. 2 * N
    BY <2>5
  <2>7. LocalsOK'
    BY <1>a, <1>4, <2>5 DEF FillFrame, Step, LocalsOK
  <2>8. pc' \in {"fill", "reload"}
    BY <1>4 DEF FillFrame, Step
  <2> QED
    BY <1>a, <1>4, <2>1, <2>3, <2>4, <2>6, <2>7, <2>8
    DEF FillFrame, Typed, TypeOK, pattern
<1>5. CASE Reload
  <2>1. Round' = Round
    BY <1>5 DEF Reload, pattern, Round
  <2> QED
    BY <1>a, <1>5, <2>1
    DEF Reload, Step, Typed, TypeOK, LocalsOK, pattern, Buffer
<1>6. CASE PublishNext
  <2>1. Round' = Round
    BY <1>6 DEF PublishNext, pattern, Round
  <2> QED
    BY <1>a, <1>6, <2>1
    DEF PublishNext, Step, Typed, TypeOK, LocalsOK, pattern, ring
<1>b. ASSUME PublishX \/ PublishY
      PROVE  LastFilled \in Sample
  <2>1. lnext + Round - 1 \in Int
    BY <1>a DEF TypeOK
  <2> QED
    BY <1>a, <2>1, SampleType DEF LastFilled
<1>7. CASE PublishX
  <2>1. Round' = Round
    BY <1>7 DEF PublishX, pattern, Round
  <2>2. pos' \in Sample
    BY <1>a, <1>b, <1>7 DEF PublishX, Sample, TypeOK
  <2> QED
    BY <1>a, <1>7, <2>1, <2>2
    DEF PublishX, Step, Typed, TypeOK, LocalsOK, pattern, ring
<1>8. CASE PublishY
  <2>1. Round' = Round
    BY <1>8 DEF PublishY, pattern, Round
  <2>2. pos' \in Sample
    BY <1>a, <1>b, <1>8 DEF PublishY, Sample, TypeOK
  <2> QED
    BY <1>a, <1>8, <2>1, <2>2
    DEF PublishY, Step, Typed, TypeOK, LocalsOK, pattern, ring
<1>9. ASSUME NEW p \in Points, SetPosition(p)
      PROVE  Typed'
  BY <1>a, <1>9, InstallType, StillType DEF SetPosition, TypeOK
<1>10. ASSUME NEW p \in Patterns, StartPattern(p)
       PROVE  Typed'
  BY <1>a, <1>10, InstallType DEF StartPattern, TypeOK
<1>11. CASE StopReadX
  <2>1. Round' = Round
    BY <1>11 DEF StopReadX, pattern, Round
  <2>2. snap' \in Coord
    BY <1>a, <1>11 DEF StopReadX, Sample, TypeOK
  <2> QED
    BY <1>a, <1>11, <2>1, <2>2
    DEF StopReadX, Step, Typed, TypeOK, LocalsOK, pattern, ring
<1>12. CASE StopReadY
  <2>1. <<snap, pos[2]>> \in Sample
    BY <1>a DEF TypeOK, Sample
  <2> QED
    BY <1>a, <1>12, <2>1, InstallType DEF StopReadY, TypeOK
<1>13. CASE CmdTestxy
  BY <1>a, <1>13, InstallType, StillType DEF CmdTestxy, TypeOK
<1>14. CASE TestxyTick
  BY <1>a, <1>14, InstallType, StillType DEF TestxyTick, TypeOK
<1>15. CASE UNCHANGED vars
  BY <1>a, <1>15
  DEF vars, pattern, ring, refill, Typed, TypeOK, LocalsOK, Round
<1> QED
  BY <1>1, <1>2, <1>3, <1>4, <1>5, <1>6, <1>7, <1>8, <1>9, <1>10, <1>11,
     <1>12, <1>13, <1>14, <1>15 DEF Next, FullBufferRefill, Command

(* The types hold in every state of the engine. *)
THEOREM GalvoTyped == Spec => []TypeOK
<1>1. Spec => []Typed
  BY TypedInit, TypedStep, PTL DEF Spec
<1> QED
  BY <1>1, PTL DEF Typed

-----------------------------------------------------------------------------
(* No frame of the pattern before.  A frame counts from the moment the     *)
(* change has written it; an interrupt only writes more of the same.       *)

Written(b, i) ==
  \/ pc \notin {"start", "fill"}
  \/ pc = "fill" /\ b = "A" /\ i < k
  \/ pc = "fill" /\ b = "B" /\ i + N < k

WrittenOnPath ==
  \A b \in Buffer, i \in 0 .. N - 1 : Written(b, i) => frames[b][i] \in Path

LEMMA WrittenStep ==
  ASSUME Typed, WrittenOnPath, [Next]_vars
  PROVE  WrittenOnPath'
<1>a. TypeOK /\ LocalsOK /\ KindTyped
  BY DEF Typed, TypeOK, KindTyped
<1>b. ASSUME UNCHANGED <<pattern, frames>>,
             \A b \in Buffer, i \in 0 .. N - 1 :
               Written(b, i)' => Written(b, i)
      PROVE  WrittenOnPath'
  BY <1>b, PatternStays DEF WrittenOnPath
<1>c. ASSUME pc' = "start"
      PROVE  WrittenOnPath'
  BY <1>c DEF WrittenOnPath, Written
<1>1. CASE Play
  BY <1>b, <1>1 DEF Play, Written, refill
<1>2. CASE DmaIsr
  <2> DEFINE r == Other(active)
  <2>1. UNCHANGED pattern /\ UNCHANGED refill
    BY <1>2 DEF DmaIsr
  <2>2. frames' = [frames EXCEPT ![r] = [i \in 0 .. N - 1 |-> GenSample(next + i)]]
    BY <1>2 DEF DmaIsr, RefillBuffer
  <2>3. \A i \in 0 .. N - 1 : GenSample(next + i) \in Path
    <3>1. \A i \in 0 .. N - 1 : next + i \in Int
      BY <1>a, RoundType DEF TypeOK
    <3> QED
      BY <1>a, <3>1, SampleOnPath
  <2>4. Path' = Path
    BY <2>1, PatternStays
  <2>5. \A b \in Buffer, i \in 0 .. N - 1 : Written(b, i)' = Written(b, i)
    BY <2>1 DEF Written, refill
  <2>6. frames \in [Buffer -> [0 .. N - 1 -> Sample]]
    BY <1>a DEF TypeOK
  <2> HIDE DEF r
  <2> SUFFICES ASSUME NEW b \in Buffer, NEW i \in 0 .. N - 1, Written(b, i)
               PROVE  frames'[b][i] \in Path
    BY <2>4, <2>5 DEF WrittenOnPath
  <2>7. CASE b = r
    BY <2>2, <2>3, <2>6, <2>7
  <2>8. CASE b # r
    BY <2>2, <2>6, <2>8 DEF WrittenOnPath
  <2> QED
    BY <2>7, <2>8
<1>3. CASE BeginRefill
  <2>1. pc' = "fill" /\ k' = 0
    BY <1>3 DEF BeginRefill, Step
  <2>2. \A b \in Buffer, i \in 0 .. N - 1 : ~Written(b, i)'
    BY <2>1 DEF Written
  <2> QED
    BY <2>2 DEF WrittenOnPath
<1>4. CASE FillFrame
  <2>1. UNCHANGED pattern /\ pc = "fill" /\ k' = k + 1 /\ k < 2 * N /\ k \in Nat
        /\ pc' = IF k = 2 * N - 1 THEN "reload" ELSE "fill"
    BY <1>a, <1>4 DEF FillFrame, Step, TypeOK, LocalsOK
  <2>2. GenSample(lnext) \in Path
    <3>1. lnext \in Int
      BY <1>a, RoundType DEF TypeOK
    <3> QED
      BY <1>a, <3>1, SampleOnPath
  <2>3. Path' = Path
    BY <2>1, PatternStays
  <2>4. frames \in [Buffer -> [0 .. N - 1 -> Sample]]
    BY <1>a DEF TypeOK
  <2>5. frames' = IF k < N
                    THEN [frames EXCEPT !["A"][k] = GenSample(lnext)]
                    ELSE [frames EXCEPT !["B"][k - N] = GenSample(lnext)]
    BY <1>4 DEF FillFrame
  <2> SUFFICES ASSUME NEW b \in Buffer, NEW i \in 0 .. N - 1, Written(b, i)'
               PROVE  frames'[b][i] \in Path
    BY <2>3 DEF WrittenOnPath
  <2>6. CASE b = "A" /\ i = k
    BY <2>2, <2>4, <2>5, <2>6
  <2>7. CASE b = "B" /\ i + N = k
    <3>1. ~(k < N) /\ k - N = i
      BY <2>1, <2>7
    <3> QED
      BY <2>2, <2>4, <2>5, <2>7, <3>1
  <2>8. CASE ~(b = "A" /\ i = k) /\ ~(b = "B" /\ i + N = k)
    <3>a. \/ b = "A" /\ i < k'
          \/ b = "B" /\ i + N < k'
      <4>1. pc' = "fill" \/ k = 2 * N - 1
        BY <2>1
      <4>2. CASE pc' = "fill"
        BY <4>2 DEF Written, Buffer
      <4>3. CASE k = 2 * N - 1
        BY <2>1, <4>3 DEF Buffer
      <4> QED
        BY <4>1, <4>2, <4>3
    <3>1. \/ b = "A" /\ i < k
          \/ b = "B" /\ i + N < k
      BY <2>1, <2>8, <3>a
    <3>2. Written(b, i)
      BY <2>1, <3>1 DEF Written
    <3>3. frames'[b][i] = frames[b][i]
      <4>1. CASE k < N
        BY <2>1, <2>4, <2>5, <2>8, <4>1
      <4>2. CASE ~(k < N)
        <5>1. b = "B" => i # k - N
          BY <2>1, <2>8
        <5> QED
          BY <2>4, <2>5, <4>2, <5>1 DEF Buffer
      <4> QED
        BY <4>1, <4>2
    <3> QED
      BY <3>2, <3>3 DEF WrittenOnPath
  <2> QED
    BY <2>6, <2>7, <2>8
<1>5. CASE Reload
  BY <1>b, <1>5 DEF Reload, Step, Written
<1>6. CASE PublishNext
  BY <1>b, <1>6 DEF PublishNext, Step, Written, ring
<1>7. CASE PublishX
  BY <1>b, <1>7 DEF PublishX, Step, Written, ring
<1>8. CASE PublishY
  BY <1>b, <1>8 DEF PublishY, Step, Written, ring
<1>9. CASE StopReadX
  BY <1>b, <1>9 DEF StopReadX, Step, Written, ring
<1>10. CASE \/ \E p \in Points : SetPosition(p)
            \/ \E p \in Patterns : StartPattern(p)
            \/ StopReadY \/ CmdTestxy \/ TestxyTick
  BY <1>c, <1>10
  DEF SetPosition, StartPattern, StopReadY, CmdTestxy, TestxyTick, Install, Step
<1>11. CASE UNCHANGED vars
  BY <1>b, <1>11 DEF vars, ring, refill, Written
<1> QED
  BY <1>1, <1>2, <1>3, <1>4, <1>5, <1>6, <1>7, <1>8, <1>9, <1>10, <1>11
  DEF Next, FullBufferRefill, Command

LEMMA WrittenInit == Init => WrittenOnPath
<1> SUFFICES ASSUME Init PROVE WrittenOnPath
  OBVIOUS
<1>1. kind = NoPattern /\ KindTyped
  BY TypedInit DEF Init, Typed, TypeOK, KindTyped
<1>2. GenSample(0) = static /\ GenSample(0) \in Path
  BY <1>1, SampleOnPath DEF GenSample
<1>3. \A b \in Buffer, i \in 0 .. N - 1 : frames[b][i] = static
  BY DEF Init
<1> QED
  BY <1>2, <1>3 DEF WrittenOnPath

LEMMA AlwaysWritten == Spec => [](Typed /\ WrittenOnPath)
  BY TypedInit, TypedStep, WrittenInit, WrittenStep, PTL DEF Spec

(* Whenever the buffers run out during a change, and however many do, from *)
(* its reload on nothing of the pattern before it is left to be played.    *)
THEOREM BeamNeverGoesBack == Spec => []NoStaleFrame
<1>1. WrittenOnPath => NoStaleFrame
  BY DEF WrittenOnPath, Written, NoStaleFrame
<1> QED
  BY <1>1, AlwaysWritten, PTL

(* A point held is held: the monitor has nothing to report. *)
THEOREM HoldNeverDrifts == Spec => []MonitorSilent
<1>1. Typed /\ WrittenOnPath => MonitorSilent
  <2> SUFFICES ASSUME WrittenOnPath, pc = "idle", kind = NoPattern,
                      NEW b \in Buffer, NEW i \in 0 .. N - 1
               PROVE  frames[b][i] = static
    BY DEF MonitorSilent, RingDrift
  <2>1. frames[b][i] \in Path
    BY DEF WrittenOnPath, Written
  <2>2. \A s \in Path : s = static
    BY DEF Path, GenSample
  <2> QED
    BY <2>1, <2>2
<1> QED
  BY <1>1, AlwaysWritten, PTL

-----------------------------------------------------------------------------
(* The stream.  While a change fills the buffers, the frames written lead  *)
(* up to its local next; an interrupt then refills from where the change   *)
(* began, which rewrites the first buffer with the same and is undone by,  *)
(* or undoes, the second.                                                  *)

SwapsCounted ==
  /\ pc # "idle" /\ pending => swaps = 1
  /\ pc = "idle" => swaps = 0
  /\ ~Settled => age = 0

FillInOrder ==
  pc \in {"fill", "reload"} =>
    /\ ~late =>
         \A i \in 0 .. N - 1 :
           /\ i < k => frames["A"][i] = GenSample(lnext - k + i)
           /\ i + N < k => frames["B"][i] = GenSample(lnext - k + N + i)
    /\ swaps = 0 \/ pending => next = (lnext - k) % Round

LeadsTo(n) ==
  \A i \in 0 .. N - 1 :
    /\ frames["A"][i] = GenSample(n + i - 2 * N)
    /\ frames["B"][i] = GenSample(n + i - N)

ReloadedInOrder ==
  /\ pc = "next" => active = "A" /\ (~late => LeadsTo(lnext))
  /\ pc \in {"x", "y"} =>
       /\ active = "A" /\ ~pending /\ next = lnext
       /\ ~late => LeadsTo(next)

(* The buffer refilled last. *)
Refilled == IF pending THEN active ELSE Other(active)

SettledInOrder ==
  Settled =>
    /\ ~late \/ age = 2 => InOrder
    /\ age >= 1 =>
         \A i \in 0 .. N - 1 : frames[Refilled][i] = GenSample(next + i - N)

Stream == SwapsCounted /\ FillInOrder /\ ReloadedInOrder /\ SettledInOrder

(* What g_pos says of the frames queued. *)
Position ==
  /\ Settled => pos = GenSample(next - 1)
  /\ pc = "y" => pos[1] = GenSample(lnext - 1)[1]
  /\ pc = "stop" =>
       /\ swaps = 0 \/ pending => snap = GenSample(next - 1)[1]
       /\ swaps = 1 /\ ~pending => snap = GenSample(next - N - 1)[1]

(* Primed, while the pattern stays: its samples are the same.              *)
LEMMA StaysInOrder ==
  ASSUME UNCHANGED pattern
  PROVE  InOrder' <=>
           \A i \in 0 .. N - 1 :
             IF pending'
               THEN frames'[active'][i] = GenSample(next' + i - N)
               ELSE /\ frames'[active'][i] = GenSample(next' + i - 2 * N)
                    /\ frames'[Other(active')][i] = GenSample(next' + i - N)
BY DEF pattern, InOrder, GenSample, Round, Other

LEMMA StaysRefilled ==
  ASSUME UNCHANGED pattern,
         \A i \in 0 .. N - 1 :
           frames'[IF pending' THEN active' ELSE Other(active')][i]
             = GenSample(next' + i - N)
  PROVE  (\A i \in 0 .. N - 1 : frames[Refilled][i] = GenSample(next + i - N))'
BY DEF pattern, Refilled, GenSample, Round, Other

LEMMA StaysFill ==
  ASSUME UNCHANGED pattern
  PROVE  FillInOrder' <=>
           (pc' \in {"fill", "reload"} =>
              /\ ~late' =>
                   \A i \in 0 .. N - 1 :
                     /\ i < k' => frames'["A"][i] = GenSample(lnext' - k' + i)
                     /\ i + N < k' =>
                          frames'["B"][i] = GenSample(lnext' - k' + N + i)
              /\ swaps' = 0 \/ pending' => next' = (lnext' - k') % Round)
BY DEF pattern, FillInOrder, GenSample, Round

LEMMA StaysLeading ==
  ASSUME UNCHANGED pattern
  PROVE  /\ LeadsTo(lnext)' <=>
              \A i \in 0 .. N - 1 :
                /\ frames'["A"][i] = GenSample(lnext' + i - 2 * N)
                /\ frames'["B"][i] = GenSample(lnext' + i - N)
         /\ LeadsTo(next)' <=>
              \A i \in 0 .. N - 1 :
                /\ frames'["A"][i] = GenSample(next' + i - 2 * N)
                /\ frames'["B"][i] = GenSample(next' + i - N)
BY DEF pattern, LeadsTo, GenSample, Round

LEMMA StaysPosition ==
  ASSUME UNCHANGED pattern
  PROVE  Position' <=>
           /\ Settled' => pos' = GenSample(next' - 1)
           /\ pc' = "y" => pos'[1] = GenSample(lnext' - 1)[1]
           /\ pc' = "stop" =>
                /\ swaps' = 0 \/ pending' => snap' = GenSample(next' - 1)[1]
                /\ swaps' = 1 /\ ~pending' =>
                     snap' = GenSample(next' - N - 1)[1]
BY DEF pattern, Position, GenSample, Round, Settled

-----------------------------------------------------------------------------
(* The stream is kept, action by action.                                   *)

OneSwap == FillSwaps <= 1

LEMMA InstallStream ==
  ASSUME Typed, Stream, NEW from \in {"idle", "stop"}, NEW q, NEW s,
         Install(from, q, s)
  PROVE  Stream' /\ Position'
<1>1. pc' = "start" /\ age' = 0 /\ ~pending' /\ ~Settled'
  BY DEF Install, Step, ring, Settled
<1>2. SwapsCounted'
  BY <1>1 DEF SwapsCounted
<1>3. FillInOrder' /\ ReloadedInOrder' /\ SettledInOrder'
  BY <1>1 DEF FillInOrder, ReloadedInOrder, SettledInOrder
<1> QED
  BY <1>1, <1>2, <1>3 DEF Stream, Position

(* The same predicates, of the same values. *)
LEMMA StreamStays ==
  ASSUME Stream, Position,
         UNCHANGED <<pattern, next, pos, frames, active, pending, pc, k, lnext,
                     snap, swaps, late, age>>
  PROVE  Stream' /\ Position'
BY DEF Stream, Position, SwapsCounted, FillInOrder, ReloadedInOrder, LeadsTo,
       SettledInOrder, InOrder, Refilled, Settled, GenSample, Round, pattern

LEMMA PlayStream ==
  ASSUME OneSwap, Typed, Stream, Position, Play
  PROVE  Stream' /\ Position'
<1>a. UNCHANGED <<pattern, next, pos, frames, pc, k, lnext, snap, late, age>>
  BY DEF Play, refill
<1>b. UNCHANGED pattern
  BY <1>a
<1>1. CASE UNCHANGED <<active, pending, swaps>>
  BY <1>a, <1>1, StreamStays
<1>2. CASE ~UNCHANGED <<active, pending, swaps>>
  <2>1. /\ ~pending /\ pending' = TRUE /\ pc \notin {"next", "x", "y"}
        /\ active' = Other(active)
        /\ pc # "idle" => swaps < FillSwaps
        /\ swaps' = IF pc = "idle" THEN 0 ELSE swaps + 1
    BY <1>2 DEF Play
  <2>2. pc # "idle" => swaps = 0 /\ swaps' = 1
    BY <2>1 DEF OneSwap, Typed, TypeOK
  <2>3. SwapsCounted'
    BY <1>a, <2>1, <2>2 DEF Stream, SwapsCounted, Settled
  <2>4. FillInOrder'
    BY <1>a, <1>b, <2>2, StaysFill DEF Stream, FillInOrder
  <2>5. ReloadedInOrder'
    BY <1>a, <2>1 DEF ReloadedInOrder
  <2>6. SettledInOrder'
    <3> SUFFICES ASSUME Settled
                 PROVE  /\ ~late \/ age = 2 => InOrder'
                        /\ age >= 1 => (\A i \in 0 .. N - 1 :
                             frames[Refilled][i] = GenSample(next + i - N))'
      BY <1>a DEF SettledInOrder, Settled
    <3>1. ASSUME ~late \/ age = 2
          PROVE  InOrder'
      BY <1>a, <1>b, <2>1, <3>1, StaysInOrder
      DEF Stream, SettledInOrder, InOrder
    <3>2. ASSUME age >= 1
          PROVE  (\A i \in 0 .. N - 1 :
                    frames[Refilled][i] = GenSample(next + i - N))'
      BY <1>a, <1>b, <2>1, <3>2, StaysRefilled
      DEF Stream, SettledInOrder, Refilled
    <3> QED
      BY <3>1, <3>2
  <2>7. Position'
    BY <1>a, <1>b, <2>1, <2>2, StaysPosition DEF Position, Settled
  <2> QED
    BY <2>3, <2>4, <2>5, <2>6, <2>7 DEF Stream
<1> QED
  BY <1>1, <1>2

LEMMA IsrStream ==
  ASSUME Typed, Stream, Position, DmaIsr
  PROVE  Stream' /\ Position'
<1> DEFINE r == Other(active)
<1>a. TypeOK /\ KindTyped /\ Round \in Nat \ {0} /\ next \in Int /\ lnext \in Int
      /\ k \in Nat /\ N \in Nat \ {0}
  BY RoundType DEF Typed, TypeOK, KindTyped
<1>1. /\ UNCHANGED <<pattern, active, cur, pc, k, lnext, snap, swaps>>
      /\ pending /\ pending' = FALSE
      /\ frames' = [frames EXCEPT ![r] = [i \in 0 .. N - 1 |-> GenSample(next + i)]]
      /\ next' = (next + N) % Round
      /\ pos' = GenSample(next + N - 1)
      /\ late' = (late \/ Interrupted(r))
      /\ age' = IF pc \in {"idle", "stop"} /\ age < 2 THEN age + 1 ELSE age
  BY DEF DmaIsr, RefillBuffer, refill
<1>b. UNCHANGED pattern
  BY <1>1
<1>2. /\ r \in Buffer /\ active \in Buffer /\ r # active
      /\ Other(active) = r
  BY <1>a DEF Other, Buffer, TypeOK
<1> HIDE DEF r
<1>3. /\ \A i \in 0 .. N - 1 : frames'[r][i] = GenSample(next + i)
      /\ \A i \in 0 .. N - 1 : frames'[active][i] = frames[active][i]
  BY <1>a, <1>1, <1>2 DEF TypeOK
<1>4. next' \in Int
  BY <1>a, <1>1, ModRange
<1>5. \A c \in Int : GenSample(next' + c) = GenSample(next + N + c)
  <2>1. next + N \in Int
    BY <1>a
  <2> QED
    BY <1>a, <1>1, <2>1, SampleShift
<1>6. SwapsCounted'
  BY <1>1 DEF Stream, SwapsCounted, Settled
<1>7. FillInOrder'
  <2> SUFFICES ASSUME pc \in {"fill", "reload"}
               PROVE  /\ ~late' =>
                          \A i \in 0 .. N - 1 :
                            /\ i < k => frames'["A"][i] = GenSample(lnext - k + i)
                            /\ i + N < k =>
                                 frames'["B"][i] = GenSample(lnext - k + N + i)
                      /\ ~(swaps' = 0 \/ pending')
    BY <1>1, <1>b, StaysFill
  <2>1. swaps = 1
    BY <1>1 DEF Stream, SwapsCounted
  <2>2. next = (lnext - k) % Round
    BY <1>1 DEF Stream, FillInOrder
  <2>3. ASSUME NEW i \in 0 .. N - 1
        PROVE  GenSample(next + i) = GenSample(lnext - k + i)
    <3>1. lnext - k \in Int /\ i \in Int
      BY <1>a
    <3> QED
      BY <1>a, <2>2, <3>1, SampleShift
  <2>4. ASSUME ~late', NEW i \in 0 .. N - 1
        PROVE  /\ i < k => frames'["A"][i] = GenSample(lnext - k + i)
               /\ i + N < k => frames'["B"][i] = GenSample(lnext - k + N + i)
    <3>1. ~late /\ ~Interrupted(r)
      BY <1>1, <2>4
    <3>2. /\ i < k => frames["A"][i] = GenSample(lnext - k + i)
          /\ i + N < k => frames["B"][i] = GenSample(lnext - k + N + i)
      BY <2>4, <3>1 DEF Stream, FillInOrder
    <3>3. CASE r = "A"
      BY <1>2, <1>3, <2>3, <3>2, <3>3 DEF Buffer
    <3>4. CASE r = "B"
      <4>1. ~(i + N < k)
        BY <1>a, <3>1, <3>4 DEF Interrupted
      <4> QED
        BY <1>2, <1>3, <3>2, <3>4, <4>1 DEF Buffer
    <3> QED
      BY <1>2, <3>3, <3>4 DEF Buffer
  <2> QED
    BY <1>1, <2>1, <2>4
<1>8. ReloadedInOrder'
  <2>1. pc \notin {"x", "y"}
    BY <1>1 DEF Stream, ReloadedInOrder
  <2>2. pc = "next" => active = "A" /\ late'
    BY <1>1 DEF Stream, ReloadedInOrder, Interrupted
  <2> QED
    BY <1>1, <2>1, <2>2 DEF ReloadedInOrder
<1>9. SettledInOrder'
  <2> SUFFICES ASSUME Settled
               PROVE  /\ ~late' \/ age' = 2 => InOrder'
                      /\ (\A i \in 0 .. N - 1 :
                             frames[Refilled][i] = GenSample(next + i - N))'
    BY <1>1 DEF SettledInOrder, Settled
  <2>1. \A i \in 0 .. N - 1 : frames'[r][i] = GenSample(next' + i - N)
    <3> SUFFICES ASSUME NEW i \in 0 .. N - 1
                 PROVE  GenSample(next' + i - N) = GenSample(next + i)
      BY <1>3
    <3>1. i - N \in Int /\ next' + i - N = next' + (i - N)
          /\ next + N + (i - N) = next + i
      BY <1>a, <1>4
    <3> QED
      BY <1>5, <3>1
  <2>2. (\A i \in 0 .. N - 1 : frames[Refilled][i] = GenSample(next + i - N))'
    BY <1>1, <1>b, <1>2, <2>1, StaysRefilled
  <2>3. ASSUME ~late' \/ age' = 2
        PROVE  InOrder'
    <3>1. ~late \/ age = 2 \/ age >= 1
      BY <1>a, <1>1, <2>3 DEF Settled, TypeOK
    <3>2. \A i \in 0 .. N - 1 : frames[active][i] = GenSample(next + i - N)
      BY <1>1, <3>1 DEF Stream, SettledInOrder, InOrder, Refilled
    <3>3. \A i \in 0 .. N - 1 : frames'[active][i] = GenSample(next' + i - 2 * N)
      <4> SUFFICES ASSUME NEW i \in 0 .. N - 1
                   PROVE  GenSample(next' + i - 2 * N) = GenSample(next + i - N)
        BY <1>3, <3>2
      <4>1. i - 2 * N \in Int /\ next' + i - 2 * N = next' + (i - 2 * N)
            /\ next + N + (i - 2 * N) = next + i - N
        BY <1>a, <1>4
      <4> QED
        BY <1>5, <4>1
    <3> QED
      BY <1>1, <1>b, <1>2, <2>1, <3>3, StaysInOrder
  <2> QED
    BY <2>2, <2>3
<1>10. Position'
  <2>1. pos' = GenSample(next' - 1)
    <3>1. -1 \in Int /\ next' + (-1) = next' - 1 /\ next + N + (-1) = next + N - 1
      BY <1>a, <1>4
    <3> QED
      BY <1>1, <1>5, <3>1
  <2>2. pc # "y"
    BY <1>1 DEF Stream, ReloadedInOrder
  <2>3. pc = "stop" => swaps = 1 /\ snap = GenSample(next - 1)[1]
    BY <1>1 DEF Stream, SwapsCounted, Position
  <2>4. GenSample(next' - N - 1) = GenSample(next - 1)
    <3>1. -N - 1 \in Int /\ next' + (-N - 1) = next' - N - 1
          /\ next + N + (-N - 1) = next - 1
      BY <1>a, <1>4
    <3> QED
      BY <1>5, <3>1
  <2> QED
    BY <1>1, <1>b, <2>1, <2>2, <2>3, <2>4, StaysPosition
<1> QED
  BY <1>6, <1>7, <1>8, <1>9, <1>10 DEF Stream

LEMMA FillStream ==
  ASSUME Typed, Stream, FillFrame
  PROVE  Stream' /\ Position'
<1>a. TypeOK /\ KindTyped /\ Round \in Nat \ {0} /\ next \in Int /\ lnext \in Int
      /\ k \in Nat /\ k < 2 * N /\ N \in Nat \ {0} /\ pc = "fill"
  BY RoundType DEF Typed, TypeOK, LocalsOK, KindTyped, FillFrame, Step
<1>1. /\ UNCHANGED <<pattern, next, active, pending, swaps, late, age>>
      /\ pc' \in {"fill", "reload"}
      /\ frames' = IF k < N
                     THEN [frames EXCEPT !["A"][k] = GenSample(lnext)]
                     ELSE [frames EXCEPT !["B"][k - N] = GenSample(lnext)]
      /\ k' = k + 1
      /\ lnext' = (lnext + 1) % Round
  BY DEF FillFrame, Step
<1>b. UNCHANGED pattern
  BY <1>1
<1>2. ~Settled /\ ~Settled' /\ pc' \notin {"next", "x", "y", "stop", "idle"}
  BY <1>a, <1>1 DEF Settled
<1>3. SwapsCounted'
  BY <1>1, <1>2, <1>a DEF Stream, SwapsCounted
<1>4. lnext' \in Int
  BY <1>a, <1>1, ModRange
<1>5. \A c \in Int : GenSample(lnext' - k' + c) = GenSample(lnext - k + c)
  <2> SUFFICES ASSUME NEW c \in Int
               PROVE  GenSample(lnext' - k' + c) = GenSample(lnext - k + c)
    OBVIOUS
  <2>1. c - k - 1 \in Int /\ lnext + 1 \in Int
        /\ lnext' - k' + c = lnext' + (c - k - 1)
        /\ lnext + 1 + (c - k - 1) = lnext - k + c
    BY <1>a, <1>1, <1>4
  <2> QED
    BY <1>a, <1>1, <2>1, SampleShift
<1>6. (lnext' - k') % Round = (lnext - k) % Round
  <2>1. -k - 1 \in Int /\ lnext + 1 \in Int /\ lnext' - k' = lnext' + (-k - 1)
        /\ (lnext + 1) + (-k - 1) = lnext - k
    BY <1>a, <1>1, <1>4
  <2>2. (((lnext + 1) % Round) + (-k - 1)) % Round
          = ((lnext + 1) + (-k - 1)) % Round
    BY <1>a, <2>1, ModShift
  <2> QED
    BY <1>1, <2>1, <2>2
<1>7. FillInOrder'
  <2> SUFFICES /\ ~late =>
                    \A i \in 0 .. N - 1 :
                      /\ i < k' => frames'["A"][i] = GenSample(lnext' - k' + i)
                      /\ i + N < k' =>
                           frames'["B"][i] = GenSample(lnext' - k' + N + i)
               /\ swaps = 0 \/ pending => next = (lnext' - k') % Round
    BY <1>1, <1>b, StaysFill
  <2>1. swaps = 0 \/ pending => next = (lnext' - k') % Round
    BY <1>a, <1>6 DEF Stream, FillInOrder
  <2>2. ASSUME ~late, NEW i \in 0 .. N - 1
        PROVE  /\ i < k' => frames'["A"][i] = GenSample(lnext' - k' + i)
               /\ i + N < k' => frames'["B"][i] = GenSample(lnext' - k' + N + i)
    <3>1. GenSample(lnext' - k' + i) = GenSample(lnext - k + i)
      BY <1>5
    <3>2. GenSample(lnext' - k' + N + i) = GenSample(lnext - k + N + i)
      <4>1. N + i \in Int /\ lnext' - k' + N + i = lnext' - k' + (N + i)
            /\ lnext - k + N + i = lnext - k + (N + i)
        BY <1>a, <1>1, <1>4
      <4> QED
        BY <1>5, <4>1
    <3>3. /\ i < k => frames["A"][i] = GenSample(lnext - k + i)
          /\ i + N < k => frames["B"][i] = GenSample(lnext - k + N + i)
      BY <1>a, <2>2 DEF Stream, FillInOrder
    <3>4. frames \in [Buffer -> [0 .. N - 1 -> Sample]]
          /\ "A" \in Buffer /\ "B" \in Buffer
      BY <1>a DEF TypeOK, Buffer
    <3>5. i < k' => frames'["A"][i] = GenSample(lnext - k + i)
      <4>1. CASE i = k
        <5>1. lnext - k + i = lnext /\ k < N
          BY <1>a, <4>1
        <5>2. frames'["A"][i] = GenSample(lnext)
          BY <1>1, <3>4, <4>1, <5>1
        <5> QED
          BY <5>1, <5>2
      <4>2. CASE i # k
        <5>1. i < k' => i < k
          BY <1>a, <1>1, <4>2
        <5>2. frames'["A"][i] = frames["A"][i]
          BY <1>1, <3>4, <4>2
        <5> QED
          BY <3>3, <5>1, <5>2
      <4> QED
        BY <4>1, <4>2
    <3>6. i + N < k' => frames'["B"][i] = GenSample(lnext - k + N + i)
      <4>1. CASE i + N = k
        <5>1. lnext - k + N + i = lnext /\ ~(k < N) /\ k - N = i
          BY <1>a, <4>1
        <5>2. frames'["B"][i] = GenSample(lnext)
          BY <1>1, <3>4, <5>1
        <5> QED
          BY <5>1, <5>2
      <4>2. CASE i + N # k
        <5>1. i + N < k' => i + N < k
          BY <1>a, <1>1, <4>2
        <5>2. i # k - N
          BY <1>a, <4>2
        <5>3. frames'["B"][i] = frames["B"][i]
          BY <1>1, <3>4, <5>2
        <5> QED
          BY <3>3, <5>1, <5>3
      <4> QED
        BY <4>1, <4>2
    <3> QED
      BY <3>1, <3>2, <3>5, <3>6
  <2> QED
    BY <2>1, <2>2
<1>8. ReloadedInOrder' /\ SettledInOrder' /\ Position'
  BY <1>2 DEF ReloadedInOrder, SettledInOrder, Position
<1> QED
  BY <1>3, <1>7, <1>8 DEF Stream

LEMMA BeginStream ==
  ASSUME Typed, Stream, BeginRefill
  PROVE  Stream' /\ Position'
<1>1. /\ UNCHANGED <<pattern, next, frames, active, pending, swaps, late, age>>
      /\ pc = "start" /\ pc' = "fill" /\ ~pending /\ k' = 0 /\ lnext' = next
  BY DEF BeginRefill, Step, ring
<1>2. next % Round = next
  <2>1. Round \in Nat \ {0} /\ next \in 0 .. Round - 1
    BY RoundType DEF Typed, TypeOK, KindTyped
  <2> QED
    BY <2>1, ModOfRemainder
<1>3. next \in Int /\ N \in Nat
  BY RoundType DEF Typed, TypeOK, KindTyped
<1>4. (lnext' - k') % Round = next
  <2>1. lnext' - k' = next
    BY <1>1, <1>3
  <2> QED
    BY <1>2, <2>1
<1>5. \A i \in 0 .. N - 1 : ~(i < k') /\ ~(i + N < k')
  BY <1>1, <1>3
<1>6. FillInOrder'
  BY <1>1, <1>4, <1>5, StaysFill
<1>7. SwapsCounted'
  BY <1>1 DEF Stream, SwapsCounted, Settled
<1>8. ReloadedInOrder' /\ SettledInOrder' /\ Position'
  BY <1>1 DEF ReloadedInOrder, SettledInOrder, Position, Settled
<1> QED
  BY <1>6, <1>7, <1>8 DEF Stream

LEMMA ReloadStream ==
  ASSUME Typed, Stream, Reload
  PROVE  Stream' /\ Position'
<1>1. /\ UNCHANGED <<pattern, next, frames, pending, k, lnext, swaps, late, age>>
      /\ pc = "reload" /\ pc' = "next" /\ active' = "A"
  BY DEF Reload, Step
<1>b. UNCHANGED pattern
  BY <1>1
<1>2. k = 2 * N /\ lnext \in Int /\ N \in Nat \ {0}
  BY <1>1, RoundType DEF Typed, TypeOK, LocalsOK, KindTyped
<1>3. ASSUME ~late, NEW i \in 0 .. N - 1
      PROVE  /\ frames["A"][i] = GenSample(lnext + i - 2 * N)
             /\ frames["B"][i] = GenSample(lnext + i - N)
  <2>1. i < k /\ i + N < k
        /\ lnext - k + i = lnext + i - 2 * N
        /\ lnext - k + N + i = lnext + i - N
    BY <1>2
  <2>2. /\ frames["A"][i] = GenSample(lnext - k + i)
        /\ frames["B"][i] = GenSample(lnext - k + N + i)
    BY <1>1, <1>3, <2>1 DEF Stream, FillInOrder
  <2> QED
    BY <2>1, <2>2
<1>4. ~late' => LeadsTo(lnext)'
  BY <1>1, <1>b, <1>3, StaysLeading
<1>5. ReloadedInOrder'
  BY <1>1, <1>4 DEF ReloadedInOrder
<1>6. SwapsCounted'
  BY <1>1 DEF Stream, SwapsCounted, Settled
<1>7. FillInOrder' /\ SettledInOrder' /\ Position'
  BY <1>1 DEF FillInOrder, SettledInOrder, Position, Settled
<1> QED
  BY <1>5, <1>6, <1>7 DEF Stream

(* The last sample of the refill is the one before the next. *)
LEMMA LastIsBeforeNext ==
  ASSUME Typed
  PROVE  LastFilled = GenSample(lnext - 1)
<1>1. KindTyped /\ Round \in Nat \ {0} /\ lnext \in Int
  BY RoundType DEF Typed, TypeOK, KindTyped
<1>2. lnext - 1 \in Int /\ (lnext - 1) + Round = lnext + Round - 1
  BY <1>1
<1> QED
  BY <1>1, <1>2, SampleWhole DEF LastFilled

LEMMA PublishStream ==
  ASSUME Typed, Stream, Position, PublishNext \/ PublishX \/ PublishY
  PROVE  Stream' /\ Position'
<1>a. KindTyped /\ lnext - 1 \in Int /\ pos \in Sample
  BY RoundType DEF Typed, TypeOK, KindTyped
<1>b. GenSample(lnext - 1) \in Sample
  BY <1>a, SampleType
<1>1. CASE PublishNext
  <2>1. /\ UNCHANGED <<pattern, frames, active, pending, lnext, swaps, late, age>>
        /\ pc = "next" /\ pc' = "x" /\ ~pending /\ next' = lnext
    BY <1>1 DEF PublishNext, Step, ring
  <2>2. ~late => LeadsTo(lnext)
    BY <2>1 DEF Stream, ReloadedInOrder
  <2>3. ~late' => LeadsTo(next)'
    BY <2>1, <2>2, StaysLeading DEF LeadsTo
  <2>4. ReloadedInOrder'
    BY <2>1, <2>3 DEF Stream, ReloadedInOrder
  <2>5. SwapsCounted'
    BY <2>1 DEF Stream, SwapsCounted, Settled
  <2>6. FillInOrder' /\ SettledInOrder' /\ Position'
    BY <2>1 DEF FillInOrder, SettledInOrder, Position, Settled
  <2> QED
    BY <2>4, <2>5, <2>6 DEF Stream
<1>2. CASE PublishX
  <2>1. /\ UNCHANGED <<pattern, next, frames, active, pending, lnext, swaps,
                        late, age>>
        /\ pc = "x" /\ pc' = "y" /\ pos' = <<LastFilled[1], pos[2]>>
    BY <1>2 DEF PublishX, Step, ring
  <2>b. UNCHANGED pattern
    BY <2>1
  <2>2. ~late => LeadsTo(next)
    BY <2>1 DEF Stream, ReloadedInOrder
  <2>3. ~late' => LeadsTo(next)'
    BY <2>1, <2>2, StaysLeading DEF LeadsTo
  <2>4. ReloadedInOrder'
    BY <2>1, <2>3 DEF Stream, ReloadedInOrder
  <2>5. SwapsCounted'
    BY <2>1 DEF Stream, SwapsCounted, Settled
  <2>6. FillInOrder' /\ SettledInOrder'
    BY <2>1 DEF FillInOrder, SettledInOrder, Settled
  <2>7. pos'[1] = GenSample(lnext' - 1)[1]
    BY <2>1, LastIsBeforeNext
  <2>8. Position'
    BY <2>1, <2>b, <2>7, StaysPosition DEF Settled
  <2> QED
    BY <2>4, <2>5, <2>6, <2>8 DEF Stream
<1>3. CASE PublishY
  <2>1. /\ UNCHANGED <<pattern, next, frames, active, pending, late, age>>
        /\ pc = "y" /\ pc' = "idle" /\ pos' = <<pos[1], LastFilled[2]>>
        /\ swaps' = 0
    BY <1>3 DEF PublishY, Step, ring
  <2>b. UNCHANGED pattern
    BY <2>1
  <2>2. active = "A" /\ ~pending /\ next = lnext /\ (~late => LeadsTo(next))
    BY <2>1 DEF Stream, ReloadedInOrder
  <2>3. age = 0
    BY <2>1 DEF Stream, SwapsCounted, Settled
  <2>4. ~late => InOrder'
    BY <2>1, <2>b, <2>2, StaysInOrder DEF LeadsTo, Other
  <2>5. SettledInOrder'
    BY <2>1, <2>3, <2>4 DEF SettledInOrder
  <2>6. SwapsCounted'
    BY <2>1, <2>3 DEF SwapsCounted, Settled
  <2>7. FillInOrder' /\ ReloadedInOrder'
    BY <2>1 DEF FillInOrder, ReloadedInOrder
  <2>8. pos' = GenSample(next' - 1)
    <3>1. pos' = <<GenSample(lnext - 1)[1], GenSample(lnext - 1)[2]>>
      BY <2>1, LastIsBeforeNext DEF Position
    <3> QED
      BY <1>b, <2>1, <2>2, <3>1 DEF Sample
  <2>9. Position'
    BY <2>1, <2>b, <2>8, StaysPosition
  <2> QED
    BY <2>5, <2>6, <2>7, <2>9 DEF Stream
<1> QED
  BY <1>1, <1>2, <1>3

LEMMA StopStream ==
  ASSUME Typed, Stream, Position, StopReadX
  PROVE  Stream' /\ Position'
<1>1. /\ UNCHANGED <<pattern, next, pos, frames, active, pending, k, lnext,
                      swaps, late, age>>
      /\ pc = "idle" /\ pc' = "stop" /\ ~pending /\ snap' = pos[1]
  BY DEF StopReadX, Step, ring
<1>b. UNCHANGED pattern
  BY <1>1
<1>2. swaps = 0 /\ Settled /\ Settled'
  BY <1>1 DEF Stream, SwapsCounted, Settled
<1>3. SwapsCounted'
  BY <1>1, <1>2 DEF Stream, SwapsCounted
<1>4. FillInOrder' /\ ReloadedInOrder'
  BY <1>1 DEF FillInOrder, ReloadedInOrder
<1>5. ~late \/ age = 2 => InOrder'
  BY <1>1, <1>b, <1>2, StaysInOrder DEF Stream, SettledInOrder, InOrder
<1>6. age >= 1 => (\A i \in 0 .. N - 1 :
                     frames[Refilled][i] = GenSample(next + i - N))'
  BY <1>1, <1>b, <1>2, StaysRefilled DEF Stream, SettledInOrder, Refilled
<1>7. SettledInOrder'
  BY <1>1, <1>5, <1>6 DEF SettledInOrder
<1>8. Position'
  BY <1>1, <1>b, <1>2, StaysPosition DEF Position
<1> QED
  BY <1>3, <1>4, <1>7, <1>8 DEF Stream

LEMMA StreamStep ==
  ASSUME OneSwap, Typed, Stream, Position, [Next]_vars
  PROVE  Stream' /\ Position'
<1>1. CASE \/ \E p \in Points : SetPosition(p)
           \/ \E p \in Patterns : StartPattern(p)
           \/ StopReadY \/ CmdTestxy \/ TestxyTick
  BY <1>1, InstallStream
  DEF SetPosition, StartPattern, StopReadY, CmdTestxy, TestxyTick
<1>2. CASE UNCHANGED vars
  BY <1>2, StreamStays DEF vars, ring, refill
<1> QED
  BY <1>1, <1>2, PlayStream, IsrStream, BeginStream, FillStream, ReloadStream,
     PublishStream, StopStream DEF Next, FullBufferRefill, Command

LEMMA StreamInit == Init => Stream /\ Position
<1> SUFFICES ASSUME Init PROVE Stream /\ Position
  OBVIOUS
<1>1. \A i : GenSample(i) = Still(Center)
  BY DEF Init, GenSample
<1>2. frames = [b \in Buffer |-> [i \in 0 .. N - 1 |-> Still(Center)]]
      /\ active = "A" /\ ~pending /\ pc = "idle" /\ swaps = 0 /\ age = 0
      /\ pos = Still(Center)
  BY DEF Init
<1>3. InOrder
  BY <1>1, <1>2 DEF InOrder, Other, Buffer
<1> QED
  BY <1>1, <1>2, <1>3
  DEF Stream, SwapsCounted, FillInOrder, ReloadedInOrder, SettledInOrder,
      Position, Settled

LEMMA AlwaysStream ==
  ASSUME OneSwap
  PROVE  Spec => [](Typed /\ Stream /\ Position)
<1>1. Typed /\ Stream /\ Position /\ [Next]_vars => (Typed /\ Stream /\ Position)'
  BY TypedStep, StreamStep
<1>2. Init => Typed /\ Stream /\ Position
  BY TypedInit, StreamInit
<1> QED
  BY <1>1, <1>2, PTL DEF Spec

(* While at most one buffer ends during a change, the stream skips and     *)
(* repeats nothing after a change that no interrupt undid in part, and     *)
(* after any other from its second interrupt on.                           *)
THEOREM StreamAlwaysInOrder ==
  ASSUME OneSwap
  PROVE  Spec => []StreamInOrder
<1>1. Typed /\ Stream /\ Position => StreamInOrder
  BY DEF Stream, SettledInOrder, StreamInOrder
<1> QED
  BY <1>1, AlwaysStream, PTL

(* g_pos is the last sample queued, and what a stop has read of it before  *)
(* a buffer ran out is the last of the buffer now being read: both are     *)
(* still to be played.                                                     *)
LEMMA StopQueued ==
  ASSUME OneSwap, Typed, Stream, Position, StopReadY, ~late \/ age = 2
  PROVE  \E s, t \in Ahead :
           static' = <<s[1], t[2]>> /\ (swaps = 0 => s = t)
<1>1. pc = "stop" /\ ~pending /\ static' = <<snap, pos[2]>>
  BY DEF StopReadY, Install, Step
<1>2. N - 1 \in 0 .. N - 1 /\ N - 1 \in cur .. N - 1
      /\ active \in Buffer /\ Other(active) \in Buffer
      /\ next \in Int /\ N \in Nat /\ swaps \in {0, 1}
  <2>1. N - 1 \in 0 .. N - 1 /\ N \in Nat
    OBVIOUS
  <2>2. next \in Int
    BY RoundType DEF Typed, TypeOK, KindTyped
  <2>3. swaps \in {0, 1}
    BY DEF OneSwap, Typed, TypeOK
  <2>4. active \in Buffer /\ Other(active) \in Buffer
    BY DEF Typed, TypeOK, Buffer, Other
  <2>5. cur \in 0 .. N - 1
    BY DEF Typed, TypeOK
  <2>6. N - 1 \in cur .. N - 1
    BY <2>5
  <2> QED
    BY <2>1, <2>2, <2>3, <2>4, <2>6
<1>3. InOrder
  BY <1>1 DEF Stream, SettledInOrder, Settled
<1> DEFINE last == frames[Other(active)][N - 1]
           mine == frames[active][N - 1]
<1>4. mine = GenSample(next - N - 1) /\ last = GenSample(next - 1)
  <2>1. next + (N - 1) - 2 * N = next - N - 1 /\ next + (N - 1) - N = next - 1
    BY <1>2
  <2> QED
    BY <1>1, <1>2, <1>3, <2>1 DEF InOrder
<1>5. mine \in Ahead /\ last \in Ahead
  BY <1>2 DEF Ahead
<1>6. pos = last
  BY <1>1, <1>4 DEF Position, Settled
<1>7. snap = IF swaps = 0 THEN last[1] ELSE mine[1]
  BY <1>1, <1>2, <1>4 DEF Position
<1> HIDE DEF last, mine
<1>8. CASE swaps = 0
  BY <1>1, <1>5, <1>6, <1>7, <1>8
<1>9. CASE swaps # 0
  BY <1>1, <1>5, <1>6, <1>7, <1>9
<1> QED
  BY <1>8, <1>9

(* A stop holds a sample still to be played, or, if a buffer runs out      *)
(* between the reads of its coordinates, one coordinate of each of two     *)
(* (xy2_engine.cpp stop_at_current()).                                     *)
THEOREM StopAlwaysHoldsQueued ==
  ASSUME OneSwap
  PROVE  Spec => StopHoldsQueued
<1>1. Typed /\ Stream /\ Position =>
        (StopReadY /\ (~late \/ age = 2) =>
           \E s, t \in Ahead :
             static' = <<s[1], t[2]>> /\ (swaps = 0 => s = t))
  BY StopQueued
<1> QED
  BY <1>1, AlwaysStream, PTL DEF StopHoldsQueued
=============================================================================
