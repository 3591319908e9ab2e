--------------------------- MODULE JobStoreProofs ---------------------------
(***************************************************************************)
(* Proofs about JobStore, for any number of jobs and chunks, whatever goes *)
(* wrong and whenever the power fails.                                     *)
(***************************************************************************)
EXTENDS JobStore, SequenceTheorems, TLAPS

USE JobStoreAssumption DEF JobStoreAssumption

LEMMA RemovedType ==
  ASSUME NEW f \in Seq(Chunk)
  PROVE  Removed(f) \subseteq Seq(Chunk)
<1>1. <<>> \in Seq(Chunk)
  BY EmptySeq
<1> QED
  BY <1>1 DEF Removed

LEMMA StoredType ==
  ASSUME NEW c \in Chunk
  PROVE  Stored(c) \subseteq Chunk
BY DEF Stored, Broken, Chunk

LEMMA WholeType ==
  ASSUME NEW j \in Jobs
  PROVE  /\ Whole(j) \in Seq(Chunk)
         /\ Len(Whole(j)) = Size
         /\ \A i \in 1 .. Size : Whole(j)[i] = [of |-> j, at |-> i - 1]
<1>1. Size \in Nat /\ Size >= 1
  BY DEF Size
<1>2. \A i \in 1 .. Size : [of |-> j, at |-> i - 1] \in Chunk
  BY <1>1 DEF Chunk, Size
<1>3. Whole(j) \in [1 .. Size -> Chunk]
  BY <1>2 DEF Whole
<1> QED
  BY <1>1, <1>3 DEF Whole

LEMMA BrokenType == Broken \in Chunk
BY DEF Broken, Chunk

(***************************************************************************)
(* The type invariant, one step per action.                                *)
(***************************************************************************)
LEMMA AbortUploadType ==
  ASSUME TypeOK, NEW f \in Seq(Chunk), AbortUpload(f)
  PROVE  TypeOK'
BY RemovedType DEF TypeOK, AbortUpload, Delete

LEMMA InitType == Init => TypeOK
<1> SUFFICES ASSUME Init PROVE TypeOK
  OBVIOUS
<1>1. PICK j \in Jobs \union {NoJob} :
        /\ job = IF j = NoJob THEN <<>> ELSE Whole(j)
        /\ have = (j # NoJob)
        /\ jobId = j
  BY DEF Init
<1>2. job \in Seq(Chunk) /\ tmp \in Seq(Chunk)
  BY <1>1, WholeType, EmptySeq DEF Init
<1>3. expect \in 0 .. Size
  BY DEF Init, Size
<1> QED
  BY <1>1, <1>2, <1>3 DEF Init, TypeOK

LEMMA NextType == TypeOK /\ [Next]_vars => TypeOK'
<1> SUFFICES ASSUME TypeOK, [Next]_vars PROVE TypeOK'
  OBVIOUS
<1>1. ASSUME NEW j \in Jobs, UploadBegin(j) PROVE TypeOK'
  <2>1. tmp' \in Seq(Chunk)
    BY <1>1, RemovedType DEF UploadBegin, Delete, TypeOK
  <2>2. expect' \in 0 .. Size
    BY <1>1 DEF UploadBegin, TypeOK, Size
  <2> QED
    BY <1>1, <2>1, <2>2 DEF UploadBegin, Delete, TypeOK
<1>2. ASSUME NEW index \in 0 .. Size, NEW c \in Chunk, UploadData(index, c)
      PROVE  TypeOK'
  <2>1. CASE AcceptChunk(index, c)
    <3>1. PICK s \in Stored(c) : tmp' = Append(tmp, s)
      BY <2>1 DEF AcceptChunk
    <3>2. tmp' \in Seq(Chunk)
      BY <3>1, StoredType DEF TypeOK
    <3> QED
      BY <2>1, <3>2 DEF AcceptChunk, TypeOK, Size
  <2>2. CASE RefuseChunk(index)
    BY <2>2, AbortUploadType DEF RefuseChunk, TypeOK
  <2>3. CASE WriteFails(index)
    <3>1. Append(tmp, Broken) \in Seq(Chunk)
      BY BrokenType DEF TypeOK
    <3> QED
      BY <2>3, <3>1, AbortUploadType DEF WriteFails
  <2> QED
    BY <1>2, <2>1, <2>2, <2>3 DEF UploadData
<1>3. ASSUME NEW j \in Jobs, UploadEnd(j) PROVE TypeOK'
  <2>1. CASE AbortUpload(tmp)
    BY <2>1, AbortUploadType DEF TypeOK
  <2>2. CASE EndUnreadable
    BY <2>2 DEF EndUnreadable, TypeOK
  <2>3. CASE EndVerified
    BY <2>3 DEF EndVerified, TypeOK
  <2> QED
    BY <1>3, <2>1, <2>2, <2>3 DEF UploadEnd, EndOutOfPlace, EndUnverified
<1>4. CASE CommitRemove
  <2>1. job' \in Seq(Chunk)
    BY <1>4, RemovedType DEF CommitRemove, TypeOK
  <2> QED
    BY <1>4, <2>1 DEF CommitRemove, TypeOK, ram
<1>5. CASE CommitRename
  BY <1>5, EmptySeq DEF CommitRename, TypeOK
<1>6. CASE CommitRenameFails
  <2>1. tmp' \in Seq(Chunk)
    BY <1>6, RemovedType DEF CommitRenameFails, Delete, TypeOK
  <2> QED
    BY <1>6, <2>1 DEF CommitRenameFails, Delete, TypeOK, ram
<1>7. CASE PowerCycle
  <2>1. tmp' \in Seq(Chunk)
    BY <1>7, RemovedType DEF PowerCycle, Delete, TypeOK
  <2>2. Adopted(job) \in Jobs \union {NoJob}
    <3>1. CASE job = <<>>
      BY <3>1 DEF Adopted
    <3>2. CASE job # <<>>
      <4>1. job[1] \in Chunk
        BY <3>2 DEF TypeOK
      <4> QED
        BY <4>1 DEF Adopted, Chunk
    <3> QED
      BY <3>1, <3>2
  <2>3. expect' \in 0 .. Size
    BY <1>7 DEF PowerCycle, Size
  <2> QED
    BY <1>7, <2>1, <2>2, <2>3 DEF PowerCycle, Delete, TypeOK
<1>8. CASE UNCHANGED vars
  BY <1>8 DEF vars, ram, TypeOK
<1> QED
  BY <1>1, <1>2, <1>3, <1>4, <1>5, <1>6, <1>7, <1>8 DEF Next

(* Every variable keeps its type (job_store.cpp: the state of an upload).  *)
THEOREM JobStoreTyped == Spec => []TypeOK
BY InitType, NextType, PTL DEF Spec

-----------------------------------------------------------------------------
(***************************************************************************)
(* The body of the printable file.  PrintableIsVerified alone is not       *)
(* inductive: the commit renames a file that was verified two steps ago,   *)
(* so the verdict has to be carried through the commit.                    *)
(***************************************************************************)
CommitVerified ==
  pc # "idle" => wantJob \in Jobs /\ BodyVerifies(tmp, wantJob)

UploadNamesJob == uploading => wantJob \in Jobs

VerifiedInv == PrintableIsVerified /\ CommitVerified /\ UploadNamesJob

LEMMA InitVerified == Init => VerifiedInv
<1> SUFFICES ASSUME Init PROVE VerifiedInv
  OBVIOUS
<1>1. PICK j \in Jobs \union {NoJob} : job = IF j = NoJob THEN <<>> ELSE Whole(j)
  BY DEF Init
<1>2. j \in Jobs => BodyVerifies(Whole(j), j)
  BY WholeType DEF BodyVerifies
<1> QED
  BY <1>1, <1>2
  DEF Init, VerifiedInv, PrintableIsVerified, CommitVerified, UploadNamesJob

(* The steps that leave the job file and the declared job alone. *)
LEMMA JobKept ==
  ASSUME VerifiedInv, job' = job, pc' = "idle",
         wantJob' = wantJob \/ wantJob' \in Jobs \/ uploading' = FALSE,
         uploading' => uploading \/ wantJob' \in Jobs
  PROVE  VerifiedInv'
BY DEF VerifiedInv, PrintableIsVerified, CommitVerified, UploadNamesJob

LEMMA NextVerified == TypeOK /\ VerifiedInv /\ [Next]_vars => VerifiedInv'
<1> SUFFICES ASSUME TypeOK, VerifiedInv, [Next]_vars PROVE VerifiedInv'
  OBVIOUS
<1>1. ASSUME NEW j \in Jobs, UploadBegin(j) PROVE VerifiedInv'
  BY <1>1, JobKept DEF UploadBegin
<1>2. ASSUME NEW index \in 0 .. Size, NEW c \in Chunk, UploadData(index, c)
      PROVE  VerifiedInv'
  BY <1>2, JobKept
  DEF UploadData, AcceptChunk, RefuseChunk, WriteFails, AbortUpload
<1>3. ASSUME NEW j \in Jobs, UploadEnd(j) PROVE VerifiedInv'
  <2>1. CASE AbortUpload(tmp)
    BY <1>3, <2>1, JobKept DEF UploadEnd, AbortUpload
  <2>2. CASE EndUnreadable
    BY <1>3, <2>2, JobKept DEF UploadEnd, EndUnreadable
  <2>3. CASE EndVerified
    BY <1>3, <2>3
    DEF UploadEnd, EndVerified, BodyVerifies, VerifiedInv,
        PrintableIsVerified, CommitVerified, UploadNamesJob
  <2> QED
    BY <1>3, <2>1, <2>2, <2>3 DEF UploadEnd, EndOutOfPlace, EndUnverified
<1>4. CASE CommitRemove
  <2>1. job' = <<>> \/ job' = job
    BY <1>4 DEF CommitRemove, Removed
  <2> QED
    BY <1>4, <2>1
    DEF CommitRemove, ram, BodyVerifies, VerifiedInv, PrintableIsVerified,
        CommitVerified, UploadNamesJob
<1>5. CASE CommitRename
  BY <1>5
  DEF CommitRename, BodyVerifies, VerifiedInv, PrintableIsVerified,
      CommitVerified, UploadNamesJob
<1>6. CASE CommitRenameFails
  BY <1>6, JobKept DEF CommitRenameFails, ram
<1>7. CASE PowerCycle
  BY <1>7, JobKept DEF PowerCycle
<1>8. CASE UNCHANGED vars
  BY <1>8
  DEF vars, ram, BodyVerifies, VerifiedInv, PrintableIsVerified,
      CommitVerified, UploadNamesJob
<1> QED
  BY <1>1, <1>2, <1>3, <1>4, <1>5, <1>6, <1>7, <1>8 DEF Next

(* A file under the job's name has one job's whole body, in order, on any  *)
(* card, whatever fails and wherever the power is cut (upload_end()).      *)
THEOREM PrintableAlwaysVerified == Spec => []PrintableIsVerified
<1>1. TypeOK /\ VerifiedInv /\ [Next]_vars => (TypeOK /\ VerifiedInv)'
  BY NextType, NextVerified
<1>2. VerifiedInv => PrintableIsVerified
  BY DEF VerifiedInv
<1> QED
  BY InitType, InitVerified, <1>1, <1>2, PTL DEF Spec

-----------------------------------------------------------------------------
(***************************************************************************)
(* What the board says of its job.  The inductive invariant speaks of a    *)
(* commit under way too, where the file is gone for a step, and of the     *)
(* card that was not found at boot, of which the board says nothing.       *)
(***************************************************************************)
Names ==
  \/ job = Whole(jobId)
  \/ /\ job # <<>> /\ ~HeaderIsOwn(job)
     /\ jobId \in {BodyOf(job), Adopted(job)}

GoneForNow == pc = "rename" /\ job = <<>>

HaveInv ==
  /\ uploading \/ pc # "idle" => card
  /\ lost => job = <<>>
  /\ card => /\ Adopted(job) # NoJob => have
             /\ have => Names \/ lost \/ GoneForNow

(* A verified body is of one job only. *)
LEMMA BodyIsItsJob ==
  ASSUME NEW f, NEW j \in Jobs, BodyVerifies(f, j)
  PROVE  /\ BodyOf(f) = j
         /\ f # <<>>
         /\ HeaderIsOwn(f) => f = Whole(j)
<1>1. Size \in Nat /\ Size >= 2
  BY DEF Size
<1>2. Len(f) = Size /\ f[2] = Whole(j)[2] /\ f # <<>>
  BY <1>1 DEF BodyVerifies
<1>3. ASSUME NEW k \in Jobs PROVE Whole(k)[2].of = k
  <2>1. Whole(k)[2] = [of |-> k, at |-> 2 - 1]
    BY <1>1, WholeType
  <2> QED
    BY <2>1
<1>4. BodyOf(f) = j
  BY <1>2, <1>3 DEF BodyOf
<1>5. ASSUME NEW k \in Jobs, f = Whole(k) PROVE k = j
  BY <1>2, <1>3, <1>5
<1> QED
  BY <1>2, <1>4, <1>5 DEF HeaderIsOwn

LEMMA InitHave == Init => HaveInv
<1> SUFFICES ASSUME Init PROVE HaveInv
  OBVIOUS
<1>1. PICK j \in Jobs \union {NoJob} :
        /\ job = IF j = NoJob THEN <<>> ELSE Whole(j)
        /\ have = (j # NoJob)
        /\ jobId = j
  BY DEF Init
<1>2. CASE j = NoJob
  BY <1>1, <1>2 DEF Init, HaveInv, Adopted
<1>3. CASE j # NoJob
  BY <1>1, <1>3 DEF Init, HaveInv, Names
<1> QED
  BY <1>2, <1>3

(* The steps that leave the card and what the board says of it alone. *)
LEMMA HaveKept ==
  ASSUME HaveInv, pc # "rename", UNCHANGED <<card, job, have, jobId, lost>>,
         uploading' \/ pc' # "idle" => card
  PROVE  HaveInv'
BY DEF HaveInv, Names, GoneForNow, Adopted, BodyOf, HeaderIsOwn

(* What a boot finds it names by its header. *)
LEMMA BootNames ==
  ASSUME TypeOK, Adopted(job) # NoJob, jobId' = Adopted(job), job' = job
  PROVE  Names'
<1>1. job # <<>> /\ Adopted(job) = job[1].of
  BY DEF Adopted
<1>2. ASSUME NEW j \in Jobs, job = Whole(j) PROVE job' = Whole(jobId')
  <2>1. 1 \in 1 .. Size
    BY DEF Size
  <2>2. Whole(j)[1] = [of |-> j, at |-> 1 - 1]
    BY <2>1, WholeType
  <2>3. job[1].of = j
    BY <1>2, <2>2
  <2> QED
    BY <1>1, <1>2, <2>3
<1> QED
  BY <1>1, <1>2 DEF Names, HeaderIsOwn, Adopted, BodyOf

LEMMA NextHave == TypeOK /\ VerifiedInv /\ HaveInv /\ [Next]_vars => HaveInv'
<1> SUFFICES ASSUME TypeOK, VerifiedInv, HaveInv, [Next]_vars PROVE HaveInv'
  OBVIOUS
<1>1. ASSUME NEW j \in Jobs, UploadBegin(j) PROVE HaveInv'
  BY <1>1, HaveKept DEF UploadBegin
<1>2. ASSUME NEW index \in 0 .. Size, NEW c \in Chunk, UploadData(index, c)
      PROVE  HaveInv'
  BY <1>2, HaveKept
  DEF UploadData, AcceptChunk, RefuseChunk, WriteFails, AbortUpload, HaveInv
<1>3. ASSUME NEW j \in Jobs, UploadEnd(j) PROVE HaveInv'
  <2>1. card
    BY <1>3 DEF UploadEnd, HaveInv
  <2> QED
    BY <1>3, <2>1, HaveKept
    DEF UploadEnd, EndOutOfPlace, EndUnverified, EndUnreadable, EndVerified,
        AbortUpload
<1>4. CASE CommitRemove
  <2>1. job' = <<>> \/ job' = job
    BY <1>4 DEF CommitRemove, Removed
  <2>2. CASE job' = <<>>
    BY <1>4, <2>2 DEF CommitRemove, ram, HaveInv, GoneForNow, Adopted
  <2>3. CASE job' = job
    BY <1>4, <2>3
    DEF CommitRemove, ram, HaveInv, Names, GoneForNow, Adopted, BodyOf,
        HeaderIsOwn
  <2> QED
    BY <2>1, <2>2, <2>3
<1>5. CASE CommitRename
  <2>1. wantJob \in Jobs /\ BodyVerifies(tmp, wantJob)
    BY <1>5 DEF CommitRename, VerifiedInv, CommitVerified
  <2>2. Names'
    BY <1>5, <2>1, BodyIsItsJob
    DEF CommitRename, Names, HeaderIsOwn, BodyOf, Adopted
  <2> QED
    BY <1>5, <2>2 DEF CommitRename, HaveInv
<1>6. CASE CommitRenameFails
  BY <1>6
  DEF CommitRenameFails, ram, HaveInv, Names, GoneForNow, Adopted, BodyOf,
      HeaderIsOwn
<1>7. CASE PowerCycle
  <2>1. Adopted(job') = Adopted(job)
    BY <1>7 DEF PowerCycle
  <2>2. ~lost' /\ ~uploading' /\ pc' = "idle"
    BY <1>7 DEF PowerCycle
  <2>3. CASE card'
    <3>1. jobId' = Adopted(job) /\ have' = (Adopted(job) # NoJob) /\ job' = job
      BY <1>7, <2>3 DEF PowerCycle
    <3>2. have' => Names'
      BY <3>1, BootNames
    <3> QED
      BY <2>1, <2>2, <3>1, <3>2 DEF HaveInv, Adopted
  <2> QED
    BY <2>2, <2>3 DEF HaveInv
<1>8. CASE UNCHANGED vars
  BY <1>8
  DEF vars, ram, HaveInv, Names, GoneForNow, Adopted, BodyOf, HeaderIsOwn
<1> QED
  BY <1>1, <1>2, <1>3, <1>4, <1>5, <1>6, <1>7, <1>8 DEF Next

LEMMA StoreInvariant == Spec => [](TypeOK /\ VerifiedInv /\ HaveInv)
<1>1. Init => TypeOK /\ VerifiedInv /\ HaveInv
  BY InitType, InitVerified, InitHave
<1>2. TypeOK /\ VerifiedInv /\ HaveInv /\ [Next]_vars
        => (TypeOK /\ VerifiedInv /\ HaveInv)'
  BY NextType, NextVerified, NextHave
<1> QED
  BY <1>1, <1>2, PTL DEF Spec

(* What the board says of its job against the card, on any card, whatever  *)
(* fails and wherever the power is cut (g_have, g_job_id against JOB_FILE). *)
THEOREM HaveAlwaysTracksCard == Spec => []HaveTracksCard
<1>1. HaveInv => HaveTracksCard
  BY DEF HaveInv, HaveTracksCard, Names, GoneForNow
<1> QED
  BY <1>1, StoreInvariant, PTL

-----------------------------------------------------------------------------
(***************************************************************************)
(* The job file implements JobSlot: the end of an upload announces, the    *)
(* removal loses, the rename replaces, and a rename that fails or a power  *)
(* cut gives up.                                                           *)
(***************************************************************************)
Announced == IF pc = "idle" THEN NoJob ELSE wantJob

LEMMA SlotStep ==
  ASSUME TypeOK, VerifiedInv, [Next]_vars
  PROVE  [Slot!Next]_<<BodyOf(job), Announced>>
<1> DEFINE Seen == <<BodyOf(job), Announced>>
<1>1. ASSUME pc = "idle", pc' = "idle", job' = job PROVE UNCHANGED Seen
  BY <1>1 DEF BodyOf, Announced
<1>2. ASSUME NEW j \in Jobs, UploadBegin(j) PROVE UNCHANGED Seen
  BY <1>1, <1>2 DEF UploadBegin
<1>3. ASSUME NEW index \in 0 .. Size, NEW c \in Chunk, UploadData(index, c)
      PROVE  UNCHANGED Seen
  BY <1>1, <1>3
  DEF UploadData, AcceptChunk, RefuseChunk, WriteFails, AbortUpload
<1>4. ASSUME NEW j \in Jobs, UploadEnd(j) PROVE [Slot!Next]_Seen
  <2>1. CASE EndVerified
    <3>1. Announced = NoJob /\ Announced' = wantJob /\ BodyOf(job)' = BodyOf(job)
      BY <1>4, <2>1 DEF UploadEnd, EndVerified, Announced, BodyOf
    <3>2. wantJob \in Jobs
      BY <1>4 DEF UploadEnd, VerifiedInv, UploadNamesJob
    <3>3. Slot!Announce(wantJob)
      BY <3>1 DEF Slot!Announce, Announced
    <3> QED
      BY <3>2, <3>3 DEF Slot!Next
  <2> QED
    BY <1>1, <1>4, <2>1
    DEF UploadEnd, EndOutOfPlace, EndUnreadable, EndUnverified, AbortUpload
<1>5. ASSUME CommitRemove PROVE [Slot!Next]_Seen
  <2>1. Announced' = Announced /\ Announced # NoJob
    BY <1>5
    DEF CommitRemove, ram, Announced, VerifiedInv, CommitVerified
  <2>2. job' = <<>> \/ job' = job
    BY <1>5 DEF CommitRemove, Removed
  <2>3. CASE job' = <<>>
    <3>1. BodyOf(job)' = NoJob
      BY <2>3 DEF BodyOf, Size
    <3> QED
      BY <2>1, <3>1 DEF Slot!Next, Slot!Lose, Announced
  <2> QED
    BY <2>1, <2>2, <2>3 DEF BodyOf
<1>6. ASSUME CommitRename PROVE Slot!Next
  <2>1. wantJob \in Jobs /\ BodyVerifies(tmp, wantJob)
    BY <1>6 DEF CommitRename, VerifiedInv, CommitVerified
  <2>2. BodyOf(job)' = wantJob
    BY <1>6, <2>1, BodyIsItsJob DEF CommitRename, BodyOf
  <2>3. Announced = wantJob /\ Announced' = NoJob
    BY <1>6 DEF CommitRename, Announced
  <2> QED
    BY <2>1, <2>2, <2>3 DEF Slot!Next, Slot!Replace, Announced
<1>7. ASSUME CommitRenameFails \/ PowerCycle PROVE Slot!Next
  BY <1>7
  DEF CommitRenameFails, PowerCycle, BodyOf, Announced, Slot!Next, Slot!GiveUp
<1>8. ASSUME UNCHANGED vars PROVE UNCHANGED Seen
  BY <1>8 DEF vars, ram, BodyOf, Announced
<1> QED
  BY <1>2, <1>3, <1>4, <1>5, <1>6, <1>7, <1>8 DEF Next

(* The job store implements the slot, on any card, whatever fails and      *)
(* wherever the power is cut: what is on the card goes only while a        *)
(* verified job is being committed, and only that one takes its place.     *)
THEOREM JobStoreImplementsSlot == Spec => SlotSpec
<1>1. Init => Slot!Init
  <2> SUFFICES ASSUME Init PROVE Slot!Init
    OBVIOUS
  <2>1. PICK j \in Jobs \union {NoJob} : job = IF j = NoJob THEN <<>> ELSE Whole(j)
    BY DEF Init
  <2>2. BodyOf(<<>>) = NoJob
    BY DEF BodyOf, Size
  <2>3. j \in Jobs => BodyOf(Whole(j)) = j
    BY BodyIsItsJob, WholeType DEF BodyVerifies
  <2> QED
    BY <2>1, <2>2, <2>3 DEF Init, Slot!Init
<1>2. TypeOK /\ VerifiedInv /\ [Next]_vars
        => [Slot!Next]_<<BodyOf(job), Announced>>
  BY SlotStep
<1> QED
  BY <1>1, <1>2, StoreInvariant, PTL DEF Spec, SlotSpec, Slot!Spec, Announced

-----------------------------------------------------------------------------
(* No transfer leaves its temporary file behind, unless the card would not *)
(* remove it or read it back: each way out of one deletes the file or      *)
(* renames it, whatever fails and whenever the power is cut.               *)
THEOREM NothingIsStranded == Spec => []NoStrandedFile
<1>1. Init => NoStrandedFile
  BY DEF Init, NoStrandedFile
<1>2. ASSUME NEW f, Delete(f) PROVE tmp' # <<>> => kept'
  BY <1>2 DEF Delete
<1>3. NoStrandedFile /\ [Next]_vars => NoStrandedFile'
  <2> SUFFICES ASSUME NoStrandedFile, [Next]_vars PROVE NoStrandedFile'
    OBVIOUS
  <2>1. ASSUME NEW f, AbortUpload(f) PROVE NoStrandedFile'
    BY <1>2, <2>1 DEF AbortUpload, NoStrandedFile
  <2>2. ASSUME NEW j \in Jobs, UploadBegin(j) PROVE NoStrandedFile'
    BY <1>2, <2>2 DEF UploadBegin, NoStrandedFile
  <2>3. ASSUME NEW index \in 0 .. Size, NEW c \in Chunk, UploadData(index, c)
        PROVE  NoStrandedFile'
    <3>1. CASE AcceptChunk(index, c)
      BY <2>3, <3>1 DEF UploadData, AcceptChunk, NoStrandedFile
    <3> QED
      BY <2>1, <2>3, <3>1 DEF UploadData, RefuseChunk, WriteFails
  <2>4. ASSUME NEW j \in Jobs, UploadEnd(j) PROVE NoStrandedFile'
    <3>1. CASE EndVerified
      BY <3>1 DEF EndVerified, NoStrandedFile
    <3>2. CASE EndUnreadable
      BY <3>2 DEF EndUnreadable, NoStrandedFile
    <3> QED
      BY <2>1, <2>4, <3>1, <3>2 DEF UploadEnd, EndOutOfPlace, EndUnverified
  <2>5. CASE CommitRemove
    BY <2>5 DEF CommitRemove, NoStrandedFile
  <2>6. CASE CommitRename \/ CommitRenameFails
    BY <1>2, <2>6 DEF CommitRename, CommitRenameFails, NoStrandedFile
  <2>7. CASE PowerCycle
    BY <1>2, <2>7 DEF PowerCycle, NoStrandedFile
  <2>8. CASE UNCHANGED vars
    BY <2>8 DEF vars, ram, NoStrandedFile
  <2> QED
    BY <2>2, <2>3, <2>4, <2>5, <2>6, <2>7, <2>8 DEF Next
<1> QED
  BY <1>1, <1>3, PTL DEF Spec
=============================================================================
