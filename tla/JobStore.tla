------------------------------ MODULE JobStore ------------------------------
(***************************************************************************)
(* The job file on the Teensy's SD card                                    *)
(* (src/src/teensy-galvo/job_store.cpp): a chunked upload into a temporary *)
(* file, read back and verified, then renamed over the job, with the power *)
(* cut at any moment.  A file is a sequence of chunks, the first of which  *)
(* carries the file's header; the empty sequence stands for no file.  The  *)
(* sender and the link are free: any message may arrive at any time, with  *)
(* any index and any content.                                              *)
(***************************************************************************)
EXTENDS Integers, Sequences

CONSTANTS
  Jobs,         \* the jobs a sender may upload
  NoJob,        \* no job: what a header says that is not a job's
  BodyChunks,   \* chunks of a job after the one with its header
  Faults,       \* what may go wrong: see Fault
  MaxKept       \* bound: the longest file a failed removal leaves behind

(* "absent": the card is not found at boot.  "open", "reopen": the         *)
(* temporary file cannot be created, or read back.  "write": the card      *)
(* takes less than it was given.  "store": it takes the bytes and stores   *)
(* something else.  "header": the header is not the declared job's, as     *)
(* sent or as stored.  "remove", "rename": the operation fails.            *)
Fault == {"absent", "open", "reopen", "write", "store", "header", "remove",
          "rename"}

ASSUME JobStoreAssumption ==
  /\ NoJob \notin Jobs
  /\ BodyChunks \in Nat \ {0}
  /\ Faults \subseteq Fault
  /\ MaxKept \in Nat

VARIABLES
  pc,          \* "idle", or the step of the commit that runs next
  card,        \* g_card
  job, tmp,    \* the files JOB_FILE and JOB_TMP
  have, jobId, \* g_have, g_job_id: what the board says is printable
  uploading,   \* g_uploading
  expect,      \* g_expect_chunk, and g_written in chunks
  wantJob,     \* g_want_job; g_want_crc is the digest of its body
  (* Observation only. *)
  lost,        \* the last commit since the boot removed the old job and
               \* could not rename the new one
  kept         \* the temporary file, or what it was appended to, is one the
               \* card would not remove or read back

ram == <<card, have, jobId, uploading, expect, wantJob>>
vars == <<pc, job, tmp, ram, lost, kept>>

Chunk == [of : Jobs \union {NoJob}, at : 0 .. BodyChunks]

Size == BodyChunks + 1

(* The file of job j as its sender means it. *)
Whole(j) == [i \in 1 .. Size |-> [of |-> j, at |-> i - 1]]

(* The size check and the CRC over the body: the header is not covered. *)
BodyVerifies(file, j) ==
  /\ Len(file) = Size
  /\ \A i \in 2 .. Size : file[i] = Whole(j)[i]

(* adoptExisting(): the job a boot finds.  Only the header is looked at. *)
Adopted(file) ==
  IF file # <<>> /\ file[1].at = 0 THEN file[1].of ELSE NoJob

Init ==
  /\ pc = "idle"
  /\ card = TRUE
  /\ \E j \in Jobs \union {NoJob} :
       /\ job = IF j = NoJob THEN <<>> ELSE Whole(j)
       /\ have = (j # NoJob)
       /\ jobId = j
  /\ tmp = <<>>
  /\ uploading = FALSE
  /\ expect = 0
  /\ wantJob = NoJob
  /\ lost = FALSE
  /\ kept = FALSE

-----------------------------------------------------------------------------
(* SD.exists() and SD.remove(), whose result no caller looks at. *)
Removed(file) ==
  {<<>>} \union IF "remove" \in Faults /\ Len(file) <= MaxKept
                  THEN {file} ELSE {}

(* SD.remove(JOB_TMP), with the file in it as it is now. *)
Delete(file) ==
  /\ tmp' \in Removed(file)
  /\ kept' = (tmp' # <<>>)

(* A faulty variant: the old job is cleared to make room for the new one. *)
UploadBeginDropsJob(j) ==
  /\ pc = "idle"
  /\ card
  /\ Delete(tmp)
  /\ job' = <<>>
  /\ uploading' = TRUE
  /\ expect' = 0
  /\ wantJob' = j
  /\ UNCHANGED <<pc, card, have, jobId, lost>>

(* upload_begin() of a job with a body and layers.  FILE_WRITE appends to  *)
(* whatever could not be removed.                                          *)
UploadBegin(j) ==
  /\ pc = "idle"
  /\ card
  /\ Delete(tmp)
  /\ \/ /\ uploading' = TRUE
        /\ expect' = 0
        /\ wantJob' = j
     \/ /\ "open" \in Faults
        /\ uploading' = FALSE
        /\ UNCHANGED <<expect, wantJob>>
  /\ UNCHANGED <<pc, card, job, have, jobId, lost>>

(* A faulty variant: the partial file is left where it is. *)
AbortUploadKeepsFile(file) ==
  /\ uploading' = FALSE
  /\ tmp' = file
  /\ UNCHANGED <<pc, card, job, have, jobId, expect, wantJob, lost, kept>>

(* abortUpload(): the handle closed and the file, as it is now, deleted. *)
AbortUpload(file) ==
  /\ uploading' = FALSE
  /\ Delete(file)
  /\ UNCHANGED <<pc, card, job, have, jobId, expect, wantJob, lost>>

(* A chunk nobody sent. *)
Broken == [of |-> NoJob, at |-> 0]

(* What the card may hold after chunk c is written to it. *)
Stored(c) ==
  {c} \union IF (IF expect = 0 THEN "header" ELSE "store") \in Faults
               THEN {Broken} ELSE {}

(* A faulty variant: a chunk past the declared size is written all the same. *)
AcceptChunkPastEnd(index, c) ==
  /\ index = expect
  /\ \E s \in Stored(c) : tmp' = Append(tmp, s)
  /\ expect' = expect + 1
  /\ UNCHANGED <<pc, card, job, have, jobId, uploading, wantJob, lost, kept>>

(* upload_data(): in order and within the declared size, or not at all.    *)
AcceptChunk(index, c) ==
  /\ index = expect
  /\ expect < Size
  /\ \E s \in Stored(c) : tmp' = Append(tmp, s)
  /\ expect' = expect + 1
  /\ UNCHANGED <<pc, card, job, have, jobId, uploading, wantJob, lost, kept>>

RefuseChunk(index) ==
  /\ index # expect \/ expect >= Size
  /\ AbortUpload(tmp)

(* The card took part of the chunk. *)
WriteFails(index) ==
  /\ "write" \in Faults
  /\ index = expect
  /\ expect < Size
  /\ AbortUpload(Append(tmp, Broken))

UploadData(index, c) ==
  /\ pc = "idle"
  /\ uploading
  /\ AcceptChunk(index, c) \/ RefuseChunk(index) \/ WriteFails(index)

(* A first chunk whose header is the declared job's, unless that may fail. *)
HeaderAsDeclared(index, c) ==
  index = 0 /\ "header" \notin Faults => c = [of |-> wantJob, at |-> 0]

-----------------------------------------------------------------------------
(* upload_end(): the checks, then the commit in the two operations on the  *)
(* card between which the power may fail.                                  *)

EndOutOfPlace(j) ==
  /\ j # wantJob \/ expect # Size
  /\ AbortUpload(tmp)

(* The temporary file that cannot be read back is left where it is.        *)
EndUnreadable ==
  /\ "reopen" \in Faults
  /\ uploading' = FALSE
  /\ kept' = TRUE
  /\ UNCHANGED <<pc, card, job, tmp, have, jobId, expect, wantJob, lost>>

EndUnverified ==
  /\ ~BodyVerifies(tmp, wantJob)
  /\ AbortUpload(tmp)

(* A faulty variant: the read-back is left out. *)
EndTrusted ==
  /\ pc' = "remove"
  /\ uploading' = FALSE
  /\ UNCHANGED <<card, job, tmp, have, jobId, expect, wantJob, lost, kept>>

EndVerified ==
  /\ BodyVerifies(tmp, wantJob)
  /\ pc' = "remove"
  /\ uploading' = FALSE
  /\ UNCHANGED <<card, job, tmp, have, jobId, expect, wantJob, lost, kept>>

UploadEnd(j) ==
  /\ pc = "idle"
  /\ uploading
  /\ \/ EndOutOfPlace(j)
     \/ /\ j = wantJob /\ expect = Size
        /\ EndUnreadable \/ EndUnverified \/ EndVerified

CommitRemove ==
  /\ pc = "remove"
  /\ pc' = "rename"
  /\ job' \in Removed(job)
  /\ UNCHANGED <<tmp, ram, lost, kept>>

(* A faulty variant: the board goes on naming the job it has just replaced. *)
CommitRenameStaleId ==
  /\ pc = "rename"
  /\ job = <<>>
  /\ pc' = "idle"
  /\ job' = tmp
  /\ tmp' = <<>>
  /\ have' = TRUE
  /\ lost' = FALSE
  /\ kept' = FALSE
  /\ UNCHANGED <<card, jobId, uploading, expect, wantJob>>

(* The rename does not replace a file that is still there. *)
CommitRename ==
  /\ pc = "rename"
  /\ job = <<>>
  /\ pc' = "idle"
  /\ job' = tmp
  /\ tmp' = <<>>
  /\ have' = TRUE
  /\ jobId' = wantJob
  /\ lost' = FALSE
  /\ kept' = FALSE
  /\ UNCHANGED <<card, uploading, expect, wantJob>>

(* What the board says of its job is left as it is, gone or not. *)
CommitRenameFails ==
  /\ pc = "rename"
  /\ job # <<>> \/ "rename" \in Faults
  /\ pc' = "idle"
  /\ Delete(tmp)
  /\ lost' = (job = <<>>)
  /\ UNCHANGED <<job, ram>>

(* Power lost and back, at any point: all RAM is gone, and begin() runs.   *)
PowerCycle ==
  /\ pc' = "idle"
  /\ uploading' = FALSE
  /\ expect' = 0
  /\ wantJob' = NoJob
  /\ \/ /\ card' = TRUE
        /\ Delete(tmp)
        /\ jobId' = Adopted(job)
        /\ have' = (Adopted(job) # NoJob)
     \/ /\ "absent" \in Faults
        /\ card' = FALSE
        /\ have' = FALSE
        /\ jobId' = NoJob
        /\ UNCHANGED <<tmp, kept>>
  /\ lost' = FALSE
  /\ UNCHANGED job

Next ==
  \/ \E j \in Jobs : UploadBegin(j)
  \/ \E index \in 0 .. Size, c \in Chunk :
       HeaderAsDeclared(index, c) /\ UploadData(index, c)
  \/ \E j \in Jobs : UploadEnd(j)
  \/ CommitRemove
  \/ CommitRename
  \/ CommitRenameFails
  \/ PowerCycle

Spec == Init /\ [][Next]_vars

-----------------------------------------------------------------------------
(* Properties.                                                             *)

(* The type of every variable. *)
TypeOK ==
  /\ pc \in {"idle", "remove", "rename"}
  /\ card \in BOOLEAN
  /\ job \in Seq(Chunk)
  /\ tmp \in Seq(Chunk)
  /\ have \in BOOLEAN
  /\ jobId \in Jobs \union {NoJob}
  /\ uploading \in BOOLEAN
  /\ expect \in 0 .. Size
  /\ wantJob \in Jobs \union {NoJob}
  /\ lost \in BOOLEAN
  /\ kept \in BOOLEAN

(* Whatever goes wrong and whenever the power fails, a file under the      *)
(* job's name has the body of one job, complete and in order (PROTOCOL.md: *)
(* "a transfer that fails leaves nothing printable behind").               *)
PrintableIsVerified ==
  job # <<>> => \E j \in Jobs : BodyVerifies(job, j)

(* The job whose body the file has, its header read or not. *)
BodyOf(file) == IF Len(file) = Size THEN file[2].of ELSE NoJob

(* A file with its own job's header, which no check covers (job_store.cpp: *)
(* f.seek(sizeof(job_file_header_t)), before the CRC).                     *)
HeaderIsOwn(file) == \E j \in Jobs : file = Whole(j)

(* What the board says of its job against the card: a job that a reboot    *)
(* would find is never hidden, and the one it names is there, whole, as a  *)
(* reboot would find it.  Two things only make it wrong: it goes on naming *)
(* a job that a commit removed and failed to replace, until the next       *)
(* commit or boot, and it may name a file of another job's header by its   *)
(* body's name or by its header's (g_have, g_job_id; upload_end(),         *)
(* adoptExisting()).                                                       *)
HaveTracksCard ==
  pc = "idle" /\ card =>
    /\ Adopted(job) # NoJob => have
    /\ have /\ ~lost =>
         \/ job = Whole(jobId)
         \/ /\ job # <<>> /\ ~HeaderIsOwn(job)
            /\ jobId \in {BodyOf(job), Adopted(job)}

(* A transfer that ended, however it ended, leaves no temporary file       *)
(* behind: only an open transfer has one (abortUpload(): "leaving it open  *)
(* would strand a file handle"), or a card that would not remove it, or    *)
(* not read it back.                                                       *)
NoStrandedFile ==
  pc = "idle" /\ card /\ tmp # <<>> => uploading \/ kept

(* What is really on the card, whatever fails and whenever the power is    *)
(* cut: the job there goes only while a verified one is being committed,   *)
(* and what comes in its place is that one (job_store.cpp: "Commit").      *)
Slot == INSTANCE JobSlot
  WITH slot <- BodyOf(job), next <- IF pc = "idle" THEN NoJob ELSE wantJob

SlotSpec == Slot!Spec

-----------------------------------------------------------------------------
(* What the code's comments say and the code does not do.                  *)

(* job_store.h: "A transfer that fails part-way leaves the previous job    *)
(* untouched and never becomes printable."  A transfer whose power is cut  *)
(* between the removal and the rename, or whose rename fails, has removed  *)
(* it.  Between those two steps the old job is still taken to be there.    *)
OldJob == IF pc = "rename" /\ have THEN jobId ELSE BodyOf(job)

FailedTransferKeepsJob ==
  [][BodyOf(job') \in {OldJob, wantJob} \/ pc' # "idle"]_vars

(* job_store.h: "Is there a verified, printable job on the card?"          *)
HaveMeansJob == pc = "idle" /\ card /\ have => job # <<>>
=============================================================================
