----------------------------- MODULE SyncClient -----------------------------
(***************************************************************************)
(* Reconciler used by the client it was written for: a device that makes a *)
(* new version only of a version it knows to be settled, uploads each of   *)
(* its chunks once, and reports the end of the upload once, after the      *)
(* chunks.  The client is the frontend, which is not part of this          *)
(* repository; the operations it calls are the ones of Reconciler, and so  *)
(* are the workers and the faults.                                         *)
(***************************************************************************)
EXTENDS Reconciler

VARIABLE eof_sent   \* versions whose end of upload the client has reported

clientVars == <<vars, eof_sent>>

ClientInit == Init /\ eof_sent = {}

ExpectedChunks(f) == {c \in ChunkId : c < n_chunks[f]}

\* A version with as many chunks as its predecessor is sent as a difference.
IsPatch(f) == prev_id[f] # Nil /\ n_chunks[f] = n_chunks[prev_id[f]]

HasSuccessor(p) == \E g \in File : prev_id[g] = p

NewFile(f, n) == PrepareFileForUpload(f, n) /\ UNCHANGED eof_sent

\* UpdateFileMetadata refuses the digest of the previous version, and there is
\* only one empty content.
NewVersion(p, f, n) ==
  /\ current_flag[p] /\ upload_status[p] = "completed"
  /\ ~HasSuccessor(p)
  /\ n # 0 \/ n_chunks[p] # 0
  /\ UpdateFileMetadata(p, f, n)
  /\ UNCHANGED eof_sent

PutChunk(f, c, blob) ==
  /\ f \notin eof_sent
  /\ c \in ExpectedChunks(f) \ ChunkIds(SelectFiles(f))
  /\ UpsertChunk(f, c, blob)
  /\ UNCHANGED eof_sent

Eof(f) ==
  /\ f \notin eof_sent
  /\ IF IsPatch(f) THEN SelectFiles(f) # {}
                   ELSE ChunkIds(SelectFiles(f)) = ExpectedChunks(f)
  /\ MarkUploadComplete(f)
  /\ eof_sent' = eof_sent \cup {f}

SyncNext ==
  \/ \E f \in File, n \in ChunkCount : NewFile(f, n)
  \/ \E p, f \in File, n \in ChunkCount : NewVersion(p, f, n)
  \/ \E f \in File, c \in ChunkId, b \in FileOrNil : PutChunk(f, c, b)
  \/ \E f \in File : Eof(f)

\* The rest of the server's requests, and the workers.
SystemNext ==
  /\ \/ \E f \in File : EnqueueMsg(f)
     \/ \E w \in Worker : WorkerStep(w)
  /\ UNCHANGED eof_sent

FaultNext == Fault /\ UNCHANGED eof_sent

\* The client, the system and its faults.
SyncSpec == ClientInit /\ [][SyncNext \/ SystemNext \/ FaultNext]_clientVars

-----------------------------------------------------------------------------
(* Properties.                                                             *)

\* The ways to say which file a version is of: one made from another is of the
\* same file, and two made from nothing are of different ones.
FileOf ==
  {file \in [File -> File] :
     \A f, g \in File : Exists(f) /\ Exists(g) =>
       /\ prev_id[f] = g => file[f] = file[g]
       /\ prev_id[f] = Nil /\ prev_id[g] = Nil /\ f # g => file[f] # file[g]}

\* A file has at most one current version, however long its history and however
\* the reports of its versions are delayed, lost or failed: Update makes a
\* version current and its predecessor not in one transaction.
OneCurrentPerFile ==
  \A file \in FileOf, f, g \in File :
    current_flag[f] /\ current_flag[g] /\ file[f] = file[g] => f = g

\* A completed version that is listed has exactly one row for each of its
\* chunks: ListOrderedFileChunks finds a row for each index and no index
\* outside the file (RestOfChunks and CreateBatch complete a patch, and nothing
\* else needs completing).  The url of a row is empty where the copy of its
\* chunk failed; the property is about the rows.
CurrentIsWhole ==
  \A f \in File :
    current_flag[f] /\ upload_status[f] = "completed" =>
      /\ ChunkIds(SelectFiles(f)) = ExpectedChunks(f)
      /\ \A r, s \in SelectFiles(f) : r.chunk_id = s.chunk_id => r = s

\* A chunk of a version is the one its client uploaded or, failing that, the
\* one of the previous version (the merge of ExecuteEach).
ChunkOwnOrInherited ==
  \A r \in user_files :
    \/ r.blob \in {r.file_id, Nil}
    \/ /\ IsPatch(r.file_id)
       /\ CopyTo(prev_id[r.file_id], r) \in user_files

\* The chunks of a settled version never change: CreateBatch runs before
\* Update.
SettledIsFrozen ==
  [][\A f \in File : Settled(f) => SelectFiles(f)' = SelectFiles(f)]_clientVars

\* The versions evolve as VersionHistory says, whatever messages are lost and
\* whatever transactions fail.
Stage(f) ==
  CASE upload_status[f] = "absent" -> "none"
    [] current_flag[f]             -> "live"
    [] end_date[f]                 -> "retired"
    [] OTHER                       -> "draft"

History == INSTANCE VersionHistory
             WITH Version <- File, None <- Nil,
                  stage <- [f \in File |-> Stage(f)], parent <- prev_id

HistorySpec == History!Spec
=============================================================================
