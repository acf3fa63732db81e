------------------------------- MODULE Uploads ------------------------------
(***************************************************************************)
(* The API server's side of an upload: who may create a version, who may   *)
(* add chunks to it, and for how long.  Reconciler takes these requests as *)
(* they come; here a version is created by a request that looks for the    *)
(* digest of its content, inserts the row with a stream token, and answers *)
(* with that token, each of which can be the last thing it does.  Chunks   *)
(* and the end of the upload are accepted from a client that has the       *)
(* token, until it expires.                                                *)
(*                                                                         *)
(* Durations are abstracted away: a token may expire at any moment.  A     *)
(* content has a digest of its own, and a size.  A request that is refused *)
(* changes nothing and is not a step.                                      *)
(***************************************************************************)
EXTENDS Reconciler

CONSTANTS
  User,        \* users with an access token
  AdminUser,   \* the user of AdminToken
  Content,     \* what clients upload
  SizeOf,      \* size of each content
  ChunkSize,   \* FrontendChunkSize
  LookupFails, \* whether the query of FindByHash may fail
  AccessEnds   \* whether the server lives longer than its access tokens

VARIABLES
  access,      \* whether the access tokens of this server process are live
  request,     \* per id: Nil, or the request that will insert it
  file_hash,   \* column of file_metadatas
  live,        \* versions with a client that has a stream token that is accepted
  writing,     \* chunk uploads past the check of their token
  raced        \* contents looked for while not every other request was visible

serverVars == <<access, request, file_hash, live, writing, raced>>
uploadVars == <<vars, serverVars>>

\* Mutant of CalculateChunks: always rounding up.
ChunksPlusOne(size) == (size \div ChunkSize) + 1

\* The quotient is a float, exact for these sizes; int() truncates it.
CalculateChunks(size) ==
  LET n == size \div ChunkSize
  IN  IF n * ChunkSize < size THEN n + 1 ELSE n

ASSUME UploadsAssumption ==
  /\ Nil \notin Content
  /\ AdminUser \in User
  /\ ChunkSize \in Nat \ {0}
  /\ SizeOf \in [Content -> Nat]
  /\ \A d \in Content : CalculateChunks(SizeOf[d]) \in ChunkCount
  /\ LookupFails \in BOOLEAN
  /\ AccessEnds \in BOOLEAN

\* A request between its queries and its insert.
Prepared == [user : User, content : Content, prev : FileOrNil]

\* Only versions with a row have a stream token that a client can use: the two
\* are inserted in one transaction.
UploadsTypeOK ==
  /\ access \in BOOLEAN
  /\ request \in [File -> Prepared \cup {Nil}]
  /\ file_hash \in [File -> Content \cup {Nil}]
  /\ live \subseteq {f \in File : Exists(f)}
  /\ writing \subseteq File \X ChunkId
  /\ raced \subseteq Content

UploadsInit ==
  /\ Init
  /\ access = TRUE
  /\ request = [f \in File |-> Nil]
  /\ file_hash = [f \in File |-> Nil]
  /\ live = {}
  /\ writing = {}
  /\ raced = {}

-----------------------------------------------------------------------------
(* Tokens.                                                                 *)

\* The tokens of findByTestMode expire together, an hour after the process was
\* started.  Then every request is refused until the next start.
ValidateAccessToken == access

\* The stream token of a version is looked up under the user of AdminToken, for
\* every client, so that the token of another user is never found.
FindByStreamToken(u) == u = AdminUser

\* Mutants of ValidateStreamToken: the expiry is not looked at; the access token
\* that comes with the request is validated too.
ValidateForEver(f) == Exists(f)
ValidateBoth(f) == f \in live /\ ValidateAccessToken

ValidateStreamToken(f) == f \in live

-----------------------------------------------------------------------------
(* Requests for a new version.                                             *)

\* Mutant of FindByHash: only uploads that came to an end count.
FindSettledByHash(d) == \E f \in File : Settled(f) /\ file_hash[f] = d

\* Any row with the digest counts, of any user and with any status.
FindByHash(d) == \E f \in File : Exists(f) /\ file_hash[f] = d

\* Requests for a new file with content d that have not inserted their row.
Pending(d) ==
  {f \in File : request[f] # Nil /\ request[f].content = d /\ request[f].prev = Nil}

\* NewID: the request draws the id of the version it will insert.
Prepare(f, u, d, p) ==
  /\ ~Exists(f)
  /\ request[f] = Nil
  /\ request' = [request EXCEPT ![f] = [user |-> u, content |-> d, prev |-> p]]
  /\ UNCHANGED <<vars, access, file_hash, live, writing>>

\* PrepareFileForUpload up to its insert.  If the query fails it goes on as if
\* nothing had been found.
PostFileMetadata(f, u, d) ==
  /\ ValidateAccessToken
  /\ ~FindByHash(d) \/ LookupFails
  /\ Prepare(f, u, d, Nil)
  /\ raced' = IF FindByHash(d) \/ Pending(d) # {} THEN raced \cup {d} ELSE raced

\* Mutant of PatchFileMetadata: the row of p is not looked up.
PatchAnyFile(f, u, d, p) ==
  /\ ValidateAccessToken
  /\ file_hash[p] # d
  /\ Prepare(f, u, d, p)
  /\ UNCHANGED raced

\* UpdateFileMetadata up to its insert: a new version of p.  The digest is
\* compared with the one of p only.
PatchFileMetadata(f, u, d, p) ==
  /\ ValidateAccessToken
  /\ Exists(p)
  /\ file_hash[p] # d
  /\ Prepare(f, u, d, p)
  /\ UNCHANGED raced

\* The transaction of CreateMetadataToken commits.  The answer, with the stream
\* token, reaches the client or is lost.
Insert(f) ==
  LET q == request[f]
  IN  /\ q # Nil
      /\ CreateMetadataToken(f, q.prev, CalculateChunks(SizeOf[q.content]))
      /\ file_hash' = [file_hash EXCEPT ![f] = q.content]
      /\ \E answered \in BOOLEAN :
           live' = IF answered /\ FindByStreamToken(q.user) THEN live \cup {f} ELSE live
      /\ request' = [request EXCEPT ![f] = Nil]
      /\ UNCHANGED <<user_files, blobs, eof_calls, queue, workerVars, notified,
                     access, writing, raced>>

\* Mutant of InsertFails: the token was committed, and the row was not.
InsertTokenOnly(f) ==
  /\ request[f] # Nil
  /\ request' = [request EXCEPT ![f] = Nil]
  /\ live' = live \cup {f}
  /\ UNCHANGED <<vars, access, file_hash, writing, raced>>

\* The transaction is rolled back.  The id was not seen by anyone, and may stand
\* for the one of a later request.
InsertFails(f) ==
  /\ request[f] # Nil
  /\ request' = [request EXCEPT ![f] = Nil]
  /\ UNCHANGED <<vars, access, file_hash, live, writing, raced>>

-----------------------------------------------------------------------------
(* Requests with a stream token, and time.                                 *)

\* UpsertChunks past ValidateStreamToken: the upload of chunk c goes on even if
\* the token expires.
AdmitChunk(f, c) ==
  /\ ValidateStreamToken(f)
  /\ writing' = writing \cup {<<f, c>>}
  /\ UNCHANGED <<vars, access, request, file_hash, live, raced>>

WriteChunk(f, c, blob) ==
  /\ <<f, c>> \in writing
  /\ UpsertChunk(f, c, blob)
  /\ writing' = writing \ {<<f, c>>}
  /\ UNCHANGED <<access, request, file_hash, live, raced>>

\* MarkUploadComplete past ValidateStreamToken and FindBy.
Eof(f) ==
  /\ ValidateStreamToken(f)
  /\ MarkUploadComplete(f)
  /\ UNCHANGED serverVars

\* The server dies and is started again.  If it dies between FindBy and RPUSH of
\* some MarkUploadComplete these are lost too: that is EnqueueFails for each of
\* them, and then this step.
Restart ==
  /\ eof_calls = {}
  /\ access' = TRUE
  /\ request' = [f \in File |-> Nil]
  /\ writing' = {}
  /\ UNCHANGED <<vars, file_hash, live, raced>>

AccessTokensExpire ==
  /\ AccessEnds
  /\ access' = FALSE
  /\ UNCHANGED <<vars, request, file_hash, live, writing, raced>>

StreamTokenExpires(f) ==
  /\ live' = live \ {f}
  /\ UNCHANGED <<vars, access, request, file_hash, writing, raced>>

-----------------------------------------------------------------------------

\* A version is being created.
CreateNext ==
  \E f \in File :
    \/ \E u \in User, d \in Content : PostFileMetadata(f, u, d)
    \/ Insert(f)
    \/ InsertFails(f)

\* Time, and the server as a process.
ProcessNext ==
  \/ \E f \in File : StreamTokenExpires(f)
  \/ AccessTokensExpire
  \/ Restart
  \/ \E f \in File, c \in ChunkId, b \in FileOrNil : WriteChunk(f, c, b)

\* What goes on without a client: the rest of MarkUploadComplete, the workers.
SystemNext ==
  /\ \/ \E f \in File : EnqueueMsg(f)
     \/ \E w \in Worker : WorkerStep(w)
  /\ UNCHANGED serverVars

FaultNext == Fault /\ UNCHANGED serverVars

UploadsNext ==
  \/ CreateNext
  \/ \E p, f \in File, u \in User, d \in Content : PatchFileMetadata(f, u, d, p)
  \/ \E f \in File, c \in ChunkId : AdmitChunk(f, c)
  \/ \E f \in File : Eof(f)
  \/ ProcessNext
  \/ SystemNext
  \/ FaultNext

\* Any client, and all faults.
UploadsSpec == UploadsInit /\ [][UploadsNext]_uploadVars

-----------------------------------------------------------------------------
(* A client that goes on until its version is settled.                     *)

\* The end of version f was reported, and is on its way to the merge.
InFlight(f) ==
  \/ f \in eof_calls
  \/ \E i \in 1 .. Len(queue) : queue[i].id = f
  \/ \E w \in Worker : \/ exec[w].id = f
                       \/ \E i \in 1 .. Len(held[w]) : held[w][i].id = f

\* The client has nothing more to send: a version with as many chunks as its
\* predecessor is sent as a difference.
Sent(f) ==
  IF prev_id[f] # Nil /\ n_chunks[f] = n_chunks[prev_id[f]]
  THEN SelectFiles(f) # {}
  ELSE \A c \in ChunkId : c < n_chunks[f] => c \in ChunkIds(SelectFiles(f))

SendChunk(f) ==
  \E c \in ChunkId :
    /\ c < n_chunks[f] /\ c \notin ChunkIds(SelectFiles(f)) /\ <<f, c>> \notin writing
    /\ AdmitChunk(f, c)

SendEof(f) == Sent(f) /\ ~InFlight(f) /\ Eof(f)

\* New versions are made of versions known to be settled.  The server may be
\* started again at any time, and inserts and pushes to the queue may fail.  Not
\* so the workers: they do not die, and neither their transactions nor Notify
\* fail.  (A worker that dies after Update has settled a version and told
\* nobody, and a second report of its end is refused.)
DiligentNext ==
  \/ CreateNext
  \/ \E p, f \in File, u \in User, d \in Content :
       Settled(p) /\ PatchFileMetadata(f, u, d, p)
  \/ \E f \in File : SendChunk(f) \/ SendEof(f)
  \/ ProcessNext
  \/ SystemNext
  \/ (\E f \in File : EnqueueFails(f)) /\ UNCHANGED serverVars

\* The client sends what is left to send, and reports the end again when that
\* failed.  The server and the worker go on with what they have accepted.  A
\* restart may interrupt the writing of a chunk, and a restart or an error the
\* push of a report, but not every time.
DiligentSpec ==
  /\ UploadsInit /\ [][DiligentNext]_uploadVars
  /\ \A f \in File :
       /\ WF_uploadVars(~Sent(f) /\ SendChunk(f))
       /\ WF_uploadVars(SendEof(f))
       /\ SF_uploadVars(EnqueueMsg(f) /\ UNCHANGED serverVars)
       /\ \A c \in ChunkId : SF_uploadVars(\E b \in FileOrNil : WriteChunk(f, c, b))
  /\ \A w \in Worker : WF_uploadVars(WorkerStep(w) /\ UNCHANGED serverVars)

-----------------------------------------------------------------------------
(* Properties.                                                             *)

\* Two new files have the same content only if one was looked for while the
\* other was not yet inserted, or by a query that failed (FindByHash and the
\* insert are not one transaction, and FindByHash drops the error).
DuplicateOnlyByRace ==
  \A f, g \in File :
    /\ f # g /\ Exists(f) /\ Exists(g)
    /\ prev_id[f] = Nil /\ prev_id[g] = Nil
    /\ file_hash[f] = file_hash[g]
    => file_hash[f] \in raced

\* A version has as many chunks as its content needs, and no more
\* (CalculateChunks, with which PrepareFileForUpload and UpdateFileMetadata
\* compare the number the client sent).
ChunksHoldFile ==
  \A f \in File : Exists(f) =>
    /\ n_chunks[f] * ChunkSize >= SizeOf[file_hash[f]]
    /\ (n_chunks[f] - 1) * ChunkSize < SizeOf[file_hash[f]]

\* Nobody can report the end of version f (any more), and no report is on its
\* way through the queue and the workers.
CutOff(f) ==
  Exists(f) /\ ~current_flag[f] /\ f \notin live /\ ~InFlight(f)

\* An upload whose stream token expires, was lost with the answer, or belongs
\* to a user other than AdminToken's, is cut off for good: its version is never
\* listed, while FindByHash goes on refusing its content as a duplicate (no
\* operation renews the token of a version: UpdateMetadataToken does nothing).
CutOffForGood == [][\A f \in File : CutOff(f) => CutOff(f)']_uploadVars

\* The merge of version f finds rows of both versions.
Mergeable(f) ==
  prev_id[f] = Nil \/ (n_chunks[f] # 0 /\ SelectFiles(prev_id[f]) # {})

\* An upload whose client goes on is settled and the devices are told, unless its
\* stream token expires or a version made from it was settled first.  It stands
\* restarts of the server, reports that are not pushed, and the hour after which
\* the access tokens expire (ValidateStreamToken does not validate the access
\* token).  It does not stand a fault of the worker, and a new version must have
\* chunks, as must the one before: otherwise ExecuteEach gives up the merge.
UploadSettles ==
  \A f \in File :
    f \in live /\ Mergeable(f) ~>
      f \notin live \/ (Settled(f) /\ (f \in notified \/ end_date[f]))

\* Whatever requests run at the same time, versions are created, filled and
\* reconciled as Reconciler says: the row of the previous version is read before
\* the insert and is still there.
ReconcilerSpec == Spec
=============================================================================
