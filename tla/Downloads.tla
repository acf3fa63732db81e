----------------------------- MODULE Downloads ------------------------------
(***************************************************************************)
(* Chunk uploads and file downloads, in the detail in which they meet: the *)
(* blob of a chunk is truncated, filled and only then entered in           *)
(* user_files; a download lists the urls of a version, reads each chunk    *)
(* from the Redis cache or from disk, and sends the result through a file  *)
(* in ./tmp/outdir that is named after the downloaded file.                *)
(*                                                                         *)
(* The data of a chunk is identified with the upload request that brought  *)
(* it.  Torn stands for bytes that no upload brought: an empty file, a     *)
(* part of a chunk, a mixture.                                             *)
(***************************************************************************)
EXTENDS Integers, Sequences, FiniteSets

CONSTANTS
  Version,    \* rows of file_metadatas
  PrevOf,     \* prev_id of a version
  NChunks,    \* number of chunks of a version
  NameOf,     \* file name of a version
  Upload,     \* requests to UpsertChunks
  Target,     \* version and chunk id an upload is for: also the blob's path
  Request,    \* download requests
  Wanted,     \* version a download is for
  Cached,     \* downloads by DownloadFileV2; the others are by DownloadFile
  Torn, Nil

Path == {Target[u] : u \in Upload}
Name == {NameOf[v] : v \in Version}

ASSUME DownloadsAssumption ==
  /\ PrevOf \in [Version -> Version \cup {Nil}]
  /\ NChunks \in [Version -> Nat]
  /\ Target \in [Upload -> Version \X Nat]
  /\ Wanted \in [Request -> Version]
  /\ Cached \subseteq Request
  /\ Torn \notin Upload /\ Nil \notin Upload \cup {Torn}
  /\ Nil \notin Version /\ Nil \notin Request /\ Nil \notin Path

VARIABLES
  upload,     \* where an upload is
  raced,      \* uploads that had a blob open together with another upload
  disk,       \* content of a blob, Nil if there is none
  rows,       \* user_files
  cache,      \* Redis: content by path, Nil if there is none
  at,         \* where a download is
  urls,       \* per download: paths in the order of the chunks
  buf,        \* per download: chunks read so far
  out,        \* ./tmp/outdir: the file a name leads to, Nil if there is none
  file,       \* content of the output file a download has created
  handle,     \* per download: the output file it writes to
  response,   \* per download: what the client was sent, Nil before that
  overlapped  \* downloads that shared their output path with another one

uploadVars == <<upload, raced, disk, rows>>
outVars == <<out, file, handle, response, overlapped>>
vars == <<uploadVars, cache, at, urls, buf, outVars>>

Data == Upload \cup {Torn}
UserFile == [version : Version, chunk : Nat, url : Path \cup {Nil}]

DownloadsTypeOK ==
  /\ upload \in [Upload -> {"new", "copy", "insert", "lost", "done"}]
  /\ raced \subseteq Upload
  /\ disk \in [Path -> Data \cup {Nil}]
  /\ rows \subseteq UserFile
  /\ cache \in [Path -> Data \cup {Nil}]
  /\ at \in [Request -> {"list", "fetch", "set", "write", "attach", "remove", "end"}]
  /\ urls \in [Request -> Seq(Path \cup {Nil})]
  /\ buf \in [Request -> Seq(Data)]
  /\ out \in [Name -> Request \cup {Nil}]
  /\ file \in [Request -> Seq(Data) \cup {Torn}]
  /\ handle \in [Request -> Request \cup {Nil}]
  /\ response \in [Request -> Seq(Data) \cup {Torn, Nil}]
  /\ overlapped \subseteq Request

Init ==
  /\ upload = [u \in Upload |-> "new"]
  /\ raced = {}
  /\ disk = [p \in Path |-> Nil]
  /\ rows = {}
  /\ cache = [p \in Path |-> Nil]
  /\ at = [d \in Request |-> "list"]
  /\ urls = [d \in Request |-> <<>>]
  /\ buf = [d \in Request |-> <<>>]
  /\ out = [n \in Name |-> Nil]
  /\ file = [d \in Request |-> <<>>]
  /\ handle = [d \in Request |-> Nil]
  /\ response = [d \in Request |-> Nil]
  /\ overlapped = {}

-----------------------------------------------------------------------------
(* FileChunkService.Create.                                                *)

\* Uploads that have the blob of u open.
Writers(u) == {w \in Upload : Target[w] = Target[u] /\ upload[w] = "copy"}

\* os.Create truncates the blob if there is one.
Create(u) ==
  /\ upload[u] = "new"
  /\ upload' = [upload EXCEPT ![u] = "copy"]
  /\ disk' = [disk EXCEPT ![Target[u]] = Torn]
  /\ raced' = IF Writers(u) = {} THEN raced ELSE raced \cup Writers(u) \cup {u}
  /\ UNCHANGED <<rows, cache, at, urls, buf, outVars>>

\* io.Copy: writers of one blob may leave a mixture.
Copy(u) ==
  /\ upload[u] = "copy"
  /\ upload' = [upload EXCEPT ![u] = "insert"]
  /\ \E data \in {u} \cup (IF u \in raced THEN {Torn} ELSE {}) :
       disk' = [disk EXCEPT ![Target[u]] = data]
  /\ UNCHANGED <<raced, rows, cache, at, urls, buf, outVars>>

\* The copy fails: a part of the data is left in the blob, and the url is empty.
CopyFails(u) ==
  /\ upload[u] = "copy"
  /\ upload' = [upload EXCEPT ![u] = "lost"]
  /\ disk' = [disk EXCEPT ![Target[u]] = Torn]
  /\ UNCHANGED <<raced, rows, cache, at, urls, buf, outVars>>

\* Mutant of Insert: the row is entered when the blob exists.
InsertEarly(u) ==
  /\ upload[u] \in {"copy", "lost"}
  /\ upload' = [upload EXCEPT ![u] = "done"]
  /\ rows' = rows \cup {[version |-> Target[u][1], chunk |-> Target[u][2],
                         url |-> IF upload[u] = "copy" THEN Target[u] ELSE Nil]}
  /\ UNCHANGED <<raced, disk, cache, at, urls, buf, outVars>>

\* UserFileRepository.Create.
Insert(u) ==
  /\ upload[u] \in {"insert", "lost"}
  /\ upload' = [upload EXCEPT ![u] = "done"]
  /\ rows' = rows \cup {[version |-> Target[u][1], chunk |-> Target[u][2],
                         url |-> IF upload[u] = "insert" THEN Target[u] ELSE Nil]}
  /\ UNCHANGED <<raced, disk, cache, at, urls, buf, outVars>>

InsertFails(u) ==
  /\ upload[u] \in {"insert", "lost"}
  /\ upload' = [upload EXCEPT ![u] = "done"]
  /\ UNCHANGED <<raced, disk, rows, cache, at, urls, buf, outVars>>

-----------------------------------------------------------------------------
(* Rows of a version.                                                      *)

SelectFiles(v) == {r \in rows : r.version = v}

ChunkIds(rs) == {r.chunk : r \in rs}

\* One row for each chunk id, whichever the query returns last.
BuildFilesInfoResponse(rs) ==
  {chunks \in SUBSET rs :
     /\ ChunkIds(chunks) = ChunkIds(rs)
     /\ \A r, s \in chunks : r.chunk = s.chunk => r = s}

\* ExecuteEach has version v inherit the chunks it lacks, with their urls.
Inherit(v) ==
  /\ PrevOf[v] # Nil
  /\ NChunks[v] = NChunks[PrevOf[v]]
  /\ SelectFiles(v) # {}
  /\ \E prevFile \in BuildFilesInfoResponse(SelectFiles(PrevOf[v])) :
       rows' = rows \cup {[r EXCEPT !.version = v] :
                            r \in {r \in prevFile :
                                     r.chunk \notin ChunkIds(SelectFiles(v))}}
  /\ UNCHANGED <<upload, raced, disk, cache, at, urls, buf, outVars>>

-----------------------------------------------------------------------------
(* DownloadFile and DownloadFileV2.                                        *)

Fail(d) == at' = [at EXCEPT ![d] = "end"]

\* Mutant of UrlsOf: the urls in the order of the chunk ids that are there.
UrlsCompacted(v, chunks) ==
  [i \in 1 .. Cardinality(chunks) |->
     (CHOOSE r \in chunks :
        Cardinality({s \in chunks : s.chunk < r.chunk}) = i - 1).url]

\* A slice of NChunks strings, filled in at the chunk ids.
UrlsOf(v, chunks) ==
  [i \in 1 .. NChunks[v] |->
     IF i - 1 \in ChunkIds(chunks)
     THEN (CHOOSE r \in chunks : r.chunk = i - 1).url
     ELSE Nil]

\* ListOrderedFileChunks: an error without rows, and a chunk id outside of the
\* slice panics, which the Recover middleware turns into an error.
ListOrderedFileChunks(d) ==
  LET v == Wanted[d]
  IN  /\ at[d] = "list"
      /\ \/ /\ SelectFiles(v) = {} \/ \E r \in SelectFiles(v) : r.chunk >= NChunks[v]
            /\ Fail(d)
            /\ UNCHANGED urls
         \/ /\ SelectFiles(v) # {} /\ \A r \in SelectFiles(v) : r.chunk < NChunks[v]
            /\ \E chunks \in BuildFilesInfoResponse(SelectFiles(v)) :
                 urls' = [urls EXCEPT ![d] = UrlsOf(v, chunks)]
            /\ at' = [at EXCEPT ![d] = "fetch"]
      /\ UNCHANGED <<uploadVars, cache, buf, outVars>>

Fetching(d) == at[d] = "fetch" /\ Len(buf[d]) < Len(urls[d])
NextUrl(d) == urls[d][Len(buf[d]) + 1]

CacheHit(d) ==
  /\ Fetching(d)
  /\ d \in Cached
  /\ NextUrl(d) # Nil /\ cache[NextUrl(d)] # Nil
  /\ buf' = [buf EXCEPT ![d] = Append(@, cache[NextUrl(d)])]
  /\ UNCHANGED <<uploadVars, cache, at, urls, outVars>>

\* Mutant of Open: a chunk without a url is read as nothing.
OpenAnyway(d) ==
  /\ Fetching(d)
  /\ \/ /\ NextUrl(d) = Nil
        /\ buf' = [buf EXCEPT ![d] = Append(@, Nil)]
        /\ UNCHANGED at
     \/ /\ NextUrl(d) # Nil
        /\ buf' = [buf EXCEPT ![d] = Append(@, disk[NextUrl(d)])]
        /\ at' = [at EXCEPT ![d] = IF d \in Cached THEN "set" ELSE "fetch"]
  /\ UNCHANGED <<uploadVars, cache, urls, outVars>>

\* Any error of the cache, and not only a missing entry, leads to the disk.
Open(d) ==
  /\ Fetching(d)
  /\ \/ /\ NextUrl(d) = Nil
        /\ Fail(d)
        /\ UNCHANGED buf
     \/ /\ NextUrl(d) # Nil
        /\ buf' = [buf EXCEPT ![d] = Append(@, disk[NextUrl(d)])]
        /\ at' = [at EXCEPT ![d] = IF d \in Cached THEN "set" ELSE "fetch"]
  /\ UNCHANGED <<uploadVars, cache, urls, outVars>>

\* What was read goes to the cache, by its path.
SetEx(d) ==
  LET n == Len(buf[d])
  IN  /\ at[d] = "set"
      /\ cache' = [cache EXCEPT ![urls[d][n]] = buf[d][n]]
      /\ at' = [at EXCEPT ![d] = "fetch"]
      /\ UNCHANGED <<uploadVars, urls, buf, outVars>>

\* Only logged.
SetExFails(d) ==
  /\ at[d] = "set"
  /\ at' = [at EXCEPT ![d] = "fetch"]
  /\ UNCHANGED <<uploadVars, cache, urls, buf, outVars>>

\* The two hours of an entry are over.
Expire(p) ==
  /\ cache[p] # Nil
  /\ cache' = [cache EXCEPT ![p] = Nil]
  /\ UNCHANGED <<uploadVars, at, urls, buf, outVars>>

-----------------------------------------------------------------------------
(* The output file.                                                        *)

OutputPath(d) == NameOf[Wanted[d]]

\* Downloads with the output path of d, between creation and removal.
Sharing(d) ==
  {e \in Request : OutputPath(e) = OutputPath(d) /\ at[e] \in {"write", "attach", "remove"}}

\* os.Create: a new file, or the one that is there, truncated.
CreateOutput(d) ==
  LET f == IF out[OutputPath(d)] = Nil THEN d ELSE out[OutputPath(d)]
  IN  /\ at[d] = "fetch" /\ Len(buf[d]) = Len(urls[d])
      /\ at' = [at EXCEPT ![d] = "write"]
      /\ out' = [out EXCEPT ![OutputPath(d)] = f]
      /\ file' = [file EXCEPT ![f] = <<>>]
      /\ handle' = [handle EXCEPT ![d] = f]
      /\ overlapped' = IF Sharing(d) = {} THEN overlapped
                       ELSE overlapped \cup Sharing(d) \cup {d}
      /\ UNCHANGED <<uploadVars, cache, urls, buf, response>>

\* A chunk cannot be read, or the output file not be created.
ReadFails(d) ==
  /\ at[d] = "fetch"
  /\ Fail(d)
  /\ UNCHANGED <<uploadVars, cache, urls, buf, outVars>>

WriteOutput(d) ==
  /\ at[d] = "write"
  /\ \E data \in {buf[d]} \cup (IF d \in overlapped THEN {Torn} ELSE {}) :
       file' = [file EXCEPT ![handle[d]] = data]
  /\ at' = [at EXCEPT ![d] = "attach"]
  /\ UNCHANGED <<uploadVars, cache, urls, buf, out, handle, response, overlapped>>

\* Mutant of WriteFails: the handler returns before os.Remove is deferred.
WriteFailsEarly(d) ==
  /\ at[d] = "write"
  /\ file' = [file EXCEPT ![handle[d]] = Torn]
  /\ at' = [at EXCEPT ![d] = "end"]
  /\ UNCHANGED <<uploadVars, cache, urls, buf, out, handle, response, overlapped>>

WriteFails(d) ==
  /\ at[d] = "write"
  /\ file' = [file EXCEPT ![handle[d]] = Torn]
  /\ at' = [at EXCEPT ![d] = "remove"]
  /\ UNCHANGED <<uploadVars, cache, urls, buf, out, handle, response, overlapped>>

\* Mutant of Attachment: the file is sent while it is being written.
AttachmentEarly(d) ==
  /\ at[d] \in {"write", "attach"}
  /\ response' = [response EXCEPT ![d] = IF out[OutputPath(d)] = Nil THEN Nil
                                         ELSE file[out[OutputPath(d)]]]
  /\ at' = [at EXCEPT ![d] = "remove"]
  /\ UNCHANGED <<uploadVars, cache, urls, buf, out, file, handle, overlapped>>

\* c.Attachment opens the path again, and finds whatever is there.
Attachment(d) ==
  /\ at[d] = "attach"
  /\ response' = [response EXCEPT ![d] = IF out[OutputPath(d)] = Nil THEN Nil
                                         ELSE file[out[OutputPath(d)]]]
  /\ at' = [at EXCEPT ![d] = "remove"]
  /\ UNCHANGED <<uploadVars, cache, urls, buf, out, file, handle, overlapped>>

\* The deferred os.Remove.
Remove(d) ==
  /\ at[d] = "remove"
  /\ out' = [out EXCEPT ![OutputPath(d)] = Nil]
  /\ at' = [at EXCEPT ![d] = "end"]
  /\ UNCHANGED <<uploadVars, cache, urls, buf, file, handle, response, overlapped>>

-----------------------------------------------------------------------------

UploadStep(u) == Create(u) \/ Copy(u) \/ CopyFails(u) \/ Insert(u) \/ InsertFails(u)

DownloadStep(d) ==
  \/ ListOrderedFileChunks(d)
  \/ CacheHit(d) \/ Open(d) \/ SetEx(d) \/ SetExFails(d) \/ ReadFails(d)
  \/ CreateOutput(d) \/ WriteOutput(d) \/ WriteFails(d) \/ Attachment(d) \/ Remove(d)

Next ==
  \/ \E u \in Upload : UploadStep(u)
  \/ \E v \in Version : Inherit(v)
  \/ \E d \in Request : DownloadStep(d)
  \/ \E p \in Path : Expire(p)

DownloadsSpec == Init /\ [][Next]_vars

-----------------------------------------------------------------------------
(* Properties.                                                             *)

\* Uploads that have touched the blob at p.
Started(p) == {u \in Upload : Target[u] = p /\ upload[u] # "new"}

\* The bytes read for a chunk that was uploaded once are the bytes of that
\* upload, whether they came from disk, from the cache, or by way of a version
\* that inherited the chunk, and whatever requests ran at the same time
\* (FileChunkService.Create enters a url only when the blob is written, and
\* Download caches by url).
OnceUploadedIsServed ==
  \A d \in Request : \A i \in 1 .. Len(buf[d]) : \A u \in Upload :
    Started(urls[d][i]) = {u} => buf[d][i] = u

\* Whatever is downloaded for a chunk was once uploaded for a chunk of that
\* number, unless two uploads of one chunk met (ListOrderedFileChunks puts the
\* urls in their places, missing ones included).
ChunksInPlace ==
  \A d \in Request : \A i \in 1 .. Len(buf[d]) :
    buf[d][i] # Torn => Target[buf[d][i]][2] = i - 1

\* A download that shares its output path with no other one is answered, if it
\* is answered with a file, with the chunks it has read, all of them.
AloneGetsItsFile ==
  \A d \in Request :
    response[d] # Nil /\ d \notin overlapped =>
      response[d] = buf[d] /\ Len(buf[d]) = NChunks[Wanted[d]]

\* Nothing is left in ./tmp/outdir when no download is in progress, however
\* downloads of one name overlapped (the deferred os.Remove of each).
OutdirIsEmptied ==
  (\A d \in Request : at[d] \notin {"write", "attach", "remove"})
    => \A n \in Name : out[n] = Nil
=============================================================================
