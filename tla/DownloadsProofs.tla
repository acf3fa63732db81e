-------------------------- MODULE DownloadsProofs --------------------------
(***************************************************************************)
(* Proofs of the properties of Downloads, for any versions, uploads and    *)
(* downloads.                                                              *)
(***************************************************************************)
EXTENDS Downloads, TLAPS

\* The bytes x are what was uploaded to path p, if it was uploaded to once.
Holds(p, x) ==
  /\ x \in Data
  /\ x # Torn => Target[x] = p
  /\ Started(p) # {}
  /\ \A u \in Upload : Started(p) = {u} => x = u

\* The blob at p is written, unless another upload writes it again.
Written(p) ==
  /\ Holds(p, disk[p])
  /\ \A u \in Upload : Started(p) = {u} => upload[u] \in {"insert", "done"}

\* A url is that of the chunk with number n.
UrlOf(url, n) == url # Nil => url \in Path /\ url[2] = n /\ Written(url)

\* Uploads that met are not alone, and an upload inserts what it has written.
UploadsSound ==
  /\ \A u \in raced : upload[u] # "new" /\ Started(Target[u]) # {u}
  /\ \A u \in Upload : upload[u] = "insert" => Written(Target[u])

\* A row, or an entry of the cache, is there after the blob was written.
StoredSound ==
  /\ \A r \in rows : UrlOf(r.url, r.chunk)
  /\ \A p \in Path : cache[p] # Nil => Holds(p, cache[p])

\* A download has the urls of its version, and what it has read of them.
Reads(d) ==
  /\ at[d] = "list" => buf[d] = <<>>
  /\ at[d] = "set" => buf[d] # <<>>
  /\ at[d] \notin {"list", "end"} => Len(urls[d]) = NChunks[Wanted[d]]
  /\ \A i \in 1 .. Len(urls[d]) : UrlOf(urls[d][i], i - 1)
  /\ Len(buf[d]) <= Len(urls[d])
  /\ \A i \in 1 .. Len(buf[d]) : urls[d][i] # Nil /\ Holds(urls[d][i], buf[d][i])

ReadSound == \A d \in Request : Reads(d)

\* Downloads that have an output file.
Busy(d) == at[d] \in {"write", "attach", "remove"}

\* Every output file belongs to downloads in progress with its path.
OutputSound ==
  /\ \A n \in Name : out[n] # Nil =>
       /\ OutputPath(out[n]) = n
       /\ \E d \in Request : Busy(d) /\ OutputPath(d) = n
  /\ \A d \in Request : Busy(d) =>
       /\ Len(buf[d]) = NChunks[Wanted[d]]
       /\ handle[d] \in Request /\ OutputPath(handle[d]) = OutputPath(d)

\* A download that never met another one on its path has the path to itself.
Undisturbed ==
  \A d \in Request \ overlapped : Busy(d) =>
    /\ \A e \in Request : Busy(e) /\ e # d => OutputPath(e) # OutputPath(d)
    /\ out[OutputPath(d)] = handle[d]
    /\ at[d] = "attach" => file[handle[d]] = buf[d]

Answered ==
  \A d \in Request : response[d] # Nil =>
    /\ at[d] \in {"remove", "end"}
    /\ d \notin overlapped =>
         response[d] = buf[d] /\ Len(buf[d]) = NChunks[Wanted[d]]

DownloadsInv ==
  /\ DownloadsTypeOK
  /\ UploadsSound
  /\ StoredSound
  /\ ReadSound
  /\ OutputSound
  /\ Undisturbed
  /\ Answered

-----------------------------------------------------------------------------
(* Uploads.                                                                *)

\* Who has touched a blob only grows, by an upload that creates it.
LEMMA StartedGrows ==
  ASSUME DownloadsTypeOK, NEW u \in Upload, UploadStep(u), NEW p
  PROVE  Started(p)' = IF upload[u] = "new" /\ Target[u] = p THEN Started(p) \cup {u}
                       ELSE Started(p)
<1>1. /\ \A w \in Upload : w # u => upload'[w] = upload[w]
      /\ upload'[u] # "new"
  BY DEF UploadStep, Create, Copy, CopyFails, Insert, InsertFails, DownloadsTypeOK
<1> QED
  BY <1>1 DEF Started

\* What was uploaded to a path once stays that.
LEMMA HoldsPersists ==
  ASSUME DownloadsTypeOK, [Next]_vars, NEW p, NEW x, Holds(p, x)
  PROVE  Holds(p, x)'
<1>1. ASSUME NEW u \in Upload, UploadStep(u)
      PROVE  Holds(p, x)'
  <2>1. upload[u] = "new" => u \notin Started(p)
    BY DEF Started
  <2>2. Started(p)' = Started(p) \/ (Started(p)' = Started(p) \cup {u} /\ u \notin Started(p))
    BY <1>1, <2>1, StartedGrows
  <2> QED
    BY <2>2 DEF Holds
<1>2. ASSUME upload' = upload
      PROVE  Holds(p, x)'
  BY <1>2 DEF Holds, Started
<1> QED
  BY <1>1, <1>2 DEF Next, vars, uploadVars, Inherit, DownloadStep, ListOrderedFileChunks,
       CacheHit, Open, SetEx, SetExFails, ReadFails, CreateOutput, WriteOutput, WriteFails,
       Attachment, Remove, Expire

\* Steps that are not uploads leave the blobs alone.
LEMMA OnlyUploads ==
  ASSUME [Next]_vars
  PROVE  \/ \E u \in Upload : UploadStep(u)
         \/ UNCHANGED <<upload, raced, disk>>
BY DEF Next, vars, uploadVars, Inherit, DownloadStep, ListOrderedFileChunks,
       CacheHit, Open, SetEx, SetExFails, ReadFails, CreateOutput, WriteOutput, WriteFails,
       Attachment, Remove, Expire

\* A blob that is written stays so: another upload is needed to truncate it.
LEMMA WrittenPersists ==
  ASSUME DownloadsTypeOK, [Next]_vars, NEW p \in Path, Written(p)
  PROVE  Written(p)'
<1>1. ASSUME NEW u \in Upload, UploadStep(u)
      PROVE  Written(p)'
  <2>1. CASE upload[u] = "new" /\ Target[u] = p
    <3>1. Started(p)' = Started(p) \cup {u} /\ u \notin Started(p) /\ Started(p) # {}
      BY <1>1, <2>1, StartedGrows DEF Started, Written, Holds
    <3>2. disk'[p] = Torn
      BY <1>1, <2>1 DEF UploadStep, Create, Copy, CopyFails, Insert, InsertFails,
                        DownloadsTypeOK
    <3> QED
      BY <3>1, <3>2 DEF Written, Holds, Data
  <2>2. CASE ~(upload[u] = "new" /\ Target[u] = p)
    <3>1. Started(p)' = Started(p)
      BY <1>1, <2>2, StartedGrows
    <3>2. CASE disk'[p] = disk[p] /\ (upload'[u] \in {"insert", "done"} \/ Target[u] # p)
      <4>1. \A w \in Upload : w # u => upload'[w] = upload[w]
        BY <1>1 DEF UploadStep, Create, Copy, CopyFails, Insert, InsertFails, DownloadsTypeOK
      <4>2. Holds(p, disk[p])'
        BY <3>1, <3>2 DEF Written, Holds
      <4>3. \A w \in Upload : Started(p) = {w} => upload'[w] \in {"insert", "done"}
        BY <3>2, <4>1 DEF Written, Started
      <4> QED
        BY <3>1, <4>2, <4>3 DEF Written, Holds
    <3>3. CASE Target[u] = p /\ upload[u] = "copy" /\ disk'[p] \in {u, Torn}
      <4>1. u \in Started(p) /\ \A w \in Upload : Started(p) # {w}
        BY <3>3 DEF Started, Written
      <4> QED
        BY <3>1, <3>3, <4>1 DEF Written, Holds, Data
    <3>4. CASE upload[u] = "new" /\ Target[u] # p
      BY <1>1, <3>2, <3>4 DEF UploadStep, Create, Copy, CopyFails, Insert, InsertFails,
                              DownloadsTypeOK
    <3> QED
      BY <1>1, <2>2, <3>2, <3>3, <3>4 DEF UploadStep, Create, Copy, CopyFails, Insert,
                                          InsertFails, DownloadsTypeOK
  <2> QED
    BY <2>1, <2>2
<1>2. ASSUME upload' = upload, disk' = disk
      PROVE  Written(p)'
  BY <1>2 DEF Written, Holds, Started
<1> QED
  BY <1>1, <1>2, OnlyUploads

\* So do urls.
LEMMA UrlPersists ==
  ASSUME DownloadsTypeOK, [Next]_vars, NEW url, NEW n, UrlOf(url, n)
  PROVE  UrlOf(url, n)'
BY WrittenPersists DEF UrlOf

\* An upload alone on its path writes its own bytes, and then inserts.
LEMMA UploadsSoundStep ==
  ASSUME DownloadsTypeOK, UploadsSound, [Next]_vars
  PROVE  UploadsSound'
<1>1. ASSUME NEW u \in Upload, UploadStep(u)
      PROVE  UploadsSound'
  <2> DEFINE p == Target[u]
  <2>1. p \in Path
    BY DEF Path
  <2>2. /\ upload'[u] # "new"
        /\ \A w \in Upload : w # u => upload'[w] = upload[w]
    BY <1>1 DEF UploadStep, Create, Copy, CopyFails, Insert, InsertFails, DownloadsTypeOK
  <2>3. ASSUME NEW w \in raced
        PROVE  upload'[w] # "new" /\ Started(Target[w])' # {w}
    <3>1. w \in Upload /\ w \in Started(Target[w]) /\ Started(Target[w]) # {w}
      BY DEF DownloadsTypeOK, UploadsSound, Started
    <3>2. Started(Target[w]) \subseteq Started(Target[w])'
      BY <1>1, StartedGrows
    <3> QED
      BY <2>2, <3>1, <3>2 DEF UploadsSound
  <2>4. ASSUME NEW w \in raced' \ raced
        PROVE  upload'[w] # "new" /\ Started(Target[w])' # {w}
    <3>1. Create(u) /\ Writers(u) # {} /\ w \in Writers(u) \cup {u}
      BY <1>1 DEF UploadStep, Create, Copy, CopyFails, Insert, InsertFails
    <3>2. upload[u] = "new" /\ Writers(u) \subseteq Started(p) /\ u \notin Started(p)
      BY <3>1 DEF Create, Writers, Started
    <3>3. Target[w] = p /\ w \in Upload
      BY <3>1 DEF Writers
    <3>4. Started(p)' = Started(p) \cup {u}
      BY <1>1, <3>2, StartedGrows
    <3>5. w \in Started(p)' /\ Started(p)' # {w}
      BY <3>1, <3>2, <3>4
    <3> QED
      BY <3>3, <3>5 DEF Started
  <2>5. ASSUME NEW w \in Upload, upload'[w] = "insert", upload[w] = "insert"
        PROVE  Written(Target[w])'
    BY <2>5, WrittenPersists DEF UploadsSound, Path
  <2>6. ASSUME upload'[u] = "insert", upload[u] # "insert"
        PROVE  Written(p)'
    <3>1. Copy(u)
      BY <1>1, <2>6 DEF UploadStep, Create, CopyFails, Insert, InsertFails, DownloadsTypeOK
    <3>2. PICK data \in {u} \cup (IF u \in raced THEN {Torn} ELSE {}) : disk'[p] = data
      BY <2>1, <3>1 DEF Copy, DownloadsTypeOK
    <3>3. Started(p)' = Started(p) /\ u \in Started(p)
      BY <1>1, <3>1, StartedGrows DEF Copy, Started
    <3>4. u \in raced => Started(p) # {u}
      BY DEF UploadsSound
    <3>5. Holds(p, disk[p])'
      BY <3>2, <3>3, <3>4 DEF Holds, Data
    <3>6. \A w \in Upload : Started(p) = {w} => w = u
      BY <3>3
    <3> QED
      BY <2>6, <3>3, <3>5, <3>6 DEF Written
  <2> QED
    BY <2>2, <2>3, <2>4, <2>5, <2>6 DEF UploadsSound
<1>2. CASE UNCHANGED <<upload, raced, disk>>
  BY <1>2 DEF UploadsSound, Written, Holds, Started
<1> QED
  BY <1>1, <1>2, OnlyUploads

\* Rows and cache entries come from blobs that are written.
LEMMA StoredSoundStep ==
  ASSUME DownloadsTypeOK, UploadsSound, StoredSound, ReadSound, [Next]_vars
  PROVE  StoredSound'
<1>1. ASSUME NEW r \in rows'
      PROVE  UrlOf(r.url, r.chunk)'
  <2>1. CASE \E s \in rows : s.url = r.url /\ s.chunk = r.chunk
    BY <2>1, UrlPersists DEF StoredSound
  <2>2. CASE \E u \in Upload : /\ Insert(u)
                               /\ r = [version |-> Target[u][1], chunk |-> Target[u][2],
                                       url |-> IF upload[u] = "insert" THEN Target[u] ELSE Nil]
    <3>1. PICK u \in Upload : /\ r.chunk = Target[u][2]
                              /\ r.url \in {Nil, Target[u]}
                              /\ r.url # Nil => upload[u] = "insert"
      BY <2>2
    <3>2. UrlOf(r.url, r.chunk)
      BY <3>1 DEF UrlOf, UploadsSound, Path
    <3> QED
      BY <3>2, UrlPersists
  <2>3. ASSUME NEW v \in Version, Inherit(v)
        PROVE  \E s \in rows : s.url = r.url /\ s.chunk = r.chunk
    <3>1. PICK prevFile \in BuildFilesInfoResponse(SelectFiles(PrevOf[v])) :
            r \in rows \cup {[s EXCEPT !.version = v] :
                               s \in {s \in prevFile : s.chunk \notin ChunkIds(SelectFiles(v))}}
      BY <2>3 DEF Inherit
    <3>2. prevFile \subseteq rows
      BY DEF BuildFilesInfoResponse, SelectFiles
    <3>3. \A s \in rows : /\ [s EXCEPT !.version = v].url = s.url
                          /\ [s EXCEPT !.version = v].chunk = s.chunk
      BY DEF DownloadsTypeOK, UserFile
    <3> QED
      BY <3>1, <3>2, <3>3
  <2>4. \/ rows' = rows
        \/ \E v \in Version : Inherit(v)
        \/ \E u \in Upload : Insert(u)
    BY DEF Next, vars, uploadVars, UploadStep, Create, Copy, CopyFails, InsertFails,
           DownloadStep, ListOrderedFileChunks, CacheHit, Open, SetEx, SetExFails, ReadFails,
           CreateOutput, WriteOutput, WriteFails, Attachment, Remove, Expire
  <2> QED
    BY <2>1, <2>2, <2>3, <2>4 DEF Insert
<1>2. ASSUME NEW p \in Path, cache'[p] # Nil
      PROVE  Holds(p, cache[p])'
  <2>1. CASE cache'[p] = cache[p]
    BY <1>2, <2>1, HoldsPersists DEF StoredSound
  <2>2. CASE cache'[p] # cache[p]
    <3>1. PICK d \in Request : SetEx(d)
      BY <1>2, <2>2 DEF Next, vars, uploadVars, UploadStep, Create, Copy, CopyFails, Insert,
           InsertFails, Inherit, DownloadStep, ListOrderedFileChunks, CacheHit, Open,
           SetExFails, ReadFails, CreateOutput, WriteOutput, WriteFails, Attachment, Remove,
           Expire, DownloadsTypeOK
    <3> DEFINE n == Len(buf[d])
    <3>2. at[d] = "set" /\ p = urls[d][n] /\ cache'[p] = buf[d][n]
      BY <2>2, <3>1 DEF SetEx, DownloadsTypeOK
    <3>3. n \in 1 .. Len(buf[d])
      BY <3>2 DEF ReadSound, Reads, DownloadsTypeOK
    <3>4. Holds(p, buf[d][n])
      BY <3>2, <3>3 DEF ReadSound, Reads
    <3>5. ASSUME NEW x, x = cache'[p] PROVE Holds(p, x)'
      BY <3>2, <3>4, <3>5, HoldsPersists
    <3> QED
      BY <3>5
  <2> QED
    BY <2>1, <2>2
<1> QED
  BY <1>1, <1>2 DEF StoredSound

-----------------------------------------------------------------------------
(* Downloads.                                                              *)

\* What a download has read keeps its meaning while others go on.
LEMMA ReadsKept ==
  ASSUME DownloadsTypeOK, [Next]_vars, NEW d \in Request, Reads(d),
         urls'[d] = urls[d], buf'[d] = buf[d],
         \/ at'[d] = at[d]
         \/ at'[d] \notin {"list", "set"} /\ at[d] \notin {"list", "end"}
         \/ at'[d] = "end"
  PROVE  Reads(d)'
<1>1. ASSUME NEW i \in 1 .. Len(urls[d])
      PROVE  UrlOf(urls[d][i], i - 1)'
  <2>1. ASSUME NEW url, url = urls[d][i] PROVE UrlOf(url, i - 1)'
    BY <2>1, UrlPersists DEF Reads
  <2> QED
    BY <2>1
<1>2. ASSUME NEW i \in 1 .. Len(buf[d])
      PROVE  Holds(urls[d][i], buf[d][i])'
  <2>1. ASSUME NEW p, NEW x, p = urls[d][i], x = buf[d][i] PROVE Holds(p, x)'
    BY <2>1, HoldsPersists DEF Reads
  <2> QED
    BY <2>1
<1> QED
  BY <1>1, <1>2 DEF Reads

\* The slice of urls has one place for each chunk, and each url is in its place.
LEMMA UrlsInPlace ==
  ASSUME DownloadsTypeOK, StoredSound, NEW v \in Version,
         NEW chunks \in BuildFilesInfoResponse(SelectFiles(v))
  PROVE  /\ UrlsOf(v, chunks) \in Seq(Path \cup {Nil})
         /\ Len(UrlsOf(v, chunks)) = NChunks[v]
         /\ \A i \in 1 .. NChunks[v] : UrlOf(UrlsOf(v, chunks)[i], i - 1)
<1>1. NChunks[v] \in Nat
  BY DownloadsAssumption
<1>2. chunks \subseteq rows
  BY DEF BuildFilesInfoResponse, SelectFiles
<1>3. ASSUME NEW i \in 1 .. NChunks[v]
      PROVE  UrlsOf(v, chunks)[i] \in Path \cup {Nil} /\ UrlOf(UrlsOf(v, chunks)[i], i - 1)
  <2>1. CASE i - 1 \in ChunkIds(chunks)
    <3>1. PICK r \in chunks : r = CHOOSE s \in chunks : s.chunk = i - 1
      BY <2>1 DEF ChunkIds
    <3>2. r.chunk = i - 1
      BY <2>1, <3>1 DEF ChunkIds
    <3>3. UrlsOf(v, chunks)[i] = r.url
      BY <2>1, <3>1 DEF UrlsOf
    <3>4. r \in rows /\ r.url \in Path \cup {Nil}
      BY <1>2 DEF DownloadsTypeOK, UserFile
    <3> QED
      BY <3>2, <3>3, <3>4 DEF StoredSound
  <2>2. CASE i - 1 \notin ChunkIds(chunks)
    BY <2>2 DEF UrlsOf, UrlOf
  <2> QED
    BY <2>1, <2>2
<1>4. UrlsOf(v, chunks) = [i \in 1 .. NChunks[v] |-> UrlsOf(v, chunks)[i]]
  BY DEF UrlsOf
<1>5. UrlsOf(v, chunks) \in [1 .. NChunks[v] -> Path \cup {Nil}]
  BY <1>3, <1>4
<1> QED
  BY <1>1, <1>3, <1>5

\* A chunk is read from where it was written.
LEMMA ReadsMore ==
  ASSUME DownloadsTypeOK, [Next]_vars, NEW d \in Request, Reads(d), Fetching(d),
         NEW x, Holds(NextUrl(d), x), NextUrl(d) # Nil, urls' = urls,
         buf' = [buf EXCEPT ![d] = Append(@, x)], at'[d] \in {"fetch", "set"}
  PROVE  Reads(d)' /\ buf' \in [Request -> Seq(Data)]
<1> DEFINE n == Len(buf[d]) + 1
<1>1. /\ buf[d] \in Seq(Data) /\ x \in Data /\ at[d] = "fetch"
      /\ urls[d] \in Seq(Path \cup {Nil}) /\ n \in 1 .. Len(urls[d])
  BY DEF DownloadsTypeOK, Fetching, Holds
<1>2. /\ buf'[d] \in Seq(Data) /\ Len(buf'[d]) = n /\ buf'[d][n] = x /\ buf'[d] # <<>>
      /\ \A i \in 1 .. n : i # n => i \in 1 .. Len(buf[d]) /\ buf'[d][i] = buf[d][i]
  <2>1. buf'[d] = Append(buf[d], x)
    BY DEF DownloadsTypeOK
  <2>2. Len(buf[d]) \in Nat
    BY <1>1
  <2>3. buf'[d] \in Seq(Data) /\ Len(buf'[d]) = n /\ buf'[d][n] = x
    BY <1>1, <2>1
  <2>4. \A i \in 1 .. Len(buf[d]) : buf'[d][i] = buf[d][i]
    BY <1>1, <2>1
  <2> QED
    BY <2>2, <2>3, <2>4
<1>3. ASSUME NEW i \in 1 .. n, NEW p, NEW y, p = urls[d][i], y = buf'[d][i]
      PROVE  p # Nil /\ Holds(p, y)'
  <2>1. p # Nil /\ Holds(p, y)
    BY <1>1, <1>2, <1>3 DEF Reads, NextUrl
  <2> QED
    BY <2>1, HoldsPersists
<1>4. ASSUME NEW i \in 1 .. Len(urls[d]), NEW url, url = urls[d][i]
      PROVE  UrlOf(url, i - 1)'
  BY <1>4, UrlPersists DEF Reads
<1>5. Len(urls[d]) = NChunks[Wanted[d]]
  BY <1>1 DEF Reads
<1> HIDE DEF n
<1>6. Reads(d)'
  <2>1. urls'[d] = urls[d]
    OBVIOUS
  <2>2. \A i \in 1 .. Len(urls[d]) : UrlOf(urls[d][i], i - 1)'
    BY <1>4, <2>1
  <2>3. \A i \in 1 .. n : urls[d][i] # Nil /\ Holds(urls[d][i], buf[d][i])'
    BY <1>3, <2>1
  <2>4. n <= Len(urls[d])
    BY <1>1
  <2> QED
    BY <1>2, <1>5, <2>1, <2>2, <2>3, <2>4 DEF Reads
<1> QED
  BY <1>2, <1>6 DEF DownloadsTypeOK

\* A download is its own request's business.
LEMMA OwnSteps ==
  ASSUME DownloadsTypeOK, [Next]_vars, NEW d \in Request
  PROVE  \/ DownloadStep(d)
         \/ at'[d] = at[d] /\ urls'[d] = urls[d] /\ buf'[d] = buf[d] /\ handle'[d] = handle[d]
<1>1. ASSUME NEW e \in Request, e # d, DownloadStep(e)
      PROVE  /\ at'[d] = at[d] /\ urls'[d] = urls[d] /\ buf'[d] = buf[d]
             /\ handle'[d] = handle[d]
  BY <1>1 DEF DownloadStep, ListOrderedFileChunks, Fail, CacheHit, Open, SetEx, SetExFails,
              ReadFails, CreateOutput, WriteOutput, WriteFails, Attachment, Remove, outVars,
              DownloadsTypeOK
<1> QED
  BY <1>1 DEF Next, vars, outVars, UploadStep, Create, Copy, CopyFails, Insert, InsertFails,
              Inherit, Expire

\* Every download reads what was written, in its place.
LEMMA ReadSoundStep ==
  ASSUME DownloadsTypeOK, StoredSound, ReadSound, [Next]_vars
  PROVE  /\ ReadSound'
         /\ urls' \in [Request -> Seq(Path \cup {Nil})]
         /\ buf' \in [Request -> Seq(Data)]
<1> DEFINE Typed == /\ urls' \in [Request -> Seq(Path \cup {Nil})]
                    /\ buf' \in [Request -> Seq(Data)]
<1>1. ASSUME NEW d \in Request, ListOrderedFileChunks(d)
      PROVE  Reads(d)' /\ Typed
  <2>1. at[d] = "list" /\ buf' = buf /\ buf[d] = <<>>
    BY <1>1 DEF ListOrderedFileChunks, ReadSound, Reads
  <2>2. ASSUME Fail(d), urls' = urls
        PROVE  Reads(d)' /\ Typed
    <3>1. at'[d] = "end"
      BY <2>2 DEF Fail, DownloadsTypeOK
    <3> QED
      BY <2>1, <2>2, <3>1, ReadsKept DEF ReadSound, DownloadsTypeOK
  <2>3. ASSUME NEW chunks \in BuildFilesInfoResponse(SelectFiles(Wanted[d])),
               urls' = [urls EXCEPT ![d] = UrlsOf(Wanted[d], chunks)],
               at' = [at EXCEPT ![d] = "fetch"]
        PROVE  Reads(d)' /\ Typed
    <3>1. PICK v \in Version, slice \in Seq(Path \cup {Nil}) :
                 v = Wanted[d] /\ slice = UrlsOf(v, chunks)
      BY DownloadsAssumption, UrlsInPlace
    <3>2. Len(slice) = NChunks[v] /\ \A i \in 1 .. Len(slice) : UrlOf(slice[i], i - 1)
      BY <3>1, UrlsInPlace
    <3>3. urls'[d] = slice /\ at'[d] = "fetch" /\ buf'[d] = <<>> /\ Typed
      BY <2>1, <2>3, <3>1 DEF DownloadsTypeOK
    <3>4. ASSUME NEW i \in 1 .. Len(slice), NEW url, url = slice[i]
          PROVE  UrlOf(url, i - 1)'
      BY <3>2, <3>4, UrlPersists
    <3>5. (\A i \in 1 .. Len(slice) : UrlOf(urls[d][i], i - 1))'
      BY <3>3, <3>4
    <3>6. (\A i \in 1 .. Len(urls[d]) : UrlOf(urls[d][i], i - 1))'
      BY <3>3, <3>5
    <3>7. NChunks[v] \in Nat /\ Len(urls'[d]) = NChunks[Wanted[d]]
      BY <3>1, <3>2, <3>3, DownloadsAssumption
    <3>8. buf'[d] = <<>> => Len(buf'[d]) = 0 /\ 1 .. Len(buf'[d]) = {}
      OBVIOUS
    <3> QED
      BY <3>3, <3>6, <3>7, <3>8 DEF Reads
  <2> QED
    BY <1>1, <2>2, <2>3 DEF ListOrderedFileChunks
<1>2. ASSUME NEW d \in Request, CacheHit(d)
      PROVE  Reads(d)' /\ Typed
  <2>1. Fetching(d) /\ NextUrl(d) # Nil /\ NextUrl(d) \in Path
    <3>1. urls[d] \in Seq(Path \cup {Nil}) /\ Len(buf[d]) \in Nat
      BY DEF DownloadsTypeOK
    <3>2. Fetching(d) /\ NextUrl(d) # Nil /\ Len(buf[d]) + 1 \in 1 .. Len(urls[d])
      BY <1>2, <3>1 DEF CacheHit, Fetching
    <3> QED
      BY <3>1, <3>2 DEF NextUrl
  <2>2. Holds(NextUrl(d), cache[NextUrl(d)])
    BY <1>2, <2>1 DEF CacheHit, StoredSound
  <2>3. /\ at'[d] = "fetch" /\ urls' = urls
        /\ buf' = [buf EXCEPT ![d] = Append(@, cache[NextUrl(d)])]
    BY <1>2 DEF CacheHit, Fetching
  <2> QED
    BY <2>1, <2>2, <2>3, ReadsMore DEF ReadSound, DownloadsTypeOK
<1>3. ASSUME NEW d \in Request, Open(d)
      PROVE  Reads(d)' /\ Typed
  <2>1. Fetching(d) /\ urls' = urls
    BY <1>3 DEF Open
  <2>2. CASE NextUrl(d) = Nil /\ Fail(d) /\ buf' = buf
    <3>1. at'[d] = "end"
      BY <2>2 DEF Fail, DownloadsTypeOK
    <3> QED
      BY <2>1, <2>2, <3>1, ReadsKept DEF ReadSound, DownloadsTypeOK
  <2>3. CASE /\ NextUrl(d) # Nil
             /\ buf' = [buf EXCEPT ![d] = Append(@, disk[NextUrl(d)])]
             /\ at' = [at EXCEPT ![d] = IF d \in Cached THEN "set" ELSE "fetch"]
    <3>1. Len(buf[d]) + 1 \in 1 .. Len(urls[d])
      BY <2>1 DEF Fetching, DownloadsTypeOK
    <3>2. Holds(NextUrl(d), disk[NextUrl(d)])
      BY <2>3, <3>1 DEF ReadSound, Reads, UrlOf, NextUrl, Written
    <3>3. at'[d] \in {"fetch", "set"}
      BY <2>3 DEF DownloadsTypeOK
    <3> QED
      BY <2>1, <2>3, <3>2, <3>3, ReadsMore DEF ReadSound, DownloadsTypeOK
  <2> QED
    BY <1>3, <2>2, <2>3 DEF Open
<1>4. ASSUME NEW d \in Request, DownloadStep(d),
             ~ListOrderedFileChunks(d), ~CacheHit(d), ~Open(d)
      PROVE  Reads(d)' /\ Typed
  <2>1. /\ urls' = urls /\ buf' = buf
        /\ at'[d] \notin {"list", "set"}
        /\ at[d] \notin {"list", "end"}
    BY <1>4 DEF DownloadStep, SetEx, SetExFails, ReadFails, Fail, CreateOutput, WriteOutput,
                WriteFails, Attachment, Remove, DownloadsTypeOK
  <2> QED
    BY <2>1, ReadsKept DEF ReadSound, DownloadsTypeOK
<1>5. ASSUME NEW d \in Request, DownloadStep(d)
      PROVE  Reads(d)' /\ Typed
  BY <1>1, <1>2, <1>3, <1>4, <1>5
<1>6. ASSUME NEW d \in Request
      PROVE  Reads(d)'
  BY <1>5, OwnSteps, ReadsKept DEF ReadSound
<1>7. Typed
  BY <1>5 DEF Next, vars, UploadStep, Create, Copy, CopyFails, Insert, InsertFails, Inherit,
              Expire, DownloadsTypeOK
<1> QED
  BY <1>6, <1>7 DEF ReadSound

\* Rows, cache, channels and files keep their types.
LEMMA DownloadsTypeStep ==
  ASSUME DownloadsTypeOK, StoredSound, ReadSound, OutputSound, [Next]_vars
  PROVE  DownloadsTypeOK'
<1>1. urls' \in [Request -> Seq(Path \cup {Nil})] /\ buf' \in [Request -> Seq(Data)]
  BY ReadSoundStep
<1>2. /\ upload' \in [Upload -> {"new", "copy", "insert", "lost", "done"}]
      /\ raced' \subseteq Upload
      /\ disk' \in [Path -> Data \cup {Nil}]
  <2>1. CASE UNCHANGED <<upload, raced, disk>>
    BY <2>1 DEF DownloadsTypeOK
  <2>2. ASSUME NEW u \in Upload, Create(u) \/ Copy(u) \/ CopyFails(u)
        PROVE  /\ upload' \in [Upload -> {"new", "copy", "insert", "lost", "done"}]
               /\ raced' \subseteq Upload
               /\ disk' \in [Path -> Data \cup {Nil}]
    <3>1. CASE Create(u)
      BY <3>1 DEF Create, Writers, Data, DownloadsTypeOK
    <3>2. CASE Copy(u)
      <4>1. PICK data \in Data : disk' = [disk EXCEPT ![Target[u]] = data]
        BY <3>2 DEF Copy, Data
      <4> QED
        BY <3>2, <4>1 DEF Copy, DownloadsTypeOK
    <3>3. CASE CopyFails(u)
      BY <3>3 DEF CopyFails, Data, DownloadsTypeOK
    <3> QED
      BY <2>2, <3>1, <3>2, <3>3
  <2>3. ASSUME NEW u \in Upload, Insert(u) \/ InsertFails(u)
        PROVE  /\ upload' \in [Upload -> {"new", "copy", "insert", "lost", "done"}]
               /\ raced' = raced /\ disk' = disk
    BY <2>3 DEF Insert, InsertFails, DownloadsTypeOK
  <2> QED
    BY <2>1, <2>2, <2>3, OnlyUploads DEF UploadStep, DownloadsTypeOK
<1>3. rows' \subseteq UserFile
  <2>1. ASSUME NEW u \in Upload, Insert(u)
        PROVE  rows' \subseteq UserFile
    <3>1. Target[u] \in Path /\ Target[u][1] \in Version /\ Target[u][2] \in Nat
      BY DownloadsAssumption DEF Path
    <3>2. \A url \in Path \cup {Nil} :
            [version |-> Target[u][1], chunk |-> Target[u][2], url |-> url] \in UserFile
      BY <3>1 DEF UserFile
    <3>3. PICK url \in Path \cup {Nil} :
            rows' = rows \cup {[version |-> Target[u][1], chunk |-> Target[u][2], url |-> url]}
      BY <2>1, <3>1 DEF Insert
    <3> QED
      BY <3>2, <3>3 DEF DownloadsTypeOK
  <2>2. ASSUME NEW v \in Version, Inherit(v)
        PROVE  rows' \subseteq UserFile
    <3>1. PICK prevFile \in BuildFilesInfoResponse(SelectFiles(PrevOf[v])) :
            rows' = rows \cup {[r EXCEPT !.version = v] :
                                 r \in {r \in prevFile :
                                          r.chunk \notin ChunkIds(SelectFiles(v))}}
      BY <2>2 DEF Inherit
    <3>2. prevFile \subseteq UserFile
      BY DEF BuildFilesInfoResponse, SelectFiles, DownloadsTypeOK
    <3>3. \A r \in UserFile : [r EXCEPT !.version = v] \in UserFile
      BY DEF UserFile
    <3> QED
      BY <3>1, <3>2, <3>3 DEF DownloadsTypeOK
  <2> QED
    BY <2>1, <2>2 DEF Next, vars, uploadVars, UploadStep, Create, Copy, CopyFails, InsertFails,
         DownloadStep, ListOrderedFileChunks, CacheHit, Open, SetEx, SetExFails, ReadFails,
         CreateOutput, WriteOutput, WriteFails, Attachment, Remove, Expire, DownloadsTypeOK
<1>4. cache' \in [Path -> Data \cup {Nil}]
  <2>1. ASSUME NEW d \in Request, SetEx(d)
        PROVE  cache' \in [Path -> Data \cup {Nil}]
    <3>1. buf[d] \in Seq(Data) /\ buf[d] # <<>>
      BY <2>1 DEF SetEx, ReadSound, Reads, DownloadsTypeOK
    <3>2. buf[d][Len(buf[d])] \in Data
      BY <3>1
    <3> QED
      BY <2>1, <3>2 DEF SetEx, DownloadsTypeOK
  <2>2. ASSUME NEW p \in Path, Expire(p)
        PROVE  cache' \in [Path -> Data \cup {Nil}]
    BY <2>2 DEF Expire, DownloadsTypeOK
  <2> QED
    BY <2>1, <2>2 DEF Next, vars, uploadVars, UploadStep, Create, Copy, CopyFails, Insert,
         InsertFails, Inherit, DownloadStep, ListOrderedFileChunks, CacheHit, Open, SetExFails,
         ReadFails, CreateOutput, WriteOutput, WriteFails, Attachment, Remove, DownloadsTypeOK
<1> DEFINE OutputTypes ==
             /\ at \in [Request -> {"list", "fetch", "set", "write", "attach", "remove", "end"}]
             /\ out \in [Name -> Request \cup {Nil}]
             /\ file \in [Request -> Seq(Data) \cup {Torn}]
             /\ handle \in [Request -> Request \cup {Nil}]
             /\ response \in [Request -> Seq(Data) \cup {Torn, Nil}]
             /\ overlapped \subseteq Request
<1>5. OutputTypes
  BY DEF DownloadsTypeOK
<1>6. ASSUME NEW d \in Request, DownloadStep(d)
      PROVE  OutputTypes'
  <2>1. OutputPath(d) \in Name /\ buf[d] \in Seq(Data)
    BY DownloadsAssumption DEF OutputPath, Name, DownloadsTypeOK
  <2>2. CASE \/ ListOrderedFileChunks(d) \/ CacheHit(d) \/ Open(d) \/ SetEx(d)
             \/ SetExFails(d) \/ ReadFails(d) \/ Remove(d)
    BY <1>5, <2>2 DEF ListOrderedFileChunks, Fail, CacheHit, Open, SetEx, SetExFails, ReadFails,
                      Remove, outVars
  <2>3. CASE CreateOutput(d)
    <3>1. out[OutputPath(d)] # Nil => out[OutputPath(d)] \in Request
      BY <1>5, <2>1
    <3>2. <<>> \in Seq(Data)
      OBVIOUS
    <3> QED
      BY <1>5, <2>1, <2>3, <3>1, <3>2 DEF CreateOutput, Sharing
  <2>4. CASE WriteOutput(d)
    BY <1>5, <2>1, <2>4 DEF WriteOutput
  <2>5. CASE WriteFails(d)
    BY <1>5, <2>5 DEF WriteFails
  <2>6. CASE Attachment(d)
    <3>1. out[OutputPath(d)] # Nil => file[out[OutputPath(d)]] \in Seq(Data) \cup {Torn}
      BY <1>5, <2>1
    <3> QED
      BY <1>5, <2>6, <3>1 DEF Attachment
  <2> QED
    BY <1>6, <2>2, <2>3, <2>4, <2>5, <2>6 DEF DownloadStep
<1>7. OutputTypes'
  <2>1. CASE UNCHANGED <<at, outVars>>
    BY <1>5, <2>1 DEF outVars
  <2> QED
    BY <1>6, <2>1 DEF Next, vars, UploadStep, Create, Copy, CopyFails, Insert, InsertFails,
                      Inherit, Expire
<1> QED
  BY <1>1, <1>2, <1>3, <1>4, <1>7 DEF DownloadsTypeOK

-----------------------------------------------------------------------------
(* Output files.                                                           *)

\* Output files, and who has them, change in these steps only.
LEMMA OutputSteps ==
  ASSUME [Next]_vars
  PROVE  \/ \E d \in Request : \/ CreateOutput(d) \/ WriteOutput(d) \/ WriteFails(d)
                               \/ Attachment(d) \/ Remove(d)
         \/ UNCHANGED outVars
BY DEF Next, vars, UploadStep, Create, Copy, CopyFails, Insert, InsertFails, Inherit, Expire,
       DownloadStep, ListOrderedFileChunks, CacheHit, Open, SetEx, SetExFails, ReadFails

\* A download is busy with its output from its creation to its removal, and its
\* chunks do not change meanwhile.
LEMMA BusySteps ==
  ASSUME DownloadsTypeOK, ReadSound, [Next]_vars, NEW d \in Request
  PROVE  /\ Busy(d)' => Busy(d) \/ CreateOutput(d)
         /\ Busy(d) => Busy(d)' \/ Remove(d)
         /\ Busy(d) \/ Busy(d)' => buf'[d] = buf[d]
         /\ Busy(d)' => Len(buf'[d]) = NChunks[Wanted[d]] \/ Busy(d)
         /\ Busy(d) => handle'[d] = handle[d]
<1>1. CASE DownloadStep(d)
  <2>1. CASE \/ ListOrderedFileChunks(d) \/ CacheHit(d) \/ Open(d) \/ SetEx(d)
             \/ SetExFails(d) \/ ReadFails(d)
    <3>1. ~Busy(d) /\ ~Busy(d)'
      BY <2>1 DEF ListOrderedFileChunks, Fail, CacheHit, Open, Fetching, SetEx, SetExFails,
                  ReadFails, Busy, DownloadsTypeOK
    <3> QED
      BY <3>1
  <2>2. CASE CreateOutput(d)
    BY <2>2 DEF CreateOutput, Busy, ReadSound, Reads, DownloadsTypeOK
  <2>3. CASE WriteOutput(d) \/ WriteFails(d) \/ Attachment(d)
    BY <2>3 DEF WriteOutput, WriteFails, Attachment, Busy, DownloadsTypeOK
  <2>4. CASE Remove(d)
    BY <2>4 DEF Remove, Busy, DownloadsTypeOK
  <2> QED
    BY <1>1, <2>1, <2>2, <2>3, <2>4 DEF DownloadStep
<1>2. CASE ~DownloadStep(d)
  BY <1>2, OwnSteps DEF Busy
<1> QED
  BY <1>1, <1>2

\* The file a new output is written to has its path.
LEMMA Created ==
  ASSUME DownloadsTypeOK, OutputSound, NEW d \in Request, CreateOutput(d)
  PROVE  /\ OutputPath(d) \in Name
         /\ handle'[d] \in Request /\ OutputPath(handle'[d]) = OutputPath(d)
         /\ out'[OutputPath(d)] = handle'[d]
         /\ \A n \in Name : n # OutputPath(d) => out'[n] = out[n]
         /\ \A f \in Request : f # handle'[d] => file'[f] = file[f]
         /\ at'[d] = "write" /\ at[d] = "fetch" /\ \A e \in Request : e # d => at'[e] = at[e]
<1>1. OutputPath(d) \in Name
  BY DownloadsAssumption DEF OutputPath, Name
<1>2. out[OutputPath(d)] # Nil => /\ out[OutputPath(d)] \in Request
                                  /\ OutputPath(out[OutputPath(d)]) = OutputPath(d)
  <2>1. out[OutputPath(d)] # Nil => out[OutputPath(d)] \in Request
    BY <1>1 DEF DownloadsTypeOK
  <2>2. \A n \in Name : out[n] # Nil => OutputPath(out[n]) = n
    BY DEF OutputSound
  <2> QED
    BY <1>1, <2>1, <2>2
<1>3. handle'[d] = IF out[OutputPath(d)] = Nil THEN d ELSE out[OutputPath(d)]
  BY DEF CreateOutput, DownloadsTypeOK
<1>4. /\ out' = [out EXCEPT ![OutputPath(d)] = handle'[d]]
      /\ file' = [file EXCEPT ![handle'[d]] = <<>>]
  BY <1>3 DEF CreateOutput
<1> QED
  BY <1>1, <1>2, <1>3, <1>4 DEF CreateOutput, DownloadsTypeOK

\* Output files belong to busy downloads.
LEMMA OutputSoundStep ==
  ASSUME DownloadsTypeOK, ReadSound, OutputSound, [Next]_vars
  PROVE  OutputSound'
<1>1. ASSUME NEW n \in Name, out'[n] # Nil
      PROVE  /\ OutputPath(out'[n]) = n
             /\ \E d \in Request : Busy(d)' /\ OutputPath(d) = n
  <2>1. CASE \E d \in Request : CreateOutput(d) /\ OutputPath(d) = n
    BY <2>1, Created DEF Busy
  <2>2. CASE ~\E d \in Request : CreateOutput(d) /\ OutputPath(d) = n
    <3>1. out'[n] = out[n]
      <4>1. ASSUME NEW d \in Request, CreateOutput(d)
            PROVE  out'[n] = out[n]
        BY <2>2, <4>1, Created
      <4>2. ASSUME NEW d \in Request, Remove(d)
            PROVE  out'[n] = out[n]
        BY <1>1, <4>2 DEF Remove, DownloadsTypeOK
      <4> QED
        BY <4>1, <4>2, OutputSteps DEF WriteOutput, WriteFails, Attachment, outVars
    <3>2. PICK d \in Request : Busy(d) /\ OutputPath(d) = n
      BY <1>1, <3>1 DEF OutputSound
    <3>3. ~Remove(d)
      BY <1>1, <3>2 DEF Remove, DownloadsTypeOK
    <3> QED
      BY <1>1, <3>1, <3>2, <3>3, BusySteps DEF OutputSound
  <2> QED
    BY <2>1, <2>2
<1>2. ASSUME NEW d \in Request, Busy(d)'
      PROVE  /\ Len(buf'[d]) = NChunks[Wanted[d]]
             /\ handle'[d] \in Request /\ OutputPath(handle'[d]) = OutputPath(d)
  <2>1. CASE Busy(d)
    <3>1. buf'[d] = buf[d] /\ handle'[d] = handle[d]
      BY <2>1, BusySteps
    <3> QED
      BY <2>1, <3>1 DEF OutputSound
  <2>2. CASE ~Busy(d)
    BY <1>2, <2>2, BusySteps, Created
  <2> QED
    BY <2>1, <2>2
<1> QED
  BY <1>1, <1>2 DEF OutputSound, OutputPath

\* Downloads that meet on a path are noted.
LEMMA MeetingsNoted ==
  ASSUME DownloadsTypeOK, ReadSound, OutputSound, Undisturbed, [Next]_vars,
         NEW d \in Request, Busy(d)', d \notin overlapped',
         NEW e \in Request, Busy(e)', e # d, OutputPath(e) = OutputPath(d)
  PROVE  FALSE
<1>1. ASSUME NEW x \in Request, NEW y \in Request, x # y, CreateOutput(x), Busy(y)',
             OutputPath(x) = OutputPath(y)
      PROVE  x \in overlapped' /\ y \in overlapped'
  <2>1. Busy(y)
    BY <1>1, Created DEF Busy
  <2>2. y \in Sharing(x)
    BY <1>1, <2>1 DEF Sharing, Busy
  <2> QED
    BY <1>1, <2>2 DEF CreateOutput
<1>2. CASE Busy(d) /\ Busy(e)
  <2>1. overlapped \subseteq overlapped'
    BY OutputSteps DEF CreateOutput, WriteOutput, WriteFails, Attachment, Remove, outVars
  <2> QED
    BY <1>2, <2>1 DEF Undisturbed
<1> QED
  BY <1>1, <1>2, BusySteps

\* A download that met no other one finds what it has written.
LEMMA UndisturbedStep ==
  ASSUME DownloadsTypeOK, ReadSound, OutputSound, Undisturbed, [Next]_vars
  PROVE  Undisturbed'
<1> SUFFICES ASSUME NEW d \in Request, d \notin overlapped', Busy(d)'
             PROVE  /\ \A e \in Request : Busy(e)' /\ e # d => OutputPath(e) # OutputPath(d)
                    /\ out'[OutputPath(d)] = handle'[d]
                    /\ at'[d] = "attach" => file'[handle'[d]] = buf'[d]
  BY DEF Undisturbed, OutputPath
<1>1. \A e \in Request : Busy(e)' /\ e # d => OutputPath(e) # OutputPath(d)
  BY MeetingsNoted
<1>2. CASE CreateOutput(d)
  BY <1>1, <1>2, Created
<1>3. CASE ~CreateOutput(d)
  <2>1. /\ Busy(d) /\ d \notin overlapped /\ ~Remove(d)
        /\ buf'[d] = buf[d] /\ handle'[d] = handle[d]
    <3>1. overlapped \subseteq overlapped'
      BY OutputSteps DEF CreateOutput, WriteOutput, WriteFails, Attachment, Remove, outVars
    <3>2. Busy(d) /\ buf'[d] = buf[d] /\ handle'[d] = handle[d]
      BY <1>3, BusySteps
    <3>3. ~Remove(d)
      BY DEF Remove, Busy, DownloadsTypeOK
    <3> QED
      BY <3>1, <3>2, <3>3
  <2>2. /\ \A e \in Request : Busy(e) /\ e # d => OutputPath(e) # OutputPath(d)
        /\ out[OutputPath(d)] = handle[d]
        /\ at[d] = "attach" => file[handle[d]] = buf[d]
    BY <2>1 DEF Undisturbed
  <2>3. /\ OutputPath(d) \in Name
        /\ handle[d] \in Request /\ OutputPath(handle[d]) = OutputPath(d)
    BY <2>1, DownloadsAssumption DEF OutputSound, OutputPath, Name
  <2>4. ASSUME NEW e \in Request, CreateOutput(e)
        PROVE  /\ out'[OutputPath(d)] = out[OutputPath(d)] /\ file'[handle[d]] = file[handle[d]]
               /\ at'[d] = at[d]
    <3>1. e # d /\ OutputPath(e) # OutputPath(d)
      BY <1>1, <1>3, <2>4, Created DEF Busy
    <3> QED
      BY <2>3, <2>4, <3>1, Created
  <2>5. ASSUME NEW e \in Request, Remove(e)
        PROVE  /\ out'[OutputPath(d)] = out[OutputPath(d)] /\ file' = file /\ at'[d] = at[d]
    <3>1. e # d /\ OutputPath(e) # OutputPath(d)
      BY <2>1, <2>2, <2>5 DEF Remove, Busy
    <3> QED
      BY <2>3, <2>5, <3>1 DEF Remove, DownloadsTypeOK
  <2>6. ASSUME NEW e \in Request, e # d, WriteOutput(e) \/ WriteFails(e)
        PROVE  out' = out /\ file'[handle[d]] = file[handle[d]] /\ at'[d] = at[d]
    <3>1. OutputPath(e) # OutputPath(d) /\ OutputPath(handle[e]) = OutputPath(e)
      BY <2>2, <2>6 DEF WriteOutput, WriteFails, Busy, OutputSound
    <3> QED
      BY <2>3, <2>6, <3>1 DEF WriteOutput, WriteFails, DownloadsTypeOK
  <2>7. ASSUME WriteOutput(d)
        PROVE  out' = out /\ file'[handle[d]] = buf[d]
    BY <2>1, <2>3, <2>7 DEF WriteOutput, DownloadsTypeOK
  <2>8. ASSUME WriteFails(d)
        PROVE  out' = out /\ at'[d] = "remove"
    BY <2>8 DEF WriteFails, DownloadsTypeOK
  <2>9. ASSUME NEW e \in Request, Attachment(e)
        PROVE  out' = out /\ file' = file /\ (at'[d] = "attach" => at[d] = "attach")
    BY <2>9 DEF Attachment, DownloadsTypeOK
  <2>10. at'[d] = "attach" => at[d] = "attach" \/ WriteOutput(d)
    BY OwnSteps DEF DownloadStep, ListOrderedFileChunks, Fail, CacheHit, Open, Fetching, SetEx,
         SetExFails, ReadFails, CreateOutput, WriteFails, Attachment, Remove, DownloadsTypeOK
  <2>11. /\ out'[OutputPath(d)] = handle[d]
         /\ at'[d] = "attach" => file'[handle[d]] = buf[d]
    BY <2>2, <2>4, <2>5, <2>6, <2>7, <2>8, <2>9, <2>10, OutputSteps DEF outVars
  <2> QED
    BY <1>1, <2>1, <2>11
<1> QED
  BY <1>2, <1>3

\* A download without company is answered with what it has read.
LEMMA AnsweredStep ==
  ASSUME DownloadsTypeOK, OutputSound, Undisturbed, Answered, [Next]_vars
  PROVE  Answered'
<1> SUFFICES ASSUME NEW d \in Request, response'[d] # Nil
             PROVE  /\ at'[d] \in {"remove", "end"}
                    /\ d \notin overlapped' =>
                         response'[d] = buf'[d] /\ Len(buf'[d]) = NChunks[Wanted[d]]
  BY DEF Answered
<1>1. overlapped \subseteq overlapped'
  BY OutputSteps DEF CreateOutput, WriteOutput, WriteFails, Attachment, Remove, outVars
<1>2. CASE Attachment(d)
  <2>1. Busy(d) /\ at[d] = "attach" /\ at'[d] = "remove" /\ buf' = buf
    BY <1>2 DEF Attachment, Busy, DownloadsTypeOK
  <2>2. ASSUME d \notin overlapped
        PROVE  response'[d] = buf[d] /\ Len(buf[d]) = NChunks[Wanted[d]]
    <3>1. /\ out[OutputPath(d)] = handle[d] /\ file[handle[d]] = buf[d]
          /\ handle[d] \in Request /\ Len(buf[d]) = NChunks[Wanted[d]]
      BY <2>1, <2>2 DEF Undisturbed, OutputSound
    <3> QED
      BY <1>2, <3>1, DownloadsAssumption DEF Attachment, DownloadsTypeOK
  <2> QED
    BY <1>1, <2>1, <2>2
<1>3. CASE ~Attachment(d)
  <2>1. response'[d] = response[d]
    <3>1. ASSUME NEW e \in Request, Attachment(e)
          PROVE  response'[d] = response[d]
      BY <1>3, <3>1 DEF Attachment, DownloadsTypeOK
    <3> QED
      BY <3>1, OutputSteps DEF CreateOutput, WriteOutput, WriteFails, Remove, outVars
  <2>2. at[d] \in {"remove", "end"}
    BY <2>1 DEF Answered
  <2>3. at'[d] \in {"remove", "end"} /\ buf'[d] = buf[d]
    BY <2>2, OwnSteps DEF DownloadStep, ListOrderedFileChunks, CacheHit, Open, Fetching, SetEx,
         SetExFails, ReadFails, CreateOutput, WriteOutput, WriteFails, Attachment, Remove,
         DownloadsTypeOK
  <2> QED
    BY <1>1, <2>1, <2>3 DEF Answered
<1> QED
  BY <1>2, <1>3

-----------------------------------------------------------------------------
(* The invariant.                                                          *)

\* Nothing is uploaded, cached or in progress at first.
LEMMA InitDownloadsInv == Init => DownloadsInv
<1> SUFFICES ASSUME Init PROVE DownloadsInv
  OBVIOUS
<1>1. DownloadsTypeOK
  <2>1. <<>> \in Seq(Data) /\ <<>> \in Seq(Path \cup {Nil})
    OBVIOUS
  <2>2. /\ upload \in [Upload -> {"new", "copy", "insert", "lost", "done"}]
        /\ disk \in [Path -> Data \cup {Nil}] /\ cache \in [Path -> Data \cup {Nil}]
        /\ raced \subseteq Upload /\ rows \subseteq UserFile /\ overlapped \subseteq Request
    BY DEF Init
  <2>3. /\ at \in [Request -> {"list", "fetch", "set", "write", "attach", "remove", "end"}]
        /\ out \in [Name -> Request \cup {Nil}] /\ handle \in [Request -> Request \cup {Nil}]
        /\ response \in [Request -> Seq(Data) \cup {Torn, Nil}]
    BY DEF Init
  <2>4. /\ urls \in [Request -> Seq(Path \cup {Nil})] /\ buf \in [Request -> Seq(Data)]
        /\ file \in [Request -> Seq(Data) \cup {Torn}]
    BY <2>1 DEF Init
  <2> QED
    BY <2>2, <2>3, <2>4 DEF DownloadsTypeOK
<1>2. UploadsSound /\ StoredSound
  <2>1. /\ raced = {} /\ rows = {}
        /\ \A u \in Upload : upload[u] = "new"
        /\ \A p \in Path : cache[p] = Nil
    BY DEF Init
  <2> QED
    BY <2>1 DEF UploadsSound, StoredSound
<1>3. ReadSound
  <2>1. SUFFICES ASSUME NEW d \in Request PROVE Reads(d)
    BY DEF ReadSound
  <2>2. at[d] = "list" /\ urls[d] = <<>> /\ buf[d] = <<>>
    BY DEF Init
  <2>3. /\ Len(buf[d]) = 0 /\ Len(urls[d]) = 0
        /\ 1 .. Len(buf[d]) = {} /\ 1 .. Len(urls[d]) = {} /\ Len(buf[d]) <= Len(urls[d])
    BY <2>2
  <2> QED
    BY <2>2, <2>3, Zenon DEF Reads
<1>4. OutputSound /\ Undisturbed /\ Answered
  BY DEF Init, OutputSound, Undisturbed, Answered, Busy
<1> QED
  BY <1>1, <1>2, <1>3, <1>4 DEF DownloadsInv

\* Every step of an upload, of a download, of the worker and of the cache
\* preserves the invariant.
LEMMA StepDownloadsInv ==
  ASSUME DownloadsInv, [Next]_vars
  PROVE  DownloadsInv'
BY DownloadsTypeStep, UploadsSoundStep, StoredSoundStep, ReadSoundStep, OutputSoundStep,
   UndisturbedStep, AnsweredStep DEF DownloadsInv

\* A row has a url only once its blob is written, a download holds what was
\* written to the urls it has listed, and an output path in use has a download
\* that will remove it: FileChunkService.Create, DownloadFile and DownloadFileV2
\* keep this whatever requests run at the same time.
THEOREM DownloadsInvariance == DownloadsSpec => []DownloadsInv
BY InitDownloadsInv, StepDownloadsInv, PTL DEF DownloadsSpec

\* Every variable has its type, so that no download reads a blob that is not
\* there.
THEOREM DownloadsTypeCorrect == DownloadsSpec => []DownloadsTypeOK
<1>1. DownloadsInv => DownloadsTypeOK
  BY DEF DownloadsInv
<1> QED
  BY <1>1, DownloadsInvariance, PTL

\* The bytes read for a chunk that was uploaded once are those of that upload,
\* from the disk, from the cache, and through an inheriting version
\* (FileChunkService.Create, DownloadHandler.Download).
THEOREM OnceUploaded == DownloadsSpec => []OnceUploadedIsServed
<1>1. DownloadsInv => OnceUploadedIsServed
  BY DEF DownloadsInv, ReadSound, Reads, Holds, OnceUploadedIsServed
<1> QED
  BY <1>1, DownloadsInvariance, PTL

\* What is read for a chunk was uploaded for a chunk of that number
\* (ListOrderedFileChunks).
THEOREM InPlace == DownloadsSpec => []ChunksInPlace
<1>1. ASSUME DownloadsInv, NEW d \in Request, NEW i \in 1 .. Len(buf[d]), buf[d][i] # Torn
      PROVE  Target[buf[d][i]][2] = i - 1
  <2>1. /\ Len(buf[d]) <= Len(urls[d])
        /\ urls[d][i] # Nil /\ Holds(urls[d][i], buf[d][i])
        /\ \A j \in 1 .. Len(urls[d]) : UrlOf(urls[d][j], j - 1)
    BY <1>1 DEF DownloadsInv, ReadSound, Reads
  <2>2. Len(buf[d]) \in Nat /\ Len(urls[d]) \in Nat
    BY <1>1 DEF DownloadsInv, DownloadsTypeOK
  <2>3. UrlOf(urls[d][i], i - 1)
    BY <2>1, <2>2
  <2> QED
    BY <1>1, <2>1, <2>3 DEF Holds, UrlOf
<1>2. DownloadsInv => ChunksInPlace
  BY <1>1 DEF ChunksInPlace
<1> QED
  BY <1>2, DownloadsInvariance, PTL

\* A download that met no other one on its output path is answered with all
\* the chunks it has read (c.Attachment of the file it has written).
THEOREM AloneIsAnswered == DownloadsSpec => []AloneGetsItsFile
<1>1. DownloadsInv => AloneGetsItsFile
  BY DEF DownloadsInv, Answered, AloneGetsItsFile
<1> QED
  BY <1>1, DownloadsInvariance, PTL

\* The output directory is empty when no download is in progress (the deferred
\* os.Remove of DownloadFile and DownloadFileV2).
THEOREM OutdirEmptied == DownloadsSpec => []OutdirIsEmptied
<1>1. DownloadsInv => OutdirIsEmptied
  BY DEF DownloadsInv, OutputSound, Busy, OutdirIsEmptied
<1> QED
  BY <1>1, DownloadsInvariance, PTL
=============================================================================
