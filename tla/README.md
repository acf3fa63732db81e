# Verification of arbokcore

TLA+ models of arbokcore, the backend of a file storage service: chunked
uploads, versions of files, a worker that reconciles uploads, notifications to
the devices of a user, downloads and listings. TLC checks the models on small
instances; TLAPS proves the central properties for all values of the constants.

`tlc -workers 2 -config X.cfg M` runs a model, `tlapm M.tla` checks the proofs
of a module. `PROJECT.json` lists components, runs, theorems, the source lines
of every definition, hazards and findings.

## The system

- **API server** (`cmd/server`, `web/routes`, `core/files`). Creates versions
  (rows of `file_metadatas`, linked by `prev_id`, each with a stream token),
  receives chunks from the clients that have the token (a blob on disk and a row
  of `user_files`), and pushes an end-of-upload message on a Redis list. Serves
  downloads, through a Redis cache, and listings.
- **Tokens** (`core/tokens`, `web/middlewares`). Access tokens live as long as
  an hour of the server process, stream tokens have an expiry of their own.
- **Worker process** (`cmd/workers`, `core/supervisors`). Pops the messages.
  `ExecuteEach` copies the chunk rows the client did not upload from the
  previous version, makes the new version current, retires the previous one in
  the same transaction, and pushes a notification.
- **Pipeline** (`Demand`, `Produce`, `pkg/workerpool`). Takes messages from a
  Redis list to a processor function. The worker process runs one, and the API
  server runs one for the notifications.
- **Notifications** (`pkg/brokers`, `web/routes/ssehandler.go`). Connections
  demand events; `SSEConsumer` and `SSEBroker` pass them to the connections of
  two devices.
- **Queues** (`pkg/queuer`). The list the two programs use, and a queue on a
  Redis stream with a consumer group, used by its tests.

## Modules

| module | models | state and steps |
|---|---|---|
| `Reconciler` | versions, chunk rows, messages, worker processes | one function per column of `file_metadatas`, `user_files` as a set; one step per transaction or Redis command. What `ExecuteEach` has read is kept in `exec[w]` and used later, so requests and workers interleave as in the code |
| `SyncClient` | `Reconciler` with a disciplined client | restricts the client's calls only; workers and faults are those of `Reconciler` |
| `Uploads` | `Reconciler` behind the API server's requests | a request to create a version is a lookup (the digest, or the previous version) and an insert, with other requests in between; `live` holds the versions whose client has a stream token that is accepted; the server can die, and answers can be lost |
| `VersionHistory` | abstract specification | a version is drafted, published, retired; publishing retires the predecessor in the same step |
| `WorkQueue` | abstract specification | a process pops messages from the head of a list, holds a few in order, works on one at a time, and loses them when it dies; others may pop too |
| `Pipeline` | ticker, producer, dispatcher, pool | goroutines as sequential processes, a channel of capacity n as a bounded sequence |
| `Notifications` | SSE connections, broker, consumer, forwarder | extends `Pipeline`; its processor is `SSEConsumer.Execute` |
| `Downloads` | upload of blobs, downloads, cache, output file | truncation, copy and insert are separate steps |
| `Listing` | paging | `rows` is what the query selects, a version for each row, newest version first. Between pages chunk rows are added, and versions with any number of rows become current and take those of the version before out, also again and in any order of messages |
| `RedisStream` | the queue on a Redis stream | one step per Redis command, so that the calls of producers, consumers and `Flush` interleave and stop in the middle |
| `ReconcilerProofs`, `SyncClientProofs`, `UploadsProofs`, `DownloadsProofs`, `PipelineProofs`, `NotificationsProofs`, `ListingProofs`, `RedisStreamProofs` | proofs | |
| `MC*` | instances for TLC | |

`Reconciler` abstracts from the pipeline: `held[w]` is a FIFO of popped
messages. `WorkQueue` is what the two have in common. A pipeline with one worker
implements it with room for four messages (`WorkSpec`), and so does each worker
process of `Reconciler`, with room for `MaxHeld + 1` (`ProcessesTakeInOrder`).
This relates both to the same interface; a composition of `Reconciler` with the
goroutines of `Pipeline` is not modelled. `MaxHeld` is 1 in the runs of
`Reconciler`, the theorems are for any.

`Reconciler` takes the client's calls as they come and `SyncClient` restricts
them; `Uploads` shows that what the server does with concurrent requests,
tokens and restarts is a behaviour of `Reconciler`.

Abstractions: names, and, outside of `Uploads`, digests and sizes (a version has
a number of chunks); in `Uploads` a content has a digest of its own, and time
only shows as tokens that expire at any moment. Identifiers are fresh; a
chunk's bytes are the upload that brought them, `Torn` for any others. In
`Listing` versions are numbered in the order of `created_at`, which is taken to
be different for each (it has nanoseconds); `ORDER BY created_at` says nothing
about the rows of one version, and neither does the model. Requests that are
refused change nothing and are not steps.
All callers pass `context.Background()` to pool, producers and broker, so
their branches on `ctx.Done()` cannot be taken and are left out. In
`SyncClient` the client is the frontend, which is another repository; its
discipline is an assumption, made explicit there. It includes that a version
gets one successor at most. Nothing in the server sees to that: when two devices
patch the same version, both new versions become current, and the file has two.
An error of `BLPOP` ends the producer with the list as it was, or with the head
of the list popped and the reply lost; that message then stays with the ended
producer in `Pipeline`, and is lost.

## Runs

| run | instance | shows |
|---|---|---|
| `versions` | 2 versions of 2 chunks, 2 worker processes | with any client, crashes, failed transactions and lost or repeated messages: rows are well formed, nothing is retired without a successor, no lineage leaves the listing, the hand-over is atomic, notifications follow the commit, the url of a row names an uploaded chunk |
| `sync_client` | 3 versions of 0 to 2 chunks, failing copies, all faults | a file has at most one current version, however long its history, whole and frozen, of own and inherited chunks; the versions implement `VersionHistory` |
| `uploads` | 2 versions, 2 users, 2 contents of different size, all faults | two new files have one content only by the race of `FindByHash` with the insert, or by a query that failed; an upload nobody has a token for stays unlisted for good; `Uploads` implements `Reconciler` |
| `upload_settles` | 2 versions, contents of size 0, 3 and 4 with chunks of 2; restarts, failing inserts and pushes, expiring tokens | a version has the chunks its content needs; the upload of a client that goes on is settled and announced, unless its stream token expires |
| `pipeline` | 1 worker, 6 messages, errors of Redis | messages are processed once and in order, the pool never blocks, the process implements `WorkQueue` with four places, all messages are processed in the end unless the producer has ended |
| `notifications` | 2 connections of a device, 2 events, errors of Redis | nothing on a closed channel, events in order and once per device |
| `handlers` | 1 connection, 2 events, no errors of Redis | the circle of goroutines never stands still; handlers of clients that are gone return |
| `downloads` | 2 versions of 2 chunks, 4 uploads (2 for one chunk), 2 downloads | chunks uploaded once are served unharmed, in place; a download alone on its output path gets its own file; the output directory is emptied |
| `listing` | 4 versions of 0 to 2 rows, with any predecessors, pages of 1, 2, 3 and the default | paging misses an unchanged version only if the rows in front of the client became fewer, by at least as many as it has |
| `stream` | 2 single messages, a batch of 2, 2 consumers, 1 flush | a message is returned at most once; one sent with `EnqueueMsg` is not passed over and is delivered in the end; one that was delivered and not returned is lost for good |

Two runs show a disagreement between the code and its own comments or log
lines (`findings` in `PROJECT.json` has the quotations): `two_current` (messages
out of order leave two current versions) and `empty_listing` (a user without
files gets an error).

Some properties say how far the code goes, and a reader should know where it
stops:

- `UploadSettles` is about versions whose merge finds chunk rows on both sides.
  `ExecuteEach` returns `file_merge_conflict` for others (an empty version of a
  file, or a version made from an empty one), before it writes any status,
  though its comment says that it "Updates the upload status to completed or failed accordingly".
- `UploadSettles` leaves out faults of the worker. One that dies with a message
  in its hands loses it; one that dies after `Update`, or whose `Notify` fails,
  has settled a version and told nobody. The second can not be made good by
  another report, which is refused once the version is settled.
- `SkippedOnlyIfShrunk` is what paging by offset gives. A version with fewer rows
  than the one it replaces (a shorter file, or one whose `CreateBatch` failed)
  pulls the rows behind it forward, and a client that has passed it misses as
  many. New files, longer versions and added chunks never do this.
- `SentUnlessDead` and `HandlerReturns` end with an error of `BLPOP`: the log
  line says "failed to fetch from redis. ignoring", and the producer returns.
- `CutOffForGood` has three ways in: the token expires, the answer with the
  token is lost, or the version belongs to a user other than `AdminToken`'s,
  under whose id `ValidateStreamToken` looks every token up. The row stays, and
  `FindByHash` refuses the content from then on, to every user.
- The response of a new version names an expiry of 20 minutes; the token it
  comes with is given 24 hours.
- `NotSkipped` does not hold for messages of `EnqueueMsgs`, which adds entries
  without creating the group: a group that is created later, with `$`, starts
  behind them.

### Bounds

Two chunks let a version bring one and inherit the other, and two worker
processes let reconciliations race. With both, TLC reaches two versions in
`versions`: a version and its successor, each reconciled more than once and in
any order. Chains and forks of more versions are covered there by the proofs,
which have no bound; chains of three versions also by `sync_client`. Six
messages are more than the pipeline can hold (four and the list). Two events
fill a connection's channel while the broker is sending another. Both programs
have pools of one worker; that larger ones do not block and lose nothing is
proved. In `downloads`
both requests use the cache: a request without it (`DownloadFile`) behaves like
one whose cache always fails. No upload there has a chunk id outside of its
version, which makes `ListOrderedFileChunks` panic; the proofs are for any chunk
ids.

Two versions are enough for every pair of requests in `uploads`: two new files
with one content, or a file and its new version; the proofs have no bound. Its
contents need one chunk, of which one is full. `upload_settles` has the empty
content and two with two chunks, of which one is full. In `stream` a batch and two single messages let
the group be created before, between and after entries, twice with the flush.

In `listing` four versions are two files with two versions each, one with four,
or four files. `MaxRows` is 2, so that a version can be replaced by a shorter
one, a longer one and an equal one, and a page can end within a version.
`slipped` counts the rows that went missing in front of the client since it
began; with `MaxSlipped` of 2 a version of one row and a version of two rows can
both be missed, and the bound in the property is reached.

Deadlock is checked where clients can always go on. It is switched off where
the instance comes to an end: all versions created, all events sent, all
requests answered.

### Fairness

`upload_settles`: weak fairness of a client that has something to send and a
token to send it with, and that reports the end again while its version is
neither settled nor on its way; of the worker processes (a ticker demands every
two seconds). Strong fairness of what the server goes on with after it has
accepted a request, the writing of a chunk and the push of a report: a restart
or an error of Redis can interrupt them, but not every time. None for the
creation of versions. Workers do not fail in this run. `stream`: one consumer calls `ReadMsg` again and
again; as long as there are messages, not all of its calls fail before one is
read (strong fairness of `XREADGROUP`), and a call returns.
`pipeline`: weak fairness of each goroutine, and processor calls return, as they
have database and Redis calls only. `handlers`: weak fairness of each goroutine;
strong fairness of single cases of a `select`, which chooses at random among
the ready ones, and of senders on a channel, which Go serves in order. Time-outs
are steps that are enabled while the channel is full.

## Proofs

From `ConstantsAssumption` (`Nil` is no version, bounds are numbers),
`ReconcilerProofs` shows for any versions, chunks, worker processes and bounds
that every client and every fault keep

    TypeOK, RowsWellFormed, RetiredHasSuccessor, LineageVisible,
    NotifiedIsSettled, BlobWasUploaded, AtomicHandover.

The inductive invariant `IndInv` adds what these need. `PrevExists`: `prev_id`
names another, existing row, so that the two UPDATEs of `Update` match
different rows. `MessagesSound`: a queued message has the `prev_id` of its row,
which never changes, so that the first UPDATE matches. `ExecutionSound`: the
same for a running `ExecuteEach`, which notifies only what is settled.
`FillerWasUploaded`: the rows in its hands have good urls when they are
inserted. The argument: file_metadatas changes only when a row is created or
when `Update` runs (`RowSteps`), and the properties of rows are proved for these
two changes alone. `ProcessesTakeInOrder` is the refinement of `WorkQueue`: for
any process `w`, `held[w]` and the message of its `ExecuteEach` change only when
`w` pops, starts, finishes or dies, and the list only at its two ends.

`SyncClientProofs` is about the disciplined client, with the
same constants and all the faults: `OneCurrentPerFile`, `CurrentIsLatest`,
`CurrentIsWhole`, `ChunkOwnOrInherited`, `SettledIsFrozen`, and that `SyncSpec` implements
`VersionHistory`. `SyncInv` adds to `IndInv` what the discipline of the client
becomes on the way through the server. `OneReport`: the report of a version is
in one place only, a request, the list, a worker process or its `ExecuteEach`,
because it is sent once and each Redis command moves it. `ReportsSent`: while it
is on its way the version is still uploading, so that `Update` settles a version
once. `OneLine`: a version is the only one made from its predecessor, which stays
current and completed until the version is settled. With these, creating a row
is a `Draft`, `Update` is a `Publish`, and every other step stutters. `MergeInv`
follows the chunks: a version has rows of its own chunks only and one of each;
what `RestOfChunks` leaves is exactly what the version lacks, and stays so until
`CreateBatch`, because no upload follows the report and no other worker process
has the version; so a version that reaches `Update` as completed is whole, and
the next one inherits from a whole version.

`OneCurrentPerFile` is about files, and the tables have no column for the file a
version is of; it is whatever `prev_id` says. So it is stated for every way of
giving versions to files that follows `prev_id` and keeps new files apart
(`FileOf`). `CurrentIsLatest` alone does not give it, as it is about a version
and its direct successor. The proof is made on the steps of `VersionHistory`: a
file with a published version has its first version published (`Founded`), and
at most one is live (`OneLive`). A `Draft` adds a version that is not live. A
`Publish` of a first version is the first of its file to be published, and any
other one takes over from its predecessor, which is live until then, in the same
step. `HistoryStep`, on which the refinement rests, carries this over to the
rows.

From `UploadsAssumption` (among others, `ChunkSize` is not zero),
`UploadsProofs` shows `UploadsTypeOK`, `DuplicateOnlyByRace`, `ChunksHoldFile`, `CutOffForGood`,
and that `UploadsSpec` implies the specification of `Reconciler`, so that the
theorems of `ReconcilerProofs` hold for the server with its requests, tokens and
restarts (`ServerKeepsVersions` states them). `ServerInv`
contains `IndInv` and adds: the version a request was prepared for does not
exist, and the previous version it has read does (`RequestsSound`: rows are never
deleted), which makes its insert a step of `Reconciler`; a row has a content
(`RowsHaveContent`); and for a content nobody raced for there is at most one
request, and no row while there is one (`OneRequest`). That `CalculateChunks`
rounds up is a lemma on integer division (`ChunksCeiling`).

From `DownloadsAssumption` (versions have numbers of chunks, uploads and
downloads have versions), `DownloadsProofs` shows all that run `downloads`
checks: `DownloadsTypeOK`, `OnceUploadedIsServed`, `ChunksInPlace`,
`AloneGetsItsFile` and `OutdirIsEmptied`. `DownloadsInv` follows the bytes. An
upload enters a row only after its copy, and uploads that met on a blob are more
than one (`UploadsSound`); so the url of a row is that of a written blob, what
the cache has for a path was uploaded to it (`StoredSound`), and so was what a
download has read (`ReadSound`). `Holds`, on which these rest, is stable: a
further upload to the path only makes its premise false (`HoldsPersists`). For
the output file: one that exists belongs to a download that is yet to remove it
(`OutputSound`), and a download that met no other one has its path to itself
from `os.Create` on (`Undisturbed`).

From `StreamAssumption` (messages are distinct), `RedisStreamProofs` shows
`StreamTypeOK`, `ReturnedOnce`, `NotSkipped` and `LostForGood`, for any number of messages,
consumers and flushes. `StreamInv` adds: entries are distinct and were sent
(`StreamSound`), an entry behind the group's last one was not delivered, what a
consumer is about to acknowledge was delivered to it alone and is not returned
yet (`ReadersSound`), and while there is no group, no call of `EnqueueMsg` relies
on one (`GroupFirst`).

From `PipelineAssumption` (a finite, non-empty pool), `PipelineProofs` shows
`PipeTypeOK`, which contains the capacities of the result and job channels,
`PoolNeverBlocks`, and that producer, dispatcher and workers are never all
blocked while there is a demand (`PipelineNeverStuck`). `PoolInv`: a bench is in
the pool's channel or with the dispatcher at most once, and then it is empty and
its worker waits. A pool without repetitions that misses a worker has room by
cardinality. `KeptInv`, for `PipelineNeverStuck`: an idle bench is in the pool or
with the dispatcher, so it is not forgotten. For a pool of one worker, which is
what both callers make (`NewWorkerPool(1, ...)`), `NothingLostOrReordered`,
`FewInFlight` (at most four messages are popped and not processed) and `WorkSpec`
are proved too: what was processed, what the worker, its bench, the
dispatcher, the result channel and the producer hold, and the list, one after the
other, are the messages sent (`Flow`), and each step moves a message from one of
these places to the next. What the producer's steps before it sends come to, a
lost reply of `BLPOP` included, is that it gets the head of the list or nothing
(`ProducerReads`). `IdleInv` (who holds a job and who does not) says that
the place was empty, so that no message is overwritten. For `WorkSpec` the places
before the worker are what `WorkQueue` holds; jobs that move between them are
invisible, and there is always room for a `Pop`, as the worker and its bench
never have a job each (`OneJobEach`).

With more workers messages can overtake one another, and these three are not
stated. What remains is `EachInOnePlace`, proved for a pool of any size
(`NoneLostInAnyPool`): every message sent is in exactly one place, the list, a
channel, a goroutine or `processed`, and there once. `Where` gives the messages
of every place, and each step takes what one place has to another one (`Moved`),
which `IdleInv` says is empty.

`NotificationsProofs` rests on these. Each step of the server is one of the
pipeline or leaves it alone, so that `NotifySpec` implies `PipeSpec`
(`ServerRunsPipeline`). From `NotificationsAssumption` (devices have names, and
the pool has one worker) it shows `NotifyTypeOK`, `ClosedIsForgotten`, `InOrder`
and `OncePerDevice`, for any number of connections and events. `ChannelInv`: the
handler of a closed channel has returned; a topic the broker knows, or is about
to, has a handler that has not; an unsubscription on its way belongs to a handler
that waits for the answer. `CopyInv` numbers the copies that `SSEConsumer.Execute`
makes, two for each event, in the order of the list (`Ticket`, which needs
`NothingLostOrReordered`). What a connection holds was sent to its device, and no
other connection of the device holds it (`HeldInv`); what the broker is
delivering is newer than what its device has (`SendingInv`), what waits in
`messagesCh` is newer still (`MessagesInv`), and what a handler takes is newer
than what it has shown (`ShownInv`). A timeout only removes a copy.
`CircleNeverCloses` is `NoStandstill` with the guards of the steps written out in
place of ENABLED: a handler waits for the forwarder or the broker, the forwarder
for the producer, the pipeline by `PipelineNeverStuck` only for the broker, and
the broker for nobody, as it gives up after a timeout.

From `ListingAssumption` (versions are positive numbers, in the order of their
creation), `ListingProofs` shows `SkippedOnlyIfShrunk` for any versions and
predecessors, page sizes, numbers of rows, and steps of others between pages.
`ListingInv` adds to the types (`Typed`) that the listing consists of the rows of
the current versions, in order and as many as `user_files` has (`Tallied`), so
that the rows of a version have consecutive places; that of a version not yet
seen, and larger than `slipped`, no row is further in front of the offset than
`slipped` (`Near`); and that none is left when the client was told so
(`AllWhenDone`). Whatever happens to the listing puts rows in at the place of one
version and takes out those of an older one (`Relist`). `RelistMoves` says where
this leaves the others, and `RelistNear` that none comes in front of the offset
by more than `Lost`, which is what `slipped` grows by. A page takes the rows up to the new
offset, and when the query has not one more than the page there is none behind it
(`Page`).

Model-checked only: liveness under fairness (`SentUnlessDead`, `HandlerReturns`,
`UploadSettles`, `AddedIsDelivered`), and `NoStandstill` in its form with
ENABLED. Both are out of the prover's reach.

## Not modelled

- The death of the server between `os.Create` and the removal of an output file,
  which leaves the file in `./tmp/outdir`: `OutdirIsEmptied` is about the life of
  one server process.
- Users and shares: an insert no route calls, and files without code.
- `core/workers/metadata.manualreconcile.go`: a development command with fixed
  identifiers, made of parts that `Reconciler` models.
- `GetFileChunks`, `GetChunk`, `GetChunksForFile`: reads, the last two without a
  caller. `RedisQ.EnqueueMsgs`, `RedisQ.Flush`, `BatchCreateChunk`,
  `ReadFileInChunks`, `workerpool.Merge`: called by tests only, or not at all.
- Start-up, routing, configuration, query files, request and response formats,
  helpers, the HTTP client: no state that changes while the system runs.
