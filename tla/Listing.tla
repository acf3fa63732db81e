------------------------------- MODULE Listing ------------------------------
(***************************************************************************)
(* Paging through the files of a user.  A page is a number of rows of the  *)
(* join of file_metadatas and user_files, newest version first, so a       *)
(* current version takes as many rows as it has in user_files, and may be  *)
(* cut by the end of a page.  Between two pages workers make other         *)
(* versions current, and clients upload chunks.                            *)
(*                                                                         *)
(* A version is named by its place in the order of creation, and a row by  *)
(* its version: ORDER BY created_at says nothing about the order of the    *)
(* rows of one version, which may be another one in every query.           *)
(***************************************************************************)
EXTENDS Integers, Sequences, FiniteSets, Functions

CONSTANTS
  Version,    \* the user's versions, numbered in the order of created_at
  Limits,     \* page sizes clients ask for
  MaxRows,    \* bound: rows of a version in user_files
  MaxSlipped  \* bound on slipped

ASSUME ListingAssumption ==
  /\ Version \subseteq Nat \ {0}
  /\ Limits \subseteq Nat
  /\ MaxRows \in Nat
  /\ MaxSlipped \in Nat

DefaultLimit == 20

VARIABLES
  prev_id,   \* per version: its predecessor, 0 if it has none
  current,   \* versions whose current_flag is set
  chunks,    \* per version: number of its rows in user_files
  rows,      \* what GetFilesForUser selects without LIMIT: a version per row
  paging,    \* what the client does: "idle", "paging", "done" or "error"
  limit, offset,
  expected,  \* versions listed when the client began, and not changed since
  seen,      \* versions it was given rows of
  slipped    \* rows by which what is in front of the offset became shorter

fileVars == <<prev_id, current, chunks, rows>>
clientVars == <<paging, limit, offset, seen>>
vars == <<fileVars, clientVars, expected, slipped>>

Init ==
  /\ prev_id \in [Version -> Version \cup {0}]
  /\ \A v \in Version : prev_id[v] < v
  /\ current = {}
  /\ chunks = [v \in Version |-> 0]
  /\ rows = <<>>
  /\ paging = "idle"
  /\ limit = 0 /\ offset = 0
  /\ expected = {} /\ seen = {}
  /\ slipped = 0

-----------------------------------------------------------------------------
(* What the other requests and the workers do to the listing.              *)

\* The rows of v have the places from Newer(v) + 1 to UpTo(v), if it has any.
Newer(v) == Cardinality({i \in 1 .. Len(rows) : rows[i] > v})
UpTo(v) == Cardinality({i \in 1 .. Len(rows) : rows[i] >= v})

\* There are k more rows of v, and those of p, an older version, are gone.
Relist(v, k, p) ==
  rows' = SubSeq(rows, 1, UpTo(v)) \o [i \in 1 .. k |-> v]
            \o SubSeq(rows, UpTo(v) + 1, Newer(p)) \o SubSeq(rows, UpTo(p) + 1, Len(rows))

\* How much shorter Relist makes what the client has passed.
Lost(k, p) ==
  LET passed == IF UpTo(p) < offset THEN UpTo(p) ELSE offset
  IN  IF passed > Newer(p) + k THEN passed - Newer(p) - k ELSE 0

\* UpsertChunks enters a row, or CreateBatch several: neither looks at
\* current_flag.
AddRows(v, k) ==
  /\ chunks[v] + k <= MaxRows
  /\ chunks' = [chunks EXCEPT ![v] = @ + k]
  /\ IF v \in current THEN Relist(v, k, 0) ELSE UNCHANGED rows
  /\ expected' = expected \ {v}
  /\ UNCHANGED <<prev_id, current, clientVars, slipped>>

\* MetadataRepository.Update makes v current and retires its predecessor.
\* ExecuteEach comes to it only if both have rows, or there is no predecessor.
\* It may have happened before: v is current, or retired, already.
Update(v) ==
  LET p == prev_id[v]
      k == IF v \in current THEN 0 ELSE chunks[v]
  IN  /\ p # 0 => chunks[v] > 0 /\ chunks[p] > 0
      /\ slipped + Lost(k, p) <= MaxSlipped
      /\ current' = (current \cup {v}) \ {p}
      /\ Relist(v, k, p)
      /\ expected' = expected \ {p}
      /\ slipped' = slipped + Lost(k, p)
      /\ UNCHANGED <<prev_id, chunks, clientVars>>

-----------------------------------------------------------------------------
(* The client.                                                             *)

\* It asks for the first page.
Begin(n) ==
  /\ paging = "idle"
  /\ paging' = "paging"
  /\ limit' = n
  /\ offset' = 0
  /\ expected' = Range(rows)
  /\ seen' = {}
  /\ slipped' = 0
  /\ UNCHANGED fileVars

\* Mutant of Fetched: LIMIT n.
FetchedPage(n) ==
  SubSeq(rows, offset + 1, IF offset + n < Len(rows) THEN offset + n ELSE Len(rows))

\* The query: one row more than the page, LIMIT n + 1 OFFSET offset.
Fetched(n) ==
  SubSeq(rows, offset + 1, IF offset + n + 1 < Len(rows) THEN offset + n + 1 ELSE Len(rows))

\* The slice results[0:n] panics, or contains nil records that
\* BuildFilesInfoResponse follows, when there are fewer rows.  Recover turns the
\* panic into an error response.  The client goes on while there is more.
ListByUserID ==
  LET n == IF limit = 0 THEN DefaultLimit ELSE limit
      results == Fetched(n)
  IN  /\ paging = "paging"
      /\ \/ /\ Len(results) < n
            /\ paging' = "error"
            /\ UNCHANGED <<offset, seen>>
         \/ /\ Len(results) >= n
            /\ seen' = seen \cup Range(SubSeq(results, 1, n))
            /\ paging' = IF Len(results) > n THEN "paging" ELSE "done"
            /\ offset' = offset + n
      /\ UNCHANGED <<fileVars, limit, expected, slipped>>

Next ==
  \/ \E v \in Version : Update(v) \/ \E k \in 1 .. MaxRows : AddRows(v, k)
  \/ \E n \in Limits : Begin(n)
  \/ ListByUserID

ListingSpec == Init /\ [][Next]_vars

-----------------------------------------------------------------------------
(* Properties.                                                             *)

\* Paging by offset passes over a version that was listed all the time only if
\* the rows in front of the client became fewer in the meantime, and by at least
\* as many as the version has: otherwise the client was given rows of it, or
\* they are still ahead and the client is told that there is more (hasMore, by
\* the one row more than the page).  New files, new versions and added chunks
\* never do it, since whatever enters the listing only pushes the rest towards
\* the end; a version with fewer rows in the place of the one before it does.
SkippedOnlyIfShrunk ==
  \A v \in expected :
    \/ v \in seen
    \/ chunks[v] <= slipped
    \/ paging # "done" /\ \E i \in 1 .. Len(rows) : i > offset /\ rows[i] = v

\* A user without files gets an empty listing: ListFilesForUser handles the case,
\* "no files for user".
EmptyIsListed == paging = "error" => rows # <<>>
=============================================================================
