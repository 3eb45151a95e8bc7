----------------------------- MODULE Pagination -----------------------------
(***************************************************************************)
(* The keyset pagination of listDocuments and listEntries: rows in the     *)
(* order of (timestamp, id), newest first, and a cursor that carries the   *)
(* last row of a page through lib/cursor.js.                               *)
(*                                                                         *)
(* PostgreSQL keeps microseconds and a JavaScript Date milliseconds: a     *)
(* timestamp is a number of units, MS of which make a millisecond.  Rows   *)
(* are inserted at any timestamp, a late commit or a backdated entry being *)
(* older than what a client has been shown, and documents are deleted or   *)
(* leave the status a client filters by.                                   *)
(***************************************************************************)
EXTENDS Naturals, FiniteSetsExt

CONSTANTS
    Ids,         \* documents.id or journal_entries.id, as numbers: uuids are ordered
    Times,       \* timestamps
    MS,          \* units of a timestamp in a millisecond
    Limit,       \* rows on a page
    MaxInserts   \* bound: rows inserted while a client walks

ASSUME PaginationAssumption ==
    /\ Ids \subseteq Nat
    /\ Times \subseteq Nat
    /\ MS \in Nat \ {0}
    /\ Limit \in Nat \ {0}

Row == [time: Times, id: Ids]

VARIABLES
    list,       \* "documents" or "entries"
    rows,       \* the rows that match the filter
    cursor,     \* nextCursor of the last page, or the empty set
    walk,       \* "idle", "walking" or "done"
    listed,     \* the rows shown so far
    repeated,   \* ghost: a row was shown twice
    lasting,    \* ghost: rows that match since the walk began
    inserts

walkVars == <<cursor, walk, listed, repeated>>
pageVars == <<list, rows, walkVars, lasting, inserts>>

\* occurred_at comes from z.coerce.date or new Date(): whole milliseconds.
Possible(r) == list = "entries" => r.time % MS = 0

PageInit ==
    /\ list \in {"documents", "entries"}
    /\ rows = {}
    /\ cursor = {}
    /\ walk = "idle"
    /\ listed = {}
    /\ repeated = FALSE
    /\ lasting = {}
    /\ inserts = 0

Before(r, s) == r.time < s.time \/ (r.time = s.time /\ r.id < s.id)

\* The ISO string of a Date, in milliseconds.
encodeCursor(r) == [r EXCEPT !.time = MS * (@ \div MS)]

\* Mutation: created_at is carried as a JavaScript Date.
CursorOf_Date(r) == {encodeCursor(r)}

\* encodeTimestampCursor keeps the text of created_at.
CursorOf(r) == {IF list = "documents" THEN r ELSE encodeCursor(r)}

\* Mutation: the comparison is not strict.
Below_Inclusive(c) == {r \in rows : \A s \in c : Before(r, s) \/ r = s}

\* The filter of a cursor: (created_at, id) < (cursor.created_at, cursor.id).
Below(c) == {r \in rows : \A s \in c : Before(r, s)}

\* One request: SELECT ... ORDER BY created_at DESC, id DESC LIMIT limit + 1.
NextPage ==
    LET matching == Below(cursor)
        page == {r \in matching : Cardinality({s \in matching : Before(r, s)}) < Limit}
        more == page # matching
    IN
    /\ walk # "done"
    /\ listed' = listed \cup page
    /\ repeated' = (repeated \/ page \cap listed # {})
    /\ cursor' = IF more THEN CursorOf(CHOOSE r \in page : \A s \in page : s = r \/ Before(r, s))
                         ELSE {}
    /\ walk' = IF more THEN "walking" ELSE "done"
    /\ lasting' = IF walk = "idle" THEN rows ELSE lasting
    /\ UNCHANGED <<list, rows, inserts>>

\* A document is uploaded or changes to the status; an entry is posted.
Insert(r) ==
    /\ inserts < MaxInserts
    /\ Possible(r)
    /\ \A s \in rows \cup listed : s.id # r.id
    /\ rows' = rows \cup {r}
    /\ inserts' = inserts + 1
    /\ UNCHANGED <<list, walkVars, lasting>>

\* A document is deleted or leaves the status; the ledger is append-only.
Remove(r) ==
    /\ list = "documents"
    /\ r \in rows
    /\ rows' = rows \ {r}
    /\ lasting' = lasting \ {r}
    /\ UNCHANGED <<list, walkVars, inserts>>

PageNext == NextPage \/ (\E r \in Row : Insert(r) \/ Remove(r))

PageSpec == PageInit /\ [][PageNext]_pageVars

-----------------------------------------------------------------------------
(* Properties *)

\* A walk to the end has shown every row that was there all along, although
\* rows of the same millisecond straddle its pages, others are inserted before
\* and behind it, and the row its cursor names may be gone.
WalkIsComplete == walk = "done" => lasting \subseteq listed

\* No row is shown on two pages.
WalkShowsOnce == ~repeated
=============================================================================
