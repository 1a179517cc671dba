----------------------------- MODULE PagedList -----------------------------
(***************************************************************************)
(* A list that its reader turns page by page while rows come, go and move: *)
(* the cursor of a page is the ID of its last row (shared/utils/page.ts),  *)
(* and the next page first reads where that row stands now.  Every service *)
(* with a list writes this query again; what sets them apart is in a       *)
(* record for each.                                                        *)
(***************************************************************************)
EXTENDS DatabaseClock, Sequences, FiniteSets

CONSTANTS
  ReadLists,  \* the names of the lists that are read
  MaxLimit,   \* the largest limit of a page
  Writers,    \* transactions in flight that write to the list
  MaxBatch,   \* bound of the model: rows that one transaction inserts
  MaxRows     \* bound of the model: rows ever inserted

ASSUME PageBounds == MaxLimit \in Nat \ {0} /\ MaxBatch \in Nat \ {0} /\ MaxRows \in Nat

VARIABLES
  list,    \* the list that is read
  row,     \* its rows, in the order of their IDs
  writer,  \* transactions: when each has begun
  reader   \* who turns the pages

pageVars == <<now, list, row, writer, reader>>

-----------------------------------------------------------------------------
(***************************************************************************)
(* The lists.  changes: rows may leave it, return or move in it; gone: what *)
(* comes of a cursor whose row has left.                                   *)
(***************************************************************************)

Steady(name) ==
  [name |-> name, ascending |-> FALSE, changes |-> {}, gone |-> {"refused"}, batch |-> 1]

\* One sync inserts many notifications.
notificationsPage == [Steady("notifications") EXCEPT !.batch = MaxBatch]

\* unreadOnly: a notification that is read leaves it.
unreadNotificationsPage == [notificationsPage EXCEPT !.name = "unread", !.changes = {"leave"}]

\* An inquiry that is deleted leaves it, and the page after is empty.
inquiriesPage == [Steady("inquiries") EXCEPT !.changes = {"leave"}, !.gone = {"empty"}]

\* A notice may be withdrawn, or pinned and unpinned; a pinned one can be read as
\* a cursor.
noticesPage == [Steady("notices") EXCEPT !.changes = {"leave", "return"}, !.gone = {"empty", "read"}]

\* Purchases stay.
purchasesPage == Steady("purchases")

\* The character of a post may be retired and come back; so may that of a comment
\* or a story, and a story expires.
postsPage == [Steady("posts") EXCEPT !.changes = {"leave", "return"}]
commentsPage == [postsPage EXCEPT !.name = "comments"]
storiesPage == [postsPage EXCEPT !.name = "stories"]

\* Messages are read from the oldest on.
messagesPage == [Steady("messages") EXCEPT !.ascending = TRUE]

\* A conversation moves to the time of its last message.
conversationsPage == [Steady("conversations") EXCEPT !.changes = {"leave", "return", "move"}]

AllLists ==
  {notificationsPage, unreadNotificationsPage, inquiriesPage, noticesPage, purchasesPage,
   storiesPage, postsPage, commentsPage, messagesPage, conversationsPage}

-----------------------------------------------------------------------------
(***************************************************************************)
(* Rows, and their order                                                   *)
(***************************************************************************)

RowIds == 1..MaxRows
Stored == DOMAIN row

\* at is what the list is sorted by: created_at of the row, published_at of a
\* notice, latest_message_at of a conversation.
Row == [at: Times, listed: BOOLEAN]

Listed == {n \in Stored : row[n].listed}

Newer(m, n) == row[m].at > row[n].at \/ (row[m].at = row[n].at /\ m > n)

\* Mutant: ORDER BY id.
PrecedesById(m, n) == IF list.ascending THEN m < n ELSE m > n

\* ORDER BY at, id.
Precedes(m, n) == IF list.ascending THEN Newer(n, m) ELSE Newer(m, n)

NotWriting == MaxTime + 1

\* One reading from the first page on; another one is another behaviour.  page is
\* the page last turned.  there is history: the rows that were listed on the first
\* page and have stayed where they were; ends: the times of the cursors that were
\* used; cut: the row of a cursor was gone, or has moved back over others.
Reader ==
  [pc: {"idle", "paging", "querying", "done", "refused"},
   page: SUBSET RowIds, shown: SUBSET RowIds,
   cursor: 0..MaxRows, from: Times,
   there: SUBSET RowIds, ends: SUBSET Times, cut: BOOLEAN]

NotReading ==
  [pc |-> "idle", page |-> {}, shown |-> {}, cursor |-> 0, from |-> 0,
   there |-> {}, ends |-> {}, cut |-> FALSE]

Without(n) == [reader EXCEPT !.there = @ \ {n}]

-----------------------------------------------------------------------------
(***************************************************************************)
(* Who writes to the list                                                  *)
(***************************************************************************)

PageTick == TimePasses /\ UNCHANGED <<list, row, writer, reader>>

\* CURRENT_TIMESTAMP is that of the beginning of the transaction.
WriterBegins(w) ==
  /\ writer[w] = NotWriting
  /\ writer' = [writer EXCEPT ![w] = now]
  /\ UNCHANGED <<now, list, row, reader>>

\* latest_message_at is set to the Date of the message (appendMessageWithClient).
WrittenAt(w) == IF "move" \in list.changes THEN Date(writer[w]) ELSE writer[w]

WriterInserts(w, count) ==
  /\ writer[w] # NotWriting
  /\ count <= list.batch
  /\ Len(row) + count <= MaxRows
  /\ row' = row \o [k \in 1..count |-> [at |-> WrittenAt(w), listed |-> TRUE]]
  /\ writer' = [writer EXCEPT ![w] = NotWriting]
  /\ UNCHANGED <<now, list, reader>>

\* A message of a transaction that began earlier moves it back.
WriterMoves(w, n) ==
  /\ writer[w] # NotWriting
  /\ "move" \in list.changes
  /\ row' = [row EXCEPT ![n].at = WrittenAt(w)]
  /\ writer' = [writer EXCEPT ![w] = NotWriting]
  /\ reader' = [Without(n) EXCEPT !.cut = @ \/ (n = reader.cursor /\ WrittenAt(w) < row[n].at)]
  /\ UNCHANGED <<now, list>>

RowLeaves(n) ==
  /\ row[n].listed
  /\ "leave" \in list.changes
  /\ row' = [row EXCEPT ![n].listed = FALSE]
  /\ reader' = Without(n)
  /\ UNCHANGED <<now, list, writer>>

RowReturns(n) ==
  /\ ~row[n].listed
  /\ "return" \in list.changes
  /\ row' = [row EXCEPT ![n].listed = TRUE]
  /\ UNCHANGED <<now, list, writer, reader>>

-----------------------------------------------------------------------------
(***************************************************************************)
(* Who reads it                                                            *)
(***************************************************************************)

FirstRows(rows, k) == {n \in rows : Cardinality({m \in rows : Precedes(m, n)}) < k}
LastOf(S) == CHOOSE n \in S : \A m \in S \ {n} : Precedes(m, n)

\* encodeCursor of the last row of the page.
NextCursor(rows, limit) == LastOf(FirstRows(rows, limit))

\* pageFromRows: the first rows, and a cursor if there are more.
Turned(rows, limit) ==
  LET more == Cardinality(rows) > limit
  IN [reader EXCEPT !.pc = IF more THEN "paging" ELSE "done",
                    !.page = FirstRows(rows, limit),
                    !.shown = @ \cup FirstRows(rows, limit),
                    !.cursor = IF more THEN NextCursor(rows, limit) ELSE 0,
                    !.from = 0]

FirstPage(limit) ==
  /\ reader.pc = "idle"
  /\ reader' = [Turned(Listed, limit) EXCEPT !.there = Listed]
  /\ UNCHANGED <<now, list, row, writer>>

CursorFound ==
  /\ reader.pc = "paging"
  /\ row[reader.cursor].listed \/ "read" \in list.gone
  /\ LET at == Date(row[reader.cursor].at)
     IN reader' = [reader EXCEPT !.pc = "querying", !.page = {}, !.from = at, !.ends = @ \cup {at}]
  /\ UNCHANGED <<now, list, row, writer>>

\* BadRequestException("Invalid cursor"), or an empty page.
CursorGone ==
  /\ reader.pc = "paging"
  /\ ~row[reader.cursor].listed
  /\ \/ "refused" \in list.gone /\ reader' = [NotReading EXCEPT !.pc = "refused"]
     \/ "empty" \in list.gone /\ reader' = [Turned({}, 1) EXCEPT !.cut = TRUE]
  /\ UNCHANGED <<now, list, row, writer>>

\* Mutant: the ID does not tell rows of one time apart.
BeyondOrAt(n) == IF list.ascending THEN row[n].at >= reader.from ELSE row[n].at <= reader.from

\* The WHERE of the page: what stands beyond the cursor.
Beyond(n) ==
  IF list.ascending
  THEN row[n].at > reader.from \/ (row[n].at = reader.from /\ n > reader.cursor)
  ELSE row[n].at < reader.from \/ (row[n].at = reader.from /\ n < reader.cursor)

NextPage(limit) ==
  /\ reader.pc = "querying"
  /\ reader' = Turned({n \in Listed : Beyond(n)}, limit)
  /\ UNCHANGED <<now, list, row, writer>>

-----------------------------------------------------------------------------
PageInit ==
  /\ now = 0
  /\ list \in {l \in AllLists : l.name \in ReadLists}
  /\ row = <<>>
  /\ writer = [w \in Writers |-> NotWriting]
  /\ reader = NotReading

PageWriting ==
  \/ \E w \in Writers :
       \/ WriterBegins(w)
       \/ \E count \in 1..MaxBatch : WriterInserts(w, count)
       \/ \E n \in Listed : WriterMoves(w, n)
  \/ \E n \in Stored : RowLeaves(n) \/ RowReturns(n)

PageReading ==
  \/ \E limit \in 1..MaxLimit : FirstPage(limit) \/ NextPage(limit)
  \/ CursorFound \/ CursorGone

PageNext == PageTick \/ PageWriting \/ PageReading

PageSpec == PageInit /\ [][PageNext]_pageVars

-----------------------------------------------------------------------------
(***************************************************************************)
(* Properties                                                              *)
(***************************************************************************)

\* The types; what is shown was there, and the cursor is a row of the page.
PageTypeOK ==
  /\ now \in Times
  /\ list \in AllLists
  /\ row \in Seq(Row)
  /\ writer \in [Writers -> Times \cup {NotWriting}]
  /\ reader \in Reader
  /\ reader.page \subseteq reader.shown /\ reader.shown \subseteq Stored
  /\ reader.pc = "paging" => reader.cursor \in reader.page
  /\ reader.pc = "querying" => reader.cursor \in reader.shown

\* Who has turned all pages has seen every row that was there from the first page
\* on and has not moved, whatever came, went and moved meanwhile.  The Date of
\* the cursor is coarser than the column, so a row of the millisecond of a cursor
\* may be passed over; and a list ends early where the row of its cursor is gone
\* and that is no error, or has moved back.
PagesCover ==
  reader.pc = "done" /\ ~reader.cut =>
    \A n \in reader.there \ reader.shown : Date(row[n].at) \in reader.ends

\* A page turned shows nothing that an earlier one has shown, unless the row has
\* moved in between, or the list ascends and the row has the millisecond of the
\* cursor.
PagesGoOn ==
  [][reader.pc = "querying" /\ reader'.pc \in {"paging", "done"} /\ "move" \notin list.changes =>
       \A n \in reader'.page \cap reader.shown :
         list.ascending /\ Date(row[n].at) = reader.from]_pageVars

\* A page shows what stands after the row of its cursor (the diagram of the
\* polling of messages: "cursor 이후 메시지 조회").
PagesFollowCursor ==
  [][reader.pc = "querying" /\ reader'.pc \in {"paging", "done"} =>
       \A n \in reader'.page : Precedes(reader.cursor, n)]_pageVars

=============================================================================
