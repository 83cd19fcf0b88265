----------------------------- MODULE BookFeed -----------------------------
(***************************************************************************)
(* The local copy of a venue's order book that the Binance feed keeps: one    *)
(* side of one symbol, fetched once as a snapshot and then kept up to date by   *)
(* the events of a websocket, which carry the range of update ids they cover.  *)
(* Asks are the mirror image.                                               *)
(***************************************************************************)
EXTENDS Integers, Sequences, FiniteSets

CONSTANTS
  BookPrice,      \* price levels, the better the higher
  Quantity,       \* quantities, 0 for a level that is not there
  BookDepth,      \* book_depth
  SnapshotLimit,  \* levels in a snapshot: binance_depth_limit(book_depth)
  LastUpdate,     \* bound on update ids
  EventsQueued    \* bound on the events waiting in the socket

ASSUME BookAssumption ==
  BookPrice \subseteq Int /\ 0 \in Quantity /\ BookDepth <= SnapshotLimit

VARIABLES
  bfVenue,   \* the venue's side: price to quantity
  bfId,      \* its last update id
  bfUnsent,  \* the last id that went out, and the levels that changed since
  bfQueue,   \* events in the socket
  bfHeld,    \* the event whose handler waits for a snapshot, or nothing
  bfLocal,   \* LocalBook
  bfTruth,   \* the venue's side when its id was the local one
  bfBook     \* the book given to ingest_order_book, with the truth of that time

bookVars == <<bfVenue, bfId, bfUnsent, bfQueue, bfHeld, bfLocal, bfTruth, bfBook>>
bfOutside == <<bfVenue, bfId, bfUnsent>>

Empty == [p \in BookPrice |-> 0]
NewBook == [id |-> 0, side |-> Empty, rebuilt |-> FALSE]

BookInit ==
  /\ bfVenue \in [BookPrice -> Quantity]
  /\ bfId = 1 /\ bfUnsent = [after |-> 1, levels |-> {}]
  /\ bfQueue = <<>> /\ bfHeld = <<>>
  /\ bfLocal = NewBook /\ bfTruth = Empty
  /\ bfBook = [side |-> Empty, truth |-> Empty]

\* The best n levels of a side.
Top(side, n) ==
  [p \in BookPrice |->
     IF Cardinality({b \in BookPrice : b > p /\ side[b] > 0}) < n THEN side[p] ELSE 0]

(***************************************************************************)
(* The venue                                                               *)
(***************************************************************************)
VenueChanges ==
  /\ bfId < LastUpdate /\ bfId' = bfId + 1
  /\ \E p \in BookPrice, q \in Quantity :
       /\ q # bfVenue[p] /\ bfVenue' = [bfVenue EXCEPT ![p] = q]
       /\ bfUnsent' = [bfUnsent EXCEPT !.levels = @ \cup {p}]
  /\ UNCHANGED <<bfQueue, bfHeld, bfLocal, bfTruth, bfBook>>

\* Every 100 ms an event goes out with the new quantities of the levels that changed.
EventSent ==
  /\ bfUnsent.levels # {} /\ Len(bfQueue) < EventsQueued
  /\ bfQueue' = Append(bfQueue,
       [first |-> bfUnsent.after + 1, last |-> bfId, prev |-> bfUnsent.after,
        levels |-> bfUnsent.levels, after |-> bfVenue])
  /\ bfUnsent' = [after |-> bfId, levels |-> {}]
  /\ UNCHANGED <<bfVenue, bfId, bfHeld, bfLocal, bfTruth, bfBook>>

\* An event that does not parse is skipped, and one may not arrive at all.
EventSkipped ==
  /\ bfQueue # <<>> /\ bfQueue' = Tail(bfQueue)
  /\ UNCHANGED <<bfOutside, bfHeld, bfLocal, bfTruth, bfBook>>

(***************************************************************************)
(* handle_text                                                             *)
(***************************************************************************)
FollowsAnything(book, e) ==
  ~book.rebuilt \/ (e.first <= book.id + 1 /\ e.last >= book.id + 1)

Follows(book, e) ==
  IF book.rebuilt
  THEN e.first <= book.id + 1 /\ e.last >= book.id + 1
  ELSE e.prev = book.id

\* A level of the event replaces the local one, whether that was there or not.
Applied(book, e) ==
  LET side == [p \in BookPrice |-> IF p \in e.levels THEN e.after[p] ELSE book.side[p]]
  IN  [id |-> e.last, side |-> Top(side, BookDepth), rebuilt |-> FALSE]

\* The rest of the handler once the book has an id. `truth` is the venue's side at
\* that id.
Handles(book, truth, e) ==
  CASE e.last < book.id ->
         bfLocal' = book /\ bfTruth' = truth /\ UNCHANGED bfBook
    [] e.last >= book.id /\ ~Follows(book, e) ->
         bfLocal' = NewBook /\ bfTruth' = Empty /\ UNCHANGED bfBook
    [] OTHER ->
         /\ bfLocal' = Applied(book, e) /\ bfTruth' = e.after
         /\ bfBook' = [side |-> Applied(book, e).side, truth |-> e.after]

EventHandled ==
  /\ bfHeld = <<>> /\ bfQueue # <<>>
  /\ bfQueue' = Tail(bfQueue)
  /\ IF bfLocal.id = 0
     THEN bfHeld' = <<Head(bfQueue)>> /\ UNCHANGED <<bfLocal, bfTruth, bfBook>>
     ELSE Handles(bfLocal, bfTruth, Head(bfQueue)) /\ UNCHANGED bfHeld
  /\ UNCHANGED bfOutside

\* The snapshot is newer than the event it was fetched for, by as much as has
\* happened meanwhile.
SnapshotFetched ==
  /\ bfHeld # <<>> /\ bfHeld' = <<>>
  /\ Handles([id |-> bfId, side |-> Top(bfVenue, SnapshotLimit), rebuilt |-> TRUE],
             bfVenue, bfHeld[1])
  /\ UNCHANGED <<bfOutside, bfQueue>>

SnapshotFails ==
  /\ bfHeld # <<>> /\ bfHeld' = <<>>
  /\ UNCHANGED <<bfOutside, bfQueue, bfLocal, bfTruth, bfBook>>

\* The stream ends, fails or is silent for too long: the next connection starts
\* with empty books.
FeedReconnects ==
  /\ bfQueue' = <<>> /\ bfHeld' = <<>> /\ bfLocal' = NewBook /\ bfTruth' = Empty
  /\ UNCHANGED <<bfOutside, bfBook>>

BookNext ==
  \/ VenueChanges \/ EventSent \/ EventSkipped \/ EventHandled
  \/ SnapshotFetched \/ SnapshotFails \/ FeedReconnects

BookSpec == BookInit /\ [][BookNext]_bookVars

(***************************************************************************)
(* Properties                                                              *)
(***************************************************************************)
\* Every level of the local book, and of the book that prices are computed from,
\* is on the venue with that quantity at the update id the book stands at: lost
\* events, snapshots newer or older than the event and reconnections never leave a
\* level behind that the venue has taken away. (The converse is not so: a level
\* beyond book_depth is forgotten and does not come back when a better one goes.)
LevelsReal ==
  \A p \in BookPrice :
    /\ bfLocal.side[p] # 0 => bfLocal.side[p] = bfTruth[p]
    /\ bfBook.side[p] # 0 => bfBook.side[p] = bfBook.truth[p]
=============================================================================
