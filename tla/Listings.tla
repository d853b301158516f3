------------------------------- MODULE Listings -------------------------------
(***************************************************************************)
(* Walking through a list page by page.                                    *)
(*                                                                         *)
(* Every list endpoint skips (page - 1) * limit rows of an ordered query   *)
(* and counts the rows of the same condition by a second query; nothing    *)
(* holds the table still between the two queries of a page or between two  *)
(* pages.  Lists over Prisma are ordered by creation, newest first; those  *)
(* of the chat over MongoDB by updatedAt, which every write to a document  *)
(* changes.  The table of one list, the others who write to it, and one    *)
(* client who walks it are modelled; two clients do not meet.              *)
(***************************************************************************)
EXTENDS Naturals, FiniteSets

CONSTANTS
  Kinds,      \* rows there may be, by what the conditions ask of them
  Walks,      \* the lists that are walked
  FirstRows,  \* bound: rows there may be at first
  Limit,      \* rows per page
  MaxEdits    \* bound: writes to the table

\* Favorites and the chats let the client choose the direction; a search is one
\* with a set of filters.
Owned == {"myProducts", "orders", "favorites", "notifications", "reviews", "messages"}
Chats == {"chatRooms", "chatMessages"}
Lists == [name : {"products"} \cup Owned, filters : {{}}, oldestFirst : {FALSE}]
  \cup [name : {"favorites"} \cup Chats, filters : {{}}, oldestFirst : BOOLEAN]
  \cup [name : {"search"}, filters : SUBSET {"location", "keyword", "seller", "category"},
        oldestFirst : {FALSE}]

ASSUME ListingsAssumption ==
  /\ Kinds \subseteq [active : BOOLEAN, mine : BOOLEAN, topic : BOOLEAN, shelf : BOOLEAN,
                      place : {"near", "far", "none"}]
  /\ Walks \subseteq Lists
  /\ FirstRows \in Nat /\ Limit \in Nat \ {0} /\ MaxEdits \in Nat

VARIABLES
  list,     \* the list that is walked: an endpoint with its filters
  rows,     \* the table
  edits,    \* writes made, for the bound; each new row is named by one
  walk,     \* the client's walk
  \* History since the walk began, read by properties only:
  during    \* [came, went, touched, between]

listVars == <<list, rows, edits, walk, during>>
-----------------------------------------------------------------------------
\* `active`: the status is ACTIVE; `mine`: the row is the client's (or the
\* seller's asked for, or of the room asked for); `topic`: it contains the
\* keyword; `shelf`: it is in the category asked for.  A coordinate of zero
\* counts as none, in a row and in a request.  `stamp` is what the list is ordered by: the
\* time of creation or, in the chats, of the last write.
Row == [id : Nat, kind : Kinds, stamp : Nat]

Walking  == {"on", "done"}
PageAnswer == [items : SUBSET Nat, total : Nat, has : SUBSET {"items", "total"}]
NoAnswer == [items |-> {}, total |-> 0, has |-> {}]

\* Types of every variable; a page number may be a text (`text`).  `again`: the
\* ids that were shown more than once.
ListingsTypeOK ==
  /\ list \in Walks
  /\ rows \subseteq Row /\ edits \in 0..MaxEdits
  /\ walk \in [phase : Walking, page : Nat \ {0}, text : BOOLEAN,
               shown : SUBSET Nat, again : SUBSET Nat, answer : PageAnswer]
  /\ during \in [came : SUBSET Nat, went : SUBSET Nat, touched : SUBSET Nat, between : BOOLEAN]

Quiet == [came |-> {}, went |-> {}, touched |-> {}, between |-> FALSE]

ListingsInit ==
  /\ list \in Walks
  /\ \E n \in 0..FirstRows : \E kind \in [1..n -> Kinds] :
       rows = {[id |-> MaxEdits + i, kind |-> kind[i], stamp |-> i] : i \in 1..n}
  /\ edits = 0
  /\ walk = [phase |-> "on", page |-> 1, text |-> FALSE, shown |-> {}, again |-> {},
             answer |-> NoAnswer]
  /\ during = Quiet
-----------------------------------------------------------------------------
(***************************************************************************)
(* Conditions                                                              *)
(***************************************************************************)
\* The filter that search() answers: the first of these that is asked for.
Branch(filters) ==
  CASE "location" \in filters -> "location"
    [] "location" \notin filters /\ "keyword" \in filters -> "keyword"
    [] filters \cap {"location", "keyword"} = {} /\ "seller" \in filters -> "seller"
    [] filters = {"category"} -> "category"
    [] OTHER -> "all"

\* A keyword may be joined with a category.
searchKeyword(k, filters) == k.active /\ k.topic /\ ("category" \in filters => k.shelf)

\* A seller's products are found whatever their status.
findBySeller(k) == k.mine

\* A status may be asked for; left out here.
findMyProducts(k) == findBySeller(k)

findByCategory(k) == k.active /\ k.shelf

search(k, filters) ==
  CASE Branch(filters) = "location" -> k.active /\ k.place # "none"
    [] Branch(filters) = "keyword"  -> searchKeyword(k, filters)
    [] Branch(filters) = "seller"   -> findBySeller(k)
    [] Branch(filters) = "category" -> findByCategory(k)
    [] OTHER -> k.active

findAll(k) == k.active

Selects(k) ==
  CASE list.name = "products"   -> findAll(k)
    [] list.name = "search"     -> search(k, list.filters)
    [] list.name = "myProducts" -> findMyProducts(k)
    [] OTHER -> k.mine

Located  == list.name = "search" /\ Branch(list.filters) = "location"
Selected == {r \in rows : Selects(r.kind)}

\* The place of a row in the order of the list.
Before(q, r) == IF list.oldestFirst THEN q.stamp <= r.stamp ELSE q.stamp >= r.stamp
Rank(r)      == Cardinality({q \in Selected : Before(q, r)})

\* The query of a page: skip, and take.
Slice(skip) == {r \in Selected : skip < Rank(r) /\ Rank(r) <= skip + Limit}

Page(page) == Slice((page - 1) * Limit)

\* findByLocation measures the distance of the rows of the page.
findByLocation(page) == {r \in Page(page) : r.kind.place = "near"}

Ids(s) == {r.id : r \in s}
CeilDiv(a, b) == (a + b - 1) \div b
-----------------------------------------------------------------------------
(***************************************************************************)
(* The walk                                                                *)
(***************************************************************************)
Answered(part) == walk.phase = "on" /\ part \in walk.answer.has

\* The query for the rows of the page.  A location search has no other.
QueryItems ==
  /\ walk.phase = "on" /\ ~Answered("items")
  /\ IF Located
       THEN LET found == findByLocation(walk.page) IN
            walk' = [walk EXCEPT !.answer =
              [items |-> Ids(found), total |-> Cardinality(found), has |-> {"items", "total"}]]
       ELSE walk' = [walk EXCEPT !.answer =
              [items |-> Ids(Page(walk.page)), total |-> @.total, has |-> @.has \cup {"items"}]]
  /\ UNCHANGED <<list, rows, edits, during>>

\* Seeded fault: the rows of the page are counted.
QueryTotalOfPage ==
  /\ Answered("items") /\ ~Answered("total")
  /\ walk' = [walk EXCEPT !.answer =
       [items |-> @.items, total |-> Cardinality(@.items), has |-> @.has \cup {"total"}]]
  /\ UNCHANGED <<list, rows, edits, during>>

\* The query that counts; Promise.all lets the two run in any order, orders are
\* read first and counted then.
QueryTotal ==
  /\ walk.phase = "on" /\ ~Answered("total") /\ ~Located
  /\ list.name = "orders" => Answered("items")
  /\ walk' = [walk EXCEPT !.answer =
       [items |-> @.items, total |-> Cardinality(Selected), has |-> @.has \cup {"total"}]]
  /\ UNCHANGED <<list, rows, edits, during>>

TotalPages == CeilDiv(walk.answer.total, Limit)

\* createMeta: the chat endpoints hand it the page as the text that came with
\* the request, and `page + 1` puts the digit one behind it.
createMeta == IF walk.text THEN 10 * walk.page + 1 ELSE walk.page + 1

\* The client has read the page that was answered.
Read(phase, page, text) ==
  [phase |-> phase, page |-> page, text |-> text,
   shown |-> walk.shown \cup walk.answer.items,
   again |-> walk.again \cup (walk.shown \cap walk.answer.items), answer |-> NoAnswer]

\* Both answers are there: the client reads on while the answer says there are
\* more pages.  In the chat lists he follows nextPage.
TurnPage ==
  /\ Answered("items") /\ Answered("total")
  /\ \/ /\ walk.page < TotalPages /\ list.name \in Chats
        /\ walk' = Read("on", createMeta, TRUE)
     \/ /\ walk.page < TotalPages /\ list.name \notin Chats
        /\ walk' = Read("on", walk.page + 1, FALSE)
     \/ /\ walk.page >= TotalPages
        /\ walk' = Read("done", walk.page, walk.text)
  /\ UNCHANGED <<list, rows, edits, during>>
-----------------------------------------------------------------------------
(***************************************************************************)
(* The others                                                              *)
(***************************************************************************)
\* A write of the others; `between`: a row came when one query of a page had
\* been answered and the other had not.
Edited(next) ==
  /\ walk.phase = "on" /\ edits < MaxEdits
  /\ edits' = edits + 1 /\ rows' = next
  /\ UNCHANGED <<list, walk>>

\* Later than any row there is.
Now == FirstRows + edits + 1

\* A row is created.
Arrive(k) ==
  /\ Edited(rows \cup {[id |-> edits + 1, kind |-> k, stamp |-> Now]})
  /\ during' = IF Selects(k)
       THEN [came    |-> during.came \cup {edits + 1}, went |-> during.went,
             touched |-> during.touched, between |-> during.between \/ Answered("total")]
       ELSE during

\* A row is deleted, or no longer what the list asks for.
Drop(r) ==
  /\ Edited(rows \ {r})
  /\ during' = [during EXCEPT !.went = @ \cup {r.id}]

\* A document of the chat is written (a last message, a leave, a reading mark)
\* and with it its updatedAt.
Touch(r) ==
  /\ list.name \in Chats
  /\ Edited((rows \ {r}) \cup {[r EXCEPT !.stamp = Now]})
  /\ during' = [during EXCEPT !.touched = @ \cup {r.id}]

ListingsNext ==
  \/ QueryItems
  \/ QueryTotal
  \/ TurnPage
  \/ \E k \in Kinds : Arrive(k)
  \/ \E r \in rows : Drop(r)
  \/ \E r \in rows : Touch(r)

ListingsSpec == ListingsInit /\ [][ListingsNext]_listVars
-----------------------------------------------------------------------------
(***************************************************************************)
(* Properties                                                              *)
(***************************************************************************)
Done  == walk.phase = "done"
Still == during = Quiet

\* Whether a client who walks a table that stands still gets the row: every row
\* that is selected, but of a location search those of the first page that are
\* near, and of a chat those of the first two pages.
Reached(r) ==
  CASE Located -> Rank(r) <= Limit /\ r.kind.place = "near"
    [] list.name \in Chats -> Rank(r) <= 2 * Limit
    [] OTHER -> TRUE

\* The second page of a chat names page 21 as the next; what a client sees from
\* there on is left open.
Near(r) == list.name \in Chats => Rank(r) <= 20 * Limit

\* A walk that nobody disturbs shows each row that it can reach, and once.
UndisturbedWalkComplete ==
  Done /\ Still =>
    /\ walk.again = {} /\ walk.shown \subseteq Ids(Selected)
    /\ \A r \in Selected : Near(r) => (r.id \in walk.shown <=> Reached(r))

\* A row that was there all the time is missed by a walk only when another row
\* went, when one came between the two queries of a page, or when documents of a
\* chat were written; rows that come at any other time make nobody miss one.
MissNeedsCause ==
  Done /\ ~Located /\ list.name \notin Chats /\ during.went = {} /\ ~during.between =>
    Ids(Selected) \ during.came \subseteq walk.shown

\* A row is shown twice only when another came, or a document was written.
RepeatNeedsCause ==
  Done /\ during.came = {} /\ during.touched = {} => walk.again = {}

\* What a client who walks a list page by page may rely on: he sees each row
\* once, or there is a cause for what he missed or saw again.
WalksSound == UndisturbedWalkComplete /\ MissNeedsCause /\ RepeatNeedsCause
=============================================================================
