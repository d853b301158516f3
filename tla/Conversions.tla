------------------------------ MODULE Conversions ------------------------------
(***************************************************************************)
(* Pure functions: the pages of PaginationUtil and the values of           *)
(* RedisService.  One sample is chosen and what the functions make of it   *)
(* is compared with what they are for.                                     *)
(***************************************************************************)
EXTENDS Naturals, Sequences, FiniteSets

CONSTANTS
  MaxPages,  \* bound: pages of a list
  MaxDelta   \* bound: neighbours shown of the current page

ASSUME ConversionsAssumption == MaxPages \in Nat \ {0} /\ MaxDelta \in Nat

VARIABLE sample

convVars == <<sample>>
-----------------------------------------------------------------------------
(***************************************************************************)
(* PaginationUtil                                                          *)
(***************************************************************************)
Gap == 0   \* the entry '...'

Span(from, to) == [i \in 1..(IF to >= from THEN to + 1 - from ELSE 0) |-> from + i - 1]
When(b, s)     == IF b THEN s ELSE <<>>
Lesser(a, b)   == IF a <= b THEN a ELSE b
LeftEnd(s)     == IF s.current > s.delta + 2 THEN s.current - s.delta ELSE 2
RightEnd(s)    == IF s.current + s.delta < s.total THEN s.current + s.delta ELSE s.total - 1

getPageRange(s) ==
  <<1>> \o When(LeftEnd(s) > 2, <<Gap>>) \o Span(LeftEnd(s), RightEnd(s))
        \o When(RightEnd(s) + 1 < s.total, <<Gap>>) \o When(s.total > 1, <<s.total>>)

getSkip(page, limit) == (page - 1) * limit

getPrismaOptions(page, limit) == [skip |-> getSkip(page, limit), take |-> limit]

getTotalPages(total, limit) == (total + limit - 1) \div limit

isValidPage(page, total, limit) == 1 <= page /\ page <= getTotalPages(total, limit)

\* The rows of a page and what createMeta says of it; 0 stands for null.
paginate(page, total, limit) ==
  LET query == getPrismaOptions(page, limit)
      last  == getTotalPages(total, limit)
  IN  [items        |-> Span(query.skip + 1, Lesser(query.skip + query.take, total)),
       nextPage     |-> IF page < last THEN page + 1 ELSE 0,
       previousPage |-> IF page > 1 THEN page - 1 ELSE 0]

\* What the database finds behind a cursor: a row more than the limit.
Behind(s, cursor) == Span(cursor + 1, Lesser(cursor + s.limit + 1, s.rows))

\* Seeded fault: the cursor is taken from the row that is not returned.
cursorPaginateLast(data, limit) ==
  LET more == Len(data) > limit IN
  [items |-> IF more THEN SubSeq(data, 1, limit) ELSE data, more |-> more,
   next  |-> IF more THEN data[Len(data)] ELSE 0]

cursorPaginate(data, limit) ==
  LET more == Len(data) > limit IN
  [items |-> IF more THEN SubSeq(data, 1, limit) ELSE data, more |-> more,
   next  |-> IF more /\ limit > 0 THEN data[limit] ELSE 0]
-----------------------------------------------------------------------------
(***************************************************************************)
(* RedisService                                                            *)
(***************************************************************************)
\* A value is an object (or a number, or a boolean), null, or a string: one that
\* is empty, one that reads as the JSON of an object or of null, or any other.
Values  == {"object", "null", "empty string", "string of object", "string of null", "other string"}

\* What set, hset, lpush and sadd keep: a string as it is, anything else as JSON.
asText ==
  [v \in Values |->
    CASE v \in {"object", "string of object"} -> "object"
      [] v \in {"null", "string of null"}     -> "null"
      [] v = "empty string"                   -> ""
      [] OTHER -> "other"]

\* hgetall, lrange and smembers: JSON.parse, or the text itself when that fails.
parsed ==
  [x \in {"object", "null", "", "other"} |->
    CASE x = "object" -> "object" [] x = "null" -> "null" [] x = "other" -> "other string"
      [] OTHER -> "empty string"]

\* get, hget and lpop: a text that is empty counts as none.
get == [v \in Values |-> IF asText[v] = "" THEN "null" ELSE parsed[asText[v]]]
-----------------------------------------------------------------------------
\* The samples; the current page may lie behind the last.
Samples ==
  [about : {"range"}, current : 1..MaxPages + 1, total : 0..MaxPages, delta : 0..MaxDelta]
  \cup [about : {"offset", "cursor"}, rows : 0..MaxPages, limit : 1..MaxPages]
  \cup [about : {"redis"}, value : Values]

ConversionsInit == sample \in Samples

ConversionsSpec == ConversionsInit /\ [][FALSE]_convVars
-----------------------------------------------------------------------------
ShownPages(s) == LET r == getPageRange(s) IN {r[i] : i \in DOMAIN r} \ {Gap}

\* The page numbers under a list: of a page that exists the first, the last and
\* the neighbours up to delta are there, in order and once, and '...' stands
\* exactly where pages are left out.
PageRangeFaithful ==
  sample.about = "range" /\ sample.current <= sample.total =>
    LET r == getPageRange(sample) IN
    /\ ShownPages(sample) = {p \in 1..sample.total : p \in {1, sample.total}
         \/ (p <= sample.current + sample.delta /\ sample.current <= p + sample.delta)}
    /\ \A i \in DOMAIN r \ {1} :
         IF r[i] = Gap THEN r[i + 1] > r[i - 1] + 1
                       ELSE r[i - 1] = Gap \/ r[i] = r[i - 1] + 1

\* Two pages are not empty and the second goes on where the first ends.
InOrder(page, then) ==
  page # <<>> /\ then # <<>> /\ then[1] = page[Len(page)] + 1

\* The pages, or cursors, of a list that a client sees who begins with the first
\* and goes wherever `next` tells him, as long as it names one.
Followed(first, next) ==
  {x \in DOMAIN next : \A S \in SUBSET DOMAIN next :
     first \in S /\ (\A y \in S : next[y] \in DOMAIN next => next[y] \in S) => x \in S}

\* The pages seen hold every row, in one place.
EachOnce(seen, items, rows) ==
  \A r \in 1..rows : \E p \in seen : \E i \in DOMAIN items[p] :
    /\ items[p][i] = r
    /\ \A q \in seen : \A j \in DOMAIN items[q] : items[q][j] = r => q = p /\ j = i

\* A client who follows nextPage through a list that stands still gets every row
\* once and in order; a page has rows exactly when isValidPage says so, and
\* previousPage leads back to where nextPage came from.
OffsetWalkComplete ==
  sample.about = "offset" =>
    LET rows  == sample.rows
        pages == 1..rows + 1
        page  == [p \in pages |-> paginate(p, rows, sample.limit)]
        next  == [p \in pages |-> page[p].nextPage]
        items == [p \in pages |-> page[p].items]
    IN
    /\ EachOnce(Followed(1, next), items, rows)
    /\ \A p \in pages :
         /\ isValidPage(p, rows, sample.limit) <=> items[p] # <<>>
         /\ next[p] # 0 => /\ page[next[p]].previousPage = p
                           /\ InOrder(items[p], items[next[p]])

\* A client who follows the cursors of a list that stands still gets every row
\* once and in order, and stops, since every page that is followed by another
\* leads him on.
CursorWalkComplete ==
  sample.about = "cursor" =>
    LET rows    == sample.rows
        cursors == 0..rows
        page    == [c \in cursors |-> cursorPaginate(Behind(sample, c), sample.limit)]
        next    == [c \in cursors |-> page[c].next]
        items   == [c \in cursors |-> page[c].items]
    IN
    /\ EachOnce(Followed(0, next), items, rows)
    /\ \A c \in cursors : page[c].more => InOrder(items[c], items[next[c]])

\* What a reader of Redis gets he can write back and read again, by the same
\* function or by the other one: a string may change its type when it is read the
\* first time, and does not change again, and what is not a string never changes.
RoundTrip ==
  sample.about = "redis" =>
    LET v == sample.value  once == get[v] IN
    /\ get[once] = once /\ parsed[asText[once]] = once
    /\ v \in {"object", "null"} => once = v
    /\ once # parsed[asText[v]] => v = "empty string"

\* The functions do what they are for, at the ends of their ranges as well.
ConversionsFaithful ==
  PageRangeFaithful /\ OffsetWalkComplete /\ CursorWalkComplete /\ RoundTrip
=============================================================================
