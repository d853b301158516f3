------------------------------ MODULE TrustScore ------------------------------
(***************************************************************************)
(* Reviews and the score they give: ReviewsService and ReviewsRepository.  *)
(*                                                                         *)
(* Every write is one autocommit statement.  After a review is written the *)
(* score of the user it is about is computed from one query and stored by  *)
(* another statement, so any other request may run in between.  A request  *)
(* is a slot that holds the statement it executes next; one that is        *)
(* refused is no step.  Orders are seen as the reviews see them: parties,  *)
(* and whether the order is completed; deleting one deletes its review.    *)
(***************************************************************************)
EXTENDS Naturals, FiniteSets

CONSTANTS
  Reviewers,     \* users
  Deals,         \* orders, as far as reviews depend on them
  Reviews,       \* ids a review row may take; an id is used once
  Ratings,       \* the ratings clients give
  ReviewSlots,   \* bound: how many requests overlap
  NoRecord,      \* no such row
  ReviewFaults   \* whether a request may die between two statements

ASSUME TrustScoreAssumption ==
  /\ Ratings \subseteq 1..5
  /\ ReviewFaults \in BOOLEAN
  /\ NoRecord \notin [buyer : Reviewers, seller : Reviewers, completed : BOOLEAN]
  /\ NoRecord \notin [order : Deals, reviewer : Reviewers, reviewed : Reviewers, rating : 1..5]

VARIABLES
  deal,       \* table orders: id -> row, as far as reviews depend on it
  review,     \* table reviews: id -> row
  score,      \* table users: trustScore, rating and ratingCount of a user
  reviewing,  \* slot -> the statement the request in it executes next
  \* History, read by properties and by the bounds only:
  used,       \* review ids ever taken
  overtaken,  \* slots holding a score computed before the reviews changed again
  wrong       \* users left with a score no request is going to correct

reviewTables  == <<deal, review, score>>
reviewHistory == <<used, overtaken, wrong>>
trustVars     == <<deal, review, score, reviewing, used, overtaken, wrong>>

-----------------------------------------------------------------------------
DealRow   == [buyer : Reviewers, seller : Reviewers, completed : BOOLEAN]
ReviewRow == [order : Deals, reviewer : Reviewers, reviewed : Reviewers, rating : 1..5]

\* trustScore and rating in tenths.
ScoreRow == [trustScore : 0..1000, rating : 0..50, ratingCount : Nat]

Received(u) == {x \in Reviews : review[x] # NoRecord /\ review[x].reviewed = u}

RatingsOf(u) == [x \in Received(u) |-> review[x].rating]

\* Math.round of a / b
Rounded(a, b) == (2 * a + b) \div (2 * b)

Lesser(a, b) == IF a <= b THEN a ELSE b

\* The sum of the ratings: a point for each step up to each of them.
Total(given) ==
  Cardinality({p \in (DOMAIN given) \X (1..5) : p[2] <= given[p[1]]})

\* Seeded fault: the average is not divided by the best rating.
ScoreOfUnscaled(given) ==
  LET count == Cardinality(DOMAIN given)
      total == Total(given) IN
  IF count = 0
    THEN [trustScore |-> 0, rating |-> 0, ratingCount |-> 0]
    ELSE [trustScore |-> Rounded(800 * total + 4 * Lesser(count, 50) * count, count),
          rating |-> Rounded(10 * total, count),
          ratingCount |-> count]

\* The score that the ratings given, one for each review, make: 80 points for
\* their average, 20 for their number, full at 50.
ScoreOf(given) ==
  LET count == Cardinality(DOMAIN given)
      total == Total(given) IN
  IF count = 0
    THEN [trustScore |-> 0, rating |-> 0, ratingCount |-> 0]
    ELSE [trustScore |-> Rounded(160 * total + 4 * Lesser(count, 50) * count, count),
          rating |-> Rounded(10 * total, count),
          ratingCount |-> count]

calculateTrustScore(u) == ScoreOf(RatingsOf(u))

NotReviewing == [pc |-> "idle"]

Reviewing ==
  {NotReviewing}
  \cup [pc : {"insert"}, row : ReviewRow]
  \cup [pc : {"update"}, review : Reviews, rating : 1..5, user : Reviewers]
  \cup [pc : {"delete"}, review : Reviews, user : Reviewers]
  \cup [pc : {"readReviews"}, user : Reviewers]
  \cup [pc : {"writeScore"}, user : Reviewers, score : ScoreRow]

\* Types of every variable; among them that a score lies between 0 and 100 and
\* a rating between 0 and 5, whatever the reviews.
TrustTypeOK ==
  /\ deal \in [Deals -> DealRow \cup {NoRecord}]
  /\ review \in [Reviews -> ReviewRow \cup {NoRecord}]
  /\ score \in [Reviewers -> ScoreRow]
  /\ reviewing \in [ReviewSlots -> Reviewing]
  /\ used \subseteq Reviews
  /\ overtaken \subseteq ReviewSlots
  /\ wrong \subseteq Reviewers

\* Any orders, of two users each, deleted or not, and no review yet.
TrustInit ==
  /\ deal \in [Deals -> {d \in DealRow : d.buyer # d.seller} \cup {NoRecord}]
  /\ review = [x \in Reviews |-> NoRecord]
  /\ score = [u \in Reviewers |-> [trustScore |-> 0, rating |-> 0, ratingCount |-> 0]]
  /\ reviewing = [s \in ReviewSlots |-> NotReviewing]
  /\ used = {} /\ overtaken = {} /\ wrong = {}
-----------------------------------------------------------------------------
DealExists(o)    == deal[o] # NoRecord
ReviewExists(x)  == review[x] # NoRecord
Reviewed(o)      == \E x \in Reviews : ReviewExists(x) /\ review[x].order = o
ReviewAt(s, pc)  == reviewing[s].pc = pc
ReviewGoto(s, next) == reviewing' = [reviewing EXCEPT ![s] = next]
ReviewDone(s)    == ReviewGoto(s, NotReviewing)

\* The reviews of u changed: the scores computed for u so far are overtaken.
Overtake(u) ==
  overtaken' = overtaken \cup
    {s \in ReviewSlots : ReviewAt(s, "writeScore") /\ reviewing[s].user = u}

\* Bound: a review is written only while an id is left for it.
IdForReview ==
  Cardinality({s \in ReviewSlots : ReviewAt(s, "insert")}) < Cardinality(Reviews \ used)

-----------------------------------------------------------------------------
(***************************************************************************)
(* Writing, changing and removing a review                                 *)
(***************************************************************************)

\* create, up to the INSERT: the order is completed, u is one of its parties,
\* and it has no review; the review is about the other party.
CreateReview(s, u, o, n) ==
  /\ reviewing[s] = NotReviewing
  /\ DealExists(o) /\ deal[o].completed
  /\ u \in {deal[o].buyer, deal[o].seller}
  /\ ~Reviewed(o)
  /\ IdForReview
  /\ ReviewGoto(s, [pc |-> "insert",
              row |-> [order |-> o, reviewer |-> u, rating |-> n,
                       reviewed |-> IF u = deal[o].buyer THEN deal[o].seller
                                                          ELSE deal[o].buyer]])
  /\ UNCHANGED <<reviewTables, reviewHistory>>

\* Seeded fault: orderId is not unique.
InsertReviewTwice(s, x) ==
  /\ ReviewAt(s, "insert")
  /\ x \notin used
  /\ DealExists(reviewing[s].row.order)
  /\ review' = [review EXCEPT ![x] = reviewing[s].row]
  /\ used' = used \cup {x}
  /\ Overtake(reviewing[s].row.reviewed)
  /\ ReviewGoto(s, [pc |-> "readReviews", user |-> reviewing[s].row.reviewed])
  /\ UNCHANGED <<deal, score, wrong>>

\* The INSERT.  The unique index on orderId and the foreign key to the order
\* hold at this moment, whatever was read before.
InsertReview(s, x) ==
  /\ ReviewAt(s, "insert")
  /\ x \notin used
  /\ DealExists(reviewing[s].row.order) /\ ~Reviewed(reviewing[s].row.order)
  /\ review' = [review EXCEPT ![x] = reviewing[s].row]
  /\ used' = used \cup {x}
  /\ Overtake(reviewing[s].row.reviewed)
  /\ ReviewGoto(s, [pc |-> "readReviews", user |-> reviewing[s].row.reviewed])
  /\ UNCHANGED <<deal, score, wrong>>

InsertRefused(s) ==
  /\ ReviewAt(s, "insert")
  /\ ~DealExists(reviewing[s].row.order) \/ Reviewed(reviewing[s].row.order)
  /\ ReviewDone(s)
  /\ UNCHANGED <<reviewTables, reviewHistory>>

\* update with a rating, and remove, up to their statement: only the reviewer
\* may.  The reviewed user is remembered from this read.
UpdateReview(s, u, x, n) ==
  /\ reviewing[s] = NotReviewing
  /\ ReviewExists(x) /\ review[x].reviewer = u
  /\ ReviewGoto(s, [pc |-> "update", review |-> x, rating |-> n, user |-> review[x].reviewed])
  /\ UNCHANGED <<reviewTables, reviewHistory>>

RemoveReview(s, u, x) ==
  /\ reviewing[s] = NotReviewing
  /\ ReviewExists(x) /\ review[x].reviewer = u
  /\ ReviewGoto(s, [pc |-> "delete", review |-> x, user |-> review[x].reviewed])
  /\ UNCHANGED <<reviewTables, reviewHistory>>

\* Seeded fault: a change of the reviews leaves the score alone.
WriteReviewOnly(s) ==
  /\ reviewing[s].pc \in {"update", "delete"}
  /\ LET x == reviewing[s].review IN
       /\ ReviewExists(x)
       /\ review' = [review EXCEPT ![x] = IF ReviewAt(s, "delete") THEN NoRecord
                                          ELSE [@ EXCEPT !.rating = reviewing[s].rating]]
  /\ Overtake(reviewing[s].user)
  /\ ReviewDone(s)
  /\ UNCHANGED <<deal, score, used, wrong>>

\* Their statement, when the row is still there ...
WriteReview(s) ==
  /\ reviewing[s].pc \in {"update", "delete"}
  /\ LET x == reviewing[s].review IN
       /\ ReviewExists(x)
       /\ review' = [review EXCEPT ![x] = IF ReviewAt(s, "delete") THEN NoRecord
                                          ELSE [@ EXCEPT !.rating = reviewing[s].rating]]
  /\ Overtake(reviewing[s].user)
  /\ ReviewGoto(s, [pc |-> "readReviews", user |-> reviewing[s].user])
  /\ UNCHANGED <<deal, score, used, wrong>>

\* ... and when it is not: P2025, and the score is not computed.
ReviewGone(s) ==
  /\ reviewing[s].pc \in {"update", "delete"}
  /\ ~ReviewExists(reviewing[s].review)
  /\ ReviewDone(s)
  /\ UNCHANGED <<reviewTables, reviewHistory>>

-----------------------------------------------------------------------------
(***************************************************************************)
(* updateUserTrustScore                                                    *)
(***************************************************************************)
\* Seeded fault: the query asks for reviewerId.
ReadReviewsGiven(s) ==
  /\ ReviewAt(s, "readReviews")
  /\ LET u == reviewing[s].user
         given == {x \in Reviews : review[x] # NoRecord /\ review[x].reviewer = u} IN
       ReviewGoto(s, [pc |-> "writeScore", user |-> u,
                score |-> ScoreOf([x \in given |-> review[x].rating])])
  /\ UNCHANGED <<reviewTables, reviewHistory>>

ReadReviews(s) ==
  /\ ReviewAt(s, "readReviews")
  /\ LET u == reviewing[s].user IN
       ReviewGoto(s, [pc |-> "writeScore", user |-> u, score |-> calculateTrustScore(u)])
  /\ UNCHANGED <<reviewTables, reviewHistory>>

WriteScore(s) ==
  /\ ReviewAt(s, "writeScore")
  /\ score' = [score EXCEPT ![reviewing[s].user] = reviewing[s].score]
  /\ wrong' = IF s \in overtaken THEN wrong \cup {reviewing[s].user}
                                 ELSE wrong \ {reviewing[s].user}
  /\ overtaken' = overtaken \ {s}
  /\ ReviewDone(s)
  /\ UNCHANGED <<deal, review, used>>

-----------------------------------------------------------------------------
(***************************************************************************)
(* What the orders do, and failures                                        *)
(***************************************************************************)

\* An order becomes DELIVERED or CONFIRMED, or is refunded after delivery.
DealMoves(o) ==
  /\ DealExists(o)
  /\ deal' = [deal EXCEPT ![o].completed = ~@]
  /\ UNCHANGED <<review, score, reviewing, reviewHistory>>

\* DELETE /orders/:id takes the review with it; no score is computed.
DeleteDeal(o) ==
  /\ DealExists(o)
  /\ deal' = [deal EXCEPT ![o] = NoRecord]
  /\ LET gone == {x \in Reviews : ReviewExists(x) /\ review[x].order = o}
         hit  == {review[x].reviewed : x \in gone} IN
       /\ review' = [x \in Reviews |-> IF x \in gone THEN NoRecord ELSE review[x]]
       /\ wrong' = wrong \cup hit
       /\ overtaken' = overtaken \cup
            {s \in ReviewSlots : ReviewAt(s, "writeScore") /\ reviewing[s].user \in hit}
  /\ UNCHANGED <<score, reviewing, used>>

\* The request dies where it stands.
FailReview(s) ==
  /\ ReviewFaults
  /\ reviewing[s] # NotReviewing
  /\ wrong' = IF reviewing[s].pc \in {"readReviews", "writeScore"}
                THEN wrong \cup {reviewing[s].user} ELSE wrong
  /\ overtaken' = overtaken \ {s}
  /\ ReviewDone(s)
  /\ UNCHANGED <<reviewTables, used>>

ReviewRequest(s) ==
  \/ \E u \in Reviewers, o \in Deals, n \in Ratings : CreateReview(s, u, o, n)
  \/ \E u \in Reviewers, x \in Reviews, n \in Ratings : UpdateReview(s, u, x, n)
  \/ \E u \in Reviewers, x \in Reviews : RemoveReview(s, u, x)
  \/ \E x \in Reviews : InsertReview(s, x)
  \/ InsertRefused(s) \/ WriteReview(s) \/ ReviewGone(s)
  \/ ReadReviews(s) \/ WriteScore(s)

TrustNext ==
  \/ \E s \in ReviewSlots : ReviewRequest(s) \/ FailReview(s)
  \/ \E o \in Deals : DealMoves(o) \/ DeleteDeal(o)

TrustSpec == TrustInit /\ [][TrustNext]_trustVars

-----------------------------------------------------------------------------
(***************************************************************************)
(* Properties                                                              *)
(***************************************************************************)

\* A review belongs to an order that exists, is by one of its parties about the
\* other, and is the only one of that order, although create() checks all this
\* in earlier statements.
ReviewsMatchOrders ==
  \A x \in Reviews : ReviewExists(x) =>
    LET d == deal[review[x].order] IN
      /\ d # NoRecord
      /\ {review[x].reviewer, review[x].reviewed} = {d.buyer, d.seller}
      /\ \A y \in Reviews \ {x} : ReviewExists(y) => review[y].order # review[x].order

\* The stored score of a user is that of the reviews he has, or a request is
\* about to store it anew, or he is left wrong in one of the three ways there
\* are: a score overtaken between its query and its write was stored last, a
\* request died after it had written a review, or an order was deleted with its
\* review.  A score stored later, without being overtaken, puts it right.
ScoreExplained ==
  \A u \in Reviewers :
    \/ score[u] = calculateTrustScore(u)
    \/ u \in wrong
    \/ \E s \in ReviewSlots : reviewing[s].pc \in {"readReviews", "writeScore"} /\ reviewing[s].user = u

\* A score that waits to be stored is that of the reviews as they are, unless
\* they were changed since it was computed.
HeldScoreFresh ==
  \A s \in ReviewSlots \ overtaken :
    ReviewAt(s, "writeScore") => reviewing[s].score = calculateTrustScore(reviewing[s].user)
=============================================================================
