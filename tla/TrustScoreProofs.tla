-------------------------- MODULE TrustScoreProofs --------------------------
(***************************************************************************)
(* Proofs about TrustScore, for any number of users, orders, reviews and   *)
(* overlapping requests.  Of what the formula computes they use two facts: *)
(* that a score is a function of the ratings a user has been given, and    *)
(* that it lies between its bounds.                                        *)
(***************************************************************************)
EXTENDS TrustScore, FiniteSetTheorems, TLAPS

USE TrustScoreAssumption

Scoring == {"readReviews", "writeScore"}
Writing == {"update", "delete"}

\* Types, short of the range of the scores: which score is stored matters to
\* nothing below, and the range follows at the end, for finitely many reviews.
Shape ==
  /\ deal \in [Deals -> DealRow \cup {NoRecord}]
  /\ review \in [Reviews -> ReviewRow \cup {NoRecord}]
  /\ DOMAIN score = Reviewers
  /\ DOMAIN reviewing = ReviewSlots
  /\ \A s \in ReviewSlots :
       /\ ReviewAt(s, "insert") => reviewing[s].row \in ReviewRow
       /\ reviewing[s].pc \in Writing => reviewing[s].review \in Reviews
       /\ ReviewAt(s, "update") => reviewing[s].rating \in 1..5
       /\ reviewing[s].pc \in Scoring => reviewing[s].user \in Reviewers

\* What a request remembers of the rows it read still fits them, as far as they
\* are still there; an id of a row is not given to another one.
PendingMatches ==
  /\ \A x \in Reviews : ReviewExists(x) => x \in used
  /\ \A s \in ReviewSlots :
       /\ ReviewAt(s, "insert") =>
            LET row == reviewing[s].row IN
              DealExists(row.order) =>
                {row.reviewer, row.reviewed} = {deal[row.order].buyer, deal[row.order].seller}
       /\ reviewing[s].pc \in Writing =>
            /\ reviewing[s].review \in used
            /\ reviewing[s].user \in Reviewers
            /\ ReviewExists(reviewing[s].review) =>
                 reviewing[s].user = review[reviewing[s].review].reviewed

IInv ==
  /\ Shape
  /\ PendingMatches
  /\ ReviewsMatchOrders
  /\ HeldScoreFresh
  /\ ScoreExplained

-----------------------------------------------------------------------------
\* What a step leaves alone of the reviews about u leaves u's score alone.
LEMMA SameScore ==
  ASSUME Shape, NEW u \in Reviewers,
         \A x \in Reviews : review'[x] = review[x]
                            \/ /\ review[x] = NoRecord \/ review[x].reviewed # u
                               /\ review'[x] = NoRecord \/ review'[x].reviewed # u
  PROVE  calculateTrustScore(u)' = calculateTrustScore(u)
<1>1. Received(u)' = Received(u)
  BY DEF Received
<1>2. \A x \in Received(u) : review'[x].rating = review[x].rating
  BY DEF Received
<1>3. RatingsOf(u)' = RatingsOf(u)
  BY <1>1, <1>2 DEF RatingsOf
<1>. QED
  BY <1>3 DEF calculateTrustScore

\* A score that is held or owed is not lost by a step that leaves the reviews
\* and the scores alone and is of a request that holds none.
LEMMA ScoresKept ==
  ASSUME IInv, NEW t \in ReviewSlots, \A s \in ReviewSlots \ {t} : reviewing'[s] = reviewing[s],
         reviewing[t].pc \notin Scoring, reviewing'[t].pc \notin Scoring,
         UNCHANGED <<review, score, reviewHistory>>
  PROVE  HeldScoreFresh' /\ ScoreExplained'
<1>1. \A u \in Reviewers : calculateTrustScore(u)' = calculateTrustScore(u)
  BY SameScore DEF IInv
<1>2. \A s \in ReviewSlots : reviewing'[s].pc \in Scoring \/ reviewing[s].pc \in Scoring
                         => reviewing'[s] = reviewing[s]
  BY DEF IInv, Shape
<1>3. HeldScoreFresh'
  BY <1>1, <1>2 DEF IInv, Shape, HeldScoreFresh, ReviewAt, Scoring, reviewHistory
<1>4. ScoreExplained'
  <2>. SUFFICES ASSUME NEW u \in Reviewers, score[u] # calculateTrustScore(u), u \notin wrong
                PROVE  \E s \in ReviewSlots : reviewing'[s].pc \in Scoring /\ reviewing'[s].user = u
    BY <1>1 DEF ScoreExplained, reviewHistory, Scoring
  <2>1. PICK s \in ReviewSlots : reviewing[s].pc \in Scoring /\ reviewing[s].user = u
    BY DEF IInv, ScoreExplained, Scoring
  <2>. QED
    BY <2>1, <1>2
<1>. QED
  BY <1>3, <1>4

-----------------------------------------------------------------------------
LEMMA InitIInv ==
  ASSUME TrustInit
  PROVE  IInv
<1>1. \A u \in Reviewers : Received(u) = {}
  BY DEF TrustInit, Received
<1>2. \A u \in Reviewers : DOMAIN RatingsOf(u) = {}
  BY <1>1 DEF RatingsOf
<1>3. \A u \in Reviewers : calculateTrustScore(u)
                         = [trustScore |-> 0, rating |-> 0, ratingCount |-> 0]
  BY <1>2, FS_EmptySet DEF calculateTrustScore, ScoreOf
<1>4. ScoreExplained
  BY <1>3 DEF ScoreExplained, TrustInit
<1>5. Shape /\ PendingMatches /\ ReviewsMatchOrders /\ HeldScoreFresh
  BY DEF TrustInit, Shape, PendingMatches, ReviewsMatchOrders, HeldScoreFresh, ReviewAt,
         NotReviewing,
         ReviewExists, Writing, Scoring
<1>. QED
  BY <1>4, <1>5 DEF IInv
-----------------------------------------------------------------------------
(***************************************************************************)
(* One lemma for each action                                               *)
(***************************************************************************)

\* An admitted request remembers what it read.
LEMMA CreateReviewStep ==
  ASSUME IInv, NEW s \in ReviewSlots, NEW u \in Reviewers, NEW o \in Deals, NEW n \in Ratings,
         CreateReview(s, u, o, n)
  PROVE  IInv'
<1>1. deal[o] \in DealRow /\ deal[o].buyer \in Reviewers /\ deal[o].seller \in Reviewers
  BY DEF IInv, Shape, DealRow, CreateReview, DealExists
<1> DEFINE row == [order |-> o, reviewer |-> u, rating |-> n,
                   reviewed |-> IF u = deal[o].buyer THEN deal[o].seller
                                                      ELSE deal[o].buyer]
           next == [pc |-> "insert", row |-> row]
<1>2. /\ row \in ReviewRow
      /\ {row.reviewer, row.reviewed} = {deal[o].buyer, deal[o].seller}
  BY <1>1 DEF ReviewRow, CreateReview
<1>3. reviewing' = [reviewing EXCEPT ![s] = next]
  BY DEF CreateReview, ReviewGoto
<1>4. HeldScoreFresh' /\ ScoreExplained'
  BY <1>3, ScoresKept DEF CreateReview, Scoring, NotReviewing, reviewTables, reviewHistory,
                          IInv, Shape
<1>5. Shape'
  BY <1>2, <1>3 DEF CreateReview, IInv, Shape, ReviewAt, reviewTables, reviewHistory, Scoring,
                    Writing
<1>6. PendingMatches'
  BY <1>2, <1>3 DEF CreateReview, IInv, Shape, PendingMatches, ReviewAt, reviewTables,
                    reviewHistory, Writing,
                    DealExists, ReviewExists
<1>7. ReviewsMatchOrders'
  BY DEF CreateReview, IInv, ReviewsMatchOrders, reviewTables, ReviewExists
<1>. QED
  BY <1>4, <1>5, <1>6, <1>7 DEF IInv

LEMMA UpdateReviewStep ==
  ASSUME IInv, NEW s \in ReviewSlots, NEW u \in Reviewers, NEW x \in Reviews, NEW n \in Ratings,
         UpdateReview(s, u, x, n)
  PROVE  IInv'
<1> DEFINE next == [pc |-> "update", review |-> x, rating |-> n, user |-> review[x].reviewed]
<1>1. reviewing' = [reviewing EXCEPT ![s] = next]
  BY DEF UpdateReview, ReviewGoto
<1>2. HeldScoreFresh' /\ ScoreExplained'
  BY <1>1, ScoresKept DEF UpdateReview, Scoring, NotReviewing, reviewTables, reviewHistory,
                          IInv, Shape
<1>3. Shape'
  BY <1>1 DEF UpdateReview, IInv, Shape, ReviewAt, reviewTables, reviewHistory, Scoring, Writing
<1>4. review[x].reviewed \in Reviewers
  BY DEF UpdateReview, IInv, Shape, ReviewExists, ReviewRow
<1>5. PendingMatches'
  BY <1>1, <1>4 DEF UpdateReview, IInv, Shape, PendingMatches, ReviewAt, reviewTables,
                    reviewHistory, Writing,
                    DealExists, ReviewExists
<1>6. ReviewsMatchOrders'
  BY DEF UpdateReview, IInv, ReviewsMatchOrders, reviewTables, ReviewExists
<1>. QED
  BY <1>2, <1>3, <1>5, <1>6 DEF IInv

LEMMA RemoveReviewStep ==
  ASSUME IInv, NEW s \in ReviewSlots, NEW u \in Reviewers, NEW x \in Reviews, RemoveReview(s, u, x)
  PROVE  IInv'
<1> DEFINE next == [pc |-> "delete", review |-> x, user |-> review[x].reviewed]
<1>1. reviewing' = [reviewing EXCEPT ![s] = next]
  BY DEF RemoveReview, ReviewGoto
<1>2. HeldScoreFresh' /\ ScoreExplained'
  BY <1>1, ScoresKept DEF RemoveReview, Scoring, NotReviewing, reviewTables, reviewHistory,
                          IInv, Shape
<1>3. Shape'
  BY <1>1 DEF RemoveReview, IInv, Shape, ReviewAt, reviewTables, reviewHistory, Scoring, Writing
<1>4. review[x].reviewed \in Reviewers
  BY DEF RemoveReview, IInv, Shape, ReviewExists, ReviewRow
<1>5. PendingMatches'
  BY <1>1, <1>4 DEF RemoveReview, IInv, Shape, PendingMatches, ReviewAt, reviewTables,
                    reviewHistory, Writing,
                    DealExists, ReviewExists
<1>6. ReviewsMatchOrders'
  BY DEF RemoveReview, IInv, ReviewsMatchOrders, reviewTables, ReviewExists
<1>. QED
  BY <1>2, <1>3, <1>5, <1>6 DEF IInv

\* A request that ends without having written anything.
LEMMA RefusedStep ==
  ASSUME IInv, NEW s \in ReviewSlots, reviewing[s].pc \notin Scoring, ReviewDone(s),
         UNCHANGED <<reviewTables, reviewHistory>>
  PROVE  IInv'
<1>1. reviewing' = [reviewing EXCEPT ![s] = NotReviewing]
  BY DEF ReviewDone, ReviewGoto
<1>2. HeldScoreFresh' /\ ScoreExplained'
  BY <1>1, ScoresKept DEF Scoring, NotReviewing, reviewTables, reviewHistory, IInv, Shape
<1>3. Shape' /\ PendingMatches'
  BY <1>1 DEF IInv, Shape, PendingMatches, ReviewAt, NotReviewing, reviewTables, reviewHistory,
              Scoring, Writing,
              DealExists, ReviewExists
<1>4. ReviewsMatchOrders'
  BY DEF IInv, ReviewsMatchOrders, reviewTables, ReviewExists
<1>. QED
  BY <1>2, <1>3, <1>4 DEF IInv

\* A new row, with an id never used, about its reviewed user only; from then on
\* the request owes that user a score.
LEMMA InsertReviewStep ==
  ASSUME IInv, NEW s \in ReviewSlots, NEW x \in Reviews, InsertReview(s, x)
  PROVE  IInv'
<1> DEFINE row == reviewing[s].row
           v   == row.reviewed
<1>1. row \in ReviewRow /\ row.order \in Deals /\ v \in Reviewers
  BY DEF IInv, Shape, InsertReview, ReviewRow
<1>2. review[x] = NoRecord /\ review' = [review EXCEPT ![x] = row]
  BY DEF InsertReview, IInv, PendingMatches, ReviewExists
<1>3. reviewing' = [reviewing EXCEPT ![s] = [pc |-> "readReviews", user |-> v]]
  BY DEF InsertReview, ReviewGoto
<1>4. UNCHANGED <<deal, score, wrong>> /\ used' = used \cup {x}
  BY DEF InsertReview
<1>5. \A y \in Reviews : y # x => review'[y] = review[y]
  BY <1>2 DEF IInv, Shape
<1>6. review'[x] = row /\ row # NoRecord
  BY <1>1, <1>2 DEF IInv, Shape, ReviewRow
<1>7. \A u \in Reviewers \ {v} : calculateTrustScore(u)' = calculateTrustScore(u)
  BY <1>2, <1>5, <1>6, SameScore DEF IInv
<1>8. \A t \in ReviewSlots \ {s} : reviewing'[t] = reviewing[t]
  BY <1>3 DEF IInv, Shape
<1>8a. reviewing'[s] = [pc |-> "readReviews", user |-> v]
  BY <1>3 DEF IInv, Shape
<1>9. Shape'
  BY <1>1, <1>2, <1>3, <1>4 DEF IInv, Shape, ReviewAt, Scoring, Writing
<1>10. PendingMatches'
  <2>1. \A y \in Reviews : ReviewExists(y)' => y \in used'
    BY <1>4, <1>5 DEF IInv, PendingMatches, ReviewExists
  <2>2. \A t \in ReviewSlots \ {s} : reviewing[t].pc \in Writing =>
          reviewing[t].review # x
    BY DEF IInv, PendingMatches, InsertReview
  <2>. QED
    BY <2>1, <2>2, <1>4, <1>5, <1>8, <1>8a
    DEF IInv, Shape, PendingMatches, DealExists, ReviewExists, ReviewAt, Writing
<1>11. ReviewsMatchOrders'
  <2>1. DealExists(row.order)
        /\ \A y \in Reviews : ReviewExists(y) => review[y].order # row.order
    BY DEF InsertReview, Reviewed
  <2>2. {row.reviewer, v} = {deal[row.order].buyer, deal[row.order].seller}
    BY <2>1 DEF InsertReview, IInv, PendingMatches
  <2>. QED
    BY <2>1, <2>2, <1>4, <1>5, <1>6 DEF IInv, ReviewsMatchOrders, ReviewExists, DealExists
<1>12. HeldScoreFresh'
  BY <1>7, <1>8, <1>8a DEF IInv, Shape, HeldScoreFresh, ReviewAt, InsertReview, Overtake, Scoring
<1>13. ScoreExplained'
  <2>. SUFFICES ASSUME NEW u \in Reviewers
                PROVE  \/ score[u] = calculateTrustScore(u)'
                       \/ u \in wrong
                       \/ \E t \in ReviewSlots :
                            reviewing'[t].pc \in Scoring /\ reviewing'[t].user = u
    BY <1>4 DEF ScoreExplained, Scoring
  <2>1. CASE u = v
    BY <2>1, <1>8a DEF Scoring
  <2>2. CASE u # v
    BY <2>2, <1>7, <1>8 DEF IInv, ScoreExplained, Scoring, InsertReview, ReviewAt
  <2>. QED
    BY <2>1, <2>2
<1>. QED
  BY <1>9, <1>10, <1>11, <1>12, <1>13 DEF IInv
\* A row is changed or removed; it is about the user the request remembers, and
\* from then on the request owes that user a score.
LEMMA WriteReviewStep ==
  ASSUME IInv, NEW s \in ReviewSlots, WriteReview(s)
  PROVE  IInv'
<1> DEFINE x == reviewing[s].review
           v == reviewing[s].user
<1>1. /\ reviewing[s].pc \in Writing /\ x \in Reviews /\ v \in Reviewers /\ ReviewExists(x)
      /\ review[x] \in ReviewRow /\ review[x].reviewed = v
  BY DEF WriteReview, IInv, Shape, PendingMatches, ReviewExists, Writing
<1>2. reviewing' = [reviewing EXCEPT ![s] = [pc |-> "readReviews", user |-> v]]
  BY DEF WriteReview, ReviewGoto
<1>3. UNCHANGED <<deal, score, used, wrong>>
  BY DEF WriteReview
<1>4. \A y \in Reviews \ {x} : review'[y] = review[y]
  BY DEF WriteReview, IInv, Shape
<1>5. \/ review'[x] = NoRecord
      \/ /\ review'[x] \in ReviewRow
         /\ review'[x].order = review[x].order
         /\ review'[x].reviewer = review[x].reviewer
         /\ review'[x].reviewed = review[x].reviewed
  BY <1>1 DEF WriteReview, IInv, Shape, ReviewAt, ReviewRow, Writing
<1>6. review' \in [Reviews -> ReviewRow \cup {NoRecord}]
  <2>1. DOMAIN review' = Reviews /\ review' = [y \in Reviews |-> review'[y]]
    BY DEF WriteReview, IInv, Shape
  <2>. QED
    BY <2>1, <1>4, <1>5 DEF IInv, Shape
<1>7. \A u \in Reviewers \ {v} : calculateTrustScore(u)' = calculateTrustScore(u)
  BY <1>1, <1>4, <1>5, SameScore DEF IInv
<1>8. \A t \in ReviewSlots \ {s} : reviewing'[t] = reviewing[t]
  BY <1>2 DEF IInv, Shape
<1>9. reviewing'[s] = [pc |-> "readReviews", user |-> v]
  BY <1>2 DEF IInv, Shape
<1>10. Shape'
  BY <1>1, <1>2, <1>3, <1>6 DEF IInv, Shape, ReviewAt, Scoring, Writing
<1>11. PendingMatches'
  <2>1. \A y \in Reviews : ReviewExists(y)' =>
          /\ ReviewExists(y) /\ review'[y].reviewed = review[y].reviewed
    BY <1>1, <1>4, <1>5 DEF ReviewExists
  <2>. QED
    BY <2>1, <1>3, <1>8, <1>9
    DEF IInv, Shape, PendingMatches, DealExists, ReviewExists, ReviewAt, Writing
<1>12. ReviewsMatchOrders'
  <2>1. \A y \in Reviews : ReviewExists(y)' =>
          /\ ReviewExists(y) /\ review'[y].reviewed = review[y].reviewed
          /\ review'[y].order = review[y].order /\ review'[y].reviewer = review[y].reviewer
    BY <1>1, <1>4, <1>5 DEF ReviewExists
  <2>. QED
    BY <2>1, <1>3 DEF IInv, ReviewsMatchOrders, ReviewExists
<1>13. HeldScoreFresh'
  BY <1>7, <1>8, <1>9 DEF IInv, Shape, HeldScoreFresh, ReviewAt, WriteReview, Overtake, Scoring
<1>14. ScoreExplained'
  <2>. SUFFICES ASSUME NEW u \in Reviewers
                PROVE  \/ score[u] = calculateTrustScore(u)'
                       \/ u \in wrong
                       \/ \E t \in ReviewSlots :
                            reviewing'[t].pc \in Scoring /\ reviewing'[t].user = u
    BY <1>3 DEF ScoreExplained, Scoring
  <2>1. CASE u = v
    BY <2>1, <1>9 DEF Scoring
  <2>2. CASE u # v
    BY <2>2, <1>1, <1>7, <1>8 DEF IInv, ScoreExplained, Scoring, Writing
  <2>. QED
    BY <2>1, <2>2
<1>. QED
  BY <1>10, <1>11, <1>12, <1>13, <1>14 DEF IInv

\* A step that leaves the orders, the reviews and the ids alone, and after which
\* no request writes rows but those that did before.
LEMMA RowsKept ==
  ASSUME IInv, NEW s \in ReviewSlots, \A t \in ReviewSlots \ {s} : reviewing'[t] = reviewing[t],
         reviewing'[s].pc \notin Writing \cup {"insert"}, UNCHANGED <<deal, review, used>>
  PROVE  PendingMatches' /\ ReviewsMatchOrders'
<1>1. PendingMatches'
  BY DEF IInv, PendingMatches, ReviewAt, Writing, DealExists, ReviewExists
<1>2. ReviewsMatchOrders'
  BY DEF IInv, ReviewsMatchOrders, ReviewExists
<1>. QED
  BY <1>1, <1>2

\* The score computed is that of the reviews as they are.
LEMMA ReadReviewsStep ==
  ASSUME IInv, NEW s \in ReviewSlots, ReadReviews(s)
  PROVE  IInv'
<1> DEFINE v == reviewing[s].user
<1>1. v \in Reviewers /\ reviewing[s].pc = "readReviews"
  BY DEF ReadReviews, IInv, Shape, ReviewAt, Scoring
<1>2. reviewing' = [reviewing EXCEPT ![s] =
                   [pc |-> "writeScore", user |-> v, score |-> calculateTrustScore(v)]]
  BY DEF ReadReviews, ReviewGoto
<1>3. UNCHANGED <<deal, review, score, used, overtaken, wrong>>
  BY DEF ReadReviews, reviewTables, reviewHistory
<1>4. \A u \in Reviewers : calculateTrustScore(u)' = calculateTrustScore(u)
  BY <1>3, SameScore DEF IInv
<1>5. /\ \A t \in ReviewSlots \ {s} : reviewing'[t] = reviewing[t]
      /\ reviewing'[s] = [pc |-> "writeScore", user |-> v, score |-> calculateTrustScore(v)]
  BY <1>2 DEF IInv, Shape
<1>6. Shape'
  BY <1>1, <1>2, <1>3 DEF IInv, Shape, ReviewAt, Scoring, Writing
<1>7. PendingMatches' /\ ReviewsMatchOrders'
  BY <1>3, <1>5, RowsKept DEF Writing
<1>8. HeldScoreFresh'
  BY <1>1, <1>3, <1>4, <1>5 DEF IInv, Shape, HeldScoreFresh, ReviewAt, Scoring
<1>9. ScoreExplained'
  BY <1>1, <1>3, <1>4, <1>5 DEF IInv, ScoreExplained
<1>. QED
  BY <1>6, <1>7, <1>8, <1>9 DEF IInv

\* The score stored is right, or overtaken and counted as wrong.
LEMMA WriteScoreStep ==
  ASSUME IInv, NEW s \in ReviewSlots, WriteScore(s)
  PROVE  IInv'
<1> DEFINE v == reviewing[s].user
<1>1. v \in Reviewers /\ reviewing[s].pc = "writeScore"
  BY DEF WriteScore, IInv, Shape, ReviewAt, Scoring
<1>2. reviewing' = [reviewing EXCEPT ![s] = NotReviewing]
  BY DEF WriteScore, ReviewDone, ReviewGoto
<1>3. UNCHANGED <<deal, review, used>>
  BY DEF WriteScore
<1>4. \A u \in Reviewers : calculateTrustScore(u)' = calculateTrustScore(u)
  BY <1>3, SameScore DEF IInv
<1>5. (\A t \in ReviewSlots \ {s} : reviewing'[t] = reviewing[t]) /\ reviewing'[s] = NotReviewing
  BY <1>2 DEF IInv, Shape
<1>6. Shape'
  BY <1>2, <1>3 DEF IInv, Shape, ReviewAt, Scoring, Writing, NotReviewing, WriteScore
<1>7. PendingMatches' /\ ReviewsMatchOrders'
  BY <1>3, <1>5, RowsKept DEF Writing, NotReviewing
<1>8. HeldScoreFresh'
  BY <1>4, <1>5 DEF IInv, Shape, HeldScoreFresh, ReviewAt, Scoring, NotReviewing, WriteScore
<1>9. ScoreExplained'
  <2>. SUFFICES ASSUME NEW u \in Reviewers
                PROVE  \/ score'[u] = calculateTrustScore(u)
                       \/ u \in wrong'
                       \/ \E t \in ReviewSlots :
                            reviewing'[t].pc \in Scoring /\ reviewing'[t].user = u
    BY <1>4 DEF ScoreExplained, Scoring
  <2>1. CASE u = v
    <3>1. score'[v] = reviewing[s].score
      BY <1>1 DEF WriteScore, IInv, Shape
    <3>2. s \notin overtaken => reviewing[s].score = calculateTrustScore(v)
      BY <1>1 DEF IInv, HeldScoreFresh, ReviewAt
    <3>3. s \in overtaken => v \in wrong'
      BY DEF WriteScore
    <3>. QED
      BY <2>1, <3>1, <3>2, <3>3
  <2>2. CASE u # v
    <3>1. score'[u] = score[u] /\ (u \in wrong => u \in wrong')
      BY <2>2 DEF WriteScore, IInv, Shape
    <3>. QED
      BY <2>2, <3>1, <1>5 DEF IInv, ScoreExplained, Scoring
  <2>. QED
    BY <2>1, <2>2
<1>. QED
  BY <1>6, <1>7, <1>8, <1>9 DEF IInv

LEMMA DealMovesStep ==
  ASSUME IInv, NEW o \in Deals, DealMoves(o)
  PROVE  IInv'
<1>1. /\ deal' \in [Deals -> DealRow \cup {NoRecord}]
      /\ \A d \in Deals :
           /\ deal'[d] = NoRecord <=> deal[d] = NoRecord
           /\ deal[d] # NoRecord => /\ deal'[d].buyer = deal[d].buyer
                                    /\ deal'[d].seller = deal[d].seller
  <2> DEFINE moved == [deal[o] EXCEPT !.completed = ~deal[o].completed]
  <2>1. deal[o] \in DealRow
    BY DEF DealMoves, IInv, Shape, DealExists
  <2>2. moved.buyer = deal[o].buyer /\ moved.seller = deal[o].seller /\ moved \in DealRow
    BY <2>1 DEF DealRow
  <2>3. deal' = [deal EXCEPT ![o] = moved]
    BY DEF DealMoves
  <2>4. NoRecord \notin DealRow
    BY DEF DealRow
  <2> HIDE DEF moved
  <2>. QED
    BY <2>1, <2>2, <2>3, <2>4 DEF IInv, Shape
<1>2. UNCHANGED <<review, score, reviewing, used, overtaken, wrong>>
  BY DEF DealMoves, reviewHistory
<1>3. \A u \in Reviewers : calculateTrustScore(u)' = calculateTrustScore(u)
  BY <1>2, SameScore DEF IInv
<1>4. Shape'
  BY <1>1, <1>2 DEF IInv, Shape, ReviewAt
<1>5. PendingMatches'
  BY <1>1, <1>2 DEF IInv, Shape, PendingMatches, ReviewAt, DealExists, ReviewExists, ReviewRow
<1>6. ReviewsMatchOrders'
  <2> SUFFICES ASSUME NEW x \in Reviews, ReviewExists(x)
               PROVE  LET d == deal'[review[x].order] IN
                        /\ d # NoRecord
                        /\ {review[x].reviewer, review[x].reviewed} = {d.buyer, d.seller}
                        /\ \A y \in Reviews \ {x} :
                             ReviewExists(y) => review[y].order # review[x].order
    BY <1>2 DEF ReviewsMatchOrders, ReviewExists
  <2> DEFINE o2 == review[x].order
  <2>1. o2 \in Deals
    BY DEF IInv, Shape, ReviewExists, ReviewRow
  <2>2. /\ deal[o2] # NoRecord
        /\ {review[x].reviewer, review[x].reviewed} = {deal[o2].buyer, deal[o2].seller}
        /\ \A y \in Reviews \ {x} : ReviewExists(y) => review[y].order # o2
    BY DEF IInv, ReviewsMatchOrders
  <2>. QED
    BY <1>1, <2>1, <2>2
<1>7. HeldScoreFresh'
  BY <1>2, <1>3 DEF IInv, Shape, HeldScoreFresh, ReviewAt, Scoring
<1>8. ScoreExplained'
  BY <1>2, <1>3 DEF IInv, ScoreExplained
<1>. QED
  BY <1>4, <1>5, <1>6, <1>7, <1>8 DEF IInv

\* The user whose review goes with its order is counted as wrong.
LEMMA DeleteDealStep ==
  ASSUME IInv, NEW o \in Deals, DeleteDeal(o)
  PROVE  IInv'
<1> DEFINE gone == {x \in Reviews : ReviewExists(x) /\ review[x].order = o}
           hit  == {review[x].reviewed : x \in gone}
<1>1. /\ UNCHANGED <<score, reviewing, used>>
      /\ wrong' = wrong \cup hit
      /\ overtaken' = overtaken \cup
           {s \in ReviewSlots : ReviewAt(s, "writeScore") /\ reviewing[s].user \in hit}
      /\ deal' = [deal EXCEPT ![o] = NoRecord]
      /\ review' = [x \in Reviews |-> IF x \in gone THEN NoRecord ELSE review[x]]
  BY DEF DeleteDeal
<1>2. \A x \in Reviews : review'[x] = IF x \in gone THEN NoRecord ELSE review[x]
  BY <1>1
<1>3. \A u \in Reviewers \ hit : calculateTrustScore(u)' = calculateTrustScore(u)
  BY <1>2, SameScore DEF IInv
<1>4. Shape'
  BY <1>1 DEF IInv, Shape, ReviewAt
<1>5. \A d \in Deals : deal'[d] = IF d = o THEN NoRecord ELSE deal[d]
  BY <1>1 DEF IInv, Shape
<1>6. PendingMatches'
  BY <1>1, <1>2, <1>5 DEF IInv, Shape, PendingMatches, ReviewAt, DealExists, ReviewExists, ReviewRow
<1>7. ReviewsMatchOrders'
  BY <1>2, <1>5 DEF IInv, Shape, ReviewsMatchOrders, ReviewExists, ReviewRow
<1>8. HeldScoreFresh'
  BY <1>1, <1>3 DEF IInv, Shape, HeldScoreFresh, ReviewAt, Scoring
<1>9. ScoreExplained'
  BY <1>1, <1>3 DEF IInv, ScoreExplained
<1>. QED
  BY <1>4, <1>6, <1>7, <1>8, <1>9 DEF IInv

\* A request that dies owing a score leaves its user counted as wrong.
LEMMA FailStep ==
  ASSUME IInv, NEW s \in ReviewSlots, FailReview(s)
  PROVE  IInv'
<1>1. reviewing' = [reviewing EXCEPT ![s] = NotReviewing]
  BY DEF FailReview, ReviewDone, ReviewGoto
<1>2. UNCHANGED <<deal, review, score, used>>
  BY DEF FailReview, reviewTables
<1>3. \A u \in Reviewers : calculateTrustScore(u)' = calculateTrustScore(u)
  BY <1>2, SameScore DEF IInv
<1>4. (\A t \in ReviewSlots \ {s} : reviewing'[t] = reviewing[t]) /\ reviewing'[s] = NotReviewing
  BY <1>1 DEF IInv, Shape
<1>5. Shape'
  BY <1>1, <1>2 DEF IInv, Shape, ReviewAt, Scoring, Writing, NotReviewing
<1>6. PendingMatches' /\ ReviewsMatchOrders'
  BY <1>2, <1>4, RowsKept DEF Writing, NotReviewing
<1>7. HeldScoreFresh'
  BY <1>3, <1>4 DEF IInv, Shape, HeldScoreFresh, ReviewAt, Scoring, NotReviewing, FailReview
<1>8. ScoreExplained'
  BY <1>2, <1>3, <1>4 DEF IInv, ScoreExplained, FailReview
<1>. QED
  BY <1>5, <1>6, <1>7, <1>8 DEF IInv

LEMMA StutterStep ==
  ASSUME IInv, UNCHANGED trustVars
  PROVE  IInv'
<1>1. UNCHANGED <<deal, review, score, reviewing, used, overtaken, wrong>>
  BY DEF trustVars
<1>2. \A u \in Reviewers : calculateTrustScore(u)' = calculateTrustScore(u)
  BY <1>1, SameScore DEF IInv
<1>3. Shape'
  BY <1>1 DEF IInv, Shape, ReviewAt
<1>4. PendingMatches' /\ ReviewsMatchOrders'
  BY <1>1 DEF IInv, PendingMatches, ReviewsMatchOrders, ReviewAt, DealExists, ReviewExists
<1>5. HeldScoreFresh'
  BY <1>1, <1>2 DEF IInv, Shape, HeldScoreFresh, ReviewAt, Scoring
<1>6. ScoreExplained'
  BY <1>1, <1>2 DEF IInv, ScoreExplained
<1>. QED
  BY <1>3, <1>4, <1>5, <1>6 DEF IInv

LEMMA NextIInv ==
  ASSUME IInv, [TrustNext]_trustVars
  PROVE  IInv'
<1>1. ASSUME NEW s \in ReviewSlots, ReviewRequest(s)
      PROVE  IInv'
  <2>1. CASE \E u \in Reviewers, o \in Deals, n \in Ratings : CreateReview(s, u, o, n)
    BY <2>1, CreateReviewStep
  <2>2. CASE \E u \in Reviewers, x \in Reviews, n \in Ratings : UpdateReview(s, u, x, n)
    BY <2>2, UpdateReviewStep
  <2>3. CASE \E u \in Reviewers, x \in Reviews : RemoveReview(s, u, x)
    BY <2>3, RemoveReviewStep
  <2>4. CASE \E x \in Reviews : InsertReview(s, x)
    BY <2>4, InsertReviewStep
  <2>5. CASE InsertRefused(s) \/ ReviewGone(s)
    BY <2>5, RefusedStep DEF InsertRefused, ReviewGone, ReviewAt, Scoring
  <2>6. CASE WriteReview(s)
    BY <2>6, WriteReviewStep
  <2>7. CASE ReadReviews(s)
    BY <2>7, ReadReviewsStep
  <2>8. CASE WriteScore(s)
    BY <2>8, WriteScoreStep
  <2>. QED
    BY <1>1, <2>1, <2>2, <2>3, <2>4, <2>5, <2>6, <2>7, <2>8 DEF ReviewRequest
<1>2. CASE \E s \in ReviewSlots : FailReview(s)
  BY <1>2, FailStep
<1>3. CASE \E o \in Deals : DealMoves(o) \/ DeleteDeal(o)
  BY <1>3, DealMovesStep, DeleteDealStep
<1>4. CASE UNCHANGED trustVars
  BY <1>4, StutterStep
<1>. QED
  BY <1>1, <1>2, <1>3, <1>4 DEF TrustNext

-----------------------------------------------------------------------------
\* The inductive invariant holds of every behaviour.
THEOREM Invariance == TrustSpec => []IInv
<1>1. TrustInit => IInv
  BY InitIInv
<1>2. IInv /\ [TrustNext]_trustVars => IInv'
  BY NextIInv
<1>. QED
  BY <1>1, <1>2, PTL DEF TrustSpec

\* However the requests interleave, a review fits its order and is its only one.
THEOREM ReviewsCorrect == TrustSpec => []ReviewsMatchOrders
<1>1. IInv => ReviewsMatchOrders
  BY DEF IInv
<1>. QED
  BY <1>1, Invariance, PTL

\* A stored score that is not that of the reviews has one of the causes named.
THEOREM ScoresExplained == TrustSpec => []ScoreExplained
<1>1. IInv => ScoreExplained
  BY DEF IInv
<1>. QED
  BY <1>1, Invariance, PTL

\* A score that waits to be stored and was not overtaken is right.
THEOREM HeldScoresFresh == TrustSpec => []HeldScoreFresh
<1>1. IInv => HeldScoreFresh
  BY DEF IInv
<1>. QED
  BY <1>1, Invariance, PTL

-----------------------------------------------------------------------------
(***************************************************************************)
(* The range of the scores                                                 *)
(***************************************************************************)
\* A quotient of at most n is not rounded above n.
LEMMA RoundedRange ==
  ASSUME NEW n \in Nat, NEW b \in Nat \ {0}, NEW a \in Nat, a <= n * b
  PROVE  Rounded(a, b) \in 0..n
<1>1. PICK d \in Nat \ {0} : d = 2 * b
  OBVIOUS
<1>2. PICK c \in Nat : c = 2 * a + b
  OBVIOUS
<1>3. c \div d \in Nat /\ d * (c \div d) <= c
  BY <1>1, <1>2
<1>4. PICK q \in Nat : q = c \div d
  BY <1>3
<1>5. q <= n
  <2> SUFFICES ASSUME n + 1 <= q PROVE FALSE
    OBVIOUS
  <2>1. d * (n + 1) <= d * q
    OBVIOUS
  <2>2. PICK m \in Nat : m = n * b
    OBVIOUS
  <2>3. d * (n + 1) = 2 * m + 2 * b
    BY <1>1, <2>2
  <2>4. PICK k \in Nat : k = d * q
    OBVIOUS
  <2>5. k <= c
    BY <1>3, <1>4, <2>4
  <2> QED
    BY <1>2, <2>1, <2>2, <2>3, <2>4, <2>5
<1>. QED
  BY <1>1, <1>2, <1>4, <1>5 DEF Rounded

\* Each review has five points to give.
LEMMA FivePointsEach ==
  ASSUME NEW D, IsFiniteSet(D)
  PROVE  IsFiniteSet(D \X (1..5)) /\ Cardinality(D \X (1..5)) = 5 * Cardinality(D)
<1>1. Cardinality(D) \in Nat
  BY FS_CardinalityType
<1>2. 1 \in Int /\ 5 \in Int
  OBVIOUS
<1>3. IsFiniteSet(1..5) /\ Cardinality(1..5) = IF 1 > 5 THEN 0 ELSE 5 - 1 + 1
  BY <1>2, FS_Interval, Zenon
<1>4. Cardinality(1..5) = 5
  BY <1>3
<1>5. IsFiniteSet(D \X (1..5)) /\ Cardinality(D \X (1..5)) = Cardinality(D) * Cardinality(1..5)
  BY <1>3, FS_Product
<1>. QED
  BY <1>1, <1>4, <1>5

\* No rating adds more than five.
LEMMA TotalRange ==
  ASSUME NEW D, IsFiniteSet(D), NEW given, DOMAIN given = D
  PROVE  /\ Cardinality(D) \in Nat
         /\ Total(given) \in Nat
         /\ Total(given) <= 5 * Cardinality(D)
<1>1. Cardinality(D) \in Nat
  BY FS_CardinalityType
<1>2. PICK points : points = {p \in D \X (1..5) : p[2] <= given[p[1]]}
  OBVIOUS
<1>3. Total(given) = Cardinality(points)
  BY <1>2 DEF Total
<1>4. points \subseteq D \X (1..5)
  BY <1>2
<1>5. IsFiniteSet(points) /\ Cardinality(points) <= 5 * Cardinality(D)
  <2>1. PICK all : all = D \X (1..5)
    OBVIOUS
  <2>2. IsFiniteSet(all) /\ Cardinality(all) = 5 * Cardinality(D)
    BY <2>1, FivePointsEach, Zenon
  <2>3. points \subseteq all
    BY <1>4, <2>1
  <2>4. IsFiniteSet(points) /\ Cardinality(points) <= Cardinality(all)
    BY <2>2, <2>3, FS_Subset
  <2>. QED
    BY <2>2, <2>4
<1>6. Cardinality(points) \in Nat
  BY <1>5, FS_CardinalityType
<1>. QED
  BY <1>1, <1>3, <1>5, <1>6

\* A score lies between 0 and 100, and a rating between 0 and 5.
LEMMA ScoreRange ==
  ASSUME NEW D, IsFiniteSet(D), NEW given \in [D -> 1..5]
  PROVE  ScoreOf(given) \in ScoreRow
<1>1. PICK n \in Nat : n = Cardinality(D)
  BY FS_CardinalityType
<1>3. DOMAIN given = D
  OBVIOUS
<1>2. PICK t \in Nat : t = Total(given) /\ t <= 5 * n
  BY <1>1, <1>3, TotalRange
<1>4. CASE n = 0
  BY <1>1, <1>3, <1>4 DEF ScoreOf, ScoreRow
<1>5. CASE n # 0
  <2>1. PICK l \in 0..50 : l = Lesser(n, 50)
    BY DEF Lesser
  <2>2. PICK m \in Nat : m = l * n /\ m <= 50 * n
    <3>1. l * n \in Nat /\ l * n <= 50 * n
      OBVIOUS
    <3> QED
      BY <3>1
  <2>3. 4 * l * n = 4 * m
    BY <2>2
  <2>4. PICK x \in Nat : x = 160 * t + 4 * l * n /\ x <= 1000 * n
    BY <1>2, <2>2, <2>3
  <2>10. n \in Nat \ {0}
    BY <1>5
  <2>11. PICK k \in Nat : k = 1000
    OBVIOUS
  <2>12. x <= k * n
    BY <2>4, <2>11
  <2>13. Rounded(x, n) \in 0..k
    BY <2>10, <2>12, RoundedRange
  <2>9. Rounded(x, n) \in 0..1000
    BY <2>11, <2>13
  <2>6. 10 * t \in Nat /\ 10 * t <= 50 * n
    BY <1>2
  <2>7. Rounded(10 * t, n) \in 0..50
    BY <1>5, <2>6, RoundedRange
  <2>8. ScoreOf(given) = [trustScore |-> Rounded(160 * t + 4 * l * n, n),
                          rating |-> Rounded(10 * t, n), ratingCount |-> n]
    BY <1>1, <1>2, <1>3, <1>5, <2>1 DEF ScoreOf
  <2>. QED
    BY <2>4, <2>7, <2>8, <2>9 DEF ScoreRow
<1>. QED
  BY <1>4, <1>5

LEMMA ScoresInRange ==
  ASSUME IsFiniteSet(Reviews), TrustTypeOK, NEW u \in Reviewers
  PROVE  calculateTrustScore(u) \in ScoreRow
<1>1. IsFiniteSet(Received(u))
  BY FS_Subset DEF Received
<1>2. RatingsOf(u) \in [Received(u) -> 1..5]
  BY DEF RatingsOf, Received, TrustTypeOK, ReviewRow
<1>. QED
  BY <1>1, <1>2, ScoreRange DEF calculateTrustScore

-----------------------------------------------------------------------------
(***************************************************************************)
(* Types                                                                   *)
(***************************************************************************)
LEMMA RequestFields ==
  ASSUME NEW r \in Reviewing
  PROVE  /\ r.pc = "insert" => r.row \in ReviewRow
         /\ r.pc \in Writing => r.review \in Reviews /\ r.user \in Reviewers
         /\ r.pc = "update" => r.rating \in 1..5
         /\ r.pc \in Scoring => r.user \in Reviewers
         /\ r.pc = "writeScore" => r.score \in ScoreRow
BY DEF Reviewing, NotReviewing, Writing, Scoring

\* A request goes on, and the tables keep their types.
LEMMA TypesKept ==
  ASSUME TrustTypeOK, NEW s \in ReviewSlots, NEW next \in Reviewing, ReviewGoto(s, next),
         deal' \in [Deals -> DealRow \cup {NoRecord}],
         review' \in [Reviews -> ReviewRow \cup {NoRecord}],
         score' \in [Reviewers -> ScoreRow],
         used' \subseteq Reviews, overtaken' \subseteq ReviewSlots, wrong' \subseteq Reviewers
  PROVE  TrustTypeOK'
BY DEF TrustTypeOK, ReviewGoto

LEMMA IdleIsRequest == NotReviewing \in Reviewing
BY DEF Reviewing

\* The read of a request that is admitted, and the end of one, leave the tables.
LEMMA TablesRest ==
  ASSUME TrustTypeOK, NEW s \in ReviewSlots, NEW next \in Reviewing, ReviewGoto(s, next),
         UNCHANGED <<reviewTables, reviewHistory>>
  PROVE  TrustTypeOK'
<1>1. UNCHANGED <<deal, review, score, used, overtaken, wrong>>
  BY DEF reviewTables, reviewHistory
<1>. QED
  BY <1>1, TypesKept DEF TrustTypeOK

LEMMA TypeOfRequest ==
  ASSUME IsFiniteSet(Reviews), TrustTypeOK, NEW s \in ReviewSlots, ReviewRequest(s)
  PROVE  TrustTypeOK'
<1>1. reviewing[s] \in Reviewing
  BY DEF TrustTypeOK
<1>2. ASSUME NEW u \in Reviewers, NEW o \in Deals, NEW n \in Ratings, CreateReview(s, u, o, n)
      PROVE  TrustTypeOK'
  <2>1. PICK row : row = [order |-> o, reviewer |-> u, rating |-> n,
                          reviewed |-> IF u = deal[o].buyer THEN deal[o].seller
                                                             ELSE deal[o].buyer]
    OBVIOUS
  <2>2. deal[o] \in DealRow
    BY <1>2 DEF CreateReview, DealExists, TrustTypeOK
  <2>3. row \in ReviewRow
    BY <2>1, <2>2 DEF ReviewRow, DealRow
  <2>4. PICK next : next = [pc |-> "insert", row |-> row]
    OBVIOUS
  <2>5. next \in Reviewing
    BY <2>3, <2>4 DEF Reviewing
  <2>6. ReviewGoto(s, next)
    BY <1>2, <2>1, <2>4 DEF CreateReview
  <2>. QED
    BY <1>2, <2>5, <2>6, TablesRest DEF CreateReview
<1>3. ASSUME NEW u \in Reviewers, NEW x \in Reviews, NEW n \in Ratings, UpdateReview(s, u, x, n)
      PROVE  TrustTypeOK'
  <2>1. review[x].reviewed \in Reviewers /\ n \in 1..5
    BY <1>3 DEF UpdateReview, ReviewExists, TrustTypeOK, ReviewRow
  <2>2. PICK next : next = [pc |-> "update", review |-> x, rating |-> n, user |-> review[x].reviewed]
    OBVIOUS
  <2>3. next \in Reviewing
    BY <2>1, <2>2 DEF Reviewing
  <2>. QED
    BY <1>3, <2>2, <2>3, TablesRest DEF UpdateReview
<1>4. ASSUME NEW u \in Reviewers, NEW x \in Reviews, RemoveReview(s, u, x)
      PROVE  TrustTypeOK'
  <2>1. review[x].reviewed \in Reviewers
    BY <1>4 DEF RemoveReview, ReviewExists, TrustTypeOK, ReviewRow
  <2>2. PICK next : next = [pc |-> "delete", review |-> x, user |-> review[x].reviewed]
    OBVIOUS
  <2>3. next \in Reviewing
    BY <2>1, <2>2 DEF Reviewing
  <2>. QED
    BY <1>4, <2>2, <2>3, TablesRest DEF RemoveReview
<1>5. ASSUME NEW x \in Reviews, InsertReview(s, x)
      PROVE  TrustTypeOK'
  <2>1. reviewing[s].row \in ReviewRow
    BY <1>1, <1>5, RequestFields DEF InsertReview, ReviewAt
  <2>2. PICK next : next = [pc |-> "readReviews", user |-> reviewing[s].row.reviewed]
    OBVIOUS
  <2>3. next \in Reviewing
    BY <2>1, <2>2 DEF Reviewing, ReviewRow
  <2>4. review' \in [Reviews -> ReviewRow \cup {NoRecord}]
    BY <1>5, <2>1 DEF InsertReview, TrustTypeOK
  <2>5. overtaken' \subseteq ReviewSlots
    BY <1>5 DEF InsertReview, Overtake, TrustTypeOK
  <2>6. ReviewGoto(s, next) /\ used' = used \cup {x} /\ UNCHANGED <<deal, score, wrong>>
    BY <1>5, <2>2 DEF InsertReview
  <2>. QED
    BY <2>3, <2>4, <2>5, <2>6, TypesKept DEF TrustTypeOK
<1>6. CASE InsertRefused(s) \/ ReviewGone(s)
  BY <1>6, IdleIsRequest, TablesRest DEF InsertRefused, ReviewGone, ReviewDone
<1>7. CASE WriteReview(s)
  <2>1. reviewing[s].review \in Reviews /\ reviewing[s].user \in Reviewers
        /\ (~ReviewAt(s, "delete") => reviewing[s].rating \in 1..5)
    BY <1>1, <1>7, RequestFields DEF WriteReview, Writing, ReviewAt
  <2>2. PICK next : next = [pc |-> "readReviews", user |-> reviewing[s].user]
    OBVIOUS
  <2>3. next \in Reviewing
    BY <2>1, <2>2 DEF Reviewing
  <2>4. PICK x \in Reviews : x = reviewing[s].review
    BY <2>1
  <2>5. PICK row : row = IF ReviewAt(s, "delete") THEN NoRecord
                                            ELSE [review[x] EXCEPT !.rating = reviewing[s].rating]
    OBVIOUS
  <2>6. row \in ReviewRow \cup {NoRecord}
    BY <1>7, <2>1, <2>4, <2>5 DEF WriteReview, ReviewExists, TrustTypeOK, ReviewRow
  <2>7. review' = [review EXCEPT ![x] = row]
    BY <1>7, <2>4, <2>5 DEF WriteReview, TrustTypeOK
  <2>8. review' \in [Reviews -> ReviewRow \cup {NoRecord}]
    BY <2>6, <2>7 DEF TrustTypeOK
  <2>9. overtaken' \subseteq ReviewSlots
    BY <1>7 DEF WriteReview, Overtake, TrustTypeOK
  <2>10. ReviewGoto(s, next) /\ UNCHANGED <<deal, score, used, wrong>>
    BY <1>7, <2>2 DEF WriteReview
  <2>. QED
    BY <2>3, <2>8, <2>9, <2>10, TypesKept DEF TrustTypeOK
<1>8. CASE ReadReviews(s)
  <2>1. reviewing[s].user \in Reviewers
    BY <1>1, <1>8, RequestFields DEF ReadReviews, Scoring, ReviewAt
  <2>2. calculateTrustScore(reviewing[s].user) \in ScoreRow
    BY <2>1, ScoresInRange
  <2>3. PICK next : next = [pc |-> "writeScore", user |-> reviewing[s].user,
                            score |-> calculateTrustScore(reviewing[s].user)]
    OBVIOUS
  <2>4. next \in Reviewing
    BY <2>1, <2>2, <2>3 DEF Reviewing
  <2>. QED
    BY <1>8, <2>3, <2>4, TablesRest DEF ReadReviews
<1>9. CASE WriteScore(s)
  <2>1. reviewing[s].user \in Reviewers /\ reviewing[s].score \in ScoreRow
    BY <1>1, <1>9, RequestFields DEF WriteScore, Scoring, ReviewAt
  <2>2. score' \in [Reviewers -> ScoreRow]
    BY <1>9, <2>1 DEF WriteScore, TrustTypeOK
  <2>3. overtaken' \subseteq ReviewSlots /\ wrong' \subseteq Reviewers
    BY <1>9, <2>1 DEF WriteScore, TrustTypeOK
  <2>4. ReviewGoto(s, NotReviewing) /\ UNCHANGED <<deal, review, used>>
    BY <1>9 DEF WriteScore, ReviewDone
  <2>. QED
    BY <2>2, <2>3, <2>4, IdleIsRequest, TypesKept DEF TrustTypeOK
<1>. QED
  BY <1>2, <1>3, <1>4, <1>5, <1>6, <1>7, <1>8, <1>9 DEF ReviewRequest

LEMMA TypeOfFailure ==
  ASSUME TrustTypeOK, NEW s \in ReviewSlots, FailReview(s)
  PROVE  TrustTypeOK'
<1>1. reviewing[s].pc \in Scoring => reviewing[s].user \in Reviewers
  BY RequestFields DEF TrustTypeOK
<1>2. wrong' \subseteq Reviewers /\ overtaken' \subseteq ReviewSlots
  BY <1>1 DEF FailReview, Scoring, TrustTypeOK
<1>3. ReviewGoto(s, NotReviewing) /\ UNCHANGED <<deal, review, score, used>>
  BY DEF FailReview, ReviewDone, reviewTables
<1>. QED
  BY <1>2, <1>3, IdleIsRequest, TypesKept DEF TrustTypeOK

LEMMA TypeOfDeals ==
  ASSUME TrustTypeOK, NEW o \in Deals, DealMoves(o) \/ DeleteDeal(o)
  PROVE  TrustTypeOK'
<1>1. CASE DealMoves(o)
  <2>1. deal[o] \in DealRow
    BY <1>1 DEF DealMoves, DealExists, TrustTypeOK
  <2>2. PICK row : row = [deal[o] EXCEPT !.completed = ~deal[o].completed]
    OBVIOUS
  <2>3. row \in DealRow
    BY <2>1, <2>2 DEF DealRow
  <2>4. deal' = [deal EXCEPT ![o] = row]
    BY <1>1, <2>2 DEF DealMoves, TrustTypeOK
  <2>5. UNCHANGED <<review, score, reviewing, used, overtaken, wrong>>
    BY <1>1 DEF DealMoves, reviewHistory
  <2>. QED
    BY <2>3, <2>4, <2>5 DEF TrustTypeOK
<1>2. CASE DeleteDeal(o)
  <2>1. PICK gone \in SUBSET Reviews :
          /\ \A x \in gone : ReviewExists(x)
          /\ review' = [x \in Reviews |-> IF x \in gone THEN NoRecord ELSE review[x]]
          /\ wrong' = wrong \cup {review[x].reviewed : x \in gone}
          /\ overtaken' \subseteq overtaken \cup ReviewSlots
    BY <1>2 DEF DeleteDeal
  <2>2. {review[x].reviewed : x \in gone} \subseteq Reviewers
    BY <2>1 DEF ReviewExists, TrustTypeOK, ReviewRow
  <2>3. deal' = [deal EXCEPT ![o] = NoRecord] /\ UNCHANGED <<score, reviewing, used>>
    BY <1>2 DEF DeleteDeal
  <2>. QED
    BY <2>1, <2>2, <2>3 DEF TrustTypeOK
<1>. QED
  BY <1>1, <1>2

\* Every variable keeps its type, and with it every score that is stored or about to
\* be stored lies between 0 and 100, and every average between 0 and 5, however
\* many reviews a user is given (calculateTrustScore).
THEOREM TypeCorrect == ASSUME IsFiniteSet(Reviews) PROVE TrustSpec => []TrustTypeOK
<1>1. TrustInit => TrustTypeOK
  BY IdleIsRequest DEF TrustInit, TrustTypeOK, ScoreRow, DealRow
<1>2. TrustTypeOK /\ [TrustNext]_trustVars => TrustTypeOK'
  <2>. SUFFICES ASSUME TrustTypeOK, [TrustNext]_trustVars PROVE TrustTypeOK'
    OBVIOUS
  <2>1. CASE UNCHANGED trustVars
    BY <2>1 DEF trustVars, TrustTypeOK
  <2>. QED
    BY <2>1, TypeOfRequest, TypeOfFailure, TypeOfDeals DEF TrustNext
<1>. QED
  BY <1>1, <1>2, PTL DEF TrustSpec
=============================================================================
