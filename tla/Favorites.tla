------------------------------- MODULE Favorites -------------------------------
(***************************************************************************)
(* Favorites and the counting of views: FavoritesService over              *)
(* FavoritesRepository and ProductsService.findById.                       *)
(*                                                                         *)
(* addFavorite reads the product, asks whether the pair is there, inserts  *)
(* it and then emits 'product.liked'.  Reading a product starts an UPDATE  *)
(* of its view count that nobody waits for.  Each query is a step.         *)
(***************************************************************************)
EXTENDS Integers, FiniteSets

CONSTANTS
  Fans,        \* users
  Wares,       \* products
  Maker,       \* product -> its seller
  WishSlots,   \* bound: how many requests overlap
  MaxWishes    \* bound: requests ever made

ASSUME FavoritesAssumption == Maker \in [Wares -> Fans] /\ MaxWishes \in Nat

VARIABLES
  favorite,   \* table favorites, unique in its pairs
  viewCount,  \* products.viewCount
  wish,       \* slot -> what is left of the request in it
  counting,   \* UPDATEs of a view count that are under way: product -> how many
  \* History; wishes bounds the model as well:
  wishes,     \* requests made
  looked,     \* times findById has found the product
  uncounted,  \* UPDATEs of a view count that failed
  likes       \* pair -> [inserted, removed, emitted, lost]

favVars == <<favorite, viewCount, wish, counting, wishes, looked, uncounted, likes>>
-----------------------------------------------------------------------------
Pairs   == Fans \X Wares
NoWish  == [pc |-> "none"]
Wish    == {NoWish} \cup [pc : {"exist", "create", "emit"}, pair : Pairs]
Small   == 0..MaxWishes

\* Types of every variable.
FavoritesTypeOK ==
  /\ favorite \subseteq Pairs /\ viewCount \in [Wares -> Nat]
  /\ wish \in [WishSlots -> Wish] /\ counting \in [Wares -> Nat]
  /\ wishes \in Small /\ looked \in [Wares -> Nat] /\ uncounted \in [Wares -> Nat]
  /\ likes \in [Pairs -> [inserted : Small, removed : Small, emitted : Small, lost : Small]]

FavInit ==
  /\ favorite = {} /\ viewCount = [p \in Wares |-> 0]
  /\ wish = [s \in WishSlots |-> NoWish] /\ counting = [p \in Wares |-> 0]
  /\ wishes = 0 /\ looked = [p \in Wares |-> 0] /\ uncounted = [p \in Wares |-> 0]
  /\ likes = [x \in Pairs |-> [inserted |-> 0, removed |-> 0, emitted |-> 0, lost |-> 0]]

Wishing(s, pc) == wish[s].pc = pc
Onward(s, pc)  == wish' = [wish EXCEPT ![s].pc = pc]
Over(s)        == wish' = [wish EXCEPT ![s] = NoWish]
Pair(s)        == wish[s].pair
Made           == wishes < MaxWishes /\ wishes' = wishes + 1
-----------------------------------------------------------------------------
\* findById: the product is read and its view will be counted.
findById(p) ==
  /\ looked' = [looked EXCEPT ![p] = @ + 1]
  /\ counting' = [counting EXCEPT ![p] = @ + 1]

\* GET /products/:id.
ViewProduct(p) ==
  /\ Made /\ findById(p)
  /\ UNCHANGED <<favorite, viewCount, wish, uncounted, likes>>

\* incrementViewCount: the database adds one ...
CountView(p) ==
  /\ counting[p] > 0
  /\ counting' = [counting EXCEPT ![p] = @ - 1]
  /\ viewCount' = [viewCount EXCEPT ![p] = @ + 1]
  /\ UNCHANGED <<favorite, wish, wishes, looked, uncounted, likes>>

\* ... or it does not, and nobody hears of it.
CountViewFails(p) ==
  /\ counting[p] > 0
  /\ counting' = [counting EXCEPT ![p] = @ - 1]
  /\ uncounted' = [uncounted EXCEPT ![p] = @ + 1]
  /\ UNCHANGED <<favorite, viewCount, wish, wishes, looked, likes>>

\* addFavorite up to exist(): a request for one's own product ends here, counted
\* as a view like any other.
AddFavorite(s, u, p) ==
  /\ Wishing(s, "none") /\ Made /\ findById(p)
  /\ wish' = [wish EXCEPT ![s] = IF Maker[p] = u THEN NoWish ELSE [pc |-> "exist", pair |-> <<u, p>>]]
  /\ UNCHANGED <<favorite, viewCount, uncounted, likes>>

exist(s) ==
  /\ Wishing(s, "exist")
  /\ IF Pair(s) \in favorite THEN Over(s) ELSE Onward(s, "create")
  /\ UNCHANGED <<favorite, viewCount, counting, wishes, looked, uncounted, likes>>

\* Seeded fault: a pair that is there already is taken for inserted.
CreateFavoriteUpsert(s) ==
  /\ Wishing(s, "create")
  /\ favorite' = favorite \cup {Pair(s)}
  /\ likes' = IF Pair(s) \in favorite THEN likes ELSE [likes EXCEPT ![Pair(s)].inserted = @ + 1]
  /\ Onward(s, "emit")
  /\ UNCHANGED <<viewCount, counting, wishes, looked, uncounted>>

\* The INSERT, which the unique key refuses when the pair has come meanwhile.
CreateFavorite(s) ==
  /\ Wishing(s, "create") /\ Pair(s) \notin favorite
  /\ favorite' = favorite \cup {Pair(s)}
  /\ likes' = [likes EXCEPT ![Pair(s)].inserted = @ + 1]
  /\ Onward(s, "emit")
  /\ UNCHANGED <<viewCount, counting, wishes, looked, uncounted>>

EmitLiked(s) ==
  /\ Wishing(s, "emit")
  /\ likes' = [likes EXCEPT ![Pair(s)].emitted = @ + 1]
  /\ Over(s)
  /\ UNCHANGED <<favorite, viewCount, counting, wishes, looked, uncounted>>

\* removeFavorite is one deleteMany.
RemoveFavorite(u, p) ==
  /\ Made /\ <<u, p>> \in favorite
  /\ favorite' = favorite \ {<<u, p>>}
  /\ likes' = [likes EXCEPT ![<<u, p>>].removed = @ + 1]
  /\ UNCHANGED <<viewCount, wish, counting, looked, uncounted>>

\* A query raises, or the process dies: an event that was due is lost.
FailWish(s) ==
  /\ ~Wishing(s, "none") /\ Over(s)
  /\ likes' = IF Wishing(s, "emit") THEN [likes EXCEPT ![Pair(s)].lost = @ + 1] ELSE likes
  /\ UNCHANGED <<favorite, viewCount, counting, wishes, looked, uncounted>>

FavNext ==
  \/ \E s \in WishSlots :
       \/ \E u \in Fans, p \in Wares : AddFavorite(s, u, p)
       \/ exist(s)
       \/ CreateFavorite(s)
       \/ EmitLiked(s)
       \/ FailWish(s)
  \/ \E u \in Fans, p \in Wares : RemoveFavorite(u, p)
  \/ \E p \in Wares :
       \/ ViewProduct(p)
       \/ CountView(p)
       \/ CountViewFails(p)

FavSpec == FavInit /\ [][FavNext]_favVars
-----------------------------------------------------------------------------
(***************************************************************************)
(* Properties                                                              *)
(***************************************************************************)
Due(x)     == Cardinality({s \in WishSlots : Wishing(s, "emit") /\ Pair(s) = x})
Present(x) == IF x \in favorite THEN 1 ELSE 0

\* However requests for one pair overlap, each row that was ever inserted is
\* announced once ('product.liked'), unless its request died: who counts the
\* events and the removals knows the rows.
LikesAddUp ==
  \A x \in Pairs : likes[x].emitted + likes[x].lost + Due(x) = likes[x].removed + Present(x)

\* Views are not lost by being counted at the same time: each reading of a
\* product, be it by an attempt to like it that is refused, counts once.  The
\* code asks nobody who he is: docs/database-design.md would have a second view
\* of one user not counted.
ViewsAddUp ==
  \A p \in Wares : viewCount[p] + counting[p] + uncounted[p] = looked[p]

\* Neither a like nor a view is lost or counted twice by requests that overlap.
CountsAddUp == LikesAddUp /\ ViewsAddUp
=============================================================================
