--------------------------- MODULE CategoryTreeProofs ---------------------------
(***************************************************************************)
(* Proofs about CategoryTree, for any finite set of categories and any     *)
(* number of products and overlapping requests.  The heart of it is what   *)
(* a walk knows while no other request has written a parent: the           *)
(* categories it has asked have all their children among those it has      *)
(* asked or still will ask, and the new parent is not among them.          *)
(***************************************************************************)
EXTENDS CategoryTree, FiniteSetTheorems, SequenceTheorems, TLAPS

\* What the request h knows is still so.
Sound(h) ==
  /\ h.pc = "insert" => ~Exists(h.id)
  /\ h.pc = "delete" => ChildrenOf(h.id) \subseteq h.joined
  /\ h.pc = "walk" => h.todo # <<>> /\ Head(h.todo) # h.parent
  /\ h.pc = "walk" /\ ~h.overtaken =>
       /\ h.id \in h.seen \cup Range(h.todo)
       /\ \A c \in h.seen : ChildrenOf(c) \subseteq h.seen \cup Range(h.todo)
       /\ h.parent \notin h.seen
  /\ h.pc = "move" /\ ~h.overtaken /\ h.parent # NoCategory =>
       /\ h.id \in h.seen
       /\ \A c \in h.seen : ChildrenOf(c) \subseteq h.seen
       /\ h.parent \notin h.seen

RequestsSound == \A a \in Admins : Sound(change[a])

\* No two requests insert the same category.
InsertsDiffer ==
  \A a, b \in Admins :
    a # b /\ Doing(a, "insert") /\ Doing(b, "insert") => change[a].id # change[b].id

TreeInv ==
  /\ CategoryTypeOK /\ ParentsExist /\ RequestsSound /\ InsertsDiffer /\ CycleNeedsRace

-----------------------------------------------------------------------------
\* The children of a category in any order are its children.
LEMMA ChildrenInOrder ==
  ASSUME NEW S \in SUBSET Categories, NEW s \in SetToSeqs(S)
  PROVE  s \in Seq(Categories) /\ Range(s) = S
<1> DEFINE n == Cardinality(S)
<1>1. IsFiniteSet(S)
  BY CategoryAssumption, FS_Subset DEF CategoryAssumption
<1>2. n \in Nat
  BY <1>1, FS_CardinalityType
<1>3. s \in [1..n -> S] /\ \A i, j \in 1..n : i # j => s[i] # s[j]
  BY DEF SetToSeqs
<1>4. s \in Injection(1..n, S)
  BY <1>3 DEF Injection, IsInjective
<1>5. Cardinality(1..n) = n
  BY <1>2, FS_Interval
<1>6. s \in Surjection(1..n, S)
  BY <1>1, <1>4, <1>5, FS_Injection
<1>7. Range(s) = S
  BY <1>3, <1>6 DEF Surjection, Range
<1>8. s \in Seq(S)
  BY <1>2, <1>3
<1>9. QED
  BY <1>7, <1>8

LEMMA RangeOfRest ==
  ASSUME NEW s \in Seq(Categories), s # <<>>, NEW below \in Seq(Categories)
  PROVE  /\ below \o Tail(s) \in Seq(Categories)
         /\ Range(below \o Tail(s)) = Range(below) \cup Range(Tail(s))
         /\ Range(s) = {Head(s)} \cup Range(Tail(s))
         /\ Head(s) \in Categories
<1>1. Tail(s) \in Seq(Categories) /\ Head(s) \in Categories
  BY HeadTailProperties
<1>2. Range(below \o Tail(s)) = Range(below) \cup Range(Tail(s))
  BY <1>1, RangeConcatenation
<1>3. Range(s) = {Head(s)} \cup Range(Tail(s))
  <2>1. Len(s) \in Nat /\ Len(s) > 0 /\ DOMAIN s = 1..Len(s)
    BY LenProperties
  <2>2. Len(Tail(s)) = Len(s) - 1 /\ \A i \in 1..Len(s) - 1 : Tail(s)[i] = s[i + 1]
    BY HeadTailProperties
  <2>3. DOMAIN Tail(s) = 1..Len(s) - 1
    BY <1>1, <2>2, LenProperties
  <2>4. \A i \in DOMAIN s : s[i] = Head(s) \/ \E j \in DOMAIN Tail(s) : Tail(s)[j] = s[i]
    <3> SUFFICES ASSUME NEW i \in DOMAIN s, i # 1
                 PROVE  \E j \in DOMAIN Tail(s) : Tail(s)[j] = s[i]
      BY HeadTailProperties
    <3>1. i - 1 \in 1..Len(s) - 1 /\ (i - 1) + 1 = i
      BY <2>1
    <3>2. QED
      BY <2>2, <2>3, <3>1
  <2>5. \A j \in DOMAIN Tail(s) : \E i \in DOMAIN s : Tail(s)[j] = s[i]
    <3> SUFFICES ASSUME NEW j \in 1..Len(s) - 1 PROVE \E i \in DOMAIN s : Tail(s)[j] = s[i]
      BY <2>3
    <3>1. j + 1 \in DOMAIN s
      BY <2>1
    <3>2. QED
      BY <2>2, <3>1
  <2>6. Head(s) = s[1] /\ 1 \in DOMAIN s
    BY <2>1
  <2>7. QED
    BY <2>4, <2>5, <2>6 DEF Range
<1>4. QED
  BY <1>1, <1>2, <1>3, ConcatProperties

\* No row is mistaken for none.
LEMMA RowIsSomething == NoCategory \notin CategoryRow
BY CategoryAssumption DEF CategoryAssumption, CategoryRow

\* What a request carries, by its next query.
LEMMA ChangeFields ==
  ASSUME NEW h \in Change
  PROVE  /\ h.pc \in {"idle", "insert", "walk", "move", "delete"}
         /\ h.pc = "idle" => h = Rest
         /\ h.pc # "idle" => h.id \in Categories
         /\ h.pc \in {"insert", "move"} => h.parent \in Categories \cup {NoCategory}
         /\ h.pc = "walk" => h.parent \in Categories /\ h.todo \in Seq(Categories)
         /\ h.pc \in {"walk", "move"} => h.seen \in SUBSET Categories /\ h.overtaken \in BOOLEAN
         /\ h.pc = "delete" => h.joined \in SUBSET Categories
BY DEF Change, Rest

\* A request that has been overtaken, and one that got a child, are requests still.
LEMMA NoticedFields ==
  ASSUME CategoryTypeOK, NEW b \in Admins, NEW x \in Categories, NEW p
  PROVE  Noticed(x, p, b) \in Change
<1>1. change[b] \in Change
  BY DEF CategoryTypeOK
<1>2. CASE Doing(b, "walk")
  BY <1>1, <1>2 DEF Noticed, Change, Rest, Doing
<1>3. CASE Doing(b, "move")
  BY <1>1, <1>3 DEF Noticed, Change, Rest, Doing
<1>4. CASE Doing(b, "delete")
  BY <1>1, <1>4 DEF Noticed, Change, Rest, Doing
<1>5. CASE ~Doing(b, "walk") /\ ~Doing(b, "move") /\ ~Doing(b, "delete")
  BY <1>1, <1>5 DEF Noticed
<1>6. QED
  BY <1>2, <1>3, <1>4, <1>5

\* A write of one parent that others notice leaves the request in b sound, if it
\* was, unless it is an insertion of the category written.
LEMMA NoticedIsSound ==
  ASSUME CategoryTypeOK, NEW b \in Admins, Sound(change[b]),
         NEW x \in Categories, NEW row \in CategoryRow,
         category' = [category EXCEPT ![x] = row],
         change'[b] = Noticed(x, row.parent, b),
         Doing(b, "insert") => change[b].id # x
  PROVE  Sound(change[b])'
<1> DEFINE h == change[b]
<1>1. h \in Change
  BY DEF CategoryTypeOK
<1>2. CASE Doing(b, "walk") \/ Doing(b, "move")
  <2>2. /\ change'[b].pc = h.pc /\ change'[b].overtaken = TRUE
        /\ h.pc = "walk" => change'[b].todo = h.todo /\ change'[b].parent = h.parent
    BY <1>1, <1>2 DEF Noticed, Change, Rest, Doing
  <2>3. QED
    BY <1>2, <2>2 DEF Sound, Doing, ChildrenOf, Exists
<1>3. CASE Doing(b, "delete")
  <2> DEFINE j == IF h.id = row.parent THEN h.joined \cup {x} ELSE h.joined
  <2>1. h \in [pc : {"delete"}, id : Categories, joined : SUBSET Categories]
    BY <1>1, <1>3 DEF Change, Rest, Doing
  <2>2. change'[b] = [h EXCEPT !.joined = j]
    BY <1>3 DEF Noticed, Doing
  <2> HIDE DEF j
  <2>5. change'[b].pc = "delete" /\ change'[b].id = h.id /\ change'[b].joined = j
    BY <2>1, <2>2
  <2>3. \A y \in ChildrenOf(h.id)' : y \in ChildrenOf(h.id) \/ (y = x /\ row.parent = h.id)
    BY <2>5 DEF ChildrenOf, Exists, CategoryTypeOK
  <2>4. QED
    BY <1>3, <2>5, <2>3 DEF Sound, Doing, ChildrenOf, Exists, j
<1>4. CASE Doing(b, "insert")
  <2>1. change'[b] = h /\ h.id \in Categories /\ h.id # x
    BY <1>1, <1>4, ChangeFields DEF Noticed, Doing
  <2>2. category'[h.id] = category[h.id]
    BY <2>1 DEF CategoryTypeOK
  <2>3. QED
    BY <1>4, <2>1, <2>2 DEF Sound, Doing, Exists
<1>5. CASE Doing(b, "idle")
  <2>1. change'[b] = h
    BY <1>5 DEF Noticed, Doing
  <2>2. QED
    BY <1>5, <2>1 DEF Sound, Doing
<1>6. QED
  BY <1>1, <1>2, <1>3, <1>4, <1>5, ChangeFields DEF Doing

\* A step that writes no parent and takes the request in a on to `next`.
LEMMA RequestGoesOn ==
  ASSUME TreeInv, NEW a \in Admins, NEW next \in Change,
         UNCHANGED <<category, shelf, raced>>, changes' \in 0..MaxChanges,
         change' = [change EXCEPT ![a] = next],
         Sound(next),
         next.pc = "insert" => \A b \in Admins : Doing(b, "insert") => change[b].id # next.id
  PROVE  TreeInv'
<1>1. CategoryTypeOK'
  BY DEF TreeInv, CategoryTypeOK
<1>2. /\ \A c : Exists(c)' <=> Exists(c)
      /\ \A c : ChildrenOf(c)' = ChildrenOf(c)
  BY DEF Exists, ChildrenOf
<1>3. ParentsExist' /\ CycleNeedsRace'
  BY <1>2 DEF TreeInv, ParentsExist, CycleNeedsRace, TreeStaysAcyclic, Exists
<1>4. \A b \in Admins : change'[b] = IF b = a THEN next ELSE change[b]
  BY DEF TreeInv, CategoryTypeOK
<1>5. RequestsSound'
  <2> SUFFICES ASSUME NEW b \in Admins PROVE Sound(change[b])'
    BY DEF RequestsSound
  <2>1. Sound(change'[b])
    BY <1>4 DEF TreeInv, RequestsSound
  <2>2. QED
    BY <1>2, <2>1 DEF Sound
<1>6. InsertsDiffer'
  BY <1>4 DEF TreeInv, InsertsDiffer, Doing
<1>7. QED
  BY <1>1, <1>3, <1>5, <1>6 DEF TreeInv

\* What a step that gives the row of x another parent owes to the tree: no
\* category is below itself if none was and the new parent is not below x.
LEMMA MoveStaysAcyclic ==
  ASSUME CategoryTypeOK, TreeStaysAcyclic, NEW x \in Categories, NEW p \in Categories,
         NEW below \in SUBSET Categories,
         x \in below, p \notin below, \A c \in below : ChildrenOf(c) \subseteq below,
         Exists(x), category' = [category EXCEPT ![x].parent = p]
  PROVE  TreeStaysAcyclic'
<1>1. \A c \in Categories : Exists(c)' <=> Exists(c)
  BY RowIsSomething DEF Exists, CategoryTypeOK, CategoryRow
<1>2. \A c \in Categories : Exists(c) =>
        category'[c].parent = IF c = x THEN p ELSE category[c].parent
  BY DEF Exists, CategoryTypeOK, CategoryRow
<1> SUFFICES ASSUME NEW S \in SUBSET {c \in Categories : Exists(c)}, S # {},
                    \A c \in S : category'[c].parent \in S
             PROVE  FALSE
  BY <1>1 DEF TreeStaysAcyclic
<1>3. CASE x \notin S
  <2>1. \A c \in S : category[c].parent \in S
    BY <1>2, <1>3
  <2>2. QED
    BY <2>1 DEF TreeStaysAcyclic
<1>4. CASE x \in S
  <2> DEFINE T == S \ below
  <2>1. p \in T
    BY <1>2, <1>4
  <2>2. \A c \in T : category[c].parent \in T
    <3> SUFFICES ASSUME NEW c \in T PROVE category[c].parent \in T
      OBVIOUS
    <3>1. category[c].parent \in S
      BY <1>2
    <3>2. c \in ChildrenOf(category[c].parent)
      BY DEF ChildrenOf
    <3>3. QED
      BY <3>1, <3>2
  <2>3. T \in SUBSET {c \in Categories : Exists(c)} /\ T # {}
    BY <2>1
  <2> HIDE DEF T
  <2>4. QED
    BY <2>2, <2>3 DEF TreeStaysAcyclic
<1>5. QED
  BY <1>3, <1>4

\* A category that loses its parent, and one that had no children before it
\* came, are on no cycle either.
LEMMA RootStaysAcyclic ==
  ASSUME CategoryTypeOK, TreeStaysAcyclic, NEW C \in SUBSET Categories,
         \A c \in Categories : category'[c] = category[c] \/ category'[c] = NoCategory
           \/ category'[c].parent \notin Categories
           \/ (c \in C /\ Exists(c)' /\ ~Exists(c) /\ category'[c].parent # c),
         \A c \in C : \A y \in Categories : Exists(y) => category[y].parent # c,
         \A c, d \in C : c = d
  PROVE  TreeStaysAcyclic'
<1> SUFFICES ASSUME NEW S \in SUBSET {c \in Categories : Exists(c)'}, S # {},
                    \A c \in S : category'[c].parent \in S
             PROVE  FALSE
  BY DEF TreeStaysAcyclic
<1> DEFINE T == S \ C
<1>1. \A c \in T : category'[c] = category[c] /\ Exists(c)
  BY DEF Exists
<1>2. \A c \in T : category[c].parent \in T
  BY <1>1
<1>3. T # {}
  <2>1. SUFFICES ASSUME T = {} PROVE FALSE
    OBVIOUS
  <2>2. PICK c \in S : c \in C
    BY <2>1
  <2>3. category'[c].parent = c
    BY <2>1
  <2>4. category'[c] = category[c] => Exists(c)
    BY DEF Exists
  <2>5. QED
    BY <2>2, <2>3, <2>4 DEF Exists
<1>4. T \in SUBSET {c \in Categories : Exists(c)}
  BY <1>1
<1> HIDE DEF T
<1>5. QED
  BY <1>2, <1>3, <1>4 DEF TreeStaysAcyclic

\* The request in a ends with a write of one parent: what it leaves to the others.
LEMMA EndIsSound ==
  ASSUME TreeInv, NEW a \in Admins, NEW x \in Categories, NEW row \in CategoryRow,
         category' = [category EXCEPT ![x] = row], EndWithParent(a, x, row.parent),
         UNCHANGED <<shelf, changes>>, raced' \in BOOLEAN,
         row.parent = NoCategory \/ Exists(row.parent),
         \A b \in Admins : b # a /\ Doing(b, "insert") => change[b].id # x
  PROVE  CategoryTypeOK' /\ ParentsExist' /\ RequestsSound' /\ InsertsDiffer'
<1>1. \A b \in Admins : change'[b] = IF b = a THEN Rest ELSE Noticed(x, row.parent, b)
  BY DEF EndWithParent
<1>2. CategoryTypeOK'
  <2>1. category' \in [Categories -> CategoryRow \cup {NoCategory}]
    BY DEF TreeInv, CategoryTypeOK
  <2>2. \A b \in Admins : change'[b] \in Change
    BY <1>1, NoticedFields DEF TreeInv, Change
  <2>3. change' \in [Admins -> Change]
    BY <2>2 DEF EndWithParent
  <2>4. QED
    BY <2>1, <2>3 DEF TreeInv, CategoryTypeOK
<1>3. ParentsExist'
  <2>1. \A c \in Categories : Exists(c)' <=> Exists(c) \/ c = x
    BY RowIsSomething DEF TreeInv, CategoryTypeOK, Exists
  <2>2. \A c \in Categories : category'[c] = IF c = x THEN row ELSE category[c]
    BY DEF TreeInv, CategoryTypeOK
  <2> SUFFICES ASSUME NEW c \in Categories, Exists(c)'
               PROVE  (category[c].parent = NoCategory \/ Exists(category[c].parent))'
    BY DEF ParentsExist
  <2>4. category'[c].parent = NoCategory \/ Exists(category'[c].parent)
    BY <2>1, <2>2 DEF TreeInv, ParentsExist
  <2>5. QED
    BY <2>1, <2>4 DEF Exists
<1>4. RequestsSound'
  <2> SUFFICES ASSUME NEW b \in Admins PROVE Sound(change[b])'
    BY DEF RequestsSound
  <2>1. CASE b = a
    BY <1>1, <2>1 DEF Sound, Rest
  <2>2. CASE b # a
    BY <1>1, <2>2, NoticedIsSound DEF TreeInv, RequestsSound
  <2>3. QED
    BY <2>1, <2>2
<1>5. InsertsDiffer'
  <2>1. \A b \in Admins : Doing(b, "insert")' => b # a /\ change'[b] = change[b]
    <3> SUFFICES ASSUME NEW b \in Admins, Doing(b, "insert")'
                 PROVE  b # a /\ change'[b] = change[b]
      OBVIOUS
    <3>1. b # a
      BY <1>1 DEF Doing, Rest
    <3>2. ~Doing(b, "walk") /\ ~Doing(b, "move") /\ ~Doing(b, "delete")
      <4>1. change[b] \in Change
        BY DEF TreeInv, CategoryTypeOK
      <4>2. CASE Doing(b, "walk") \/ Doing(b, "move")
        BY <1>1, <3>1, <4>1, <4>2 DEF Noticed, Change, Rest, Doing
      <4>3. CASE Doing(b, "delete")
        BY <1>1, <3>1, <4>1, <4>3 DEF Noticed, Change, Rest, Doing
      <4>4. QED
        BY <4>2, <4>3
    <3>3. QED
      BY <1>1, <3>1, <3>2 DEF Noticed
  <2>2. QED
    BY <2>1 DEF TreeInv, InsertsDiffer, Doing
<1>6. QED
  BY <1>2, <1>3, <1>4, <1>5

LEMMA RootsStayAcyclic ==
  ASSUME CategoryTypeOK, TreeStaysAcyclic,
         \A c \in Categories : category'[c] = category[c] \/ category'[c] = NoCategory
           \/ category'[c].parent \notin Categories
  PROVE  TreeStaysAcyclic'
<1> DEFINE C == {}
<1>1. /\ C \in SUBSET Categories
      /\ \A c \in C : \A y \in Categories : Exists(y) => category[y].parent # c
      /\ \A c, d \in C : c = d
  OBVIOUS
<1> HIDE DEF C
<1>2. QED
  BY <1>1, RootStaysAcyclic
-----------------------------------------------------------------------------
\* It holds at the start: there are only roots.
LEMMA TreeInitInvariant == CatInit => TreeInv
<1> SUFFICES ASSUME CatInit PROVE TreeInv
  OBVIOUS
<1>1. PICK some \in SUBSET Categories :
        category = [c \in Categories |-> IF c \in some
                                           THEN [parent |-> NoCategory, active |-> TRUE]
                                           ELSE NoCategory]
  BY DEF CatInit
<1>2. \A c \in Categories : Exists(c) => category[c].parent = NoCategory
  BY <1>1 DEF Exists
<1>3. CategoryTypeOK
  <2>1. category \in [Categories -> CategoryRow \cup {NoCategory}]
    BY <1>1 DEF CategoryRow
  <2>2. change \in [Admins -> Change]
    BY DEF CatInit, Change
  <2>3. shelf \in [Goods -> Categories \cup {NoCategory}]
    BY DEF CatInit
  <2>4. changes = 0 /\ raced = FALSE
    BY DEF CatInit
  <2>5. changes \in 0..MaxChanges
    BY <2>4, CategoryAssumption DEF CategoryAssumption
  <2>6. QED
    BY <2>1, <2>2, <2>3, <2>4, <2>5 DEF CategoryTypeOK
<1>4. ParentsExist
  BY <1>2 DEF ParentsExist
<1>5. \A a \in Admins : change[a] = Rest
  BY DEF CatInit
<1>6. RequestsSound
  BY <1>5 DEF RequestsSound, Sound, Rest
<1>7. InsertsDiffer
  BY <1>5 DEF InsertsDiffer, Doing, Rest
<1>8. CycleNeedsRace
  <2> SUFFICES ASSUME NEW S \in SUBSET {c \in Categories : Exists(c)}, NEW c \in S
               PROVE  category[c].parent \notin S
    BY DEF CycleNeedsRace, TreeStaysAcyclic
  <2>1. QED
    BY <1>2, CategoryAssumption DEF CategoryAssumption
<1>9. QED
  BY <1>3, <1>4, <1>6, <1>7, <1>8 DEF TreeInv

\* Starting a request, whichever it is.
LEMMA StartInvariant ==
  ASSUME TreeInv, NEW a \in Admins, NEW next \in Change, StartChange(a, next), Sound(next),
         next.pc = "insert" => \A b \in Admins : Doing(b, "insert") => change[b].id # next.id
  PROVE  TreeInv'
<1>1. changes' \in 0..MaxChanges
  BY CategoryAssumption DEF StartChange, TreeInv, CategoryTypeOK, CategoryAssumption
<1>2. QED
  BY <1>1, RequestGoesOn DEF StartChange

LEMMA CreateInvariant ==
  ASSUME TreeInv, NEW a \in Admins, NEW c \in Categories, NEW p \in Categories \cup {NoCategory},
         CreateCategory(a, c, p)
  PROVE  TreeInv'
<1> DEFINE next == [pc |-> "insert", id |-> c, parent |-> p]
<1>1. next \in Change
  BY DEF Change
<1>2. Sound(next)
  BY DEF Sound, CreateCategory
<1>3. \A b \in Admins : Doing(b, "insert") => change[b].id # next.id
  BY DEF CreateCategory
<1>4. StartChange(a, next)
  BY DEF CreateCategory
<1> HIDE DEF next
<1>5. QED
  BY <1>1, <1>2, <1>3, <1>4, StartInvariant

LEMMA InsertInvariant ==
  ASSUME TreeInv, NEW a \in Admins, InsertCategory(a)
  PROVE  TreeInv'
<1>1. change[a] \in Change /\ change[a].pc = "insert"
  BY DEF TreeInv, CategoryTypeOK, InsertCategory, Doing
<1>2. PICK c \in Categories, p \in Categories \cup {NoCategory} :
        c = change[a].id /\ p = change[a].parent /\ ~Exists(c)
  BY <1>1, ChangeFields DEF TreeInv, RequestsSound, Sound
<1> DEFINE row == [parent |-> p, active |-> TRUE]
<1>3. row \in CategoryRow
  BY <1>2 DEF CategoryRow
<1>4. \A b \in Admins : b # a /\ Doing(b, "insert") => change[b].id # c
  BY <1>2 DEF TreeInv, InsertsDiffer, InsertCategory
<1>5. CategoryTypeOK' /\ ParentsExist' /\ RequestsSound' /\ InsertsDiffer'
  <2>1. /\ category' = [category EXCEPT ![c] = row] /\ EndWithParent(a, c, row.parent)
        /\ UNCHANGED <<shelf, changes>> /\ raced' \in BOOLEAN
        /\ row.parent = NoCategory \/ Exists(row.parent)
    BY <1>2 DEF InsertCategory, TreeInv, CategoryTypeOK
  <2> HIDE DEF row
  <2>2. QED
    BY <1>2, <1>3, <1>4, <2>1, EndIsSound
<1>6. CycleNeedsRace'
  <2> SUFFICES ASSUME ~raced' PROVE TreeStaysAcyclic'
    BY DEF CycleNeedsRace
  <2>1. TreeStaysAcyclic
    BY DEF TreeInv, CycleNeedsRace, InsertCategory
  <2>2. category' = [category EXCEPT ![c] = row] /\ (p = NoCategory \/ Exists(p))
    BY <1>2 DEF InsertCategory
  <2>3. category'[c] = row /\ row.parent # c /\ Exists(c)'
    <3>1. p # c
      BY <1>2, <2>2, CategoryAssumption DEF CategoryAssumption
    <3>2. category'[c] = row
      BY <2>2 DEF TreeInv, CategoryTypeOK
    <3>3. QED
      BY <1>3, <3>1, <3>2, RowIsSomething DEF Exists
  <2>4. \A d \in Categories : d # c => category'[d] = category[d]
    BY <2>2 DEF TreeInv, CategoryTypeOK
  <2>5. \A y \in Categories : Exists(y) => category[y].parent # c
    BY <1>2, CategoryAssumption DEF TreeInv, ParentsExist, CategoryAssumption
  <2> DEFINE C == {c}
  <2>6. /\ \A d \in Categories : category'[d] = category[d] \/ category'[d] = NoCategory
             \/ category'[d].parent \notin Categories
             \/ (d \in C /\ Exists(d)' /\ ~Exists(d) /\ category'[d].parent # d)
        /\ \A d \in C : \A y \in Categories : Exists(y) => category[y].parent # d
        /\ \A d, e \in C : d = e
        /\ C \in SUBSET Categories
    BY <1>2, <2>3, <2>4, <2>5 DEF Exists
  <2> HIDE DEF C, row
  <2>7. QED
    BY <2>1, <2>6, RootStaysAcyclic DEF TreeInv
<1>7. QED
  BY <1>5, <1>6 DEF TreeInv

LEMMA MoveInvariant ==
  ASSUME TreeInv, NEW a \in Admins, NEW c \in Categories, NEW p \in Categories, MoveCategory(a, c, p)
  PROVE  TreeInv'
<1> DEFINE next == [pc |-> "walk", id |-> c, parent |-> p, todo |-> <<c>>,
                    seen |-> {}, overtaken |-> FALSE]
<1>1. next \in Change
  BY DEF Change
<1>2. Sound(next)
  <2>1. <<c>> # <<>> /\ Head(<<c>>) = c /\ Range(<<c>>) = {c}
    BY DEF Range
  <2>2. QED
    BY <2>1 DEF Sound, MoveCategory
<1>3. StartChange(a, next) /\ next.pc # "insert"
  BY DEF MoveCategory
<1> HIDE DEF next
<1>4. QED
  BY <1>1, <1>2, <1>3, StartInvariant

LEMMA MoveToRootInvariant ==
  ASSUME TreeInv, NEW a \in Admins, NEW c \in Categories, MoveToRoot(a, c)
  PROVE  TreeInv'
<1> DEFINE next == [pc |-> "move", id |-> c, parent |-> NoCategory,
                    seen |-> {}, overtaken |-> FALSE]
<1>1. next \in Change
  BY DEF Change
<1>2. Sound(next) /\ StartChange(a, next) /\ next.pc # "insert"
  BY DEF Sound, MoveToRoot
<1> HIDE DEF next
<1>3. QED
  BY <1>1, <1>2, StartInvariant

LEMMA RemoveInvariant ==
  ASSUME TreeInv, NEW a \in Admins, NEW c \in Categories, RemoveCategory(a, c)
  PROVE  TreeInv'
<1> DEFINE next == [pc |-> "delete", id |-> c, joined |-> {}]
<1>1. next \in Change
  BY DEF Change
<1>2. Sound(next) /\ StartChange(a, next) /\ next.pc # "insert"
  BY DEF Sound, RemoveCategory
<1> HIDE DEF next
<1>3. QED
  BY <1>1, <1>2, StartInvariant

\* One query of isDescendant: what has been asked and still will be stays closed
\* under children, and the new parent stays out of what has been asked.
LEMMA WalkInvariant ==
  ASSUME TreeInv, NEW a \in Admins, Walk(a)
  PROVE  TreeInv'
<1> DEFINE h == change[a]  n == Head(h.todo)
<1>1. /\ h \in Change /\ h.pc = "walk"
      /\ h \in [pc : {"walk"}, id : Categories, parent : Categories, todo : Seq(Categories),
                seen : SUBSET Categories, overtaken : BOOLEAN]
  BY DEF TreeInv, CategoryTypeOK, Walk, Doing, Change, Rest
<1>2. Sound(h)
  BY DEF TreeInv, RequestsSound
<1>3. PICK below \in SetToSeqs(ChildrenOf(n)) :
        change' = [change EXCEPT ![a] =
          CASE below \o Tail(h.todo) = <<>> ->
                 [pc |-> "move", id |-> h.id, parent |-> h.parent,
                  seen |-> h.seen \cup {n}, overtaken |-> h.overtaken]
            [] below \o Tail(h.todo) # <<>> /\ Head(below \o Tail(h.todo)) = h.parent -> Rest
            [] OTHER -> [h EXCEPT !.todo = below \o Tail(h.todo), !.seen = @ \cup {n}]]
  BY DEF Walk
<1> DEFINE todo == below \o Tail(h.todo)
<1>4. below \in Seq(Categories) /\ Range(below) = ChildrenOf(n)
  BY ChildrenInOrder DEF ChildrenOf
<1>5. h.todo # <<>> /\ n # h.parent
  BY <1>1, <1>2 DEF Sound
<1>6. /\ todo \in Seq(Categories) /\ n \in Categories
      /\ Range(todo) = ChildrenOf(n) \cup Range(Tail(h.todo))
      /\ Range(h.todo) = {n} \cup Range(Tail(h.todo))
  BY <1>1, <1>4, <1>5, RangeOfRest
<1> DEFINE seen == h.seen \cup {n}
<1>7. ~h.overtaken => /\ h.id \in seen \cup Range(todo)
                      /\ \A c \in seen : ChildrenOf(c) \subseteq seen \cup Range(todo)
                      /\ h.parent \notin seen
  BY <1>1, <1>2, <1>5, <1>6 DEF Sound
<1>8. UNCHANGED <<category, shelf, raced>> /\ changes' \in 0..MaxChanges
  BY DEF Walk, TreeInv, CategoryTypeOK
<1> HIDE DEF todo, seen
<1>9. CASE todo = <<>>
  <2> DEFINE next == [pc |-> "move", id |-> h.id, parent |-> h.parent,
                      seen |-> seen, overtaken |-> h.overtaken]
  <2>1. change' = [change EXCEPT ![a] = next]
    BY <1>3, <1>9 DEF todo, seen
  <2>2. next \in Change
    BY <1>1, <1>6 DEF Change, seen
  <2>3. Range(todo) = {}
    BY <1>9 DEF Range
  <2>4. Sound(next) /\ next.pc # "insert"
    BY <1>7, <2>3 DEF Sound
  <2> HIDE DEF next, h
  <2>5. QED
    BY <1>8, <2>1, <2>2, <2>4, RequestGoesOn
<1>10. CASE todo # <<>> /\ Head(todo) = h.parent
  <2>1. change' = [change EXCEPT ![a] = Rest]
    BY <1>3, <1>10 DEF todo
  <2>2. Rest \in Change /\ Sound(Rest) /\ Rest.pc # "insert"
    BY DEF Change, Rest, Sound
  <2>3. QED
    BY <1>8, <2>1, <2>2, RequestGoesOn
<1>11. CASE todo # <<>> /\ Head(todo) # h.parent
  <2> DEFINE next == [h EXCEPT !.todo = todo, !.seen = seen]
  <2>1. change' = [change EXCEPT ![a] = next]
    BY <1>3, <1>11 DEF todo, seen
  <2>2. next \in Change
    BY <1>1, <1>6 DEF Change, seen
  <2>3. /\ next.pc = "walk" /\ next.todo = todo /\ next.seen = seen
        /\ next.id = h.id /\ next.parent = h.parent /\ next.overtaken = h.overtaken
    BY <1>1
  <2> HIDE DEF next
  <2>4. Sound(next)
    BY <1>7, <1>11, <2>3 DEF Sound
  <2> HIDE DEF h
  <2>5. QED
    BY <1>8, <2>1, <2>2, <2>3, <2>4, RequestGoesOn
<1>12. QED
  BY <1>9, <1>10, <1>11

\* The move of update(): on a check that nobody overtook, the categories it has
\* asked are all that is below, and the new parent is not among them.
LEMMA WriteParentInvariant ==
  ASSUME TreeInv, NEW a \in Admins, WriteParent(a)
  PROVE  TreeInv'
<1>1. change[a] \in Change /\ change[a].pc = "move" /\ Sound(change[a])
  BY DEF TreeInv, CategoryTypeOK, RequestsSound, WriteParent, Doing
<1>2. PICK c \in Categories, p \in Categories \cup {NoCategory} :
        c = change[a].id /\ p = change[a].parent
  BY <1>1, ChangeFields
<1>3. /\ Exists(c) /\ (p = NoCategory \/ Exists(p))
      /\ category' = [category EXCEPT ![c].parent = p]
      /\ raced' = (raced \/ (p # NoCategory /\ change[a].overtaken))
      /\ EndWithParent(a, c, p) /\ UNCHANGED <<shelf, changes>>
  BY <1>2 DEF WriteParent
<1>4. category[c] \in CategoryRow
  BY <1>3 DEF TreeInv, CategoryTypeOK, Exists
<1>5. CategoryTypeOK' /\ ParentsExist' /\ RequestsSound' /\ InsertsDiffer'
  <2> DEFINE row == [category[c] EXCEPT !.parent = p]
  <2>1. row \in CategoryRow /\ row.parent = p
    BY <1>2, <1>4 DEF CategoryRow
  <2>2. category' = [category EXCEPT ![c] = row]
    BY <1>3
  <2>3. \A b \in Admins : b # a /\ Doing(b, "insert") => change[b].id # c
    BY <1>3 DEF TreeInv, RequestsSound, Sound, Doing
  <2>4. raced' \in BOOLEAN
    BY <1>3 DEF TreeInv, CategoryTypeOK
  <2>5. EndWithParent(a, c, row.parent) /\ (row.parent = NoCategory \/ Exists(row.parent))
    BY <1>3, <2>1
  <2>6. UNCHANGED <<shelf, changes>>
    BY <1>3
  <2> HIDE DEF row
  <2>7. QED
    BY <2>1, <2>2, <2>3, <2>4, <2>5, <2>6, EndIsSound
<1>6. CycleNeedsRace'
  <2> SUFFICES ASSUME ~raced' PROVE TreeStaysAcyclic'
    BY DEF CycleNeedsRace
  <2>1. TreeStaysAcyclic /\ (p = NoCategory \/ ~change[a].overtaken) /\ CategoryTypeOK
    BY <1>3 DEF TreeInv, CycleNeedsRace
  <2>2. CASE p = NoCategory
    <3>1. \A d \in Categories : category'[d] = category[d] \/ category'[d].parent \notin Categories
      BY <1>3, <1>4, <2>2, CategoryAssumption
         DEF TreeInv, CategoryTypeOK, CategoryRow, CategoryAssumption
    <3>2. QED
      BY <2>1, <3>1, RootsStayAcyclic
  <2>3. CASE p # NoCategory
    <3>1. p \in Categories /\ change[a].seen \in SUBSET Categories
      BY <1>1, <1>2, <2>3, ChangeFields
    <3>2. /\ c \in change[a].seen /\ p \notin change[a].seen
          /\ \A d \in change[a].seen : ChildrenOf(d) \subseteq change[a].seen
      BY <1>1, <1>2, <2>1, <2>3 DEF Sound
    <3>3. QED
      BY <1>3, <2>1, <3>1, <3>2, MoveStaysAcyclic
  <2>4. QED
    BY <2>2, <2>3
<1>7. QED
  BY <1>5, <1>6 DEF TreeInv

LEMMA SwitchInvariant ==
  ASSUME TreeInv, NEW c \in Categories, SwitchCategory(c)
  PROVE  TreeInv'
<1> USE DEF TreeInv
<1>1. /\ Exists(c) /\ category' = [category EXCEPT ![c].active = ~@]
      /\ UNCHANGED <<shelf, change, raced>>
  BY DEF SwitchCategory
<1>2. category[c] \in CategoryRow
  BY <1>1 DEF CategoryTypeOK, Exists
<1>3. category'[c] \in CategoryRow /\ category'[c].parent = category[c].parent
  BY <1>1, <1>2 DEF CategoryTypeOK, CategoryRow
<1>4. \A d \in Categories : d # c => category'[d] = category[d]
  BY <1>1 DEF CategoryTypeOK
<1>5. \A d : Exists(d)' <=> Exists(d)
  BY <1>1, <1>3, <1>4, RowIsSomething DEF Exists
<1>6. \A d \in Categories : category'[d].parent = category[d].parent
  BY <1>3, <1>4
<1>7. \A d : ChildrenOf(d)' = ChildrenOf(d)
  BY <1>5, <1>6 DEF ChildrenOf, Exists
<1>8. CategoryTypeOK'
  <2>1. category' \in [Categories -> CategoryRow \cup {NoCategory}]
    BY <1>1, <1>3, <1>4 DEF CategoryTypeOK
  <2>2. changes' \in 0..MaxChanges
    BY CategoryAssumption DEF SwitchCategory, CategoryTypeOK, CategoryAssumption
  <2>3. QED
    BY <1>1, <2>1, <2>2 DEF CategoryTypeOK
<1>9. ParentsExist'
  <2> SUFFICES ASSUME NEW d \in Categories, Exists(d)'
               PROVE  (category[d].parent = NoCategory \/ Exists(category[d].parent))'
    BY DEF ParentsExist
  <2>1. category'[d].parent = NoCategory \/ Exists(category'[d].parent)
    BY <1>5, <1>6 DEF ParentsExist, Exists
  <2>2. QED
    BY <1>5, <2>1 DEF Exists
<1>10. RequestsSound' /\ InsertsDiffer'
  <2> SUFFICES ASSUME NEW a \in Admins PROVE Sound(change[a])'
    BY <1>1 DEF RequestsSound, InsertsDiffer, Doing
  <2>1. Sound(change[a]) /\ change'[a] = change[a]
    BY <1>1 DEF RequestsSound
  <2>2. QED
    BY <1>5, <1>7, <2>1 DEF Sound
<1>11. CycleNeedsRace'
  BY <1>1, <1>5, <1>6 DEF CycleNeedsRace, TreeStaysAcyclic, Exists
<1>12. QED
  BY <1>8, <1>9, <1>10, <1>11

\* The DELETE: its children become roots, and the requests under way see what
\* they saw.
LEMMA DeleteInvariant ==
  ASSUME TreeInv, NEW a \in Admins, DeleteCategory(a)
  PROVE  TreeInv'
<1>1. change[a] \in Change /\ change[a].pc = "delete" /\ CategoryTypeOK
  BY DEF TreeInv, CategoryTypeOK, DeleteCategory, Doing
<1>2. PICK c \in Categories : c = change[a].id
  BY <1>1, ChangeFields
<1>3. /\ Exists(c)
      /\ category' = [x \in Categories |->
            IF x = c THEN NoCategory
            ELSE IF x \in ChildrenOf(c) THEN [category[x] EXCEPT !.parent = NoCategory]
            ELSE category[x]]
      /\ change' = [b \in Admins |-> IF b = a THEN Rest
            ELSE IF Doing(b, "walk") \/ Doing(b, "move")
                   THEN [change[b] EXCEPT !.overtaken = TRUE]
            ELSE IF Doing(b, "delete")
                   THEN [change[b] EXCEPT !.joined = @ \ {c}]
            ELSE change[b]]
      /\ UNCHANGED <<shelf, changes, raced>>
  BY <1>2 DEF DeleteCategory
<1>4. \A x \in Categories : Exists(x) => category[x] \in CategoryRow
  BY <1>1 DEF CategoryTypeOK, Exists
<1>5. \A x \in ChildrenOf(c) : x # c => category'[x] \in CategoryRow /\ category'[x].parent = NoCategory
  BY <1>3, <1>4 DEF ChildrenOf, CategoryRow
<1>6. \A x \in Categories : x # c /\ x \notin ChildrenOf(c) => category'[x] = category[x]
  BY <1>3
<1>7. category'[c] = NoCategory
  BY <1>3
<1>8. \A x : Exists(x)' <=> Exists(x) /\ x # c
  BY <1>5, <1>6, <1>7, RowIsSomething DEF Exists, ChildrenOf
<1>9. category' \in [Categories -> CategoryRow \cup {NoCategory}]
  <2>1. \A x \in Categories : category'[x] \in CategoryRow \cup {NoCategory}
    BY <1>1, <1>5, <1>6, <1>7 DEF CategoryTypeOK
  <2>2. QED
    BY <1>3, <2>1
<1>10. \A b \in Admins :
         /\ change'[b] \in Change
         /\ change'[b].pc = "insert" => b # a /\ change[b].pc = "insert" /\ change'[b] = change[b]
         /\ change'[b].pc \in {"walk", "move"} =>
              /\ change'[b].overtaken = TRUE /\ change[b].pc = change'[b].pc
              /\ change'[b].pc = "walk" =>
                   change'[b].todo = change[b].todo /\ change'[b].parent = change[b].parent
         /\ change'[b].pc = "delete" =>
              /\ change[b].pc = "delete" /\ change'[b].id = change[b].id
              /\ change'[b].joined = change[b].joined \ {c}
  <2> SUFFICES ASSUME NEW b \in Admins, b # a
               PROVE  /\ change'[b] \in Change
                      /\ change'[b].pc = "insert" => change[b].pc = "insert" /\ change'[b] = change[b]
                      /\ change'[b].pc \in {"walk", "move"} =>
                           /\ change'[b].overtaken = TRUE /\ change[b].pc = change'[b].pc
                           /\ change'[b].pc = "walk" =>
                                change'[b].todo = change[b].todo /\ change'[b].parent = change[b].parent
                      /\ change'[b].pc = "delete" =>
                           /\ change[b].pc = "delete" /\ change'[b].id = change[b].id
                           /\ change'[b].joined = change[b].joined \ {c}
    BY <1>3 DEF Rest, Change
  <2>1. change[b] \in Change
    BY <1>1 DEF CategoryTypeOK
  <2>2. CASE Doing(b, "walk") \/ Doing(b, "move")
    <3>1. change'[b] = [change[b] EXCEPT !.overtaken = TRUE]
      BY <1>3, <2>2
    <3>2. QED
      <4>1. CASE Doing(b, "walk")
        <5> DEFINE walks == [pc : {"walk"}, id : Categories, parent : Categories, todo : Seq(Categories),
                             seen : SUBSET Categories, overtaken : BOOLEAN]
        <5>1. change[b] \in walks
          BY <2>1, <4>1 DEF Change, Rest, Doing
        <5>2. /\ change'[b] \in walks /\ change'[b].overtaken = TRUE
              /\ change'[b].todo = change[b].todo /\ change'[b].parent = change[b].parent
          BY <3>1, <5>1
        <5>3. QED
          BY <5>1, <5>2 DEF Change
      <4>2. CASE Doing(b, "move")
        <5> DEFINE moves == [pc : {"move"}, id : Categories, parent : Categories \cup {NoCategory},
                             seen : SUBSET Categories, overtaken : BOOLEAN]
        <5>1. change[b] \in moves
          BY <2>1, <4>2 DEF Change, Rest, Doing
        <5>2. change'[b] \in moves /\ change'[b].overtaken = TRUE
          BY <3>1, <5>1
        <5>3. QED
          BY <5>1, <5>2 DEF Change
      <4>3. QED
        BY <2>2, <4>1, <4>2
  <2>3. CASE Doing(b, "delete")
    <3>1. change'[b] = [change[b] EXCEPT !.joined = @ \ {c}]
      BY <1>3, <2>3 DEF Doing
    <3>2. change[b] \in [pc : {"delete"}, id : Categories, joined : SUBSET Categories]
      BY <2>1, <2>3 DEF Change, Rest, Doing
    <3>3. QED
      BY <2>3, <3>1, <3>2 DEF Change, Doing
  <2>4. CASE ~Doing(b, "walk") /\ ~Doing(b, "move") /\ ~Doing(b, "delete")
    <3>1. change'[b] = change[b]
      BY <1>3, <2>4
    <3>2. QED
      BY <2>1, <2>4, <3>1 DEF Doing
  <2>5. QED
    BY <2>2, <2>3, <2>4
<1>11. CategoryTypeOK'
  <2>1. change' \in [Admins -> Change]
    BY <1>3, <1>10
  <2>2. QED
    BY <1>1, <1>3, <1>9, <2>1 DEF CategoryTypeOK
<1>12. ParentsExist'
  <2> SUFFICES ASSUME NEW d \in Categories, Exists(d)'
               PROVE  (category[d].parent = NoCategory \/ Exists(category[d].parent))'
    BY DEF ParentsExist
  <2>1. Exists(d) /\ d # c
    BY <1>8
  <2>2. CASE d \in ChildrenOf(c)
    BY <1>5, <2>1, <2>2
  <2>3. CASE d \notin ChildrenOf(c)
    <3>1. category'[d] = category[d] /\ category[d].parent # c
      BY <1>6, <2>1, <2>3 DEF ChildrenOf
    <3>2. category[d].parent = NoCategory \/ Exists(category[d].parent)
      BY <2>1 DEF TreeInv, ParentsExist
    <3>3. category'[d].parent = NoCategory \/ (Exists(category'[d].parent) /\ category'[d].parent # c)
      BY <3>1, <3>2
    <3>4. QED
      BY <1>8, <3>3 DEF Exists
  <2>4. QED
    BY <2>2, <2>3
<1>13. \A d \in Categories : \A y \in Categories :
         Exists(y)' /\ category'[y].parent = d => y \in ChildrenOf(d) \ {c}
  BY <1>5, <1>6, <1>8, CategoryAssumption DEF ChildrenOf, CategoryAssumption
<1>14. RequestsSound'
  <2> SUFFICES ASSUME NEW b \in Admins PROVE Sound(change[b])'
    BY DEF RequestsSound
  <2>1. Sound(change[b])
    BY DEF TreeInv, RequestsSound
  <2>2. CASE change'[b].pc = "insert"
    <3>1. change'[b] = change[b] /\ ~Exists(change'[b].id)
      BY <1>10, <2>1, <2>2 DEF Sound
    <3>2. ~Exists(change[b].id)'
      BY <1>8, <3>1 DEF Exists
    <3>3. QED
      BY <2>2, <3>2 DEF Sound
  <2>3. CASE change'[b].pc \in {"walk", "move"}
    BY <1>10, <2>1, <2>3 DEF Sound
  <2>4. CASE change'[b].pc = "delete"
    <3>1. ChildrenOf(change[b].id) \subseteq change[b].joined /\ change'[b].id \in Categories
      BY <1>10, <2>1, <2>4, ChangeFields DEF Sound
    <3>2. ChildrenOf(change[b].id)' \subseteq ChildrenOf(change'[b].id) \ {c}
      BY <1>13, <3>1 DEF ChildrenOf
    <3>3. ChildrenOf(change[b].id)' \subseteq change'[b].joined
      BY <1>10, <2>4, <3>1, <3>2
    <3>4. QED
      BY <2>4, <3>3 DEF Sound
  <2>5. CASE change'[b].pc = "idle"
    BY <2>5 DEF Sound
  <2>6. QED
    BY <1>10, <2>2, <2>3, <2>4, <2>5, ChangeFields
<1>15. InsertsDiffer'
  BY <1>10 DEF TreeInv, InsertsDiffer, Doing
<1>16. CycleNeedsRace'
  <2>1. \A d \in Categories : category'[d] = category[d] \/ category'[d] = NoCategory
          \/ category'[d].parent \notin Categories
    BY <1>5, <1>6, <1>7, CategoryAssumption DEF CategoryAssumption
  <2>2. TreeStaysAcyclic => TreeStaysAcyclic'
    BY <1>1, <2>1, RootsStayAcyclic
  <2>3. QED
    BY <1>3, <2>2 DEF TreeInv, CycleNeedsRace
<1>17. QED
  BY <1>11, <1>12, <1>14, <1>15, <1>16 DEF TreeInv

LEMMA PutInvariant ==
  ASSUME TreeInv, NEW g \in Goods, NEW c \in Categories, PutProduct(g, c)
  PROVE  TreeInv'
<1>1. UNCHANGED <<category, change, raced>> /\ shelf' = [shelf EXCEPT ![g] = c]
  BY DEF PutProduct
<1>2. CategoryTypeOK'
  <2>1. changes' \in 0..MaxChanges
    BY CategoryAssumption DEF PutProduct, TreeInv, CategoryTypeOK, CategoryAssumption
  <2>2. QED
    BY <1>1, <2>1 DEF TreeInv, CategoryTypeOK
<1>3. QED
  BY <1>1, <1>2 DEF TreeInv, ParentsExist, RequestsSound, Sound, InsertsDiffer, CycleNeedsRace,
                    TreeStaysAcyclic, Exists, ChildrenOf, Doing

LEMMA AbandonInvariant ==
  ASSUME TreeInv, NEW a \in Admins, Abandon(a)
  PROVE  TreeInv'
<1>1. Rest \in Change /\ Sound(Rest) /\ Rest.pc # "insert"
  BY DEF Change, Rest, Sound
<1>2. changes' \in 0..MaxChanges
  BY DEF Abandon, TreeInv, CategoryTypeOK
<1>3. QED
  BY <1>1, <1>2, RequestGoesOn DEF Abandon

\* Every step keeps the invariant.
LEMMA TreeNextInvariant == TreeInv /\ [CatNext]_catVars => TreeInv'
<1> SUFFICES ASSUME TreeInv, [CatNext]_catVars PROVE TreeInv'
  OBVIOUS
<1>1. ASSUME NEW a \in Admins, NEW c \in Categories,
             NEW p \in Categories \cup {NoCategory}, CreateCategory(a, c, p)
      PROVE  TreeInv'
  BY <1>1, CreateInvariant
<1>2. ASSUME NEW a \in Admins, NEW c \in Categories, NEW p \in Categories, MoveCategory(a, c, p)
      PROVE  TreeInv'
  BY <1>2, MoveInvariant
<1>3. ASSUME NEW a \in Admins, NEW c \in Categories, MoveToRoot(a, c) \/ RemoveCategory(a, c)
      PROVE  TreeInv'
  BY <1>3, MoveToRootInvariant, RemoveInvariant
<1>4. ASSUME NEW a \in Admins,
             InsertCategory(a) \/ Walk(a) \/ WriteParent(a) \/ DeleteCategory(a) \/ Abandon(a)
      PROVE  TreeInv'
  BY <1>4, InsertInvariant, WalkInvariant, WriteParentInvariant, DeleteInvariant, AbandonInvariant
<1>5. ASSUME NEW c \in Categories, SwitchCategory(c)
      PROVE  TreeInv'
  BY <1>5, SwitchInvariant
<1>6. ASSUME NEW g \in Goods, NEW c \in Categories, PutProduct(g, c)
      PROVE  TreeInv'
  BY <1>6, PutInvariant
<1>7. CASE UNCHANGED catVars
  BY <1>7 DEF catVars, TreeInv, CategoryTypeOK, ParentsExist, RequestsSound, Sound, InsertsDiffer,
              CycleNeedsRace, TreeStaysAcyclic, Exists, ChildrenOf, Doing
<1>8. QED
  BY <1>1, <1>2, <1>3, <1>4, <1>5, <1>6, <1>7 DEF CatNext

LEMMA TreeInvariance == CatSpec => []TreeInv
<1>1. QED
  BY TreeInitInvariant, TreeNextInvariant, PTL DEF CatSpec
-----------------------------------------------------------------------------
\* Every variable of the category tree keeps its type.
THEOREM TreeTypeCorrect == CatSpec => []CategoryTypeOK
<1>1. TreeInv => CategoryTypeOK
  BY DEF TreeInv
<1>2. QED
  BY <1>1, TreeInvariance, PTL

\* For trees of any size and depth: the walk of isDescendant is right, so only a
\* check that was overtaken lets a category come to lie below itself; a category's
\* parent exists, however creations, moves and removals overlap; and remove()
\* takes away from under a category only what came after its check.
THEOREM TreeStaysSound == CatSpec => []TreeSound
<1>1. TreeInv => ParentsExist /\ CycleNeedsRace
  BY DEF TreeInv
<1>2. TreeInv => RemovalSawChildren
  BY DEF TreeInv, RequestsSound, Sound, RemovalSawChildren, Doing
<1>3. TreeInv => TreeSound
  BY <1>1, <1>2 DEF TreeSound
<1>4. QED
  BY <1>3, TreeInvariance, PTL

\* The tree that clients are shown has every category in it, unless one has moved
\* on a check that was overtaken.
THEOREM TreeStaysWhole == CatSpec => []TreeShowsAll
<1>1. ASSUME TreeInv, ~raced
      PROVE  findTree = {c \in Categories : Exists(c)}
  <2> DEFINE There == {c \in Categories : Exists(c)}
             Missing == {c \in There : c \notin findTree}
  <2>1. TreeStaysAcyclic /\ ParentsExist
    BY <1>1 DEF TreeInv, CycleNeedsRace
  <2>2. findTree \subseteq There
    <3>1. There \in SUBSET Categories /\ ChildrenOf(NoCategory) \subseteq There
      BY DEF ChildrenOf
    <3>2. \A x \in There : ChildrenOf(x) \subseteq There
      BY DEF ChildrenOf
    <3> QED
      BY <3>1, <3>2 DEF findTree
  <2>3. ChildrenOf(NoCategory) \subseteq findTree
    BY DEF findTree, ChildrenOf
  <2>4. \A x \in findTree : ChildrenOf(x) \subseteq findTree
    BY DEF findTree, ChildrenOf
  <2>5. Missing = {}
    <3> SUFFICES ASSUME Missing # {} PROVE FALSE
      OBVIOUS
    <3>1. Missing \in SUBSET {c \in Categories : Exists(c)}
      OBVIOUS
    <3>2. PICK c \in Missing : category[c].parent \notin Missing
      BY <2>1, <3>1 DEF TreeStaysAcyclic
    <3>3. c \in Categories /\ Exists(c)
      OBVIOUS
    <3>4. CASE category[c].parent = NoCategory
      BY <2>3, <3>3, <3>4 DEF ChildrenOf
    <3>5. CASE Exists(category[c].parent)
      <4>1. category[c].parent \in findTree
        BY <3>2, <3>5 DEF Exists
      <4>2. c \in ChildrenOf(category[c].parent)
        BY <3>3 DEF ChildrenOf
      <4> QED
        BY <2>4, <4>1, <4>2
    <3> QED
      BY <2>1, <3>3, <3>4, <3>5 DEF ParentsExist
  <2> QED
    BY <2>2, <2>5
<1>2. TreeInv => TreeShowsAll
  BY <1>1 DEF TreeShowsAll
<1>3. QED
  BY <1>2, TreeInvariance, PTL
=================================================================================
