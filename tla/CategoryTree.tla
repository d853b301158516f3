----------------------------- MODULE CategoryTree -----------------------------
(***************************************************************************)
(* The tree of categories: CategoriesService and CategoriesRepository.     *)
(*                                                                         *)
(* Every query is a statement of its own.  Before a category moves, the    *)
(* service walks everything below it, one query per category, looking for  *)
(* the new parent, and writes the parent afterwards: other administrators  *)
(* may write in between.  The same holds for the checks of create() and    *)
(* remove().  A request that is refused changes nothing and is no step;    *)
(* among the refusals left out are those for a name or slug in use, whose  *)
(* races end in the unique indexes (Abandon).                              *)
(***************************************************************************)
EXTENDS Naturals, FiniteSets, SequencesExt

CONSTANTS
  Categories,  \* ids a category may take
  Goods,       \* products, as far as they keep a category from being removed
  Admins,      \* bound: how many requests overlap
  NoCategory,  \* no such row; as a parent: a root
  MaxChanges   \* bound: how many changes are started

ASSUME CategoryAssumption ==
  /\ IsFiniteSet(Categories) /\ NoCategory \notin Categories
  /\ NoCategory \notin [parent : Categories \cup {NoCategory}, active : BOOLEAN]
  /\ MaxChanges \in Nat

VARIABLES
  category,  \* table categories: id -> row
  shelf,     \* products.categoryId
  change,    \* slot -> what is left of the request in it
  changes,   \* requests started, for the bound
  raced      \* history: a category has moved on a check that was overtaken

catVars == <<category, shelf, change, changes, raced>>
-----------------------------------------------------------------------------
CategoryRow == [parent : Categories \cup {NoCategory}, active : BOOLEAN]

Rest == [pc |-> "idle"]

\* `seen`, `overtaken` and `joined` are history: the categories the walk has
\* asked for their children, whether a parent was written since it began, and
\* the children a category got since its removal was checked.
Change ==
  {Rest}
  \cup [pc : {"insert"}, id : Categories, parent : Categories \cup {NoCategory}]
  \cup [pc : {"walk"}, id : Categories, parent : Categories, todo : Seq(Categories),
        seen : SUBSET Categories, overtaken : BOOLEAN]
  \cup [pc : {"move"}, id : Categories, parent : Categories \cup {NoCategory},
        seen : SUBSET Categories, overtaken : BOOLEAN]
  \cup [pc : {"delete"}, id : Categories, joined : SUBSET Categories]

\* Types of every variable.
CategoryTypeOK ==
  /\ category \in [Categories -> CategoryRow \cup {NoCategory}]
  /\ shelf \in [Goods -> Categories \cup {NoCategory}]
  /\ change \in [Admins -> Change]
  /\ changes \in 0..MaxChanges
  /\ raced \in BOOLEAN

Exists(c)     == c \in Categories /\ category[c] # NoCategory
ChildrenOf(c) == {x \in Categories : Exists(x) /\ category[x].parent = c}
ParentIsOpen(p) == p = NoCategory \/ (Exists(p) /\ category[p].active)
Doing(a, pc)  == change[a].pc = pc

\* Seeded fault: the two levels that findRootCategories reads are all of it.
findTreeTwoLevels ==
  ChildrenOf(NoCategory) \cup UNION {ChildrenOf(c) : c \in ChildrenOf(NoCategory)}

\* findTree on a table that stands still: the roots, then the children of what has
\* been loaded, until there are no more.
findTree ==
  {c \in Categories : \A S \in SUBSET Categories :
     ChildrenOf(NoCategory) \subseteq S /\ (\A x \in S : ChildrenOf(x) \subseteq S) => c \in S}

\* Any number of active root categories.
CatInit ==
  /\ \E some \in {some \in SUBSET Categories : Cardinality(Categories \ some) <= 1} :
       category = [c \in Categories |-> IF c \in some
                                          THEN [parent |-> NoCategory, active |-> TRUE]
                                          ELSE NoCategory]
  /\ shelf = [g \in Goods |-> NoCategory]
  /\ change = [a \in Admins |-> Rest]
  /\ changes = 0 /\ raced = FALSE
-----------------------------------------------------------------------------
StartChange(a, next) ==
  /\ Doing(a, "idle") /\ changes < MaxChanges
  /\ change' = [change EXCEPT ![a] = next]
  /\ changes' = changes + 1
  /\ UNCHANGED <<category, shelf, raced>>

\* After a write of x's parent, for the request in slot b: a walk or a move
\* that is under way has been overtaken, a removal may have got a child.
Noticed(x, p, b) ==
  CASE Doing(b, "walk") \/ Doing(b, "move") -> [change[b] EXCEPT !.overtaken = TRUE]
    [] Doing(b, "delete") -> [change[b] EXCEPT !.joined = IF change[b].id = p THEN @ \cup {x} ELSE @]
    [] OTHER -> change[b]

\* The request in a ends with a write of x's parent.
EndWithParent(a, x, p) ==
  change' = [b \in Admins |-> IF b = a THEN Rest ELSE Noticed(x, p, b)]

\* create(), up to the INSERT.
CreateCategory(a, c, p) ==
  /\ ~Exists(c) /\ ParentIsOpen(p)
  /\ \A b \in Admins : Doing(b, "insert") => change[b].id # c
  /\ StartChange(a, [pc |-> "insert", id |-> c, parent |-> p])

\* The INSERT; connect raises when the parent is gone.
InsertCategory(a) ==
  /\ Doing(a, "insert")
  /\ LET c == change[a].id  p == change[a].parent IN
       /\ p = NoCategory \/ Exists(p)
       /\ category' = [category EXCEPT ![c] = [parent |-> p, active |-> TRUE]]
       /\ EndWithParent(a, c, p)
  /\ UNCHANGED <<shelf, changes, raced>>

\* update() with a new parent, up to the first query of isDescendant.
MoveCategory(a, c, p) ==
  /\ Exists(c) /\ p # c /\ Exists(p) /\ category[p].active
  /\ StartChange(a, [pc |-> "walk", id |-> c, parent |-> p, todo |-> <<c>>,
                     seen |-> {}, overtaken |-> FALSE])

\* update() with parentId null.
MoveToRoot(a, c) ==
  /\ Exists(c)
  /\ StartChange(a, [pc |-> "move", id |-> c, parent |-> NoCategory,
                     seen |-> {}, overtaken |-> FALSE])

\* Seeded fault: only the children are compared, not what is below them.
WalkChildrenOnly(a) ==
  /\ Doing(a, "walk")
  /\ LET here == change[a]  n == Head(here.todo) IN
       \/ /\ here.parent \in ChildrenOf(n)
          /\ change' = [change EXCEPT ![a] = Rest]
       \/ /\ here.parent \notin ChildrenOf(n)
          /\ change' = [change EXCEPT ![a] =
               [pc |-> "move", id |-> here.id, parent |-> here.parent,
                seen |-> here.seen \cup {n}, overtaken |-> here.overtaken]]
  /\ UNCHANGED <<category, shelf, changes, raced>>

\* isDescendant: one query for the children of the next category, in the order
\* of the siblings, which is any; a child is compared before it is asked.
\* Bound: round a cycle the list grows for ever; no forest makes it longer than
\* the number of categories.
Walk(a) ==
  /\ Doing(a, "walk") /\ Len(change[a].todo) <= Cardinality(Categories)
  /\ LET here == change[a]  n == Head(here.todo) IN
     \E below \in SetToSeqs(ChildrenOf(n)) :
       LET todo == below \o Tail(here.todo) IN
       change' = [change EXCEPT ![a] =
         CASE todo = <<>> ->
                [pc |-> "move", id |-> here.id, parent |-> here.parent,
                 seen |-> here.seen \cup {n}, overtaken |-> here.overtaken]
           [] todo # <<>> /\ Head(todo) = here.parent -> Rest
           [] OTHER -> [here EXCEPT !.todo = todo, !.seen = @ \cup {n}]]
  /\ UNCHANGED <<category, shelf, changes, raced>>

\* The UPDATE of the parent; it raises when either row is gone.
WriteParent(a) ==
  /\ Doing(a, "move")
  /\ LET c == change[a].id  p == change[a].parent IN
       /\ Exists(c) /\ (p = NoCategory \/ Exists(p))
       /\ category' = [category EXCEPT ![c].parent = p]
       /\ raced' = (raced \/ (p # NoCategory /\ change[a].overtaken))
       /\ EndWithParent(a, c, p)
  /\ UNCHANGED <<shelf, changes>>

\* update() of isActive; the children stay as they are.  Nothing but the row
\* itself is looked at between its read and its write.
SwitchCategory(c) ==
  /\ Exists(c) /\ changes < MaxChanges
  /\ category' = [category EXCEPT ![c].active = ~@]
  /\ changes' = changes + 1
  /\ UNCHANGED <<shelf, change, raced>>

\* remove(), up to the DELETE: no children, no products.
RemoveCategory(a, c) ==
  /\ Exists(c) /\ ChildrenOf(c) = {} /\ \A g \in Goods : shelf[g] # c
  /\ StartChange(a, [pc |-> "delete", id |-> c, joined |-> {}])

\* The DELETE: refused while a product refers to the row; children that have
\* come meanwhile become roots (ON DELETE SET NULL).
DeleteCategory(a) ==
  /\ Doing(a, "delete") /\ Exists(change[a].id)
  /\ LET c == change[a].id IN
       /\ \A g \in Goods : shelf[g] # c
       /\ category' = [x \in Categories |->
            IF x = c THEN NoCategory
            ELSE IF x \in ChildrenOf(c) THEN [category[x] EXCEPT !.parent = NoCategory]
            ELSE category[x]]
       /\ change' = [b \in Admins |-> IF b = a THEN Rest
            ELSE IF Doing(b, "walk") \/ Doing(b, "move")
                   THEN [change[b] EXCEPT !.overtaken = TRUE]
            ELSE IF Doing(b, "delete")
                   THEN [change[b] EXCEPT !.joined = @ \ {c}]
            ELSE change[b]]
  /\ UNCHANGED <<shelf, changes, raced>>

\* A product is created in a category, or moved to one.
PutProduct(g, c) ==
  /\ Exists(c) /\ shelf[g] # c
  /\ shelf' = [shelf EXCEPT ![g] = c]
  /\ changes < MaxChanges /\ changes' = changes + 1
  /\ UNCHANGED <<category, change, raced>>

\* A write that raises (a row is gone, a key is taken, a product refers to the
\* row), or a request that dies.
Abandon(a) ==
  /\ ~Doing(a, "idle")
  /\ change' = [change EXCEPT ![a] = Rest]
  /\ UNCHANGED <<category, shelf, changes, raced>>

CatNext ==
  \/ \E a \in Admins :
       \/ \E c \in Categories :
            \/ \E p \in Categories \cup {NoCategory} : CreateCategory(a, c, p)
            \/ \E p \in Categories : MoveCategory(a, c, p)
            \/ MoveToRoot(a, c)
            \/ RemoveCategory(a, c)
       \/ InsertCategory(a)
       \/ Walk(a)
       \/ WriteParent(a)
       \/ DeleteCategory(a)
       \/ Abandon(a)
  \/ \E c \in Categories : SwitchCategory(c)
  \/ \E g \in Goods, c \in Categories : PutProduct(g, c)

\* The database answers the next query of a walk.
CatFairness == \A a \in Admins : WF_catVars(Walk(a))

CatSpec == CatInit /\ [][CatNext]_catVars /\ CatFairness
-----------------------------------------------------------------------------
(***************************************************************************)
(* Properties                                                              *)
(***************************************************************************)
\* No category is below itself: every set of categories has a member whose
\* parent is outside.  The service refuses a parent from below ("circular
\* reference"); two moves that overlap get past it.
TreeStaysAcyclic ==
  \A S \in SUBSET {c \in Categories : Exists(c)} :
    S # {} => \E c \in S : category[c].parent \notin S

\* A cycle takes an overtaken check: as long as no category moves on a check
\* during which another parent was written, the walk of update() keeps the
\* categories a forest.
CycleNeedsRace == ~raced => TreeStaysAcyclic

\* The tree shown to clients is complete for as long as there has been no race:
\* a category on a cycle is reached from no root and disappears from it.
TreeShowsAll == ~raced => findTree = {c \in Categories : Exists(c)}

\* The parent of a category exists: what a removal leaves below it becomes a
\* root, and nothing is attached to a row that is gone.
ParentsExist ==
  \A c \in Categories : Exists(c) => category[c].parent = NoCategory \/ Exists(category[c].parent)

\* A removal makes roots of those children only that were attached after it
\* had been checked.
RemovalSawChildren ==
  \A a \in Admins : Doing(a, "delete") => ChildrenOf(change[a].id) \subseteq change[a].joined

\* The checks of update() and remove(), a query at a time and no transaction
\* around them, keep a forest in which nothing hangs below a row that is gone; what
\* gets past them is a race, and named.
TreeSound == CycleNeedsRace /\ ParentsExist /\ RemovalSawChildren

\* The walk of a move ends, unless categories have been made a cycle.
WalkEnds ==
  \A a \in Admins : []<>(~Doing(a, "walk") \/ raced)
==============================================================================
