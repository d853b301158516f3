-------------------------------- MODULE SeedRun --------------------------------
(***************************************************************************)
(* The seed script (prisma/seed.ts): it empties the tables one after       *)
(* another and fills five of them again, without a transaction.            *)
(*                                                                         *)
(* A run may die anywhere and be started again, and a server may be        *)
(* writing to the same database.  Of a table it matters whether it is      *)
(* empty, holds the rows of the script and nothing else, or anything else. *)
(***************************************************************************)
EXTENDS Naturals, Sequences

CONSTANTS
  MaxRuns,   \* bound: how often the script is started
  MaxGuests  \* bound: rows that the server inserts

ASSUME SeedRunAssumption == MaxRuns \in Nat /\ MaxGuests \in Nat

VARIABLES
  content,   \* table -> what is in it
  stage,     \* the statement that comes next, of main(); 0: no run
  runs, guests,
  outcome,   \* how the last run ended
  visited    \* history: the server has inserted a row during the run

seedVars == <<content, stage, runs, guests, outcome, visited>>
-----------------------------------------------------------------------------
Tables == {"favorite", "review", "chatMessage", "chatRoomMember", "chatRoom",
           "notification", "order", "product", "category", "user"}

\* Seeded fault: categories go before the products in them.
cleanDatabaseCategoryFirst ==
  <<"favorite", "review", "chatMessage", "chatRoomMember", "chatRoom", "notification",
    "order", "category", "product", "user">>

cleanDatabase ==
  <<"favorite", "review", "chatMessage", "chatRoomMember", "chatRoom", "notification",
    "order", "product", "category", "user">>

main == <<"user", "category", "product", "order", "favorite">>

\* Foreign keys of the schema: a row of the first refers to one of the second.
Refers ==
  {<<"product", "category">>, <<"product", "user">>, <<"order", "user">>, <<"order", "product">>,
   <<"review", "order">>, <<"review", "user">>, <<"chatRoomMember", "chatRoom">>,
   <<"chatRoomMember", "user">>, <<"chatMessage", "chatRoom">>, <<"chatMessage", "user">>,
   <<"favorite", "product">>, <<"favorite", "user">>, <<"notification", "user">>}

\* Those that refuse the DELETE of the row they refer to; the others go with it.
Restricts ==
  {<<"product", "category">>, <<"product", "user">>, <<"order", "user">>,
   <<"order", "product">>, <<"review", "user">>}

\* Types of every variable; a script that is over is at stage 0.
SeedTypeOK ==
  /\ content \in [Tables -> {"empty", "seed", "other"}]
  /\ stage \in 0..15 /\ runs \in 0..MaxRuns /\ guests \in 0..MaxGuests
  /\ outcome \in {"none", "died", "refused", "done"} /\ visited \in BOOLEAN

Filled(t)     == content[t] # "empty"
NeededBy(t)   == {u \in Tables : <<u, t>> \in Restricts /\ Filled(u)}
WithRows(t)   == {u \in Tables : <<u, t>> \in Refers \ Restricts}
Cleaning      == stage \in 1..10
Creating      == stage \in 11..15
Deleted       == cleanDatabase[stage]
Created       == main[stage - 10]

\* Any content that the foreign keys allow.
SeedInit ==
  /\ \E filled \in {{}, {"user"}, {"user", "category", "product", "favorite"}, Tables} :
       content = [t \in Tables |-> IF t \in filled THEN "other" ELSE "empty"]
  /\ stage = 0 /\ runs = 0 /\ guests = 0 /\ outcome = "none" /\ visited = FALSE
-----------------------------------------------------------------------------
StartSeed ==
  /\ stage = 0 /\ runs < MaxRuns
  /\ stage' = 1 /\ runs' = runs + 1 /\ outcome' = "none" /\ visited' = FALSE
  /\ UNCHANGED <<content, guests>>

Quit(how) == stage' = 0 /\ outcome' = how /\ UNCHANGED <<runs, guests, visited>>

Continue == /\ stage' = IF stage = 15 THEN 0 ELSE stage + 1
            /\ outcome' = IF stage = 15 THEN "done" ELSE outcome
            /\ UNCHANGED <<runs, guests, visited>>

\* deleteMany of the next table.
CleanTable ==
  /\ Cleaning
  /\ IF NeededBy(Deleted) # {}
       THEN Quit("refused") /\ UNCHANGED content
       ELSE /\ content' = [t \in Tables |-> IF t \in {Deleted} \cup WithRows(Deleted)
                                              THEN "empty" ELSE content[t]]
            /\ Continue

\* The rows the script creates refer to rows it has just created.
ParentsSeeded(t) == \A u \in Tables : <<t, u>> \in Refers => Filled(u)

\* The rows of a table are inserted, all of them; an error ends the script (Die).
Create(t) ==
  /\ Creating /\ Created = t /\ ParentsSeeded(t)
  /\ content' = [content EXCEPT ![t] = IF @ = "empty" THEN "seed" ELSE "other"]
  /\ Continue

createUsers == Create("user")

\* Parents before their children: one INSERT after another.
createCategories == Create("category")

createProducts == Create("product")

createOrders == Create("order")

\* One row at a time; an INSERT that fails is skipped.
createFavorites ==
  /\ stage = 15 /\ ParentsSeeded("favorite")
  /\ \E all \in BOOLEAN :
       content' = [content EXCEPT !["favorite"] =
         IF @ # "empty" \/ ~all THEN "other" ELSE "seed"]
  /\ Continue

\* A statement fails (a unique key of a row the server has inserted, a lost
\* connection) or the process is killed; of the rows that createX inserts at
\* the same time some may be there.
Die ==
  /\ stage # 0 /\ Quit("died")
  /\ content' \in {content} \cup
       (IF Creating THEN {[content EXCEPT ![Created] = "other"]} ELSE {})

\* A request of a server that uses the same database.
ServerInserts(t) ==
  /\ guests < MaxGuests /\ guests' = guests + 1 /\ ParentsSeeded(t)
  /\ content' = [content EXCEPT ![t] = "other"]
  /\ visited' = (stage # 0 \/ visited)
  /\ UNCHANGED <<stage, runs, outcome>>

SeedNext ==
  \/ StartSeed
  \/ CleanTable
  \/ createUsers
  \/ createCategories
  \/ createProducts
  \/ createOrders
  \/ createFavorites
  \/ Die
  \/ \E t \in Tables : ServerInserts(t)

SeedSpec == SeedInit /\ [][SeedNext]_seedVars
-----------------------------------------------------------------------------
\* No DELETE of the script is refused by a foreign key, whatever an earlier run
\* that died has left, unless the server has inserted rows meanwhile.
CleanRefusedByServerOnly == outcome = "refused" => visited

\* A run that ends well after any number that died leaves what the script holds
\* and nothing else, favourites apart, whose failures it skips.
DoneMeansSeeded ==
  outcome = "done" /\ guests = 0 =>
    \A t \in Tables \ {"favorite"} :
      content[t] = IF \E i \in DOMAIN main : main[i] = t THEN "seed" ELSE "empty"

\* The script may be killed anywhere and started again: it finds a way through
\* what is there, and what it leaves when it ends is what it should.
SeedSound == CleanRefusedByServerOnly /\ DoneMeansSeeded
=============================================================================
