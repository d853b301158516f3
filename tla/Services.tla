-------------------------------- MODULE Services --------------------------------
(***************************************************************************)
(* The components that share no state with each other, side by side.       *)
(*                                                                         *)
(* Each has tables (or a page, a pool, a client) of its own, so nothing    *)
(* that one of them does is seen by another: a behaviour of all of them is *)
(* an interleaving of one behaviour of each.  It is enough to look at one  *)
(* at a time, the one that `focus` names, while the others rest.           *)
(***************************************************************************)
EXTENDS ChannelPool, CategoryTree, DirectChat, Accounts, SwaggerRefresh,
        Listings, Favorites, OrderNumbers, Health, SeedRun, Conversions, Receipts

VARIABLE focus   \* the component that runs

Components ==
  {"pool", "tree", "chat", "accounts", "swagger", "listings", "favorites",
   "numbers", "health", "seed", "conversions", "receipts"}

vars ==
  <<focus, poolVars, catVars, dmVars, accountVars, swaggerVars, listVars, favVars,
    numberVars, healthVars, seedVars, convVars, receiptVars>>
-----------------------------------------------------------------------------
\* A component that is not looked at rests in an initial state that none of its
\* fair actions can leave.
Rests(component, there) == focus # component => there

Init ==
  /\ focus \in Components
  /\ CatInit         /\ Rests("tree", \A c \in Categories : Exists(c))
  /\ AccountInit     /\ Rests("accounts", Registered = {})
  /\ HealthInit      /\ Rests("health", up = Stores)
  /\ SeedInit        /\ Rests("seed", \A t \in Tables : ~Filled(t))
  /\ ConversionsInit /\ Rests("conversions", sample = CHOOSE s \in Samples : TRUE)
  /\ ListingsInit    /\ Rests("listings", rows = {} /\ list = CHOOSE w \in Walks : TRUE)
  /\ SwaggerInit     /\ Rests("swagger", stored = Empty /\ ui)
  /\ PoolInit /\ DmInit /\ FavInit /\ NumberInit /\ ReceiptsInit

Next ==
  \/ /\ focus = "pool" /\ PoolNext
     /\ UNCHANGED <<focus, catVars, dmVars, accountVars, swaggerVars, listVars,
                    favVars, numberVars, healthVars, seedVars, convVars, receiptVars>>
  \/ /\ focus = "tree" /\ CatNext
     /\ UNCHANGED <<focus, poolVars, dmVars, accountVars, swaggerVars, listVars,
                    favVars, numberVars, healthVars, seedVars, convVars, receiptVars>>
  \/ /\ focus = "chat" /\ DmNext
     /\ UNCHANGED <<focus, poolVars, catVars, accountVars, swaggerVars, listVars,
                    favVars, numberVars, healthVars, seedVars, convVars, receiptVars>>
  \/ /\ focus = "accounts" /\ AccountNext
     /\ UNCHANGED <<focus, poolVars, catVars, dmVars, swaggerVars, listVars,
                    favVars, numberVars, healthVars, seedVars, convVars, receiptVars>>
  \/ /\ focus = "swagger" /\ SwaggerNext
     /\ UNCHANGED <<focus, poolVars, catVars, dmVars, accountVars, listVars,
                    favVars, numberVars, healthVars, seedVars, convVars, receiptVars>>
  \/ /\ focus = "listings" /\ ListingsNext
     /\ UNCHANGED <<focus, poolVars, catVars, dmVars, accountVars, swaggerVars,
                    favVars, numberVars, healthVars, seedVars, convVars, receiptVars>>
  \/ /\ focus = "favorites" /\ FavNext
     /\ UNCHANGED <<focus, poolVars, catVars, dmVars, accountVars, swaggerVars,
                    listVars, numberVars, healthVars, seedVars, convVars, receiptVars>>
  \/ /\ focus = "numbers" /\ NumberNext
     /\ UNCHANGED <<focus, poolVars, catVars, dmVars, accountVars, swaggerVars,
                    listVars, favVars, healthVars, seedVars, convVars, receiptVars>>
  \/ /\ focus = "health" /\ HealthNext
     /\ UNCHANGED <<focus, poolVars, catVars, dmVars, accountVars, swaggerVars,
                    listVars, favVars, numberVars, seedVars, convVars, receiptVars>>
  \/ /\ focus = "seed" /\ SeedNext
     /\ UNCHANGED <<focus, poolVars, catVars, dmVars, accountVars, swaggerVars,
                    listVars, favVars, numberVars, healthVars, convVars, receiptVars>>
  \/ /\ focus = "receipts" /\ ReceiptsNext
     /\ UNCHANGED <<focus, poolVars, catVars, dmVars, accountVars, swaggerVars,
                    listVars, favVars, numberVars, healthVars, seedVars, convVars>>

Fairness ==
  /\ PoolFairness /\ CatFairness /\ DmFairness /\ AccountFairness /\ SwaggerFairness
  /\ NumberFairness /\ HealthFairness

Spec == Init /\ [][Next]_vars /\ Fairness

-----------------------------------------------------------------------------
(***************************************************************************)
(* Properties of several components                                        *)
(***************************************************************************)
\* Types of every variable of every component.
AllTypesOK ==
  /\ PoolTypeOK /\ CategoryTypeOK /\ DirectTypeOK /\ AccountTypeOK /\ SwaggerTypeOK
  /\ ListingsTypeOK /\ FavoritesTypeOK /\ OrderNumbersTypeOK /\ HealthTypeOK
  /\ SeedTypeOK /\ ReceiptsTypeOK

\* Whoever waits for something that others hold or that has to be tried again is
\* answered: a publisher for a channel, an administrator for the walk of a move,
\* a buyer for a number, a probe for the Redis client.
RequestsSettle == EmissionSettles /\ WalkEnds /\ DrawEnds /\ CheckAnswers

\* Tokens left over from a withdrawal, a lost role, a logout or an earlier
\* login run out, although nothing revokes them and what is under way when it
\* happens may still renew them once.
LeftoverTokensEnd ==
  WithdrawnLosesAccess /\ DemotedLosesRole /\ LogoutStopsRefresh /\ MixedTokensHeal
=================================================================================
