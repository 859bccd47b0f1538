------------------------------ MODULE MCCatalogFx ------------------------------
(***************************************************************************)
(* Small instances of Catalog and FxQuotes for TLC, in one exploration:    *)
(* the two have no table in common, so that `running' chooses at the start *)
(* which of them takes steps, and the other one stays as it is.            *)
(*                                                                         *)
(* Catalog: ana names two categories beside the global one, and two of her *)
(* expenses move between them.                                             *)
(***************************************************************************)
EXTENDS MCFx, CatalogProperties

CONSTANTS ana, everybody, food, fun, gym, lunch, cinema, k1, k2

VARIABLE running

MCUsers == {ana}
MCCategories == {food, fun, gym}
MCEvents == {lunch, cinema}
MCKeys == {k1, k2}
MCRows == MCCategories \cup MCEvents \cup MCKeys
MCTypeOf == [e \in MCEvents |-> "expense"]
MCProvided ==
    [c \in MCCategories |->
        IF c = food THEN [owner |-> everybody, type |-> "expense", name |-> "food", active |-> TRUE]
        ELSE Nothing]

Profile(u) == [op |-> "bootstrap", user |-> u]
New(name) == [op |-> "create", user |-> ana, type |-> "expense", name |-> name]
Rename(c, name) == [op |-> "rename", user |-> ana, category |-> c, name |-> name]
On(op, c) == [op |-> op, user |-> ana, category |-> c]
Spend(e, c) == [op |-> "record", user |-> ana, event |-> e, category |-> c]
Reclassify(u, e, c, k) ==
    [op |-> "reclassify", user |-> u, event |-> e, category |-> c, key |-> k]

MCRequests ==
    {Profile(ana), New("fun"), New("gym"), Rename(fun, "gym"),
     On("archive", fun), On("restore", fun), Spend(lunch, food), Spend(cinema, fun),
     Reclassify(ana, lunch, fun, k1), Reclassify(ana, cinema, food, k2),
     Reclassify(ana, lunch, food, k2), Reclassify(ana, lunch, gym, k2)}

MCInit == running \in {"catalog", "fx"} /\ CatalogInit /\ FxInit

MCNext ==
    \/ running = "catalog" /\ CatalogNext /\ UNCHANGED <<running, fxVars>>
    \/ running = "fx" /\ FxNext /\ UNCHANGED <<running, catalogVars>>

MCSpec == MCInit /\ [][MCNext]_<<running, catalogVars, fxVars>> /\ CatalogFairness

=============================================================================
