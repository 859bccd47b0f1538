--------------------------- MODULE CatalogProperties ---------------------------
(***************************************************************************)
(* What Catalog must satisfy.                                              *)
(***************************************************************************)
EXTENDS Catalog

(***************************************************************************)
(* The reclassifications of an event are the history of its category: the  *)
(* first leaves the one before the event's present one or an earlier one,  *)
(* each starts where the one before it ended, and the last ended where the *)
(* event is, however many sessions reclassify it at once and wherever they *)
(* are lost (reclassify_event captures the previous category under the     *)
(* lock of the event).                                                     *)
(***************************************************************************)
AuditChain ==
    \A e \in Events :
        /\ \A i \in 1 .. Len(audit[e]) - 1 : audit[e][i].new = audit[e][i + 1].previous
        /\ Len(audit[e]) > 0 => /\ event[e] # Nothing
                                /\ event[e].category = audit[e][Len(audit[e])].new

(***************************************************************************)
(* A movement is reclassified into a category that its owner may use, of   *)
(* its own type, and open at the very moment the change commits, although  *)
(* it was checked two steps and an answer earlier and its owner may        *)
(* archive and rename it meanwhile.                                        *)
(***************************************************************************)
ReclassifiedIntoOpen ==
    [][\A e \in Events :
         audit'[e] # audit[e] =>
           LET row == category'[event'[e].category] IN
           /\ row.active
           /\ row.owner \in {event[e].owner, Global}
           /\ row.type = TypeOf[e]
      ]_catalogVars

(***************************************************************************)
(* Of the categories a user may choose for one type, archived ones among   *)
(* them, no two have the same name, whichever of creation, renaming,       *)
(* archiving and restoring happened at once and in whichever order.        *)
(***************************************************************************)
Choice(u, type) ==
    {c \in Categories : category[c] # Nothing /\ category[c].owner \in {u, Global}
                                              /\ category[c].type = type}

CategoryNamesDistinct ==
    \A u \in Users, type \in Types :
        \A c, d \in Choice(u, type) : category[c].name = category[d].name => c = d

(***************************************************************************)
(* Every request ends: reclassifications that move two events between the  *)
(* same two categories, in opposite directions, wait for each other's      *)
(* category, and the database undoes one of them.                          *)
(***************************************************************************)
CatalogRequestAnswered == \A s \in Sessions : pc[s] # "idle" ~> pc[s] = "idle"

=============================================================================
