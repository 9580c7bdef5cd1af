---------------------------- MODULE ModelLifecycle ----------------------------
(***************************************************************************)
(* The model registry (evaluation/model_registry.py): models of several    *)
(* families are registered, validated, promoted to champion of their       *)
(* family, degraded, demoted, and reinstated by a rollback.  The registry  *)
(* keeps the status of every model, one champion record for a family, and  *)
(* an audit trail, and changes them one after the other.                   *)
(*                                                                         *)
(* Of the trail the model keeps, for every model, the state its latest     *)
(* event reports.  promote_to_champion and rollback_champion look for a    *)
(* second champion only when they have changed everything, so that the     *)
(* exception they raise then leaves the same state as their return.        *)
(***************************************************************************)
EXTENDS FiniteSets

CONSTANTS
    Models, Families,
    FamilyOf,        \* model_family of every model
    Parents,         \* the parent_model_ids a model may be registered with
    DirectCrowning,  \* transition_state is called with CHAMPION as well
    None

ASSUME LifecycleAssumption ==
    /\ FamilyOf \in [Models -> Families]
    /\ Parents \in [Models -> SUBSET (Models \cup {None})]
    /\ DirectCrowning \in BOOLEAN
    /\ None \notin Models

VARIABLES
    status,    \* status of every model, NEW before it is registered
    parent,    \* parent_model_id
    champion,  \* _champions: model and rollback_parent, by family
    told,      \* the state the latest event about a model reports
    served     \* history: models that have been champion

vars == <<status, parent, champion, told, served>>

States == {"CANDIDATE", "VALIDATING", "VALIDATED", "SHADOW", "ELIGIBLE", "CHAMPION", "DEGRADED",
           "DRIFTING", "DEMOTED", "SUSPENDED", "REJECTED", "ARCHIVED"}

\* VALID_TRANSITIONS
Valid == [s \in States |->
    CASE s = "CANDIDATE" -> {"VALIDATING", "REJECTED"}
      [] s = "VALIDATING" -> {"VALIDATED", "REJECTED"}
      [] s = "VALIDATED" -> {"SHADOW", "ELIGIBLE", "REJECTED"}
      [] s = "SHADOW" -> {"ELIGIBLE", "VALIDATED", "REJECTED"}
      [] s = "ELIGIBLE" -> {"CHAMPION", "REJECTED"}
      [] s = "CHAMPION" -> {"DEGRADED", "DRIFTING", "DEMOTED", "SUSPENDED", "ARCHIVED"}
      [] s = "DEGRADED" -> {"CHAMPION", "DRIFTING", "DEMOTED", "SUSPENDED"}
      [] s = "DRIFTING" -> {"CHAMPION", "DEMOTED", "SUSPENDED"}
      [] s = "DEMOTED" -> {"ARCHIVED", "REJECTED"}
      [] s = "SUSPENDED" -> {"DEMOTED", "ARCHIVED"}
      [] s = "REJECTED" -> {"ARCHIVED"}
      [] s = "ARCHIVED" -> {}]

Records == [model : Models, back : Models \cup {None}, promoted : BOOLEAN]
NoChampion == [model |-> None, back |-> None, promoted |-> FALSE]

TypeOK ==
    /\ status \in [Models -> States \cup {"NEW"}]
    /\ parent \in [Models -> Models \cup {None}]
    /\ champion \in [Families -> Records \cup {NoChampion}]
    /\ told \in [Models -> States \cup {"NEW"}]
    /\ served \subseteq Models

Init ==
    /\ status = [m \in Models |-> "NEW"]
    /\ parent = [m \in Models |-> None]
    /\ champion = [f \in Families |-> NoChampion]
    /\ told = status
    /\ served = {}

-----------------------------------------------------------------------------

\* register_model: an identity is used once.
Register(m) ==
    /\ status[m] = "NEW"
    /\ status' = [status EXCEPT ![m] = "CANDIDATE"]
    /\ told' = [told EXCEPT ![m] = "CANDIDATE"]
    /\ \E p \in Parents[m] : parent' = [parent EXCEPT ![m] = p]
    /\ UNCHANGED <<champion, served>>

\* transition_state
Transition(m) ==
    /\ status[m] # "NEW"
    /\ \E s \in Valid[status[m]] :
          /\ s = "CHAMPION" => DirectCrowning
          /\ status' = [status EXCEPT ![m] = s]
          /\ told' = [told EXCEPT ![m] = s]
          /\ served' = IF s = "CHAMPION" THEN served \cup {m} ELSE served
    /\ UNCHANGED <<parent, champion>>

\* A rejected model may be promoted after all.
PromotableAnyway == {"ELIGIBLE", "VALIDATED", "REJECTED"}

Promotable == {"ELIGIBLE", "VALIDATED"}

\* The reigning champion goes, if it is in that state still.
Superseded(f) ==
    LET c == champion[f].model IN IF c # None /\ status[c] = "CHAMPION" THEN {c} ELSE {}

\* The predecessor's archiving is not recorded.
PromoteUnrecorded(m) ==
    LET f == FamilyOf[m]
    IN  /\ status[m] \in Promotable
        /\ status' = [x \in Models |-> IF x = m THEN "CHAMPION"
                                       ELSE IF x \in Superseded(f) THEN "ARCHIVED" ELSE status[x]]
        /\ told' = [told EXCEPT ![m] = "CHAMPION"]
        /\ champion' = [champion EXCEPT ![f] = [model |-> m, back |-> @.model, promoted |-> TRUE]]
        /\ served' = served \cup {m}
        /\ UNCHANGED parent

\* The predecessor keeps its status.
PromoteBeside(m) ==
    LET f == FamilyOf[m]
    IN  /\ status[m] \in Promotable
        /\ status' = [status EXCEPT ![m] = "CHAMPION"]
        /\ told' = [told EXCEPT ![m] = "CHAMPION"]
        /\ champion' = [champion EXCEPT ![f] = [model |-> m, back |-> @.model, promoted |-> TRUE]]
        /\ served' = served \cup {m}
        /\ UNCHANGED parent

\* promote_to_champion
Promote(m) ==
    LET f == FamilyOf[m]
        seated(g) == [x \in Models |-> IF x = m THEN "CHAMPION"
                                       ELSE IF x \in Superseded(f) THEN "ARCHIVED" ELSE g[x]]
    IN  /\ status[m] \in Promotable
        /\ status' = seated(status)
        /\ told' = seated(told)
        /\ champion' = [champion EXCEPT ![f] = [model |-> m, back |-> @.model, promoted |-> TRUE]]
        /\ served' = served \cup {m}
        /\ UNCHANGED parent

\* rollback_champion: the target takes over whatever its status is, and its own
\* target is the model it was trained from.
Rollback(f) ==
    LET c == champion[f].model
        target == champion[f].back
        swapped(g) == [x \in Models |-> IF x = target THEN "CHAMPION"
                                        ELSE IF x = c THEN "DEMOTED" ELSE g[x]]
    IN  /\ c # None /\ target # None
        /\ status[target] # "NEW"
        /\ status' = swapped(status)
        /\ told' = swapped(told)
        /\ champion' = [champion EXCEPT ![f] = [model |-> target, back |-> parent[target],
                                                promoted |-> FALSE]]
        /\ served' = served \cup {target}
        /\ UNCHANGED parent

Next ==
    \/ \E m \in Models : Register(m) \/ Transition(m) \/ Promote(m)
    \/ \E f \in Families : Rollback(f)

Spec == Init /\ [][Next]_vars

-----------------------------------------------------------------------------
\* "Enforces exactly one active Champion per model family", and it is the one
\* the champion record names: through promotions while the champion is degraded,
\* late demotions and repeated rollbacks.
OneChampion ==
    \A m \in Models : status[m] = "CHAMPION" => champion[FamilyOf[m]].model = m

\* The audit trail tells the status of every model: no promotion or rollback
\* moves another model silently.
TrailTellsStatus == told = status

\* "atomic rollback to previously approved models": as long as the champion was
\* promoted, the model it would be rolled back to has been champion itself.
RollbackTargetServed ==
    \A f \in Families : champion[f].promoted => champion[f].back \in served \cup {None}

\* A model that has been champion never goes back to being validated: what it is
\* then, only transitions to the worse, a retirement or a rollback decide.
AfterService ==
    \A m \in served :
        status[m] \in {"CHAMPION", "DEGRADED", "DRIFTING", "DEMOTED", "SUSPENDED", "REJECTED", "ARCHIVED"}

\* What every operation of the registry keeps.
RegistryInv == TypeOK /\ TrailTellsStatus /\ RollbackTargetServed /\ AfterService

\* A model that was archived, rejected, suspended or demoted serves again only
\* when a rollback of its family's champion goes back to it.
RevivedByRollback ==
    [][\A m \in Models :
          /\ status[m] \in {"ARCHIVED", "REJECTED", "SUSPENDED", "DEMOTED"}
          /\ status'[m] = "CHAMPION"
          => champion[FamilyOf[m]].back = m /\ champion'[FamilyOf[m]].model = m]_vars
=============================================================================
