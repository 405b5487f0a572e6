-------------------------- MODULE ReleaseContract ---------------------------
(***************************************************************************)
(* What a delivery promises, with no executor, lease, file or crash in it: *)
(* the durable effects of one release action appear one at a time and in   *)
(* order, staging moves only from the release an action was told to        *)
(* replace, and an action is reported delivered only when everything it    *)
(* names is there.  DeliveryEffects is shown to implement it.              *)
(***************************************************************************)
CONSTANTS
    Actions,    \* release actions: (run, logical step)
    Replaces,   \* [Actions -> Actions \cup {None}]: what it may replace in staging
    None        \* no release

VARIABLES
    committed,  \* actions whose commit is on its branch
    proposed,   \* actions with a pull request
    archived,   \* actions with a whole artifact
    selected,   \* actions whose release has been the current one
    live,       \* the release staging serves
    delivered   \* actions reported as delivered

contractVars == <<committed, proposed, archived, selected, live, delivered>>

ContractInit ==
    /\ committed = {} /\ proposed = {} /\ archived = {}
    /\ selected = {} /\ delivered = {} /\ live = None

Commit(a) ==
    /\ a \notin committed /\ committed' = committed \cup {a}
    /\ UNCHANGED <<proposed, archived, selected, live, delivered>>

Propose(a) ==
    /\ a \in committed /\ a \notin proposed /\ proposed' = proposed \cup {a}
    /\ UNCHANGED <<committed, archived, selected, live, delivered>>

Archive(a) ==
    /\ a \in proposed /\ a \notin archived /\ archived' = archived \cup {a}
    /\ UNCHANGED <<committed, proposed, selected, live, delivered>>

Select(a) ==
    /\ live' = a /\ live \in {a, Replaces[a]}
    /\ a \in archived /\ selected' = selected \cup {a}
    /\ UNCHANGED <<committed, proposed, archived, delivered>>

Deliver(a) ==
    /\ a \in selected /\ a \notin delivered /\ delivered' = delivered \cup {a}
    /\ UNCHANGED <<committed, proposed, archived, selected, live>>

ContractNext ==
    \E a \in Actions : Commit(a) \/ Propose(a) \/ Archive(a) \/ Select(a) \/ Deliver(a)

ContractSpec == ContractInit /\ [][ContractNext]_contractVars
=============================================================================
