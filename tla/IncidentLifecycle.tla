--------------------------- MODULE IncidentLifecycle ---------------------------
(***************************************************************************)
(* What an operator may rely on when watching topology incidents, whatever *)
(* evaluates them: an incident is reported through a fixed sequence of     *)
(* states, what is over stays over, and one server has at most one live    *)
(* incident of a kind.                                                     *)
(***************************************************************************)
EXTENDS Naturals

CONSTANTS
    Keys,           \* (server, kind) pairs
    Rows            \* incident ids

VARIABLES
    key,            \* [Rows -> Keys], meaningful once the incident exists
    reported        \* [Rows -> Report]

lifecycle == <<key, reported>>

Live == {"pending", "open", "recovering"}
Over == {"resolved", "suppressed"}
Report == {"absent"} \cup Live \cup Over

Init == reported = [i \in Rows |-> "absent"] /\ key \in [Rows -> Keys]

LiveOn(k) == \E i \in Rows : reported[i] \in Live /\ key[i] = k

Follows == [absent |-> {"absent", "pending", "open"},
            pending |-> {"pending", "open", "suppressed"},
            open |-> {"open", "recovering"},
            recovering |-> {"recovering", "open", "resolved"},
            resolved |-> {"resolved"},
            suppressed |-> {"suppressed"}]

\* One evaluation moves any number of incidents, each by one step.
Evaluate ==
    /\ reported' \in [Rows -> Report]
    /\ \A i \in Rows : reported'[i] \in Follows[reported[i]]
    /\ \A i \in Rows : reported[i] # "absent" => key'[i] = key[i]
    /\ \A i \in Rows : reported[i] = "absent" /\ reported'[i] # "absent" => ~ LiveOn(key'[i])
    /\ \A i, j \in Rows : /\ i # j
                          /\ reported'[i] \in Live /\ reported'[j] \in Live
                          => key'[i] # key'[j]

Spec == Init /\ [][Evaluate]_lifecycle
=============================================================================
