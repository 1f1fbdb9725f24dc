-------------------------------- MODULE Drain --------------------------------
(***************************************************************************)
(* Draining one node (internal/k8s/nodes.go, DrainNode): cordon, list,     *)
(* and evict by name, again and again, until nothing is left or the        *)
(* deadline has passed, while pods die, come back under their names and    *)
(* other administrators drain or uncordon the same node.                   *)
(***************************************************************************)
EXTENDS Naturals, FiniteSets

CONSTANTS Names,    \* the names of pods
          Exempt,   \* of those, DaemonSet-managed and mirror pods
          Drains    \* drains of the node

ASSUME DrainAssumption == Exempt \subseteq Names

VARIABLES pods,       \* where the pod of each name is
          cordoned,   \* the node is unschedulable
          drain       \* what each drain has done

drainVars == <<pods, cordoned, drain>>

\* "leaving" the node, after an eviction or a deletion
Place == {"here", "leaving", "away", "gone"}

\* Of a drain: how far it is, the pods it found, those it still has to evict,
\* those of them this pass has not tried, whether one was blocked in it, whether
\* the deadline has passed, and whether the node has been cordoned since.
DrainState ==
  [at : {"idle", "list", "pass", "evict", "sleep", "reported", "failed"},
   plan : SUBSET Names, remaining : SUBSET Names, todo : SUBSET Names,
   blocked : BOOLEAN, late : BOOLEAN, kept : BOOLEAN]

DrainTypeOK ==
  /\ pods \in [Names -> Place] /\ cordoned \in BOOLEAN
  /\ drain \in [Drains -> DrainState]
  /\ \A d \in Drains : /\ drain[d].todo \subseteq drain[d].remaining
                       /\ drain[d].remaining \subseteq drain[d].plan

Goes(d, s) == drain' = [drain EXCEPT ![d] = s]
Here == {n \in Names \ Exempt : pods[n] = "here"}

-----------------------------------------------------------------------------
\* CordonNode comes first; its error ends the drain.
DrainStarts(d) ==
  /\ drain[d].at = "idle"
  /\ \/ cordoned' = TRUE /\ Goes(d, [drain[d] EXCEPT !.at = "list", !.kept = TRUE])
     \/ Goes(d, [drain[d] EXCEPT !.at = "failed"]) /\ UNCHANGED cordoned
  /\ UNCHANGED pods

\* buildDrainReport: the pods of the node but those that are exempt or leaving.
Lists(d) ==
  /\ drain[d].at = "list"
  /\ \/ Goes(d, [drain[d] EXCEPT !.at = "pass", !.plan = Here, !.remaining = Here])
     \/ Goes(d, [drain[d] EXCEPT !.at = "failed"])
  /\ UNCHANGED <<pods, cordoned>>

\* A fault: the loop has no deadline.
PassOverWhenEmpty(s) == s.remaining = {}

\* The loop's condition: another pass over what remains, or the report.
PassOver(s) == s.remaining = {} \/ s.late

PassStarts(d) ==
  /\ drain[d].at = "pass"
  /\ Goes(d, IF PassOver(drain[d])
             THEN [drain[d] EXCEPT !.at = "reported"]
             ELSE [drain[d] EXCEPT !.at = "evict", !.todo = drain[d].remaining,
                                   !.blocked = FALSE])
  /\ UNCHANGED <<pods, cordoned>>

\* A fault: an evicted pod is not crossed off this pass.
GoneKeepsTodo(s, n) == [s EXCEPT !.remaining = @ \ {n}]

\* The apiserver evicts the pod of that name, wherever it is now; one that is
\* gone is not found.
Evicted(n) ==
  [pods EXCEPT ![n] = CASE @ = "here" -> "leaving" [] @ = "away" -> "gone" [] OTHER -> @]
Gone(s, n) == [s EXCEPT !.todo = @ \ {n}, !.remaining = @ \ {n}]

\* A fault: an error other than 429 is not retried.
BlockedForgets(s, n) == [s EXCEPT !.todo = @ \ {n}, !.remaining = @ \ {n}]

\* A budget, or another error: the pod stays for the next pass.
Blocked(s, n) == [s EXCEPT !.todo = @ \ {n}, !.blocked = TRUE]

Evicts(d) ==
  /\ drain[d].at = "evict"
  /\ \E n \in drain[d].todo :
       \/ pods' = Evicted(n) /\ Goes(d, Gone(drain[d], n))
       \/ Goes(d, Blocked(drain[d], n)) /\ UNCHANGED pods
  /\ UNCHANGED cordoned

PassEnds(d) ==
  /\ drain[d].at = "evict" /\ drain[d].todo = {}
  /\ Goes(d, [drain[d] EXCEPT !.at = IF drain[d].blocked THEN "sleep" ELSE "pass"])
  /\ UNCHANGED <<pods, cordoned>>

\* Five seconds later, or the client has gone.
Wakes(d) ==
  /\ drain[d].at = "sleep"
  /\ \E next \in {"pass", "failed"} : Goes(d, [drain[d] EXCEPT !.at = next])
  /\ UNCHANGED <<pods, cordoned>>

Deadline(d) ==
  /\ drain[d].at \in {"pass", "evict", "sleep"} /\ ~drain[d].late
  /\ Goes(d, [drain[d] EXCEPT !.late = TRUE])
  /\ UNCHANGED <<pods, cordoned>>

-----------------------------------------------------------------------------
\* Another administrator.
Uncordon ==
  /\ cordoned /\ cordoned' = FALSE
  /\ drain' = [d \in Drains |-> [drain[d] EXCEPT !.kept = FALSE]]
  /\ UNCHANGED pods

\* The cluster: a pod ends or is deleted; a controller makes it again, and the
\* scheduler does not put it on a cordoned node.
PodEnds ==
  /\ \E n \in Names : pods[n] # "gone" /\ pods' = [pods EXCEPT ![n] = "gone"]
  /\ UNCHANGED <<cordoned, drain>>

PodComes ==
  /\ \E n \in Names :
       /\ pods[n] = "gone"
       /\ \/ pods' = [pods EXCEPT ![n] = "away"]
          \/ (~cordoned \/ n \in Exempt) /\ pods' = [pods EXCEPT ![n] = "here"]
  /\ UNCHANGED <<cordoned, drain>>

-----------------------------------------------------------------------------
DrainInit ==
  /\ pods \in [Names -> {"here", "away", "gone"}]
  /\ cordoned \in BOOLEAN
  /\ drain = [d \in Drains |-> [at |-> "idle", plan |-> {}, remaining |-> {}, todo |-> {},
                                blocked |-> FALSE, late |-> FALSE, kept |-> FALSE]]

DrainStep(d) == Lists(d) \/ PassStarts(d) \/ Evicts(d) \/ PassEnds(d) \/ Wakes(d)

DrainNext ==
  \/ \E d \in Drains : DrainStarts(d) \/ DrainStep(d) \/ Deadline(d)
  \/ Uncordon \/ PodEnds \/ PodComes

DrainSpec == DrainInit /\ [][DrainNext]_drainVars

-----------------------------------------------------------------------------
\* A drain that reports that nothing remained leaves nothing on the node, if
\* nobody has uncordoned it: no pod slipped in after the list, and none was
\* counted as evicted that was not.
NodeEmptied ==
  \A d \in Drains :
    drain[d].at = "reported" /\ drain[d].remaining = {} /\ drain[d].kept => Here = {}

\* A drain ends, though a budget never lets its pods go.
DrainEnds ==
  \A d \in Drains : drain[d].at = "list" ~> drain[d].at \in {"reported", "failed"}
=============================================================================
