---------------------------- MODULE Server_proofs ----------------------------
(***************************************************************************)
(* Proofs about the gateway, for any number of pods, drains, requests and  *)
(* captors: the drain of a node, the protection of an object, the drift    *)
(* timeline, and, with ForwardSync_proofs, the four parts as MCServer puts *)
(* them together.                                                          *)
(***************************************************************************)
EXTENDS MCServer, ForwardSync_proofs, SequenceTheorems

-----------------------------------------------------------------------------
(* The drain of a node: its types, and that a drain that reports nothing    *)
(* left has emptied it, however many drains of the node there are at once.  *)

\* While nobody uncordons the node, what is on it is what the drain has not
\* evicted: the list came after the cordon, and what has been evicted does not
\* come back here.
Covers(s, here, c) ==
  s.kept => c /\ (s.at \in {"pass", "evict", "sleep", "reported"} => here \subseteq s.remaining)

\* Of a drain on its own: what DrainTypeOK says of it, and that it has nothing
\* to do before it has listed.
DrainOK(s) ==
  /\ s \in DrainState /\ s.todo \subseteq s.remaining /\ s.remaining \subseteq s.plan
  /\ s.at \in {"idle", "list"} => s.todo = {}

DrainInv ==
  /\ DrainTypeOK
  /\ \A d \in Drains : DrainOK(drain[d]) /\ Covers(drain[d], Here, cordoned)

LEMMA DrainStart == DrainInit => DrainInv
<1> SUFFICES ASSUME DrainInit PROVE DrainInv
  OBVIOUS
<1>1. DrainTypeOK
  BY DEF DrainInit, DrainTypeOK, DrainState, Place
<1> QED BY <1>1 DEF DrainInit, DrainInv, DrainTypeOK, DrainOK, Covers

\* A step of one drain that gives it a good state, and brings nobody here.
LEMMA OneGoes ==
  ASSUME DrainInv, NEW d \in Drains, NEW s, Goes(d, s), DrainOK(s),
         pods' \in [Names -> Place], cordoned' \in BOOLEAN, cordoned => cordoned',
         Here' \subseteq Here, Covers(s, Here', cordoned')
  PROVE  DrainInv'
<1>1. drain' \in [Drains -> DrainState] /\ drain'[d] = s
      /\ \A e \in Drains \ {d} : drain'[e] = drain[e]
  BY DEF Goes, DrainInv, DrainTypeOK, DrainOK
<1>2. DrainTypeOK'
  BY <1>1 DEF DrainTypeOK, DrainInv, DrainOK
<1>3. ASSUME NEW e \in Drains PROVE DrainOK(drain'[e]) /\ Covers(drain'[e], Here', cordoned')
  <2>1. CASE e = d
    BY <1>1, <2>1 DEF Covers
  <2>2. CASE e # d
    BY <1>1, <2>2 DEF Covers, DrainInv
  <2> QED BY <2>1, <2>2
<1> QED BY <1>2, <1>3 DEF DrainInv

\* The steps of a drain that leave the pods alone.
LEMMA QuietSteps ==
  ASSUME DrainInv, NEW d \in Drains,
         Lists(d) \/ PassStarts(d) \/ PassEnds(d) \/ Wakes(d) \/ Deadline(d)
  PROVE  DrainInv'
<1>1. UNCHANGED <<pods, cordoned>> /\ Here' = Here
  BY DEF Lists, PassStarts, PassEnds, Wakes, Deadline, Here
<1>2. pods \in [Names -> Place] /\ cordoned \in BOOLEAN /\ DrainOK(drain[d])
      /\ Covers(drain[d], Here, cordoned) /\ Here \subseteq Names
  BY DEF DrainInv, DrainTypeOK, DrainOK, Here
<1>3. ASSUME NEW s, Goes(d, s), DrainOK(s), Covers(s, Here, cordoned) PROVE DrainInv'
  BY <1>1, <1>2, <1>3, OneGoes
<1>4. CASE Lists(d)
  <2> DEFINE found == [drain[d] EXCEPT !.at = "pass", !.plan = Here, !.remaining = Here]
             failed == [drain[d] EXCEPT !.at = "failed"]
  <2>1. DrainOK(found) /\ Covers(found, Here, cordoned)
    BY <1>1, <1>2, <1>4 DEF DrainOK, DrainState, Covers, Lists
  <2>2. DrainOK(failed) /\ Covers(failed, Here, cordoned)
    BY <1>1, <1>2 DEF DrainOK, DrainState, Covers
  <2> QED BY <1>3, <1>4, <2>1, <2>2 DEF Lists
<1>5. CASE PassStarts(d)
  <2> DEFINE over == [drain[d] EXCEPT !.at = "reported"]
             pass == [drain[d] EXCEPT !.at = "evict", !.todo = drain[d].remaining,
                                      !.blocked = FALSE]
  <2>1. DrainOK(over) /\ Covers(over, Here, cordoned)
    BY <1>1, <1>2, <1>5 DEF DrainOK, DrainState, Covers, PassStarts
  <2>2. DrainOK(pass) /\ Covers(pass, Here, cordoned)
    BY <1>1, <1>2, <1>5 DEF DrainOK, DrainState, Covers, PassStarts
  <2> QED BY <1>3, <1>5, <2>1, <2>2 DEF PassStarts
<1>6. CASE PassEnds(d)
  <2>1. PICK at \in {"sleep", "pass"} : Goes(d, [drain[d] EXCEPT !.at = at])
    BY <1>6 DEF PassEnds
  <2>2. DrainOK([drain[d] EXCEPT !.at = at]) /\ Covers([drain[d] EXCEPT !.at = at], Here, cordoned)
    BY <1>1, <1>2, <1>6 DEF DrainOK, DrainState, Covers, PassEnds
  <2> QED BY <1>3, <2>1, <2>2
<1>7. CASE Wakes(d)
  <2>1. PICK at \in {"failed", "pass"} : Goes(d, [drain[d] EXCEPT !.at = at])
    BY <1>7 DEF Wakes
  <2>2. DrainOK([drain[d] EXCEPT !.at = at]) /\ Covers([drain[d] EXCEPT !.at = at], Here, cordoned)
    BY <1>1, <1>2, <1>7 DEF DrainOK, DrainState, Covers, Wakes
  <2> QED BY <1>3, <2>1, <2>2
<1>8. CASE Deadline(d)
  <2>1. DrainOK([drain[d] EXCEPT !.late = TRUE]) /\ Covers([drain[d] EXCEPT !.late = TRUE], Here, cordoned)
    BY <1>1, <1>2, <1>8 DEF DrainOK, DrainState, Covers, Deadline
  <2> QED BY <1>3, <1>8, <2>1 DEF Deadline
<1> QED BY <1>4, <1>5, <1>6, <1>7, <1>8

LEMMA EvictsKeeps == ASSUME DrainInv, NEW d \in Drains, Evicts(d) PROVE DrainInv'
<1>1. PICK n \in drain[d].todo :
        \/ pods' = Evicted(n) /\ Goes(d, Gone(drain[d], n))
        \/ Goes(d, Blocked(drain[d], n)) /\ UNCHANGED pods
  BY DEF Evicts
<1>2. pods \in [Names -> Place] /\ cordoned \in BOOLEAN /\ DrainOK(drain[d])
      /\ Covers(drain[d], Here, cordoned) /\ n \in Names /\ cordoned' = cordoned
      /\ drain[d].at = "evict"
  BY DEF DrainInv, DrainTypeOK, DrainOK, DrainState, Evicts
<1>3. CASE pods' = Evicted(n) /\ Goes(d, Gone(drain[d], n))
  <2>1. pods' \in [Names -> Place] /\ pods'[n] # "here"
        /\ \A m \in Names \ {n} : pods'[m] = pods[m]
    BY <1>2, <1>3 DEF Evicted, Place
  <2>2. Here' = Here \ {n}
    BY <1>2, <2>1 DEF Here
  <2>3. DrainOK(Gone(drain[d], n)) /\ Covers(Gone(drain[d], n), Here', cordoned')
    BY <1>2, <2>2 DEF DrainOK, DrainState, Covers, Gone
  <2>4. Goes(d, Gone(drain[d], n)) /\ (cordoned => cordoned') /\ cordoned' \in BOOLEAN
    BY <1>2, <1>3
  <2> QED BY <2>1, <2>2, <2>3, <2>4, OneGoes
<1>4. CASE Goes(d, Blocked(drain[d], n)) /\ UNCHANGED pods
  <2>1. Here' = Here
    BY <1>4 DEF Here
  <2>2. DrainOK(Blocked(drain[d], n)) /\ Covers(Blocked(drain[d], n), Here', cordoned')
    BY <1>2, <2>1 DEF DrainOK, DrainState, Covers, Blocked
  <2> QED BY <1>2, <1>4, <2>1, <2>2, OneGoes
<1> QED BY <1>1, <1>3, <1>4

LEMMA DrainStartsKeeps == ASSUME DrainInv, NEW d \in Drains, DrainStarts(d) PROVE DrainInv'
<1>1. pods \in [Names -> Place] /\ cordoned \in BOOLEAN /\ DrainOK(drain[d])
      /\ drain[d].at = "idle" /\ UNCHANGED pods
  BY DEF DrainInv, DrainTypeOK, DrainStarts
<1>2. Here' = Here
  BY <1>1 DEF Here
<1>3. CASE cordoned' = TRUE /\ Goes(d, [drain[d] EXCEPT !.at = "list", !.kept = TRUE])
  <2> DEFINE s == [drain[d] EXCEPT !.at = "list", !.kept = TRUE]
  <2>1. DrainOK(s) /\ Covers(s, Here', cordoned')
    BY <1>1, <1>3 DEF DrainOK, DrainState, Covers
  <2> QED BY <1>1, <1>2, <1>3, <2>1, OneGoes
<1>4. CASE Goes(d, [drain[d] EXCEPT !.at = "failed"]) /\ UNCHANGED cordoned
  <2> DEFINE s == [drain[d] EXCEPT !.at = "failed"]
  <2>1. Covers(drain[d], Here, cordoned)
    BY DEF DrainInv
  <2>2. DrainOK(s) /\ Covers(s, Here', cordoned')
    BY <1>1, <1>2, <1>4, <2>1 DEF DrainOK, DrainState, Covers
  <2> QED BY <1>1, <1>2, <1>4, <2>2, OneGoes
<1> QED BY <1>3, <1>4 DEF DrainStarts

\* The administrator and the cluster: nobody is placed on a cordoned node.
LEMMA OthersKeep == ASSUME DrainInv, Uncordon \/ PodEnds \/ PodComes PROVE DrainInv'
<1>1. CASE Uncordon
  <2>1. drain' = [d \in Drains |-> [drain[d] EXCEPT !.kept = FALSE]] /\ cordoned' = FALSE
        /\ pods' = pods /\ drain \in [Drains -> DrainState]
    BY <1>1 DEF Uncordon, DrainInv, DrainTypeOK
  <2>2. ASSUME NEW d \in Drains
        PROVE  DrainOK(drain'[d]) /\ Covers(drain'[d], Here', cordoned')
    BY <2>1, <2>2 DEF DrainInv, DrainOK, DrainState, Covers
  <2>3. drain' \in [Drains -> DrainState]
    BY <2>1 DEF DrainState
  <2> QED BY <2>1, <2>2, <2>3 DEF DrainInv, DrainTypeOK, DrainOK
<1>2. ASSUME UNCHANGED <<cordoned, drain>>, pods' \in [Names -> Place],
             cordoned => Here' \subseteq Here
      PROVE  DrainInv'
  BY <1>2 DEF DrainInv, DrainTypeOK, Covers
<1>3. CASE PodEnds
  BY <1>2, <1>3 DEF PodEnds, DrainInv, DrainTypeOK, Place, Here
<1>4. CASE PodComes
  BY <1>2, <1>4 DEF PodComes, DrainInv, DrainTypeOK, Place, Here
<1> QED BY <1>1, <1>3, <1>4

LEMMA DrainInductive == DrainSpec => []DrainInv
<1>1. DrainInv /\ [DrainNext]_drainVars => DrainInv'
  <2> SUFFICES ASSUME DrainInv, [DrainNext]_drainVars PROVE DrainInv'
    OBVIOUS
  <2>1. CASE UNCHANGED drainVars
    BY <2>1 DEF drainVars, DrainInv, DrainTypeOK, Covers, Here
  <2>2. CASE DrainNext
    BY <2>2, QuietSteps, EvictsKeeps, DrainStartsKeeps, OthersKeep DEF DrainNext, DrainStep
  <2> QED BY <2>1, <2>2
<1> QED BY <1>1, DrainStart, PTL DEF DrainSpec

\* Every variable of a drain keeps its type, and what is left to do this pass
\* remains, and what remains was found.
THEOREM DrainTypeCorrect == DrainSpec => []DrainTypeOK
<1>1. DrainInv => DrainTypeOK
  BY DEF DrainInv
<1> QED BY <1>1, DrainInductive, PTL

\* A drain that reports that nothing remained has left no pod on the node that
\* is not exempt, unless the node was uncordoned.
THEOREM DrainEmptiesNode == DrainSpec => []NodeEmptied
<1>1. DrainInv => NodeEmptied
  BY DEF DrainInv, Covers, NodeEmptied
<1> QED BY <1>1, DrainInductive, PTL
-----------------------------------------------------------------------------
(* The protection of an object: its types, and what the check before a      *)
(* delete or an edit is worth.                                              *)

\* What a check that passed still says when its request acts: of a request
\* that was neither overtaken nor unchecked, all; of an edit of the current
\* version, all.
Vetted(q) ==
  q.at = "act" =>
    /\ q.late \/ q.blind \/ Passes(q)
    /\ q.op = "update" /\ q.version = "current" => Passes(q)

GuardInv == GuardTypeOK /\ \A r \in Requests : Vetted(req[r])

LEMMA GuardStart == GuardInit => GuardInv
BY DEF GuardInit, GuardInv, GuardTypeOK, Vetted, Request, NoRequest

\* The object is written, and every request learns of it.
LEMMA WrittenKeeps ==
  ASSUME GuardInv, NEW q \in [Requests -> Request], \A r \in Requests : q[r] \in {req[r], NoRequest},
         NEW protects \in BOOLEAN, req' = Written(q, protects),
         there' \in BOOLEAN, owners' \subseteq {"patch", "apply"}, there' \/ owners' = {},
         protects \/ owners' = {} \/ owners' \subseteq owners
  PROVE  GuardInv'
<1>1. ASSUME NEW r \in Requests
      PROVE  /\ req'[r] = [q[r] EXCEPT !.version = IF @ = "current" THEN "old" ELSE @,
                                       !.late = @ \/ (protects /\ q[r].at = "act")]
             /\ req'[r] \in Request /\ req'[r].version # "current"
             /\ req'[r].at = q[r].at /\ req'[r].op = q[r].op /\ req'[r].keeps = q[r].keeps
             /\ req'[r].blind = q[r].blind
             /\ req'[r].late = (q[r].late \/ (protects /\ q[r].at = "act"))
  BY DEF Written, Request
<1>2. req' \in [Requests -> Request]
  BY <1>1 DEF Written
<1>3. ASSUME NEW r \in Requests, req'[r].at = "act"
      PROVE  req'[r].late \/ req'[r].blind \/ ~Protected'
             \/ (req'[r].op # "delete" /\ req'[r].keeps)
  <2>1. q[r] = req[r] /\ Vetted(req[r])
    <3>1. q[r] \in {req[r], NoRequest} /\ q[r].at = "act"
      BY <1>1, <1>3
    <3>2. NoRequest.at # "act"
      BY DEF NoRequest
    <3> QED BY <3>1, <3>2 DEF GuardInv
  <2>2. CASE protects
    BY <1>1, <1>3, <2>2
  <2>3. CASE ~protects /\ (req[r].late \/ req[r].blind)
    BY <1>1, <1>3, <2>1, <2>3
  <2>4. CASE ~protects /\ Passes(req[r])
    <3>1. CASE ~Protected
      <4>1. owners = {}
        BY <3>1 DEF Protected, GuardInv, GuardTypeOK
      <4>2. owners' = {}
        BY <2>4, <4>1
      <4> QED BY <4>2 DEF Protected
    <3>2. CASE req[r].op # "delete" /\ req[r].keeps
      <4>1. req'[r].op = req[r].op /\ req'[r].keeps = req[r].keeps
        BY <1>1, <2>1
      <4> QED BY <3>2, <4>1
    <3> QED BY <2>4, <3>1, <3>2 DEF Passes
  <2> QED BY <1>1, <1>3, <2>1, <2>2, <2>3, <2>4 DEF Vetted
<1>4. GuardTypeOK'
  BY <1>2 DEF GuardTypeOK
<1>5. ASSUME NEW r \in Requests PROVE Vetted(req[r])'
  BY <1>1, <1>3 DEF Vetted, Passes
<1> QED BY <1>4, <1>5 DEF GuardInv

\* A request alone goes on, and the object stays.
LEMMA GuardStepKeeps ==
  ASSUME GuardInv, NEW r \in Requests, NEW q \in Request, Vetted(q),
         req' = [req EXCEPT ![r] = q], UNCHANGED <<there, owners>>
  PROVE  GuardInv'
BY DEF GuardInv, GuardTypeOK, Vetted, Passes, Protected

LEMMA Idle == NoRequest \in Request /\ Vetted(NoRequest)
BY DEF NoRequest, Request, Vetted

LEMMA EndsType ==
  ASSUME GuardInv, NEW r \in Requests
  PROVE  /\ Ends(req, r) \in [Requests -> Request]
         /\ \A p \in Requests : Ends(req, r)[p] \in {req[p], NoRequest}
BY Idle DEF Ends, GuardInv, GuardTypeOK

LEMMA GuardNextKeeps == ASSUME GuardInv, GuardNext PROVE GuardInv'
<1>1. ASSUME NEW r \in Requests, Begins(r) PROVE GuardInv'
  <2>1. PICK op \in {"delete", "update", "apply"}, keeps \in BOOLEAN, v \in {"none", "current"} :
          req' = [req EXCEPT ![r] = [NoRequest EXCEPT !.at = "check", !.op = op,
                                                      !.keeps = keeps, !.version = v]]
    BY <1>1 DEF Begins
  <2> DEFINE q == [NoRequest EXCEPT !.at = "check", !.op = op, !.keeps = keeps, !.version = v]
  <2>2. q \in Request /\ Vetted(q)
    BY DEF NoRequest, Request, Vetted
  <2> QED BY <1>1, <2>1, <2>2, GuardStepKeeps DEF Begins
<1>2. ASSUME NEW r \in Requests, Check(r) PROVE GuardInv'
  <2>1. CASE Passes(req[r]) /\ req' = [req EXCEPT ![r].at = "act"]
    <3>1. [req[r] EXCEPT !.at = "act"] \in Request /\ Vetted([req[r] EXCEPT !.at = "act"])
      BY <2>1 DEF GuardInv, GuardTypeOK, Request, Vetted, Passes
    <3> QED BY <1>2, <2>1, <3>1, GuardStepKeeps DEF Check
  <2>2. CASE req' = Ends(req, r)
    BY <1>2, <2>2, GuardStepKeeps, Idle DEF Check, Ends
  <2> QED BY <1>2, <2>1, <2>2 DEF Check
<1>3. ASSUME NEW r \in Requests, SkipsCheck(r) PROVE GuardInv'
  <2> DEFINE q == [req[r] EXCEPT !.at = "act", !.blind = TRUE]
  <2>1. q \in Request /\ Vetted(q)
    BY <1>3 DEF SkipsCheck, Unchecked, GuardInv, GuardTypeOK, Request, Vetted
  <2>2. req' = [req EXCEPT ![r] = q]
    BY <1>3 DEF SkipsCheck, GuardInv, GuardTypeOK, Request
  <2> QED BY <1>3, <2>1, <2>2, GuardStepKeeps DEF SkipsCheck
<1>4. ASSUME NEW r \in Requests, ActFails(r) PROVE GuardInv'
  BY <1>4, GuardStepKeeps, Idle DEF ActFails, Ends
<1>5. ASSUME NEW r \in Requests, Deletes(r) PROVE GuardInv'
  BY <1>5, EndsType, WrittenKeeps DEF Deletes
<1>6. ASSUME NEW r \in Requests, Updates(r) PROVE GuardInv'
  <2>1. (owners' # {}) \in BOOLEAN /\ there' \in BOOLEAN /\ owners' \subseteq {"patch", "apply"}
        /\ there' /\ req' = Written(Ends(req, r), owners' # {})
    BY <1>6 DEF Updates, GuardInv, GuardTypeOK
  <2> QED BY <2>1, EndsType, WrittenKeeps
<1>7. ASSUME NEW r \in Requests, Applies(r) PROVE GuardInv'
  <2>1. (owners' # {}) \in BOOLEAN /\ there' \in BOOLEAN /\ owners' \subseteq {"patch", "apply"}
        /\ there' /\ req' = Written(Ends(req, r), owners' # {})
    BY <1>7 DEF Applies, GuardInv, GuardTypeOK
  <2> QED BY <2>1, EndsType, WrittenKeeps
<1>8. CASE Protects \/ OthersWrite
  <2>1. req \in [Requests -> Request] /\ \A p \in Requests : req[p] \in {req[p], NoRequest}
    BY DEF GuardInv, GuardTypeOK
  <2>2. PICK b \in BOOLEAN : req' = Written(req, b) /\ (b \/ owners' = {} \/ owners' \subseteq owners)
    BY <1>8 DEF Protects, OthersWrite
  <2>3. there' \in BOOLEAN /\ owners' \subseteq {"patch", "apply"} /\ (there' \/ owners' = {})
    BY <1>8 DEF Protects, OthersWrite, GuardInv, GuardTypeOK
  <2> QED BY <2>1, <2>2, <2>3, WrittenKeeps
<1> QED BY <1>1, <1>2, <1>3, <1>4, <1>5, <1>6, <1>7, <1>8 DEF GuardNext, Acts

LEMMA GuardInductive == GuardSpec => []GuardInv
<1>1. GuardInv /\ UNCHANGED guardVars => GuardInv'
  BY DEF guardVars, GuardInv, GuardTypeOK, Vetted, Passes, Protected
<1> QED BY <1>1, GuardStart, GuardNextKeeps, PTL DEF GuardSpec

\* The object and the requests keep their types; what does not exist is not
\* protected.
THEOREM GuardTypeCorrect == GuardSpec => []GuardTypeOK
<1>1. GuardInv => GuardTypeOK
  BY DEF GuardInv
<1> QED BY <1>1, GuardInductive, PTL

\* A request takes protection away only if it was set after its check, or the
\* check was skipped.
THEOREM TheGuardHolds == GuardSpec => GuardHolds
<1> DEFINE A == \A r \in Requests :
                  Acts(r) /\ Protected /\ owners' = {} => req[r].late \/ req[r].blind
<1>1. GuardInv /\ [GuardNext]_guardVars => [A]_guardVars
  <2> SUFFICES ASSUME GuardInv, NEW r \in Requests, Acts(r), Protected, owners' = {},
                      ~(req[r].late \/ req[r].blind)
               PROVE  FALSE
    OBVIOUS
  <2>1. Passes(req[r])
    BY DEF GuardInv, Vetted, Acts, Deletes, Updates, Applies
  <2> QED BY <2>1 DEF Passes, Acts, Deletes, Updates, Applies
<1> QED BY <1>1, GuardInductive, PTL DEF GuardSpec, GuardHolds

\* An edit that carries the version it was read at never takes protection away.
THEOREM EditsKeepProtection == GuardSpec => EditKeepsProtection
<1> DEFINE A == \A r \in Requests :
                  Updates(r) /\ req[r].version # "none" /\ Protected => owners' # {}
<1>1. GuardInv /\ [GuardNext]_guardVars => [A]_guardVars
  <2> SUFFICES ASSUME GuardInv, NEW r \in Requests, Updates(r), req[r].version # "none", Protected
               PROVE  owners' # {}
    OBVIOUS
  <2>1. req[r].version = "current" /\ req[r].at = "act" /\ req[r].op = "update"
    BY DEF Updates, GuardInv, GuardTypeOK, Request
  <2>2. Passes(req[r])
    BY <2>1 DEF GuardInv, Vetted
  <2> QED BY <2>2 DEF Passes, Updates
<1> QED BY <1>1, GuardInductive, PTL DEF GuardSpec, EditKeepsProtection
-----------------------------------------------------------------------------
(* The drift timeline: its types, and the bound of its ring.                *)

\* What a captor has listed, and may store, is not too large.
Listed(c) == capture[c].at \in {"listed", "got"} => capture[c].content \notin Skipped

SnapInv == SnapTypeOK /\ \A c \in Captors : Listed(c)

LEMMA RestingIs ==
  ASSUME SnapTypeOK, NEW c \in Captors
  PROVE  Resting(c) \in Capture /\ Resting(c).at = "idle"
<1>1. \A x \in Capture : LET y == [x EXCEPT !.at = "idle", !.current = FALSE,
                                           !.overtaken = FALSE, !.after = {}]
                          IN  y \in Capture /\ y.at = "idle"
  BY DEF Capture
<1>2. capture[c] \in Capture
  BY DEF SnapTypeOK
<1> QED BY <1>1, <1>2 DEF Resting

\* What is pruned is a ring, and not too long.
LEMMA PrunedIs ==
  ASSUME NEW r \in Seq(Snapshot), NEW q \in Pruned(r)
  PROVE  q \in Seq(Snapshot) /\ Len(q) <= Keep
<1>1. PICK n \in 1 .. IF Len(r) < Keep THEN Len(r) ELSE Keep :
        q = SubSeq(r, Len(r) - n + 1, Len(r))
  BY DEF Pruned
<1>2. Len(r) \in Nat /\ n \in Nat /\ 1 <= n /\ n <= Len(r) /\ n <= Keep /\ Keep \in Nat
  BY SnapshotAssumption
<1> DEFINE m == Len(r) - n + 1
           k == Len(r)
<1>3. m \in Int /\ k \in Int /\ m <= k /\ k - m + 1 = n /\ 1 <= m
  BY <1>2
<1>4. \A i \in m .. k : r[i] \in Snapshot
  BY <1>3
<1>5. q = SubSeq(r, m, k)
  BY <1>1
<1> HIDE DEF m, k
<1>6. SubSeq(r, m, k) \in Seq(Snapshot) /\ Len(SubSeq(r, m, k)) = k - m + 1
  BY <1>3, <1>4, SubSeqProperties
<1> QED BY <1>2, <1>3, <1>5, <1>6

LEMMA SnapStart == SnapInit => SnapInv
<1> SUFFICES ASSUME SnapInit PROVE SnapInv
  OBVIOUS
<1>4. <<>> \in Seq(Snapshot) /\ Len(<<>>) <= Keep
  BY SnapshotAssumption
<1>1. ring \in Seq(Snapshot) /\ Len(ring) <= Keep
  BY <1>4 DEF SnapInit
<1>2. capture \in [Captors -> Capture] /\ \A c \in Captors : capture[c].at = "idle"
  BY DEF SnapInit, Capture
<1>3. live \in Contents /\ changes \in 0 .. MaxChanges /\ settled \in BOOLEAN
  <2>1. live \in Contents /\ changes = 0 /\ settled = FALSE
    BY DEF SnapInit
  <2>2. MaxChanges \in Nat
    BY SnapshotAssumption
  <2>3. changes \in 0 .. MaxChanges
    BY <2>1, <2>2
  <2>4. settled \in BOOLEAN
    BY <2>1
  <2> QED BY <2>1, <2>3, <2>4
<1>5. SnapTypeOK
  BY <1>1, <1>2, <1>3 DEF SnapTypeOK
<1> QED BY <1>2, <1>5 DEF SnapInv, Listed

\* A captor goes on alone.
LEMMA CaptorGoes ==
  ASSUME SnapInv, NEW c \in Captors, NEW x \in Capture,
         x.at \in {"listed", "got"} => x.content \notin Skipped,
         capture' = [capture EXCEPT ![c] = x], UNCHANGED <<live, changes, ring, settled>>
  PROVE  SnapInv'
BY DEF SnapInv, SnapTypeOK, Listed

LEMMA BeginKeeps == ASSUME SnapInv, NEW c \in Captors, Begin(c) PROVE SnapInv'
<1>1. ASSUME NEW d \in Captors
      PROVE  /\ capture'[d] \in Capture /\ capture'[d].content = capture[d].content
             /\ capture'[d].at \in {capture[d].at, "begun"}
  <2>1. capture[d] \in Capture
    BY DEF SnapInv, SnapTypeOK
  <2>2. PICK others \in SUBSET Captors : others = {e \in Captors : capture[e].at # "idle"}
    OBVIOUS
  <2>3. CASE d = c
    <3>1. capture'[d] = [capture[d] EXCEPT !.at = "begun", !.after = others]
      BY <2>2, <2>3 DEF Begin
    <3> QED BY <2>1, <3>1 DEF Capture
  <2>4. CASE d # c
    <3>1. capture'[d] = [capture[d] EXCEPT !.after = @ \ {c}]
      BY <2>4 DEF Begin
    <3> QED BY <2>1, <3>1 DEF Capture
  <2> QED BY <2>3, <2>4
<1>2. capture' \in [Captors -> Capture]
  BY <1>1 DEF Begin
<1> QED BY <1>1, <1>2 DEF Begin, SnapInv, SnapTypeOK, Listed

LEMMA ReadsKeep ==
  ASSUME SnapInv, NEW c \in Captors, ListKind(c) \/ GetRing(c) \/ CaptureFails(c)
  PROVE  SnapInv'
<1>1. capture[c] \in Capture /\ live \in Contents /\ Listed(c)
  BY DEF SnapInv, SnapTypeOK
<1>2. Resting(c) \in Capture /\ Resting(c).at = "idle"
  BY RestingIs DEF SnapInv
<1> DEFINE listed == [capture[c] EXCEPT !.at = "listed", !.content = live]
           got == [capture[c] EXCEPT !.at = "got", !.current = TRUE]
<1>3. /\ listed \in Capture /\ listed.content = live
      /\ got \in Capture /\ got.content = capture[c].content
  BY <1>1 DEF Capture
<1>4. CASE ListKind(c)
  <2>1. UNCHANGED <<live, changes, ring, settled>>
    BY <1>4 DEF ListKind
  <2>2. CASE capture' = [capture EXCEPT ![c] = Resting(c)]
    BY <1>2, <2>1, <2>2, CaptorGoes
  <2>3. CASE capture' = [capture EXCEPT ![c] = listed] /\ live \notin Skipped
    <3> HIDE DEF listed
    <3> QED BY <1>3, <2>1, <2>3, CaptorGoes
  <2> QED BY <1>4, <2>2, <2>3 DEF ListKind
<1>5. CASE GetRing(c)
  <2>1. capture[c].content \notin Skipped
    BY <1>1, <1>5 DEF GetRing, Listed
  <2>2. \E x \in {Resting(c), got} : capture' = [capture EXCEPT ![c] = x]
    BY <1>5 DEF GetRing
  <2> QED BY <1>2, <1>3, <1>5, <2>1, <2>2, CaptorGoes DEF GetRing
<1>6. CASE CaptureFails(c)
  BY <1>2, <1>6, CaptorGoes DEF CaptureFails
<1> QED BY <1>4, <1>5, <1>6

LEMMA StoreKeeps == ASSUME SnapInv, NEW c \in Captors, Store(c) PROVE SnapInv'
<1>1. Resting(c) \in Capture /\ Resting(c).at = "idle"
  BY RestingIs DEF SnapInv
<1>2. CASE ~capture[c].current
  BY <1>1, <1>2, CaptorGoes DEF Store
<1>3. CASE capture[c].current
  <2> DEFINE new == [content |-> capture[c].content, late |-> capture[c].overtaken]
  <2>1. capture[c] \in Capture /\ capture[c].content \notin Skipped
    BY DEF SnapInv, SnapTypeOK, Listed, Store
  <2>2. new \in Snapshot
    BY <2>1 DEF Snapshot, Capture
  <2>3. ring' \in Pruned(Append(ring, new))
    BY <1>3 DEF Store
  <2> HIDE DEF new
  <2>4. Append(ring, new) \in Seq(Snapshot)
    BY <2>2 DEF SnapInv, SnapTypeOK
  <2>5. ring' \in Seq(Snapshot) /\ Len(ring') <= Keep
    BY <2>3, <2>4, PrunedIs
  <2>6. ASSUME NEW d \in Captors
        PROVE  capture'[d] \in Capture /\ Listed(d)'
    <3>1. CASE d = c
      <4>1. capture'[d] = Resting(c)
        BY <1>3, <3>1 DEF Store
      <4> QED BY <1>1, <4>1 DEF Listed
    <3>2. CASE d # c
      <4>1. capture'[d] = [capture[d] EXCEPT !.current = FALSE,
                                             !.overtaken = @ \/ d \in capture[c].after,
                                             !.after = @ \ {c}]
        BY <1>3, <3>2 DEF Store
      <4>2. capture[d] \in Capture /\ Listed(d)
        BY DEF SnapInv, SnapTypeOK
      <4>3. /\ capture'[d] \in Capture /\ capture'[d].at = capture[d].at
            /\ capture'[d].content = capture[d].content
        BY <4>1, <4>2 DEF Capture
      <4> QED BY <4>2, <4>3 DEF Listed
    <3> QED BY <3>1, <3>2
  <2>7. capture' \in [Captors -> Capture]
    BY <1>3, <2>6 DEF Store
  <2> QED BY <2>5, <2>6, <2>7 DEF Store, SnapInv, SnapTypeOK
<1> QED BY <1>2, <1>3

LEMMA SnapInductive == SnapSpec => []SnapInv
<1>1. SnapInv /\ [SnapNext]_snapVars => SnapInv'
  <2> SUFFICES ASSUME SnapInv, [SnapNext]_snapVars PROVE SnapInv'
    OBVIOUS
  <2>1. CASE Changes \/ Settles \/ UNCHANGED snapVars
    <3>3. /\ live' = live \/ live' \in Contents
          /\ changes' = changes \/ (changes < MaxChanges /\ changes' = changes + 1)
          /\ settled' = settled \/ settled' = TRUE
          /\ UNCHANGED <<ring, capture>>
      BY <2>1 DEF Changes, Settles, snapVars
    <3>1. MaxChanges \in Nat /\ live \in Contents /\ changes \in 0 .. MaxChanges
      BY SnapshotAssumption DEF SnapInv, SnapTypeOK
    <3>2. changes' \in 0 .. MaxChanges
      BY <3>3, <3>1
    <3>4. live' \in Contents
      BY <3>3, <3>1
    <3>5. settled' \in BOOLEAN
      BY <3>3 DEF SnapInv, SnapTypeOK
    <3>6. SnapTypeOK'
      BY <3>2, <3>3, <3>4, <3>5 DEF SnapInv, SnapTypeOK
    <3> QED BY <3>3, <3>6 DEF SnapInv, Listed
  <2> QED BY <2>1, BeginKeeps, ReadsKeep, StoreKeeps DEF SnapNext, CaptureStep
<1> QED BY <1>1, SnapStart, PTL DEF SnapSpec

\* The ring holds snapshots that could be stored, and never more than are kept,
\* whichever captors race, fail or are dropped.
THEOREM SnapTypeCorrect == SnapSpec => []SnapTypeOK
<1>1. SnapInv => SnapTypeOK
  BY DEF SnapInv
<1> QED BY <1>1, SnapInductive, PTL

\* A capture that may store has got a ring that does not end with what it holds.
FreshRing(c) == capture[c].at = "got" /\ capture[c].current => ~Known(capture[c].content)

RingInv == NoRepeat /\ \A c \in Captors : FreshRing(c)

LEMMA PrunedNoRepeat ==
  ASSUME NEW r \in Seq(Snapshot), NEW q \in Pruned(r),
         \A i \in 1 .. Len(r) - 1 : r[i].content # r[i + 1].content
  PROVE  \A i \in 1 .. Len(q) - 1 : q[i].content # q[i + 1].content
<1>1. PICK m \in Nat, k \in Nat :
        q = SubSeq(r, m, k) /\ 1 <= m /\ m <= k /\ k = Len(r)
  <2>1. PICK n \in 1 .. IF Len(r) < Keep THEN Len(r) ELSE Keep :
          q = SubSeq(r, Len(r) - n + 1, Len(r))
    BY DEF Pruned
  <2>2. Len(r) \in Nat /\ n \in Nat /\ 1 <= n /\ n <= Len(r)
    BY SnapshotAssumption
  <2>3. Len(r) - n + 1 \in Nat /\ 1 <= Len(r) - n + 1 /\ Len(r) - n + 1 <= Len(r)
    BY <2>2
  <2> QED BY <2>1, <2>2, <2>3
<1>2. \A i \in m .. k : r[i] \in Snapshot
  BY <1>1
<1>3. Len(q) = k - m + 1 /\ \A i \in 1 .. k - m + 1 : q[i] = r[m + i - 1]
  BY <1>1, <1>2, SubSeqProperties
<1>4. ASSUME NEW i \in 1 .. Len(q) - 1 PROVE q[i].content # q[i + 1].content
  <2> DEFINE j == m + i - 1
  <2>1. j \in 1 .. Len(r) - 1 /\ j + 1 = m + (i + 1) - 1
        /\ i \in 1 .. k - m + 1 /\ i + 1 \in 1 .. k - m + 1
    BY <1>1, <1>3
  <2>2. q[i] = r[j] /\ q[i + 1] = r[j + 1]
    BY <1>3, <2>1
  <2> QED BY <2>1, <2>2
<1> QED BY <1>4

LEMMA AppendNoRepeat ==
  ASSUME SnapTypeOK, NoRepeat, NEW x \in Snapshot, ~Known(x.content)
  PROVE  \A i \in 1 .. Len(Append(ring, x)) - 1 :
           Append(ring, x)[i].content # Append(ring, x)[i + 1].content
<1>1. ring \in Seq(Snapshot) /\ Len(ring) \in Nat
  BY DEF SnapTypeOK
<1>2. /\ Len(Append(ring, x)) = Len(ring) + 1 /\ Append(ring, x)[Len(ring) + 1] = x
      /\ \A i \in 1 .. Len(ring) : Append(ring, x)[i] = ring[i]
  BY <1>1
<1>3. ASSUME NEW i \in 1 .. Len(ring)
      PROVE  Append(ring, x)[i].content # Append(ring, x)[i + 1].content
  <2>1. CASE i = Len(ring)
    <3>1. ring # <<>>
      BY <1>1
    <3>2. ring[i].content # x.content
      BY <2>1, <3>1 DEF Known
    <3> QED BY <1>2, <2>1, <3>2
  <2>2. CASE i # Len(ring)
    <3>1. i \in 1 .. Len(ring) - 1 /\ i + 1 \in 1 .. Len(ring)
      BY <1>1, <2>2
    <3> QED BY <1>2, <3>1 DEF NoRepeat
  <2> QED BY <2>1, <2>2
<1> QED BY <1>1, <1>2, <1>3

\* What leaves the ring alone, and lets nobody store but who finds it fresh.
LEMMA FreshGoes ==
  ASSUME RingInv, ring' = ring,
         \A d \in Captors : \/ capture'[d].at = "got" /\ capture'[d].current
                                 => ~Known(capture'[d].content)
                            \/ /\ capture'[d].at = capture[d].at
                               /\ capture'[d].current = capture[d].current
                               /\ capture'[d].content = capture[d].content
  PROVE  RingInv'
BY DEF RingInv, NoRepeat, FreshRing, Known

LEMMA RingStep == ASSUME SnapInv, RingInv, [SnapNext]_snapVars PROVE RingInv'
<1>1. \A d \in Captors : capture[d] \in Capture
  BY DEF SnapInv, SnapTypeOK
<1>2. capture \in [Captors -> Capture] /\ \A d \in Captors : Resting(d).at = "idle"
  BY RestingIs DEF SnapInv, SnapTypeOK
<1>3. ASSUME NEW c \in Captors, Begin(c) PROVE RingInv'
  <2>1. PICK others \in SUBSET Captors : others = {e \in Captors : capture[e].at # "idle"}
    OBVIOUS
  <2>2. ASSUME NEW d \in Captors
        PROVE  \/ capture'[d].at = "begun"
               \/ /\ capture'[d].at = capture[d].at
                  /\ capture'[d].current = capture[d].current
                  /\ capture'[d].content = capture[d].content
    <3>1. CASE d = c
      <4>1. capture'[d] = [capture[d] EXCEPT !.at = "begun", !.after = others]
        BY <1>3, <2>1, <3>1 DEF Begin
      <4> QED BY <1>1, <4>1 DEF Capture
    <3>2. CASE d # c
      <4>1. capture'[d] = [capture[d] EXCEPT !.after = @ \ {c}]
        BY <1>3, <3>2 DEF Begin
      <4> QED BY <1>1, <4>1 DEF Capture
    <3> QED BY <3>1, <3>2
  <2> QED BY <1>3, <2>2, FreshGoes DEF Begin
<1>4. ASSUME NEW c \in Captors, NEW x, ring' = ring, capture' = [capture EXCEPT ![c] = x],
             x.at = "got" /\ x.current => ~Known(x.content)
      PROVE  RingInv'
  BY <1>2, <1>4, FreshGoes
<1>5. ASSUME NEW c \in Captors, ListKind(c) \/ GetRing(c) \/ CaptureFails(c) PROVE RingInv'
  <2> DEFINE listed == [capture[c] EXCEPT !.at = "listed", !.content = live]
             got == [capture[c] EXCEPT !.at = "got", !.current = TRUE]
  <2>1. listed.at = "listed" /\ got.content = capture[c].content
    BY <1>1 DEF Capture
  <2>2. ring' = ring
    BY <1>5 DEF ListKind, GetRing, CaptureFails
  <2>3. \/ capture' = [capture EXCEPT ![c] = Resting(c)]
        \/ capture' = [capture EXCEPT ![c] = listed]
        \/ capture' = [capture EXCEPT ![c] = got] /\ ~Known(capture[c].content)
    BY <1>5 DEF ListKind, GetRing, CaptureFails
  <2> HIDE DEF listed, got
  <2> QED BY <1>2, <1>4, <2>1, <2>2, <2>3
<1>6. ASSUME NEW c \in Captors, Store(c) PROVE RingInv'
  <2>1. CASE ~capture[c].current
    BY <1>2, <1>4, <1>6, <2>1 DEF Store
  <2>2. CASE capture[c].current
    <3> DEFINE new == [content |-> capture[c].content, late |-> capture[c].overtaken]
    <3>1. new \in Snapshot /\ new.content = capture[c].content
      <4>1. capture[c] \in Capture /\ capture[c].content \notin Skipped
        BY <1>1, <1>6 DEF SnapInv, Listed, Store
      <4> QED BY <4>1 DEF Snapshot, Capture
    <3>2. ~Known(new.content)
      BY <1>6, <2>2, <3>1 DEF RingInv, FreshRing, Store
    <3>3. ring' \in Pruned(Append(ring, new))
      BY <1>6, <2>2 DEF Store
    <3>4. ASSUME NEW d \in Captors PROVE FreshRing(d)'
      <4>1. CASE d = c
        <5>1. capture'[d] = Resting(c)
          BY <1>6, <2>2, <4>1 DEF Store
        <5> QED BY <1>2, <5>1 DEF FreshRing
      <4>2. CASE d # c
        <5>1. capture'[d] = [capture[d] EXCEPT !.current = FALSE,
                                               !.overtaken = @ \/ d \in capture[c].after,
                                               !.after = @ \ {c}]
          BY <1>6, <2>2, <4>2 DEF Store
        <5>2. ~capture'[d].current
          BY <1>1, <5>1 DEF Capture
        <5> QED BY <5>2 DEF FreshRing
      <4> QED BY <4>1, <4>2
    <3> HIDE DEF new
    <3>5. Append(ring, new) \in Seq(Snapshot)
      BY <3>1 DEF SnapInv, SnapTypeOK
    <3>6. \A i \in 1 .. Len(Append(ring, new)) - 1 :
            Append(ring, new)[i].content # Append(ring, new)[i + 1].content
      BY <3>1, <3>2, AppendNoRepeat DEF SnapInv, RingInv
    <3>7. NoRepeat'
      BY <3>3, <3>5, <3>6, PrunedNoRepeat DEF NoRepeat
    <3> QED BY <3>4, <3>7 DEF RingInv
  <2> QED BY <2>1, <2>2
<1>7. CASE Changes \/ Settles \/ UNCHANGED snapVars
  <2>1. ring' = ring /\ capture' = capture
    BY <1>7 DEF Changes, Settles, snapVars
  <2> QED BY <2>1 DEF RingInv, NoRepeat, FreshRing, Known
<1> QED BY <1>3, <1>5, <1>6, <1>7 DEF SnapNext, CaptureStep

\* Two captures may both find that the resource has changed and store it, but
\* never one after the other: no snapshot repeats the one before it.
THEOREM TheRingHasNoRepeat == SnapSpec => []NoRepeat
<1>1. SnapInit => RingInv
  <2> SUFFICES ASSUME SnapInit PROVE RingInv
    OBVIOUS
  <2>1. ring = <<>> /\ \A c \in Captors : capture[c].at = "idle"
    BY DEF SnapInit
  <2>2. NoRepeat
    BY <2>1 DEF NoRepeat
  <2> QED BY <2>1, <2>2 DEF RingInv, FreshRing
<1>2. RingInv => NoRepeat
  BY DEF RingInv
<1> QED BY <1>1, <1>2, RingStep, SnapInductive, PTL DEF SnapSpec

-----------------------------------------------------------------------------
(* The four together. *)

\* The gateway behaves as each of these parts, with the others standing still:
\* so every theorem about one of them is one about the gateway.
THEOREM ServerIsItsParts == ServerSpec => ForwardSpec /\ DrainSpec /\ GuardSpec /\ SnapSpec
<1>1. ServerInit => ForwardInit /\ DrainInit /\ GuardInit /\ SnapInit
  BY DEF ServerInit, ForwardOff, DrainOff, GuardOff, SnapOff
<1>2. [ServerNext]_serverVars
        => /\ [ForwardNext]_forwardVars /\ [DrainNext]_drainVars
           /\ [GuardNext]_guardVars /\ [SnapNext]_snapVars
  BY DEF ServerNext, serverVars
<1> QED BY <1>1, <1>2, PTL DEF ServerSpec, ForwardSpec, DrainSpec, GuardSpec, SnapSpec

\* The gateway keeps its types.
THEOREM ServerTypeCorrect == ServerSpec => []ServerTypeOK
<1>1. ForwardTypeOK /\ DrainTypeOK /\ GuardTypeOK /\ SnapTypeOK => ServerTypeOK
  BY DEF ServerTypeOK
<1> QED BY <1>1, ServerIsItsParts, ForwardTypeCorrect, DrainTypeCorrect, GuardTypeCorrect,
           SnapTypeCorrect, PTL

\* And it keeps the promises of its parts: no entry is skipped, a reported drain
\* has emptied its node, protection is taken away by nobody who should not.
THEOREM ServerKeepsItsPromises ==
  ServerSpec => [](NoneSkipped /\ NodeEmptied) /\ GuardHolds /\ EditKeepsProtection
BY ServerIsItsParts, CursorSkipsOnlyExcused, DrainEmptiesNode, TheGuardHolds,
   EditsKeepProtection, PTL
=============================================================================
