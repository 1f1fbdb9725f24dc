----------------------------- MODULE Protection -----------------------------
(***************************************************************************)
(* The protection of one object against deletion and against edits that    *)
(* remove it (internal/api/protection.go, internal/k8s/protection.go and   *)
(* apply.go): requests check first and act by a second call, and calls     *)
(* fail.                                                                   *)
(***************************************************************************)
EXTENDS Naturals, FiniteSets

CONSTANTS Requests   \* requests that run at the same time

VARIABLES there,     \* the object exists
          owners,    \* who set its annotation: "patch", "apply"; none: not protected
          req        \* what each request is doing

guardVars == <<there, owners, req>>

Protected == there /\ owners # {}

\* Of a request: how far it is, what it does, whether its manifest carries the
\* annotation, the version of the object it was read at, whether the check was
\* skipped, and whether the object was protected after the check.
Request ==
  [at : {"idle", "check", "act"}, op : {"delete", "update", "apply"},
   keeps : BOOLEAN, version : {"none", "current", "old"},
   blind : BOOLEAN, late : BOOLEAN]
NoRequest == [at |-> "idle", op |-> "delete", keeps |-> FALSE, version |-> "none",
              blind |-> FALSE, late |-> FALSE]

GuardTypeOK ==
  /\ there \in BOOLEAN /\ owners \subseteq {"patch", "apply"}
  /\ there \/ owners = {}
  /\ req \in [Requests -> Request]

\* A request of kind op begins.  A manifest to update the object was read from
\* it before, with its resourceVersion, or was written by hand.
Begins(r) ==
  /\ req[r].at = "idle"
  /\ \E op \in {"delete", "update", "apply"}, keeps \in BOOLEAN, v \in {"none", "current"} :
       /\ op = "delete" => ~keeps
       /\ op # "update" => v = "none"
       /\ v = "current" => there
       /\ req' = [req EXCEPT ![r] = [NoRequest EXCEPT !.at = "check", !.op = op,
                                                      !.keeps = keeps, !.version = v]]
  /\ UNCHANGED <<there, owners>>

\* What the others know of the object once it is written: an older version,
\* and, if it has become protected, less than they checked.
Written(q, protects) ==
  [r \in Requests |->
     [q[r] EXCEPT !.version = IF @ = "current" THEN "old" ELSE @,
                  !.late = @ \/ (protects /\ q[r].at = "act")]]

Ends(q, r) == [q EXCEPT ![r] = NoRequest]

-----------------------------------------------------------------------------
\* A fault: only deletes are guarded.
PassesEdits(q) == ~Protected \/ q.op # "delete"

\* checkProtection, DeleteResource, guardProtectedUpdate: what the check lets
\* pass.  A check that cannot be made refuses.
Passes(q) == ~Protected \/ (q.op # "delete" /\ q.keeps)

Check(r) ==
  /\ req[r].at = "check"
  /\ \/ /\ there /\ Passes(req[r])
        /\ req' = [req EXCEPT ![r].at = "act"]
     \/ req' = Ends(req, r)
  /\ UNCHANGED <<there, owners>>

\* checkProtectionByKind, when discovery does not resolve the kind, and
\* ApplyManifest, when its Get returns any error: there is no check.
Unchecked(q) == q.op \in {"delete", "apply"}

SkipsCheck(r) ==
  /\ req[r].at = "check" /\ Unchecked(req[r])
  /\ req' = [req EXCEPT ![r].at = "act", ![r].blind = TRUE]
  /\ UNCHANGED <<there, owners>>

\* A fault: the resourceVersion of the manifest is not sent.
UpdatesAnyway(r) ==
  /\ req[r].at = "act" /\ req[r].op = "update" /\ there
  /\ owners' = IF req[r].keeps THEN owners \cup {"patch"} ELSE {}
  /\ req' = Written(Ends(req, r), owners' # {})
  /\ UNCHANGED there

\* The call that acts.  An Update of another version than the stored one is a
\* conflict; a server-side apply gives up the annotation only for its manager.
Deletes(r) ==
  /\ req[r].at = "act" /\ req[r].op = "delete" /\ there
  /\ there' = FALSE /\ owners' = {}
  /\ req' = Written(Ends(req, r), FALSE)

Updates(r) ==
  /\ req[r].at = "act" /\ req[r].op = "update" /\ there /\ req[r].version # "old"
  /\ owners' = IF req[r].keeps THEN owners \cup {"patch"} ELSE {}
  /\ req' = Written(Ends(req, r), owners' # {})
  /\ UNCHANGED there

Applies(r) ==
  /\ req[r].at = "act" /\ req[r].op = "apply"
  /\ there' = TRUE
  /\ owners' = IF req[r].keeps THEN owners \cup {"apply"} ELSE owners \ {"apply"}
  /\ req' = Written(Ends(req, r), owners' # {})

ActFails(r) ==
  /\ req[r].at = "act" /\ req' = Ends(req, r)
  /\ UNCHANGED <<there, owners>>

\* Set: the shield of a row.
Protects ==
  /\ there
  /\ \/ owners' = owners \cup {"patch"} /\ req' = Written(req, TRUE)
     \/ owners' = {} /\ req' = Written(req, FALSE)
  /\ UNCHANGED there

\* The cluster: a controller writes the object, or makes it again.
OthersWrite ==
  /\ there' = TRUE /\ req' = Written(req, FALSE)
  /\ UNCHANGED owners

-----------------------------------------------------------------------------
GuardInit ==
  /\ there \in BOOLEAN /\ owners \in {{}, {"patch"}} /\ (there \/ owners = {})
  /\ req = [r \in Requests |-> NoRequest]

Acts(r) == Deletes(r) \/ Updates(r) \/ Applies(r)

GuardNext ==
  \/ \E r \in Requests : Begins(r) \/ Check(r) \/ SkipsCheck(r) \/ Acts(r) \/ ActFails(r)
  \/ Protects \/ OthersWrite

GuardSpec == GuardInit /\ [][GuardNext]_guardVars

-----------------------------------------------------------------------------
\* A protected object loses its protection, or its life, to another request
\* than that to unprotect it only if it was protected after the check, or the
\* check was skipped: a check that fails refuses, and one that passes stays
\* true of an object that nobody protects.
GuardHolds ==
  [][\A r \in Requests :
       Acts(r) /\ Protected /\ owners' = {} => req[r].late \/ req[r].blind]_guardVars

\* An edit of what the console has shown, which carries the resourceVersion it
\* was read at, never removes protection, not even that set meanwhile.
EditKeepsProtection ==
  [][\A r \in Requests :
       Updates(r) /\ req[r].version # "none" /\ Protected => owners' # {}]_guardVars
=============================================================================
