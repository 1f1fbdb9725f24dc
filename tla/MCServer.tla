------------------------------ MODULE MCServer ------------------------------
(***************************************************************************)
(* Four parts of the gateway that share no state: the forwarding of the    *)
(* audit trail, the drain of a node, the protection of an object, the      *)
(* drift timeline of a resource.  A behaviour is about one of them, the    *)
(* others stand still.                                                     *)
(***************************************************************************)
EXTENDS ForwardSync, Drain, Protection, Snapshots, TLC

VARIABLE part

serverVars == <<part, forwardVars, drainVars, guardVars, snapVars>>

ForwardOff == store = "rings" /\ conf = DefaultConfig /\ ForwardInit
DrainOff == cordoned = FALSE /\ pods = [n \in Names |-> "gone"] /\ DrainInit
GuardOff == there = FALSE /\ GuardInit
SnapOff == live \in Skipped /\ SnapInit

ServerInit ==
  \/ part = "forward" /\ ForwardInit /\ DrainOff /\ GuardOff /\ SnapOff
  \/ part = "drain" /\ ForwardOff /\ DrainInit /\ GuardOff /\ SnapOff
  \/ part = "guard" /\ ForwardOff /\ DrainOff /\ GuardInit /\ SnapOff
  \/ part = "snap" /\ ForwardOff /\ DrainOff /\ GuardOff /\ SnapInit

ServerNext ==
  /\ UNCHANGED part
  /\ \/ part = "forward" /\ ForwardNext /\ UNCHANGED <<drainVars, guardVars, snapVars>>
     \/ part = "drain" /\ DrainNext /\ UNCHANGED <<forwardVars, guardVars, snapVars>>
     \/ part = "guard" /\ GuardNext /\ UNCHANGED <<forwardVars, drainVars, snapVars>>
     \/ part = "snap" /\ SnapNext /\ UNCHANGED <<forwardVars, drainVars, guardVars>>

\* The schedulers' loops go on, and so do their calls; a drain goes on, and its
\* deadline passes; a snapshotter ticks, and a capture that has begun goes on.
NotForward == <<part, drainVars, guardVars, snapVars>>
NotDrain == <<part, forwardVars, guardVars, snapVars>>
NotSnap == <<part, forwardVars, drainVars, guardVars>>

ServerFairness ==
  /\ \A p \in Pods : WF_serverVars(part = "forward" /\ Run(p) /\ UNCHANGED NotForward)
  /\ \A d \in Drains :
       /\ WF_serverVars(part = "drain" /\ DrainStep(d) /\ UNCHANGED NotDrain)
       /\ WF_serverVars(part = "drain" /\ Deadline(d) /\ UNCHANGED NotDrain)
  /\ \A c \in Captors : WF_serverVars(part = "snap" /\ CaptureStep(c) /\ UNCHANGED NotSnap)
  /\ \A c \in Tickers : WF_serverVars(part = "snap" /\ Begin(c) /\ UNCHANGED NotSnap)

ServerSpec == ServerInit /\ [][ServerNext]_serverVars /\ ServerFairness

ServerTypeOK == ForwardTypeOK /\ DrainTypeOK /\ GuardTypeOK /\ SnapTypeOK
=============================================================================
