------------------------------ MODULE MCService ------------------------------
(* The one Skarbiec process on a host, for TLC: its listener, and its        *)
(* take-over of the units before it.  A behaviour explores one of the two;   *)
(* the other stands still.  Only a declared unit is watched for an installed  *)
(* release: releases are explored with three routes and no other owner, all  *)
(* routes and owners without a release.                                      *)
EXTENDS Listener, Predecessors

MCUnits == <<"replica-sync", "control-plane">>

VARIABLE listening

\* Bound: what the clients of a declared unit ask for.
WatchedRoutes == \A c \in Conns : conn[c].route \in {"read", "write", "opwrite"}

MCInit ==
  /\ listening \in BOOLEAN
  /\ LInit /\ (~listening \/ declared => owner = "none") /\ (~listening => ~declared)
  /\ PInit /\ (listening => running = {})
MCNext ==
  /\ UNCHANGED listening
  /\ \/ listening /\ LNext /\ (IF declared THEN WatchedRoutes' ELSE UNCHANGED <<installed, present>>)
        /\ UNCHANGED pvars
     \/ ~listening /\ PNext /\ UNCHANGED lvars

\* The fairness of LSpec, where the listener is explored.
MCSpec ==
  /\ MCInit /\ [][MCNext]_<<listening, lvars, pvars>>
  /\ \A c \in Conns : WF_lvars(listening /\ Threads(c))
  /\ WF_lvars(listening /\ serve) /\ WF_lvars(listening /\ Launchd)
  /\ WF_lvars(listening /\ when_declared) /\ WF_lvars(listening /\ declared /\ Install)
=============================================================================
