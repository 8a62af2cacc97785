------------------------------ MODULE MCAccess ------------------------------
(* Access through grants, for TLC: one-use acquisition, and the requests     *)
(* people decide.  A behaviour explores one of the two; the other stands     *)
(* still.                                                                    *)
EXTENDS MCAcquisition, AccessRequest

CONSTANTS o1, o2

MCRoles == (o1 :> "owner") @@ (o2 :> "admin")
MCFormOf == ("a" :> "capability") @@ ("b" :> "consumer")

VARIABLE asking

MCInit == asking \in BOOLEAN /\ Init /\ ReqInit
MCNext ==
  /\ UNCHANGED asking
  /\ \/ asking /\ ReqNext /\ UNCHANGED vars
     \/ ~asking /\ Next /\ UNCHANGED requestVars

\* The fairness of ReqSpec, where the requests are explored.
MCSpec ==
  /\ MCInit /\ [][MCNext]_<<asking, vars, requestVars>>
  /\ WF_requestVars(asking /\ RequestSteps)
=============================================================================
