------------------------------ MODULE MCCapacity ------------------------------
(* What bounds the use of the panel, for TLC: the capacity of the engine, the *)
(* sessions and roles of its portals, and the play sessions of its users:     *)
(* components that share nothing in the model, in one run.  A behaviour is    *)
(* one of the component chosen at its start while the others rest.            *)
EXTENDS MCChannelRuntime, PanelAccess, PlaySessions

VARIABLE part

portalVars == <<paVars, psVars>>
capacityVars == <<part, vars, portalVars>>

\* A user that may watch two streams at a time.
TwoStreams == [u \in PlayUsers |-> 2]

\* Components that rest do so in one of their initial states.
\* Which user is the first administrator and which code the first code does
\* not matter.
CapacityInit ==
  /\ part \in {"engine", "access", "sessions"}
  /\ AllLoaded /\ PaInit /\ PsInit
  /\ user = [u \in Users |->
       [there |-> IF u = CHOOSE v \in Users : TRUE THEN "yes" ELSE "no",
        active |-> TRUE, flags |-> {"admin"}]]
  /\ code[CHOOSE k \in Codes : TRUE].name = "admin"
  /\ (part # "access" => cookie = NoSession /\ \A k \in Codes : code[k].there = "yes")

CapacityNext ==
  \/ part = "engine" /\ Next /\ UNCHANGED <<part, portalVars>>
  \/ part = "access" /\ PaNext /\ UNCHANGED <<part, vars, psVars>>
  \/ part = "sessions" /\ PsNext /\ UNCHANGED <<part, vars, paVars>>

CapacitySpec == CapacityInit /\ [][CapacityNext]_capacityVars
=============================================================================
