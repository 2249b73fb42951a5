---------------------------- MODULE MCOperations ----------------------------
(* Server selection, provisioning, backups, reseller credits and the repair  *)
(* of channels for TLC: components that share nothing, in one run.  A        *)
(* behaviour is one of the component chosen at its start, the others rest.   *)
EXTENDS ServerSelection, Provisioning, Backups, ResellerCredits, Stability

\* An administrator may leave a reseller in debt (admin.js:2044).
SomeBalances == {-1, 3}

VARIABLE part

opVars == <<part, selAll, pvVars, bkVars, rcVars, stVars>>

\* Components that rest do so in one of their initial states.
OperationsInit ==
  /\ part \in {"selection", "provisioning", "backups", "credits", "stability"}
  /\ SelInit /\ PvInit /\ BkInit /\ RcInit /\ StInit
  /\ (part # "selection" => \A s \in Servers : server[s].role # "main")
  /\ (part # "provisioning" => enabled /\ nodeAgent.profile = CHOOSE p \in Profiles : TRUE)
  /\ (part # "stability" => auto /\ chan.mode = Safe)

OperationsNext ==
  /\ UNCHANGED part
  /\ \/ part = "selection" /\ SelNext /\ UNCHANGED <<pvVars, bkVars, rcVars, stVars>>
     \/ part = "provisioning" /\ PvNext /\ UNCHANGED <<selAll, bkVars, rcVars, stVars>>
     \/ part = "backups" /\ BkNext /\ UNCHANGED <<selAll, pvVars, rcVars, stVars>>
     \/ part = "credits" /\ RcNext /\ UNCHANGED <<selAll, pvVars, bkVars, stVars>>
     \/ part = "stability" /\ StNext /\ UNCHANGED <<selAll, pvVars, bkVars, rcVars>>

OperationsSpec == OperationsInit /\ [][OperationsNext]_opVars

OperationsTypeOK == SelTypeOK /\ PvTypeOK /\ BkTypeOK /\ RcTypeOK /\ StTypeOK
=============================================================================
