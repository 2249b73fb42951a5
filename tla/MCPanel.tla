------------------------------- MODULE MCPanel ------------------------------
(* The stream manager over the engine, the boots that bring the tables up to *)
(* date, and the forms of the web interface, for TLC: components that share  *)
(* nothing in the model, in one run.  A behaviour is one of the component    *)
(* chosen at its start while the others rest.                                *)
EXTENDS StreamManager, SchemaBoot, PanelForms, TLC

CONSTANTS FormatOf, ModeOf    \* the same output and mode for every channel

AllFormats == [c \in Channels |-> FormatOf]
AllModes == [c \in Channels |-> ModeOf]

VARIABLE part

panelVars == <<part, smVars, sbVars, pfVars>>

\* A component that rests does so in one of its initial states.
PanelInit ==
  /\ part \in {"manager", "boot", "forms"}
  /\ SmInit /\ SbInit /\ PfInit
  /\ (part # "manager" =>
        channels = {} /\ preDetectDone = [c \in Channels |-> FALSE])
  /\ (part # "boot" => relations = AllTables)
  /\ (part # "forms" => page = "line" /\ listed)

\* The opening of a stream has the most waits: two streams are opened, or one
\* is while something is done elsewhere.  Rows are alike: the first one that is
\* named or changed is always the same.
FirstRow == CHOOSE r \in Rows : TRUE
FormsBound ==
  /\ page = "stream" => clicks' + elsewhere' <= MaxClicks
  /\ clicks + elsewhere = 0 =>
       /\ {form'.id, editing'} \cup {o.row : o \in Waiting'} \subseteq {FirstRow, NoRow}
       /\ \A r \in Rows \ {FirstRow} : rows'[r] = rows[r]

Managing(A) == part = "manager" /\ A /\ UNCHANGED <<part, sbVars, pfVars>>

PanelNext ==
  \/ part = "manager" /\ SmNext /\ UNCHANGED <<part, sbVars, pfVars>>
  \/ part = "boot" /\ SbNext /\ UNCHANGED <<part, smVars, pfVars>>
  \/ part = "forms" /\ PfNext /\ FormsBound /\ UNCHANGED <<part, smVars, sbVars>>

\* The fairness of SmFairSpec.
PanelSpec ==
  /\ PanelInit /\ [][PanelNext]_panelVars
  /\ WF_panelVars(Managing(~down /\ HealthCheck))
  /\ \A c \in Channels :
       WF_panelVars(Managing(~down /\ Recover(c) /\ UNCHANGED <<retries, down>>))
=============================================================================
