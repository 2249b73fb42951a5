-------------------------- MODULE MCEngineAndDelay --------------------------
(* The engine and the delay of a buffered playlist for TLC: components that  *)
(* share nothing in the model, in one run.  A behaviour is one of the        *)
(* component chosen at its start while the other rests.                      *)
EXTENDS MCChannelRuntime, HlsDelay

VARIABLE part

engineAndDelayVars == <<part, vars, hdVars>>

\* A component that rests does so in one of its initial states.
EngineAndDelayInit ==
  /\ part \in {"engine", "delay"}
  /\ Init /\ HdInit
  /\ (part # "engine" => channels = {} /\ preDetectDone = [c \in Channels |-> FALSE])
  /\ (part # "delay" => config = CHOOSE c \in [seg : SegTimes, delay : Delays] : TRUE)

EngineAndDelayNext ==
  \/ part = "engine" /\ Next /\ UNCHANGED <<part, hdVars>>
  \/ part = "delay" /\ HdNext /\ UNCHANGED <<part, vars>>

EngineAndDelaySpec == EngineAndDelayInit /\ [][EngineAndDelayNext]_engineAndDelayVars
=============================================================================
