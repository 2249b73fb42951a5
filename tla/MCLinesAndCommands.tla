------------------------- MODULE MCLinesAndCommands -------------------------
(* Remote commands and line connections for TLC: two components that share   *)
(* nothing, in one run.  A behaviour is one of the component chosen at its   *)
(* start while the other rests.                                              *)
EXTENDS CommandQueue, LineConnections

VARIABLE part

allVars == <<part, cqVars, lcVars>>

Commanding(A) == part = "commands" /\ A /\ UNCHANGED <<part, lcVars>>
Connecting(A) == part = "connections" /\ A /\ UNCHANGED <<part, cqVars>>

LinesAndCommandsInit == part \in {"commands", "connections"} /\ CqInit /\ LcInit
LinesAndCommandsNext == Commanding(CqNext) \/ Connecting(LcNext)

\* The fairness of CqFairSpec and of LcFairSpec, each for its own part.
LinesAndCommandsFairness ==
  /\ WF_allVars(Commanding(Beat)) /\ WF_allVars(Commanding(BeatReturns))
  /\ WF_allVars(Commanding(Sleep)) /\ WF_allVars(Commanding(AckReturns))
  /\ \A c \in Commands : WF_allVars(Commanding(Execute(c)))
  /\ \A c \in Commands, status \in {"succeeded", "failed"} :
       WF_allVars(Commanding(HandleAck([command |-> c, status |-> status])))
  /\ SF_allVars(Commanding(HandleBeat("mine")))
  /\ WF_allVars(Connecting(SetExpires))
  /\ \A v \in Viewers : /\ WF_allVars(Connecting(LcServe(v) \/ EndRequest(v)))
                        /\ WF_allVars(Connecting(KeyExpires(v)))

LinesAndCommandsSpec ==
  LinesAndCommandsInit /\ [][LinesAndCommandsNext]_allVars /\ LinesAndCommandsFairness
=============================================================================
