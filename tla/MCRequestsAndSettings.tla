------------------------ MODULE MCRequestsAndSettings ------------------------
(* The start on demand and the streaming settings for TLC: what must happen *)
(* in the end, of two components that share nothing in the model, in one     *)
(* run.  A behaviour is one of the component chosen at its start while the   *)
(* other rests.                                                              *)
EXTENDS MCOnDemandLive, StreamingSettings

VARIABLE part

answerVars == <<part, odVars, ssVars>>

\* No flags beside the first, an empty environment, and a size that an
\* administrator clears, mistypes or sets out of range.
NoFlags == <<>>
NoEnv == [k \in Keys |-> Blank]
SizeEdits ==
  [k \in Keys |-> IF k = SizeKey THEN {Blank, Word("junk"), Num(32 * MB)} ELSE {}]

Requesting(A) == part = "requests" /\ A /\ UNCHANGED <<part, ssVars>>
Setting(A) == part = "settings" /\ A /\ UNCHANGED <<part, odVars>>

\* A component that rests does so in one of its initial states.
AnswerInit ==
  /\ part \in {"requests", "settings"} /\ OdInit /\ SsInit
  /\ (part # "settings" => stored = [k \in Keys |-> Blank])
  /\ (part # "requests" => channels = {} /\ \A c \in Channels : ~preDetectDone[c])

AnswerNext ==
  \/ part = "requests" /\ OdNext /\ UNCHANGED <<part, ssVars>>
  \/ part = "settings" /\ SsNext /\ UNCHANGED <<part, odVars>>

\* The fairness of OdFairSpec and SsFairness.
AnswerFairness ==
  /\ \A c \in Channels : WF_answerVars(Requesting(Continue(c)))
  /\ \A r \in Runs :
       WF_answerVars(Requesting(ReadyTimer(r) /\ UNCHANGED <<pendingStarts, caller>>))
  /\ \A v \in Callers : WF_answerVars(Requesting(Deadline(v)))
  /\ WF_answerVars(Setting(TimerFires))
  /\ WF_answerVars(Setting(\E f \in UnderRefresh : ReadKey(f)))

AnswerSpec == AnswerInit /\ [][AnswerNext]_answerVars /\ AnswerFairness
=============================================================================
