------------------------ MODULE ChannelRuntimeProofs ------------------------
(* What ChannelRuntime promises for every set of channels, child processes   *)
(* and runs, every retry limit and every mixture of outputs and modes.       *)
(* First type correctness, then the effect of each operation on the parts of *)
(* the state the invariants read, then the inductive invariant IInv, one     *)
(* lemma per conjunct, and the theorems.                                     *)
EXTENDS ChannelRuntime, TLAPS

USE ConstantsAssumption

\* The types of the two kinds of map.
ProcMap == [Channels -> Procs \cup {NoProc}]
RunMap == [Channels -> Runs \cup {NoRun}]

\* Settling a startChannel promise leaves a well-formed closure.
LEMMA SettleType ==
  ASSUME NEW rec \in RunType, NEW how \in {"resolved", "rejected"}
  PROVE Settle(rec, how) \in RunType
  BY DEF Settle, RunType

\* So does an exception in the executor of the promise.
LEMMA ThrowType == ASSUME NEW rec \in RunType PROVE Throw(rec) \in RunType
  BY DEF Throw, RunType

\* So does arming the readiness interval.
LEMMA TimedType == ASSUME NEW rec \in RunType PROVE Timed(rec) \in RunType
  BY DEF Timed, RunType

\* And clearing or setting one flag of a closure.
LEMMA FieldsType ==
  ASSUME NEW rec \in RunType
  PROVE /\ rec.chan \in Channels
        /\ [rec EXCEPT !.spawnTimer = FALSE] \in RunType
        /\ [rec EXCEPT !.readyTimer = FALSE] \in RunType
        /\ [rec EXCEPT !.cancelled = TRUE] \in RunType
        /\ [rec EXCEPT !.cancelled = TRUE, !.spawnTimer = FALSE] \in RunType
  BY DEF RunType

\* The closure a startChannel call begins with is well formed.
LEMMA NewRunType == ASSUME NEW c \in Channels PROVE NewRun(c) \in RunType
  BY DEF NewRun, RunType

\* A child that was just spawned is well formed.
LEMMA NewProcType ==
  ASSUME NEW c \in Channels, NEW r \in Runs \cup {NoRun},
         NEW kind \in {"engine", "bare", "shadow", "manager"}
  PROVE NewProc(c, r, kind) \in ProcType
  BY DEF NewProc, ProcType

\* Sending SIGTERM keeps every process record well formed.
LEMMA SignalType ==
  ASSUME NEW pr \in [Procs -> ProcType], NEW S
  PROVE Signal(pr, S) \in [Procs -> ProcType]
  BY DEF Signal, ProcType

\* spawnOnce leaves every map it writes well formed, whatever its outcome.
LEMMA SpawnType ==
  ASSUME TypeOK, NEW r \in Runs, NEW rec \in RunType, NEW po \in ProcMap,
         NEW ct \in RunMap, NEW rn \in [Runs -> RunType],
         NEW pr \in [Procs -> ProcType], SpawnOnce(r, rec, po, ct, rn, pr)
  PROVE /\ status' \in [Channels -> Statuses]
        /\ processes' \in ProcMap
        /\ runControllers' \in RunMap
        /\ run' \in [Runs -> RunType]
        /\ proc' \in [Procs -> ProcType]
  <1>. rec.chan \in Channels
    BY DEF RunType
  <1>1. CASE SpawnCancelled(r, rec, po, ct, rn, pr)
    BY <1>1, SettleType DEF SpawnCancelled, TypeOK, ProcMap, RunMap
  <1>2. CASE SpawnInvalid(r, rec, po, ct, rn, pr)
    BY <1>2, SettleType DEF SpawnInvalid, TypeOK, ProcMap, RunMap, Statuses
  <1>3. CASE SpawnFails(r, rec, po, ct, rn, pr)
    BY <1>3, SettleType, TimedType DEF SpawnFails, TypeOK, ProcMap, RunMap, Statuses
  <1>4. CASE SpawnOk(r, rec, po, ct, rn, pr)
    BY <1>4, ThrowType, TimedType, NewProcType DEF SpawnOk, TypeOK, ProcMap, RunMap, Statuses
  <1>. QED BY <1>1, <1>2, <1>3, <1>4 DEF SpawnOnce

\* So does startChannel.
LEMMA StartType ==
  ASSUME TypeOK, NEW c \in Channels, NEW r \in Runs, NEW po \in ProcMap,
         NEW rn \in [Runs -> RunType], NEW pr \in [Procs -> ProcType],
         StartChannel(c, r, po, rn, pr)
  PROVE /\ status' \in [Channels -> Statuses]
        /\ processes' \in ProcMap
        /\ runControllers' \in RunMap
        /\ run' \in [Runs -> RunType]
        /\ proc' \in [Procs -> ProcType]
        /\ detecting' \in [Channels -> 0..MaxDetect]
  <1>1. [runControllers EXCEPT ![c] = r] \in RunMap
    BY DEF TypeOK, RunMap
  <1>2. SpawnOnce(r, NewRun(c), po, [runControllers EXCEPT ![c] = r], rn, pr)
    BY DEF StartChannel
  <1>3. detecting' \in [Channels -> 0..MaxDetect]
    BY DEF StartChannel, TypeOK
  <1>. QED BY <1>1, <1>2, <1>3, SpawnType, NewRunType

\* And what stopChannel leaves in the maps is well formed.
LEMMA StoppedType ==
  ASSUME TypeOK, NEW c \in Channels
  PROVE /\ Unset(processes, c) \in ProcMap
        /\ Unset(shadowProcesses, c) \in ProcMap
        /\ StoppedRuns(c) \in [Runs -> RunType]
        /\ StoppedProcs(c) \in [Procs -> ProcType]
  <1>1. StoppedRuns(c) \in [Runs -> RunType]
    BY FieldsType DEF TypeOK, StoppedRuns
  <1>2. StoppedProcs(c) \in [Procs -> ProcType]
    BY SignalType DEF TypeOK, StoppedProcs
  <1>. QED BY <1>1, <1>2 DEF TypeOK, Unset, ProcMap

\* The stopChannel part of a step keeps the types.
LEMMA StopType ==
  ASSUME TypeOK, NEW c \in Channels, StopChannel(c)
  PROVE /\ status' \in [Channels -> Statuses]
        /\ processes' \in ProcMap
        /\ shadowProcesses' \in ProcMap
        /\ runControllers' \in RunMap
        /\ run' \in [Runs -> RunType]
  BY StoppedType DEF StopChannel, TypeOK, Statuses, RunMap

\* Updating the timer and the two counters of a closure.
LEMMA CountersType ==
  ASSUME NEW rec \in RunType, NEW s \in BOOLEAN, NEW d \in 0..MaxReconnect, NEW m \in Nat
  PROVE [rec EXCEPT !.spawnTimer = s, !.reconnectDone = d, !.movieFails = m] \in RunType
  <1>. DEFINE a == [rec EXCEPT !.spawnTimer = s]
              b == [a EXCEPT !.reconnectDone = d]
  <1>1. a \in RunType
    BY DEF RunType
  <1>. HIDE DEF a
  <1>2. b \in RunType
    BY <1>1 DEF RunType
  <1>. HIDE DEF b
  <1>3. [b EXCEPT !.movieFails = m] \in RunType
    BY <1>2 DEF RunType
  <1>. QED BY <1>3 DEF a, b

\* A process that ended is a well-formed record.
LEMMA ExitedType ==
  ASSUME NEW rec \in ProcType, NEW code \in {0, 1}
  PROVE [rec EXCEPT !.life = "exited", !.code = code] \in ProcType
  BY DEF ProcType

\* The close handler keeps the reconnect counter within maxRetries.
LEMMA RunAfterType ==
  ASSUME NEW rec \in RunType, NEW p, NEW v, NEW empty,
         v = "reconnect" => rec.reconnectDone < MaxReconnect,
         FailsAfter(p, empty) \in Nat
  PROVE RunAfter(rec, p, v, empty) \in RunType
  <1>. DEFINE s == rec.spawnTimer \/ v \in Respawning
              d == IF v = "reconnect" THEN rec.reconnectDone + 1
                   ELSE IF v = "next" THEN 0 ELSE rec.reconnectDone
              m == IF v = "stopped" THEN rec.movieFails
                   ELSE IF v # "reconnect" THEN FailsAfter(p, empty)
                   ELSE IF Mode[rec.chan] = "movie" THEN rec.movieFails + 1
                   ELSE rec.movieFails
  <1>1. s \in BOOLEAN
    OBVIOUS
  <1>2. d \in 0..MaxReconnect
    BY DEF RunType
  <1>3. m \in Nat
    BY DEF RunType
  <1>4. RunAfter(rec, p, v, empty) =
          [rec EXCEPT !.spawnTimer = s, !.reconnectDone = d, !.movieFails = m]
    BY DEF RunAfter
  <1>. HIDE DEF s, d, m
  <1>5. [rec EXCEPT !.spawnTimer = s, !.reconnectDone = d, !.movieFails = m] \in RunType
    BY <1>1, <1>2, <1>3, CountersType, Zenon
  <1>. QED BY <1>4, <1>5, Zenon

\* The end of a process keeps the process records well formed.
LEMMA GoneType ==
  ASSUME NEW q \in ProcType PROVE [q EXCEPT !.life = "gone"] \in ProcType
  BY DEF ProcType

\* What an exit leaves.
LEMMA ExitType == ASSUME TypeOK, NEW p \in Procs, Exit(p)
 PROVE proc' \in [Procs -> ProcType]
  <1>1. PICK code \in {0, 1} : proc' = [proc EXCEPT ![p].life = "exited", ![p].code = code]
    BY SMTT(30) DEF Exit
  <1>2. proc[p] \in ProcType /\ [proc[p] EXCEPT !.life = "exited", !.code = code] \in ProcType
    BY ExitedType DEF TypeOK
  <1>. DEFINE rec == [proc[p] EXCEPT !.life = "exited", !.code = code]
  <1>3. proc' = [proc EXCEPT ![p] = rec]
    BY <1>1 DEF TypeOK
  <1>. HIDE DEF rec
  <1>. QED BY <1>2, <1>3 DEF TypeOK, rec

\* The state after boot is well typed.
LEMMA InitType == Init => TypeOK
  <1>1. ASSUME NEW c0 \in Channels
        PROVE /\ [NewRun(c0) EXCEPT !.outcome = "rejected"] \in RunType
              /\ [NewProc(c0, NoRun, "bare") EXCEPT !.life = "gone"] \in ProcType
    BY NewRunType, NewProcType DEF RunType, ProcType
  <1>. QED BY <1>1 DEF Init, TypeOK, Statuses

\* Every step keeps the types.
LEMMA NextType == TypeOK /\ [Next]_vars => TypeOK'
  <1>. SUFFICES ASSUME TypeOK, [Next]_vars PROVE TypeOK'
    OBVIOUS
  <1>. USE DEF ProcMap, RunMap
  <1>1. ASSUME NEW c \in Channels, Start(c) PROVE TypeOK'
    <2>. PICK r \in Runs : StartChannel(c, r, processes, run, proc)
      BY <1>1 DEF Start
    <2>. QED BY <1>1, StartType DEF Start, TypeOK
  <1>2. ASSUME NEW c \in Channels, Stop(c) PROVE TypeOK'
    BY <1>2, StopType, StoppedType DEF Stop, TypeOK
  <1>3. ASSUME NEW c \in Channels, Delete(c) PROVE TypeOK'
    BY <1>3, StopType, StoppedType DEF Delete, TypeOK
  <1>4. ASSUME NEW c \in Channels, Restart(c) PROVE TypeOK'
    BY <1>4, StopType, StoppedType DEF Restart, TypeOK
  <1>5. ASSUME NEW c \in Channels, DelayedStart(c) PROVE TypeOK'
    <2>1. CASE \E r \in Runs : StartChannel(c, r, processes, run, proc)
      BY <1>5, <2>1, StartType, SMTT(30) DEF DelayedStart, TypeOK
    <2>2. CASE UNCHANGED <<status, processes, runControllers, run, proc, detecting>>
      BY <1>5, <2>2 DEF DelayedStart, TypeOK
    <2>. QED BY <1>5, <2>1, <2>2 DEF DelayedStart
  <1>6. ASSUME NEW c \in Channels, Detected(c) PROVE TypeOK'
    BY <1>6 DEF Detected, TypeOK
  <1>7. ASSUME NEW c \in Channels, ArmedRestart(c) PROVE TypeOK'
    <2>. armed' \in [Channels -> 0..MaxDetect] /\ UNCHANGED <<channels, switching, delayed, preDetectDone>>
      BY <1>7 DEF ArmedRestart, TypeOK
    <2>1. CASE c \in channels /\ status[c] = "running"
      <3>1. CASE \E r \in Runs : StartChannel(c, r, Unset(processes, c),
                                             StoppedRuns(c), StoppedProcs(c))
        <4>. PICK r \in Runs : StartChannel(c, r, Unset(processes, c),
                                         StoppedRuns(c), StoppedProcs(c))
          BY <3>1
        <4>1. /\ status' \in [Channels -> Statuses] /\ processes' \in ProcMap
              /\ runControllers' \in RunMap /\ run' \in [Runs -> RunType]
              /\ proc' \in [Procs -> ProcType]
              /\ detecting' \in [Channels -> 0..MaxDetect]
          BY StartType, StoppedType
        <4>2. shadowProcesses' \in ProcMap
          BY <1>7, <2>1, StoppedType DEF ArmedRestart
        <4>. QED BY <4>1, <4>2 DEF TypeOK
      <3>2. CASE StopChannel(c) /\ proc' = StoppedProcs(c) /\ UNCHANGED detecting
        BY <1>7, <2>1, <3>2, StopType, StoppedType DEF ArmedRestart, TypeOK
      <3>. QED BY <1>7, <2>1, <3>1, <3>2 DEF ArmedRestart
    <2>2. CASE ~(c \in channels /\ status[c] = "running")
      BY <1>7, <2>2 DEF ArmedRestart, TypeOK
    <2>. QED BY <2>1, <2>2
  <1>8. ASSUME NEW c \in Channels, SwitchBegin(c) PROVE TypeOK'
    BY <1>8, NewProcType DEF SwitchBegin, TypeOK
  <1>9. ASSUME NEW r \in Runs, ReadyTimer(r) PROVE TypeOK'
    <2>1. [run[r] EXCEPT !.readyTimer = FALSE] \in RunType /\ run[r].chan \in Channels
      BY FieldsType DEF TypeOK
    <2>. QED BY <1>9, <2>1, SettleType DEF ReadyTimer, TypeOK, Statuses
  <1>10. ASSUME NEW r \in Runs, SpawnTimer(r) PROVE TypeOK'
    <2>1. [run[r] EXCEPT !.spawnTimer = FALSE] \in RunType
      BY FieldsType DEF TypeOK
    <2>. QED BY <1>10, <2>1, SpawnType DEF SpawnTimer, TypeOK
  <1>11. ASSUME NEW p \in Procs, Output(p) PROVE TypeOK'
    BY <1>11 DEF Output, TypeOK, Statuses
  <1>12. ASSUME NEW p \in Procs, Exit(p) PROVE TypeOK'
    BY <1>12, ExitType DEF Exit, TypeOK
  <1>13. ASSUME NEW p \in Procs, Gone(p) PROVE proc' \in [Procs -> ProcType]
    <2>1. \A q \in Procs : proc[q] \in ProcType
                            /\ [proc[q] EXCEPT !.life = "gone"] \in ProcType
      BY GoneType DEF TypeOK
    <2>. QED BY <1>13, <2>1 DEF Gone, TypeOK
  <1>14. ASSUME NEW p \in Procs, CloseStale(p) PROVE TypeOK'
    <2>1. run' \in [Runs -> RunType]
      BY <1>14, SettleType DEF CloseStale, TypeOK
    <2>. QED BY <1>13, <1>14, <2>1 DEF CloseStale, TypeOK
  <1>15. ASSUME NEW p \in Procs, NEW empty \in BOOLEAN, CloseCurrent(p, empty) PROVE TypeOK'
    <2>. DEFINE r == proc[p].run
                c == proc[p].chan
                v == Verdict(p, empty)
    <2>1. c \in Channels
      BY DEF TypeOK, ProcType
    <2>2. v \in {"stopped", "error", "ended", "played", "reconnect", "retry", "next"}
      BY DEF Verdict
    <2>3. StatusAfter(v) \in Statuses
      BY <2>2 DEF StatusAfter, Statuses
    <2>4. run' \in [Runs -> RunType]
      <3>1. CASE r \notin Runs
        BY <1>15, <3>1 DEF CloseCurrent, TypeOK
      <3>2. CASE r \in Runs
        <4>1. RunAfter(run[r], p, v, empty) \in RunType
          <5>1. v = "reconnect" => run[r].reconnectDone < MaxReconnect
            BY <3>2 DEF Verdict, MayReconnect
          <5>2. FailsAfter(p, empty) \in Nat
            BY <3>2 DEF FailsAfter, TypeOK, RunType
          <5>. QED BY <3>2, <5>1, <5>2, RunAfterType DEF TypeOK
        <4>. QED BY <1>15, <3>2, <4>1 DEF CloseCurrent, TypeOK
      <3>. QED BY <3>1, <3>2
    <2>. QED BY <1>13, <1>15, <2>1, <2>3, <2>4 DEF CloseCurrent, TypeOK, Unset
  <1>16. ASSUME NEW p \in Procs, CloseShadow(p) PROVE TypeOK'
    BY <1>13, <1>16 DEF CloseShadow, TypeOK, Unset, ProcType
  <1>17. ASSUME NEW p \in Procs, CloseBare(p) PROVE TypeOK'
    BY <1>13, <1>17 DEF CloseBare, TypeOK
  <1>18. ASSUME NEW p \in Procs, SwitchReady(p) PROVE TypeOK'
    BY <1>18, SignalType DEF SwitchReady, TypeOK, Unset, ProcType
  <1>19. ASSUME NEW p \in Procs, SwitchTimeout(p) PROVE TypeOK'
    <2>1. proc[p].chan \in Channels
      BY DEF TypeOK, ProcType
    <2>. QED BY <1>19, <2>1, StopType, SignalType DEF SwitchTimeout, TypeOK
  <1>20. CASE UNCHANGED vars
    BY <1>20 DEF vars, TypeOK
  <1>. QED
    BY <1>1, <1>2, <1>3, <1>4, <1>5, <1>6, <1>7, <1>8, <1>9, <1>10, <1>11, <1>12,
       <1>14, <1>15, <1>16, <1>17, <1>18, <1>19, <1>20 DEF Next, CloseStep

\* Every reachable state is well typed, so the counters the code keeps in
\* closures never leave the range startChannel clamps them to.
THEOREM TypeCorrect == Spec => []TypeOK
  BY InitType, NextType, PTL DEF Spec

\* The variables the invariants read.
core == <<channels, status, processes, shadowProcesses, runControllers, run, proc, switching>>

\* startChannel on the maps as they are.
Begins(c, r) ==
  /\ StartChannel(c, r, processes, run, proc)
  /\ UNCHANGED <<channels, shadowProcesses, switching>>

\* stopChannel and startChannel in one turn (ArmedRestart).
Renews(c, r) ==
  /\ c \in channels
  /\ StartChannel(c, r, Unset(processes, c), StoppedRuns(c), StoppedProcs(c))
  /\ shadowProcesses' = Unset(shadowProcesses, c)
  /\ UNCHANGED <<channels, switching>>

\* stopChannel, alone or followed by a later start; S: the shadow of a switch
\* that timed out.
Ends(c, S) ==
  /\ StopChannel(c)
  /\ channels' \in {channels, channels \ {c}}
  /\ switching' \subseteq switching /\ switching \ S \subseteq switching'
  /\ proc' = Signal(proc, {processes[c], shadowProcesses[c]} \cup S)

\* A step of the engine in which no process but those of E exits.
StepIn(E) ==
  \/ \E c \in Channels :
       \/ Start(c) \/ Stop(c) \/ Delete(c) \/ Restart(c)
       \/ DelayedStart(c) \/ Detected(c) \/ ArmedRestart(c) \/ SwitchBegin(c)
  \/ \E r \in Runs : ReadyTimer(r) \/ SpawnTimer(r)
  \/ \E p \in Procs :
       \/ Output(p) \/ (p \in E /\ Exit(p)) \/ CloseStep(p)
       \/ SwitchReady(p) \/ SwitchTimeout(p)

\* Every such step is one of twelve kinds as far as the maps, the closures and
\* the processes go; the pending sleeps and inspections play no part.
LEMMA StepKinds ==
  ASSUME TypeOK, NEW E \in SUBSET Procs, StepIn(E) \/ UNCHANGED vars
  PROVE \/ \E c \in Channels, r \in Runs : Begins(c, r) \/ Renews(c, r)
        \/ \E c \in Channels, S \in SUBSET switching : Ends(c, S)
        \/ \E c \in Channels : SwitchBegin(c)
        \/ \E r \in Runs : ReadyTimer(r) \/ SpawnTimer(r)
        \/ \E p \in E : Exit(p)
        \/ \E p \in Procs : \/ Output(p) \/ CloseStale(p)
                            \/ (\E empty \in BOOLEAN : CloseCurrent(p, empty))
                            \/ CloseShadow(p) \/ CloseBare(p) \/ SwitchReady(p)
        \/ UNCHANGED core
  <1>1. ASSUME NEW c \in Channels, Start(c)
        PROVE \E r \in Runs : Begins(c, r)
    BY <1>1 DEF Start, Begins
  <1>2. ASSUME NEW c \in Channels, Stop(c) \/ Delete(c) \/ Restart(c) PROVE Ends(c, {})
    <2>1. /\ StopChannel(c) /\ proc' = StoppedProcs(c) /\ UNCHANGED switching
          /\ channels' \in {channels, channels \ {c}}
      BY <1>2 DEF Stop, Delete, Restart
    <2>2. proc' = Signal(proc, {processes[c], shadowProcesses[c]} \cup {})
      <3>1. {processes[c], shadowProcesses[c]} \cup {} = {processes[c], shadowProcesses[c]}
        OBVIOUS
      <3>. QED BY <2>1, <3>1 DEF StoppedProcs
    <2>. QED BY <2>1, <2>2 DEF Ends
  <1>3. ASSUME NEW c \in Channels, DelayedStart(c)
        PROVE (\E r \in Runs : Begins(c, r)) \/ UNCHANGED core
    BY <1>3 DEF DelayedStart, Begins, core
  <1>4. ASSUME NEW c \in Channels, Detected(c) PROVE UNCHANGED core
    BY <1>4 DEF Detected, core
  <1>5. ASSUME NEW c \in Channels, ArmedRestart(c)
        PROVE (\E r \in Runs : Renews(c, r)) \/ Ends(c, {}) \/ UNCHANGED core
    <2>1. CASE ~(c \in channels /\ status[c] = "running")
      BY <1>5, <2>1 DEF ArmedRestart, core
    <2>2. CASE c \in channels /\ status[c] = "running"
      <3>1. ASSUME NEW r \in Runs, StartChannel(c, r, Unset(processes, c),
                                             StoppedRuns(c), StoppedProcs(c))
            PROVE Renews(c, r)
        BY <1>5, <2>2, <3>1 DEF ArmedRestart, Renews
      <3>2. CASE StopChannel(c) /\ proc' = StoppedProcs(c)
        <4>1. {processes[c], shadowProcesses[c]} \cup {} = {processes[c], shadowProcesses[c]}
          OBVIOUS
        <4>2. proc' = Signal(proc, {processes[c], shadowProcesses[c]} \cup {})
          BY <3>2, <4>1 DEF StoppedProcs
        <4>. QED BY <1>5, <2>2, <3>2, <4>2 DEF ArmedRestart, Ends
      <3>. QED BY <1>5, <2>2, <3>1, <3>2 DEF ArmedRestart
    <2>. QED BY <2>1, <2>2
  <1>6. ASSUME NEW p \in Procs, SwitchTimeout(p)
        PROVE \E c \in Channels : Ends(c, {p}) /\ {p} \in SUBSET switching
    <2>. DEFINE c == proc[p].chan
    <2>1. c \in Channels
      BY DEF TypeOK, ProcType
    <2>2. {p, processes[c], shadowProcesses[c]} = {processes[c], shadowProcesses[c]} \cup {p}
      OBVIOUS
    <2>3. proc' = Signal(proc, {processes[c], shadowProcesses[c]} \cup {p})
      BY <1>6, <2>2 DEF SwitchTimeout
    <2>. QED BY <1>6, <2>1, <2>3 DEF SwitchTimeout, Ends
  <1>7. CASE UNCHANGED vars
    BY <1>7 DEF vars, core
  <1>. QED BY <1>1, <1>2, <1>3, <1>4, <1>5, <1>6, <1>7 DEF StepIn, CloseStep

\* And so is every step of the engine, whoever exits.
LEMMA StepCases ==
  ASSUME TypeOK, [Next]_vars
  PROVE \/ \E c \in Channels, r \in Runs : Begins(c, r) \/ Renews(c, r)
        \/ \E c \in Channels, S \in SUBSET switching : Ends(c, S)
        \/ \E c \in Channels : SwitchBegin(c)
        \/ \E r \in Runs : ReadyTimer(r) \/ SpawnTimer(r)
        \/ \E p \in Procs : \/ Output(p) \/ Exit(p) \/ CloseStale(p)
                            \/ (\E empty \in BOOLEAN : CloseCurrent(p, empty))
                            \/ CloseShadow(p) \/ CloseBare(p) \/ SwitchReady(p)
        \/ UNCHANGED core
  <1>1. Procs \in SUBSET Procs
    OBVIOUS
  <1>2. StepIn(Procs) \/ UNCHANGED vars
    BY DEF Next, StepIn
  <1>. QED BY <1>1, <1>2, StepKinds

----------------------------------------------------------------------------
(* What each operation does *)

\* Two closures that agree on everything but promise and readiness interval.
Kept(a, b) ==
  /\ a.chan = b.chan /\ a.cancelled = b.cancelled /\ a.spawnTimer = b.spawnTimer
  /\ a.reconnectDone = b.reconnectDone /\ a.movieFails = b.movieFails

\* Settling changes none of the fields the invariants read.
LEMMA SettleKeeps ==
  ASSUME NEW rec \in RunType, NEW how PROVE Kept(Settle(rec, how), rec)
  BY DEF Settle, Kept, RunType

\* Nor does arming the readiness interval,
LEMMA TimedKeeps ==
  ASSUME NEW rec \in RunType PROVE Kept(Timed(rec), rec)
  BY DEF Timed, Kept, RunType

\* Nor an exception in the executor.
LEMMA ThrowKeeps ==
  ASSUME NEW rec \in RunType PROVE Kept(Throw(rec), rec)
  BY DEF Throw, Kept, RunType

\* What spawnOnce does: either nothing is launched, and the channel keeps its
\* entry or shows an error, or one free process is registered for it.
LEMMA SpawnEffect ==
  ASSUME TypeOK, NEW r \in Runs, NEW rec \in RunType, NEW po \in ProcMap,
         NEW ct \in RunMap, NEW rn \in [Runs -> RunType],
         NEW pr \in [Procs -> ProcType], SpawnOnce(r, rec, po, ct, rn, pr)
  PROVE /\ Kept(run'[r], rec)
        /\ \A q \in Runs \ {r} : run'[q] = rn[q]
        /\ \A c \in Channels \ {rec.chan} : status'[c] = status[c] /\ processes'[c] = po[c]
        /\ \A c \in Channels : runControllers'[c] \in {ct[c], NoRun}
        /\ \/ /\ proc' = pr
              /\ \/ /\ processes'[rec.chan] = po[rec.chan]
                    /\ status'[rec.chan] = "error" \/
                       (status' = status /\ (rec.cancelled \/ rec.chan \notin channels))
                 \/ processes'[rec.chan] = NoProc /\ status'[rec.chan] = "error"
           \/ \E p \in Procs :
                /\ FreeProc(p) /\ ~rec.cancelled /\ rec.chan \in channels
                /\ processes'[rec.chan] = p
                /\ \A q \in Procs \ {p} : proc'[q] = pr[q]
                /\ proc'[p].chan = rec.chan /\ proc'[p].life = "alive"
                /\ IF Format[rec.chan] = "mpegts"
                   THEN proc'[p].kind = "engine" /\ proc'[p].run = r
                   ELSE proc'[p].kind = "bare"
  <1>. rec.chan \in Channels
    BY DEF RunType
  <1>. USE DEF ProcMap, RunMap
  <1>1. CASE SpawnCancelled(r, rec, po, ct, rn, pr)
    BY <1>1, SettleKeeps DEF SpawnCancelled
  <1>2. CASE SpawnInvalid(r, rec, po, ct, rn, pr)
    BY <1>2, SettleKeeps DEF SpawnInvalid, TypeOK
  <1>3. CASE SpawnFails(r, rec, po, ct, rn, pr)
    <2>1. Kept(Settle(Timed(rec), "rejected"), rec)
      BY SettleKeeps, TimedKeeps, TimedType DEF Kept
    <2>. QED BY <1>3, <2>1 DEF SpawnFails, TypeOK
  <1>4. CASE SpawnOk(r, rec, po, ct, rn, pr)
    <2>1. Kept(Throw(Timed(rec)), rec) /\ Kept(Timed(rec), rec)
      BY ThrowKeeps, TimedKeeps, TimedType DEF Kept
    <2>2. Kept(run'[r], rec)
      BY <1>4, <2>1 DEF SpawnOk
    <2>3. PICK p \in Procs :
            /\ FreeProc(p)
            /\ processes' = [po EXCEPT ![rec.chan] = p]
            /\ proc' = [pr EXCEPT ![p] =
                 IF Format[rec.chan] = "mpegts" THEN NewProc(rec.chan, r, "engine")
                                                ELSE NewProc(rec.chan, NoRun, "bare")]
      BY <1>4 DEF SpawnOk
    <2>4. /\ proc'[p].chan = rec.chan /\ proc'[p].life = "alive"
          /\ IF Format[rec.chan] = "mpegts"
             THEN proc'[p].kind = "engine" /\ proc'[p].run = r
             ELSE proc'[p].kind = "bare"
      BY <2>3 DEF NewProc
    <2>. QED BY <1>4, <2>2, <2>3, <2>4 DEF SpawnOk, TypeOK
  <1>. QED BY <1>1, <1>2, <1>3, <1>4 DEF SpawnOnce

\* SIGTERM changes neither whose process it is nor whether it is gone.
LEMMA SignalEffect ==
  ASSUME NEW pr \in [Procs -> ProcType], NEW S, NEW p \in Procs
  PROVE /\ Signal(pr, S)[p].chan = pr[p].chan
        /\ Signal(pr, S)[p].run = pr[p].run
        /\ Signal(pr, S)[p].kind = pr[p].kind
        /\ p \notin S => Signal(pr, S)[p] = pr[p]
        /\ (Signal(pr, S)[p].life = "gone") <=> (pr[p].life = "gone")
        /\ Signal(pr, S)[p].life = "alive" => pr[p].life = "alive"
  BY DEF Signal, ProcType

\* stopChannel cancels the controlled run of the channel, disarms its spawn
\* timer, and touches no other run.
LEMMA StoppedRunsEffect ==
  ASSUME TypeOK, NEW c \in Channels, NEW r \in Runs
  PROVE /\ StoppedRuns(c)[r].chan = run[r].chan
        /\ StoppedRuns(c)[r].reconnectDone = run[r].reconnectDone
        /\ StoppedRuns(c)[r].movieFails = run[r].movieFails
        /\ StoppedRuns(c)[r].spawnTimer <=> run[r].spawnTimer /\ r # runControllers[c]
        /\ StoppedRuns(c)[r].cancelled <=> run[r].cancelled \/ r = runControllers[c]
  <1>. run[r] \in RunType
    BY DEF TypeOK
  <1>1. CASE r = runControllers[c]
    BY <1>1 DEF StoppedRuns, RunType
  <1>2. CASE r # runControllers[c]
    BY <1>2 DEF StoppedRuns
  <1>. QED BY <1>1, <1>2

\* What startChannel does, on whatever maps its caller left.
LEMMA StartEffect ==
  ASSUME TypeOK, NEW c \in Channels, NEW r \in Runs, NEW po \in ProcMap,
         NEW rn \in [Runs -> RunType], NEW pr \in [Procs -> ProcType],
         StartChannel(c, r, po, rn, pr)
  PROVE /\ RunOver(r)
        /\ run'[r].chan = c /\ ~run'[r].cancelled /\ ~run'[r].spawnTimer
        /\ run'[r].movieFails = 0 /\ run'[r].reconnectDone = 0
        /\ \A q \in Runs \ {r} : run'[q] = rn[q]
        /\ \A d \in Channels \ {c} : status'[d] = status[d] /\ processes'[d] = po[d]
        /\ \A d \in Channels \ {c} : runControllers'[d] \in {runControllers[d], NoRun}
        /\ runControllers'[c] \in {r, NoRun}
        /\ \/ /\ proc' = pr
              /\ \/ /\ processes'[c] = po[c]
                    /\ status'[c] = "error" \/ (status' = status /\ c \notin channels)
                 \/ processes'[c] = NoProc /\ status'[c] = "error"
           \/ \E p \in Procs :
                /\ FreeProc(p) /\ c \in channels
                /\ processes'[c] = p
                /\ \A q \in Procs \ {p} : proc'[q] = pr[q]
                /\ proc'[p].chan = c /\ proc'[p].life = "alive"
                /\ IF Format[c] = "mpegts"
                   THEN proc'[p].kind = "engine" /\ proc'[p].run = r
                   ELSE proc'[p].kind = "bare"
  <1>. DEFINE ct == [runControllers EXCEPT ![c] = r]
              rec == NewRun(c)
  <1>1. ct \in RunMap /\ (\A d \in Channels : ct[d] = IF d = c THEN r ELSE runControllers[d])
    BY DEF TypeOK, RunMap
  <1>2. rec \in RunType /\ rec.chan = c /\ ~rec.cancelled /\ ~rec.spawnTimer
        /\ rec.movieFails = 0 /\ rec.reconnectDone = 0
    BY NewRunType DEF NewRun
  <1>3. SpawnOnce(r, rec, po, ct, rn, pr) /\ RunOver(r)
    BY DEF StartChannel
  <1>. HIDE DEF ct, rec
  <1>4. Kept(run'[r], rec)
    BY <1>1, <1>2, <1>3, SpawnEffect
  <1>5. /\ \A q \in Runs \ {r} : run'[q] = rn[q]
        /\ \A d \in Channels \ {c} : status'[d] = status[d] /\ processes'[d] = po[d]
        /\ \A d \in Channels : runControllers'[d] \in {ct[d], NoRun}
    BY <1>1, <1>2, <1>3, SpawnEffect
  <1>6. \/ /\ proc' = pr
           /\ \/ /\ processes'[c] = po[c]
                 /\ status'[c] = "error" \/ (status' = status /\ c \notin channels)
              \/ processes'[c] = NoProc /\ status'[c] = "error"
        \/ \E p \in Procs :
             /\ FreeProc(p) /\ c \in channels
             /\ processes'[c] = p
             /\ \A q \in Procs \ {p} : proc'[q] = pr[q]
             /\ proc'[p].chan = c /\ proc'[p].life = "alive"
             /\ IF Format[c] = "mpegts"
                THEN proc'[p].kind = "engine" /\ proc'[p].run = r
                ELSE proc'[p].kind = "bare"
    BY <1>1, <1>2, <1>3, SpawnEffect, SMTT(30)
  <1>. QED BY <1>1, <1>2, <1>3, <1>4, <1>5, <1>6 DEF Kept

\* Clearing a timer keeps the other fields.
LEMMA TimersKeep ==
  ASSUME NEW rec \in RunType
  PROVE /\ Kept([rec EXCEPT !.readyTimer = FALSE], rec)
        /\ LET cleared == [rec EXCEPT !.spawnTimer = FALSE]
           IN /\ cleared.chan = rec.chan /\ cleared.cancelled = rec.cancelled
              /\ cleared.movieFails = rec.movieFails /\ ~cleared.spawnTimer
              /\ cleared.reconnectDone = rec.reconnectDone
  BY DEF Kept, RunType

\* The readiness interval only ever moves a status to running.
LEMMA ReadyEffect ==
  ASSUME TypeOK, NEW r \in Runs, ReadyTimer(r)
  PROVE /\ \A q \in Runs : Kept(run'[q], run[q])
        /\ \A c \in Channels : status'[c] \in {status[c], "running"}
        /\ UNCHANGED <<channels, processes, shadowProcesses, runControllers, proc, switching>>
  <1>1. run \in [Runs -> RunType]
    BY DEF TypeOK
  <1>2. [run[r] EXCEPT !.readyTimer = FALSE] \in RunType
    BY <1>1, FieldsType
  <1>3. Kept(Settle([run[r] EXCEPT !.readyTimer = FALSE], "resolved"), run[r])
    <2>. DEFINE rec == [run[r] EXCEPT !.readyTimer = FALSE]
    <2>1. Kept(rec, run[r]) /\ rec \in RunType
      BY <1>1, <1>2, TimersKeep
    <2>. HIDE DEF rec
    <2>2. Kept(Settle(rec, "resolved"), rec)
      BY <2>1, SettleKeeps
    <2>3. Kept(Settle(rec, "resolved"), run[r])
      BY <2>1, <2>2 DEF Kept
    <2>. QED BY <2>3 DEF rec
  <1>4. \A q \in Runs : Kept(run'[q], run[q])
    <2>. SUFFICES ASSUME NEW q \in Runs PROVE Kept(run'[q], run[q])
      OBVIOUS
    <2>1. CASE q = r
      BY <1>1, <1>3, <2>1 DEF ReadyTimer
    <2>2. CASE q # r
      BY <1>1, <2>2 DEF ReadyTimer, Kept
    <2>. QED BY <2>1, <2>2
  <1>. QED BY <1>4 DEF ReadyTimer, TypeOK

\* What a due spawn timer does.
LEMMA SpawnTimerEffect ==
  ASSUME TypeOK, NEW r \in Runs, SpawnTimer(r)
  PROVE LET c == run[r].chan
        IN /\ run[r].spawnTimer /\ c \in Channels
           /\ run'[r].chan = c /\ run'[r].cancelled = run[r].cancelled
           /\ run'[r].movieFails = run[r].movieFails /\ ~run'[r].spawnTimer
           /\ run'[r].reconnectDone = run[r].reconnectDone
           /\ \A q \in Runs \ {r} : run'[q] = run[q]
           /\ \A d \in Channels \ {c} : status'[d] = status[d] /\ processes'[d] = processes[d]
           /\ \A d \in Channels : runControllers'[d] \in {runControllers[d], NoRun}
           /\ \/ /\ proc' = proc
                 /\ \/ /\ processes'[c] = processes[c]
                       /\ \/ status'[c] = "error"
                          \/ status' = status /\ (run[r].cancelled \/ c \notin channels)
                    \/ processes'[c] = NoProc /\ status'[c] = "error"
              \/ \E p \in Procs :
                   /\ FreeProc(p) /\ ~run[r].cancelled /\ c \in channels
                   /\ processes'[c] = p
                   /\ \A q \in Procs \ {p} : proc'[q] = proc[q]
                   /\ proc'[p].chan = c /\ proc'[p].life = "alive"
                   /\ IF Format[c] = "mpegts"
                      THEN proc'[p].kind = "engine" /\ proc'[p].run = r
                      ELSE proc'[p].kind = "bare"
           /\ UNCHANGED <<channels, shadowProcesses, switching>>
  <1>. DEFINE rec == [run[r] EXCEPT !.spawnTimer = FALSE]
              c == run[r].chan
  <1>1. run \in [Runs -> RunType] /\ c \in Channels
    BY DEF TypeOK, RunType
  <1>2. /\ rec \in RunType /\ rec.chan = c /\ rec.cancelled = run[r].cancelled
        /\ rec.movieFails = run[r].movieFails /\ ~rec.spawnTimer
        /\ rec.reconnectDone = run[r].reconnectDone
    BY <1>1, FieldsType, TimersKeep
  <1>3. /\ SpawnOnce(r, rec, processes, runControllers, run, proc)
        /\ run[r].spawnTimer /\ UNCHANGED <<channels, shadowProcesses, switching>>
    BY DEF SpawnTimer
  <1>4. processes \in ProcMap /\ runControllers \in RunMap /\ proc \in [Procs -> ProcType]
    BY DEF TypeOK, ProcMap, RunMap
  <1>. HIDE DEF rec
  <1>5. Kept(run'[r], rec)
    BY <1>1, <1>2, <1>3, <1>4, SpawnEffect
  <1>6. /\ \A q \in Runs \ {r} : run'[q] = run[q]
        /\ \A d \in Channels \ {c} : status'[d] = status[d] /\ processes'[d] = processes[d]
        /\ \A d \in Channels : runControllers'[d] \in {runControllers[d], NoRun}
    BY <1>1, <1>2, <1>3, <1>4, SpawnEffect
  <1>7. \/ /\ proc' = proc
           /\ \/ /\ processes'[c] = processes[c]
                 /\ \/ status'[c] = "error"
                    \/ status' = status /\ (run[r].cancelled \/ c \notin channels)
              \/ processes'[c] = NoProc /\ status'[c] = "error"
        \/ \E p \in Procs :
             /\ FreeProc(p) /\ ~run[r].cancelled /\ c \in channels
             /\ processes'[c] = p
             /\ \A q \in Procs \ {p} : proc'[q] = proc[q]
             /\ proc'[p].chan = c /\ proc'[p].life = "alive"
             /\ IF Format[c] = "mpegts"
                THEN proc'[p].kind = "engine" /\ proc'[p].run = r
                ELSE proc'[p].kind = "bare"
    BY <1>1, <1>2, <1>3, <1>4, SpawnEffect
  <1>. QED BY <1>1, <1>2, <1>3, <1>5, <1>6, <1>7 DEF Kept

\* The close of a process that is no longer current forgets at most a controller.
LEMMA StaleEffect ==
  ASSUME TypeOK, NEW p \in Procs, CloseStale(p)
  PROVE /\ \A q \in Runs : Kept(run'[q], run[q])
        /\ \A c \in Channels : runControllers'[c] \in {runControllers[c], NoRun}
        /\ UNCHANGED <<channels, status, processes, shadowProcesses, switching>>
  <1>1. \A q \in Runs : Kept(run'[q], run[q])
    <2>. SUFFICES ASSUME NEW q \in Runs PROVE Kept(run'[q], run[q])
      OBVIOUS
    <2>1. Kept(run[q], run[q]) /\ Kept(Settle(run[q], "rejected"), run[q])
      BY SettleKeeps DEF Kept, TypeOK
    <2>. QED BY <2>1 DEF CloseStale, TypeOK
  <1>. QED BY <1>1 DEF CloseStale, TypeOK

\* A close changes only the life of that process,
LEMMA GoneEffect ==
  ASSUME TypeOK, NEW p \in Procs, Gone(p)
  PROVE /\ proc'[p].life = "gone" /\ proc'[p].chan = proc[p].chan
        /\ proc'[p].kind = proc[p].kind /\ proc'[p].run = proc[p].run
        /\ \A q \in Procs \ {p} : proc'[q] = proc[q]
  BY DEF Gone, TypeOK, ProcType

\* And so does an exit.
LEMMA ExitEffect ==
  ASSUME TypeOK, NEW p \in Procs, Exit(p)
  PROVE /\ proc'[p].life = "exited" /\ proc'[p].chan = proc[p].chan
        /\ proc'[p].kind = proc[p].kind /\ proc'[p].run = proc[p].run
        /\ proc[p].life # "gone"
        /\ \A q \in Procs \ {p} : proc'[q] = proc[q]
        /\ UNCHANGED <<channels, status, processes, shadowProcesses, runControllers, run, switching>>
  BY DEF Exit, TypeOK, ProcType

\* What the close handler of the current process does.
LEMMA CloseCurrentEffect ==
  ASSUME TypeOK, NEW p \in Procs, NEW empty \in BOOLEAN, CloseCurrent(p, empty)
  PROVE LET r == proc[p].run
            c == proc[p].chan
            v == Verdict(p, empty)
        IN /\ proc[p].kind = "engine" /\ proc[p].life = "exited"
           /\ c \in Channels /\ processes[c] = p /\ Gone(p)
           /\ processes'[c] = NoProc /\ status'[c] = StatusAfter(v)
           /\ \A d \in Channels \ {c} : status'[d] = status[d] /\ processes'[d] = processes[d]
           /\ \A d \in Channels : runControllers'[d] \in {runControllers[d], NoRun}
           /\ \A q \in Runs \ {r} : run'[q] = run[q]
           /\ r \in Runs =>
                /\ run'[r] = RunAfter(run[r], p, v, empty)
                /\ run'[r].chan = run[r].chan /\ run'[r].cancelled = run[r].cancelled
                /\ run'[r].spawnTimer <=> (run[r].spawnTimer \/ v \in Respawning)
           /\ UNCHANGED <<channels, shadowProcesses, switching>>
  <1>1. \A rec \in RunType : \A v :
          /\ RunAfter(rec, p, v, empty).chan = rec.chan
          /\ RunAfter(rec, p, v, empty).cancelled = rec.cancelled
          /\ RunAfter(rec, p, v, empty).spawnTimer <=> (rec.spawnTimer \/ v \in Respawning)
    BY DEF RunAfter, RunType
  <1>2. proc[p].chan \in Channels
    BY DEF TypeOK, ProcType
  <1>. QED BY <1>1, <1>2 DEF CloseCurrent, TypeOK, IsCurrent, Unset

\* What a stop leaves in the maps.
LEMMA EndsEffect ==
  ASSUME TypeOK, NEW c \in Channels, NEW S \in SUBSET switching, Ends(c, S)
  PROVE /\ status'[c] = "stopped" /\ processes'[c] = NoProc /\ shadowProcesses'[c] = NoProc
        /\ runControllers'[c] = NoRun
        /\ \A d \in Channels \ {c} :
             /\ status'[d] = status[d] /\ processes'[d] = processes[d]
             /\ shadowProcesses'[d] = shadowProcesses[d]
             /\ runControllers'[d] = runControllers[d]
        /\ run' = StoppedRuns(c)
  BY DEF Ends, StopChannel, Unset, TypeOK

\* Run r has spawned p for channel c, or nothing if p = NoProc.
Launched(c, r, p) ==
  /\ p \in Procs \cup {NoProc} /\ run'[r].chan = c
  /\ UNCHANGED <<channels, switching>>
  /\ shadowProcesses'[c] \in {shadowProcesses[c], NoProc}
  /\ \A d \in Channels \ {c} :
       /\ status'[d] = status[d] /\ processes'[d] = processes[d]
       /\ shadowProcesses'[d] = shadowProcesses[d]
  /\ \A q \in Procs \ {p} :
       /\ proc'[q].chan = proc[q].chan /\ proc'[q].kind = proc[q].kind
       /\ proc'[q].run = proc[q].run
       /\ proc'[q].life = "gone" <=> proc[q].life = "gone"
       /\ proc'[q].life = "alive" => proc[q].life = "alive"
       /\ \/ proc'[q] = proc[q]
          \/ /\ q \in {processes[c], shadowProcesses[c]}
             /\ q \notin {processes'[c], shadowProcesses'[c]}
  /\ \/ /\ p = NoProc
        /\ \/ processes'[c] \in {processes[c], NoProc} /\ status'[c] = "error"
           \/ /\ processes'[c] = processes[c] /\ status'[c] = status[c]
              /\ c \notin channels \/ run'[r].cancelled
     \/ /\ p \in Procs /\ FreeProc(p) /\ c \in channels /\ ~run'[r].cancelled
        /\ processes'[c] = p /\ proc'[p].chan = c /\ proc'[p].life = "alive"
        /\ IF Format[c] = "mpegts"
           THEN proc'[p].kind = "engine" /\ proc'[p].run = r
           ELSE proc'[p].kind = "bare"

\* A start launches at most one process, for a run that was over.
LEMMA BeginsEffect ==
  ASSUME TypeOK, NEW c \in Channels, NEW r \in Runs, Begins(c, r)
  PROVE /\ \E p : Launched(c, r, p)
        /\ RunOver(r) /\ ~run'[r].cancelled /\ ~run'[r].spawnTimer
        /\ run'[r].movieFails = 0 /\ run'[r].reconnectDone = 0
        /\ \A q \in Runs \ {r} : run'[q] = run[q]
        /\ \A d \in Channels \ {c} : runControllers'[d] \in {runControllers[d], NoRun}
        /\ runControllers'[c] \in {r, NoRun}
  <1>1. /\ processes \in ProcMap /\ run \in [Runs -> RunType] /\ proc \in [Procs -> ProcType]
        /\ StartChannel(c, r, processes, run, proc)
        /\ UNCHANGED <<channels, shadowProcesses, switching>>
    BY DEF TypeOK, ProcMap, Begins
  <1>2. ASSUME proc' = proc PROVE Launched(c, r, NoProc)
    BY <1>1, <1>2, StartEffect DEF Launched, FreeProc
  <1>3. ASSUME NEW p \in Procs,
               FreeProc(p) /\ c \in channels, processes'[c] = p,
               \A q \in Procs \ {p} : proc'[q] = proc[q],
               proc'[p].chan = c /\ proc'[p].life = "alive",
               IF Format[c] = "mpegts"
               THEN proc'[p].kind = "engine" /\ proc'[p].run = r
               ELSE proc'[p].kind = "bare"
        PROVE Launched(c, r, p)
    BY <1>1, <1>3, StartEffect DEF Launched
  <1>4. \E p : Launched(c, r, p)
    BY <1>1, <1>2, <1>3, StartEffect
  <1>. QED BY <1>1, <1>4, StartEffect

\* A stop and start in one turn does the same, after cancelling the old run.
LEMMA RenewsEffect ==
  ASSUME TypeOK, NEW c \in Channels, NEW r \in Runs, Renews(c, r)
  PROVE /\ \E p : Launched(c, r, p)
        /\ processes'[c] # processes[c] \/ processes[c] = NoProc
        /\ RunOver(r) /\ ~run'[r].cancelled /\ ~run'[r].spawnTimer
        /\ run'[r].movieFails = 0 /\ run'[r].reconnectDone = 0
        /\ \A q \in Runs \ {r} : run'[q] = StoppedRuns(c)[q]
        /\ \A d \in Channels \ {c} : runControllers'[d] \in {runControllers[d], NoRun}
        /\ runControllers'[c] \in {r, NoRun}
  <1>. DEFINE po == Unset(processes, c)
              pr == StoppedProcs(c)
              rn == StoppedRuns(c)
  <1>1. /\ po \in ProcMap /\ rn \in [Runs -> RunType] /\ pr \in [Procs -> ProcType]
        /\ StartChannel(c, r, po, rn, pr) /\ c \in channels
        /\ UNCHANGED <<channels, switching>>
    BY StoppedType DEF Renews
  <1>2. po[c] = NoProc /\ \A d \in Channels \ {c} : po[d] = processes[d]
    BY DEF TypeOK, Unset
  <1>3. shadowProcesses'[c] = NoProc
        /\ \A d \in Channels \ {c} : shadowProcesses'[d] = shadowProcesses[d]
    BY DEF TypeOK, Unset, Renews
  <1>4. \A q \in Procs :
          /\ pr[q].chan = proc[q].chan /\ pr[q].kind = proc[q].kind
          /\ pr[q].run = proc[q].run
          /\ pr[q].life = "gone" <=> proc[q].life = "gone"
          /\ pr[q].life = "alive" => proc[q].life = "alive"
          /\ pr[q] = proc[q] \/ q \in {processes[c], shadowProcesses[c]}
    BY SignalEffect DEF StoppedProcs, TypeOK
  <1>. HIDE DEF po, pr, rn
  <1>5. ASSUME proc' = pr PROVE Launched(c, r, NoProc)
    <2>1. processes'[c] = NoProc
      BY <1>1, <1>2, <1>4, <1>5, StartEffect, SMTT(30) DEF FreeProc
    <2>. QED BY <1>1, <1>2, <1>3, <1>4, <1>5, <2>1, StartEffect DEF Launched, FreeProc
  <1>6. ASSUME NEW p \in Procs,
               FreeProc(p) /\ c \in channels, processes'[c] = p,
               \A q \in Procs \ {p} : proc'[q] = pr[q],
               proc'[p].chan = c /\ proc'[p].life = "alive",
               IF Format[c] = "mpegts"
               THEN proc'[p].kind = "engine" /\ proc'[p].run = r
               ELSE proc'[p].kind = "bare"
        PROVE Launched(c, r, p)
    <2>1. \A d \in Channels \ {c} : status'[d] = status[d] /\ processes'[d] = processes[d]
      BY <1>1, <1>2, StartEffect
    <2>2. run'[r].chan = c /\ ~run'[r].cancelled
      BY <1>1, StartEffect
    <2>3. \A q \in Procs \ {p} :
            /\ proc'[q].chan = proc[q].chan /\ proc'[q].kind = proc[q].kind
            /\ proc'[q].run = proc[q].run
            /\ proc'[q].life = "gone" <=> proc[q].life = "gone"
            /\ proc'[q].life = "alive" => proc[q].life = "alive"
            /\ \/ proc'[q] = proc[q]
               \/ /\ q \in {processes[c], shadowProcesses[c]}
                  /\ q \notin {processes'[c], shadowProcesses'[c]}
      BY <1>3, <1>4, <1>6
    <2>. QED BY <1>1, <1>3, <1>6, <2>1, <2>2, <2>3 DEF Launched
  <1>7. \E p : Launched(c, r, p)
    BY <1>1, <1>5, <1>6, StartEffect
  <1>8. processes'[c] # processes[c] \/ processes[c] = NoProc
    <2>1. processes'[c] = NoProc \/ FreeProc(processes'[c])
      BY <1>1, <1>2, StartEffect
    <2>. QED BY <2>1 DEF FreeProc
  <1>. QED BY <1>1, <1>7, <1>8, StartEffect DEF rn

\* A due spawn timer launches at most one process.
LEMMA SpawnTimerLaunches ==
  ASSUME TypeOK, NEW r \in Runs, SpawnTimer(r)
  PROVE \E p : Launched(run[r].chan, r, p)
  <1>. DEFINE c == run[r].chan
  <1>1. ASSUME proc' = proc PROVE Launched(c, r, NoProc)
    BY <1>1, SpawnTimerEffect DEF Launched, FreeProc
  <1>2. ASSUME NEW p \in Procs,
               FreeProc(p) /\ ~run[r].cancelled /\ c \in channels, processes'[c] = p,
               \A q \in Procs \ {p} : proc'[q] = proc[q],
               proc'[p].chan = c /\ proc'[p].life = "alive",
               IF Format[c] = "mpegts"
               THEN proc'[p].kind = "engine" /\ proc'[p].run = r
               ELSE proc'[p].kind = "bare"
        PROVE Launched(c, r, p)
    BY <1>2, SpawnTimerEffect DEF Launched
  <1>. QED BY <1>1, <1>2, SpawnTimerEffect

----------------------------------------------------------------------------
(* The inductive invariant *)

\* The controller stored under a channel belongs to a run of that channel.
ControllersMatch ==
  \A c \in Channels : runControllers[c] # NoRun => run[runControllers[c]].chan = c

\* The entry of a channel is a child of that channel.
EntriesMatch ==
  \A c \in Channels : processes[c] # NoProc => proc[processes[c]].chan = c

\* A live engine belongs to a run of its channel.
EnginesMatch ==
  \A p \in Procs : proc[p].kind = "engine" /\ proc[p].life # "gone" =>
    proc[p].run \in Runs /\ run[proc[p].run].chan = proc[p].chan

\* A switch waits only for a shadow, on a channel with an HLS output.
SwitchingMatch ==
  \A p \in switching : proc[p].kind = "shadow" /\ Format[proc[p].chan] = "hls"

\* A deleted channel is not starting and no engine is registered for it.
DeletedIsQuiet ==
  \A c \in Channels \ channels :
    /\ status[c] # "starting"
    /\ processes[c] # NoProc => proc[processes[c]].kind # "engine"

\* What the maps and the closures keep whoever acts on them; the stream manager
\* keeps it as well.  CancelledRunsInert needs to know which run, channel and
\* process belong together.
CInv ==
  /\ TypeOK
  /\ ControllersMatch /\ EntriesMatch /\ EnginesMatch /\ SwitchingMatch
  /\ ShadowEntriesAreLive /\ CancelledRunsInert /\ MovieRetryBudget /\ DeletedIsQuiet

\* The inductive invariant: the properties of the runs are not inductive alone.
\* StartingIsUnderWay needs that no cancelled run is behind the status.
IInv == CInv /\ PipeEntriesAreLive /\ StartingIsUnderWay

\* runControllers stays matched: a controller is only ever stored under the
\* channel its run was started for.
LEMMA ControllersStep ==
  ASSUME CInv, [Next]_vars, TypeOK' PROVE ControllersMatch'
  <1>. USE DEF ControllersMatch
  <1>0. TypeOK /\ ControllersMatch /\ \A c \in Channels : runControllers[c] \in Runs \cup {NoRun}
    BY DEF CInv, TypeOK
  <1>1. ASSUME NEW c \in Channels, NEW r \in Runs, Begins(c, r) PROVE ControllersMatch'
    BY <1>0, <1>1, BeginsEffect DEF Launched, RunOver
  <1>2. ASSUME NEW c \in Channels, NEW r \in Runs, Renews(c, r) PROVE ControllersMatch'
    <2>1. \A q \in Runs : StoppedRuns(c)[q].chan = run[q].chan
      BY <1>0, StoppedRunsEffect
    <2>. QED BY <1>0, <1>2, <2>1, RenewsEffect DEF Launched, RunOver
  <1>3. ASSUME NEW c \in Channels, NEW S \in SUBSET switching, Ends(c, S) PROVE ControllersMatch'
    BY <1>0, <1>3, StoppedRunsEffect, EndsEffect
  <1>4. ASSUME NEW c \in Channels, SwitchBegin(c) PROVE ControllersMatch'
    BY <1>0, <1>4 DEF SwitchBegin
  <1>5. ASSUME NEW r \in Runs, ReadyTimer(r) PROVE ControllersMatch'
    BY <1>0, <1>5, ReadyEffect DEF Kept
  <1>6. ASSUME NEW r \in Runs, SpawnTimer(r) PROVE ControllersMatch'
    BY <1>0, <1>6, SpawnTimerEffect
  <1>7. ASSUME NEW p \in Procs, \/ Output(p) \/ Exit(p) \/ CloseShadow(p)
                                \/ CloseBare(p) \/ SwitchReady(p)
        PROVE ControllersMatch'
    BY <1>0, <1>7 DEF Output, Exit, CloseShadow, CloseBare, SwitchReady
  <1>8. ASSUME NEW p \in Procs, CloseStale(p) PROVE ControllersMatch'
    BY <1>0, <1>8, StaleEffect DEF Kept
  <1>9. ASSUME NEW p \in Procs, NEW empty \in BOOLEAN, CloseCurrent(p, empty)
        PROVE ControllersMatch'
    BY <1>0, <1>9, CloseCurrentEffect
  <1>10. CASE UNCHANGED core
    BY <1>0, <1>10 DEF core
  <1>. QED BY <1>0, <1>1, <1>2, <1>3, <1>4, <1>5, <1>6, <1>7, <1>8, <1>9, <1>10, StepCases

\* What the three kinds of launch have in common.
LEMMA LaunchCases ==
  ASSUME TypeOK, NEW c \in Channels, NEW r \in Runs,
         Begins(c, r) \/ Renews(c, r) \/ (SpawnTimer(r) /\ c = run[r].chan)
  PROVE /\ \E p : Launched(c, r, p)
        /\ \A q \in Runs \ {r} : run'[q].chan = run[q].chan
        /\ run[r].chan = run'[r].chan \/ RunOver(r)
  <1>1. CASE Begins(c, r)
    BY <1>1, BeginsEffect
  <1>2. CASE Renews(c, r)
    BY <1>2, RenewsEffect, StoppedRunsEffect
  <1>3. CASE SpawnTimer(r) /\ c = run[r].chan
    BY <1>3, SpawnTimerEffect, SpawnTimerLaunches
  <1>. QED BY <1>1, <1>2, <1>3

\* A stop signals only the two entries of its channel and pending switches.
LEMMA EndsProcs ==
  ASSUME TypeOK, NEW c \in Channels, NEW S \in SUBSET switching, Ends(c, S), NEW p \in Procs
  PROVE /\ proc'[p].chan = proc[p].chan /\ proc'[p].kind = proc[p].kind
        /\ proc'[p].run = proc[p].run /\ (proc'[p].life = "gone" <=> proc[p].life = "gone")
        /\ p \notin {processes[c], shadowProcesses[c]} \cup S => proc'[p] = proc[p]
  BY SignalEffect DEF Ends, TypeOK

\* What the swap of a seamless switch does.
LEMMA SwitchEffect ==
  ASSUME TypeOK, NEW p \in Procs, SwitchReady(p)
  PROVE LET c == proc[p].chan
        IN /\ p \in switching /\ switching' = switching \ {p} /\ c \in Channels
           /\ processes'[c] = p /\ shadowProcesses'[c] = NoProc
           /\ \A d \in Channels \ {c} : /\ processes'[d] = processes[d]
                                        /\ shadowProcesses'[d] = shadowProcesses[d]
           /\ UNCHANGED <<channels, status, runControllers, run>>
           /\ \A q \in Procs :
                /\ proc'[q].chan = proc[q].chan /\ proc'[q].kind = proc[q].kind
                /\ proc'[q].run = proc[q].run
                /\ (proc'[q].life = "gone" <=> proc[q].life = "gone")
                /\ q # processes[c] => proc'[q] = proc[q]
  <1>1. proc[p].chan \in Channels
    BY DEF TypeOK, ProcType
  <1>. QED BY <1>1, SignalEffect DEF SwitchReady, Unset, TypeOK

\* A switch begins with one free process, spawned as the shadow.
LEMMA ShadowBegins ==
  ASSUME TypeOK, NEW c \in Channels, SwitchBegin(c)
  PROVE \E p \in Procs :
          /\ FreeProc(p) /\ Format[c] = "hls" /\ c \in channels /\ status[c] = "running"
          /\ proc'[p].chan = c /\ proc'[p].kind = "shadow" /\ proc'[p].life = "alive"
          /\ \A q \in Procs \ {p} : proc'[q] = proc[q]
          /\ shadowProcesses'[c] = p
          /\ \A d \in Channels \ {c} : shadowProcesses'[d] = shadowProcesses[d]
          /\ switching' = switching \cup {p}
          /\ UNCHANGED <<channels, status, processes, runControllers, run>>
  BY DEF SwitchBegin, NewProc, TypeOK

\* An entry of `processes` stays a child of its own channel.
LEMMA EntriesStep ==
  ASSUME CInv, [Next]_vars, TypeOK' PROVE EntriesMatch'
  <1>. USE DEF EntriesMatch
  <1>0. TypeOK /\ EntriesMatch /\ \A c \in Channels : processes[c] \in Procs \cup {NoProc}
    BY DEF CInv, TypeOK
  <1>1. ASSUME NEW c \in Channels, NEW r \in Runs, \E p : Launched(c, r, p) PROVE EntriesMatch'
    BY <1>0, <1>1 DEF Launched, FreeProc
  <1>2. ASSUME NEW c \in Channels, NEW S \in SUBSET switching, Ends(c, S) PROVE EntriesMatch'
    BY <1>0, <1>2, EndsEffect, EndsProcs
  <1>3. ASSUME NEW c \in Channels, SwitchBegin(c) PROVE EntriesMatch'
    BY <1>0, <1>3, ShadowBegins DEF FreeProc
  <1>4. ASSUME NEW r \in Runs, ReadyTimer(r) PROVE EntriesMatch'
    BY <1>0, <1>4, ReadyEffect
  <1>5. ASSUME NEW p \in Procs, Output(p) PROVE EntriesMatch'
    BY <1>0, <1>5 DEF Output
  <1>6. ASSUME NEW p \in Procs, Exit(p) PROVE EntriesMatch'
    BY <1>0, <1>6, ExitEffect
  <1>7. ASSUME NEW p \in Procs, CloseStale(p) \/ CloseShadow(p) \/ CloseBare(p)
        PROVE EntriesMatch'
    BY <1>0, <1>7, GoneEffect DEF CloseStale, CloseShadow, CloseBare
  <1>8. ASSUME NEW p \in Procs, NEW empty \in BOOLEAN, CloseCurrent(p, empty)
        PROVE EntriesMatch'
    BY <1>0, <1>8, CloseCurrentEffect, GoneEffect
  <1>9. ASSUME NEW p \in Procs, SwitchReady(p) PROVE EntriesMatch'
    BY <1>0, <1>9, SwitchEffect
  <1>10. CASE UNCHANGED core
    BY <1>0, <1>10 DEF core
  <1>11. \A r \in Runs : run[r].chan \in Channels
    BY <1>0 DEF TypeOK, RunType
  <1>. QED BY <1>0, <1>1, <1>2, <1>3, <1>4, <1>5, <1>6, <1>7, <1>8, <1>9, <1>10, <1>11,
              LaunchCases, StepCases

\* An engine process stays tied to a run of its own channel: the identity of
\* the run is not reused before its last process is gone.
LEMMA EnginesStep ==
  ASSUME CInv, [Next]_vars, TypeOK' PROVE EnginesMatch'
  <1>. USE DEF EnginesMatch
  <1>0. TypeOK /\ EnginesMatch
    BY DEF CInv
  <1>1. ASSUME NEW c \in Channels, NEW r \in Runs, \E p : Launched(c, r, p),
               \A q \in Runs \ {r} : run'[q].chan = run[q].chan,
               run[r].chan = run'[r].chan \/ RunOver(r)
        PROVE EnginesMatch'
    BY <1>0, <1>1 DEF Launched, RunOver
  <1>2. ASSUME NEW c \in Channels, NEW S \in SUBSET switching, Ends(c, S) PROVE EnginesMatch'
    BY <1>0, <1>2, EndsEffect, EndsProcs, StoppedRunsEffect
  <1>3. ASSUME NEW c \in Channels, SwitchBegin(c) PROVE EnginesMatch'
    BY <1>0, <1>3, ShadowBegins
  <1>4. ASSUME NEW r \in Runs, ReadyTimer(r) PROVE EnginesMatch'
    BY <1>0, <1>4, ReadyEffect DEF Kept
  <1>5. ASSUME NEW p \in Procs, Output(p) PROVE EnginesMatch'
    BY <1>0, <1>5 DEF Output
  <1>6. ASSUME NEW p \in Procs, Exit(p) PROVE EnginesMatch'
    BY <1>0, <1>6, ExitEffect
  <1>7. ASSUME NEW p \in Procs, CloseStale(p) PROVE EnginesMatch'
    BY <1>0, <1>7, GoneEffect, StaleEffect DEF CloseStale, Kept
  <1>8. ASSUME NEW p \in Procs, CloseShadow(p) \/ CloseBare(p) PROVE EnginesMatch'
    BY <1>0, <1>8, GoneEffect DEF CloseShadow, CloseBare
  <1>9. ASSUME NEW p \in Procs, NEW empty \in BOOLEAN, CloseCurrent(p, empty)
        PROVE EnginesMatch'
    BY <1>0, <1>9, CloseCurrentEffect, GoneEffect
  <1>10. ASSUME NEW p \in Procs, SwitchReady(p) PROVE EnginesMatch'
    BY <1>0, <1>10, SwitchEffect
  <1>11. CASE UNCHANGED core
    BY <1>0, <1>11 DEF core
  <1>12. \A r \in Runs : run[r].chan \in Channels
    BY <1>0 DEF TypeOK, RunType
  <1>. QED BY <1>0, <1>1, <1>2, <1>3, <1>4, <1>5, <1>6, <1>7, <1>8, <1>9, <1>10, <1>11, <1>12,
              LaunchCases, StepCases

\* Only shadows of HLS channels are ever waited for.
LEMMA SwitchingStep ==
  ASSUME CInv, [Next]_vars, TypeOK' PROVE SwitchingMatch'
  <1>. USE DEF SwitchingMatch
  <1>0. TypeOK /\ SwitchingMatch /\ switching \subseteq Procs
    BY DEF CInv, TypeOK
  <1>1. ASSUME NEW c \in Channels, NEW r \in Runs, \E p : Launched(c, r, p)
        PROVE SwitchingMatch'
    BY <1>0, <1>1 DEF Launched, FreeProc
  <1>2. ASSUME NEW c \in Channels, NEW S \in SUBSET switching, Ends(c, S) PROVE SwitchingMatch'
    <2>1. switching' \subseteq switching
      BY <1>2 DEF Ends
    <2>. QED BY <1>0, <1>2, <2>1, EndsProcs
  <1>3. ASSUME NEW c \in Channels, SwitchBegin(c) PROVE SwitchingMatch'
    BY <1>0, <1>3, ShadowBegins
  <1>4. ASSUME NEW r \in Runs, ReadyTimer(r) PROVE SwitchingMatch'
    BY <1>0, <1>4, ReadyEffect
  <1>5. ASSUME NEW p \in Procs, Output(p) PROVE SwitchingMatch'
    BY <1>0, <1>5 DEF Output
  <1>6. ASSUME NEW p \in Procs, Exit(p) PROVE SwitchingMatch'
    BY <1>0, <1>6, ExitEffect
  <1>7. ASSUME NEW p \in Procs, CloseStale(p) \/ CloseShadow(p) \/ CloseBare(p)
        PROVE SwitchingMatch'
    BY <1>0, <1>7, GoneEffect DEF CloseStale, CloseShadow, CloseBare
  <1>8. ASSUME NEW p \in Procs, NEW empty \in BOOLEAN, CloseCurrent(p, empty)
        PROVE SwitchingMatch'
    BY <1>0, <1>8, CloseCurrentEffect, GoneEffect
  <1>9. ASSUME NEW p \in Procs, SwitchReady(p) PROVE SwitchingMatch'
    BY <1>0, <1>9, SwitchEffect
  <1>10. CASE UNCHANGED core
    BY <1>0, <1>10 DEF core
  <1>11. \A r \in Runs : run[r].chan \in Channels
    BY <1>0 DEF TypeOK, RunType
  <1>. QED BY <1>0, <1>1, <1>2, <1>3, <1>4, <1>5, <1>6, <1>7, <1>8, <1>9, <1>10, <1>11,
              LaunchCases, StepCases

\* Each step keeps the shadow entries live.
LEMMA ShadowStep ==
  ASSUME CInv, [Next]_vars, TypeOK' PROVE ShadowEntriesAreLive'
  <1>. USE DEF ShadowEntriesAreLive
  <1>0. /\ TypeOK /\ ShadowEntriesAreLive
        /\ \A c \in Channels : shadowProcesses[c] \in Procs \cup {NoProc}
    BY DEF CInv, TypeOK
  <1>1. ASSUME NEW c \in Channels, NEW r \in Runs, \E p : Launched(c, r, p)
        PROVE ShadowEntriesAreLive'
    BY <1>0, <1>1 DEF Launched, FreeProc
  <1>2. ASSUME NEW c \in Channels, NEW S \in SUBSET switching, Ends(c, S)
        PROVE ShadowEntriesAreLive'
    BY <1>0, <1>2, EndsProcs, EndsEffect
  <1>3. ASSUME NEW c \in Channels, SwitchBegin(c) PROVE ShadowEntriesAreLive'
    BY <1>0, <1>3, ShadowBegins DEF FreeProc
  <1>4. ASSUME NEW r \in Runs, ReadyTimer(r) PROVE ShadowEntriesAreLive'
    BY <1>0, <1>4, ReadyEffect
  <1>5. ASSUME NEW p \in Procs, Output(p) PROVE ShadowEntriesAreLive'
    BY <1>0, <1>5 DEF Output
  <1>6. ASSUME NEW p \in Procs, Exit(p) PROVE ShadowEntriesAreLive'
    BY <1>0, <1>6, ExitEffect
  <1>7. ASSUME NEW p \in Procs, CloseStale(p) \/ CloseBare(p)
        PROVE ShadowEntriesAreLive'
    BY <1>0, <1>7, GoneEffect DEF CloseStale, CloseBare
  <1>8. ASSUME NEW p \in Procs, CloseShadow(p) PROVE ShadowEntriesAreLive'
    BY <1>0, <1>8, GoneEffect DEF CloseShadow, Unset, TypeOK
  <1>9. ASSUME NEW p \in Procs, NEW empty \in BOOLEAN, CloseCurrent(p, empty)
        PROVE ShadowEntriesAreLive'
    BY <1>0, <1>9, CloseCurrentEffect, GoneEffect
  <1>10. ASSUME NEW p \in Procs, SwitchReady(p) PROVE ShadowEntriesAreLive'
    BY <1>0, <1>10, SwitchEffect
  <1>11. CASE UNCHANGED core
    BY <1>0, <1>11 DEF core
  <1>12. \A r \in Runs : run[r].chan \in Channels
    BY <1>0 DEF TypeOK, RunType
  <1>. QED BY <1>0, <1>1, <1>2, <1>3, <1>4, <1>5, <1>6, <1>7, <1>8, <1>9, <1>10, <1>11, <1>12,
              LaunchCases, StepCases

\* Each step keeps the entries of MPEG-TS channels live.
LEMMA PipeStep ==
  ASSUME IInv, [Next]_vars, TypeOK' PROVE PipeEntriesAreLive'
  <1>. USE DEF PipeEntriesAreLive
  <1>0. /\ TypeOK /\ PipeEntriesAreLive
        /\ EntriesMatch /\ ShadowEntriesAreLive /\ SwitchingMatch
        /\ \A c \in Channels : processes[c] \in Procs \cup {NoProc}
    BY DEF IInv, CInv, TypeOK
  <1>1. ASSUME NEW c \in Channels, NEW r \in Runs, \E p : Launched(c, r, p)
        PROVE PipeEntriesAreLive'
    BY <1>0, <1>1 DEF Launched, FreeProc, EntriesMatch, ShadowEntriesAreLive
  <1>2. ASSUME NEW c \in Channels, NEW S \in SUBSET switching, Ends(c, S)
        PROVE PipeEntriesAreLive'
    BY <1>0, <1>2, EndsProcs, EndsEffect DEF EntriesMatch, ShadowEntriesAreLive, SwitchingMatch
  <1>3. ASSUME NEW c \in Channels, SwitchBegin(c) PROVE PipeEntriesAreLive'
    BY <1>0, <1>3, ShadowBegins DEF FreeProc
  <1>4. ASSUME NEW r \in Runs, ReadyTimer(r) PROVE PipeEntriesAreLive'
    BY <1>0, <1>4, ReadyEffect
  <1>5. ASSUME NEW p \in Procs, Output(p) PROVE PipeEntriesAreLive'
    BY <1>0, <1>5 DEF Output
  <1>6. ASSUME NEW p \in Procs, Exit(p) PROVE PipeEntriesAreLive'
    BY <1>0, <1>6, ExitEffect
  <1>7. ASSUME NEW p \in Procs, CloseStale(p) PROVE PipeEntriesAreLive'
    BY <1>0, <1>7, GoneEffect DEF CloseStale, IsCurrent
  <1>8. ASSUME NEW p \in Procs, CloseShadow(p) \/ CloseBare(p) PROVE PipeEntriesAreLive'
    BY <1>0, <1>8, GoneEffect DEF CloseShadow, CloseBare
  <1>9. ASSUME NEW p \in Procs, NEW empty \in BOOLEAN, CloseCurrent(p, empty)
        PROVE PipeEntriesAreLive'
    BY <1>0, <1>9, CloseCurrentEffect, GoneEffect
  <1>10. ASSUME NEW p \in Procs, SwitchReady(p) PROVE PipeEntriesAreLive'
    BY <1>0, <1>10, SwitchEffect DEF SwitchingMatch, EntriesMatch
  <1>11. CASE UNCHANGED core
    BY <1>0, <1>11 DEF core
  <1>12. \A r \in Runs : run[r].chan \in Channels
    BY <1>0 DEF TypeOK, RunType
  <1>. QED BY <1>0, <1>1, <1>2, <1>3, <1>4, <1>5, <1>6, <1>7, <1>8, <1>9, <1>10, <1>11, <1>12,
              LaunchCases, StepCases

\* A deleted channel is never starting and never gets an engine again.
LEMMA DeletedStep ==
  ASSUME CInv, [Next]_vars, TypeOK' PROVE DeletedIsQuiet'
  <1>. USE DEF DeletedIsQuiet
  <1>0. /\ TypeOK /\ DeletedIsQuiet /\ EntriesMatch /\ SwitchingMatch
        /\ \A c \in Channels : processes[c] \in Procs \cup {NoProc}
    BY DEF CInv, TypeOK
  <1>1. ASSUME NEW c \in Channels, NEW r \in Runs, \E p : Launched(c, r, p)
        PROVE DeletedIsQuiet'
    BY <1>0, <1>1 DEF Launched, FreeProc
  <1>2. ASSUME NEW c \in Channels, NEW S \in SUBSET switching, Ends(c, S)
        PROVE DeletedIsQuiet'
    <2>1. channels \subseteq channels' \cup {c}
      BY <1>2 DEF Ends
    <2>. QED BY <1>0, <1>2, <2>1, EndsProcs, EndsEffect
  <1>3. ASSUME NEW c \in Channels, SwitchBegin(c) PROVE DeletedIsQuiet'
    BY <1>0, <1>3, ShadowBegins DEF FreeProc
  <1>4. ASSUME NEW r \in Runs, ReadyTimer(r) PROVE DeletedIsQuiet'
    BY <1>0, <1>4, ReadyEffect
  <1>5. ASSUME NEW p \in Procs, Output(p) PROVE DeletedIsQuiet'
    BY <1>0, <1>5 DEF Output, TypeOK
  <1>6. ASSUME NEW p \in Procs, Exit(p) PROVE DeletedIsQuiet'
    BY <1>0, <1>6, ExitEffect
  <1>7. ASSUME NEW p \in Procs, CloseStale(p) \/ CloseShadow(p) \/ CloseBare(p)
        PROVE DeletedIsQuiet'
    BY <1>0, <1>7, GoneEffect DEF CloseStale, CloseShadow, CloseBare
  <1>8. ASSUME NEW p \in Procs, NEW empty \in BOOLEAN, CloseCurrent(p, empty)
        PROVE DeletedIsQuiet'
    BY <1>0, <1>8, CloseCurrentEffect, GoneEffect
  <1>9. ASSUME NEW p \in Procs, SwitchReady(p) PROVE DeletedIsQuiet'
    BY <1>0, <1>9, SwitchEffect DEF SwitchingMatch
  <1>10. CASE UNCHANGED core
    BY <1>0, <1>10 DEF core
  <1>11. \A r \in Runs : run[r].chan \in Channels
    BY <1>0 DEF TypeOK, RunType
  <1>. QED BY <1>0, <1>1, <1>2, <1>3, <1>4, <1>5, <1>6, <1>7, <1>8, <1>9, <1>10, <1>11,
              LaunchCases, StepCases

\* Each step keeps cancelled runs inert.
LEMMA InertStep ==
  ASSUME CInv, [Next]_vars, TypeOK' PROVE CancelledRunsInert'
  <1>. USE DEF CancelledRunsInert, IsCurrent
  <1>0. /\ TypeOK /\ CancelledRunsInert
        /\ ControllersMatch /\ EnginesMatch /\ SwitchingMatch
        /\ \A c \in Channels : processes[c] \in Procs \cup {NoProc}
        /\ \A p \in Procs : proc[p].chan \in Channels
        /\ NoRun \notin Runs
    BY DEF CInv, TypeOK, ProcType
  <1>1. ASSUME NEW c \in Channels, NEW r \in Runs, Begins(c, r) PROVE CancelledRunsInert'
    <2>1. PICK p : Launched(c, r, p)
      BY <1>0, <1>1, BeginsEffect
    <2>. QED BY <1>0, <1>1, <2>1, BeginsEffect DEF Launched, FreeProc
  <1>2. ASSUME NEW c \in Channels, NEW r \in Runs, Renews(c, r) PROVE CancelledRunsInert'
    <2>1. PICK p : Launched(c, r, p)
      BY <1>0, <1>2, RenewsEffect
    <2>2. ASSUME NEW q \in Runs \ {r}, run'[q].cancelled
          PROVE /\ ~run'[q].spawnTimer
                /\ \A d \in Channels : runControllers'[d] # q
      BY <1>0, <1>2, <2>2, RenewsEffect, StoppedRunsEffect DEF ControllersMatch
    <2>3. ASSUME NEW q \in Runs \ {r}, run'[q].cancelled, NEW x \in Procs,
                 proc'[x].kind = "engine", proc'[x].life # "gone", proc'[x].run = q
          PROVE processes'[proc'[x].chan] # x
      <3>1. CASE x = p
        BY <1>2, <2>1, <2>3, <3>1 DEF Launched
      <3>2. CASE x # p
        <4>1. /\ proc[x].kind = "engine" /\ proc[x].life # "gone" /\ proc[x].run = q
              /\ proc'[x].chan = proc[x].chan
          BY <2>1, <2>3, <3>2 DEF Launched
        <4>2. run[q].chan = proc[x].chan
          BY <1>0, <4>1 DEF EnginesMatch
        <4>3. CASE run[q].cancelled
          BY <1>0, <2>1, <3>2, <4>1, <4>3 DEF Launched
        <4>4. CASE q = runControllers[c]
          <5>1. proc[x].chan = c
            BY <1>0, <4>2, <4>4 DEF ControllersMatch
          <5>2. processes'[c] \in {processes[c], NoProc, p}
            BY <2>1 DEF Launched
          <5>3. processes'[c] # processes[c] \/ processes[c] = NoProc
            BY <1>0, <1>2, RenewsEffect
          <5>. QED BY <3>2, <4>1, <5>1, <5>2, <5>3
        <4>. QED BY <1>0, <1>2, <2>3, <4>3, <4>4, RenewsEffect, StoppedRunsEffect
      <3>. QED BY <3>1, <3>2
    <2>4. ~run'[r].cancelled
      BY <1>0, <1>2, RenewsEffect
    <2>. QED BY <2>2, <2>3, <2>4
  <1>3. ASSUME NEW r \in Runs, SpawnTimer(r) PROVE CancelledRunsInert'
    <2>1. PICK p : Launched(run[r].chan, r, p)
      BY <1>0, <1>3, SpawnTimerLaunches
    <2>. QED BY <1>0, <1>3, <2>1, SpawnTimerEffect DEF Launched, FreeProc
  <1>4. ASSUME NEW c \in Channels, NEW S \in SUBSET switching, Ends(c, S)
        PROVE CancelledRunsInert'
    <2>1. ASSUME NEW q \in Runs, run'[q].cancelled
          PROVE /\ ~run'[q].spawnTimer
                /\ \A d \in Channels : runControllers'[d] # q
      BY <1>0, <1>4, <2>1, EndsEffect, StoppedRunsEffect DEF ControllersMatch
    <2>2. ASSUME NEW q \in Runs, run'[q].cancelled, NEW x \in Procs,
                 proc'[x].kind = "engine", proc'[x].life # "gone", proc'[x].run = q
          PROVE processes'[proc'[x].chan] # x
      <3>1. /\ proc[x].kind = "engine" /\ proc[x].life # "gone" /\ proc[x].run = q
            /\ proc'[x].chan = proc[x].chan
        BY <1>0, <1>4, <2>2, EndsProcs
      <3>2. CASE run[q].cancelled
        BY <1>0, <1>4, <3>1, <3>2, EndsEffect
      <3>3. CASE q = runControllers[c]
        BY <1>0, <1>4, <3>1, <3>3, EndsEffect DEF ControllersMatch, EnginesMatch
      <3>. QED BY <1>0, <1>4, <2>2, <3>2, <3>3, EndsEffect, StoppedRunsEffect
    <2>. QED BY <2>1, <2>2
  <1>5. ASSUME NEW c \in Channels, SwitchBegin(c) PROVE CancelledRunsInert'
    BY <1>0, <1>5, ShadowBegins
  <1>6. ASSUME NEW r \in Runs, ReadyTimer(r) PROVE CancelledRunsInert'
    BY <1>0, <1>6, ReadyEffect DEF Kept
  <1>7. ASSUME NEW p \in Procs, Output(p) PROVE CancelledRunsInert'
    BY <1>0, <1>7 DEF Output
  <1>8. ASSUME NEW p \in Procs, Exit(p) PROVE CancelledRunsInert'
    BY <1>0, <1>8, ExitEffect
  <1>9. ASSUME NEW p \in Procs, CloseStale(p) PROVE CancelledRunsInert'
    <2>1. Gone(p)
      BY <1>9 DEF CloseStale
    <2>. QED BY <1>0, <1>9, <2>1, GoneEffect, StaleEffect DEF Kept
  <1>10. ASSUME NEW p \in Procs, CloseShadow(p) \/ CloseBare(p) PROVE CancelledRunsInert'
    BY <1>0, <1>10, GoneEffect DEF CloseShadow, CloseBare
  <1>11. ASSUME NEW p \in Procs, NEW empty \in BOOLEAN, CloseCurrent(p, empty)
         PROVE CancelledRunsInert'
    <2>1. proc[p].run \in Runs /\ ~run[proc[p].run].cancelled
      BY <1>0, <1>11, CloseCurrentEffect DEF EnginesMatch
    <2>2. \A q \in Runs : run'[q].cancelled =>
            run[q].cancelled /\ run'[q] = run[q]
      BY <1>0, <1>11, <2>1, CloseCurrentEffect
    <2>3. \A d \in Channels : /\ runControllers'[d] \in {runControllers[d], NoRun}
                              /\ processes'[d] \in {processes[d], NoProc}
      BY <1>0, <1>11, CloseCurrentEffect
    <2>4. \A x \in Procs : proc'[x].chan = proc[x].chan /\ proc'[x].kind = proc[x].kind
                           /\ proc'[x].run = proc[x].run
                           /\ (proc'[x].life # "gone" => proc[x].life # "gone")
      BY <1>0, <1>11, CloseCurrentEffect, GoneEffect
    <2>. QED BY <1>0, <2>2, <2>3, <2>4
  <1>12. ASSUME NEW p \in Procs, SwitchReady(p) PROVE CancelledRunsInert'
    BY <1>0, <1>12, SwitchEffect DEF SwitchingMatch
  <1>13. CASE UNCHANGED core
    BY <1>0, <1>13 DEF core
  <1>. QED BY <1>0, <1>1, <1>2, <1>3, <1>4, <1>5, <1>6, <1>7, <1>8, <1>9, <1>10, <1>11,
              <1>12, <1>13, StepCases

\* Each step keeps every starting channel under way.
LEMMA StartingStep ==
  ASSUME IInv, [Next]_vars, TypeOK' PROVE StartingIsUnderWay'
  <1>. USE DEF StartingIsUnderWay
  <1>0. /\ TypeOK /\ StartingIsUnderWay /\ ControllersMatch /\ EnginesMatch
        /\ CancelledRunsInert /\ DeletedIsQuiet
        /\ \A c \in Channels : processes[c] \in Procs \cup {NoProc}
    BY DEF IInv, CInv, TypeOK
  <1>1. ASSUME NEW c \in Channels, NEW r \in Runs, NEW p, Launched(c, r, p),
               run'[r].cancelled => run[r].cancelled /\ run[r].spawnTimer,
               \A q \in Runs : run[q].spawnTimer /\ run[q].chan # c =>
                 run'[q].spawnTimer /\ run'[q].chan = run[q].chan
        PROVE StartingIsUnderWay'
    <2>1. status'[c] = "starting" => processes'[c] # NoProc
      BY <1>0, <1>1 DEF Launched, DeletedIsQuiet, CancelledRunsInert
    <2>2. ASSUME NEW d \in Channels \ {c}, status'[d] = "starting", processes'[d] = NoProc
          PROVE \E q \in Runs : run'[q].chan = d /\ run'[q].spawnTimer
      <3>1. status[d] = "starting" /\ processes[d] = NoProc
        BY <1>1, <2>2 DEF Launched
      <3>2. PICK q \in Runs : run[q].chan = d /\ run[q].spawnTimer
        BY <1>0, <3>1
      <3>. QED BY <1>1, <3>2
    <2>. QED BY <2>1, <2>2
  <1>2. ASSUME NEW c \in Channels, NEW r \in Runs, Begins(c, r) PROVE StartingIsUnderWay'
    <2>1. PICK p : Launched(c, r, p)
      BY <1>0, <1>2, BeginsEffect
    <2>. QED BY <1>0, <1>1, <1>2, <2>1, BeginsEffect DEF RunOver
  <1>3. ASSUME NEW c \in Channels, NEW r \in Runs, Renews(c, r) PROVE StartingIsUnderWay'
    <2>1. PICK p : Launched(c, r, p)
      BY <1>0, <1>3, RenewsEffect
    <2>2. \A q \in Runs : run[q].spawnTimer /\ run[q].chan # c =>
                 run'[q].spawnTimer /\ run'[q].chan = run[q].chan
      BY <1>0, <1>3, RenewsEffect, StoppedRunsEffect DEF RunOver, ControllersMatch
    <2>. QED BY <1>0, <1>1, <1>3, <2>1, <2>2, RenewsEffect
  <1>4. ASSUME NEW r \in Runs, SpawnTimer(r) PROVE StartingIsUnderWay'
    <2>1. PICK p : Launched(run[r].chan, r, p)
      BY <1>0, <1>4, SpawnTimerLaunches
    <2>. QED BY <1>0, <1>1, <1>4, <2>1, SpawnTimerEffect
  <1>5. ASSUME NEW c \in Channels, NEW S \in SUBSET switching, Ends(c, S)
        PROVE StartingIsUnderWay'
    <2>1. ASSUME NEW d \in Channels \ {c}, status[d] = "starting", processes[d] = NoProc
          PROVE \E q \in Runs : run'[q].chan = d /\ run'[q].spawnTimer
      <3>1. PICK q \in Runs : run[q].chan = d /\ run[q].spawnTimer
        BY <1>0, <2>1
      <3>2. q # runControllers[c]
        BY <1>0, <2>1, <3>1 DEF ControllersMatch
      <3>. QED BY <1>0, <1>5, <3>1, <3>2, EndsEffect, StoppedRunsEffect
    <2>. QED BY <1>0, <1>5, <2>1, EndsEffect
  <1>6. ASSUME NEW c \in Channels, SwitchBegin(c) PROVE StartingIsUnderWay'
    BY <1>0, <1>6, ShadowBegins
  <1>7. ASSUME NEW r \in Runs, ReadyTimer(r) PROVE StartingIsUnderWay'
    BY <1>0, <1>7, ReadyEffect DEF Kept
  <1>8. ASSUME NEW p \in Procs, \/ Output(p) \/ Exit(p) \/ CloseShadow(p) \/ CloseBare(p)
        PROVE StartingIsUnderWay'
    BY <1>0, <1>8 DEF Output, Exit, CloseShadow, CloseBare, TypeOK
  <1>9. ASSUME NEW p \in Procs, CloseStale(p) PROVE StartingIsUnderWay'
    BY <1>0, <1>9, StaleEffect DEF Kept
  <1>10. ASSUME NEW p \in Procs, NEW empty \in BOOLEAN, CloseCurrent(p, empty)
         PROVE StartingIsUnderWay'
    <2>. DEFINE r == proc[p].run
                c == proc[p].chan
    <2>1. r \in Runs /\ run[r].chan = c
      BY <1>0, <1>10, CloseCurrentEffect DEF EnginesMatch
    <2>2. \A q \in Runs : /\ run'[q].chan = run[q].chan
                          /\ run[q].spawnTimer => run'[q].spawnTimer
      BY <1>0, <1>10, <2>1, CloseCurrentEffect
    <2>3. status'[c] = "starting" => run'[r].spawnTimer
      <3>1. \A v \in {"stopped", "error", "ended", "played", "reconnect", "retry", "next"} :
              StatusAfter(v) = "starting" => v \in Respawning
        BY DEF StatusAfter, Respawning
      <3>2. Verdict(p, empty) \in
              {"stopped", "error", "ended", "played", "reconnect", "retry", "next"}
        BY DEF Verdict
      <3>. QED BY <1>0, <1>10, <2>1, <3>1, <3>2, CloseCurrentEffect
    <2>4. \A d \in Channels \ {c} : status'[d] = status[d] /\ processes'[d] = processes[d]
      BY <1>0, <1>10, CloseCurrentEffect
    <2>. QED BY <1>0, <2>1, <2>2, <2>3, <2>4
  <1>11. ASSUME NEW p \in Procs, SwitchReady(p) PROVE StartingIsUnderWay'
    BY <1>0, <1>11, SwitchEffect
  <1>12. CASE UNCHANGED core
    BY <1>0, <1>12 DEF core
  <1>. QED BY <1>0, <1>2, <1>3, <1>4, <1>5, <1>6, <1>7, <1>8, <1>9, <1>10, <1>11,
              <1>12, StepCases

\* Each step keeps the failure counter of a movie within its budget.
LEMMA BudgetStep ==
  ASSUME CInv, [Next]_vars, TypeOK' PROVE MovieRetryBudget'
  <1>. USE DEF MovieRetryBudget
  <1>0. /\ TypeOK /\ MovieRetryBudget /\ EnginesMatch
        /\ \A r \in Runs : run[r] \in RunType /\ run[r].movieFails \in Nat
                           /\ run[r].reconnectDone \in Nat
    BY DEF CInv, TypeOK, RunType
  <1>1. ASSUME \A q \in Runs : \/ run'[q].movieFails = run[q].movieFails
                                  /\ run'[q].reconnectDone = run[q].reconnectDone
                               \/ run'[q].movieFails = 0 /\ run'[q].reconnectDone = 0
        PROVE MovieRetryBudget'
    BY <1>0, <1>1 DEF MovieRetries
  <1>2. ASSUME NEW c \in Channels, NEW r \in Runs, Begins(c, r) PROVE MovieRetryBudget'
    BY <1>0, <1>1, <1>2, BeginsEffect
  <1>3. ASSUME NEW c \in Channels, NEW r \in Runs, Renews(c, r) PROVE MovieRetryBudget'
    BY <1>0, <1>1, <1>3, RenewsEffect, StoppedRunsEffect
  <1>4. ASSUME NEW c \in Channels, NEW S \in SUBSET switching, Ends(c, S)
        PROVE MovieRetryBudget'
    BY <1>0, <1>1, <1>4, EndsEffect, StoppedRunsEffect
  <1>5. ASSUME NEW r \in Runs, ReadyTimer(r) PROVE MovieRetryBudget'
    BY <1>0, <1>1, <1>5, ReadyEffect DEF Kept
  <1>6. ASSUME NEW r \in Runs, SpawnTimer(r) PROVE MovieRetryBudget'
    BY <1>0, <1>1, <1>6, SpawnTimerEffect
  <1>7. ASSUME NEW p \in Procs, CloseStale(p) PROVE MovieRetryBudget'
    BY <1>0, <1>1, <1>7, StaleEffect DEF Kept
  <1>8. ASSUME NEW p \in Procs, NEW empty \in BOOLEAN, CloseCurrent(p, empty)
        PROVE MovieRetryBudget'
    <2>. DEFINE r == proc[p].run
                v == Verdict(p, empty)
    <2>1. r \in Runs /\ run'[r] = RunAfter(run[r], p, v, empty)
          /\ \A q \in Runs \ {r} : run'[q] = run[q]
      BY <1>0, <1>8, CloseCurrentEffect DEF EnginesMatch
    <2>2. FailsAfter(p, empty) \in Nat /\ (v # "reconnect" => FailsAfter(p, empty) <= 2)
      BY <1>0, <2>1 DEF FailsAfter, MayRetry, MovieRetries
    <2>3. RunAfter(run[r], p, v, empty).reconnectDone =
            IF v = "reconnect" THEN run[r].reconnectDone + 1
            ELSE IF v = "next" THEN 0 ELSE run[r].reconnectDone
      BY <1>0, <2>1 DEF RunAfter, RunType
    <2>4. RunAfter(run[r], p, v, empty).movieFails =
            IF v = "stopped" THEN run[r].movieFails
            ELSE IF v # "reconnect" THEN FailsAfter(p, empty)
            ELSE IF Mode[run[r].chan] = "movie" THEN run[r].movieFails + 1
            ELSE run[r].movieFails
      BY <1>0, <2>1 DEF RunAfter, RunType
    <2>5. run'[r].movieFails <= MovieRetries + run'[r].reconnectDone
      <3>. HIDE DEF v
      <3>1. run[r].movieFails <= 2 + run[r].reconnectDone
        BY <1>0, <2>1 DEF MovieRetries
      <3>. QED BY <1>0, <2>1, <2>2, <2>3, <2>4, <3>1 DEF MovieRetries
    <2>. QED BY <1>0, <2>1, <2>5
  <1>9. ASSUME UNCHANGED run PROVE MovieRetryBudget'
    BY <1>0, <1>9
  <1>. QED BY <1>0, <1>2, <1>3, <1>4, <1>5, <1>6, <1>7, <1>8, <1>9, StepCases, ShadowBegins
       DEF Output, Exit, CloseShadow, CloseBare, SwitchReady, SwitchBegin, core

\* The state after boot satisfies the inductive invariant.
LEMMA InitInv == Init => IInv
  <1>. SUFFICES ASSUME Init PROVE IInv
    OBVIOUS
  <1>1. TypeOK
    BY InitType
  <1>2. /\ \A c \in Channels : /\ processes[c] = NoProc /\ shadowProcesses[c] = NoProc
                               /\ runControllers[c] = NoRun /\ status[c] = "stopped"
        /\ switching = {} /\ channels \subseteq Channels
    BY DEF Init
  <1>3. /\ \A r \in Runs : /\ ~run[r].cancelled /\ run[r].movieFails = 0
                           /\ run[r].reconnectDone = 0
        /\ \A p \in Procs : proc[p].life = "gone"
    BY DEF Init, NewRun, NewProc
  <1>. QED BY <1>1, <1>2, <1>3 DEF IInv, CInv, ControllersMatch, EntriesMatch, EnginesMatch,
         SwitchingMatch, ShadowEntriesAreLive, CancelledRunsInert, PipeEntriesAreLive,
         DeletedIsQuiet, StartingIsUnderWay, MovieRetryBudget, MovieRetries

\* Every step preserves what the maps and the closures keep,
LEMMA CommonStep == CInv /\ [Next]_vars => CInv'
  <1>. SUFFICES ASSUME CInv, [Next]_vars PROVE CInv'
    OBVIOUS
  <1>1. TypeOK'
    BY NextType DEF CInv
  <1>. QED BY <1>1, ControllersStep, EntriesStep, EnginesStep, SwitchingStep, ShadowStep,
              InertStep, BudgetStep, DeletedStep DEF CInv

\* And the rest.
LEMMA NextInv == IInv /\ [Next]_vars => IInv'
  <1>. SUFFICES ASSUME IInv, [Next]_vars PROVE IInv'
    OBVIOUS
  <1>1. CInv'
    BY CommonStep DEF IInv
  <1>2. TypeOK'
    BY <1>1 DEF CInv
  <1>. QED BY <1>1, <1>2, PipeStep, StartingStep DEF IInv

\* The inductive invariant holds in every reachable state.
THEOREM Inductive == Spec => []IInv
  BY InitInv, NextInv, PTL DEF Spec

\* After stopChannel, a delete or a restart, nothing of the cancelled run can
\* act on the channel again, however its timers and close events are ordered.
THEOREM CancelledRunsStayInert == Spec => []CancelledRunsInert
  <1>1. IInv => CancelledRunsInert
    BY DEF IInv, CInv
  <1>. QED BY Inductive, <1>1, PTL

\* The entry of an MPEG-TS channel always names a child of that channel that
\* nobody killed and whose close handler will still remove the entry, so that
\* processes.size counts what runs.
THEOREM PipeEntriesStayLive == Spec => []PipeEntriesAreLive
  <1>1. IInv => PipeEntriesAreLive
    BY DEF IInv, CInv
  <1>. QED BY Inductive, <1>1, PTL

\* No interleaving of stops, failures and retries leaves a channel showing
\* starting with nothing left that would change it.
THEOREM StartingStaysUnderWay == Spec => []StartingIsUnderWay
  <1>1. IInv => StartingIsUnderWay
    BY DEF IInv, CInv
  <1>. QED BY Inductive, <1>1, PTL

\* However failures and empty outputs alternate, the failure counter of a
\* movie never runs ahead of the reconnects of its source.
THEOREM RetriesStayInBudget == Spec => []MovieRetryBudget
  <1>1. IInv => MovieRetryBudget
    BY DEF IInv, CInv
  <1>. QED BY Inductive, <1>1, PTL

\* However switches of a channel overlap, shadowProcesses names only a shadow
\* of that channel whose close handler will still clear the entry.
THEOREM ShadowEntriesStayLive == Spec => []ShadowEntriesAreLive
  <1>1. IInv => ShadowEntriesAreLive
    BY DEF IInv, CInv
  <1>. QED BY Inductive, <1>1, PTL

----------------------------------------------------------------------------
(* How a process can be left behind *)

\* The panel will still find a process: it is the process of a channel, or a shadow
\* some switch is waiting for.
Known(p) == (\E c \in Channels : processes[c] = p) \/ p \in switching

\* A running process is forgotten, and nobody told it to end.
Forgotten(p) == Known(p) /\ proc[p].life = "alive" /\ ~Known(p)' /\ proc'[p].life = "alive"

\* spawnOnce for channel c: a new child in the map, or an entry cleared by the error
\* event of a spawn that failed.
LaunchedAnew(c) == \E q \in Procs : processes'[c] = q /\ FreeProc(q)
LaunchFailed(c) == processes'[c] = NoProc /\ status'[c] = "error"

\* Nothing but another launch of its channel forgets a running process: no close
\* event, timer, stop, deletion, restart or switch, however they overlap.
OnlyLaunchesForget ==
  \A p \in Procs : Forgotten(p) => LaunchedAnew(proc[p].chan) \/ LaunchFailed(proc[p].chan)

\* A running shadow in shadowProcesses is awaited, also when another switch of its
\* channel has begun or ended: the map holds no process that Known leaves out.
ShadowsAwaited ==
  \A c \in Channels : shadowProcesses[c] # NoProc /\ proc[shadowProcesses[c]].life = "alive" =>
    shadowProcesses[c] \in switching

KInv == IInv /\ ShadowsAwaited

\* A process that comes to run is one the panel can find.
NewAreKnown ==
  \A p \in Procs : proc[p].life # "alive" /\ proc'[p].life = "alive" => Known(p)'

\* Each step leaves the running shadows of the map awaited.
LEMMA AwaitedStep ==
  ASSUME KInv, [Next]_vars, TypeOK' PROVE ShadowsAwaited'
  <1>. USE DEF ShadowsAwaited
  <1>0. /\ TypeOK /\ EntriesMatch /\ ShadowEntriesAreLive /\ ShadowsAwaited /\ NoProc \notin Procs
        /\ \A c \in Channels : shadowProcesses[c] \in Procs \cup {NoProc}
    BY ConstantsAssumption DEF KInv, IInv, CInv, TypeOK
  <1>1. ASSUME NEW c \in Channels, NEW r \in Runs, \E p : Launched(c, r, p)
        PROVE ShadowsAwaited'
    BY <1>0, <1>1 DEF Launched, FreeProc, EntriesMatch, ShadowEntriesAreLive
  <1>2. ASSUME NEW c \in Channels, NEW S \in SUBSET switching, Ends(c, S)
        PROVE ShadowsAwaited'
    <2>1. \A d \in Channels \ {c} : shadowProcesses'[d] = shadowProcesses[d]
      BY <1>0, <1>2, EndsEffect
    <2>2. shadowProcesses'[c] = NoProc
      BY <1>0, <1>2, EndsEffect
    <2>3. \A q \in Procs : proc'[q].life = "alive" =>
            proc[q].life = "alive" /\ q \notin {processes[c], shadowProcesses[c]} \cup S
      BY <1>0, <1>2, SignalEffect DEF Ends, Signal, TypeOK, ProcType
    <2>4. switching \ S \subseteq switching'
      BY <1>2 DEF Ends
    <2>. QED BY <1>0, <2>1, <2>2, <2>3, <2>4
  <1>3. ASSUME NEW c \in Channels, SwitchBegin(c) PROVE ShadowsAwaited'
    BY <1>0, <1>3, ShadowBegins DEF FreeProc
  <1>4. ASSUME NEW r \in Runs, ReadyTimer(r) PROVE ShadowsAwaited'
    BY <1>0, <1>4, ReadyEffect
  <1>5. ASSUME NEW p \in Procs, Output(p) PROVE ShadowsAwaited'
    BY <1>0, <1>5 DEF Output
  <1>6. ASSUME NEW p \in Procs, Exit(p) PROVE ShadowsAwaited'
    BY <1>0, <1>6, ExitEffect
  <1>7. ASSUME NEW p \in Procs, CloseStale(p) \/ CloseBare(p) PROVE ShadowsAwaited'
    BY <1>0, <1>7, GoneEffect DEF CloseStale, CloseBare
  <1>8. ASSUME NEW p \in Procs, CloseShadow(p) PROVE ShadowsAwaited'
    BY <1>0, <1>8, GoneEffect DEF CloseShadow, Unset, TypeOK
  <1>9. ASSUME NEW p \in Procs, NEW empty \in BOOLEAN, CloseCurrent(p, empty)
        PROVE ShadowsAwaited'
    BY <1>0, <1>9, CloseCurrentEffect, GoneEffect
  <1>10. ASSUME NEW p \in Procs, SwitchReady(p) PROVE ShadowsAwaited'
    <2>1. \A q \in Procs : proc'[q].life = "alive" => proc[q].life = "alive"
      BY <1>0, <1>10 DEF SwitchReady, Signal, TypeOK, ProcType
    <2>. QED BY <1>0, <1>10, <2>1, SwitchEffect DEF ShadowEntriesAreLive
  <1>11. CASE UNCHANGED core
    BY <1>0, <1>11 DEF core
  <1>12. \A r \in Runs : run[r].chan \in Channels
    BY <1>0 DEF TypeOK, RunType
  <1>. QED BY <1>0, <1>1, <1>2, <1>3, <1>4, <1>5, <1>6, <1>7, <1>8, <1>9, <1>10, <1>11, <1>12,
              LaunchCases, StepCases

\* Each kind of step, in a state the engine can be in.
LEMMA ForgettingStep ==
  ASSUME IInv, [Next]_vars PROVE OnlyLaunchesForget
  <1>. SUFFICES ASSUME NEW p \in Procs, Forgotten(p)
                PROVE  LaunchedAnew(proc[p].chan) \/ LaunchFailed(proc[p].chan)
    BY DEF OnlyLaunchesForget
  <1>. DEFINE c == proc[p].chan
  <1>0. /\ TypeOK /\ EntriesMatch /\ SwitchingMatch /\ c \in Channels
        /\ processes[c] = p \/ p \in switching
        /\ processes'[c] # p /\ p \notin switching'
        /\ proc[p].life = "alive" /\ proc'[p].life = "alive" /\ NoProc \notin Procs
    BY ConstantsAssumption DEF IInv, CInv, TypeOK, ProcType, Forgotten, Known, EntriesMatch
  <1>1. ASSUME NEW d \in Channels, NEW r \in Runs, \E q : Launched(d, r, q)
        PROVE LaunchedAnew(c) \/ LaunchFailed(c)
    BY <1>0, <1>1 DEF Launched, LaunchedAnew, LaunchFailed
  <1>2. ASSUME NEW d \in Channels, NEW S \in SUBSET switching, Ends(d, S) PROVE FALSE
    <2>1. p \notin {processes[d], shadowProcesses[d]} \cup S /\ switching \ S \subseteq switching'
      BY <1>0, <1>2 DEF Ends, Signal
    <2>2. processes[c] = p /\ d # c
      BY <1>0, <2>1
    <2>. QED BY <1>0, <1>2, <2>2, EndsEffect
  <1>3. ASSUME NEW d \in Channels, SwitchBegin(d) PROVE FALSE
    BY <1>0, <1>3, ShadowBegins
  <1>4. ASSUME NEW r \in Runs, ReadyTimer(r) PROVE FALSE
    BY <1>0, <1>4, ReadyEffect
  <1>5. ASSUME NEW q \in Procs, Output(q) \/ Exit(q) \/ CloseStale(q) \/ CloseShadow(q) \/ CloseBare(q)
        PROVE FALSE
    BY <1>0, <1>5 DEF Output, Exit, CloseStale, CloseShadow, CloseBare
  <1>6. ASSUME NEW q \in Procs, NEW empty \in BOOLEAN, CloseCurrent(q, empty) PROVE FALSE
    BY <1>0, <1>6, CloseCurrentEffect
  <1>7. ASSUME NEW q \in Procs, SwitchReady(q) PROVE FALSE
    <2>. DEFINE d == proc[q].chan
    <2>1. /\ q \in switching /\ switching' = switching \ {q} /\ d \in Channels
          /\ processes'[d] = q /\ \A e \in Channels \ {d} : processes'[e] = processes[e]
      BY <1>0, <1>7, SwitchEffect
    <2>2. p # processes[d]
      BY <1>0, <1>7 DEF SwitchReady, Signal
    <2>3. p = q => d = c
      OBVIOUS
    <2>. QED BY <1>0, <2>1, <2>2, <2>3
  <1>8. CASE UNCHANGED core
    BY <1>0, <1>8 DEF core
  <1>9. \A r \in Runs : run[r].chan \in Channels
    BY <1>0 DEF TypeOK, RunType
  <1>. HIDE DEF c
  <1>. QED BY <1>0, <1>1, <1>2, <1>3, <1>4, <1>5, <1>6, <1>7, <1>8, <1>9, LaunchCases,
              StepCases DEF c

\* Only a launch and the begin of a switch make a process run, and both note it.
LEMMA LaunchesAreKnown == ASSUME TypeOK, [Next]_vars PROVE NewAreKnown
  <1>. SUFFICES ASSUME NEW p \in Procs, proc[p].life # "alive", proc'[p].life = "alive"
                PROVE  Known(p)'
    BY DEF NewAreKnown
  <1>1. ASSUME NEW d \in Channels, NEW r \in Runs, \E q : Launched(d, r, q) PROVE Known(p)'
    <2>1. PICK q : Launched(d, r, q)
      BY <1>1
    <2>2. p = q
      BY <2>1 DEF Launched
    <2>. QED BY <2>1, <2>2, ConstantsAssumption DEF Launched, Known
  <1>2. ASSUME NEW d \in Channels, NEW S \in SUBSET switching, Ends(d, S) PROVE FALSE
    BY <1>2 DEF Ends, Signal, TypeOK, ProcType
  <1>3. ASSUME NEW d \in Channels, SwitchBegin(d) PROVE Known(p)'
    BY <1>3, ShadowBegins DEF Known
  <1>4. ASSUME NEW r \in Runs, ReadyTimer(r) PROVE FALSE
    BY <1>4, ReadyEffect
  <1>5. ASSUME NEW q \in Procs, Output(q) \/ Exit(q) PROVE FALSE
    BY <1>5, ExitEffect DEF Output
  <1>6. ASSUME NEW q \in Procs, CloseStale(q) \/ CloseShadow(q) \/ CloseBare(q) PROVE FALSE
    BY <1>6, GoneEffect DEF CloseStale, CloseShadow, CloseBare
  <1>7. ASSUME NEW q \in Procs, NEW empty \in BOOLEAN, CloseCurrent(q, empty) PROVE FALSE
    BY <1>7, CloseCurrentEffect, GoneEffect
  <1>8. ASSUME NEW q \in Procs, SwitchReady(q) PROVE FALSE
    BY <1>8 DEF SwitchReady, Signal, TypeOK, ProcType
  <1>9. CASE UNCHANGED core
    BY <1>9 DEF core
  <1>10. \A r \in Runs : run[r].chan \in Channels
    BY DEF TypeOK, RunType
  <1>. QED BY <1>1, <1>2, <1>3, <1>4, <1>5, <1>6, <1>7, <1>8, <1>9, <1>10, LaunchCases, StepCases

\* The running shadows of the map are awaited, and every running process the panel
\* can find is of one of two kinds: of a channel, or awaited by a switch.
THEOREM ShadowsStayAwaited == Spec => []ShadowsAwaited
  <1>1. Init => KInv
    BY InitInv DEF KInv, Init, ShadowsAwaited
  <1>2. KInv /\ [Next]_vars => KInv'
    BY NextInv, AwaitedStep DEF KInv, IInv, CInv
  <1>3. KInv => ShadowsAwaited
    BY DEF KInv
  <1>. QED BY <1>1, <1>2, <1>3, PTL DEF Spec

\* An FFmpeg is left behind in one way only: its channel is launched again over it.
\* A new one is known, and no other step forgets one that runs.
THEOREM OnlyLaunchesOrphan == Spec => [][NewAreKnown /\ OnlyLaunchesForget]_vars
  <1>1. IInv /\ [Next]_vars => [NewAreKnown /\ OnlyLaunchesForget]_vars
    BY ForgettingStep, LaunchesAreKnown DEF IInv, CInv
  <1>. QED BY Inductive, <1>1, PTL DEF Spec

=============================================================================
