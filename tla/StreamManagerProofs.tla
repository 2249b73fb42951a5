------------------------- MODULE StreamManagerProofs -------------------------
(* What the engine's maps and closures keep although services/streamManager.js *)
(* acts on them as well: a health loop that drops entries, a recovery that     *)
(* starts channels by a startChannel of its own, and its exit handlers.        *)
EXTENDS StreamManager, ChannelRuntimeProofs

----------------------------------------------------------------------------
(* What a step of the manager does *)

\* To the maps and the processes: it drops entries, and at most one process p is
\* either spawned on an identity that was free or reaped, and then is one of its
\* own.  It never makes a channel start.
Manages(p) ==
  /\ UNCHANGED <<shadowProcesses, runControllers, run, switching>>
  /\ channels \subseteq channels'
  /\ \A c \in Channels : status'[c] = "starting" => status[c] = "starting"
  /\ \A q \in Procs \ {p} : proc'[q] = proc[q]
  /\ p \in Procs =>
       /\ proc'[p].kind = "manager" /\ proc'[p].life \in {"alive", "gone"}
       /\ FreeProc(p) \/ (proc[p].kind = "manager" /\ proc'[p].chan = proc[p].chan)
  /\ \A c \in Channels :
       \/ processes'[c] \in {processes[c], NoProc}
       \/ p \in Procs /\ processes'[c] = p /\ proc'[p].chan = c

\* One more retry stays within the limit, and a timer within its bound.
LEMMA CrashRecoveryEffect ==
  ASSUME SmTypeOK, NEW C \in SUBSET Channels, CrashRecovery(C)
  PROVE /\ retries' \in [Channels -> 0..RetryLimit]
        /\ cooldowns' \in [Channels -> 0..MaxCooldowns]
        /\ status' \in [Channels -> Statuses]
        /\ \A c \in Channels : status'[c] = "starting" => status[c] = "starting"
  <1>1. RetryLimit \in Nat \ {0} /\ MaxCooldowns \in Nat
    BY ManagerAssumption
  <1>2. \A c \in Channels : retries[c] \in 0..RetryLimit /\ cooldowns[c] \in 0..MaxCooldowns
    BY DEF SmTypeOK
  <1>3. \A c \in Channels : Bumped(c) \in 0..RetryLimit
    BY <1>1, <1>2 DEF Bumped
  <1>4. \A c \in Channels : status[c] \in Statuses
    BY DEF SmTypeOK, TypeOK
  <1>5. retries' \in [Channels -> 0..RetryLimit]
    BY <1>2, <1>3 DEF CrashRecovery
  <1>6. cooldowns' \in [Channels -> 0..MaxCooldowns]
    BY <1>1, <1>2 DEF CrashRecovery
  <1>7. \A c \in Channels : AfterCrash(c) \in Statuses /\ AfterCrash(c) # "starting"
    BY DEF AfterCrash, Statuses
  <1>. QED BY <1>4, <1>5, <1>6, <1>7 DEF CrashRecovery

\* A pass of the health loop drops entries and launches nothing.
LEMMA HealthCheckEffect ==
  ASSUME SmTypeOK, HealthCheck PROVE SmTypeOK' /\ Manages(NoProc)
  <1>1. /\ retries' \in [Channels -> 0..RetryLimit] /\ cooldowns' \in [Channels -> 0..MaxCooldowns]
        /\ status' \in [Channels -> Statuses]
        /\ \A c \in Channels : status'[c] = "starting" => status[c] = "starting"
    <2>1. Vanished \cap channels \in SUBSET Channels /\ CrashRecovery(Vanished \cap channels)
      BY DEF HealthCheck, SmTypeOK, TypeOK
    <2>. QED BY <2>1, CrashRecoveryEffect
  <1>2. /\ processes' \in [Channels -> Procs \cup {NoProc}]
        /\ \A c \in Channels : processes'[c] \in {processes[c], NoProc}
    BY DEF HealthCheck, SmTypeOK, TypeOK
  <1>3. NoProc \notin Procs
    BY ConstantsAssumption
  <1>4. UNCHANGED <<channels, shadowProcesses, runControllers, run, proc, switching,
                    delayed, detecting, armed, preDetectDone, down>>
    BY DEF HealthCheck
  <1>5. SmTypeOK'
    BY <1>1, <1>2, <1>4 DEF SmTypeOK, TypeOK
  <1>. QED BY <1>1, <1>2, <1>3, <1>4, <1>5 DEF Manages

\* A recovery finds an entry, fails to build a command, or registers a process.
LEMMA RecoverEffect ==
  ASSUME SmTypeOK, NEW c \in Channels, Recover(c) PROVE SmTypeOK' /\ \E p : Manages(p)
  <1>. USE ConstantsAssumption, ManagerAssumption
  <1>1. /\ UNCHANGED <<shadowProcesses, runControllers, run, switching, delayed,
                       detecting, armed, preDetectDone, retries, down>>
        /\ cooldowns' \in [Channels -> 0..MaxCooldowns]
    BY DEF Recover, SmTypeOK
  <1>2. TypeOK /\ retries \in [Channels -> 0..RetryLimit] /\ down \in BOOLEAN
    BY DEF SmTypeOK
  <1>3. CASE UNCHANGED <<channels, status, processes, proc>>
    <2>1. Manages(NoProc)
      BY <1>1, <1>3 DEF Manages
    <2>. QED BY <1>1, <1>2, <1>3, <2>1 DEF SmTypeOK, TypeOK
  <1>4. CASE /\ channels' = channels \cup {c} /\ status' = [status EXCEPT ![c] = "error"]
             /\ UNCHANGED <<processes, proc>>
    <2>1. channels' \subseteq Channels /\ status' \in [Channels -> Statuses]
      BY <1>2, <1>4 DEF TypeOK, Statuses
    <2>2. Manages(NoProc)
      BY <1>1, <1>2, <1>4 DEF Manages, TypeOK
    <2>. QED BY <1>1, <1>2, <1>4, <2>1, <2>2 DEF SmTypeOK, TypeOK
  <1>5. ASSUME channels' = channels \cup {c}, status' = [status EXCEPT ![c] = "running"],
               NEW p \in Procs, NEW outcome, FreeProc(p),
               processes' = [processes EXCEPT ![c] = p],
               proc' = [proc EXCEPT ![p] =
                 [NewProc(c, NoRun, "manager") EXCEPT
                    !.life = IF outcome = "ok" THEN "alive" ELSE "gone"]]
        PROVE SmTypeOK' /\ Manages(p)
    <2>1. PICK new \in ProcType : /\ proc' = [proc EXCEPT ![p] = new]
                                  /\ new.kind = "manager" /\ new.life \in {"alive", "gone"}
                                  /\ new.chan = c
      <3>. DEFINE new == [NewProc(c, NoRun, "manager") EXCEPT
                            !.life = IF outcome = "ok" THEN "alive" ELSE "gone"]
      <3>1. /\ new \in ProcType /\ new.kind = "manager" /\ new.life \in {"alive", "gone"}
            /\ new.chan = c
        BY DEF NewProc, ProcType
      <3>. QED BY <1>5, <3>1
    <2>2. /\ channels' \subseteq Channels /\ status' \in [Channels -> Statuses]
          /\ processes' \in [Channels -> Procs \cup {NoProc}]
          /\ proc' \in [Procs -> ProcType]
      BY <1>2, <1>5, <2>1 DEF TypeOK, Statuses
    <2>3. SmTypeOK'
      BY <1>1, <1>2, <2>2 DEF SmTypeOK, TypeOK
    <2>4. /\ proc'[p] = new /\ \A q \in Procs \ {p} : proc'[q] = proc[q]
          /\ processes'[c] = p /\ \A d \in Channels \ {c} : processes'[d] = processes[d]
          /\ \A d \in Channels : status'[d] = "starting" => status[d] = "starting"
      BY <1>2, <1>5, <2>1 DEF TypeOK
    <2>5. Manages(p)
      BY <1>1, <1>5, <2>1, <2>4 DEF Manages
    <2>. QED BY <2>3, <2>5
  <1>. QED BY <1>3, <1>4, <1>5 DEF Recover

\* The exit handler reaps its process and drops the entry of its channel.
LEMMA ManagedExitEffect ==
  ASSUME SmTypeOK, NEW p \in Procs, ManagedExit(p) PROVE SmTypeOK' /\ Manages(p)
  <1>. DEFINE c == proc[p].chan
  <1>1. TypeOK /\ c \in Channels /\ proc[p].kind = "manager"
    BY DEF SmTypeOK, TypeOK, ProcType, ManagedExit
  <1>2. /\ Gone(p) /\ processes' = Unset(processes, c)
        /\ UNCHANGED <<channels, shadowProcesses, runControllers, run, switching,
                       delayed, detecting, armed, preDetectDone>>
    BY DEF ManagedExit
  <1>. HIDE DEF c
  <1>3. /\ proc' \in [Procs -> ProcType] /\ proc'[p].kind = "manager" /\ proc'[p].life = "gone"
        /\ proc'[p].chan = proc[p].chan /\ \A q \in Procs \ {p} : proc'[q] = proc[q]
    <2>1. proc' \in [Procs -> ProcType]
      <3>1. \A q \in Procs : proc[q] \in ProcType
                              /\ [proc[q] EXCEPT !.life = "gone"] \in ProcType
        BY <1>1, GoneType DEF TypeOK
      <3>. QED BY <1>1, <1>2, <3>1 DEF Gone, TypeOK
    <2>. QED BY <1>1, <1>2, <2>1, GoneEffect
  <1>4. /\ processes' \in [Channels -> Procs \cup {NoProc}]
        /\ \A d \in Channels : processes'[d] \in {processes[d], NoProc}
    BY <1>1, <1>2 DEF Unset, TypeOK
  <1>5. /\ retries' \in [Channels -> 0..RetryLimit] /\ cooldowns' \in [Channels -> 0..MaxCooldowns]
        /\ status' \in [Channels -> Statuses] /\ down' \in BOOLEAN
        /\ \A d \in Channels : status'[d] = "starting" => status[d] = "starting"
    <2>1. CASE retries' = [retries EXCEPT ![c] = 0] /\ UNCHANGED <<status, cooldowns, down>>
      BY <1>1, <2>1, ManagerAssumption DEF SmTypeOK, TypeOK
    <2>2. CASE CrashRecovery({c}) /\ UNCHANGED down
      BY <1>1, <2>2, CrashRecoveryEffect DEF SmTypeOK
    <2>3. CASE down' = TRUE /\ UNCHANGED <<status, retries, cooldowns>>
      BY <1>1, <2>3 DEF SmTypeOK, TypeOK
    <2>. QED BY <2>1, <2>2, <2>3 DEF ManagedExit, c
  <1>6. SmTypeOK'
    BY <1>1, <1>2, <1>3, <1>4, <1>5 DEF SmTypeOK, TypeOK
  <1>. QED BY <1>1, <1>2, <1>3, <1>4, <1>5, <1>6 DEF Manages

----------------------------------------------------------------------------
(* The invariant *)

\* Entries of MPEG-TS channels: an engine as before, or a process of the manager,
\* which alone may be dead and still registered.
PhantomsAreManaged ==
  \A c \in Channels : Format[c] = "mpegts" /\ processes[c] # NoProc =>
    \/ proc[processes[c]].kind = "engine" /\ proc[processes[c]].life \in {"alive", "exited"}
    \/ proc[processes[c]].kind = "manager" /\ proc[processes[c]].life \in {"alive", "gone"}

SmInv == SmTypeOK /\ CInv /\ PhantomsAreManaged

\* A step of the manager keeps what the engine keeps.
LEMMA ManagesKeeps ==
  ASSUME CInv, PhantomsAreManaged, TypeOK', NEW p, Manages(p)
  PROVE  CInv' /\ PhantomsAreManaged'
  <1>. USE DEF Manages
  <1>0. /\ TypeOK /\ NoProc \notin Procs
        /\ \A c \in Channels : processes[c] \in Procs \cup {NoProc}
        /\ \A c \in Channels : shadowProcesses[c] \in Procs \cup {NoProc}
        /\ switching \subseteq Procs
    BY ConstantsAssumption DEF CInv, TypeOK
  <1>1. ControllersMatch'
    BY DEF CInv, ControllersMatch
  <1>2. EntriesMatch'
    BY <1>0 DEF CInv, EntriesMatch, FreeProc
  <1>3. EnginesMatch'
    BY DEF CInv, EnginesMatch
  <1>4. SwitchingMatch'
    BY <1>0 DEF CInv, SwitchingMatch, FreeProc
  <1>5. ShadowEntriesAreLive'
    BY <1>0 DEF CInv, ShadowEntriesAreLive, FreeProc
  <1>6. CancelledRunsInert'
    <2>1. \A q \in Procs : proc'[q].kind = "engine" => q # p /\ proc'[q] = proc[q]
      OBVIOUS
    <2>2. \A q \in Procs : proc[q].chan \in Channels
      BY <1>0 DEF TypeOK, ProcType
    <2>3. \A q \in Procs : proc'[q].kind = "engine" /\ IsCurrent(q)' => IsCurrent(q)
      BY <1>0, <2>1, <2>2 DEF IsCurrent
    <2>. QED BY <2>1, <2>3 DEF CInv, CancelledRunsInert
  <1>7. MovieRetryBudget'
    BY DEF CInv, MovieRetryBudget
  <1>8. DeletedIsQuiet'
    BY <1>0 DEF CInv, DeletedIsQuiet, FreeProc
  <1>9. PhantomsAreManaged'
    BY <1>0 DEF PhantomsAreManaged, FreeProc
  <1>. QED BY <1>1, <1>2, <1>3, <1>4, <1>5, <1>6, <1>7, <1>8, <1>9 DEF CInv

\* The engine's own steps register engines on MPEG-TS channels, and nothing else
\* dies in the map: the exits of managed processes are the manager's.
LEMMA EngineKeepsPhantoms ==
  ASSUME CInv, PhantomsAreManaged, RuntimeStep, TypeOK' PROVE PhantomsAreManaged'
  <1>. USE DEF PhantomsAreManaged
  <1>0. /\ TypeOK /\ PhantomsAreManaged
        /\ EntriesMatch /\ ShadowEntriesAreLive /\ SwitchingMatch
        /\ \A c \in Channels : processes[c] \in Procs \cup {NoProc}
    BY DEF CInv, TypeOK
  <1>1. ASSUME NEW c \in Channels, NEW r \in Runs, \E p : Launched(c, r, p)
        PROVE PhantomsAreManaged'
    BY <1>0, <1>1 DEF Launched, FreeProc, EntriesMatch, ShadowEntriesAreLive
  <1>2. ASSUME NEW c \in Channels, NEW S \in SUBSET switching, Ends(c, S)
        PROVE PhantomsAreManaged'
    BY <1>0, <1>2, EndsProcs, EndsEffect DEF EntriesMatch, ShadowEntriesAreLive, SwitchingMatch
  <1>3. ASSUME NEW c \in Channels, SwitchBegin(c) PROVE PhantomsAreManaged'
    BY <1>0, <1>3, ShadowBegins DEF FreeProc
  <1>4. ASSUME NEW r \in Runs, ReadyTimer(r) PROVE PhantomsAreManaged'
    BY <1>0, <1>4, ReadyEffect
  <1>5. ASSUME NEW p \in Procs, Output(p) PROVE PhantomsAreManaged'
    BY <1>0, <1>5 DEF Output
  <1>6. ASSUME NEW p \in Procs, proc[p].kind # "manager", Exit(p) PROVE PhantomsAreManaged'
    BY <1>0, <1>6, ExitEffect
  <1>7. ASSUME NEW p \in Procs, CloseStale(p) PROVE PhantomsAreManaged'
    BY <1>0, <1>7, GoneEffect DEF CloseStale, IsCurrent, EntriesMatch
  <1>8. ASSUME NEW p \in Procs, CloseShadow(p) \/ CloseBare(p) PROVE PhantomsAreManaged'
    BY <1>0, <1>8, GoneEffect DEF CloseShadow, CloseBare
  <1>9. ASSUME NEW p \in Procs, NEW empty \in BOOLEAN, CloseCurrent(p, empty)
        PROVE PhantomsAreManaged'
    BY <1>0, <1>9, CloseCurrentEffect, GoneEffect DEF EntriesMatch
  <1>10. ASSUME NEW p \in Procs, SwitchReady(p) PROVE PhantomsAreManaged'
    BY <1>0, <1>10, SwitchEffect DEF SwitchingMatch, EntriesMatch
  <1>11. CASE UNCHANGED core
    BY <1>0, <1>11 DEF core
  <1>12. \A r \in Runs : run[r].chan \in Channels
    BY <1>0 DEF TypeOK, RunType
  <1>. DEFINE E == {p \in Procs : proc[p].kind # "manager"}
  <1>13. E \in SUBSET Procs /\ StepIn(E)
    BY DEF RuntimeStep, StepIn
  <1>14. ASSUME NEW p \in E, Exit(p) PROVE PhantomsAreManaged'
    BY <1>6, <1>14
  <1>. HIDE DEF E
  <1>. QED BY <1>0, <1>1, <1>2, <1>3, <1>4, <1>5, <1>14, <1>7, <1>8, <1>9, <1>10, <1>11, <1>12,
              <1>13, LaunchCases, StepKinds

\* A step of the two together is one of the engine or one of the manager.
LEMMA SmStep == SmInv /\ [SmNext]_smVars => SmInv'
  <1>. SUFFICES ASSUME SmInv, [SmNext]_smVars PROVE SmInv'
    OBVIOUS
  <1>0. SmTypeOK /\ CInv /\ PhantomsAreManaged /\ TypeOK
    BY DEF SmInv, CInv
  <1>1. CASE ManagerStep
    <2>1. SmTypeOK' /\ \E p : Manages(p)
      BY <1>0, <1>1, HealthCheckEffect, RecoverEffect, ManagedExitEffect DEF ManagerStep
    <2>2. TypeOK'
      BY <2>1 DEF SmTypeOK
    <2>. QED BY <1>0, <2>1, <2>2, ManagesKeeps DEF SmInv
  <1>2. CASE RuntimeStep /\ UNCHANGED managerVars
    <2>1. Next
      BY <1>2 DEF RuntimeStep, Next
    <2>2. CInv' /\ TypeOK'
      BY <1>0, <2>1, CommonStep DEF CInv
    <2>3. PhantomsAreManaged'
      BY <1>0, <1>2, <2>2, EngineKeepsPhantoms
    <2>. QED BY <1>0, <1>2, <2>2, <2>3 DEF SmInv, SmTypeOK, managerVars
  <1>3. CASE UNCHANGED smVars
    <2>1. UNCHANGED vars /\ UNCHANGED managerVars
      BY <1>3 DEF smVars
    <2>2. CInv' /\ TypeOK'
      BY <1>0, <2>1, CommonStep DEF CInv
    <2>3. PhantomsAreManaged'
      BY <1>0, <2>1 DEF PhantomsAreManaged, vars
    <2>. QED BY <1>0, <2>1, <2>2, <2>3 DEF SmInv, SmTypeOK, managerVars
  <1>. QED BY <1>1, <1>2, <1>3 DEF SmNext

\* A panel that has just booted.
LEMMA SmStart == SmInit => SmInv
  <1>. SUFFICES ASSUME SmInit PROVE SmInv
    OBVIOUS
  <1>1. CInv
    BY InitInv DEF SmInit, IInv
  <1>2. SmTypeOK
    <2>1. 0 \in 0..RetryLimit /\ 0 \in 0..MaxCooldowns
      BY ManagerAssumption
    <2>. QED BY <1>1, <2>1 DEF SmInit, SmTypeOK, CInv
  <1>3. PhantomsAreManaged
    BY DEF SmInit, Init, PhantomsAreManaged
  <1>. QED BY <1>1, <1>2, <1>3 DEF SmInv

\* The invariant of the engine with the manager beside it.
THEOREM ManagerInductive == SmSpec => []SmInv
  BY SmStart, SmStep, PTL DEF SmSpec

\* The engine's types and the manager's: the retries of handleCrashRecovery never
\* pass RetryLimit, whether the health loop or an exit handler counts them.
THEOREM ManagerTypeCorrect == SmSpec => []SmTypeOK
  <1>1. SmInv => SmTypeOK
    BY DEF SmInv
  <1>. QED BY ManagerInductive, <1>1, PTL

\* After a stop, nothing of the cancelled run comes back, although the manager
\* drops entries behind the engine's back and registers processes of its own.
THEOREM CancelledRunsInertManaged == SmSpec => []CancelledRunsInert
  <1>1. SmInv => CancelledRunsInert
    BY DEF SmInv, CInv
  <1>. QED BY ManagerInductive, <1>1, PTL

\* The shadow map names live shadows of its channel, whatever the manager does.
THEOREM ShadowEntriesLiveManaged == SmSpec => []ShadowEntriesAreLive
  <1>1. SmInv => ShadowEntriesAreLive
    BY DEF SmInv, CInv
  <1>. QED BY ManagerInductive, <1>1, PTL

\* A phantom on an MPEG-TS channel, an entry whose process is gone, always names a
\* process that the manager's startChannel registered: it does so although the
\* spawn failed, and the engine itself never leaves one.
THEOREM PhantomsComeFromManager == SmSpec => []PhantomsAreManaged
  <1>1. SmInv => PhantomsAreManaged
    BY DEF SmInv
  <1>. QED BY ManagerInductive, <1>1, PTL

=============================================================================
