---------------------------- MODULE OnDemandProofs ----------------------------
(* What on-demand playback promises when nobody else starts channels and     *)
(* every output is MPEG-TS: no FFmpeg is left behind, every retry can be     *)
(* called off, and the processes of a channel implement EngineSlot.  Then    *)
(* the limit on processes, where nothing spawns again by itself.             *)
EXTENDS OnDemandLive, ChannelRuntimeProofs, FiniteSetTheorems

USE ConstantsAssumption

\* The setting of the first three theorems: seamless switches need an HLS
\* output; the routes that start and restart a channel stay unused.
OnDemandOnly == ~Administrators /\ \A c \in Channels : Format[c] = "mpegts"

\* An armed spawn timer belongs to the run stopChannel would find, on a channel
\* that still shows itself as starting or running and has no process.
TimersOwned ==
  \A r \in Runs : run[r].spawnTimer =>
    LET c == run[r].chan
    IN  /\ c \in channels /\ runControllers[c] = r /\ processes[c] = NoProc
        /\ status[c] \in {"starting", "running"}

\* The process of a channel was spawned by the run under its controller.
EntriesControlled ==
  \A c \in Channels : processes[c] # NoProc => runControllers[c] = proc[processes[c]].run

\* Whatever runs is the entry of its channel.
AliveRegistered ==
  \A p \in Procs : proc[p].life = "alive" => processes[proc[p].chan] = p

\* Nobody switches.
NoShadows == switching = {} /\ \A c \in Channels : shadowProcesses[c] = NoProc

\* The inductive invariant: that no process is overwritten in the map rests on
\* which timers may be armed, and that on whose entry a process is.
OdInv ==
  IInv /\ NoShadows /\ TimersOwned /\ EntriesControlled /\ AliveRegistered

\* A step of the requests, as far as the engine sees it.
LEMMA OdCases ==
  ASSUME OnDemandOnly, TypeOK, [OdNext]_odVars
  PROVE \/ \E c \in Channels, r \in Runs : (MustStart(c) /\ Begins(c, r)) \/ Renews(c, r)
        \/ \E c \in Channels : Ends(c, {})
        \/ \E r \in Runs : ReadyTimer(r) \/ SpawnTimer(r)
        \/ \E p \in Procs : \/ Output(p) \/ Exit(p) \/ CloseStale(p)
                            \/ (\E empty \in BOOLEAN : CloseCurrent(p, empty))
                            \/ CloseShadow(p) \/ CloseBare(p)
        \/ UNCHANGED core
  <1>1. ASSUME NEW c \in Channels, Stop(c) \/ Delete(c) PROVE Ends(c, {})
    <2>1. /\ StopChannel(c) /\ proc' = StoppedProcs(c) /\ UNCHANGED switching
          /\ channels' \in {channels, channels \ {c}}
      BY <1>1 DEF Stop, Delete
    <2>2. {processes[c], shadowProcesses[c]} \cup {} = {processes[c], shadowProcesses[c]}
      OBVIOUS
    <2>. QED BY <2>1, <2>2 DEF Ends, StoppedProcs
  <1>2. ASSUME NEW c \in Channels, ArmedRestart(c)
        PROVE (\E r \in Runs : Renews(c, r)) \/ Ends(c, {}) \/ UNCHANGED core
    <2>1. CASE ~(c \in channels /\ status[c] = "running")
      BY <1>2, <2>1 DEF ArmedRestart, core
    <2>2. CASE c \in channels /\ status[c] = "running"
      <3>1. ASSUME NEW r \in Runs, StartChannel(c, r, Unset(processes, c),
                                             StoppedRuns(c), StoppedProcs(c))
            PROVE Renews(c, r)
        BY <1>2, <2>2, <3>1 DEF ArmedRestart, Renews
      <3>2. CASE StopChannel(c) /\ proc' = StoppedProcs(c)
        <4>1. {processes[c], shadowProcesses[c]} \cup {} = {processes[c], shadowProcesses[c]}
          OBVIOUS
        <4>. QED BY <1>2, <2>2, <3>2, <4>1 DEF ArmedRestart, Ends, StoppedProcs
      <3>. QED BY <1>2, <2>2, <3>1, <3>2 DEF ArmedRestart
    <2>. QED BY <2>1, <2>2
  <1>3. ASSUME NEW c \in Channels, Detected(c) PROVE UNCHANGED core
    BY <1>3 DEF Detected, core
  <1>4. ASSUME NEW v \in Callers, NEW c \in Channels, EnsureStart(v, c)
        PROVE \E r \in Runs : MustStart(c) /\ Begins(c, r)
    BY <1>4 DEF EnsureStart, Begins
  <1>5. ASSUME NEW v \in Callers, NEW c \in Channels,
               Join(v, c) \/ AlreadyRunning(v, c) \/ Wait(v, c) \/ Refused(v, c)
        PROVE UNCHANGED core
    BY <1>5 DEF Join, AlreadyRunning, Wait, Refused, vars, core
  <1>6. ASSUME NEW v \in Callers, Poll(v) \/ Deadline(v) \/ Leave(v) PROVE UNCHANGED core
    BY <1>6 DEF Poll, Deadline, Leave, vars, core
  <1>7. ASSUME NEW c \in Channels, Continue(c) PROVE UNCHANGED core
    BY <1>7 DEF Continue, vars, core
  <1>8. CASE UNCHANGED odVars
    BY <1>8 DEF odVars, vars, core
  <1>. QED
    BY <1>1, <1>2, <1>3, <1>4, <1>5, <1>6, <1>7, <1>8
       DEF OnDemandOnly, OdNext, Turn, EngineStep, CloseStep

\* For the invariants of the engine such a step is one of the engine.
LEMMA OdStepIsEngineStep ==
  ASSUME TypeOK, [OdNext]_odVars
  PROVE [Next]_vars
  <1>1. ASSUME NEW v \in Callers, NEW c \in Channels, EnsureStart(v, c) PROVE Start(c)
    BY <1>1 DEF EnsureStart, MustStart, Start
  <1>2. CASE EngineStep
    BY <1>2 DEF EngineStep, Next
  <1>3. ASSUME NEW v \in Callers, NEW c \in Channels,
               Join(v, c) \/ AlreadyRunning(v, c) \/ Wait(v, c) \/ Refused(v, c)
        PROVE UNCHANGED vars
    BY <1>3 DEF Join, AlreadyRunning, Wait, Refused
  <1>4. ASSUME NEW v \in Callers, Poll(v) \/ Deadline(v) \/ Leave(v) PROVE UNCHANGED vars
    BY <1>4 DEF Poll, Deadline, Leave
  <1>5. ASSUME NEW c \in Channels, Continue(c) PROVE UNCHANGED vars
    BY <1>5 DEF Continue
  <1>6. CASE UNCHANGED odVars
    BY <1>6 DEF odVars
  <1>. QED BY <1>1, <1>2, <1>3, <1>4, <1>5, <1>6 DEF OdNext, Turn, Next

----------------------------------------------------------------------------
(* What launches and stops do to the processes *)

\* SIGTERM goes to what is alive among the processes named.
LEMMA SignalLives ==
  ASSUME NEW pr \in [Procs -> ProcType], NEW S, NEW p \in Procs
  PROVE /\ Signal(pr, S)[p].life = "alive" <=> pr[p].life = "alive" /\ p \notin S
        /\ Signal(pr, S)[p].life = "signalled" <=>
             pr[p].life = "signalled" \/ (pr[p].life = "alive" /\ p \in S)
  BY DEF Signal, ProcType

\* The lives of all processes but p after process old was dismissed.
Dismissed(old, p) ==
  \A q \in Procs \ {p} :
    /\ proc'[q].life = "alive" <=> proc[q].life = "alive" /\ q # old
    /\ proc'[q].life = "signalled" <=>
         proc[q].life = "signalled" \/ (proc[q].life = "alive" /\ q = old)

\* Run r has spawned p, or nothing if p = NoProc, and it has the channel alone.
OdLaunched(c, r, p) ==
  /\ Launched(c, r, p)
  /\ processes'[c] = p /\ (p # NoProc => runControllers'[c] = r)
  /\ \A d \in Channels \ {c} : runControllers'[d] = runControllers[d]
  /\ \A q \in Runs : run'[q].spawnTimer =>
       q # r /\ run[q].spawnTimer /\ run'[q].chan = run[q].chan /\ run[q].chan # c
  /\ Dismissed(processes[c], p)

\* A controller is only forgotten where nothing was launched.
LEMMA SpawnController ==
  ASSUME TypeOK, NEW r \in Runs, NEW rec \in RunType, NEW po \in ProcMap,
         NEW ct \in RunMap, NEW rn \in [Runs -> RunType],
         NEW pr \in [Procs -> ProcType], SpawnOnce(r, rec, po, ct, rn, pr)
  PROVE /\ \A d \in Channels \ {rec.chan} : runControllers'[d] = ct[d]
        /\ processes'[rec.chan] # NoProc => runControllers'[rec.chan] = ct[rec.chan]
  <1>. rec.chan \in Channels
    BY DEF RunType
  <1>. USE DEF ProcMap, RunMap
  <1>1. CASE SpawnCancelled(r, rec, po, ct, rn, pr)
    BY <1>1 DEF SpawnCancelled
  <1>2. CASE SpawnInvalid(r, rec, po, ct, rn, pr)
    BY <1>2 DEF SpawnInvalid
  <1>3. CASE SpawnFails(r, rec, po, ct, rn, pr)
    BY <1>3 DEF SpawnFails
  <1>4. CASE SpawnOk(r, rec, po, ct, rn, pr)
    BY <1>4 DEF SpawnOk
  <1>. QED BY <1>1, <1>2, <1>3, <1>4 DEF SpawnOnce

\* An on-demand start finds the channel without a process and without a timer.
LEMMA EnsureLaunches ==
  ASSUME OdInv, NEW c \in Channels, NEW r \in Runs, MustStart(c), Begins(c, r)
  PROVE \E p : OdLaunched(c, r, p)
  <1>1. TypeOK /\ TimersOwned /\ NoShadows /\ processes[c] = NoProc /\ NoProc \notin Procs
    BY DEF OdInv, IInv, CInv, MustStart
  <1>2. PICK p : Launched(c, r, p)
    BY <1>1, BeginsEffect
  <1>3. processes'[c] = p
    BY <1>1, <1>2 DEF Launched
  <1>4. /\ p # NoProc => runControllers'[c] = r
        /\ \A d \in Channels \ {c} : runControllers'[d] = runControllers[d]
    <2>. DEFINE ct == [runControllers EXCEPT ![c] = r]
    <2>1. /\ ct \in RunMap /\ ct[c] = r
          /\ \A d \in Channels \ {c} : ct[d] = runControllers[d]
      BY <1>1 DEF TypeOK, RunMap
    <2>2. /\ SpawnOnce(r, NewRun(c), processes, ct, run, proc)
          /\ NewRun(c) \in RunType /\ NewRun(c).chan = c
          /\ processes \in ProcMap /\ run \in [Runs -> RunType] /\ proc \in [Procs -> ProcType]
      BY <1>1, NewRunType DEF Begins, StartChannel, NewRun, TypeOK, ProcMap
    <2>. HIDE DEF ct
    <2>. QED BY <1>1, <1>3, <2>1, <2>2, SpawnController
  <1>5. \A q \in Runs : run'[q].spawnTimer =>
          q # r /\ run[q].spawnTimer /\ run'[q].chan = run[q].chan /\ run[q].chan # c
    BY <1>1, BeginsEffect DEF TimersOwned, MustStart
  <1>6. Dismissed(processes[c], p)
    BY <1>1, <1>2 DEF Launched, Dismissed, NoShadows
  <1>. QED BY <1>2, <1>3, <1>4, <1>5, <1>6 DEF OdLaunched

\* The restart after a source inspection dismisses the process it replaces.
LEMMA RenewLaunches ==
  ASSUME OdInv, NEW c \in Channels, NEW r \in Runs, Renews(c, r)
  PROVE \E p : OdLaunched(c, r, p)
  <1>1. TypeOK /\ TimersOwned /\ NoShadows /\ NoProc \notin Procs
        /\ processes[c] \in Procs \cup {NoProc} /\ ControllersMatch
    BY DEF OdInv, IInv, CInv, TypeOK
  <1>2. PICK p : Launched(c, r, p)
    BY <1>1, RenewsEffect
  <1>3. processes'[c] = p
    BY <1>1, <1>2, RenewsEffect DEF Launched
  <1>. DEFINE ct == [runControllers EXCEPT ![c] = r]
              po == Unset(processes, c)
              rn == StoppedRuns(c)
              pr == StoppedProcs(c)
  <1>4. /\ ct \in RunMap /\ ct[c] = r
        /\ \A d \in Channels \ {c} : ct[d] = runControllers[d]
    BY <1>1 DEF TypeOK, RunMap
  <1>5. /\ StartChannel(c, r, po, rn, pr) /\ SpawnOnce(r, NewRun(c), po, ct, rn, pr)
        /\ NewRun(c) \in RunType /\ NewRun(c).chan = c
        /\ po \in ProcMap /\ rn \in [Runs -> RunType] /\ pr \in [Procs -> ProcType]
    BY <1>1, NewRunType, StoppedType DEF Renews, StartChannel, NewRun
  <1>6. \A q \in Procs :
          /\ pr[q].life = "alive" <=> proc[q].life = "alive" /\ q # processes[c]
          /\ pr[q].life = "signalled" <=>
               proc[q].life = "signalled" \/ (proc[q].life = "alive" /\ q = processes[c])
    BY <1>1, SignalLives DEF StoppedProcs, NoShadows, TypeOK
  <1>. HIDE DEF ct, po, rn, pr
  <1>7. /\ p # NoProc => runControllers'[c] = r
        /\ \A d \in Channels \ {c} : runControllers'[d] = runControllers[d]
    BY <1>1, <1>3, <1>4, <1>5, SpawnController
  <1>8. ASSUME NEW q \in Runs, run'[q].spawnTimer
        PROVE q # r /\ run[q].spawnTimer /\ run'[q].chan = run[q].chan /\ run[q].chan # c
    <2>1. q # r /\ run'[q] = StoppedRuns(c)[q]
      BY <1>1, <1>8, RenewsEffect
    <2>2. run[q].spawnTimer /\ q # runControllers[c] /\ run'[q].chan = run[q].chan
      BY <1>1, <1>8, <2>1, StoppedRunsEffect
    <2>. QED BY <1>1, <2>1, <2>2 DEF TimersOwned
  <1>9. Dismissed(processes[c], p)
    <2>1. \A q \in Procs \ {p} : proc'[q] = pr[q]
      BY <1>1, <1>3, <1>5, StartEffect
    <2>. QED BY <1>6, <2>1 DEF Dismissed
  <1>. QED BY <1>2, <1>3, <1>7, <1>8, <1>9 DEF OdLaunched

\* A due timer finds its channel without a process, and no other is armed for it.
LEMMA TimerLaunches ==
  ASSUME OdInv, NEW r \in Runs, SpawnTimer(r)
  PROVE run[r].chan \in Channels /\ \E p : OdLaunched(run[r].chan, r, p)
  <1>. DEFINE c == run[r].chan
  <1>1. /\ TypeOK /\ TimersOwned /\ NoShadows /\ NoProc \notin Procs /\ c \in Channels
        /\ run[r].spawnTimer /\ processes[c] = NoProc /\ runControllers[c] = r
    BY SpawnTimerEffect DEF OdInv, IInv, CInv, TimersOwned
  <1>2. PICK p : Launched(c, r, p)
    BY <1>1, SpawnTimerLaunches
  <1>3. processes'[c] = p
    BY <1>1, <1>2 DEF Launched
  <1>4. /\ p # NoProc => runControllers'[c] = r
        /\ \A d \in Channels \ {c} : runControllers'[d] = runControllers[d]
    <2>. DEFINE rec == [run[r] EXCEPT !.spawnTimer = FALSE]
    <2>1. /\ rec \in RunType /\ rec.chan = c
          /\ SpawnOnce(r, rec, processes, runControllers, run, proc)
          /\ processes \in ProcMap /\ runControllers \in RunMap
          /\ run \in [Runs -> RunType] /\ proc \in [Procs -> ProcType]
      BY <1>1, FieldsType, TimersKeep DEF SpawnTimer, TypeOK, ProcMap, RunMap
    <2>. HIDE DEF rec
    <2>. QED BY <1>1, <1>3, <2>1, SpawnController
  <1>5. ASSUME NEW q \in Runs, run'[q].spawnTimer
        PROVE q # r /\ run[q].spawnTimer /\ run'[q].chan = run[q].chan /\ run[q].chan # c
    <2>1. q # r /\ run'[q] = run[q]
      BY <1>1, <1>5, SpawnTimerEffect
    <2>. QED BY <1>1, <1>5, <2>1 DEF TimersOwned
  <1>6. Dismissed(processes[c], p)
    BY <1>1, <1>2 DEF Launched, Dismissed, NoShadows
  <1>7. OdLaunched(c, r, p)
    BY <1>2, <1>3, <1>4, <1>5, <1>6 DEF OdLaunched
  <1>. QED BY <1>1, <1>7

\* A stop dismisses the process of the channel and disarms its timer.
OdEnded(c) ==
  /\ processes'[c] = NoProc
  /\ \A d \in Channels \ {c} : /\ processes'[d] = processes[d] /\ status'[d] = status[d]
                               /\ runControllers'[d] = runControllers[d]
                               /\ d \in channels => d \in channels'
  /\ \A q \in Runs : run'[q].spawnTimer =>
       run[q].spawnTimer /\ run'[q].chan = run[q].chan /\ run[q].chan # c
  /\ \A q \in Procs : proc'[q].chan = proc[q].chan /\ proc'[q].run = proc[q].run
  /\ Dismissed(processes[c], NoProc)

\* That is what a stop or a delete leaves when nobody switches.
LEMMA EndsOnDemand ==
  ASSUME OdInv, NEW c \in Channels, Ends(c, {})
  PROVE OdEnded(c)
  <1>1. TypeOK /\ TimersOwned /\ NoShadows /\ NoProc \notin Procs /\ {} \in SUBSET switching
    BY DEF OdInv, IInv, CInv
  <1>2. proc' = Signal(proc, {processes[c], NoProc})
    <2>1. {processes[c], shadowProcesses[c]} \cup {} = {processes[c], NoProc}
      BY <1>1 DEF NoShadows
    <2>. QED BY <2>1 DEF Ends
  <1>3. Dismissed(processes[c], NoProc)
    BY <1>1, <1>2, SignalLives DEF Dismissed, TypeOK
  <1>4. ASSUME NEW q \in Runs, run'[q].spawnTimer
        PROVE run[q].spawnTimer /\ run'[q].chan = run[q].chan /\ run[q].chan # c
    <2>1. run'[q] = StoppedRuns(c)[q]
      BY <1>1, EndsEffect
    <2>2. run[q].spawnTimer /\ q # runControllers[c] /\ run'[q].chan = run[q].chan
      BY <1>1, <1>4, <2>1, StoppedRunsEffect
    <2>. QED BY <1>1, <2>2 DEF TimersOwned
  <1>5. \A d \in Channels \ {c} : d \in channels => d \in channels'
    BY DEF Ends
  <1>. QED BY <1>1, <1>3, <1>4, <1>5, EndsEffect, EndsProcs DEF OdEnded

\* The close of a process that is not current leaves the controllers alone: its
\* run may be cancelled, but then nothing leads to it.
LEMMA StaleKeepsControllers ==
  ASSUME OdInv, NEW p \in Procs, CloseStale(p)
  PROVE UNCHANGED runControllers
  <1>1. proc[p].run \in Runs /\ proc[p].chan \in Channels
    BY DEF OdInv, IInv, CInv, EnginesMatch, CloseStale, TypeOK, ProcType
  <1>2. run[proc[p].run].cancelled => runControllers[proc[p].chan] # proc[p].run
    BY <1>1 DEF OdInv, IInv, CInv, CancelledRunsInert
  <1>. QED BY <1>1, <1>2 DEF CloseStale

----------------------------------------------------------------------------
(* The invariant is kept *)

\* No request switches a channel.
LEMMA NoShadowsStep ==
  ASSUME OnDemandOnly, OdInv, [OdNext]_odVars
  PROVE NoShadows'
  <1>1. TypeOK /\ NoShadows
    BY DEF OdInv, IInv, CInv
  <1>2. ASSUME NEW c \in Channels, NEW r \in Runs, Begins(c, r) \/ Renews(c, r) PROVE NoShadows'
    <2>1. PICK p : Launched(c, r, p)
      BY <1>1, <1>2, BeginsEffect, RenewsEffect
    <2>. QED BY <1>1, <2>1 DEF NoShadows, Launched
  <1>3. ASSUME NEW r \in Runs, SpawnTimer(r) PROVE NoShadows'
    BY <1>1, <1>3 DEF SpawnTimer, NoShadows
  <1>4. ASSUME NEW c \in Channels, Ends(c, {}) PROVE NoShadows'
    <2>1. {} \in SUBSET switching /\ switching' \subseteq switching
      BY <1>4 DEF Ends
    <2>. QED BY <1>1, <1>4, <2>1, EndsEffect DEF NoShadows
  <1>5. ASSUME NEW r \in Runs, ReadyTimer(r) PROVE NoShadows'
    BY <1>1, <1>5, ReadyEffect DEF NoShadows
  <1>6. ASSUME NEW p \in Procs, \/ Output(p) \/ Exit(p) \/ CloseStale(p) \/ CloseBare(p)
                                \/ CloseShadow(p) \/ \E empty \in BOOLEAN : CloseCurrent(p, empty)
        PROVE NoShadows'
    BY <1>1, <1>6 DEF NoShadows, Output, Exit, CloseStale, CloseBare, CloseShadow, CloseCurrent,
                      Unset, TypeOK
  <1>7. CASE UNCHANGED core
    BY <1>1, <1>7 DEF core, NoShadows
  <1>. QED BY <1>1, <1>2, <1>3, <1>4, <1>5, <1>6, <1>7, OdCases

\* The steps that launch something, seen alike.
LEMMA OdLaunches ==
  ASSUME OdInv,
         \/ \E c \in Channels, r \in Runs : (MustStart(c) /\ Begins(c, r)) \/ Renews(c, r)
         \/ \E r \in Runs : SpawnTimer(r)
  PROVE \E c \in Channels, r \in Runs : \E p : OdLaunched(c, r, p)
  BY EnsureLaunches, RenewLaunches, TimerLaunches

\* A timer stays armed only while the channel is left as it was.
LEMMA TimersStep ==
  ASSUME OnDemandOnly, OdInv, [OdNext]_odVars, TypeOK'
  PROVE TimersOwned'
  <1>. USE DEF TimersOwned
  <1>1. TypeOK /\ TimersOwned
    BY DEF OdInv, IInv, CInv
  <1>2. ASSUME NEW c \in Channels, NEW r \in Runs, NEW p, OdLaunched(c, r, p) PROVE TimersOwned'
    <2>1. \A q \in Runs : run[q].chan \in Channels
      BY <1>1 DEF TypeOK, RunType
    <2>. QED BY <1>1, <1>2, <2>1 DEF OdLaunched, Launched
  <1>3. ASSUME NEW c \in Channels, Ends(c, {}) PROVE TimersOwned'
    <2>1. \A q \in Runs : run[q].chan \in Channels
      BY <1>1 DEF TypeOK, RunType
    <2>. QED BY <1>1, <1>3, <2>1, EndsOnDemand DEF OdEnded
  <1>4. ASSUME NEW r \in Runs, ReadyTimer(r) PROVE TimersOwned'
    <2>1. \A q \in Runs : run[q].chan \in Channels
      BY <1>1 DEF TypeOK, RunType
    <2>. QED BY <1>1, <1>4, <2>1, ReadyEffect DEF Kept
  <1>5. ASSUME NEW p \in Procs, Output(p) PROVE TimersOwned'
    <2>1. proc[p].chan \in Channels
      BY <1>1 DEF TypeOK, ProcType
    <2>. QED BY <1>1, <1>5, <2>1 DEF Output, TypeOK
  <1>6. ASSUME NEW p \in Procs, Exit(p) \/ CloseShadow(p) \/ CloseBare(p) PROVE TimersOwned'
    BY <1>1, <1>6 DEF Exit, CloseShadow, CloseBare
  <1>7. ASSUME NEW p \in Procs, CloseStale(p) PROVE TimersOwned'
    BY <1>1, <1>7, StaleEffect, StaleKeepsControllers DEF Kept
  <1>8. ASSUME NEW p \in Procs, NEW empty \in BOOLEAN, CloseCurrent(p, empty)
        PROVE TimersOwned'
    <2>. DEFINE r == proc[p].run
                c == proc[p].chan
                v == Verdict(p, empty)
    <2>1. /\ proc[p].kind = "engine" /\ proc[p].life = "exited" /\ c \in Channels
          /\ processes[c] = p /\ processes'[c] = NoProc /\ status'[c] = StatusAfter(v)
          /\ \A d \in Channels \ {c} : status'[d] = status[d] /\ processes'[d] = processes[d]
          /\ \A q \in Runs \ {r} : run'[q] = run[q]
          /\ r \in Runs => /\ run'[r].chan = run[r].chan
                           /\ run'[r].spawnTimer <=> (run[r].spawnTimer \/ v \in Respawning)
          /\ UNCHANGED channels
      BY <1>1, <1>8, CloseCurrentEffect
    <2>2. /\ r \in Runs /\ run[r].chan = c /\ runControllers[c] = r /\ c \in channels
          /\ p # NoProc
      BY <2>1 DEF OdInv, IInv, CInv, EnginesMatch, EntriesControlled, DeletedIsQuiet
    <2>3. \A q \in Runs : run[q].spawnTimer => run[q].chan # c
      BY <1>1, <2>1, <2>2
    <2>4. /\ \A d \in Channels \ {c} : runControllers'[d] = runControllers[d]
          /\ v \in Respawning => runControllers'[c] = r
      <3>1. /\ runControllers' \in {runControllers, [runControllers EXCEPT ![c] = NoRun]}
            /\ v \notin Concluding => runControllers' = runControllers
        BY <1>8 DEF CloseCurrent
      <3>2. v \in Respawning => v \notin Concluding
        BY DEF Respawning, Concluding
      <3>3. \A d \in Channels \ {c} : runControllers'[d] = runControllers[d]
        BY <1>1, <3>1 DEF TypeOK
      <3>. QED BY <2>2, <3>1, <3>2, <3>3
    <2>5. v \in Respawning => StatusAfter(v) = "starting"
      BY DEF Respawning, StatusAfter
    <2>. HIDE DEF r, c, v
    <2>6. ASSUME NEW q \in Runs \ {r}, run'[q].spawnTimer
          PROVE LET d == run'[q].chan
                IN  /\ d \in channels' /\ runControllers'[d] = q /\ processes'[d] = NoProc
                    /\ status'[d] \in {"starting", "running"}
      <3>1. run'[q] = run[q] /\ run[q].chan # c /\ run[q].chan \in Channels
        BY <1>1, <2>1, <2>3, <2>6 DEF TypeOK, RunType
      <3>. QED BY <1>1, <2>1, <2>4, <2>6, <3>1
    <2>7. run'[r].spawnTimer =>
            LET d == run'[r].chan
            IN  /\ d \in channels' /\ runControllers'[d] = r /\ processes'[d] = NoProc
                /\ status'[d] \in {"starting", "running"}
      <3>1. run'[r].chan = c /\ (run'[r].spawnTimer => v \in Respawning)
        BY <2>1, <2>2, <2>3
      <3>2. v \in Respawning =>
              /\ c \in channels' /\ runControllers'[c] = r /\ processes'[c] = NoProc
              /\ status'[c] = "starting"
        BY <2>1, <2>2, <2>4, <2>5
      <3>. QED BY <3>1, <3>2
    <2>. QED BY <2>6, <2>7
  <1>9. CASE UNCHANGED core
    BY <1>1, <1>9 DEF core
  <1>. QED BY <1>1, <1>2, <1>3, <1>4, <1>5, <1>6, <1>7, <1>8, <1>9, OdCases, OdLaunches

\* A controller changes only with the entry of its channel.
LEMMA EntriesControlledStep ==
  ASSUME OnDemandOnly, OdInv, [OdNext]_odVars, TypeOK'
  PROVE EntriesControlled'
  <1>. USE DEF EntriesControlled
  <1>1. TypeOK /\ EntriesControlled /\ \A c \in Channels : processes[c] \in Procs \cup {NoProc}
    BY DEF OdInv, IInv, CInv, TypeOK
  <1>2. ASSUME NEW c \in Channels, NEW r \in Runs, NEW p, OdLaunched(c, r, p)
        PROVE EntriesControlled'
    <2>1. p # NoProc => proc'[p].run = r /\ \A d \in Channels : processes[d] # p
      BY <1>2 DEF OdLaunched, Launched, OnDemandOnly, FreeProc
    <2>2. ASSUME NEW d \in Channels \ {c}, processes[d] # NoProc
          PROVE proc'[processes[d]].run = proc[processes[d]].run
      BY <1>1, <1>2, <2>1, <2>2 DEF OdLaunched, Launched
    <2>. QED BY <1>1, <1>2, <2>1, <2>2 DEF OdLaunched, Launched
  <1>3. ASSUME NEW c \in Channels, Ends(c, {}) PROVE EntriesControlled'
    BY <1>1, <1>3, EndsOnDemand DEF OdEnded
  <1>4. ASSUME NEW r \in Runs, ReadyTimer(r) PROVE EntriesControlled'
    BY <1>1, <1>4, ReadyEffect
  <1>5. ASSUME NEW p \in Procs, Output(p) PROVE EntriesControlled'
    BY <1>1, <1>5 DEF Output
  <1>6. ASSUME NEW p \in Procs, Exit(p) PROVE EntriesControlled'
    BY <1>1, <1>6, ExitEffect
  <1>7. ASSUME NEW p \in Procs, CloseShadow(p) \/ CloseBare(p) PROVE EntriesControlled'
    BY <1>1, <1>7, GoneEffect DEF CloseShadow, CloseBare
  <1>8. ASSUME NEW p \in Procs, CloseStale(p) PROVE EntriesControlled'
    BY <1>1, <1>8, StaleEffect, StaleKeepsControllers, GoneEffect DEF CloseStale
  <1>9. ASSUME NEW p \in Procs, NEW empty \in BOOLEAN, CloseCurrent(p, empty)
        PROVE EntriesControlled'
    <2>1. LET c == proc[p].chan
          IN  /\ c \in Channels /\ processes'[c] = NoProc /\ Gone(p)
              /\ \A d \in Channels \ {c} : processes'[d] = processes[d]
      BY <1>1, <1>9, CloseCurrentEffect
    <2>2. \A d \in Channels \ {proc[p].chan} : runControllers'[d] = runControllers[d]
      BY <1>1, <1>9 DEF CloseCurrent, TypeOK
    <2>3. \A q \in Procs : proc'[q].run = proc[q].run
      BY <1>1, <2>1, GoneEffect
    <2>. QED BY <1>1, <2>1, <2>2, <2>3
  <1>10. CASE UNCHANGED core
    BY <1>1, <1>10 DEF core
  <1>. QED BY <1>1, <1>2, <1>3, <1>4, <1>5, <1>6, <1>7, <1>8, <1>9, <1>10, OdCases, OdLaunches

\* What runs stays registered: an entry is dismissed before it goes.
LEMMA AliveStep ==
  ASSUME OnDemandOnly, OdInv, [OdNext]_odVars, TypeOK'
  PROVE AliveRegistered'
  <1>. USE DEF AliveRegistered
  <1>1. /\ TypeOK /\ AliveRegistered
        /\ \A p \in Procs : proc[p].chan \in Channels /\ proc[p].life # "none"
    BY DEF OdInv, IInv, CInv, TypeOK, ProcType
  <1>2. ASSUME NEW c \in Channels, NEW r \in Runs, NEW p, OdLaunched(c, r, p)
        PROVE AliveRegistered'
    <2>1. p \in Procs => proc'[p].chan = c /\ processes'[c] = p
      BY <1>2 DEF OdLaunched, Launched
    <2>2. ASSUME NEW q \in Procs \ {p}, proc'[q].life = "alive"
          PROVE processes'[proc'[q].chan] = q
      <3>1. proc[q].life = "alive" /\ q # processes[c] /\ proc'[q].chan = proc[q].chan
        BY <1>2, <2>2 DEF OdLaunched, Launched, Dismissed
      <3>2. proc[q].chan \in Channels \ {c} /\ processes[proc[q].chan] = q
        BY <1>1, <3>1
      <3>. QED BY <1>2, <3>1, <3>2 DEF OdLaunched, Launched
    <2>. QED BY <2>1, <2>2
  <1>3. ASSUME NEW c \in Channels, Ends(c, {}) PROVE AliveRegistered'
    BY <1>1, <1>3, EndsOnDemand DEF OdEnded, Dismissed
  <1>4. ASSUME NEW r \in Runs, ReadyTimer(r) PROVE AliveRegistered'
    BY <1>1, <1>4, ReadyEffect
  <1>5. ASSUME NEW p \in Procs, Output(p) PROVE AliveRegistered'
    BY <1>1, <1>5 DEF Output
  <1>6. ASSUME NEW p \in Procs, Exit(p) PROVE AliveRegistered'
    BY <1>1, <1>6, ExitEffect
  <1>7. ASSUME NEW p \in Procs, CloseShadow(p) \/ CloseBare(p) \/ CloseStale(p)
        PROVE AliveRegistered'
    BY <1>1, <1>7, GoneEffect DEF CloseShadow, CloseBare, CloseStale
  <1>8. ASSUME NEW p \in Procs, NEW empty \in BOOLEAN, CloseCurrent(p, empty)
        PROVE AliveRegistered'
    <2>1. LET c == proc[p].chan
          IN  /\ c \in Channels /\ processes[c] = p /\ Gone(p)
              /\ \A d \in Channels \ {c} : processes'[d] = processes[d]
      BY <1>1, <1>8, CloseCurrentEffect
    <2>2. /\ proc'[p].life = "gone"
          /\ \A q \in Procs \ {p} : proc'[q] = proc[q]
      BY <1>1, <2>1, GoneEffect
    <2>. QED BY <1>1, <2>1, <2>2
  <1>9. CASE UNCHANGED core
    BY <1>1, <1>9 DEF core
  <1>. QED BY <1>1, <1>2, <1>3, <1>4, <1>5, <1>6, <1>7, <1>8, <1>9, OdCases, OdLaunches

\* The state after boot satisfies the invariant.
LEMMA OdInitInv == OdInit => OdInv
  <1>. SUFFICES ASSUME OdInit PROVE OdInv
    OBVIOUS
  <1>1. IInv
    BY InitInv DEF OdInit
  <1>2. /\ \A c \in Channels : processes[c] = NoProc /\ shadowProcesses[c] = NoProc
        /\ switching = {}
        /\ \A r \in Runs : ~run[r].spawnTimer
        /\ \A p \in Procs : proc[p].life = "gone"
    BY DEF OdInit, Init, NewRun, NewProc
  <1>. QED BY <1>1, <1>2 DEF OdInv, NoShadows, TimersOwned, EntriesControlled, AliveRegistered

\* Every step preserves it.
LEMMA OdNextInv == ASSUME OnDemandOnly PROVE OdInv /\ [OdNext]_odVars => OdInv'
  <1>. SUFFICES ASSUME OdInv, [OdNext]_odVars PROVE OdInv'
    OBVIOUS
  <1>1. IInv'
    BY OdStepIsEngineStep, NextInv DEF OdInv, IInv, CInv
  <1>2. TypeOK'
    BY <1>1 DEF IInv, CInv
  <1>. QED BY <1>1, <1>2, NoShadowsStep, TimersStep, EntriesControlledStep, AliveStep DEF OdInv

\* With on-demand requests as the only starters stopChannel always finds the
\* run whose retry is armed (lib/on-demand-live.js, scheduleSpawn).
THEOREM TimersStayCancellable ==
  ASSUME OnDemandOnly PROVE OdSpec => []EveryTimerCancellable
  <1>1. OdInv => EveryTimerCancellable
    BY DEF OdInv, TimersOwned, EveryTimerCancellable
  <1>. QED BY <1>1, OdInitInv, OdNextInv, PTL DEF OdSpec

\* Nor does an FFmpeg ever run that the panel has lost (processes).
THEOREM NothingIsOrphaned ==
  ASSUME OnDemandOnly PROVE OdSpec => []NoOrphan
  <1>1. OdInv => NoOrphan
    BY DEF OdInv, IInv, CInv, TypeOK, ProcType, AliveRegistered, NoOrphan
  <1>. QED BY <1>1, OdInitInv, OdNextInv, PTL DEF OdSpec

----------------------------------------------------------------------------
(* The refinement                                                            *)

\* What EngineSlot counts.
Working == [c \in Channels |-> Cardinality(OfChannel(c, "alive"))]
Fading == [c \in Channels |-> Cardinality(OfChannel(c, "signalled"))]

\* The processes of a channel that are at work, and those that fade out, are as before.
Unmoved(d) ==
  /\ OfChannel(d, "alive")' = OfChannel(d, "alive")
  /\ OfChannel(d, "signalled")' = OfChannel(d, "signalled")

\* What may become of the processes of a channel in one step: one is launched or
\* ends, one is dismissed, with or without another in its place, or one fades out.
SomeLaunched(c) ==
  \E p : /\ OfChannel(c, "alive") = {} /\ OfChannel(c, "alive")' = {p}
         /\ OfChannel(c, "signalled")' = OfChannel(c, "signalled")
SomeEnded(c) ==
  \E p : /\ OfChannel(c, "alive") = {p} /\ OfChannel(c, "alive")' = {}
         /\ OfChannel(c, "signalled")' = OfChannel(c, "signalled")
SomeDismissed(c) ==
  \E p : /\ OfChannel(c, "alive") = {p} /\ p \notin OfChannel(c, "signalled")
         /\ OfChannel(c, "alive")' = {} \/ \E q : OfChannel(c, "alive")' = {q}
         /\ OfChannel(c, "signalled")' = OfChannel(c, "signalled") \cup {p}
SomeFaded(c) ==
  \E p \in OfChannel(c, "signalled") :
    /\ OfChannel(c, "alive")' = OfChannel(c, "alive")
    /\ OfChannel(c, "signalled")' = OfChannel(c, "signalled") \ {p}

Moved(c) ==
  Unmoved(c) \/ SomeLaunched(c) \/ SomeEnded(c) \/ SomeDismissed(c) \/ SomeFaded(c)

\* Such a step is one of EngineSlot, or changes nothing it counts.
LEMMA MovesAreSlotSteps ==
  ASSUME NEW c \in Channels, Moved(c), \A d \in Channels \ {c} : Unmoved(d),
         IsFiniteSet(Procs)
  PROVE [Slot!SlotNext]_<<Working, Fading>>
  <1>1. \A d \in Channels \ {c} : Working'[d] = Working[d] /\ Fading'[d] = Fading[d]
    BY DEF Working, Fading, Unmoved
  <1>2. /\ Working \in [Channels -> Nat] /\ Fading \in [Channels -> Nat]
        /\ IsFiniteSet(OfChannel(c, "alive")) /\ IsFiniteSet(OfChannel(c, "signalled"))
    <2>1. \A d \in Channels : \A life : OfChannel(d, life) \in SUBSET Procs
      BY DEF OfChannel
    <2>. QED BY <2>1, FS_Subset, FS_CardinalityType DEF Working, Fading
  <1>3. /\ DOMAIN Working' = Channels /\ DOMAIN Fading' = Channels
        /\ Working' = [d \in Channels |-> Working'[d]]
        /\ Fading' = [d \in Channels |-> Fading'[d]]
    BY DEF Working, Fading
  <1>4. CASE Unmoved(c)
    BY <1>1, <1>3, <1>4 DEF Unmoved, Working, Fading
  <1>5. ASSUME NEW p, OfChannel(c, "alive") = {}, OfChannel(c, "alive")' = {p},
               OfChannel(c, "signalled")' = OfChannel(c, "signalled")
        PROVE Slot!Launch(c)
    <2>1. Working[c] = 0 /\ Working'[c] = 1 /\ Fading'[c] = Fading[c]
      BY <1>5, FS_EmptySet, FS_Singleton DEF Working, Fading
    <2>2. Working' = [Working EXCEPT ![c] = 1] /\ Fading' = Fading
      BY <1>1, <1>2, <1>3, <2>1
    <2>. QED BY <2>1, <2>2 DEF Slot!Launch, Working, Fading
  <1>6. ASSUME NEW p, OfChannel(c, "alive") = {p}, OfChannel(c, "alive")' = {},
               OfChannel(c, "signalled")' = OfChannel(c, "signalled")
        PROVE Slot!Cease(c)
    <2>1. Working[c] = 1 /\ Working'[c] = 0 /\ Fading'[c] = Fading[c]
      BY <1>6, FS_EmptySet, FS_Singleton DEF Working, Fading
    <2>2. Working' = [Working EXCEPT ![c] = 0] /\ Fading' = Fading
      BY <1>1, <1>2, <1>3, <2>1
    <2>. QED BY <2>1, <2>2 DEF Slot!Cease, Working, Fading
  <1>7. ASSUME NEW p, OfChannel(c, "alive") = {p}, p \notin OfChannel(c, "signalled"),
               OfChannel(c, "signalled")' = OfChannel(c, "signalled") \cup {p}
        PROVE Working[c] = 1 /\ Fading' = [Fading EXCEPT ![c] = @ + 1]
    <2>1. Working[c] = 1 /\ Fading'[c] = Fading[c] + 1
      <3>1. PICK S : S = OfChannel(c, "signalled")
        OBVIOUS
      <3>2. Cardinality(S \cup {p}) = Cardinality(S) + 1
        BY <1>2, <1>7, <3>1, FS_AddElement
      <3>3. Cardinality({p}) = 1
        BY FS_Singleton
      <3>. QED BY <1>7, <3>1, <3>2, <3>3 DEF Working, Fading
    <2>. QED BY <1>1, <1>2, <1>3, <2>1
  <1>8. ASSUME NEW p, OfChannel(c, "alive") = {p}, p \notin OfChannel(c, "signalled"),
               OfChannel(c, "alive")' = {},
               OfChannel(c, "signalled")' = OfChannel(c, "signalled") \cup {p}
        PROVE Slot!Dismiss(c)
    <2>1. Working[c] = 1 /\ Fading' = [Fading EXCEPT ![c] = @ + 1]
      BY <1>7, <1>8
    <2>2. Working'[c] = 0
      BY <1>8, FS_EmptySet DEF Working
    <2>3. Working' = [Working EXCEPT ![c] = 0]
      BY <1>1, <1>2, <1>3, <2>2
    <2>. QED BY <2>1, <2>3 DEF Slot!Dismiss, Working, Fading
  <1>9. ASSUME NEW p, OfChannel(c, "alive") = {p}, p \notin OfChannel(c, "signalled"),
               NEW q, OfChannel(c, "alive")' = {q},
               OfChannel(c, "signalled")' = OfChannel(c, "signalled") \cup {p}
        PROVE Slot!Replace(c)
    <2>1. Working[c] = 1 /\ Fading' = [Fading EXCEPT ![c] = @ + 1]
      BY <1>7, <1>9
    <2>2. Working'[c] = 1
      BY <1>9, FS_Singleton DEF Working
    <2>3. Working' = Working
      BY <1>1, <1>2, <1>3, <2>1, <2>2
    <2>. QED BY <2>1, <2>3 DEF Slot!Replace, Working, Fading
  <1>10. ASSUME NEW p \in OfChannel(c, "signalled"),
                OfChannel(c, "alive")' = OfChannel(c, "alive"),
                OfChannel(c, "signalled")' = OfChannel(c, "signalled") \ {p}
         PROVE Slot!Fade(c)
    <2>1. Fading[c] # 0 /\ Fading'[c] = Fading[c] - 1 /\ Working'[c] = Working[c]
      BY <1>2, <1>10, FS_RemoveElement, FS_EmptySet DEF Working, Fading
    <2>2. Fading[c] > 0 /\ Fading' = [Fading EXCEPT ![c] = @ - 1] /\ Working' = Working
      BY <1>1, <1>2, <1>3, <2>1
    <2>. QED BY <2>2 DEF Slot!Fade, Working, Fading
  <1>11. SomeLaunched(c) => Slot!Launch(c)
    BY <1>5 DEF SomeLaunched
  <1>12. SomeEnded(c) => Slot!Cease(c)
    BY <1>6 DEF SomeEnded
  <1>13. SomeDismissed(c) => Slot!Dismiss(c) \/ Slot!Replace(c)
    BY <1>8, <1>9 DEF SomeDismissed
  <1>14. SomeFaded(c) => Slot!Fade(c)
    BY <1>10 DEF SomeFaded
  <1>15. (\/ Slot!Launch(c) \/ Slot!Cease(c) \/ Slot!Dismiss(c) \/ Slot!Replace(c)
          \/ Slot!Fade(c)) => Slot!SlotNext
    BY DEF Slot!SlotNext
  <1>. QED BY <1>4, <1>11, <1>12, <1>13, <1>14, <1>15 DEF Moved

\* At most one process of a channel is at work: its entry.
LEMMA OneAlive ==
  ASSUME OdInv, NEW c \in Channels
  PROVE OfChannel(c, "alive") = {p \in {processes[c]} \ {NoProc} : proc[p].life = "alive"}
  <1>1. \A p \in Procs : proc[p].life = "alive" => processes[proc[p].chan] = p
    BY DEF OdInv, AliveRegistered
  <1>2. processes[c] # NoProc => processes[c] \in Procs /\ proc[processes[c]].chan = c
    BY DEF OdInv, IInv, CInv, TypeOK, EntriesMatch
  <1>. QED BY <1>1, <1>2 DEF OfChannel

\* A process is dismissed, and perhaps another one launched, on channel c.
LEMMA DismissalMoves ==
  ASSUME OdInv, NEW c \in Channels, NEW p,
         p # NoProc => p \in Procs /\ proc[p].life = "gone" /\ proc'[p].chan = c
                       /\ proc'[p].life = "alive",
         processes'[c] = p, Dismissed(processes[c], p),
         \A q \in Procs \ {p} : proc'[q].chan = proc[q].chan
  PROVE Moved(c) /\ \A d \in Channels \ {c} : Unmoved(d)
  <1>. DEFINE old == processes[c]
  <1>1. /\ TypeOK /\ \A q \in Procs : proc[q].life = "alive" => processes[proc[q].chan] = q
        /\ old # NoProc => old \in Procs /\ proc[old].chan = c
        /\ NoProc \notin Procs
    BY DEF OdInv, IInv, CInv, TypeOK, AliveRegistered, EntriesMatch
  <1>2. ASSUME NEW d \in Channels \ {c} PROVE Unmoved(d)
    <2>1. ASSUME NEW q \in Procs, NEW life \in {"alive", "signalled"}
          PROVE (proc'[q].chan = d /\ proc'[q].life = life) <=> (proc[q].chan = d /\ proc[q].life = life)
      <3>1. CASE q = p
        BY <1>1, <1>2, <2>1, <3>1
      <3>2. CASE q # p
        <4>1. proc[q].chan = d => q # old
          BY <1>1
        <4>. QED BY <2>1, <3>2, <4>1 DEF Dismissed
      <3>. QED BY <3>1, <3>2
    <2>. QED BY <2>1 DEF Unmoved, OfChannel
  <1>3. OfChannel(c, "alive") = {q \in {old} \ {NoProc} : proc[q].life = "alive"}
    BY OneAlive
  <1>4. OfChannel(c, "signalled")' = OfChannel(c, "signalled") \cup OfChannel(c, "alive")
    <2>1. ASSUME NEW q \in Procs
          PROVE (proc'[q].chan = c /\ proc'[q].life = "signalled") <=>
                 proc[q].chan = c /\ proc[q].life \in {"signalled", "alive"}
      <3>1. CASE q = p
        BY <1>1, <3>1
      <3>2. CASE q # p
        BY <1>1, <3>2 DEF Dismissed
      <3>. QED BY <3>1, <3>2
    <2>. QED BY <2>1 DEF OfChannel
  <1>5. OfChannel(c, "alive")' = {p} \ {NoProc}
    <2>1. ASSUME NEW q \in Procs
          PROVE (proc'[q].chan = c /\ proc'[q].life = "alive") <=> q = p
      <3>1. CASE q = p
        BY <1>1, <3>1
      <3>2. CASE q # p
        <4>1. ~(proc'[q].chan = c /\ proc'[q].life = "alive")
          BY <1>1, <3>2 DEF Dismissed
        <4>. QED BY <3>2, <4>1
      <3>. QED BY <3>1, <3>2
    <2>2. p \in Procs \/ p = NoProc
      OBVIOUS
    <2>. QED BY <1>1, <2>1, <2>2 DEF OfChannel
  <1>6. ASSUME OfChannel(c, "alive") = {} PROVE Moved(c)
    <2>1. OfChannel(c, "signalled")' = OfChannel(c, "signalled")
      BY <1>4, <1>6
    <2>2. CASE p = NoProc
      BY <1>5, <1>6, <2>1, <2>2 DEF Moved, Unmoved
    <2>3. CASE p # NoProc
      <3>1. OfChannel(c, "alive")' = {p}
        BY <1>5, <2>3
      <3>. QED BY <1>6, <2>1, <3>1 DEF Moved, SomeLaunched
    <2>. QED BY <2>2, <2>3
  <1>7. ASSUME OfChannel(c, "alive") = {old} PROVE Moved(c)
    <2>1. old \notin OfChannel(c, "signalled")
      BY <1>7 DEF OfChannel
    <2>2. OfChannel(c, "alive")' = {} \/ OfChannel(c, "alive")' = {p}
      BY <1>5
    <2>3. OfChannel(c, "signalled")' = OfChannel(c, "signalled") \cup {old}
      BY <1>4, <1>7
    <2>. QED BY <1>7, <2>1, <2>2, <2>3 DEF Moved, SomeDismissed
  <1>. QED BY <1>2, <1>3, <1>6, <1>7

\* Each step of the requests and the engine moves the processes of one channel at most.
LEMMA OdStepMoves ==
  ASSUME OnDemandOnly, OdInv, [OdNext]_odVars, OdInv', IsFiniteSet(Procs)
  PROVE [Slot!SlotNext]_<<Working, Fading>>
  <1>1. /\ TypeOK /\ TypeOK' /\ NoProc \notin Procs
        /\ \A p \in Procs : proc[p].chan \in Channels
    BY DEF OdInv, IInv, CInv, TypeOK, ProcType
  <1>2. ASSUME NEW c \in Channels, NEW r \in Runs, NEW p, OdLaunched(c, r, p)
        PROVE [Slot!SlotNext]_<<Working, Fading>>
    <2>1. /\ processes'[c] = p /\ Dismissed(processes[c], p)
          /\ \A q \in Procs \ {p} : proc'[q].chan = proc[q].chan
          /\ p # NoProc => p \in Procs /\ proc[p].life = "gone" /\ proc'[p].chan = c
                            /\ proc'[p].life = "alive"
      BY <1>2 DEF OdLaunched, Launched, FreeProc
    <2>. QED BY <2>1, DismissalMoves, MovesAreSlotSteps
  <1>3. ASSUME NEW c \in Channels, Ends(c, {}) PROVE [Slot!SlotNext]_<<Working, Fading>>
    <2>1. /\ processes'[c] = NoProc /\ Dismissed(processes[c], NoProc)
          /\ \A q \in Procs \ {NoProc} : proc'[q].chan = proc[q].chan
      BY <1>3, EndsOnDemand DEF OdEnded
    <2>. QED BY <2>1, DismissalMoves, MovesAreSlotSteps
  <1>4. ASSUME UNCHANGED proc PROVE [Slot!SlotNext]_<<Working, Fading>>
    BY <1>4 DEF Working, Fading, OfChannel
  <1>5. ASSUME NEW p \in Procs, Exit(p) PROVE [Slot!SlotNext]_<<Working, Fading>>
    <2>. DEFINE c == proc[p].chan
    <2>1. /\ c \in Channels /\ proc[p].life \in {"alive", "signalled"}
          /\ proc'[p].life = "exited" /\ proc'[p].chan = c
          /\ \A q \in Procs \ {p} : proc'[q] = proc[q]
      BY <1>1, <1>5, ExitEffect DEF Exit
    <2>2. \A d \in Channels \ {c} : Unmoved(d)
      BY <2>1 DEF Unmoved, OfChannel
    <2>3. CASE proc[p].life = "alive"
      <3>1. OfChannel(c, "alive") = {p}
        <4>1. processes[c] = p
          BY <2>3 DEF OdInv, AliveRegistered
        <4>. QED BY <1>1, <2>1, <2>3, <4>1, OneAlive
      <3>2. /\ OfChannel(c, "alive")' = {}
            /\ OfChannel(c, "signalled")' = OfChannel(c, "signalled")
        <4>1. \A q \in Procs \ {p} : ~(proc[q].chan = c /\ proc[q].life = "alive")
          BY <3>1 DEF OfChannel
        <4>. QED BY <2>1, <2>3, <4>1 DEF OfChannel
      <3>3. Moved(c)
        BY <3>1, <3>2 DEF Moved, SomeEnded
      <3>. QED BY <2>1, <2>2, <3>3, MovesAreSlotSteps
    <2>4. CASE proc[p].life = "signalled"
      <3>1. /\ p \in OfChannel(c, "signalled")
            /\ OfChannel(c, "alive")' = OfChannel(c, "alive")
            /\ OfChannel(c, "signalled")' = OfChannel(c, "signalled") \ {p}
        BY <2>1, <2>4 DEF OfChannel
      <3>2. Moved(c)
        BY <3>1 DEF Moved, SomeFaded
      <3>. QED BY <2>1, <2>2, <3>2, MovesAreSlotSteps
    <2>. QED BY <2>1, <2>3, <2>4
  <1>6. ASSUME NEW p \in Procs, Gone(p), proc[p].life = "exited"
        PROVE [Slot!SlotNext]_<<Working, Fading>>
    <2>1. /\ proc'[p].life = "gone" /\ proc[p].life = "exited"
          /\ \A q \in Procs \ {p} : proc'[q] = proc[q]
      BY <1>1, <1>6, GoneEffect
    <2>2. \A d \in Channels : Unmoved(d)
      BY <2>1 DEF Unmoved, OfChannel
    <2>. QED BY <2>2 DEF Unmoved, Working, Fading
  <1>7. ASSUME NEW p \in Procs,
               \/ CloseStale(p) \/ (\E empty \in BOOLEAN : CloseCurrent(p, empty))
               \/ CloseShadow(p) \/ CloseBare(p)
        PROVE [Slot!SlotNext]_<<Working, Fading>>
    BY <1>6, <1>7 DEF CloseStale, CloseCurrent, CloseShadow, CloseBare
  <1>8. ASSUME NEW r \in Runs, ReadyTimer(r) PROVE UNCHANGED proc
    BY <1>8 DEF ReadyTimer
  <1>9. ASSUME NEW p \in Procs, Output(p) PROVE UNCHANGED proc
    BY <1>9 DEF Output
  <1>10. ASSUME UNCHANGED core PROVE UNCHANGED proc
    BY <1>10 DEF core
  <1>11. ASSUME \/ \E c \in Channels, r \in Runs : (MustStart(c) /\ Begins(c, r)) \/ Renews(c, r)
                \/ \E r \in Runs : SpawnTimer(r)
         PROVE \E c \in Channels, r \in Runs : \E p : OdLaunched(c, r, p)
    BY <1>11, OdLaunches
  <1>12. CASE \E c \in Channels, r \in Runs : \E p : OdLaunched(c, r, p)
    BY <1>2, <1>12
  <1>13. CASE \E c \in Channels : Ends(c, {})
    BY <1>3, <1>13
  <1>14. CASE UNCHANGED proc
    BY <1>4, <1>14
  <1>15. CASE \E p \in Procs : \/ Exit(p) \/ CloseStale(p)
                                \/ (\E empty \in BOOLEAN : CloseCurrent(p, empty))
                                \/ CloseShadow(p) \/ CloseBare(p)
    BY <1>5, <1>7, <1>15
  <1>16. \/ \E c \in Channels, r \in Runs : \E p : OdLaunched(c, r, p)
         \/ \E c \in Channels : Ends(c, {})
         \/ UNCHANGED proc
         \/ \E p \in Procs : \/ Exit(p) \/ CloseStale(p)
                              \/ (\E empty \in BOOLEAN : CloseCurrent(p, empty))
                              \/ CloseShadow(p) \/ CloseBare(p)
    BY <1>1, <1>8, <1>9, <1>10, <1>11, OdCases
  <1>. QED BY <1>12, <1>13, <1>14, <1>15, <1>16

\* With on-demand requests as the only starters, the processes of the engine
\* implement EngineSlot: however joins, failed spawns, retries, stops and exits
\* interleave, a channel has one FFmpeg at work at most, and the next is launched
\* when there is none or in the turn that dismisses it (lib/on-demand-live.js).
THEOREM OneEngineImplemented ==
  ASSUME OnDemandOnly, IsFiniteSet(Procs) PROVE OdSpec => OneEngine
  <1>1. OdInit => Slot!SlotInit
    <2>1. ASSUME OdInit, NEW c \in Channels
          PROVE OfChannel(c, "alive") = {} /\ OfChannel(c, "signalled") = {}
      BY <2>1 DEF OdInit, Init, NewProc, OfChannel
    <2>. QED BY <2>1, FS_EmptySet DEF Slot!SlotInit
  <1>2. OdInv /\ [OdNext]_odVars /\ OdInv' => [Slot!SlotNext]_(Slot!slotVars)
    BY OdStepMoves DEF Slot!slotVars, Working, Fading
  <1>. QED BY <1>1, <1>2, OdInitInv, OdNextInv, PTL DEF OdSpec, OneEngine, Slot!SlotSpec

----------------------------------------------------------------------------
(* The limit on processes *)

\* Live channels of the pipe output.
LivePipe == {c \in Channels : Format[c] = "mpegts" /\ Mode[c] = "live"}

\* Its inductive invariant: a timer that is armed respawns, so what it registers
\* past the check in startChannel is no first launch.
CapInv ==
  /\ IInv /\ OnlyReconnectsExceed
  /\ \A r \in Runs : run[r].spawnTimer /\ run[r].chan \in LivePipe =>
                       run[r].reconnectDone > 0

\* The run of a registered pipe process is a run of its channel.
LEMMA EntryRuns ==
  ASSUME IInv, NEW c \in LivePipe, processes[c] # NoProc
  PROVE /\ processes[c] \in Procs /\ c \in Channels
        /\ proc[processes[c]].chan = c /\ proc[processes[c]].life # "gone"
        /\ proc[processes[c]].run \in Runs /\ run[proc[processes[c]].run].chan = c
  BY DEF IInv, CInv, TypeOK, PipeEntriesAreLive, EnginesMatch, LivePipe

\* Sets of channels no larger than one within the limit.
LEMMA SmallerSet ==
  ASSUME IsFiniteSet(Channels), NEW S \in SUBSET Channels, NEW T \in SUBSET S
  PROVE Cardinality(T) <= Cardinality(S) /\ Cardinality(T) \in Nat /\ Cardinality(S) \in Nat
  BY FS_Subset, FS_CardinalityType

\* What makes no channel a first launch keeps the limit.
LEMMA FewerFirst ==
  ASSUME IsFiniteSet(Channels), CapInv, FirstLaunched' \subseteq FirstLaunched
  PROVE OnlyReconnectsExceed'
  <1>. DEFINE S == FirstLaunched
              T == FirstLaunched'
  <1>1. T \in SUBSET S /\ S \in SUBSET Channels
    BY DEF FirstLaunched, Registered
  <1>2. MaxFfmpeg > 0 => Cardinality(S) <= MaxFfmpeg
    BY DEF CapInv, OnlyReconnectsExceed
  <1>. HIDE DEF S, T
  <1>3. Cardinality(T) <= Cardinality(S) /\ Cardinality(T) \in Nat /\ Cardinality(S) \in Nat
    BY <1>1, SmallerSet
  <1>4. MaxFfmpeg > 0 => Cardinality(T) <= MaxFfmpeg
    BY <1>2, <1>3
  <1>. QED BY <1>4 DEF OnlyReconnectsExceed, T

\* A start registers its process only below the limit, which its own channel
\* does not count against when it was stopped in the same turn.
LEMMA StartKeepsLimit ==
  ASSUME IsFiniteSet(Channels), NEW c \in Channels, NEW po \in ProcMap, ~AtCapacity(po),
         FirstLaunched' \subseteq Registered(po) \cup {c}
  PROVE OnlyReconnectsExceed'
  <1>. DEFINE S == Registered(po)
              T == FirstLaunched'
              U == S \cup {c}
  <1>1. S \in SUBSET Channels /\ U \in SUBSET Channels /\ T \in SUBSET U
    BY DEF Registered
  <1>2. MaxFfmpeg > 0 => ~(Cardinality(S) >= MaxFfmpeg)
    BY DEF AtCapacity
  <1>. HIDE DEF S, T
  <1>3. IsFiniteSet(S)
    BY <1>1, FS_Subset
  <1>4. /\ Cardinality(S) \in Nat
        /\ Cardinality(U) = Cardinality(S) \/ Cardinality(U) = Cardinality(S) + 1
    BY <1>3, FS_AddElement, FS_CardinalityType
  <1>. HIDE DEF U
  <1>5. Cardinality(T) <= Cardinality(U) /\ Cardinality(T) \in Nat
    BY <1>1, SmallerSet
  <1>6. MaxFfmpeg > 0 => Cardinality(T) <= MaxFfmpeg
    BY <1>2, <1>4, <1>5
  <1>. QED BY <1>6 DEF OnlyReconnectsExceed, T

\* A process of c that stays registered, of a run whose counter does not fall,
\* is no new first launch.
Stays(c) ==
  processes'[c] # NoProc =>
    /\ processes'[c] = processes[c] /\ proc'[processes[c]].run = proc[processes[c]].run
    /\ LET q == proc[processes[c]].run
       IN run'[q].reconnectDone = 0 => run[q].reconnectDone = 0

\* So a step that only keeps processes keeps the limit.
LEMMA StayingKeepsLimit ==
  ASSUME IsFiniteSet(Channels), CapInv, \A c \in LivePipe : Stays(c)
  PROVE OnlyReconnectsExceed'
  <1>1. FirstLaunched' \subseteq FirstLaunched
    BY DEF FirstLaunched, Registered, Stays, LivePipe
  <1>. QED BY <1>1, FewerFirst

\* Every step keeps the limit, and arms a timer only for a reconnect.
LEMMA CapNextInv ==
  ASSUME IsFiniteSet(Channels) PROVE CapInv /\ [Next]_vars => CapInv'
  <1>. SUFFICES ASSUME CapInv, [Next]_vars PROVE CapInv'
    OBVIOUS
  <1>. DEFINE Timers(rn) == \A r \in Runs : rn[r].spawnTimer /\ rn[r].chan \in LivePipe =>
                                             rn[r].reconnectDone > 0
              Goal == OnlyReconnectsExceed' /\ Timers(run')
  <1>1. /\ TypeOK /\ IInv /\ Timers(run)
        /\ processes \in ProcMap /\ run \in [Runs -> RunType] /\ proc \in [Procs -> ProcType]
        /\ \A r \in Runs : run[r].reconnectDone \in Nat /\ run[r].chan \in Channels
        /\ \A p \in Procs : proc[p].chan \in Channels
    BY DEF CapInv, IInv, CInv, TypeOK, ProcMap, RunType, ProcType
  <1>2. \A c \in LivePipe : processes[c] # NoProc =>
          /\ processes[c] \in Procs /\ c \in Channels
          /\ proc[processes[c]].chan = c /\ proc[processes[c]].life # "gone"
          /\ proc[processes[c]].run \in Runs /\ run[proc[processes[c]].run].chan = c
    BY <1>1, EntryRuns
  <1>3. FirstLaunched' \subseteq LivePipe /\ LivePipe \subseteq Channels
    BY DEF FirstLaunched, Registered, LivePipe
  <1>4. ASSUME NEW c \in Channels, NEW r \in Runs, Begins(c, r) PROVE Goal
    <2>1. Timers(run')
      BY <1>1, <1>4, BeginsEffect
    <2>2. PICK p : Launched(c, r, p)
      BY <1>1, <1>4, BeginsEffect
    <2>3. FirstLaunched' \subseteq Registered(processes) \cup {c}
      BY <1>3, <2>2 DEF FirstLaunched, Registered, Launched
    <2>4. OnlyReconnectsExceed'
      BY <1>1, <1>4, <2>3, StartKeepsLimit DEF Begins, StartChannel
    <2>. QED BY <2>1, <2>4
  <1>5. ASSUME NEW c \in Channels, NEW r \in Runs, Renews(c, r) PROVE Goal
    <2>1. Timers(run')
      BY <1>1, <1>5, RenewsEffect, StoppedRunsEffect
    <2>2. PICK p : Launched(c, r, p)
      BY <1>1, <1>5, RenewsEffect
    <2>3. FirstLaunched' \subseteq Registered(Unset(processes, c)) \cup {c}
      BY <1>1, <1>3, <2>2 DEF FirstLaunched, Registered, Launched, Unset, ProcMap
    <2>4. OnlyReconnectsExceed'
      BY <1>1, <1>5, <2>3, StoppedType, StartKeepsLimit DEF Renews, StartChannel
    <2>. QED BY <2>1, <2>4
  <1>6. ASSUME NEW c \in Channels, NEW S \in SUBSET switching, Ends(c, S) PROVE Goal
    <2>1. Timers(run')
      BY <1>1, <1>6, EndsEffect, StoppedRunsEffect
    <2>2. ASSUME NEW d \in LivePipe PROVE Stays(d)
      <3>1. d = c => processes'[d] = NoProc
        BY <1>1, <1>6, EndsEffect
      <3>2. d # c => processes'[d] = processes[d]
        BY <1>1, <1>3, <1>6, EndsEffect
      <3>3. \A q \in Procs : proc'[q].run = proc[q].run
        BY <1>1, <1>6, SignalEffect DEF Ends
      <3>4. \A q \in Runs : run'[q].reconnectDone = run[q].reconnectDone
        BY <1>1, <1>6, EndsEffect, StoppedRunsEffect
      <3>. QED BY <1>2, <3>1, <3>2, <3>3, <3>4 DEF Stays
    <2>. QED BY <2>1, <2>2, StayingKeepsLimit
  <1>7. ASSUME UNCHANGED <<processes, run>>, \A p \in Procs : proc'[p].run = proc[p].run
        PROVE Goal
    <2>1. \A c \in LivePipe : Stays(c)
      BY <1>2, <1>7 DEF Stays
    <2>. QED BY <1>1, <1>7, <2>1, StayingKeepsLimit
  <1>8. ASSUME NEW p \in Procs, Output(p) \/ Exit(p) \/ CloseShadow(p) \/ CloseBare(p)
        PROVE Goal
    BY <1>1, <1>7, <1>8, ExitEffect, GoneEffect DEF Output, CloseShadow, CloseBare
  <1>9. ASSUME UNCHANGED core PROVE Goal
    <2>1. UNCHANGED <<processes, run, proc>>
      BY <1>9 DEF core
    <2>. QED BY <1>7, <2>1
  <1>10. ASSUME UNCHANGED processes, \A q \in Runs : Kept(run'[q], run[q]),
                \A p \in Procs : proc'[p].run = proc[p].run
         PROVE Goal
    <2>1. \A c \in LivePipe : Stays(c)
      BY <1>2, <1>10 DEF Stays, Kept
    <2>2. Timers(run')
      BY <1>1, <1>10 DEF Kept
    <2>. QED BY <2>1, <2>2, StayingKeepsLimit
  <1>11. ASSUME NEW r \in Runs, ReadyTimer(r) PROVE Goal
    BY <1>1, <1>10, <1>11, ReadyEffect
  <1>12. ASSUME NEW p \in Procs, CloseStale(p) PROVE Goal
    BY <1>1, <1>10, <1>12, StaleEffect, GoneEffect DEF CloseStale
  <1>13. ASSUME NEW r \in Runs, SpawnTimer(r) PROVE Goal
    <2>. DEFINE c == run[r].chan
    <2>1. Timers(run')
      BY <1>1, <1>13, SpawnTimerEffect
    <2>2. PICK p : Launched(c, r, p)
      BY <1>1, <1>13, SpawnTimerLaunches
    <2>3. /\ run[r].spawnTimer /\ c \in Channels
          /\ \A q \in Runs : run'[q].reconnectDone = run[q].reconnectDone
      BY <1>1, <1>13, SpawnTimerEffect
    <2>4. FirstLaunched' \subseteq FirstLaunched
      <3>1. ASSUME NEW d \in FirstLaunched' PROVE d \in FirstLaunched
        <4>1. d \in LivePipe /\ d \in Channels /\ processes'[d] # NoProc
              /\ run'[proc'[processes'[d]].run].reconnectDone = 0
          BY DEF FirstLaunched, Registered, LivePipe
        <4>2. CASE processes'[d] = processes[d] /\ processes[d] # p
          <5>1. proc'[processes[d]].run = proc[processes[d]].run /\ proc[processes[d]].run \in Runs
            BY <1>2, <2>2, <4>1, <4>2 DEF Launched
          <5>. QED BY <2>3, <4>1, <4>2, <5>1 DEF FirstLaunched, Registered, LivePipe
        <4>3. CASE d = c /\ processes'[d] = p /\ p # NoProc
          <5>1. proc'[p].run = r
            BY <2>2, <4>1, <4>3 DEF Launched, LivePipe
          <5>. QED BY <1>1, <2>3, <4>1, <4>3, <5>1
        <4>4. processes[d] = p => p = NoProc
          BY <2>2, <4>1 DEF Launched, FreeProc
        <4>. QED BY <2>2, <4>1, <4>2, <4>3, <4>4 DEF Launched
      <3>. QED BY <3>1
    <2>. QED BY <2>1, <2>4, FewerFirst
  <1>14. ASSUME NEW p \in Procs, NEW empty \in BOOLEAN, CloseCurrent(p, empty) PROVE Goal
    <2>. DEFINE r == proc[p].run
                c == proc[p].chan
                v == Verdict(p, empty)
    <2>1. /\ r \in Runs /\ run[r].chan = c /\ c \in Channels
          /\ processes'[c] = NoProc /\ \A d \in Channels \ {c} : processes'[d] = processes[d]
          /\ run'[r] = RunAfter(run[r], p, v, empty) /\ run'[r].chan = c
          /\ run'[r].spawnTimer <=> (run[r].spawnTimer \/ v \in Respawning)
          /\ \A q \in Runs \ {r} : run'[q] = run[q]
          /\ \A q \in Procs : proc'[q].run = proc[q].run
      BY <1>1, <1>14, CloseCurrentEffect, GoneEffect DEF IInv, CInv, EnginesMatch
    <2>2. run'[r].reconnectDone = IF v = "reconnect" THEN run[r].reconnectDone + 1
                                  ELSE IF v = "next" THEN 0 ELSE run[r].reconnectDone
      BY <1>1, <2>1 DEF RunAfter, RunType
    <2>3. c \in LivePipe => v \notin {"retry", "next"}
      BY DEF LivePipe, Verdict, MayRetry, MovieFailed
    <2>4. Timers(run')
      BY <1>1, <2>1, <2>2, <2>3 DEF Respawning
    <2>5. ASSUME NEW d \in LivePipe PROVE Stays(d)
      <3>1. CASE d = c
        BY <2>1, <3>1 DEF Stays
      <3>2. CASE d # c /\ processes[d] # NoProc
        <4>1. proc[processes[d]].run # r
          BY <1>2, <2>1, <3>2
        <4>. QED BY <1>2, <1>3, <2>1, <3>2, <4>1 DEF Stays
      <3>3. CASE d # c /\ processes[d] = NoProc
        BY <1>3, <2>1, <3>3 DEF Stays
      <3>. QED BY <3>1, <3>2, <3>3
    <2>. QED BY <2>4, <2>5, StayingKeepsLimit
  <1>15. ASSUME NEW c \in Channels, NEW p \in Procs, UNCHANGED run,
                c \notin LivePipe,
                \A d \in Channels \ {c} : processes'[d] = processes[d],
                \A q \in Procs : (q # p \/ ~FreeProc(p)) => proc'[q].run = proc[q].run
         PROVE Goal
    <2>1. ASSUME NEW d \in LivePipe PROVE Stays(d)
      <3>1. CASE processes[d] = NoProc
        BY <1>3, <1>15, <3>1 DEF Stays
      <3>2. CASE processes[d] # NoProc
        <4>1. processes[d] # p \/ ~FreeProc(p)
          BY <1>2, <3>2 DEF FreeProc
        <4>. QED BY <1>2, <1>15, <3>2, <4>1 DEF Stays
      <3>. QED BY <3>1, <3>2
    <2>. QED BY <1>1, <1>15, <2>1, StayingKeepsLimit
  <1>16. ASSUME NEW c \in Channels, SwitchBegin(c) PROVE Goal
    <2>1. PICK p \in Procs : FreeProc(p) /\ proc' = [proc EXCEPT ![p] = NewProc(c, NoRun, "shadow")]
      BY <1>16 DEF SwitchBegin
    <2>2. \A q \in Procs : q # p => proc'[q].run = proc[q].run
      BY <1>1, <2>1
    <2>3. c \notin LivePipe /\ UNCHANGED <<run, processes>>
      BY <1>16 DEF SwitchBegin, LivePipe
    <2>. QED BY <1>15, <2>1, <2>2, <2>3
  <1>17. ASSUME NEW p \in Procs, SwitchReady(p) PROVE Goal
    <2>1. proc[p].chan \notin LivePipe
      BY <1>1, <1>17 DEF SwitchReady, IInv, CInv, SwitchingMatch, LivePipe
    <2>2. UNCHANGED run /\ \A d \in Channels \ {proc[p].chan} : processes'[d] = processes[d]
      BY <1>1, <1>17 DEF SwitchReady, ProcMap
    <2>3. \A q \in Procs : proc'[q].run = proc[q].run
      BY <1>1, <1>17, SignalEffect DEF SwitchReady
    <2>. QED BY <1>1, <1>15, <2>1, <2>2, <2>3
  <1>18. Goal
    <2>1. TypeOK
      BY <1>1
    <2>. HIDE DEF Goal
    <2>. QED BY <2>1, <1>4, <1>5, <1>6, <1>8, <1>9, <1>11, <1>12, <1>13, <1>14, <1>16, <1>17,
                StepCases
  <1>19. IInv'
    BY <1>1, NextInv
  <1>. QED BY <1>18, <1>19 DEF CapInv

\* On any finite set of channels, with every kind of start, restart, switch and
\* respawn, live channels exceed MAX_FFMPEG_PROCESSES by reconnects alone: what
\* startChannel admitted, and what is still the process it admitted, stays
\* within the limit.
THEOREM FirstLaunchesFit ==
  ASSUME IsFiniteSet(Channels) PROVE Spec => []OnlyReconnectsExceed
  <1>1. Init => CapInv
    <2>1. ASSUME Init PROVE FirstLaunched = {} /\ \A r \in Runs : ~run[r].spawnTimer
      BY <2>1 DEF Init, FirstLaunched, Registered, NewRun
    <2>2. Cardinality({}) = 0
      BY FS_EmptySet
    <2>3. Init => OnlyReconnectsExceed
      <3>. SUFFICES ASSUME Init PROVE OnlyReconnectsExceed
        OBVIOUS
      <3>1. FirstLaunched = {}
        BY <2>1
      <3>2. Cardinality(FirstLaunched) = 0
        BY <2>2, <3>1
      <3>. QED BY <3>2 DEF OnlyReconnectsExceed
    <2>. QED BY <2>1, <2>3, InitInv DEF CapInv
  <1>2. CapInv /\ [Next]_vars => CapInv'
    BY CapNextInv
  <1>3. CapInv => OnlyReconnectsExceed
    BY DEF CapInv
  <1>. QED BY <1>1, <1>2, <1>3, PTL DEF Spec
=============================================================================
