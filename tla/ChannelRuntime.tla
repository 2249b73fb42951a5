--------------------------- MODULE ChannelRuntime ---------------------------
(* The live engine of server.js: the FFmpeg process of each channel, from    *)
(* startChannel through reconnects, restarts and seamless switches to        *)
(* stopChannel.  One JavaScript turn (a handler, a timer, an event callback) *)
(* is one action; what happens between two turns interleaves freely.         *)
EXTENDS Naturals, FiniteSets

CONSTANTS
  Channels,       \* channel ids
  Procs,          \* identities of child processes (reused once gone)
  Runs,           \* identities of startChannel invocations (reused once over)
  NoProc, NoRun,  \* absence of an entry in `processes` / `runControllers`
  Format,         \* [Channels -> {"mpegts", "hls"}]: channel.outputFormat
  Mode,           \* [Channels -> {"live", "vod", "movie"}]
  MovieLoop,      \* channel.movieLoop # false, for movie channels
  Sources,        \* length of channelSources(channel)
  MaxReconnect,   \* maxRetries clamped by startChannel
  MaxFfmpeg,      \* MAX_FFMPEG_PROCESSES, 0 for unlimited
  SpawnOutcomes,  \* what a spawn may do: "ok", "fails" (error event), "invalid"
                  \* (no source, or the argument builder throws)
  MaxDelayed,     \* bound: restarts of one channel asleep at the same time
  MaxDetect       \* bound: source inspections of one channel in flight

Statuses == {"stopped", "starting", "running", "error", "restarting"}
MovieRetries == 2     \* `movieSourceFailCount <= 2`

ASSUME ConstantsAssumption ==
  /\ NoProc \notin Procs
  /\ NoRun \notin Runs
  /\ Format \in [Channels -> {"mpegts", "hls"}]
  /\ Mode \in [Channels -> {"live", "vod", "movie"}]
  /\ MovieLoop \in BOOLEAN
  /\ Sources \in Nat
  /\ MaxReconnect \in Nat
  /\ MaxFfmpeg \in Nat
  /\ SpawnOutcomes \subseteq {"ok", "fails", "invalid"}
  /\ MaxDelayed \in Nat
  /\ MaxDetect \in Nat

VARIABLES
  channels,         \* ids present in the `channels` map
  status,           \* channel.status
  processes,        \* the `processes` map
  shadowProcesses,  \* the `shadowProcesses` map
  runControllers,   \* the `runControllers` map
  run,              \* closure of each startChannel invocation
  proc,             \* the operating-system process behind each child object
  switching,        \* shadows a seamlessSwitchChannel call is waiting for
  delayed,          \* stop-sleep-start restarts in their sleep
  detecting,        \* preDetectSource calls in flight
  armed,            \* 500 ms restart timers armed by preDetectSource
  preDetectDone     \* channel.preDetectDoneAt is set

vars == <<channels, status, processes, shadowProcesses, runControllers, run,
          proc, switching, delayed, detecting, armed, preDetectDone>>

RunType ==
  [chan : Channels, cancelled : BOOLEAN, settled : BOOLEAN,
   outcome : {"pending", "resolved", "rejected"},
   reconnectDone : 0..MaxReconnect, movieFails : Nat,
   spawnTimer : BOOLEAN, readyTimer : BOOLEAN]

\* "alive": running; "signalled": sent SIGTERM, SIGKILL follows; "exited":
\* reaped, its close event still to come; "gone": nothing of it is left.
ProcType ==
  [life : {"alive", "signalled", "exited", "gone"}, chan : Channels,
   run : Runs \cup {NoRun}, kind : {"engine", "bare", "shadow", "manager"},
   code : {0, 1}]

TypeOK ==
  /\ channels \subseteq Channels
  /\ status \in [Channels -> Statuses]
  /\ processes \in [Channels -> Procs \cup {NoProc}]
  /\ shadowProcesses \in [Channels -> Procs \cup {NoProc}]
  /\ runControllers \in [Channels -> Runs \cup {NoRun}]
  /\ run \in [Runs -> RunType]
  /\ proc \in [Procs -> ProcType]
  /\ switching \subseteq Procs
  /\ delayed \in [Channels -> 0..MaxDelayed]
  /\ detecting \in [Channels -> 0..MaxDetect]
  /\ armed \in [Channels -> 0..MaxDetect]
  /\ preDetectDone \in [Channels -> BOOLEAN]

----------------------------------------------------------------------------
(* Helpers *)

Registered(po) == {c \in Channels : po[c] # NoProc}
\* Faulty variant: notices the limit one process late.
AtCapacityLate(po) == MaxFfmpeg > 0 /\ Cardinality(Registered(po)) > MaxFfmpeg
AtCapacity(po) == MaxFfmpeg > 0 /\ Cardinality(Registered(po)) >= MaxFfmpeg

\* Faulty variant: the map entry is not deleted.
UnsetForgotten(m, c) == m
Unset(m, c) == [m EXCEPT ![c] = NoProc]

FreeProc(p) ==
  /\ proc[p].life = "gone"
  /\ p \notin switching
  /\ \A c \in Channels : p # processes[c] /\ p # shadowProcesses[c]

RunOver(r) ==
  /\ run[r].outcome # "pending" /\ ~run[r].spawnTimer /\ ~run[r].readyTimer
  /\ \A c \in Channels : runControllers[c] # r
  /\ \A p \in Procs : proc[p].run = r => proc[p].life = "gone"

NewRun(c) == [chan |-> c, cancelled |-> FALSE, settled |-> FALSE,
              outcome |-> "pending", reconnectDone |-> 0, movieFails |-> 0,
              spawnTimer |-> FALSE, readyTimer |-> FALSE]

NewProc(c, r, kind) ==
  [life |-> "alive", chan |-> c, run |-> r, kind |-> kind, code |-> 0]

\* `if (!settled) { settled = true; resolve() / reject() }`
Settle(rec, how) ==
  IF rec.settled THEN rec
  ELSE [rec EXCEPT !.settled = TRUE,
                   !.outcome = IF @ = "pending" THEN how ELSE @]

\* A promise executor that throws rejects its promise; `settled` stays false.
Throw(rec) == [rec EXCEPT !.outcome = IF @ = "pending" THEN "rejected" ELSE @]

Signal(pr, S) ==
  [p \in Procs |-> IF p \in S /\ pr[p].life = "alive"
                   THEN [pr[p] EXCEPT !.life = "signalled"] ELSE pr[p]]

\* Faulty variant: no readiness interval is armed.
TimedNever(rec) == rec
\* The readiness interval goes with the first spawn of a run (or of a source).
Timed(rec) == [rec EXCEPT !.readyTimer = @ \/ rec.reconnectDone = 0]

----------------------------------------------------------------------------
(* spawnOnce: `rec` is the closure of run r on entry; po, ct, rn and pr are  *)
(* the maps, the other closures and the processes as the caller left them.   *)

SpawnCancelled(r, rec, po, ct, rn, pr) ==
  /\ rec.cancelled \/ rec.chan \notin channels
  /\ run' = [rn EXCEPT ![r] = Settle(rec, "rejected")]
  /\ status' = status /\ processes' = po /\ runControllers' = ct /\ proc' = pr

SpawnInvalid(r, rec, po, ct, rn, pr) ==
  /\ ~rec.cancelled /\ rec.chan \in channels /\ "invalid" \in SpawnOutcomes
  /\ run' = [rn EXCEPT ![r] = Settle(rec, "rejected")]
  /\ status' = [status EXCEPT ![rec.chan] = "error"]
  /\ processes' = po /\ runControllers' = ct /\ proc' = pr

\* The error event of a spawn that failed comes before any other callback.
SpawnFails(r, rec, po, ct, rn, pr) ==
  /\ ~rec.cancelled /\ rec.chan \in channels /\ "fails" \in SpawnOutcomes
  /\ Format[rec.chan] = "mpegts"
  /\ run' = [rn EXCEPT ![r] = Settle(Timed(rec), "rejected")]
  /\ status' = [status EXCEPT ![rec.chan] = "error"]
  /\ processes' = [po EXCEPT ![rec.chan] = NoProc]
  /\ runControllers' = IF rec.settled THEN ct ELSE [ct EXCEPT ![rec.chan] = NoRun]
  /\ proc' = pr

\* With an HLS output stdout is 'ignore', `ffmpeg.stdout.on` throws on null
\* after the child is registered, and no handler is ever attached to it.
SpawnOk(r, rec, po, ct, rn, pr) ==
  /\ ~rec.cancelled /\ rec.chan \in channels /\ "ok" \in SpawnOutcomes
  /\ \E p \in Procs :
       /\ FreeProc(p)
       /\ processes' = [po EXCEPT ![rec.chan] = p]
       /\ proc' = [pr EXCEPT ![p] =
            IF Format[rec.chan] = "mpegts" THEN NewProc(rec.chan, r, "engine")
                                           ELSE NewProc(rec.chan, NoRun, "bare")]
  /\ status' = [status EXCEPT ![rec.chan] = "starting"]
  /\ run' = [rn EXCEPT ![r] =
       IF Format[rec.chan] = "mpegts" THEN Timed(rec) ELSE Throw(Timed(rec))]
  /\ runControllers' = ct

SpawnOnce(r, rec, po, ct, rn, pr) ==
  \/ SpawnCancelled(r, rec, po, ct, rn, pr)
  \/ SpawnInvalid(r, rec, po, ct, rn, pr)
  \/ SpawnFails(r, rec, po, ct, rn, pr)
  \/ SpawnOk(r, rec, po, ct, rn, pr)

\* startChannel(id), from the capacity check to the end of the first turn.
StartChannel(c, r, po, rn, pr) ==
  /\ ~AtCapacity(po) /\ RunOver(r)
  /\ preDetectDone[c] \/ detecting[c] < MaxDetect
  /\ detecting' = IF preDetectDone[c] THEN detecting
                  ELSE [detecting EXCEPT ![c] = @ + 1]
  /\ SpawnOnce(r, NewRun(c), po, [runControllers EXCEPT ![c] = r], rn, pr)

(* stopChannel(id): what it leaves in each variable *)

\* Faulty variant: stopChannel forgets clearTimeout(run.spawnTimer).
StoppedRunsKeepTimers(c) ==
  [r \in Runs |-> IF r = runControllers[c]
                  THEN [run[r] EXCEPT !.cancelled = TRUE] ELSE run[r]]
StoppedRuns(c) ==
  [r \in Runs |-> IF r = runControllers[c]
                  THEN [run[r] EXCEPT !.cancelled = TRUE, !.spawnTimer = FALSE]
                  ELSE run[r]]
\* Faulty variant: stopChannel kills the shadow but not the process.
StoppedProcsShadowOnly(c) == Signal(proc, {shadowProcesses[c]})
StoppedProcs(c) == Signal(proc, {processes[c], shadowProcesses[c]})

StopChannel(c) ==
  /\ status' = [status EXCEPT ![c] = "stopped"]
  /\ processes' = Unset(processes, c)
  /\ shadowProcesses' = Unset(shadowProcesses, c)
  /\ runControllers' = [runControllers EXCEPT ![c] = NoRun]
  /\ run' = StoppedRuns(c)

----------------------------------------------------------------------------
(* Routes and timers that start and stop channels *)

Start(c) ==
  /\ c \in channels /\ status[c] # "running"
  /\ \E r \in Runs : StartChannel(c, r, processes, run, proc)
  /\ UNCHANGED <<channels, shadowProcesses, switching, delayed, armed, preDetectDone>>

Stop(c) ==
  /\ c \in channels
  /\ StopChannel(c) /\ proc' = StoppedProcs(c)
  /\ UNCHANGED <<channels, switching, delayed, detecting, armed, preDetectDone>>

Delete(c) ==
  /\ c \in channels
  /\ StopChannel(c) /\ proc' = StoppedProcs(c)
  /\ channels' = channels \ {c}
  /\ UNCHANGED <<switching, delayed, detecting, armed, preDetectDone>>

\* The restart routes and safeRestartChannel: stop now, start after a sleep.
Restart(c) ==
  /\ c \in channels /\ delayed[c] < MaxDelayed
  /\ StopChannel(c) /\ proc' = StoppedProcs(c)
  /\ delayed' = [delayed EXCEPT ![c] = @ + 1]
  /\ UNCHANGED <<channels, switching, detecting, armed, preDetectDone>>

DelayedStart(c) ==
  /\ delayed[c] > 0
  /\ delayed' = [delayed EXCEPT ![c] = @ - 1]
  /\ \/ \E r \in Runs : StartChannel(c, r, processes, run, proc)
     \/ /\ AtCapacity(processes)
        /\ UNCHANGED <<status, processes, runControllers, run, proc, detecting>>
  /\ UNCHANGED <<channels, shadowProcesses, switching, armed, preDetectDone>>

\* preDetectSource comes back; a source it finds fault with is restarted.
Detected(c) ==
  /\ detecting[c] > 0
  /\ detecting' = [detecting EXCEPT ![c] = @ - 1]
  /\ preDetectDone' = [preDetectDone EXCEPT ![c] = TRUE]
  /\ \/ armed' = armed
     \/ /\ Mode[c] = "live" /\ armed[c] < MaxDetect
        /\ armed' = [armed EXCEPT ![c] = @ + 1]
  /\ UNCHANGED <<channels, status, processes, shadowProcesses, runControllers,
                 run, proc, switching, delayed>>

ArmedRestart(c) ==
  /\ armed[c] > 0
  /\ armed' = [armed EXCEPT ![c] = @ - 1]
  /\ IF c \in channels /\ status[c] = "running"
     THEN /\ shadowProcesses' = Unset(shadowProcesses, c)
          /\ \/ \E r \in Runs : StartChannel(c, r, Unset(processes, c),
                                              StoppedRuns(c), StoppedProcs(c))
             \/ /\ AtCapacity(Unset(processes, c))
                /\ StopChannel(c) /\ proc' = StoppedProcs(c)
                /\ UNCHANGED detecting
     ELSE UNCHANGED <<status, processes, shadowProcesses, runControllers, run,
                      proc, detecting>>
  /\ UNCHANGED <<channels, switching, delayed, preDetectDone>>

----------------------------------------------------------------------------
(* Timers of a run *)

\* waitForPipeMpegts / waitForOutputFile: the output is there, or the last
\* attempt is used up; both end the same way, whatever became of the process.
ReadyTimer(r) ==
  /\ run[r].readyTimer
  /\ run' = [run EXCEPT ![r] = Settle([@ EXCEPT !.readyTimer = FALSE], "resolved")]
  /\ status' = IF run[r].settled THEN status
               ELSE [status EXCEPT ![run[r].chan] = "running"]
  /\ UNCHANGED <<channels, processes, shadowProcesses, runControllers, proc,
                 switching, delayed, detecting, armed, preDetectDone>>

SpawnTimer(r) ==
  /\ run[r].spawnTimer
  /\ SpawnOnce(r, [run[r] EXCEPT !.spawnTimer = FALSE], processes,
               runControllers, run, proc)
  /\ UNCHANGED <<channels, shadowProcesses, switching, delayed, detecting,
                 armed, preDetectDone>>

----------------------------------------------------------------------------
(* Events of a process *)

IsCurrent(p) == processes[proc[p].chan] = p

\* stderr prints "Opening" or "Output #0"
Output(p) ==
  /\ proc[p].kind = "engine" /\ proc[p].life # "gone" /\ IsCurrent(p)
  /\ status' = [status EXCEPT ![proc[p].chan] = "running"]
  /\ UNCHANGED <<channels, processes, shadowProcesses, runControllers, run, proc,
                 switching, delayed, detecting, armed, preDetectDone>>

\* A process ends by itself with code 0 or not; a killed one never with 0.
Exit(p) ==
  /\ \/ proc[p].life = "alive" /\ \E code \in {0, 1} :
          proc' = [proc EXCEPT ![p].life = "exited", ![p].code = code]
     \/ /\ proc[p].life = "signalled"
        /\ proc' = [proc EXCEPT ![p].life = "exited", ![p].code = 1]
  /\ UNCHANGED <<channels, status, processes, shadowProcesses, runControllers,
                 run, switching, delayed, detecting, armed, preDetectDone>>

Gone(p) == proc' = [proc EXCEPT ![p].life = "gone"]

CloseStale(p) ==
  /\ proc[p].kind = "engine" /\ proc[p].life = "exited" /\ ~IsCurrent(p)
  /\ Gone(p)
  /\ LET r == proc[p].run
         c == proc[p].chan
     IN IF run[r].cancelled /\ ~run[r].settled
        THEN /\ run' = [run EXCEPT ![r] = Settle(@, "rejected")]
             /\ runControllers' = IF runControllers[c] = r
                                  THEN [runControllers EXCEPT ![c] = NoRun]
                                  ELSE runControllers
        ELSE UNCHANGED <<run, runControllers>>
  /\ UNCHANGED <<channels, status, processes, shadowProcesses, switching,
                 delayed, detecting, armed, preDetectDone>>

\* What the close handler of the current process decides.  `empty`: the output
\* is shorter than 20 TS packets.

MayReconnect(p) ==
  proc[p].code # 0 /\ run[proc[p].run].reconnectDone < MaxReconnect
MovieFailed(p, empty) ==
  Mode[proc[p].chan] = "movie" /\ (proc[p].code # 0 \/ empty)
MayRetry(p, empty) ==
  MovieFailed(p, empty) /\ run[proc[p].run].movieFails < MovieRetries
FailsAfter(p, empty) ==
  IF MayRetry(p, empty) THEN run[proc[p].run].movieFails + 1 ELSE 0

Verdict(p, empty) ==
  LET c == proc[p].chan
  IN IF status[c] = "stopped" THEN "stopped"
     ELSE IF MayReconnect(p) THEN "reconnect"
     ELSE IF MayRetry(p, empty) THEN "retry"
     ELSE IF proc[p].code # 0 THEN "error"
     ELSE IF Mode[c] = "live" \/ Sources <= 1 THEN "ended"
     ELSE IF Mode[c] = "movie" /\ ~MovieLoop THEN "played"
     ELSE "next"

\* Faulty variant: a reconnect sets the status and schedules no spawn.
RespawningNotReconnect == {"retry", "next"}
\* The verdicts that spawn again after a delay (scheduleSpawn).
Respawning == {"reconnect", "retry", "next"}

\* Faulty variant: the controller is also forgotten on a reconnect.
ConcludingAlways == {"stopped", "error", "ended", "reconnect"}
\* The verdicts after which the run's controller is forgotten.
Concluding == {"stopped", "error", "ended"}

StatusAfter(verdict) ==
  CASE verdict \in {"reconnect", "retry", "next"} -> "starting"
    [] verdict = "error" -> "error"
    [] verdict \in {"stopped", "ended", "played"} -> "stopped"

\* The closure after the close handler ran, given its verdict v.
RunAfter(rec, p, v, empty) ==
  [rec EXCEPT
     !.spawnTimer = @ \/ v \in Respawning,
     !.reconnectDone = IF v = "reconnect" THEN @ + 1
                       ELSE IF v = "next" THEN 0 ELSE @,
     !.movieFails = IF v = "stopped" THEN @
                    ELSE IF v # "reconnect" THEN FailsAfter(p, empty)
                    ELSE IF Mode[rec.chan] = "movie" THEN @ + 1 ELSE @]

CloseCurrent(p, empty) ==
  /\ proc[p].kind = "engine" /\ proc[p].life = "exited" /\ IsCurrent(p)
  /\ Gone(p)
  /\ LET r == proc[p].run
         c == proc[p].chan
         v == Verdict(p, empty)
     IN /\ processes' = Unset(processes, c)
        /\ status' = [status EXCEPT ![c] = StatusAfter(v)]
        /\ run' = [run EXCEPT ![r] = RunAfter(@, p, v, empty)]
        /\ runControllers' = IF v \in Concluding
                             THEN [runControllers EXCEPT ![c] = NoRun]
                             ELSE runControllers
  /\ UNCHANGED <<channels, shadowProcesses, switching, delayed, detecting,
                 armed, preDetectDone>>

\* A shadow keeps only the handler startShadowChannel gave it, also after
\* seamlessSwitchChannel made it the process of the channel.
CloseShadow(p) ==
  /\ proc[p].kind = "shadow" /\ proc[p].life = "exited"
  /\ Gone(p)
  /\ shadowProcesses' = Unset(shadowProcesses, proc[p].chan)
  /\ UNCHANGED <<channels, status, processes, runControllers, run, switching,
                 delayed, detecting, armed, preDetectDone>>

CloseBare(p) ==
  /\ proc[p].kind = "bare" /\ proc[p].life = "exited"
  /\ Gone(p)
  /\ UNCHANGED <<channels, status, processes, shadowProcesses, runControllers,
                 run, switching, delayed, detecting, armed, preDetectDone>>

----------------------------------------------------------------------------
(* restartWithSeamlessIfPossible on a running HLS channel *)

SwitchBegin(c) ==
  /\ c \in channels /\ Format[c] = "hls" /\ status[c] = "running"
  /\ \E p \in Procs :
       /\ FreeProc(p)
       /\ proc' = [proc EXCEPT ![p] = NewProc(c, NoRun, "shadow")]
       /\ shadowProcesses' = [shadowProcesses EXCEPT ![c] = p]
       /\ switching' = switching \cup {p}
  /\ UNCHANGED <<channels, status, processes, runControllers, run, delayed,
                 detecting, armed, preDetectDone>>

\* The playlist of the new slot is there: swap, then kill the old process.
SwitchReady(p) ==
  /\ p \in switching
  /\ switching' = switching \ {p}
  /\ LET c == proc[p].chan
     IN /\ processes' = [processes EXCEPT ![c] = p]
        /\ shadowProcesses' = Unset(shadowProcesses, c)
        /\ proc' = Signal(proc, {processes[c]})
  /\ UNCHANGED <<channels, status, runControllers, run, delayed, detecting,
                 armed, preDetectDone>>

\* No playlist after 12 s: kill the shadow and fall back to safeRestartChannel.
SwitchTimeout(p) ==
  /\ p \in switching
  /\ switching' = switching \ {p}
  /\ LET c == proc[p].chan
     IN /\ delayed[c] < MaxDelayed
        /\ delayed' = [delayed EXCEPT ![c] = @ + 1]
        /\ StopChannel(c)
        /\ proc' = Signal(proc, {p, processes[c], shadowProcesses[c]})
  /\ UNCHANGED <<channels, detecting, armed, preDetectDone>>

----------------------------------------------------------------------------
Init ==
  /\ channels \in SUBSET Channels    \* those the database holds at boot
  /\ status = [c \in Channels |-> "stopped"]
  /\ processes = [c \in Channels |-> NoProc]
  /\ shadowProcesses = [c \in Channels |-> NoProc]
  /\ runControllers = [c \in Channels |-> NoRun]
  /\ \E c0 \in Channels :   \* unused records: any channel will do
       /\ run = [r \in Runs |-> [NewRun(c0) EXCEPT !.outcome = "rejected"]]
       /\ proc = [p \in Procs |-> [NewProc(c0, NoRun, "bare") EXCEPT !.life = "gone"]]
  /\ switching = {}
  /\ delayed = [c \in Channels |-> 0]
  /\ detecting = [c \in Channels |-> 0]
  /\ armed = [c \in Channels |-> 0]
  /\ preDetectDone \in [Channels -> BOOLEAN]

CloseStep(p) ==
  CloseStale(p) \/ (\E empty \in BOOLEAN : CloseCurrent(p, empty))
  \/ CloseShadow(p) \/ CloseBare(p)

Next ==
  \/ \E c \in Channels :
       \/ Start(c) \/ Stop(c) \/ Delete(c) \/ Restart(c)
       \/ DelayedStart(c) \/ Detected(c) \/ ArmedRestart(c) \/ SwitchBegin(c)
  \/ \E r \in Runs : ReadyTimer(r) \/ SpawnTimer(r)
  \/ \E p \in Procs :
       \/ Output(p) \/ Exit(p) \/ CloseStep(p)
       \/ SwitchReady(p) \/ SwitchTimeout(p)

Spec == Init /\ [][Next]_vars

----------------------------------------------------------------------------
(* Properties *)

\* A run that stopChannel cancelled can never come back: none of its spawn
\* timers survives, no close handler can reach it as the current run, and no
\* map entry leads to it.
CancelledRunsInert ==
  \A r \in Runs : run[r].cancelled =>
    /\ ~run[r].spawnTimer
    /\ \A c \in Channels : runControllers[c] # r
    /\ \A p \in Procs : proc[p].kind = "engine" /\ proc[p].life # "gone"
                        /\ proc[p].run = r => ~IsCurrent(p)

\* processes.size counts real processes: the entry of an MPEG-TS channel is an
\* unsignalled child of that channel whose close handler is still to run.
PipeEntriesAreLive ==
  \A c \in Channels : Format[c] = "mpegts" /\ processes[c] # NoProc =>
    /\ proc[processes[c]].chan = c
    /\ proc[processes[c]].kind = "engine"
    /\ proc[processes[c]].life \in {"alive", "exited"}

\* A channel shown as starting really has something under way that will change
\* that: a registered process or an armed spawn timer.
StartingIsUnderWay ==
  \A c \in Channels : status[c] = "starting" =>
    processes[c] # NoProc \/ \E r \in Runs : run[r].chan = c /\ run[r].spawnTimer

\* Live MPEG-TS channels whose process is the first of its start.
FirstLaunched ==
  {c \in Registered(processes) : /\ Format[c] = "mpegts" /\ Mode[c] = "live"
                                 /\ run[proc[processes[c]].run].reconnectDone = 0}

\* Nothing but reconnects takes live channels over MAX_FFMPEG_PROCESSES: however
\* starts, restarts and stops fall between the death of a process and its
\* respawn, which looks at no limit, the channels served by the first process
\* of their start stay within it.
OnlyReconnectsExceed == MaxFfmpeg > 0 => Cardinality(FirstLaunched) <= MaxFfmpeg

\* Disagreement: The registered processes stay within MAX_FFMPEG_PROCESSES: it is set
\* as "max_processes", "0 = unlimited" (server.js:2060).  A channel that waits to
\* reconnect holds no place, and comes back past the channel admitted meanwhile.
CapacityHeld == MaxFfmpeg > 0 => Cardinality(Registered(processes)) <= MaxFfmpeg

\* shadowProcesses names only children of the channel whose close handler will
\* still clear the entry, also when two switches of one channel overlap.
ShadowEntriesAreLive ==
  \A c \in Channels : shadowProcesses[c] # NoProc =>
    /\ proc[shadowProcesses[c]].chan = c
    /\ proc[shadowProcesses[c]].kind = "shadow"
    /\ proc[shadowProcesses[c]].life # "gone"

\* A movie is retried on the same source at most MovieRetries times beyond the
\* reconnects the channel is configured for, however failures and empty outputs
\* alternate: the failure counter never runs ahead of that.
MovieRetryBudget ==
  \A r \in Runs : run[r].movieFails <= MovieRetries + run[r].reconnectDone

\* stopChannel leaves no FFmpeg of the channel running: each one is gone or
\* has been sent SIGTERM.
StopLeavesNothing ==
  [][\A c \in Channels : Stop(c) =>
       \A p \in Procs : proc'[p].chan = c => proc'[p].life # "alive"]_vars

\* A start that reports failure has not just launched an FFmpeg it leaves behind.
RejectedStartLeavesNothing ==
  [][\A r \in Runs :
       (run[r].outcome # "rejected" \/ RunOver(r)) /\ run'[r].outcome = "rejected"
         => ~\E p \in Procs : proc[p].life = "gone" /\ proc'[p].life = "alive"
                              /\ proc'[p].chan = run'[r].chan]_vars

\* No running FFmpeg is unknown to the panel.
NoOrphan ==
  \A p \in Procs : proc[p].life = "alive" =>
    \E c \in Channels : p \in {processes[c], shadowProcesses[c]}

\* Every startChannel promise settles: the readiness interval ends it when
\* neither output, nor an error, nor a stop does.
StartSettles == \A r \in Runs : run[r].outcome = "pending" ~> run[r].outcome # "pending"
=============================================================================
