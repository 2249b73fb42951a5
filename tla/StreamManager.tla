--------------------------- MODULE StreamManager ---------------------------
(* services/streamManager.js beside the engine: its health loop, its crash   *)
(* recovery and the second startChannel that recovery uses, on the maps of   *)
(* lib/state.js that the engine in server.js owns.                           *)
EXTENDS ChannelRuntime

CONSTANTS
  RetryLimit,    \* CONFIG.MAX_RETRY_LIMIT
  MaxCooldowns   \* bound: recovery timers of one channel pending at once

ASSUME ManagerAssumption == RetryLimit \in Nat \ {0} /\ MaxCooldowns \in Nat

VARIABLES
  retries,    \* streamMetadata[c].retries, counted up to RetryLimit
  cooldowns,  \* recovery timers pending (meta.cooldownTimer keeps the last)
  down        \* an uncaught exception shut the panel down

managerVars == <<retries, cooldowns, down>>
smVars == <<vars, managerVars>>

SmTypeOK ==
  /\ TypeOK
  /\ retries \in [Channels -> 0..RetryLimit]
  /\ cooldowns \in [Channels -> 0..MaxCooldowns]
  /\ down \in BOOLEAN

Bumped(c) == IF retries[c] < RetryLimit THEN retries[c] + 1 ELSE RetryLimit
GivesUp(c) == Bumped(c) = RetryLimit

\* The status handleCrashRecovery leaves: given up, or to be started again.
AfterCrash(c) == IF GivesUp(c) THEN "error" ELSE "restarting"

\* handleCrashRecovery for the channels of C: one more retry each, and unless
\* the limit is reached a new start after the cooldown.
CrashRecovery(C) ==
  /\ \A c \in C : GivesUp(c) \/ cooldowns[c] < MaxCooldowns
  /\ retries' = [c \in Channels |-> IF c \in C THEN Bumped(c) ELSE retries[c]]
  /\ cooldowns' = [c \in Channels |->
       IF c \in C /\ ~GivesUp(c) THEN cooldowns[c] + 1 ELSE cooldowns[c]]
  /\ status' = [c \in Channels |->
       IF c \in C THEN AfterCrash(c) ELSE status[c]]

\* Faulty variant: only exited processes count as vanished.
VanishedExitedOnly == {c \in Registered(processes) : proc[processes[c]].life = "exited"}
\* Entries whose pid no longer exists.
Vanished == {c \in Registered(processes) : proc[processes[c]].life \in {"exited", "gone"}}

\* One pass of the health loop.
HealthCheck ==
  /\ Vanished # {}
  /\ processes' = [c \in Channels |-> IF c \in Vanished THEN NoProc ELSE processes[c]]
  /\ CrashRecovery(Vanished \cap channels)
  /\ UNCHANGED <<channels, shadowProcesses, runControllers, run, proc, switching,
                 delayed, detecting, armed, preDetectDone, down>>

\* The cooldown timer calls this module's own startChannel, which knows neither
\* stops nor deletions nor MAX_FFMPEG_PROCESSES, only the `processes` map.
Recover(c) ==
  /\ cooldowns[c] > 0
  /\ cooldowns' = [cooldowns EXCEPT ![c] = @ - 1]
  /\ \/ /\ processes[c] # NoProc
        /\ UNCHANGED <<channels, status, processes, proc>>
     \/ /\ processes[c] = NoProc /\ "invalid" \in SpawnOutcomes
        /\ channels' = channels \cup {c}
        /\ status' = [status EXCEPT ![c] = "error"]
        /\ UNCHANGED <<processes, proc>>
     \/ /\ processes[c] = NoProc
        /\ channels' = channels \cup {c}
        /\ status' = [status EXCEPT ![c] = "running"]
        /\ \E p \in Procs, outcome \in SpawnOutcomes \ {"invalid"} :
             /\ FreeProc(p)
             /\ processes' = [processes EXCEPT ![c] = p]
             /\ proc' = [proc EXCEPT ![p] =
                  [NewProc(c, NoRun, "manager") EXCEPT
                     !.life = IF outcome = "ok" THEN "alive" ELSE "gone"]]
  /\ UNCHANGED <<shadowProcesses, runControllers, run, switching, delayed,
                 detecting, armed, preDetectDone, retries, down>>

\* The exit handler of a process launched by Recover.  FFmpeg answers SIGTERM
\* by exiting with a code, SIGKILL leaves a signal; only a signal is graceful.
\* It deletes the channel's entry, whichever process that names by now, and
\* throws when the channel has been deleted meanwhile.
ManagedExit(p) ==
  /\ proc[p].kind = "manager" /\ proc[p].life \in {"alive", "signalled"}
  /\ LET c == proc[p].chan
     IN /\ processes' = Unset(processes, c)
        /\ \/ /\ proc[p].life = "signalled"
              /\ retries' = [retries EXCEPT ![c] = 0]
              /\ UNCHANGED <<status, cooldowns, down>>
           \/ /\ c \in channels /\ CrashRecovery({c}) /\ UNCHANGED down
           \/ /\ c \notin channels /\ down' = TRUE
              /\ UNCHANGED <<status, retries, cooldowns>>
  /\ Gone(p)
  /\ UNCHANGED <<channels, shadowProcesses, runControllers, run, switching,
                 delayed, detecting, armed, preDetectDone>>

----------------------------------------------------------------------------
SmInit ==
  /\ Init
  /\ retries = [c \in Channels |-> 0]
  /\ cooldowns = [c \in Channels |-> 0]
  /\ down = FALSE

ManagerStep ==
  HealthCheck \/ (\E c \in Channels : Recover(c)) \/ (\E p \in Procs : ManagedExit(p))

RuntimeStep ==
  \/ \E c \in Channels :
       \/ Start(c) \/ Stop(c) \/ Delete(c) \/ Restart(c)
       \/ DelayedStart(c) \/ Detected(c) \/ ArmedRestart(c) \/ SwitchBegin(c)
  \/ \E r \in Runs : ReadyTimer(r) \/ SpawnTimer(r)
  \/ \E p \in Procs :
       \/ Output(p) \/ (proc[p].kind # "manager" /\ Exit(p)) \/ CloseStep(p)
       \/ SwitchReady(p) \/ SwitchTimeout(p)

SmNext == ~down /\ (ManagerStep \/ (RuntimeStep /\ UNCHANGED managerVars))

SmSpec == SmInit /\ [][SmNext]_smVars

\* The health loop is an interval, a cooldown a timer of the event loop.
SmFairSpec ==
  /\ SmSpec
  /\ WF_smVars(~down /\ HealthCheck)
  /\ \A c \in Channels : WF_smVars(~down /\ Recover(c) /\ UNCHANGED <<retries, down>>)

----------------------------------------------------------------------------
(* Properties *)

\* The health loop frees every map entry of a process that died without a
\* handler of its own: no phantom holds a slot for good.
Phantom(c) == processes[c] # NoProc /\ proc[processes[c]].life = "gone"
PhantomsCleared == \A c \in Channels : Phantom(c) ~> (~Phantom(c) \/ down)
=============================================================================
