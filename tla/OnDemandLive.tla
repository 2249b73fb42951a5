---------------------------- MODULE OnDemandLive ----------------------------
(* lib/on-demand-live.js on top of the engine: playback requests that find   *)
(* their channel down start it, and requests that arrive meanwhile join that *)
(* start.  The await continuations run as microtasks, before any other turn. *)
EXTENDS ChannelRuntime

CONSTANTS
  Callers,       \* requests inside ensureChannelStarted
  Administrators \* TRUE: start and restart routes and stability fixes act too

ASSUME AdministratorsAssumption == Administrators \in BOOLEAN

VARIABLES
  pendingStarts, \* the `pendingStarts` map: the run whose promise is shared
  caller         \* where each request is, and for which channel

odVars == <<vars, pendingStarts, caller>>

\* "joined" and "owner" await the shared promise, "waiting" polls the status.
Places == {"idle", "joined", "owner", "waiting", "ready", "failed"}

OdTypeOK ==
  /\ TypeOK
  /\ pendingStarts \in [Channels -> Runs \cup {NoRun}]
  /\ caller \in [Callers -> [at : Places, chan : Channels]]

Goto(v, c, place) == caller' = [caller EXCEPT ![v] = [at |-> place, chan |-> c]]

----------------------------------------------------------------------------
(* ensureChannelStarted, up to its first await *)

Join(v, c) ==
  /\ caller[v].at = "idle" /\ c \in channels
  /\ pendingStarts[c] # NoRun
  /\ Goto(v, c, "joined")
  /\ UNCHANGED <<vars, pendingStarts>>

AlreadyRunning(v, c) ==
  /\ caller[v].at = "idle" /\ c \in channels
  /\ pendingStarts[c] = NoRun /\ status[c] = "running"
  /\ Goto(v, c, "ready")
  /\ UNCHANGED <<vars, pendingStarts>>

Wait(v, c) ==
  /\ caller[v].at = "idle" /\ c \in channels
  /\ pendingStarts[c] = NoRun /\ status[c] # "running"
  /\ status[c] = "starting" \/ processes[c] # NoProc
  /\ Goto(v, c, "waiting")
  /\ UNCHANGED <<vars, pendingStarts>>

\* Faulty variant: a channel in starting without a process is started again.
MustStartWhileStarting(c) ==
  /\ c \in channels /\ pendingStarts[c] = NoRun
  /\ status[c] # "running" /\ processes[c] = NoProc
MustStart(c) ==
  /\ c \in channels /\ pendingStarts[c] = NoRun
  /\ status[c] \notin {"running", "starting"} /\ processes[c] = NoProc

EnsureStart(v, c) ==
  /\ caller[v].at = "idle" /\ MustStart(c)
  /\ \E r \in Runs :
       /\ StartChannel(c, r, processes, run, proc)
       /\ pendingStarts' = [pendingStarts EXCEPT ![c] = r]
  /\ Goto(v, c, "owner")
  /\ UNCHANGED <<channels, shadowProcesses, switching, delayed, armed, preDetectDone>>

Refused(v, c) ==
  /\ caller[v].at = "idle" /\ MustStart(c) /\ AtCapacity(processes)
  /\ Goto(v, c, "failed")
  /\ UNCHANGED <<vars, pendingStarts>>

----------------------------------------------------------------------------
(* After the await *)

\* The promise of the shared start settled: its map entry goes, and whoever
\* awaited it looks at the status it left.
Settled(c) == pendingStarts[c] # NoRun /\ run[pendingStarts[c]].outcome # "pending"

AfterStart(place, c) ==
  IF run[pendingStarts[c]].outcome = "rejected" \/ c \notin channels THEN "failed"
  ELSE IF status[c] = "running" THEN "ready"
  ELSE IF place = "owner" /\ status[c] = "starting" THEN "waiting" ELSE "failed"

Continue(c) ==
  /\ Settled(c)
  /\ pendingStarts' = [pendingStarts EXCEPT ![c] = NoRun]
  /\ caller' = [v \in Callers |->
       IF caller[v].chan = c /\ caller[v].at \in {"owner", "joined"}
       THEN [caller[v] EXCEPT !.at = AfterStart(@, c)] ELSE caller[v]]
  /\ UNCHANGED vars

\* waitUntilRunningOrError: one poll, or the deadline; a channel deleted
\* meanwhile makes a poll return without an error.
Poll(v) ==
  LET c == caller[v].chan
  IN /\ caller[v].at = "waiting"
     /\ c \notin channels \/ status[c] \in {"running", "error"}
     /\ Goto(v, c, IF c \in channels /\ status[c] = "error" THEN "failed" ELSE "ready")
     /\ UNCHANGED <<vars, pendingStarts>>

\* Faulty variant: the poll loop has no deadline.
DeadlineNever(v) == caller[v].at = "waiting" /\ FALSE /\ UNCHANGED odVars
Deadline(v) ==
  LET c == caller[v].chan
  IN /\ caller[v].at = "waiting"
     /\ Goto(v, c, IF status[c] = "running" /\ c \in channels THEN "ready" ELSE "failed")
     /\ UNCHANGED <<vars, pendingStarts>>

Leave(v) ==
  /\ caller[v].at \in {"ready", "failed"}
  /\ Goto(v, caller[v].chan, "idle")
  /\ UNCHANGED <<vars, pendingStarts>>

----------------------------------------------------------------------------
OdInit ==
  /\ Init
  /\ pendingStarts = [c \in Channels |-> NoRun]
  /\ \E c0 \in Channels : caller = [v \in Callers |-> [at |-> "idle", chan |-> c0]]

\* What else acts on the channels: idle stops (and the stop and delete routes),
\* source inspections, timers and the processes themselves.
EngineStep ==
  \/ \E c \in Channels : Stop(c) \/ Delete(c) \/ Detected(c) \/ ArmedRestart(c)
  \/ \E c \in Channels : Administrators /\ (Start(c) \/ Restart(c) \/ DelayedStart(c))
  \/ \E r \in Runs : ReadyTimer(r) \/ SpawnTimer(r)
  \/ \E p \in Procs : Output(p) \/ Exit(p) \/ CloseStep(p)

Turn ==
  \/ EngineStep /\ UNCHANGED <<pendingStarts, caller>>
  \/ \E v \in Callers, c \in Channels :
       Join(v, c) \/ AlreadyRunning(v, c) \/ Wait(v, c) \/ EnsureStart(v, c) \/ Refused(v, c)
  \/ \E v \in Callers : Poll(v) \/ Deadline(v) \/ Leave(v)

OdNext ==
  \/ \E c \in Channels : Continue(c)
  \/ (\A c \in Channels : ~Settled(c)) /\ Turn

OdSpec == OdInit /\ [][OdNext]_odVars

\* Every timer fires, every await of a settled promise continues, and a poll
\* loop reaches its deadline; nothing makes a process end, print or be watched.
OdFairness ==
  /\ \A c \in Channels : WF_odVars(Continue(c))
  /\ \A r \in Runs : WF_odVars(ReadyTimer(r) /\ UNCHANGED <<pendingStarts, caller>>)
  /\ \A v \in Callers : WF_odVars(Deadline(v))

OdFairSpec == OdSpec /\ OdFairness

----------------------------------------------------------------------------
(* Properties *)

\* The processes of channel c in one stage of their life.
OfChannel(c, life) == {p \in Procs : proc[p].chan = c /\ proc[p].life = life}

Slot == INSTANCE EngineSlot WITH
  working <- [c \in Channels |-> Cardinality(OfChannel(c, "alive"))],
  fading <- [c \in Channels |-> Cardinality(OfChannel(c, "signalled"))]

\* With on-demand requests as the only starters a channel never has two FFmpeg
\* at work, and the next is launched only when none is or in the turn that
\* dismisses it: the processes implement EngineSlot.
OneEngine == Slot!SlotSpec

\* A retry can always be called off: every armed spawn timer belongs to the run
\* stopChannel would find under its channel and cancel.
EveryTimerCancellable ==
  \A r \in Runs : run[r].spawnTimer => runControllers[run[r].chan] = r

\* A request told "ready" finds a process behind its channel.
ReadyMeansProcess ==
  [][\A v \in Callers :
       caller[v].at # "ready" /\ caller'[v].at = "ready" /\ caller'[v].chan \in channels
         => processes[caller'[v].chan] # NoProc]_odVars

\* Every request is answered.
RequestsAnswered ==
  \A v \in Callers : caller[v].at \in {"joined", "owner", "waiting"}
                       ~> caller[v].at \in {"ready", "failed"}
=============================================================================
