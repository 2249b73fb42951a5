------------------------------ MODULE TsFanout ------------------------------
(* MPEG-TS fan-out of one on-demand channel (server.js): attachMpegTsClient, *)
(* the broadcast FFmpeg writes into, and the idle timer that stops a channel *)
(* its viewers left.  Requests are suspended at the start of the channel and *)
(* at the prebuffer, and only after both do they listen for the connection   *)
(* to close.  The engine is reduced to the status ChannelRuntime gives it.   *)
EXTENDS Naturals, FiniteSets

CONSTANTS
  Clients,      \* HTTP requests for the channel's stream (reused when over)
  Broadcasts,   \* identities of broadcast objects (reused when unreachable)
  NoBroadcast,
  Timers,       \* bound: idle timers armed at the same time
  NoTimer,
  Prebuffer     \* isPrebufferEnabled() and a positive on-demand minimum

ASSUME FanoutAssumption ==
  /\ NoBroadcast \notin Broadcasts
  /\ NoTimer \notin Timers
  /\ Prebuffer \in BOOLEAN

VARIABLES
  status,       \* channel.status; "down" stands for stopped and error
  tsBroadcast,  \* tsBroadcasts.get(id)
  broadcast,    \* the broadcast objects
  armed,        \* idle timers that have neither fired nor been cleared
  client        \* where each request is, and which broadcast it holds

fanVars == <<status, tsBroadcast, broadcast, armed, client>>

\* stray: a consumer was added for a connection that had closed already, so
\* no close event will take it out.  abandoned: history, a consumer has left.
BroadcastType ==
  [consumers : SUBSET Clients, stray : BOOLEAN,
   idleTimer : Timers \cup {NoTimer}, abandoned : BOOLEAN]

\* gone: the connection closed while no close listener was registered.
ClientType ==
  [at : {"away", "ensuring", "prebuffering", "attached"},
   of : Broadcasts \cup {NoBroadcast}, gone : BOOLEAN]

FanTypeOK ==
  /\ status \in {"down", "starting", "running"}
  /\ tsBroadcast \in Broadcasts \cup {NoBroadcast}
  /\ broadcast \in [Broadcasts -> BroadcastType]
  /\ armed \subseteq Timers
  /\ client \in [Clients -> ClientType]

Fresh == [consumers |-> {}, stray |-> FALSE, idleTimer |-> NoTimer, abandoned |-> FALSE]
Away == [at |-> "away", of |-> NoBroadcast, gone |-> FALSE]

Unwatched(b) == broadcast[b].consumers = {} /\ ~broadcast[b].stray

----------------------------------------------------------------------------
(* Helpers *)

\* What a broadcast out of the map remembers beyond its consumers is not read
\* again, so it is dropped here and not written by Close.
Emptied ==
  [b \in Broadcasts |-> IF b = tsBroadcast THEN Fresh ELSE broadcast[b]]

\* ensureTsBroadcast: the broadcast in the map, or a new one put there.
Ensured(b) ==
  IF tsBroadcast # NoBroadcast THEN b = tsBroadcast
  ELSE b \in Broadcasts /\ \A v \in Clients : client[v].of # b

WithEnsured(b) ==
  IF tsBroadcast # NoBroadcast THEN broadcast ELSE [broadcast EXCEPT ![b] = Fresh]

\* Faulty variant: the broadcast stays in the map, emptied.
StopKeepsBroadcast ==
  /\ status' = "down"
  /\ broadcast' = Emptied
  /\ UNCHANGED <<tsBroadcast, client>>
\* stopChannel: consumers destroyed and cleared, map entry deleted.  A response
\* is not ended by that: its request stays until its client gives up.
StopChannel ==
  /\ status' = "down"
  /\ broadcast' = Emptied
  /\ tsBroadcast' = NoBroadcast
  /\ UNCHANGED client

----------------------------------------------------------------------------
(* A request, from its arrival to the registration of its close listener *)

\* Faulty variant: the idle timer is called off before the start is known to succeed.
RequestClearsTimer(v) ==
  /\ client[v].at = "away"
  /\ client' = [client EXCEPT ![v].at = "ensuring"]
  /\ armed' = IF tsBroadcast = NoBroadcast THEN armed ELSE armed \ {broadcast[tsBroadcast].idleTimer}
  /\ IF status # "down" THEN UNCHANGED <<status, tsBroadcast, broadcast>>
     ELSE /\ status' = "starting"
          /\ \E b \in Broadcasts : Ensured(b) /\ tsBroadcast' = b /\ broadcast' = WithEnsured(b)
\* Faulty variant: only an attaching client creates the broadcast.
RequestWithoutBroadcast(v) ==
  /\ client[v].at = "away"
  /\ client' = [client EXCEPT ![v].at = "ensuring"]
  /\ status' = IF status = "down" THEN "starting" ELSE status
  /\ UNCHANGED <<tsBroadcast, broadcast, armed>>
\* ensureOnDemandStreamIfNeeded; spawnOnce ensures the broadcast.
Request(v) ==
  /\ client[v].at = "away"
  /\ client' = [client EXCEPT ![v].at = "ensuring"]
  /\ IF status # "down" THEN UNCHANGED <<status, tsBroadcast, broadcast>>
     ELSE /\ status' = "starting"
          /\ \E b \in Broadcasts : Ensured(b) /\ tsBroadcast' = b /\ broadcast' = WithEnsured(b)
  /\ UNCHANGED armed

\* The start failed, was stopped, or took longer than ON_DEMAND_START_WAIT_MS.
Refuse(v) ==
  /\ client[v].at = "ensuring" /\ status # "running"
  /\ client' = [client EXCEPT ![v] = Away]
  /\ UNCHANGED <<status, tsBroadcast, broadcast, armed>>

\* b.consumers.add and req.on('close'), with b the broadcast held since before
\* the prebuffer; nobody hears of a connection that has closed already.
Register(v, b, records) ==
  IF client[v].gone
  THEN /\ broadcast' = [records EXCEPT ![b].stray = TRUE]
       /\ client' = [client EXCEPT ![v] = Away]
  ELSE /\ broadcast' = [records EXCEPT ![b].consumers = @ \cup {v}]
       /\ client' = [client EXCEPT ![v] = [at |-> "attached", of |-> b, gone |-> FALSE]]

Attach(v) ==
  /\ client[v].at = "ensuring" /\ status = "running"
  /\ \E b \in Broadcasts :
       /\ Ensured(b)
       /\ tsBroadcast' = b
       /\ LET timer == WithEnsured(b)[b].idleTimer
              cleared == [WithEnsured(b) EXCEPT ![b].idleTimer = NoTimer]
          IN /\ armed' = armed \ {timer}
             /\ IF Prebuffer
                THEN /\ client' = [client EXCEPT ![v].at = "prebuffering", ![v].of = b]
                     /\ broadcast' = cleared
                ELSE Register(v, b, cleared)
  /\ UNCHANGED status

\* waitForPrebuffer: enough bytes, or its deadline.
Prebuffered(v) ==
  /\ client[v].at = "prebuffering"
  /\ Register(v, client[v].of, broadcast)
  /\ UNCHANGED <<status, tsBroadcast, armed>>

----------------------------------------------------------------------------
(* The connection closes *)

\* The client goes away while its request is suspended.
CloseUnheard(v) ==
  /\ client[v].at \in {"ensuring", "prebuffering"} /\ ~client[v].gone
  /\ client' = [client EXCEPT ![v].gone = TRUE]
  /\ UNCHANGED <<status, tsBroadcast, broadcast, armed>>

\* The close listener.  It looks at the broadcast it was registered with, and
\* overwrites the handle of an idle timer that is armed already.
Close(v) ==
  /\ client[v].at = "attached"
  /\ client' = [client EXCEPT ![v] = Away]
  /\ LET b == client[v].of
         rest == broadcast[b].consumers \ {v}
     IN IF rest = {} /\ ~broadcast[b].stray
        THEN \E t \in Timers \ armed :
               /\ armed' = armed \cup {t}
               /\ broadcast' = [broadcast EXCEPT ![b] =
                    IF b = tsBroadcast
                    THEN [Fresh EXCEPT !.idleTimer = t, !.abandoned = TRUE] ELSE Fresh]
        ELSE /\ broadcast' = [broadcast EXCEPT ![b].consumers = rest]
             /\ UNCHANGED armed
  /\ UNCHANGED <<status, tsBroadcast>>

\* Clearing a timer that has fired does nothing, so its handle is dropped.
Expire(t) ==
  [b \in Broadcasts |-> IF broadcast[b].idleTimer = t
                        THEN [broadcast[b] EXCEPT !.idleTimer = NoTimer] ELSE broadcast[b]]

\* Faulty variant: like the HLS sweep, it stops running channels only.
IdleTimerWhenRunning(t) ==
  /\ t \in armed /\ armed' = armed \ {t}
  /\ IF tsBroadcast # NoBroadcast /\ Unwatched(tsBroadcast) /\ status = "running"
     THEN StopChannel
     ELSE /\ broadcast' = Expire(t)
          /\ UNCHANGED <<status, tsBroadcast, client>>
\* The 30 s timer: it looks the broadcast of the channel up afresh.
IdleTimer(t) ==
  /\ t \in armed /\ armed' = armed \ {t}
  /\ IF tsBroadcast # NoBroadcast /\ Unwatched(tsBroadcast)
     THEN StopChannel
     ELSE /\ broadcast' = Expire(t)
          /\ UNCHANGED <<status, tsBroadcast, client>>

----------------------------------------------------------------------------
(* What the engine does on its own *)

\* Output, or the readiness timer of startChannel.
Ready ==
  /\ status = "starting"
  /\ status' = "running"
  /\ UNCHANGED <<tsBroadcast, broadcast, armed, client>>

\* FFmpeg ended and is to be started again, or is given up; either way the
\* broadcast stays where it is.
Falter ==
  /\ status = "running" /\ status' = "starting"
  /\ UNCHANGED <<tsBroadcast, broadcast, armed, client>>

GiveUp ==
  /\ status # "down" /\ status' = "down"
  /\ UNCHANGED <<tsBroadcast, broadcast, armed, client>>

\* The stop route, or the stop of a restart.
Stop ==
  /\ status # "down"
  /\ StopChannel
  /\ UNCHANGED armed

----------------------------------------------------------------------------
FanInit ==
  /\ status = "down"
  /\ tsBroadcast = NoBroadcast
  /\ broadcast = [b \in Broadcasts |-> Fresh]
  /\ armed = {}
  /\ client = [v \in Clients |-> Away]

FanNext ==
  \/ \E v \in Clients :
       Request(v) \/ Refuse(v) \/ Attach(v) \/ Prebuffered(v) \/ CloseUnheard(v) \/ Close(v)
  \/ \E t \in Timers : IdleTimer(t)
  \/ Ready \/ Falter \/ GiveUp \/ Stop

FanSpec == FanInit /\ [][FanNext]_fanVars

\* Every timer fires and every suspended request resumes; nobody is made to
\* come or leave, and FFmpeg does as it likes.
FanFairness ==
  /\ \A t \in Timers : WF_fanVars(IdleTimer(t))
  /\ \A v \in Clients : WF_fanVars(Refuse(v) \/ Attach(v)) /\ WF_fanVars(Prebuffered(v))

FanFairSpec == FanSpec /\ FanFairness

----------------------------------------------------------------------------
(* Properties *)

\* FFmpeg's output always has a taker: a channel that is starting or running
\* has a broadcast in the map, through stops, idle kills and new starts.
OutputHasTaker == status # "down" => tsBroadcast # NoBroadcast

\* A viewer whose broadcast is the channel's is fed by it, and a broadcast
\* feeds nobody but the viewers that hold it.
ViewersAreFed ==
  \A b \in Broadcasts : b = tsBroadcast =>
    broadcast[b].consumers = {v \in Clients : client[v].at = "attached" /\ client[v].of = b}

\* Somebody is between taking the broadcast and joining its consumers.
Joining(b) == \E v \in Clients : client[v].at = "prebuffering" /\ client[v].of = b

\* The idle timer is never lost: a broadcast that its viewers left, and that
\* nobody is joining, has its timer armed, whatever cleared, fired or
\* overwrote the timers meanwhile.
IdleIsTimed ==
  \A b \in Broadcasts :
    b = tsBroadcast /\ broadcast[b].abandoned /\ Unwatched(b) /\ ~Joining(b)
      => broadcast[b].idleTimer \in armed

\* A broadcast its viewers left is taken down or joined again.
AbandonedIsReaped ==
  \A b \in Broadcasts :
    (tsBroadcast = b /\ broadcast[b].abandoned /\ Unwatched(b) /\ ~Joining(b))
      ~> (tsBroadcast # b \/ ~Unwatched(b) \/ Joining(b))

\* A channel none of whose viewers is connected is stopped, or gets a viewer.
\* The code leaks the consumer of a viewer that leaves while its request waits
\* for the start or the prebuffer, and then never stops the channel.
Connected(v) == client[v].at # "away" /\ ~client[v].gone
StoppedWhenViewersDisappear ==
  (\A v \in Clients : ~Connected(v)) ~> (status = "down" \/ \E v \in Clients : Connected(v))
=============================================================================
