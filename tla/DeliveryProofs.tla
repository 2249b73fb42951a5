--------------------------- MODULE DeliveryProofs ---------------------------
(* What viewers are given: the fan-out of a channel, for any number of        *)
(* requests, broadcasts and timers; the lists of a line, for any number of    *)
(* channels, titles, bouquets and edits and any size of a batch; and the      *)
(* delayed playlist, for any times the options admit.                         *)
EXTENDS TsFanout, Listing, HlsDelay, FiniteSetTheorems, SequenceTheorems,
        WellFoundedInduction, TLAPS

----------------------------------------------------------------------------
(* The fan-out                                                               *)

\* The requests past ensureTsBroadcast are those that hold a broadcast.
HoldersHaveIt ==
  \A v \in Clients : client[v].at \in {"away", "ensuring"} <=> client[v].of = NoBroadcast

\* The inductive invariant: ViewersAreFed needs that a broadcast new in the map
\* is held by no request, and IdleIsTimed that its record is fresh.
FanInv ==
  /\ FanTypeOK
  /\ HoldersHaveIt
  /\ OutputHasTaker
  /\ ViewersAreFed
  /\ IdleIsTimed

USE FanoutAssumption

\* What a helper gives, used by several steps.
LEMMA EnsuredFacts ==
  ASSUME FanTypeOK, NEW b \in Broadcasts, Ensured(b)
  PROVE  /\ b # NoBroadcast
         /\ WithEnsured(b) \in [Broadcasts -> BroadcastType]
         /\ tsBroadcast # NoBroadcast => b = tsBroadcast /\ WithEnsured(b) = broadcast
         /\ tsBroadcast = NoBroadcast =>
              /\ WithEnsured(b)[b] = Fresh
              /\ \A v \in Clients : client[v].of # b
BY DEF FanTypeOK, Ensured, WithEnsured, Fresh, BroadcastType

\* Nothing is started, taken or armed at first.
LEMMA InitHolds == FanInit => FanInv
BY DEF FanInit, FanInv, FanTypeOK, HoldersHaveIt, OutputHasTaker, ViewersAreFed,
       IdleIsTimed, Fresh, Away, BroadcastType, ClientType

\* A request that starts the channel puts a fresh broadcast in the map, one that
\* no other request holds and that no viewer has left.
LEMMA RequestKeeps ==
  ASSUME FanInv, NEW v \in Clients, Request(v)
  PROVE  FanInv'
<1>1. CASE status # "down"
  BY <1>1 DEF FanInv, FanTypeOK, HoldersHaveIt, OutputHasTaker, ViewersAreFed,
     IdleIsTimed, Unwatched, Joining, Request, ClientType
<1>2. CASE status = "down"
  <2>1. PICK b \in Broadcasts :
          /\ Ensured(b) /\ tsBroadcast' = b /\ broadcast' = WithEnsured(b)
    BY <1>2 DEF Request
  <2>2. /\ b # NoBroadcast
        /\ WithEnsured(b) \in [Broadcasts -> BroadcastType]
        /\ tsBroadcast # NoBroadcast => b = tsBroadcast /\ WithEnsured(b) = broadcast
        /\ tsBroadcast = NoBroadcast =>
             /\ WithEnsured(b)[b] = Fresh
             /\ \A w \in Clients : client[w].of # b
    BY <2>1, EnsuredFacts DEF FanInv
  <2>3. FanTypeOK'
    BY <2>1, <2>2 DEF FanInv, FanTypeOK, Request, ClientType
  <2>4. HoldersHaveIt' /\ OutputHasTaker'
    BY <2>1, <2>2 DEF FanInv, FanTypeOK, HoldersHaveIt, OutputHasTaker, Request, ClientType
  <2>5. \A w \in Clients : /\ client'[w].of = client[w].of
                           /\ client'[w].at = "attached" <=> client[w].at = "attached"
                           /\ client'[w].at = "prebuffering" <=> client[w].at = "prebuffering"
    BY DEF FanInv, FanTypeOK, Request, ClientType
  <2>6. ViewersAreFed'
    BY <2>1, <2>2, <2>5 DEF FanInv, ViewersAreFed, Fresh
  <2>7. IdleIsTimed'
    BY <2>1, <2>2, <2>5 DEF FanInv, IdleIsTimed, Unwatched, Joining, Fresh, Request
  <2> QED  BY <2>3, <2>4, <2>6, <2>7 DEF FanInv
<1> QED  BY <1>1, <1>2

\* A refused request holds no broadcast and leaves none behind.
LEMMA RefuseKeeps ==
  ASSUME FanInv, NEW v \in Clients, Refuse(v)
  PROVE  FanInv'
<1>1. FanTypeOK' /\ HoldersHaveIt' /\ OutputHasTaker'
  BY DEF FanInv, FanTypeOK, HoldersHaveIt, OutputHasTaker, Refuse, Away, ClientType
<1>2. \A w \in Clients : client'[w].at \in {"attached", "prebuffering"}
                           \/ client[w].at \in {"attached", "prebuffering"}
                         => client'[w] = client[w]
  BY DEF FanInv, FanTypeOK, Refuse, Away, ClientType
<1>3. ViewersAreFed' /\ IdleIsTimed'
  BY <1>2 DEF FanInv, ViewersAreFed, IdleIsTimed, Unwatched, Joining, Refuse
<1> QED  BY <1>1, <1>3 DEF FanInv

\* A close nobody listens for changes what the request will do, nothing else yet.
LEMMA CloseUnheardKeeps ==
  ASSUME FanInv, NEW v \in Clients, CloseUnheard(v)
  PROVE  FanInv'
<1>1. \A w \in Clients : client'[w].at = client[w].at /\ client'[w].of = client[w].of
  BY DEF FanInv, FanTypeOK, CloseUnheard, ClientType
<1>2. FanTypeOK'
  BY DEF FanInv, FanTypeOK, CloseUnheard, ClientType
<1>3. HoldersHaveIt' /\ OutputHasTaker' /\ ViewersAreFed' /\ IdleIsTimed'
  BY <1>1 DEF FanInv, HoldersHaveIt, OutputHasTaker, ViewersAreFed, IdleIsTimed,
     Unwatched, Joining, CloseUnheard
<1> QED  BY <1>2, <1>3 DEF FanInv

\* Joining a broadcast, from the records that clearing its timer left.
LEMMA RegisterKeeps ==
  ASSUME FanInv, NEW v \in Clients, NEW b \in Broadcasts,
         NEW records \in [Broadcasts -> BroadcastType],
         client[v].at \in {"ensuring", "prebuffering"},
         Register(v, b, records),
         armed' \subseteq armed,
         status' = status,
         \/ tsBroadcast' = b
         \/ tsBroadcast' = tsBroadcast /\ armed' = armed,
         tsBroadcast # NoBroadcast => tsBroadcast' = tsBroadcast,
         tsBroadcast' \in Broadcasts =>
           records[tsBroadcast'].consumers =
             {w \in Clients : client[w].at = "attached" /\ client[w].of = tsBroadcast'},
         tsBroadcast' # b /\ tsBroadcast' \in Broadcasts =>
           records[tsBroadcast'] = broadcast[tsBroadcast'],
         client[v].at = "prebuffering" => client[v].of = b
  PROVE  FanInv'
<1>1. client' \in [Clients -> ClientType] /\ broadcast' \in [Broadcasts -> BroadcastType]
  <2>1. /\ Away \in ClientType
        /\ [at |-> "attached", of |-> b, gone |-> FALSE] \in ClientType
        /\ [records[b] EXCEPT !.stray = TRUE] \in BroadcastType
        /\ [records[b] EXCEPT !.consumers = @ \cup {v}] \in BroadcastType
    BY ZenonT(40) DEF Away, ClientType, BroadcastType
  <2>2. CASE client[v].gone
    BY <2>1, <2>2, ZenonT(40) DEF FanInv, FanTypeOK, Register
  <2>3. CASE ~client[v].gone
    BY <2>1, <2>3 DEF FanInv, FanTypeOK, Register
  <2> QED  BY <2>2, <2>3
<1>2. FanTypeOK' /\ OutputHasTaker' /\ HoldersHaveIt'
  <2>1. FanTypeOK'
    BY <1>1 DEF FanInv, FanTypeOK
  <2>2. OutputHasTaker'
    BY DEF FanInv, OutputHasTaker
  <2>3. HoldersHaveIt'
    BY DEF FanInv, FanTypeOK, HoldersHaveIt, Register, Away
  <2> QED  BY <2>1, <2>2, <2>3
<1>3. CASE client[v].gone
  <2>1. /\ broadcast' = [records EXCEPT ![b].stray = TRUE]
        /\ client' = [client EXCEPT ![v] = Away]
    BY <1>3 DEF Register
  <2>2. \A c \in Broadcasts : /\ broadcast'[c].consumers = records[c].consumers
                              /\ c # b => broadcast'[c] = records[c]
    BY <2>1 DEF BroadcastType
  <2>3. broadcast'[b].stray
    BY <2>1 DEF BroadcastType
  <2>4. \A w \in Clients : w # v => client'[w] = client[w]
    BY <2>1 DEF FanInv, FanTypeOK
  <2>5. client'[v].at = "away"
    BY <2>1 DEF FanInv, FanTypeOK, Away
  <2>6. ViewersAreFed'
    BY <2>2, <2>4, <2>5 DEF ViewersAreFed
  <2>7. IdleIsTimed'
    <3> SUFFICES ASSUME NEW c \in Broadcasts, c = tsBroadcast', broadcast'[c].abandoned,
                        Unwatched(c)', ~Joining(c)'
                 PROVE  broadcast'[c].idleTimer \in armed'
      BY DEF IdleIsTimed
    <3>1. c # b  BY <2>3 DEF Unwatched
    <3>2. tsBroadcast' = tsBroadcast /\ armed' = armed /\ broadcast'[c] = broadcast[c]
      BY <3>1, <2>2
    <3>3. ~Joining(c)  BY <2>4, <3>1, <1>3 DEF Joining
    <3> QED  BY <3>2, <3>3 DEF FanInv, IdleIsTimed, Unwatched
  <2> QED  BY <1>2, <2>6, <2>7 DEF FanInv
<1>4. CASE ~client[v].gone
  <2>1. /\ broadcast' = [records EXCEPT ![b].consumers = @ \cup {v}]
        /\ client' = [client EXCEPT ![v] = [at |-> "attached", of |-> b, gone |-> FALSE]]
    BY <1>4 DEF Register
  <2>2. \A c \in Broadcasts : c # b => broadcast'[c] = records[c]
    BY <2>1 DEF BroadcastType
  <2>3. broadcast'[b].consumers = records[b].consumers \cup {v}
    BY <2>1 DEF BroadcastType
  <2>4. \A w \in Clients : w # v => client'[w] = client[w]
    BY <2>1 DEF FanInv, FanTypeOK
  <2>5. client'[v].at = "attached" /\ client'[v].of = b
    BY <2>1 DEF FanInv, FanTypeOK
  <2>6. ViewersAreFed'
    BY <2>2, <2>3, <2>4, <2>5 DEF ViewersAreFed
  <2>7. IdleIsTimed'
    <3> SUFFICES ASSUME NEW c \in Broadcasts, c = tsBroadcast', broadcast'[c].abandoned,
                        Unwatched(c)', ~Joining(c)'
                 PROVE  broadcast'[c].idleTimer \in armed'
      BY DEF IdleIsTimed
    <3>1. c # b  BY <2>3 DEF Unwatched
    <3>2. tsBroadcast' = tsBroadcast /\ armed' = armed /\ broadcast'[c] = broadcast[c]
      BY <3>1, <2>2
    <3>3. ~Joining(c)  BY <2>4, <3>1 DEF Joining
    <3> QED  BY <3>2, <3>3 DEF FanInv, IdleIsTimed, Unwatched
  <2> QED  BY <1>2, <2>6, <2>7 DEF FanInv
<1> QED  BY <1>3, <1>4

\* After the prebuffer the request joins what it took before, in the map or not.
LEMMA PrebufferedKeeps ==
  ASSUME FanInv, NEW v \in Clients, Prebuffered(v)
  PROVE  FanInv'
<1>1. client[v].of \in Broadcasts
  BY DEF FanInv, FanTypeOK, HoldersHaveIt, Prebuffered, ClientType
<1> QED
  BY <1>1, RegisterKeeps DEF FanInv, FanTypeOK, ViewersAreFed, Prebuffered

\* Taking the broadcast clears its idle timer: the request is then joining it,
\* or has joined it.
LEMMA AttachKeeps ==
  ASSUME FanInv, NEW v \in Clients, Attach(v)
  PROVE  FanInv'
<1>1. PICK b \in Broadcasts :
        /\ Ensured(b) /\ tsBroadcast' = b
        /\ LET timer == WithEnsured(b)[b].idleTimer
               cleared == [WithEnsured(b) EXCEPT ![b].idleTimer = NoTimer]
           IN /\ armed' = armed \ {timer}
              /\ IF Prebuffer
                 THEN /\ client' = [client EXCEPT ![v].at = "prebuffering", ![v].of = b]
                      /\ broadcast' = cleared
                 ELSE Register(v, b, cleared)
  BY DEF Attach
<1> DEFINE cleared == [WithEnsured(b) EXCEPT ![b].idleTimer = NoTimer]
<1>2. /\ b # NoBroadcast
      /\ WithEnsured(b) \in [Broadcasts -> BroadcastType]
      /\ tsBroadcast # NoBroadcast => b = tsBroadcast /\ WithEnsured(b) = broadcast
      /\ tsBroadcast = NoBroadcast =>
           /\ WithEnsured(b)[b] = Fresh
           /\ \A w \in Clients : client[w].of # b
  BY <1>1, EnsuredFacts DEF FanInv
<1>3. cleared \in [Broadcasts -> BroadcastType]
  BY <1>2 DEF BroadcastType
<1>4. cleared[b].consumers = {w \in Clients : client[w].at = "attached" /\ client[w].of = b}
  <2>1. cleared[b].consumers = WithEnsured(b)[b].consumers
    BY <1>2 DEF BroadcastType
  <2> QED  BY <1>2, <2>1 DEF FanInv, ViewersAreFed, Fresh
<1>5. CASE Prebuffer
  <2>1. /\ client' = [client EXCEPT ![v].at = "prebuffering", ![v].of = b]
        /\ broadcast' = cleared /\ armed' \subseteq armed
    BY <1>1, <1>5
  <2>2. FanTypeOK' /\ OutputHasTaker' /\ HoldersHaveIt'
    BY <1>1, <1>2, <1>3, <2>1
    DEF FanInv, FanTypeOK, OutputHasTaker, HoldersHaveIt, Attach, ClientType
  <2>3. /\ client'[v].at = "prebuffering" /\ client'[v].of = b
        /\ \A w \in Clients : w # v => client'[w] = client[w]
    BY <2>1 DEF FanInv, FanTypeOK, ClientType
  <2>4. ViewersAreFed'
    <3>1. client[v].at = "ensuring"
      BY DEF Attach
    <3>2. \A w \in Clients : (client'[w].at = "attached" /\ client'[w].of = b)
                          <=> (client[w].at = "attached" /\ client[w].of = b)
      BY <2>3, <3>1
    <3>3. broadcast'[b].consumers = {w \in Clients : client'[w].at = "attached" /\ client'[w].of = b}
      BY <1>4, <2>1, <3>2
    <3> QED  BY <1>1, <3>3 DEF ViewersAreFed
  <2>5. IdleIsTimed'
    BY <1>1, <2>3 DEF IdleIsTimed, Joining
  <2> QED  BY <2>2, <2>4, <2>5 DEF FanInv
<1>6. CASE ~Prebuffer
  BY <1>1, <1>2, <1>3, <1>4, <1>6, RegisterKeeps DEF Attach
<1> QED  BY <1>5, <1>6 DEF FanInv

\* The close listener takes out its own consumer and arms the timer of the
\* broadcast it leaves empty.
LEMMA CloseKeeps ==
  ASSUME FanInv, NEW v \in Clients, Close(v)
  PROVE  FanInv'
<1> DEFINE b == client[v].of
           rest == broadcast[b].consumers \ {v}
<1>1. b \in Broadcasts \cup {NoBroadcast} /\ client' = [client EXCEPT ![v] = Away]
  BY DEF FanInv, FanTypeOK, Close, ClientType
<1>2. /\ \A w \in Clients : w # v => client'[w] = client[w]
      /\ client'[v].at = "away" /\ client'[v].of = NoBroadcast
      /\ client' \in [Clients -> ClientType]
  BY <1>1 DEF FanInv, FanTypeOK, Away, ClientType
<1>3. HoldersHaveIt' /\ OutputHasTaker'
  BY <1>2 DEF FanInv, HoldersHaveIt, OutputHasTaker, Close
<1>4. \A c \in Broadcasts : c # b => broadcast'[c] = broadcast[c]
  BY DEF FanInv, FanTypeOK, Close
<1>5. \A c \in Broadcasts : Joining(c)' <=> Joining(c)
  BY <1>2 DEF Joining, Close
<1>6. ASSUME b \in Broadcasts => broadcast'[b].consumers = rest
      PROVE  ViewersAreFed'
  <2> SUFFICES ASSUME NEW c \in Broadcasts, c = tsBroadcast
               PROVE  broadcast'[c].consumers =
                        {w \in Clients : client'[w].at = "attached" /\ client'[w].of = c}
    BY DEF ViewersAreFed, Close
  <2>1. broadcast[c].consumers = {w \in Clients : client[w].at = "attached" /\ client[w].of = c}
    BY DEF FanInv, ViewersAreFed
  <2>2. {w \in Clients : client'[w].at = "attached" /\ client'[w].of = c}
          = {w \in Clients : client[w].at = "attached" /\ client[w].of = c} \ {v}
    BY <1>2
  <2>3. CASE c = b
    BY <1>6, <2>1, <2>2, <2>3
  <2>4. CASE c # b
    BY <1>4, <2>1, <2>2, <2>4
  <2> QED  BY <2>3, <2>4
<1>7. CASE rest = {} /\ ~broadcast[b].stray
  <2>1. PICK t \in Timers \ armed :
          /\ armed' = armed \cup {t}
          /\ broadcast' = [broadcast EXCEPT ![b] =
               IF b = tsBroadcast
               THEN [Fresh EXCEPT !.idleTimer = t, !.abandoned = TRUE] ELSE Fresh]
    BY <1>7 DEF Close
  <2>2. FanTypeOK'
    BY <1>2, <2>1 DEF FanInv, FanTypeOK, Fresh, BroadcastType, Close
  <2>3. b \in Broadcasts => broadcast'[b].consumers = {}
    BY <2>1 DEF FanInv, FanTypeOK, Fresh
  <2>4. ViewersAreFed'
    BY <1>7, <1>6, <2>3
  <2>5. b \in Broadcasts /\ b = tsBroadcast => broadcast'[b].idleTimer \in armed'
    BY <2>1 DEF FanInv, FanTypeOK, Fresh
  <2>6. IdleIsTimed'
    BY <1>4, <1>5, <2>1, <2>5 DEF FanInv, IdleIsTimed, Unwatched, Close
  <2> QED  BY <1>3, <2>2, <2>4, <2>6 DEF FanInv
<1>8. CASE ~(rest = {} /\ ~broadcast[b].stray)
  <2>1. broadcast' = [broadcast EXCEPT ![b].consumers = rest] /\ armed' = armed
    BY <1>8 DEF Close
  <2>2. FanTypeOK'
    <3>1. broadcast' \in [Broadcasts -> BroadcastType]
      BY <2>1, ZenonT(40) DEF FanInv, FanTypeOK, BroadcastType
    <3> QED  BY <1>2, <2>1, <3>1 DEF FanInv, FanTypeOK, Close
  <2>3. b \in Broadcasts => /\ broadcast'[b].consumers = rest
                            /\ broadcast'[b].stray = broadcast[b].stray
    BY <2>1 DEF FanInv, FanTypeOK, BroadcastType
  <2>4. ViewersAreFed'
    BY <1>6, <2>3
  <2>5. IdleIsTimed'
    BY <1>4, <1>5, <1>8, <2>1, <2>3 DEF FanInv, IdleIsTimed, Unwatched, Close
  <2> QED  BY <1>3, <2>2, <2>4, <2>5 DEF FanInv
<1> QED  BY <1>7, <1>8

\* With no broadcast in the map the three properties are about nothing.
LEMMA StopKeeps ==
  ASSUME FanInv, StopChannel, armed' \subseteq armed
  PROVE  FanInv'
<1>1. FanTypeOK'
  BY DEF FanInv, FanTypeOK, StopChannel, Emptied, Fresh, BroadcastType
<1>2. HoldersHaveIt' /\ OutputHasTaker' /\ ViewersAreFed' /\ IdleIsTimed'
  BY DEF FanInv, HoldersHaveIt, OutputHasTaker, ViewersAreFed, IdleIsTimed, StopChannel
<1> QED  BY <1>1, <1>2 DEF FanInv

\* An idle timer stops the channel, or finds viewers and is spent.
LEMMA IdleTimerKeeps ==
  ASSUME FanInv, NEW t \in Timers, IdleTimer(t)
  PROVE  FanInv'
<1>1. CASE tsBroadcast # NoBroadcast /\ Unwatched(tsBroadcast)
  BY <1>1, StopKeeps DEF IdleTimer
<1>2. CASE ~(tsBroadcast # NoBroadcast /\ Unwatched(tsBroadcast))
  <2>1. broadcast' = Expire(t) /\ armed' = armed \ {t} /\ UNCHANGED <<status, tsBroadcast, client>>
    BY <1>2 DEF IdleTimer
  <2>2. /\ broadcast' \in [Broadcasts -> BroadcastType]
        /\ \A b \in Broadcasts : /\ broadcast'[b].consumers = broadcast[b].consumers
                                  /\ broadcast'[b].stray = broadcast[b].stray
    BY <2>1 DEF FanInv, FanTypeOK, Expire, BroadcastType
  <2>3. FanTypeOK' /\ HoldersHaveIt' /\ OutputHasTaker' /\ ViewersAreFed'
    BY <2>1, <2>2 DEF FanInv, FanTypeOK, HoldersHaveIt, OutputHasTaker, ViewersAreFed
  <2>4. IdleIsTimed'
    BY <1>2, <2>1, <2>2 DEF FanInv, IdleIsTimed, Unwatched
  <2> QED  BY <2>3, <2>4 DEF FanInv
<1> QED  BY <1>1, <1>2

\* Every step of the specification keeps the invariant.
LEMMA NextKeeps == FanInv /\ [FanNext]_fanVars => FanInv'
<1> SUFFICES ASSUME FanInv, [FanNext]_fanVars PROVE FanInv'
  OBVIOUS
<1>1. ASSUME NEW v \in Clients,
             Request(v) \/ Refuse(v) \/ Attach(v) \/ Prebuffered(v) \/ CloseUnheard(v) \/ Close(v)
      PROVE  FanInv'
  BY <1>1, RequestKeeps, RefuseKeeps, AttachKeeps, PrebufferedKeeps, CloseUnheardKeeps, CloseKeeps
<1>2. ASSUME NEW t \in Timers, IdleTimer(t) PROVE FanInv'
  BY <1>2, IdleTimerKeeps
<1>3. CASE Ready \/ Falter \/ GiveUp
  BY <1>3 DEF Ready, Falter, GiveUp, FanInv, FanTypeOK, HoldersHaveIt, OutputHasTaker,
     ViewersAreFed, IdleIsTimed, Unwatched, Joining
<1>4. CASE Stop
  BY <1>4, StopKeeps DEF Stop
<1>5. CASE UNCHANGED fanVars
  BY <1>5 DEF fanVars, FanInv, FanTypeOK, HoldersHaveIt, OutputHasTaker, ViewersAreFed,
     IdleIsTimed, Unwatched, Joining
<1> QED  BY <1>1, <1>2, <1>3, <1>4, <1>5 DEF FanNext

\* So the invariant holds throughout.
LEMMA Inductive == FanSpec => []FanInv
BY InitHolds, NextKeeps, PTL DEF FanSpec

\* The output of a channel that is starting or running always has a broadcast
\* to go to, for any number of requests and timers.
THEOREM OutputAlwaysHasTaker == FanSpec => []OutputHasTaker
<1>1. FanInv => OutputHasTaker
  BY DEF FanInv
<1> QED  BY <1>1, Inductive, PTL

\* The broadcast of the channel feeds exactly the requests attached to it, with
\* or without the prebuffer.
THEOREM ViewersStayFed == FanSpec => []ViewersAreFed
<1>1. FanInv => ViewersAreFed
  BY DEF FanInv
<1> QED  BY <1>1, Inductive, PTL

\* A broadcast that its viewers left and nobody is joining has its idle timer
\* armed: handles are overwritten and timers outlive their broadcasts, but the
\* one that matters is never lost.
THEOREM IdleStaysTimed == FanSpec => []IdleIsTimed
<1>1. FanInv => IdleIsTimed
  BY DEF FanInv
<1> QED  BY <1>1, Inductive, PTL

----------------------------------------------------------------------------
(* The lists of a line                                                       *)

\* A request is there; and it has done with a stage.
Begun == reader # Idle
Past(stage) == \E i \in 1..(reader.at - 1) : Stages(reader.key)[i] = stage

\* What the reader notes bounds what is true now, so what held at every look did
\* hold, and what held at one look was noted.
Witnessed ==
  Begun => /\ Entitled(reader.line) \subseteq reader.could
           /\ Existing \subseteq reader.was
           /\ reader.always \subseteq Offered(reader.line, reader.key)
\* The allowed sets read so far hold what the line was allowed at some moment...
AllowedWere ==
  Begun => \A x \in Entries : Subject(x) \in reader.allowed[FieldOf[x[1]]] => x \in reader.could
\* ... so what is out was allowed and there, and the series whose episodes are
\* still to be read were let through by that set.
OutWas ==
  Begun => /\ reader.key # "radio_streams" => reader.out \subseteq reader.could \cap reader.was
           /\ reader.todo \subseteq reader.allowed["series"]
\* What the line was allowed all the time is in every allowed set read so far.
AllowedKept ==
  Begun => \A x \in reader.always :
     Past(FieldOf[x[1]]) => Subject(x) \in reader.allowed[FieldOf[x[1]]]

----------------------------------------------------------------------------
(* The stages of the requests                                                *)

\* The table, entry by entry.
LEMMA StageRows ==
  /\ LET s == Stages("all") IN
       /\ Len(s) = 7 /\ s[1] = "channels" /\ s[2] = "movies" /\ s[3] = "series" /\ s[4] = "radios"
       /\ s[5] = "listLive" /\ s[6] = "listMovies" /\ s[7] = "listSeries"
  /\ \A key \in {"live", "radio_streams"} :
       LET s == Stages(key) IN
       /\ Len(s) = 5 /\ s[1] = "channels" /\ s[2] = "movies" /\ s[3] = "series" /\ s[4] = "radios"
       /\ s[5] = "listLive"
  /\ LET s == Stages("movie") IN
       /\ Len(s) = 5 /\ s[1] = "channels" /\ s[2] = "movies" /\ s[3] = "series" /\ s[4] = "radios"
       /\ s[5] = "listMovies"
  /\ LET s == Stages("series") IN
       /\ Len(s) = 5 /\ s[1] = "channels" /\ s[2] = "movies" /\ s[3] = "series" /\ s[4] = "radios"
       /\ s[5] = "listSeries"
  /\ LET s == Stages("get_live_streams") IN Len(s) = 2 /\ s[1] = "channels" /\ s[2] = "listLive"
  /\ LET s == Stages("get_vod_streams") IN Len(s) = 2 /\ s[1] = "movies" /\ s[2] = "pageMovies"
  /\ LET s == Stages("get_vod_info") IN Len(s) = 2 /\ s[1] = "movies" /\ s[2] = "movieInfo"
  /\ LET s == Stages("get_series") IN Len(s) = 2 /\ s[1] = "series" /\ s[2] = "pageSeries"
  /\ LET s == Stages("get_series_info") IN
       Len(s) = 3 /\ s[1] = "series" /\ s[2] = "seriesRow" /\ s[3] = "seriesEpisodes"
  BY DEF Stages, PlaylistStages, ApiStages, PlaylistKeys

\* No stage occurs twice, and lists come after the sets they are filtered with.
Distinct(s) == \A i, j \in 1..Len(s) : s[i] = s[j] => i = j
Ordered(s) ==
  \A i \in 1..Len(s) :
     /\ s[i] = "listLive" => \E j \in 1..(i - 1) : s[j] = "channels"
     /\ s[i] = "listMovies" => \E j \in 1..(i - 1) : s[j] = "movies"
     /\ s[i] = "listSeries" => \E j \in 1..(i - 1) : s[j] = "series"
\* Only the last stage of an answer of the player API puts anything out.
PutsLast(s) == \A i \in 1..(Len(s) - 1) : s[i] \in Fields \cup {"seriesRow"}

\* A request for everything, and one for one kind of list.
LEMMA SevenStages ==
  ASSUME NEW s, Len(s) = 7, s[1] = "channels", s[2] = "movies", s[3] = "series", s[4] = "radios",
         s[5] = "listLive", s[6] = "listMovies", s[7] = "listSeries"
  PROVE Distinct(s) /\ Ordered(s)
  <1>1. \A i \in 1..7 : i = 1 \/ i = 2 \/ i = 3 \/ i = 4 \/ i = 5 \/ i = 6 \/ i = 7
    OBVIOUS
  <1>2. Distinct(s)
    BY <1>1 DEF Distinct
  <1>3. Ordered(s)
    BY <1>1 DEF Ordered
  <1>. QED BY <1>2, <1>3

LEMMA FiveStages ==
  ASSUME NEW s, Len(s) = 5, s[1] = "channels", s[2] = "movies", s[3] = "series", s[4] = "radios",
         s[5] \in {"listLive", "listMovies", "listSeries"}
  PROVE Distinct(s) /\ Ordered(s)
  <1>1. \A i \in 1..5 : i = 1 \/ i = 2 \/ i = 3 \/ i = 4 \/ i = 5
    OBVIOUS
  <1>2. Distinct(s)
    BY <1>1 DEF Distinct
  <1>3. Ordered(s)
    BY <1>1 DEF Ordered
  <1>. QED BY <1>2, <1>3

\* The requests of the player API.
LEMMA ApiStageRow ==
  ASSUME NEW s, \/ /\ Len(s) = 2 /\ s[1] \in {"channels", "movies", "series"}
                   /\ s[2] \in {"listLive", "pageMovies", "movieInfo", "pageSeries"}
                   /\ (s[2] = "listLive" => s[1] = "channels")
                \/ Len(s) = 3 /\ s[1] = "series" /\ s[2] = "seriesRow" /\ s[3] = "seriesEpisodes"
  PROVE Distinct(s) /\ Ordered(s) /\ PutsLast(s)
  <1>1. /\ \A i \in 1..2 : i = 1 \/ i = 2
        /\ \A i \in 1..3 : i = 1 \/ i = 2 \/ i = 3
    OBVIOUS
  <1>2. Distinct(s)
    BY <1>1 DEF Distinct
  <1>3. Ordered(s)
    BY <1>1 DEF Ordered
  <1>4. PutsLast(s)
    <2>1. CASE Len(s) = 2
      BY <2>1, \A i \in 1..1 : i = 1 DEF PutsLast, Fields
    <2>2. CASE Len(s) = 3
      BY <1>1, <2>2 DEF PutsLast, Fields
    <2>. QED BY <2>1, <2>2
  <1>. QED BY <1>2, <1>3, <1>4

\* No request reads a stage twice or a list before its allowed set.
LEMMA StageTable ==
  ASSUME NEW key \in Keys
  PROVE /\ Len(Stages(key)) \in Nat
        /\ Distinct(Stages(key)) /\ Ordered(Stages(key))
        /\ key \in ApiKeys => PutsLast(Stages(key))
  <1>. DEFINE s == Stages(key)
  <1>1. CASE key = "all"
    <2>1. key \notin ApiKeys /\ Len(s) = 7
      BY <1>1, StageRows DEF ApiKeys
    <2>2. Distinct(s) /\ Ordered(s)
      BY <1>1, <2>1, StageRows, SevenStages
    <2>. QED BY <2>1, <2>2
  <1>2. CASE key \in {"live", "radio_streams", "movie", "series"}
    <2>1. key \notin ApiKeys /\ Len(s) = 5
      BY <1>2, StageRows DEF ApiKeys
    <2>2. s[1] = "channels" /\ s[2] = "movies" /\ s[3] = "series" /\ s[4] = "radios"
      BY <1>2, StageRows
    <2>3. s[5] \in {"listLive", "listMovies", "listSeries"}
      BY <1>2, StageRows
    <2>4. Distinct(s) /\ Ordered(s)
      BY <2>1, <2>2, <2>3, FiveStages
    <2>. QED BY <2>1, <2>4
  <1>3. CASE key \in ApiKeys
    <2>1. \/ /\ Len(s) = 2 /\ s[1] \in {"channels", "movies", "series"}
             /\ s[2] \in {"listLive", "pageMovies", "movieInfo", "pageSeries"}
             /\ (s[2] = "listLive" => s[1] = "channels")
          \/ Len(s) = 3 /\ s[1] = "series" /\ s[2] = "seriesRow" /\ s[3] = "seriesEpisodes"
      <3>1. CASE key = "get_live_streams"
        BY <3>1, StageRows
      <3>2. CASE key = "get_vod_streams"
        BY <3>2, StageRows
      <3>3. CASE key = "get_vod_info"
        BY <3>3, StageRows
      <3>4. CASE key = "get_series"
        BY <3>4, StageRows
      <3>5. CASE key = "get_series_info"
        BY <3>5, StageRows
      <3>. QED BY <1>3, <3>1, <3>2, <3>3, <3>4, <3>5 DEF ApiKeys
    <2>2. Len(s) \in Nat
      BY <2>1
    <2>. HIDE DEF s
    <2>3. Distinct(s) /\ Ordered(s) /\ PutsLast(s)
      BY <2>1, ApiStageRow
    <2>. QED BY <2>2, <2>3 DEF s
  <1>. QED BY <1>1, <1>2, <1>3 DEF Keys, PlaylistKeys

----------------------------------------------------------------------------
(* What each step does to the reader                                         *)

\* The reader goes on, and nothing else changes.
Goes(at, allowed, offset, todo, last, out, twice) ==
  /\ reader' \in ReaderType
  /\ reader'.key = reader.key /\ reader'.line = reader.line /\ reader'.at = at
  /\ reader'.allowed = allowed /\ reader'.offset = offset /\ reader'.todo = todo
  /\ reader'.last = last /\ reader'.out = out /\ (reader'.twice => twice)
  /\ reader'.could = reader.could /\ reader'.was = reader.was /\ reader'.always = reader.always
  /\ reader'.edits = reader.edits /\ reader'.removed = reader.removed
  /\ reader'.added = reader.added
  /\ UNCHANGED <<channel, movies, series, episodes, bouquet>>

\* A stage is read by a request that is there.
LEMMA ReadingBegun ==
  ASSUME LsTypeOK, NEW t, Reading(t)
  PROVE Begun /\ reader \in ReaderType /\ reader.at \in 1..Len(Stages(reader.key))
        /\ Len(Stages(reader.key)) \in Nat /\ Stages(reader.key)[reader.at] = t
  <1>1. Begun /\ reader \in ReaderType
    BY DEF LsTypeOK, Reading, Idle, Begun
  <1>2. Len(Stages(reader.key)) \in Nat
    BY <1>1, StageTable DEF ReaderType
  <1>. QED BY <1>1, <1>2 DEF Reading, Answered, ReaderType

\* The same, as the actions write it.
Rewrites(at, allowed, offset, todo, last, out, twice) ==
  /\ reader' = [reader EXCEPT !.at = at, !.allowed = allowed, !.offset = offset, !.todo = todo,
                              !.last = last, !.out = out, !.twice = twice]
  /\ UNCHANGED <<channel, movies, series, episodes, bouquet>>
LEMMA GoesOn ==
  ASSUME reader \in ReaderType, NEW at \in Nat \ {0}, NEW allowed \in [Fields -> SUBSET Ids],
         NEW offset \in Nat, NEW todo \in SUBSET SeriesIds, NEW last \in BOOLEAN,
         NEW out \in SUBSET Entries, NEW twice \in BOOLEAN,
         Rewrites(at, allowed, offset, todo, last, out, twice)
  PROVE Goes(at, allowed, offset, todo, last, out, twice)
  <1>. USE DEF Rewrites
  <1>1. reader' \in ReaderType
    BY DEF ReaderType
  <1>2. /\ reader'.key = reader.key /\ reader'.line = reader.line /\ reader'.at = at
        /\ reader'.allowed = allowed /\ reader'.offset = offset /\ reader'.todo = todo
        /\ reader'.last = last /\ reader'.out = out /\ reader'.twice = twice
    BY DEF ReaderType
  <1>3. /\ reader'.could = reader.could /\ reader'.was = reader.was
        /\ reader'.always = reader.always /\ reader'.edits = reader.edits
        /\ reader'.removed = reader.removed /\ reader'.added = reader.added
    BY DEF ReaderType
  <1>. QED BY <1>1, <1>2, <1>3 DEF Goes

\* A step puts xs out.
PutsOut(at, offset, todo, xs) ==
  /\ reader' = [Put([reader EXCEPT !.todo = todo], xs) EXCEPT !.at = at, !.offset = offset]
  /\ UNCHANGED <<channel, movies, series, episodes, bouquet>>
LEMMA PutEffect ==
  ASSUME reader \in ReaderType, NEW at \in Nat \ {0}, NEW offset \in Nat,
         NEW todo \in SUBSET SeriesIds, NEW xs \in SUBSET Entries,
         PutsOut(at, offset, todo, xs)
  PROVE Goes(at, reader.allowed, offset, todo, reader.last, reader.out \cup xs,
             reader.twice \/ xs \cap reader.out # {})
  <1>1. PICK twice \in BOOLEAN : twice = (reader.twice \/ xs \cap reader.out # {})
    OBVIOUS
  <1>2. twice = (reader.twice \/ xs \cap reader.out # {})
    BY <1>1
  <1>3. PICK out \in SUBSET Entries : out = reader.out \cup xs
    BY DEF ReaderType
  <1>4. reader' = [reader EXCEPT !.at = at, !.allowed = reader.allowed, !.offset = offset,
                                 !.todo = todo, !.last = reader.last, !.out = out, !.twice = twice]
    BY <1>2, <1>3 DEF PutsOut, Put, ReaderType
  <1>5. PICK allowed \in [Fields -> SUBSET Ids], last \in BOOLEAN :
          allowed = reader.allowed /\ last = reader.last
    BY DEF ReaderType
  <1>6. Goes(at, allowed, offset, todo, last, out, twice)
    <2>1. Rewrites(at, allowed, offset, todo, last, out, twice)
      BY <1>4, <1>5 DEF PutsOut, Rewrites
    <2>. QED BY <2>1, GoesOn
  <1>. QED BY <1>2, <1>3, <1>5, <1>6

\* allowedIdSetFromBouquet: one more allowed set.
LEMMA ReadAllowedEffect ==
  ASSUME LsTypeOK, NEW f \in Fields, ReadAllowed(f)
  PROVE /\ Reading(f)
        /\ Goes(reader.at + 1, [reader.allowed EXCEPT ![f] = AllowedIdSet(reader.line, f)], 0,
                reader.todo, reader.last, reader.out, reader.twice)
        /\ AllowedIdSet(reader.line, f) \subseteq IdsOf(f)
  <1>1. Reading(f) /\ reader \in ReaderType
    BY ReadingBegun DEF ReadAllowed
  <1>2. AllowedIdSet(reader.line, f) \subseteq IdsOf(f)
    <2>1. \A b \in reader.line : bouquet[b][f] \subseteq IdsOf(f)
      BY <1>1, ListingAssumption DEF LsTypeOK, ReaderType
    <2>. QED BY <2>1 DEF AllowedIdSet
  <1>3. IdsOf(f) \subseteq Ids
    BY DEF IdsOf, Ids
  <1>4. PICK set \in SUBSET Ids : set = AllowedIdSet(reader.line, f)
    BY <1>2, <1>3
  <1>5. PICK allowed \in [Fields -> SUBSET Ids] : allowed = [reader.allowed EXCEPT ![f] = set]
    BY <1>1, <1>4 DEF ReaderType
  <1>6. PICK at \in Nat \ {0} : at = reader.at + 1
    BY <1>1 DEF ReaderType
  <1>7. PICK todo \in SUBSET SeriesIds, last \in BOOLEAN, out \in SUBSET Entries, twice \in BOOLEAN :
          /\ todo = reader.todo /\ last = reader.last /\ out = reader.out
          /\ twice = reader.twice
    BY <1>1 DEF ReaderType
  <1>8. Rewrites(at, allowed, 0, todo, last, out, twice)
    BY <1>1, <1>4, <1>5, <1>6, <1>7 DEF ReadAllowed, Read, Move, ReaderType, Rewrites
  <1>9. Goes(at, allowed, 0, todo, last, out, twice)
    BY <1>1, <1>8, GoesOn
  <1>. QED BY <1>1, <1>2, <1>4, <1>5, <1>6, <1>7, <1>9

\* The rows a query returns are rows of the table.
LEMMA RowsOfTable == \A table, limit, offset : Rows(table, limit, offset) \subseteq table
  BY DEF Rows

\* buildLiveSection, liveStreams: channels allowed and there.
LEMMA ListLiveEffect ==
  ASSUME LsTypeOK, ListLive
  PROVE /\ Reading("listLive")
        /\ \E shown \in SUBSET LiveIds :
             /\ \A c \in LiveIds : c \in shown <=> Shown(c)
             /\ Goes(reader.at + 1, reader.allowed, 0, reader.todo, reader.last,
                     reader.out \cup ({"live"} \X shown),
                     reader.twice \/ ({"live"} \X shown) \cap reader.out # {})
  <1>1. Reading("listLive") /\ reader \in ReaderType
    BY ReadingBegun DEF ListLive
  <1>2. PICK shown \in SUBSET LiveIds : shown = {d \in LiveIds : Shown(d)}
    OBVIOUS
  <1>3. PICK xs \in SUBSET Entries : xs = {"live"} \X shown
    BY DEF Entries
  <1>4. xs = {<<"live", c>> : c \in shown}
    BY <1>3
  <1>5. PICK at \in Nat \ {0} : at = reader.at + 1
    BY <1>1 DEF ReaderType
  <1>6. reader.todo \in SUBSET SeriesIds
    BY <1>1 DEF ReaderType
  <1>7. PutsOut(at, 0, reader.todo, xs)
    BY <1>1, <1>2, <1>4, <1>5 DEF ListLive, Read, Move, Put, PutsOut, ReaderType
  <1>8. Goes(at, reader.allowed, 0, reader.todo, reader.last, reader.out \cup xs,
             reader.twice \/ xs \cap reader.out # {})
    BY <1>1, <1>6, <1>7, PutEffect
  <1>. QED BY <1>1, <1>2, <1>3, <1>5, <1>8

\* A batch of movies is put out, and the offset or the stage goes on.
LEMMA ListMoviesEffect ==
  ASSUME LsTypeOK, ListMovies
  PROVE /\ Reading("listMovies")
        /\ \E batch \in SUBSET MovieIds, at \in Nat, offset \in Nat, xs \in SUBSET Entries :
             /\ batch = Rows(movies, BatchSize, reader.offset)
             /\ xs = {"movie"} \X (batch \cap reader.allowed["movies"])
             /\ Cardinality(batch) < BatchSize => at = reader.at + 1 /\ offset = 0
             /\ ~(Cardinality(batch) < BatchSize) =>
                  at = reader.at /\ offset = reader.offset + BatchSize
             /\ Goes(at, reader.allowed, offset, reader.todo, reader.last, reader.out \cup xs,
                     reader.twice \/ xs \cap reader.out # {})
  <1>1. Reading("listMovies") /\ reader \in ReaderType /\ reader.at \in Nat \ {0} /\ reader.offset \in Nat
    BY ReadingBegun DEF ListMovies, ReaderType
  <1>2. PICK batch \in SUBSET MovieIds : batch = Rows(movies, BatchSize, reader.offset)
    BY RowsOfTable DEF LsTypeOK
  <1>3. PICK xs \in SUBSET Entries : xs = {"movie"} \X (batch \cap reader.allowed["movies"])
    BY DEF Entries
  <1>4. PICK at \in Nat \ {0}, offset \in Nat :
          /\ Cardinality(batch) < BatchSize => at = reader.at + 1 /\ offset = 0
          /\ ~(Cardinality(batch) < BatchSize) =>
               at = reader.at /\ offset = reader.offset + BatchSize
    <2>1. CASE Cardinality(batch) < BatchSize
      BY <1>1, <2>1
    <2>2. CASE ~(Cardinality(batch) < BatchSize)
      BY <1>1, <2>2, ListingAssumption
    <2>. QED BY <2>1, <2>2
  <1>5. reader.todo \in SUBSET SeriesIds
    BY <1>1 DEF ReaderType
  <1>6. Read(IF Cardinality(batch) < BatchSize THEN Move(Put(reader, xs))
             ELSE [Put(reader, xs) EXCEPT !.offset = @ + BatchSize])
    BY <1>2, <1>3 DEF ListMovies, Allowed
  <1>7. PutsOut(at, offset, reader.todo, xs)
    <2>1. [reader EXCEPT !.todo = reader.todo] = reader
      BY <1>1 DEF ReaderType
    <2>2. /\ Put(reader, xs) \in ReaderType /\ Put(reader, xs).at = reader.at
          /\ Put(reader, xs).offset = reader.offset
      <3>1. PICK twice \in BOOLEAN : twice = (reader.twice \/ xs \cap reader.out # {})
        OBVIOUS
      <3>2. PICK out \in SUBSET Entries : out = reader.out \cup xs
        BY <1>1 DEF ReaderType
      <3>3. Put(reader, xs) = [reader EXCEPT !.twice = twice, !.out = out]
        BY <1>1, <3>1, <3>2 DEF Put, ReaderType
      <3>. QED BY <1>1, <3>3 DEF ReaderType
    <2>3. CASE Cardinality(batch) < BatchSize
      BY <1>4, <1>6, <2>1, <2>2, <2>3 DEF Read, Move, PutsOut, ReaderType
    <2>4. CASE ~(Cardinality(batch) < BatchSize)
      BY <1>4, <1>6, <2>1, <2>2, <2>4 DEF Read, PutsOut, ReaderType
    <2>. QED BY <2>3, <2>4
  <1>8. Goes(at, reader.allowed, offset, reader.todo, reader.last, reader.out \cup xs,
             reader.twice \/ xs \cap reader.out # {})
    BY <1>1, <1>5, <1>7, PutEffect
  <1>. QED BY <1>1, <1>2, <1>3, <1>4, <1>8, ZenonT(40)

\* A step that puts nothing out.
Silent(at, offset, todo, last) ==
  /\ reader' = [reader EXCEPT !.at = at, !.offset = offset, !.todo = todo, !.last = last]
  /\ UNCHANGED <<channel, movies, series, episodes, bouquet>>
\* As the actions write it.
LEMMA GoesSilently ==
  ASSUME reader \in ReaderType, NEW at \in Nat \ {0}, NEW offset \in Nat,
         NEW todo \in SUBSET SeriesIds, NEW last \in BOOLEAN,
         Silent(at, offset, todo, last)
  PROVE Goes(at, reader.allowed, offset, todo, last, reader.out, reader.twice)
  <1>. USE DEF Silent
  <1>1. reader' \in ReaderType
    BY DEF ReaderType
  <1>2. /\ reader'.key = reader.key /\ reader'.line = reader.line /\ reader'.at = at
        /\ reader'.allowed = reader.allowed /\ reader'.offset = offset /\ reader'.todo = todo
        /\ reader'.last = last /\ reader'.out = reader.out /\ reader'.twice = reader.twice
    BY DEF ReaderType
  <1>3. /\ reader'.could = reader.could /\ reader'.was = reader.was
        /\ reader'.always = reader.always /\ reader'.edits = reader.edits
        /\ reader'.removed = reader.removed /\ reader'.added = reader.added
    BY DEF ReaderType
  <1>. QED BY <1>1, <1>2, <1>3 DEF Goes

\* A batch of series is kept.
LEMMA ListSeriesEffect ==
  ASSUME LsTypeOK, ListSeries
  PROVE /\ Reading("listSeries") /\ reader.todo = {}
        /\ \E batch \in SUBSET SeriesIds, at \in Nat, offset \in Nat, todo \in SUBSET SeriesIds,
              last \in BOOLEAN :
             /\ batch = Rows(series, BatchSize, reader.offset)
             /\ todo = batch \cap reader.allowed["series"]
             /\ last <=> Cardinality(batch) < BatchSize
             /\ todo = {} /\ last => at = reader.at + 1 /\ offset = 0
             /\ ~(todo = {} /\ last) => at = reader.at /\ offset = reader.offset + BatchSize
             /\ Goes(at, reader.allowed, offset, todo, last, reader.out, reader.twice)
  <1>1. /\ Reading("listSeries") /\ reader \in ReaderType /\ reader.at \in Nat \ {0}
        /\ reader.offset \in Nat
    BY ReadingBegun DEF ListSeries, ReaderType
  <1>2. PICK batch \in SUBSET SeriesIds : batch = Rows(series, BatchSize, reader.offset)
    BY RowsOfTable DEF LsTypeOK
  <1>3. PICK todo \in SUBSET SeriesIds : todo = batch \cap reader.allowed["series"]
    OBVIOUS
  <1>4. PICK last \in BOOLEAN : last = (Cardinality(batch) < BatchSize)
    <2>1. Cardinality(batch) \in Nat
      BY FS_Subset, FS_CardinalityType, ListingAssumption
    <2>2. (Cardinality(batch) < BatchSize) \in BOOLEAN
      BY <2>1, ListingAssumption
    <2>. QED BY <2>2
  <1>5. PICK next \in Nat : next = reader.offset + BatchSize
    BY <1>1, ListingAssumption
  <1>6. PICK r \in ReaderType :
          r = [reader EXCEPT !.offset = next, !.todo = todo, !.last = last]
    BY <1>1 DEF ReaderType
  <1>7. /\ reader' = EndOfSeries(r) /\ reader.todo = {}
        /\ UNCHANGED <<channel, movies, series, episodes, bouquet>>
    <2>1. reader' = EndOfSeries([reader EXCEPT !.offset = reader.offset + BatchSize,
                            !.todo = batch \cap reader.allowed["series"],
                            !.last = Cardinality(batch) < BatchSize])
      BY <1>1, <1>2 DEF ListSeries, Allowed, Read, ReaderType
    <2>. QED BY <1>3, <1>4, <1>5, <1>6, <2>1 DEF ListSeries, Read
  <1>8. /\ reader.allowed \in [Fields -> SUBSET Ids] /\ reader.out \in SUBSET Entries
        /\ reader.twice \in BOOLEAN
    BY <1>1 DEF ReaderType
  <1>9. CASE todo = {} /\ last
    <2>1. PICK at \in Nat \ {0} : at = reader.at + 1
      BY <1>1
    <2>2. r.todo = todo /\ r.last = last /\ r.at = reader.at
      BY <1>1, <1>6 DEF ReaderType
    <2>3. Silent(at, 0, todo, last)
      BY <1>1, <1>6, <1>7, <1>9, <2>1, <2>2 DEF EndOfSeries, Move, ReaderType, Silent
    <2>4. Goes(at, reader.allowed, 0, todo, last, reader.out, reader.twice)
      BY <1>1, <1>7, <2>3, GoesSilently
    <2>. QED BY <1>1, <1>2, <1>3, <1>4, <1>7, <1>9, <2>1, <2>4
  <1>10. CASE ~(todo = {} /\ last)
    <2>2. r.todo = todo /\ r.last = last /\ r.at = reader.at
      BY <1>1, <1>6 DEF ReaderType
    <2>3. Silent(reader.at, next, todo, last)
      BY <1>1, <1>6, <1>7, <1>10, <2>2 DEF EndOfSeries, ReaderType, Silent
    <2>4. Goes(reader.at, reader.allowed, next, todo, last, reader.out, reader.twice)
      BY <1>1, <1>7, <2>3, GoesSilently
    <2>. QED BY <1>1, <1>2, <1>3, <1>4, <1>5, <1>7, <1>10, <2>4, ZenonT(40)
  <1>. QED BY <1>9, <1>10

\* The episodes of a series are entries, and exist.
LEMMA EpisodeEntries ==
  ASSUME LsTypeOK, NEW s
  PROVE /\ EpisodesOf(s) \in SUBSET Entries
        /\ \A x \in EpisodesOf(s) : /\ x[1] = "episode" /\ x[2] \in episodes /\ x[2][1] = s
                                    /\ x = <<x[1], x[2]>>
        /\ \A e \in episodes : e[1] = s => <<"episode", e>> \in EpisodesOf(s)
  BY DEF EpisodesOf, LsTypeOK, Entries

\* The episodes of the newest series of the batch are put out.
LEMMA ListEpisodesEffect ==
  ASSUME LsTypeOK, ListEpisodes
  PROVE /\ Reading("listSeries")
        /\ \E s \in reader.todo, at \in Nat, offset \in Nat, todo \in SUBSET SeriesIds :
             /\ todo = reader.todo \ {s}
             /\ todo = {} /\ reader.last => at = reader.at + 1 /\ offset = 0
             /\ ~(todo = {} /\ reader.last) => at = reader.at /\ offset = reader.offset
             /\ Goes(at, reader.allowed, offset, todo, reader.last, reader.out \cup EpisodesOf(s),
                     reader.twice \/ EpisodesOf(s) \cap reader.out # {})
  <1>1. /\ Reading("listSeries") /\ reader \in ReaderType /\ reader.at \in Nat \ {0}
        /\ reader.offset \in Nat
    BY ReadingBegun DEF ListEpisodes, ReaderType
  <1>2. PICK s \in reader.todo :
          Read(EndOfSeries(Put([reader EXCEPT !.todo = @ \ {s}], EpisodesOf(s))))
    BY DEF ListEpisodes
  <1>3. PICK todo \in SUBSET SeriesIds : todo = reader.todo \ {s}
    BY <1>1 DEF ReaderType
  <1>4. PICK xs \in SUBSET Entries : xs = EpisodesOf(s)
    BY EpisodeEntries
  <1>5. [reader EXCEPT !.todo = @ \ {s}] = [reader EXCEPT !.todo = todo]
    BY <1>1, <1>3 DEF ReaderType
  <1>6. Read(EndOfSeries(Put([reader EXCEPT !.todo = todo], xs)))
    BY <1>2, <1>4, <1>5
  <1>. DEFINE put == Put([reader EXCEPT !.todo = todo], xs)
  <1>7. /\ put \in ReaderType /\ put.at = reader.at /\ put.offset = reader.offset
        /\ put.todo = todo /\ put.last = reader.last
    <2>1. PICK twice \in BOOLEAN : twice = (reader.twice \/ xs \cap reader.out # {})
      OBVIOUS
    <2>2. PICK out \in SUBSET Entries : out = reader.out \cup xs
      BY <1>1 DEF ReaderType
    <2>3. Put([reader EXCEPT !.todo = todo], xs) = [reader EXCEPT !.todo = todo, !.twice = twice, !.out = out]
      BY <1>1, <2>1, <2>2 DEF Put, ReaderType
    <2>. QED BY <1>1, <2>3 DEF ReaderType
  <1>8. CASE todo = {} /\ reader.last
    <2>1. PICK at \in Nat \ {0} : at = reader.at + 1
      BY <1>1
    <2>2. PutsOut(at, 0, todo, xs)
      BY <1>6, <1>7, <1>8, <2>1 DEF EndOfSeries, Move, Read, PutsOut, ReaderType
    <2>3. Goes(at, reader.allowed, 0, todo, reader.last, reader.out \cup xs,
               reader.twice \/ xs \cap reader.out # {})
      BY <1>1, <2>2, PutEffect
    <2>. QED BY <1>1, <1>3, <1>4, <1>8, <2>1, <2>3
  <1>9. CASE ~(todo = {} /\ reader.last)
    <2>2. PutsOut(reader.at, reader.offset, todo, xs)
      BY <1>6, <1>7, <1>9 DEF EndOfSeries, Read, PutsOut, ReaderType
    <2>3. Goes(reader.at, reader.allowed, reader.offset, todo, reader.last, reader.out \cup xs,
               reader.twice \/ xs \cap reader.out # {})
      BY <1>1, <2>2, PutEffect
    <2>. QED BY <1>1, <1>3, <1>4, <1>9, <2>3
  <1>. QED BY <1>8, <1>9

\* The single answers of the player API.
LEMMA PageEffect ==
  ASSUME LsTypeOK, PageMovies \/ PageSeries \/ (\E m \in MovieIds : VodInfo(m))
  PROVE \E stage \in {"pageMovies", "pageSeries", "movieInfo"}, xs \in SUBSET Entries :
          /\ Reading(stage)
          /\ xs \subseteq {"movie"} \X (movies \cap reader.allowed["movies"])
                          \cup {"series"} \X (series \cap reader.allowed["series"])
          /\ Goes(reader.at + 1, reader.allowed, 0, reader.todo, reader.last, reader.out \cup xs,
                  reader.twice \/ xs \cap reader.out # {})
  <1>1. PICK stage \in {"pageMovies", "pageSeries", "movieInfo"}, xs \in SUBSET Entries :
          /\ Reading(stage)
          /\ xs \subseteq {"movie"} \X (movies \cap reader.allowed["movies"])
                          \cup {"series"} \X (series \cap reader.allowed["series"])
          /\ Read(Move(Put(reader, xs)))
    <2>1. CASE PageMovies
      <3>1. PICK limit, offset :
              /\ Reading("pageMovies")
              /\ Read(Move(Put(reader, {"movie"} \X (Rows(movies, limit, offset) \cap reader.allowed["movies"]))))
        BY <2>1 DEF PageMovies, Page, Allowed
      <3>2. PICK xs \in SUBSET Entries : xs = {"movie"} \X (Rows(movies, limit, offset) \cap reader.allowed["movies"])
        BY RowsOfTable DEF Entries, LsTypeOK
      <3>3. xs \subseteq {"movie"} \X (movies \cap reader.allowed["movies"])
        BY <3>2, RowsOfTable
      <3>. QED BY <3>1, <3>2, <3>3
    <2>2. CASE PageSeries
      <3>1. PICK limit, offset :
              /\ Reading("pageSeries")
              /\ Read(Move(Put(reader, {"series"} \X (Rows(series, limit, offset) \cap reader.allowed["series"]))))
        BY <2>2 DEF PageSeries, Page, Allowed
      <3>2. PICK xs \in SUBSET Entries : xs = {"series"} \X (Rows(series, limit, offset) \cap reader.allowed["series"])
        BY RowsOfTable DEF Entries, LsTypeOK
      <3>3. xs \subseteq {"series"} \X (series \cap reader.allowed["series"])
        BY <3>2, RowsOfTable
      <3>. QED BY <3>1, <3>2, <3>3
    <2>3. ASSUME NEW m \in MovieIds, VodInfo(m)
          PROVE \E stage \in {"pageMovies", "pageSeries", "movieInfo"}, xs \in SUBSET Entries :
                  /\ Reading(stage)
                  /\ xs \subseteq {"movie"} \X (movies \cap reader.allowed["movies"])
                          \cup {"series"} \X (series \cap reader.allowed["series"])
                  /\ Read(Move(Put(reader, xs)))
      <3>1. PICK xs \in SUBSET Entries :
              xs = (IF m \in reader.allowed["movies"] \cap movies THEN {<<"movie", m>>} ELSE {})
        <4>1. {<<"movie", m>>} \in SUBSET Entries /\ {} \in SUBSET Entries
          BY DEF Entries
        <4>. QED BY <4>1
      <3>2. xs \subseteq {"movie"} \X (movies \cap reader.allowed["movies"])
        BY <3>1
      <3>3. Reading("movieInfo") /\ Read(Move(Put(reader, xs)))
        BY <2>3, <3>1 DEF VodInfo
      <3>. QED BY <3>2, <3>3
    <2>. QED BY <2>1, <2>2, <2>3
  <1>2. /\ reader \in ReaderType /\ reader.at \in Nat \ {0} /\ reader.offset \in Nat
        /\ reader.todo \in SUBSET SeriesIds
    BY <1>1, ReadingBegun DEF ReaderType
  <1>3. PICK at \in Nat \ {0} : at = reader.at + 1
    BY <1>2
  <1>4. PutsOut(at, 0, reader.todo, xs)
    BY <1>1, <1>2, <1>3 DEF Read, Move, Put, PutsOut, ReaderType
  <1>5. Goes(at, reader.allowed, 0, reader.todo, reader.last, reader.out \cup xs,
             reader.twice \/ xs \cap reader.out # {})
    BY <1>2, <1>4, PutEffect
  <1>. QED BY <1>1, <1>3, <1>5

\* findSeries keeps the series whose episodes come next, or ends.
LEMMA SeriesInfoEffect ==
  ASSUME LsTypeOK, NEW s \in SeriesIds, SeriesInfo(s)
  PROVE /\ Reading("seriesRow")
        /\ \E at \in {reader.at + 1, reader.at + 2}, todo \in SUBSET SeriesIds :
             /\ todo \subseteq reader.todo \cup reader.allowed["series"]
             /\ at = reader.at + 2 => todo = reader.todo
             /\ Goes(at, reader.allowed, 0, todo, reader.last, reader.out, reader.twice)
  <1>1. /\ Reading("seriesRow") /\ reader \in ReaderType /\ reader.at \in Nat \ {0}
    BY ReadingBegun DEF SeriesInfo, ReaderType
  <1>2. /\ reader.allowed \in [Fields -> SUBSET Ids] /\ reader.out \in SUBSET Entries
        /\ reader.twice \in BOOLEAN /\ reader.last \in BOOLEAN /\ reader.todo \in SUBSET SeriesIds
    BY <1>1 DEF ReaderType
  <1>3. CASE s \in reader.allowed["series"] \cap series
    <2>1. PICK at \in Nat \ {0} : at = reader.at + 1
      BY <1>1
    <2>2. PICK todo \in SUBSET SeriesIds : todo = {s}
      OBVIOUS
    <2>3. Silent(at, 0, todo, reader.last)
      BY <1>1, <1>3, <2>1, <2>2 DEF SeriesInfo, Read, Move, ReaderType, Silent
    <2>4. Goes(at, reader.allowed, 0, todo, reader.last, reader.out, reader.twice)
      BY <1>1, <1>2, <2>3, GoesSilently
    <2>. QED BY <1>1, <1>3, <2>1, <2>2, <2>4
  <1>4. CASE s \notin reader.allowed["series"] \cap series
    <2>1. PICK at \in Nat \ {0} : at = reader.at + 2
      BY <1>1
    <2>2. PICK r : r = [reader EXCEPT !.at = reader.at + 1, !.offset = 0]
      OBVIOUS
    <2>3. Silent(at, 0, reader.todo, reader.last)
      <3>1. Move(reader) = r
        BY <1>1, <2>2 DEF Move, ReaderType
      <3>2. reader' = Move(r) /\ UNCHANGED <<channel, movies, series, episodes, bouquet>>
        BY <1>4, <3>1 DEF SeriesInfo, Read
      <3>3. r.at = reader.at + 1
        BY <1>1, <2>2 DEF ReaderType
      <3>4. Move(r) = [r EXCEPT !.at = at, !.offset = 0]
        <4>1. r.at + 1 = at
          BY <1>1, <2>1, <3>3
        <4>2. Move(r) = [r EXCEPT !.at = r.at + 1, !.offset = 0]
          BY DEF Move
        <4>. QED BY <4>1, <4>2
      <3>5. [r EXCEPT !.at = at, !.offset = 0] = [reader EXCEPT !.at = at, !.offset = 0]
        BY <1>1, <2>2 DEF ReaderType
      <3>6. [reader EXCEPT !.at = at, !.offset = 0]
              = [reader EXCEPT !.at = at, !.offset = 0, !.todo = reader.todo, !.last = reader.last]
        BY <1>1 DEF ReaderType
      <3>7. reader' = [reader EXCEPT !.at = at, !.offset = 0, !.todo = reader.todo, !.last = reader.last]
        BY <3>2, <3>4, <3>5, <3>6
      <3>. QED BY <3>2, <3>7 DEF Silent
    <2>4. Goes(at, reader.allowed, 0, reader.todo, reader.last, reader.out, reader.twice)
      BY <1>1, <1>2, <2>3, GoesSilently
    <2>. QED BY <1>1, <1>2, <2>1, <2>4
  <1>. QED BY <1>3, <1>4

\* Its episodes end the answer.
LEMMA SeriesEpisodesEffect ==
  ASSUME LsTypeOK, SeriesEpisodes
  PROVE /\ Reading("seriesEpisodes")
        /\ \E s \in reader.todo :
             Goes(reader.at + 1, reader.allowed, 0, {}, reader.last, reader.out \cup EpisodesOf(s),
                  reader.twice \/ EpisodesOf(s) \cap reader.out # {})
  <1>1. Reading("seriesEpisodes") /\ reader \in ReaderType /\ reader.at \in Nat \ {0}
    BY ReadingBegun DEF SeriesEpisodes, ReaderType
  <1>2. PICK s \in reader.todo : Read(Move(Put([reader EXCEPT !.todo = {}], EpisodesOf(s))))
    BY DEF SeriesEpisodes
  <1>3. PICK xs \in SUBSET Entries : xs = EpisodesOf(s)
    BY EpisodeEntries
  <1>4. PICK at \in Nat \ {0} : at = reader.at + 1
    BY <1>1
  <1>5. PICK todo \in SUBSET SeriesIds : todo = {}
    OBVIOUS
  <1>6. PutsOut(at, 0, todo, xs)
    BY <1>1, <1>2, <1>3, <1>4, <1>5 DEF Read, Move, Put, PutsOut, ReaderType
  <1>7. Goes(at, reader.allowed, 0, todo, reader.last, reader.out \cup xs,
             reader.twice \/ xs \cap reader.out # {})
    BY <1>1, <1>6, PutEffect
  <1>. QED BY <1>1, <1>3, <1>4, <1>5, <1>7

\* How many rows of a finite table come before an id in its order.
LEMMA RankType ==
  ASSUME NEW T, IsFiniteSet(T), NEW id
  PROVE  /\ Above(T, id) \in Nat /\ IsFiniteSet({other \in T : other > id})
         /\ \A U \in SUBSET T : Above(U, id) <= Above(T, id)
  <1>1. {other \in T : other > id} \in SUBSET T
    OBVIOUS
  <1>2. IsFiniteSet({other \in T : other > id}) /\ Above(T, id) \in Nat
    BY <1>1, FS_Subset, FS_CardinalityType DEF Above
  <1>3. ASSUME NEW U \in SUBSET T PROVE Above(U, id) <= Above(T, id)
    <2>1. {other \in U : other > id} \in SUBSET {other \in T : other > id}
      OBVIOUS
    <2>. QED BY <1>2, <2>1, FS_Subset DEF Above
  <1>. QED BY <1>2, <1>3

\* No two rows come after as many others, and each after fewer than there are.
LEMMA RanksDiffer ==
  ASSUME NEW T \in SUBSET Nat, IsFiniteSet(T), NEW x \in T, NEW y \in T, x < y
  PROVE  Above(T, y) < Above(T, x)
  <1>. DEFINE X == {other \in T : other > x}
              Y == {other \in T : other > y}
  <1>1. IsFiniteSet(X) /\ Above(T, x) = Cardinality(X) /\ Above(T, x) \in Nat
        /\ Above(T, y) = Cardinality(Y) /\ Above(T, y) \in Nat
    BY RankType DEF Above
  <1>2. Y \in SUBSET X
    <2>1. \A o \in T : o > y => o > x
      OBVIOUS
    <2>. QED BY <2>1
  <1>3. y \in X /\ y \notin Y
    OBVIOUS
  <1>4. X # Y
    BY <1>3
  <1>. HIDE DEF X, Y
  <1>5. Cardinality(Y) <= Cardinality(X) /\ Cardinality(X) # Cardinality(Y)
    BY <1>1, <1>2, <1>4, FS_Subset
  <1>. QED BY <1>1, <1>5

LEMMA RankBelowSize ==
  ASSUME NEW T \in SUBSET Nat, IsFiniteSet(T), NEW x \in T
  PROVE  Above(T, x) \in Nat /\ Above(T, x) < Cardinality(T)
  <1>. DEFINE X == {other \in T : other > x}
  <1>1. Above(T, x) = Cardinality(X) /\ Above(T, x) \in Nat /\ Cardinality(T) \in Nat
    BY RankType, FS_CardinalityType DEF Above
  <1>2. X \in SUBSET T /\ x \notin X
    OBVIOUS
  <1>3. X # T
    BY <1>2
  <1>. HIDE DEF X
  <1>4. Cardinality(X) <= Cardinality(T) /\ Cardinality(X) # Cardinality(T)
    BY <1>2, <1>3, FS_Subset
  <1>. QED BY <1>1, <1>4

\* So the ranks of a table are 0, 1, 2, ... without a gap.
LEMMA RanksAreAll ==
  ASSUME NEW T \in SUBSET Nat, IsFiniteSet(T), NEW k \in Nat, k < Cardinality(T)
  PROVE  \E x \in T : Above(T, x) = k
  <1>. DEFINE n == Cardinality(T)
              f == [x \in T |-> Above(T, x)]
  <1>1. n \in Nat
    BY FS_CardinalityType
  <1>2. f \in [T -> 0..(n - 1)]
    BY <1>1, RankBelowSize
  <1>3. ASSUME NEW x \in T, NEW y \in T, f[x] = f[y] PROVE x = y
    <2>1. Above(T, x) = Above(T, y) /\ Above(T, x) \in Nat
      BY <1>3, RankType
    <2>2. ~(x < y) /\ ~(y < x)
      BY <2>1, RanksDiffer
    <2>. QED BY <2>2
  <1>4. f \in Injection(T, 0..(n - 1))
    BY <1>2, <1>3 DEF Injection, IsInjective
  <1>5. IsFiniteSet(0..(n - 1)) /\ Cardinality(0..(n - 1)) = n
    <2>1. 0 \in Int /\ n - 1 \in Int /\ n > 0
      BY <1>1
    <2>2. IsFiniteSet(0..(n - 1)) /\ Cardinality(0..(n - 1)) = IF 0 > n - 1 THEN 0 ELSE n - 1 - 0 + 1
      BY <2>1, FS_Interval
    <2>. QED BY <1>1, <2>1, <2>2
  <1>6. f \in Surjection(T, 0..(n - 1))
    BY <1>4, <1>5, FS_Injection
  <1>7. k \in 0..(n - 1)
    BY <1>1
  <1>8. \E x \in T : f[x] = k
    BY <1>6, <1>7 DEF Surjection
  <1>. QED BY <1>8

\* A row beyond a batch is there only when the batch is full.
LEMMA FullBatch ==
  ASSUME NEW T \in SUBSET Nat, IsFiniteSet(T), NEW x \in T,
         NEW offset \in Nat, Above(T, x) >= offset + BatchSize
  PROVE  Cardinality(Rows(T, BatchSize, offset)) >= BatchSize
  <1>. DEFINE R == Rows(T, BatchSize, offset)
              I == offset..(offset + BatchSize - 1)
              g == [y \in R |-> Above(T, y)]
  <1>1. BatchSize \in Nat \ {0} /\ Cardinality(T) \in Nat
    BY ListingAssumption, FS_CardinalityType
  <1>2. R \in SUBSET T /\ IsFiniteSet(R)
    BY RowsOfTable, FS_Subset
  <1>3. \A y \in T : Above(T, y) \in Nat
    BY RankType
  <1>4. g \in [R -> I]
    <2>1. \A y \in R : Above(T, y) \in Nat /\ Above(T, y) >= offset
                       /\ Above(T, y) < offset + BatchSize
      BY <1>3 DEF Rows
    <2>2. \A y \in R : Above(T, y) \in I
      BY <1>1, <2>1
    <2>. QED BY <2>2
  <1>5. ASSUME NEW k \in I PROVE \E y \in R : g[y] = k
    <2>1. k \in Nat /\ k < Cardinality(T)
      BY <1>1, <1>3, RankBelowSize
    <2>2. PICK y \in T : Above(T, y) = k
      BY <2>1, RanksAreAll
    <2>3. y \in R
      BY <1>1, <2>2 DEF Rows
    <2>. QED BY <2>2, <2>3
  <1>6. g \in Surjection(R, I)
    BY <1>4, <1>5 DEF Surjection
  <1>7. Cardinality(I) = BatchSize
    BY <1>1, FS_Interval
  <1>8. Cardinality(R) \in Nat
    BY <1>2, FS_CardinalityType
  <1>. HIDE DEF R, I, g
  <1>9. Cardinality(I) <= Cardinality(R)
    BY <1>2, <1>6, FS_Surjection
  <1>. QED BY <1>1, <1>7, <1>8, <1>9 DEF R

\* The cursor belongs to the stage it was set in: no offset, batch or last-batch
\* mark is left for another stage, and an exhausted one has been left.
Clean ==
  Begun => /\ ~Reading("listMovies") /\ ~Reading("listSeries") => reader.offset = 0
           /\ ~Reading("listSeries") /\ ~Past("listSeries") => ~reader.last
           /\ ~Reading("listSeries") /\ ~Reading("seriesEpisodes") => reader.todo = {}
           /\ ~(Reading("listSeries") /\ reader.todo = {} /\ reader.last)
\* An entry not out yet lies ahead: its list has not been read, or it is among the
\* rows beyond the offset, or its series is in the batch under way.
Missing(x) ==
  /\ x[1] = "live" => ~Past("listLive")
  /\ x[1] = "movie" => /\ ~Past("listMovies")
                       /\ Reading("listMovies") => Above(movies, x[2]) >= reader.offset
  /\ x[1] = "episode" => /\ ~Past("listSeries")
                         /\ Reading("listSeries") => \/ x[2][1] \in reader.todo
                              \/ (~reader.last /\ Above(series, x[2][1]) >= reader.offset)
\* Unless a title was deleted, what was offered all the time is out or ahead.
Found ==
  Begun /\ ~reader.removed => \A x \in reader.always \ reader.out : Missing(x)
\* An entry that is out lies behind: its row, if it still exists, is before the
\* offset.
PutOut(x) ==
  /\ x[1] \in {"live", "movie", "episode"}
  /\ x[1] = "live" => Past("listLive")
  /\ x[1] = "movie" => \/ Past("listMovies")
                       \/ (Reading("listMovies") /\ (x[2] \in movies => Above(movies, x[2]) < reader.offset))
  /\ x[1] = "episode" => \/ Past("listSeries")
                         \/ /\ Reading("listSeries") /\ x[2][1] \notin reader.todo
                            /\ x[2][1] \in series => Above(series, x[2][1]) < reader.offset
\* Unless a title was created, what is out is behind, so nothing is put out twice.
Once ==
  Begun /\ ~reader.added =>
    /\ ~reader.twice
    /\ reader.key \in ApiKeys /\ ~Answered => reader.out = {}
    /\ Reading("listSeries") => \A s \in reader.todo \cap series : Above(series, s) < reader.offset
    /\ reader.key \in PlaylistKeys => \A x \in reader.out : PutOut(x)

\* The inductive invariant of the lists.
LsInv ==
  LsTypeOK /\ Witnessed /\ AllowedWere /\ OutWas /\ AllowedKept /\ Clean /\ Found /\ Once

----------------------------------------------------------------------------
(* The cursor, and the steps of the invariant                                *)

\* Which stages answers of the player API and playlists go through.
LEMMA StagesOfKeys ==
  ASSUME NEW key \in Keys, NEW i \in 1..Len(Stages(key))
  PROVE  /\ key \in ApiKeys => Stages(key)[i] \notin {"listMovies", "listSeries"}
         /\ key \in PlaylistKeys =>
              Stages(key)[i] \in Fields \cup {"listLive", "listMovies", "listSeries"}
         /\ Stages(key)[i] = "seriesRow" =>
              key \in ApiKeys /\ i = 2 /\ Len(Stages(key)) = 3 /\ Stages(key)[3] = "seriesEpisodes"
         /\ key \in PlaylistKeys => key \notin ApiKeys
  <1>0. /\ \A j \in 1..7 : j = 1 \/ j = 2 \/ j = 3 \/ j = 4 \/ j = 5 \/ j = 6 \/ j = 7
        /\ \A j \in 1..5 : j = 1 \/ j = 2 \/ j = 3 \/ j = 4 \/ j = 5
        /\ \A j \in 1..3 : j = 1 \/ j = 2 \/ j = 3
        /\ \A j \in 1..2 : j = 1 \/ j = 2
    OBVIOUS
  <1>1. CASE key = "all"
    <2>1. Len(Stages(key)) = 7
      BY <1>1, StageRows
    <2>2. i = 1 \/ i = 2 \/ i = 3 \/ i = 4 \/ i = 5 \/ i = 6 \/ i = 7
      BY <1>0, <2>1
    <2>. QED BY <1>1, <2>2, StageRows DEF ApiKeys, PlaylistKeys, Fields
  <1>2. CASE key \in {"live", "radio_streams", "movie", "series"}
    <2>1. Len(Stages(key)) = 5
      BY <1>2, StageRows
    <2>2. i = 1 \/ i = 2 \/ i = 3 \/ i = 4 \/ i = 5
      BY <1>0, <2>1
    <2>3. /\ Stages(key)[1] = "channels" /\ Stages(key)[2] = "movies" /\ Stages(key)[3] = "series"
          /\ Stages(key)[4] = "radios" /\ Stages(key)[5] \in {"listLive", "listMovies", "listSeries"}
      BY <1>2, StageRows
    <2>4. key \notin ApiKeys /\ key \in PlaylistKeys
      BY <1>2 DEF ApiKeys, PlaylistKeys
    <2>. QED BY <2>2, <2>3, <2>4 DEF Fields
  <1>3. CASE key \in {"get_live_streams", "get_vod_streams", "get_vod_info", "get_series"}
    <2>1. Len(Stages(key)) = 2
      BY <1>3, StageRows
    <2>2. i = 1 \/ i = 2
      BY <1>0, <2>1
    <2>3. /\ Stages(key)[1] \in {"channels", "movies", "series"}
          /\ Stages(key)[2] \in {"listLive", "pageMovies", "movieInfo", "pageSeries"}
      BY <1>3, StageRows
    <2>4. key \in ApiKeys /\ key \notin PlaylistKeys
      BY <1>3 DEF ApiKeys, PlaylistKeys
    <2>. QED BY <2>2, <2>3, <2>4
  <1>4. CASE key = "get_series_info"
    <2>1. Len(Stages(key)) = 3
      BY <1>4, StageRows
    <2>2. i = 1 \/ i = 2 \/ i = 3
      BY <1>0, <2>1
    <2>. QED BY <1>4, <2>1, <2>2, StageRows DEF ApiKeys, PlaylistKeys
  <1>. QED BY <1>1, <1>2, <1>3, <1>4 DEF Keys, PlaylistKeys, ApiKeys

\* Nothing was read twice: the stage at hand is not behind.
LEMMA Here ==
  ASSUME LsTypeOK, NEW t, Reading(t)
  PROVE  /\ ~Past(t) /\ ~Answered
         /\ \A s : Reading(s) => s = t
         /\ t = "listLive" => Past("channels")
         /\ t = "listMovies" => Past("movies")
         /\ t = "listSeries" => Past("series")
         /\ t \in {"listMovies", "listSeries"} => reader.key \in PlaylistKeys
         /\ t \in {"pageMovies", "pageSeries", "movieInfo", "seriesRow", "seriesEpisodes"} =>
              reader.key \in ApiKeys /\ reader.key \notin PlaylistKeys
  <1>. DEFINE st == Stages(reader.key)
  <1>1. /\ Begun /\ reader \in ReaderType /\ reader.at \in 1..Len(st) /\ Len(st) \in Nat
        /\ st[reader.at] = t /\ reader.key \in Keys
    BY ReadingBegun DEF ReaderType
  <1>2. Distinct(st) /\ Ordered(st)
    BY <1>1, StageTable
  <1>3. ~Past(t)
    BY <1>1, <1>2 DEF Past, Distinct
  <1>4. \A s : Reading(s) => s = t
    BY <1>1 DEF Reading
  <1>5. /\ t = "listLive" => Past("channels")
        /\ t = "listMovies" => Past("movies")
        /\ t = "listSeries" => Past("series")
    BY <1>1, <1>2 DEF Past, Ordered
  <1>6. /\ t \in {"listMovies", "listSeries"} => reader.key \in PlaylistKeys
        /\ t \in {"pageMovies", "pageSeries", "movieInfo", "seriesRow", "seriesEpisodes"} =>
              reader.key \in ApiKeys /\ reader.key \notin PlaylistKeys
    <2>1. /\ reader.key \in ApiKeys => t \notin {"listMovies", "listSeries"}
          /\ reader.key \in PlaylistKeys => t \in Fields \cup {"listLive", "listMovies", "listSeries"}
      BY <1>1, StagesOfKeys
    <2>. QED BY <1>1, <2>1 DEF Keys, Fields
  <1>7. ~Answered
    BY DEF Reading
  <1>. QED BY <1>3, <1>4, <1>5, <1>6, <1>7

\* Going on to the next stage.
LEMMA Advance ==
  ASSUME LsTypeOK, NEW t, Reading(t), reader'.key = reader.key, reader'.at = reader.at + 1,
         reader' \in ReaderType
  PROVE  /\ Begun' /\ reader'.at <= Len(Stages(reader'.key)) + 1
         /\ \A s : Past(s)' <=> Past(s) \/ s = t
         /\ \A s : Reading(s)' => s # t /\ ~Past(s) /\ ~Reading(s)
         /\ t \notin Fields \cup {"seriesRow"} /\ reader.key \in ApiKeys => Answered'
         /\ t = "seriesRow" => Reading("seriesEpisodes")'
         /\ reader.key \in PlaylistKeys => ~Reading("seriesEpisodes")'
  <1>. DEFINE st == Stages(reader.key)
  <1>1. /\ Begun /\ reader \in ReaderType /\ reader.at \in 1..Len(st) /\ Len(st) \in Nat
        /\ st[reader.at] = t /\ reader.key \in Keys /\ reader.at \in Nat \ {0}
    BY ReadingBegun DEF ReaderType
  <1>2. Distinct(st)
    BY <1>1, StageTable
  <1>3. Begun' /\ reader'.key # "none"
    BY <1>1 DEF Begun, Idle, ReaderType, Keys, PlaylistKeys, ApiKeys
  <1>4. reader'.at <= Len(Stages(reader'.key)) + 1
    BY <1>1
  <1>5. ASSUME NEW s PROVE Past(s)' <=> Past(s) \/ s = t
    <2>1. Past(s)' <=> \E i \in 1..reader.at : st[i] = s
      BY <1>1 DEF Past
    <2>. QED BY <1>1, <2>1 DEF Past
  <1>6. ASSUME NEW s, Reading(s)' PROVE s # t /\ ~Past(s) /\ ~Reading(s)
    <2>1. reader.at + 1 \in 1..Len(st) /\ st[reader.at + 1] = s
      BY <1>1, <1>6 DEF Reading, Answered
    <2>2. s # t
      BY <1>1, <1>2, <2>1 DEF Distinct
    <2>3. ~Past(s)
      BY <1>1, <1>2, <2>1 DEF Distinct, Past
    <2>4. ~Reading(s)
      BY <1>1, <2>2 DEF Reading
    <2>. QED BY <2>2, <2>3, <2>4
  <1>7. ASSUME t \notin Fields \cup {"seriesRow"}, reader.key \in ApiKeys PROVE Answered'
    <2>1. PutsLast(st)
      BY <1>1, <1>7, StageTable
    <2>2. reader.at = Len(st)
      BY <1>1, <1>7, <2>1 DEF PutsLast
    <2>. QED BY <1>1, <1>3, <2>2 DEF Answered
  <1>8. ASSUME t = "seriesRow" PROVE Reading("seriesEpisodes")'
    <2>1. reader.at = 2 /\ Len(st) = 3 /\ st[3] = "seriesEpisodes"
      BY <1>1, <1>8, StagesOfKeys
    <2>. QED BY <1>3, <2>1 DEF Reading, Answered
  <1>9. ASSUME reader.key \in PlaylistKeys PROVE ~Reading("seriesEpisodes")'
    <2>. SUFFICES ASSUME Reading("seriesEpisodes")' PROVE FALSE
      OBVIOUS
    <2>1. reader.at + 1 \in 1..Len(st) /\ st[reader.at + 1] = "seriesEpisodes"
      BY <1>1 DEF Reading, Answered
    <2>2. st[reader.at + 1] \in Fields \cup {"listLive", "listMovies", "listSeries"}
      BY <1>1, <1>9, <2>1, StagesOfKeys
    <2>. QED BY <2>1, <2>2 DEF Fields
  <1>. QED BY <1>3, <1>4, <1>5, <1>6, <1>7, <1>8, <1>9

\* Staying where one is.
LEMMA Staying ==
  ASSUME LsTypeOK, NEW t, Reading(t), reader'.key = reader.key, reader'.at = reader.at,
         reader' \in ReaderType
  PROVE  /\ Begun' /\ reader'.at <= Len(Stages(reader'.key)) + 1
         /\ \A s : (Past(s)' <=> Past(s)) /\ (Reading(s)' <=> Reading(s))
         /\ ~Answered'
  <1>1. Begun /\ reader \in ReaderType /\ reader.at \in 1..Len(Stages(reader.key))
        /\ Len(Stages(reader.key)) \in Nat
    BY ReadingBegun
  <1>2. Begun' /\ reader'.key # "none"
    BY <1>1 DEF Begun, Idle, ReaderType, Keys, PlaylistKeys, ApiKeys
  <1>. QED BY <1>1, <1>2 DEF Past, Reading, Answered

\* What every step of an answer keeps that reads none of the allowed sets.
LEMMA CommonKept ==
  ASSUME LsInv, NEW t, Reading(t), t \notin Fields, NEW at, NEW offset, NEW todo, NEW last,
         NEW out, NEW twice, Goes(at, reader.allowed, offset, todo, last, out, twice),
         at = reader.at \/ at = reader.at + 1
  PROVE  LsTypeOK' /\ Witnessed' /\ AllowedWere' /\ AllowedKept' /\ Begun'
  <1>. USE DEF LsInv
  <1>1. Begun /\ reader \in ReaderType
    BY ReadingBegun
  <1>2. /\ reader' \in ReaderType /\ reader'.at = at /\ reader'.key = reader.key
        /\ reader'.line = reader.line /\ reader'.allowed = reader.allowed
        /\ reader'.could = reader.could /\ reader'.was = reader.was
        /\ reader'.always = reader.always
        /\ UNCHANGED <<channel, movies, series, episodes, bouquet>>
    BY DEF Goes
  <1>3. /\ Begun' /\ reader'.at <= Len(Stages(reader'.key)) + 1
        /\ \A f \in Fields : Past(f)' => Past(f)
    BY <1>2, Advance, Staying
  <1>4. LsTypeOK'
    BY <1>1, <1>2, <1>3 DEF LsTypeOK, Begun
  <1>5. Witnessed'
    <2>1. /\ Entitled(reader.line)' = Entitled(reader.line) /\ Existing' = Existing
          /\ Offered(reader.line, reader.key)' = Offered(reader.line, reader.key)
      BY <1>2 DEF Entitled, Existing, Offered, BouquetAllows
    <2>. QED BY <1>1, <1>2, <2>1 DEF Witnessed
  <1>6. AllowedWere'
    BY <1>1, <1>2 DEF AllowedWere
  <1>7. AllowedKept'
    <2>1. \A x \in reader.always : FieldOf[x[1]] \in Fields
      BY <1>1 DEF FieldOf, Fields, ReaderType, Entries
    <2>. QED BY <1>1, <1>2, <1>3, <2>1 DEF AllowedKept
  <1>. QED BY <1>3, <1>4, <1>5, <1>6, <1>7

\* One lemma for each step of an answer: the invariant is kept.
LEMMA ReadAllowedInv == ASSUME LsInv, NEW f \in Fields, ReadAllowed(f) PROVE LsInv'
  <1>. USE DEF LsInv
  <1>1. /\ Reading(f) /\ Begun /\ reader \in ReaderType
        /\ AllowedIdSet(reader.line, f) \subseteq IdsOf(f)
    BY ReadAllowedEffect, ReadingBegun
  <1>2. /\ reader' \in ReaderType /\ reader'.at = reader.at + 1 /\ reader'.key = reader.key
        /\ reader'.line = reader.line
        /\ reader'.allowed = [reader.allowed EXCEPT ![f] = AllowedIdSet(reader.line, f)]
        /\ reader'.offset = 0 /\ reader'.todo = reader.todo /\ reader'.last = reader.last
        /\ reader'.out = reader.out /\ (reader'.twice => reader.twice)
        /\ reader'.could = reader.could /\ reader'.was = reader.was
        /\ reader'.always = reader.always
        /\ reader'.removed = reader.removed /\ reader'.added = reader.added
        /\ UNCHANGED <<channel, movies, series, episodes, bouquet>>
    BY ReadAllowedEffect DEF Goes
  <1>3. /\ Begun' /\ reader'.at <= Len(Stages(reader'.key)) + 1
        /\ \A s : Past(s)' <=> Past(s) \/ s = f
        /\ \A s : Reading(s)' => s # f /\ ~Past(s) /\ ~Reading(s)
    BY <1>1, <1>2, Advance
  <1>4. ~Answered /\ ~Past(f) /\ \A s : Reading(s) => s = f
    BY <1>1, Here
  <1>5. f \notin {"listLive", "listMovies", "listSeries", "seriesEpisodes"}
    BY DEF Fields
  <1>6. /\ \A g \in Fields : reader'.allowed[g] = IF g = f THEN AllowedIdSet(reader.line, f) ELSE reader.allowed[g]
    BY <1>1, <1>2 DEF ReaderType
  <1>7. LsTypeOK'
    <2>1. \A g \in Fields : reader'.allowed[g] \subseteq IdsOf(g)
      BY <1>1, <1>6 DEF LsTypeOK, Begun
    <2>. QED BY <1>1, <1>2, <1>3, <2>1 DEF LsTypeOK, Begun
  <1>8. Witnessed'
    <2>1. /\ Entitled(reader.line)' = Entitled(reader.line) /\ Existing' = Existing
          /\ Offered(reader.line, reader.key)' = Offered(reader.line, reader.key)
      BY <1>2 DEF Entitled, Existing, Offered, BouquetAllows
    <2>. QED BY <1>1, <1>2, <2>1 DEF Witnessed
  <1>9. AllowedWere'
    <2>. SUFFICES ASSUME NEW x \in Entries, Subject(x) \in reader'.allowed[FieldOf[x[1]]]
                  PROVE x \in reader.could
      BY <1>2 DEF AllowedWere
    <2>1. FieldOf[x[1]] \in Fields
      BY DEF FieldOf, Fields, Entries
    <2>2. CASE FieldOf[x[1]] = f
      <3>1. BouquetAllows(reader.line, f, Subject(x))
        <4>1. Subject(x) \in AllowedIdSet(reader.line, f)
          BY <1>6, <2>2
        <4>. QED BY <4>1 DEF AllowedIdSet, BouquetAllows
      <3>. QED BY <1>1, <2>2, <3>1 DEF Witnessed, Entitled
    <2>3. CASE FieldOf[x[1]] # f
      BY <1>1, <1>6, <2>1, <2>3 DEF AllowedWere
    <2>. QED BY <2>2, <2>3
  <1>10. AllowedKept'
    <2>. SUFFICES ASSUME NEW x \in reader.always, Past(FieldOf[x[1]])'
                  PROVE Subject(x) \in reader'.allowed[FieldOf[x[1]]]
      BY <1>2 DEF AllowedKept
    <2>1. FieldOf[x[1]] \in Fields /\ x \in Entries /\ Subject(x) \in IdsOf(FieldOf[x[1]])
      BY <1>1 DEF FieldOf, Fields, Entries, ReaderType, IdsOf, Subject, EpisodeIds
    <2>2. CASE FieldOf[x[1]] = f
      <3>1. BouquetAllows(reader.line, f, Subject(x))
        BY <1>1, <2>2 DEF Witnessed, Offered, Entitled
      <3>2. Subject(x) \in AllowedIdSet(reader.line, f)
        BY <2>1, <2>2, <3>1 DEF AllowedIdSet, BouquetAllows
      <3>. QED BY <1>6, <2>1, <2>2, <3>2
    <2>3. CASE FieldOf[x[1]] # f
      <3>1. Past(FieldOf[x[1]])
        BY <1>3, <2>3
      <3>. QED BY <1>1, <1>6, <2>1, <2>3, <3>1 DEF AllowedKept
    <2>. QED BY <2>2, <2>3
  <1>11. OutWas'
    <2>1. reader.todo = {}
      BY <1>1, <1>4, <1>5 DEF Clean
    <2>. QED BY <1>1, <1>2, <2>1 DEF OutWas
  <1>12. Clean'
    BY <1>1, <1>2, <1>3, <1>4, <1>5 DEF Clean
  <1>13. Found'
    <2>. SUFFICES ASSUME ~reader.removed, NEW x \in reader.always \ reader.out PROVE Missing(x)'
      BY <1>2 DEF Found
    <2>1. Missing(x)
      BY <1>1 DEF Found
    <2>2. ~reader.last \/ ~Reading("listSeries")'
      BY <1>1, <1>3, <1>4, <1>5 DEF Clean
    <2>3. x[1] = "movie" => x[2] \in MovieIds
      BY <1>1 DEF ReaderType, Entries
    <2>4. Above(movies, x[2]) \in Nat /\ Above(series, x[2][1]) \in Nat
      BY RankType, ListingAssumption, FS_Subset DEF LsTypeOK
    <2>. QED BY <1>2, <1>3, <1>5, <2>1, <2>2, <2>4 DEF Missing
  <1>14. Once'
    <2>. SUFFICES ASSUME ~reader.added
                  PROVE /\ ~reader'.twice
                        /\ reader'.key \in ApiKeys => reader'.out = {}
                        /\ Reading("listSeries")' => reader'.todo = {}
                        /\ reader.key \in PlaylistKeys => \A x \in reader.out : PutOut(x)'
      BY <1>2 DEF Once
    <2>1. reader.todo = {}
      BY <1>1, <1>4, <1>5 DEF Clean
    <2>2. /\ ~reader.twice /\ (reader.key \in ApiKeys => reader.out = {})
          /\ reader.key \in PlaylistKeys => \A x \in reader.out : PutOut(x)
      BY <1>1, <1>4 DEF Once
    <2>3. ASSUME reader.key \in PlaylistKeys, NEW x \in reader.out PROVE PutOut(x)'
      BY <1>3, <1>4, <1>5, <2>2, <2>3 DEF PutOut
    <2>. QED BY <1>2, <2>1, <2>2, <2>3
  <1>. QED BY <1>7, <1>8, <1>9, <1>10, <1>11, <1>12, <1>13, <1>14

LEMMA ListLiveInv == ASSUME LsInv, ListLive PROVE LsInv'
  <1>. USE DEF LsInv
  <1>0. PICK shown \in SUBSET LiveIds :
             /\ \A c \in LiveIds : c \in shown <=> Shown(c)
             /\ Goes(reader.at + 1, reader.allowed, 0, reader.todo, reader.last,
                     reader.out \cup ({"live"} \X shown),
                     reader.twice \/ ({"live"} \X shown) \cap reader.out # {})
    BY ListLiveEffect
  <1>. DEFINE xs == {"live"} \X shown
  <1>1. Reading("listLive") /\ Begun /\ reader \in ReaderType
    BY ListLiveEffect, ReadingBegun
  <1>2. /\ reader' \in ReaderType /\ reader'.at = reader.at + 1 /\ reader'.key = reader.key
        /\ reader'.line = reader.line /\ reader'.allowed = reader.allowed
        /\ reader'.offset = 0 /\ reader'.todo = reader.todo /\ reader'.last = reader.last
        /\ reader'.out = reader.out \cup xs /\ (reader'.twice => reader.twice \/ xs \cap reader.out # {})
        /\ reader'.could = reader.could /\ reader'.was = reader.was
        /\ reader'.always = reader.always
        /\ reader'.removed = reader.removed /\ reader'.added = reader.added
        /\ UNCHANGED <<channel, movies, series, episodes, bouquet>>
    BY <1>0 DEF Goes
  <1>3. /\ Begun' /\ \A s : Past(s)' <=> Past(s) \/ s = "listLive"
        /\ \A s : Reading(s)' => s # "listLive" /\ ~Past(s) /\ ~Reading(s)
        /\ reader.key \in ApiKeys => Answered'
    BY <1>1, <1>2, Advance DEF Fields
  <1>4. ~Answered /\ ~Past("listLive") /\ Past("channels") /\ \A s : Reading(s) => s = "listLive"
    BY <1>1, Here
  <1>5. LsTypeOK' /\ Witnessed' /\ AllowedWere' /\ AllowedKept'
    BY <1>0, <1>1, CommonKept DEF Fields
  <1>6. reader.todo = {}
    BY <1>1, <1>4 DEF Clean
  <1>7. OutWas'
    <2>1. ASSUME reader.key # "radio_streams", NEW x \in xs PROVE x \in reader.could \cap reader.was
      <3>1. PICK c \in shown : x = <<"live", c>>
        OBVIOUS
      <3>2. channel[c] \in {"normal", "radio"} /\ c \in reader.allowed["channels"]
        BY <1>0, <2>1 DEF Shown
      <3>3. x \in Existing
        BY <3>1, <3>2 DEF Existing
      <3>4. x \in Entries /\ Subject(x) \in reader.allowed[FieldOf[x[1]]]
        BY <3>1, <3>2 DEF Entries, Subject, FieldOf
      <3>. QED BY <1>1, <3>3, <3>4 DEF Witnessed, AllowedWere
    <2>. QED BY <1>1, <1>2, <1>6, <2>1 DEF OutWas
  <1>8. Clean'
    BY <1>1, <1>2, <1>3, <1>4 DEF Clean
  <1>9. Found'
    <2>. SUFFICES ASSUME ~reader.removed, NEW x \in reader.always \ (reader.out \cup xs) PROVE Missing(x)'
      BY <1>2 DEF Found
    <2>1. Missing(x)
      BY <1>1 DEF Found
    <2>2. ~reader.last \/ ~Reading("listSeries")'
      BY <1>1, <1>3, <1>4 DEF Clean
    <2>4. Above(movies, x[2]) \in Nat /\ Above(series, x[2][1]) \in Nat
      BY RankType, ListingAssumption, FS_Subset DEF LsTypeOK
    <2>5. x[1] # "live"
      <3>. SUFFICES ASSUME x[1] = "live" PROVE x \in xs
        OBVIOUS
      <3>1. x \in Offered(reader.line, reader.key) /\ x \in Entries
        BY <1>1 DEF Witnessed, ReaderType
      <3>2. /\ reader.key \in {"all", "live", "get_live_streams"} /\ channel[x[2]] = "normal"
            /\ x[2] \in LiveIds /\ x = <<"live", x[2]>>
        BY <3>1 DEF Offered, Entries
      <3>3. x[2] \in reader.allowed["channels"]
        BY <1>1, <1>4 DEF AllowedKept, FieldOf, Subject
      <3>4. Shown(x[2])
        BY <3>2, <3>3 DEF Shown
      <3>. QED BY <1>0, <3>2, <3>4
    <2>. QED BY <1>2, <1>3, <2>1, <2>2, <2>4, <2>5 DEF Missing
  <1>10. Once'
    <2>. SUFFICES ASSUME ~reader.added
                  PROVE /\ ~reader'.twice
                        /\ reader.key \in ApiKeys => Answered'
                        /\ Reading("listSeries")' => reader'.todo = {}
                        /\ reader.key \in PlaylistKeys => \A x \in reader.out \cup xs : PutOut(x)'
      BY <1>2 DEF Once
    <2>2. /\ ~reader.twice /\ (reader.key \in ApiKeys => reader.out = {})
          /\ reader.key \in PlaylistKeys => \A x \in reader.out : PutOut(x)
      BY <1>1, <1>4 DEF Once
    <2>3. ASSUME reader.key \in PlaylistKeys, NEW x \in reader.out PROVE PutOut(x)'
      BY <1>3, <1>4, <2>2, <2>3 DEF PutOut
    <2>4. ASSUME NEW x \in xs PROVE PutOut(x)'
      <3>1. x[1] = "live"
        OBVIOUS
      <3>. QED BY <1>3, <3>1 DEF PutOut
    <2>5. xs \cap reader.out = {}
      <3>1. ASSUME reader.key \in PlaylistKeys, NEW x \in xs, x \in reader.out PROVE FALSE
        <4>1. x[1] = "live"
          OBVIOUS
        <4>. QED BY <1>4, <2>2, <3>1, <4>1 DEF PutOut
      <3>. QED BY <1>1, <2>2, <3>1 DEF ReaderType, Keys
    <2>. QED BY <1>2, <1>3, <1>6, <2>2, <2>3, <2>4, <2>5
  <1>. QED BY <1>5, <1>7, <1>8, <1>9, <1>10

LEMMA ListMoviesInv == ASSUME LsInv, ListMovies PROVE LsInv'
  <1>. USE DEF LsInv
  <1>0. PICK batch \in SUBSET MovieIds, at \in Nat, offset \in Nat, xs \in SUBSET Entries :
             /\ batch = Rows(movies, BatchSize, reader.offset)
             /\ xs = {"movie"} \X (batch \cap reader.allowed["movies"])
             /\ Cardinality(batch) < BatchSize => at = reader.at + 1 /\ offset = 0
             /\ ~(Cardinality(batch) < BatchSize) =>
                  at = reader.at /\ offset = reader.offset + BatchSize
             /\ Goes(at, reader.allowed, offset, reader.todo, reader.last, reader.out \cup xs,
                     reader.twice \/ xs \cap reader.out # {})
    BY ListMoviesEffect
  <1>. DEFINE ends == Cardinality(batch) < BatchSize
  <1>1. /\ Reading("listMovies") /\ Begun /\ reader \in ReaderType /\ reader.offset \in Nat
        /\ BatchSize \in Nat \ {0}
    BY ListMoviesEffect, ReadingBegun, ListingAssumption DEF ReaderType
  <1>2. /\ reader' \in ReaderType /\ reader'.at = at /\ reader'.key = reader.key
        /\ reader'.line = reader.line /\ reader'.allowed = reader.allowed
        /\ reader'.offset = offset /\ reader'.todo = reader.todo /\ reader'.last = reader.last
        /\ reader'.out = reader.out \cup xs /\ (reader'.twice => reader.twice \/ xs \cap reader.out # {})
        /\ reader'.could = reader.could /\ reader'.was = reader.was
        /\ reader'.always = reader.always
        /\ reader'.removed = reader.removed /\ reader'.added = reader.added
        /\ UNCHANGED <<channel, movies, series, episodes, bouquet>>
    BY <1>0 DEF Goes
  <1>3. /\ Begun'
        /\ ends => /\ \A s : Past(s)' <=> Past(s) \/ s = "listMovies"
                   /\ \A s : Reading(s)' => s # "listMovies" /\ ~Past(s) /\ ~Reading(s)
        /\ ~ends => \A s : (Past(s)' <=> Past(s)) /\ (Reading(s)' <=> Reading(s))
    <2>1. CASE ends
      BY <1>0, <1>1, <1>2, <2>1, Advance
    <2>2. CASE ~ends
      BY <1>0, <1>1, <1>2, <2>2, Staying
    <2>. QED BY <2>1, <2>2
  <1>4. /\ ~Answered /\ ~Past("listMovies") /\ Past("movies") /\ reader.key \in PlaylistKeys
        /\ \A s : Reading(s) => s = "listMovies"
    BY <1>1, Here
  <1>5. LsTypeOK' /\ Witnessed' /\ AllowedWere' /\ AllowedKept'
    BY <1>0, <1>1, CommonKept DEF Fields
  <1>6. reader.todo = {} /\ movies \in SUBSET Nat /\ IsFiniteSet(movies)
    BY <1>1, <1>4, ListingAssumption, FS_Subset DEF Clean, LsTypeOK
  <1>7. OutWas'
    <2>1. ASSUME NEW x \in xs PROVE x \in reader.could \cap reader.was
      <3>1. PICK m \in batch \cap reader.allowed["movies"] : x = <<"movie", m>>
        BY <1>0
      <3>2. m \in movies
        BY <1>0, RowsOfTable
      <3>3. x \in Existing
        BY <3>1, <3>2 DEF Existing
      <3>4. x \in Entries /\ Subject(x) \in reader.allowed[FieldOf[x[1]]]
        BY <3>1 DEF Entries, Subject, FieldOf
      <3>. QED BY <1>1, <3>3, <3>4 DEF Witnessed, AllowedWere
    <2>. QED BY <1>1, <1>2, <1>6, <2>1 DEF OutWas
  <1>8. Clean'
    <2>1. CASE ends
      BY <1>0, <1>1, <1>2, <1>3, <1>4, <2>1 DEF Clean
    <2>2. CASE ~ends
      BY <1>1, <1>2, <1>3, <1>4, <2>2 DEF Clean
    <2>. QED BY <2>1, <2>2
  <1>9. Found'
    <2>. SUFFICES ASSUME ~reader.removed, NEW x \in reader.always \ (reader.out \cup xs) PROVE Missing(x)'
      BY <1>2 DEF Found
    <2>1. Missing(x)
      BY <1>1 DEF Found
    <2>2. ~reader.last \/ ~Reading("listSeries")'
      BY <1>1, <1>3, <1>4 DEF Clean
    <2>4. Above(movies, x[2]) \in Nat /\ Above(series, x[2][1]) \in Nat
      BY RankType, ListingAssumption, FS_Subset DEF LsTypeOK
    <2>5. ASSUME x[1] = "movie" PROVE ~ends /\ Above(movies, x[2]) >= reader.offset + BatchSize
      <3>1. x \in Offered(reader.line, reader.key) /\ x \in Entries
        BY <1>1 DEF Witnessed, ReaderType
      <3>2. x[2] \in movies /\ x = <<"movie", x[2]>>
        BY <2>5, <3>1 DEF Offered, Entries, Existing
      <3>3. x[2] \in reader.allowed["movies"]
        BY <1>1, <1>4, <2>5 DEF AllowedKept, FieldOf, Subject
      <3>4. x[2] \notin batch
        BY <1>0, <3>2, <3>3
      <3>5. Above(movies, x[2]) >= reader.offset
        BY <1>1, <2>1, <2>5 DEF Missing
      <3>6. Above(movies, x[2]) >= reader.offset + BatchSize
        BY <1>0, <1>1, <2>4, <3>2, <3>4, <3>5 DEF Rows
      <3>7. Cardinality(batch) >= BatchSize
        BY <1>0, <1>1, <1>6, <3>2, <3>6, FullBatch
      <3>8. Cardinality(batch) \in Nat
        BY ListingAssumption, FS_Subset, FS_CardinalityType
      <3>. QED BY <1>1, <3>6, <3>7, <3>8
    <2>6. CASE ends
      <3>1. x[1] # "movie"
        BY <2>5, <2>6
      <3>. QED BY <1>0, <1>2, <1>3, <2>1, <2>2, <2>4, <2>6, <3>1 DEF Missing
    <2>7. CASE ~ends
      BY <1>0, <1>2, <1>3, <1>4, <2>1, <2>2, <2>4, <2>5, <2>7 DEF Missing
    <2>. QED BY <2>6, <2>7
  <1>10. Once'
    <2>. SUFFICES ASSUME ~reader.added
                  PROVE /\ ~reader'.twice
                        /\ Reading("listSeries")' => reader'.todo = {}
                        /\ \A x \in reader.out \cup xs : PutOut(x)'
      BY <1>1, <1>2, <1>4 DEF Once, PlaylistKeys, ApiKeys
    <2>2. ~reader.twice /\ \A x \in reader.out : PutOut(x)
      BY <1>1, <1>4 DEF Once
    <2>3. ASSUME NEW x \in reader.out PROVE PutOut(x)'
      <3>1. CASE ends
        BY <1>3, <1>4, <2>2, <3>1 DEF PutOut
      <3>2. CASE ~ends
        <4>1. Above(movies, x[2]) \in Nat
          BY RankType, <1>6
        <4>2. PutOut(x)
          BY <2>2
        <4>3. x[1] = "movie" => (Past("listMovies")' \/ (Reading("listMovies")' /\
                                (x[2] \in movies => Above(movies, x[2]) < offset)))
          BY <1>0, <1>1, <1>3, <3>2, <4>1, <4>2 DEF PutOut
        <4>. QED BY <1>2, <1>3, <1>4, <3>2, <4>2, <4>3 DEF PutOut
      <3>. QED BY <3>1, <3>2
    <2>4. ASSUME NEW x \in xs PROVE PutOut(x)' /\ x \notin reader.out
      <3>1. x[1] = "movie" /\ x[2] \in batch
        BY <1>0
      <3>2. x[2] \in movies /\ Above(movies, x[2]) >= reader.offset
            /\ Above(movies, x[2]) < reader.offset + BatchSize
        BY <1>0, <3>1 DEF Rows
      <3>3. Above(movies, x[2]) \in Nat
        BY RankType, <1>6
      <3>4. PutOut(x)'
        <4>1. CASE ends
          BY <1>3, <3>1, <4>1 DEF PutOut
        <4>2. CASE ~ends
          BY <1>0, <1>1, <1>2, <1>3, <3>1, <3>2, <4>2 DEF PutOut
        <4>. QED BY <4>1, <4>2
      <3>5. x \notin reader.out
        BY <1>1, <1>4, <2>2, <3>1, <3>2, <3>3 DEF PutOut
      <3>. QED BY <3>4, <3>5
    <2>. QED BY <1>2, <1>6, <2>2, <2>3, <2>4
  <1>. QED BY <1>5, <1>7, <1>8, <1>9, <1>10

LEMMA ListSeriesInv == ASSUME LsInv, ListSeries PROVE LsInv'
  <1>. USE DEF LsInv
  <1>0. PICK batch \in SUBSET SeriesIds, at \in Nat, offset \in Nat, todo \in SUBSET SeriesIds,
              last \in BOOLEAN :
             /\ batch = Rows(series, BatchSize, reader.offset)
             /\ todo = batch \cap reader.allowed["series"]
             /\ last <=> Cardinality(batch) < BatchSize
             /\ todo = {} /\ last => at = reader.at + 1 /\ offset = 0
             /\ ~(todo = {} /\ last) => at = reader.at /\ offset = reader.offset + BatchSize
             /\ Goes(at, reader.allowed, offset, todo, last, reader.out, reader.twice)
    BY ListSeriesEffect
  <1>. DEFINE ends == todo = {} /\ last
  <1>1. /\ Reading("listSeries") /\ Begun /\ reader \in ReaderType /\ reader.offset \in Nat
        /\ BatchSize \in Nat \ {0} /\ reader.todo = {}
    BY ListSeriesEffect, ReadingBegun, ListingAssumption DEF ReaderType
  <1>2. /\ reader' \in ReaderType /\ reader'.at = at /\ reader'.key = reader.key
        /\ reader'.line = reader.line /\ reader'.allowed = reader.allowed
        /\ reader'.offset = offset /\ reader'.todo = todo /\ reader'.last = last
        /\ reader'.out = reader.out /\ (reader'.twice => reader.twice)
        /\ reader'.could = reader.could /\ reader'.was = reader.was
        /\ reader'.always = reader.always
        /\ reader'.removed = reader.removed /\ reader'.added = reader.added
        /\ UNCHANGED <<channel, movies, series, episodes, bouquet>>
    BY <1>0 DEF Goes
  <1>3. /\ Begun'
        /\ ends => /\ \A s : Past(s)' <=> Past(s) \/ s = "listSeries"
                   /\ \A s : Reading(s)' => s # "listSeries" /\ ~Past(s) /\ ~Reading(s)
        /\ ~ends => \A s : (Past(s)' <=> Past(s)) /\ (Reading(s)' <=> Reading(s))
    <2>1. CASE ends
      BY <1>0, <1>1, <1>2, <2>1, Advance
    <2>2. CASE ~ends
      BY <1>0, <1>1, <1>2, <2>2, Staying
    <2>. QED BY <2>1, <2>2
  <1>4. /\ ~Answered /\ ~Past("listSeries") /\ Past("series") /\ reader.key \in PlaylistKeys
        /\ \A s : Reading(s) => s = "listSeries"
    BY <1>1, Here
  <1>5. LsTypeOK' /\ Witnessed' /\ AllowedWere' /\ AllowedKept'
    BY <1>0, <1>1, CommonKept DEF Fields
  <1>6. series \in SUBSET Nat /\ IsFiniteSet(series)
    BY ListingAssumption, FS_Subset DEF LsTypeOK
  <1>7. OutWas'
    BY <1>0, <1>1, <1>2 DEF OutWas
  <1>8. Clean'
    <2>1. CASE ends
      BY <1>0, <1>1, <1>2, <1>3, <1>4, <2>1 DEF Clean
    <2>2. CASE ~ends
      BY <1>0, <1>1, <1>2, <1>3, <1>4, <2>2 DEF Clean
    <2>. QED BY <2>1, <2>2
  <1>9. Found'
    <2>. SUFFICES ASSUME ~reader.removed, NEW x \in reader.always \ reader.out PROVE Missing(x)'
      BY <1>2 DEF Found
    <2>1. Missing(x)
      BY <1>1 DEF Found
    <2>4. Above(movies, x[2]) \in Nat /\ Above(series, x[2][1]) \in Nat
      BY RankType, ListingAssumption, FS_Subset DEF LsTypeOK
    <2>5. ASSUME x[1] = "episode"
          PROVE x[2][1] \in todo \/ (~last /\ Above(series, x[2][1]) >= reader.offset + BatchSize)
      <3>. SUFFICES ASSUME x[2][1] \notin todo
                    PROVE ~last /\ Above(series, x[2][1]) >= reader.offset + BatchSize
        OBVIOUS
      <3>1. x \in Offered(reader.line, reader.key) /\ x \in Entries
        BY <1>1 DEF Witnessed, ReaderType
      <3>2. x[2][1] \in series
        BY <2>5, <3>1 DEF Offered, Existing
      <3>3. x[2][1] \in reader.allowed["series"]
        BY <1>1, <1>4, <2>5 DEF AllowedKept, FieldOf, Subject
      <3>4. x[2][1] \notin batch
        BY <1>0, <3>3
      <3>5. Above(series, x[2][1]) >= reader.offset
        BY <1>1, <2>1, <2>5 DEF Missing
      <3>6. Above(series, x[2][1]) >= reader.offset + BatchSize
        BY <1>0, <1>1, <2>4, <3>2, <3>4, <3>5 DEF Rows
      <3>7. Cardinality(batch) >= BatchSize
        BY <1>0, <1>1, <1>6, <3>2, <3>6, FullBatch
      <3>8. Cardinality(batch) \in Nat
        BY ListingAssumption, FS_Subset, FS_CardinalityType
      <3>9. ~(Cardinality(batch) < BatchSize)
        BY <1>1, <3>7, <3>8
      <3>. QED BY <1>0, <3>6, <3>9
    <2>6. CASE ends
      <3>1. x[1] # "episode"
        BY <2>5, <2>6
      <3>. QED BY <1>0, <1>2, <1>3, <2>1, <2>4, <2>6, <3>1 DEF Missing
    <2>7. CASE ~ends
      BY <1>0, <1>2, <1>3, <1>4, <2>1, <2>4, <2>5, <2>7 DEF Missing
    <2>. QED BY <2>6, <2>7
  <1>10. Once'
    <2>. SUFFICES ASSUME ~reader.added
                  PROVE /\ ~reader'.twice
                        /\ Reading("listSeries")' => \A s \in todo \cap series : Above(series, s) < offset
                        /\ \A x \in reader.out : PutOut(x)'
      BY <1>1, <1>2, <1>4 DEF Once, PlaylistKeys, ApiKeys
    <2>2. ~reader.twice /\ \A x \in reader.out : PutOut(x)
      BY <1>1, <1>4 DEF Once
    <2>3. ASSUME NEW x \in reader.out PROVE PutOut(x)'
      <3>1. CASE ends
        BY <1>3, <1>4, <2>2, <3>1 DEF PutOut
      <3>2. CASE ~ends
        <4>1. Above(series, x[2][1]) \in Nat
          BY RankType, <1>6
        <4>2. PutOut(x)
          BY <2>2
        <4>3. ASSUME x[1] = "episode"
              PROVE x[2][1] \notin todo /\ (x[2][1] \in series => Above(series, x[2][1]) < offset)
          <5>1. x[2][1] \in series => Above(series, x[2][1]) < reader.offset
            BY <1>4, <4>2, <4>3 DEF PutOut
          <5>2. x[2][1] \notin batch
            BY <1>0, <1>1, <4>1, <5>1 DEF Rows
          <5>. QED BY <1>0, <1>1, <3>2, <4>1, <5>1, <5>2
        <4>. QED BY <1>1, <1>2, <1>3, <1>4, <3>2, <4>2, <4>3 DEF PutOut
      <3>. QED BY <3>1, <3>2
    <2>4. Reading("listSeries")' => \A s \in todo \cap series : Above(series, s) < offset
      <3>1. CASE ends
        BY <1>3, <3>1
      <3>2. CASE ~ends
        BY <1>0, <3>2 DEF Rows
      <3>. QED BY <3>1, <3>2
    <2>. QED BY <1>2, <2>2, <2>3, <2>4
  <1>. QED BY <1>5, <1>7, <1>8, <1>9, <1>10

LEMMA ListEpisodesInv == ASSUME LsInv, ListEpisodes PROVE LsInv'
  <1>. USE DEF LsInv
  <1>0. PICK s \in reader.todo, at \in Nat, offset \in Nat, todo \in SUBSET SeriesIds :
             /\ todo = reader.todo \ {s}
             /\ todo = {} /\ reader.last => at = reader.at + 1 /\ offset = 0
             /\ ~(todo = {} /\ reader.last) => at = reader.at /\ offset = reader.offset
             /\ Goes(at, reader.allowed, offset, todo, reader.last, reader.out \cup EpisodesOf(s),
                     reader.twice \/ EpisodesOf(s) \cap reader.out # {})
    BY ListEpisodesEffect
  <1>. DEFINE ends == todo = {} /\ reader.last
              xs == EpisodesOf(s)
  <1>1. Reading("listSeries") /\ Begun /\ reader \in ReaderType /\ reader.offset \in Nat
    BY ListEpisodesEffect, ReadingBegun DEF ReaderType
  <1>2. /\ reader' \in ReaderType /\ reader'.at = at /\ reader'.key = reader.key
        /\ reader'.line = reader.line /\ reader'.allowed = reader.allowed
        /\ reader'.offset = offset /\ reader'.todo = todo /\ reader'.last = reader.last
        /\ reader'.out = reader.out \cup xs /\ (reader'.twice => reader.twice \/ xs \cap reader.out # {})
        /\ reader'.could = reader.could /\ reader'.was = reader.was
        /\ reader'.always = reader.always
        /\ reader'.removed = reader.removed /\ reader'.added = reader.added
        /\ UNCHANGED <<channel, movies, series, episodes, bouquet>>
    BY <1>0 DEF Goes
  <1>3. /\ Begun'
        /\ ends => /\ \A t : Past(t)' <=> Past(t) \/ t = "listSeries"
                   /\ \A t : Reading(t)' => t # "listSeries" /\ ~Past(t) /\ ~Reading(t)
        /\ ~ends => \A t : (Past(t)' <=> Past(t)) /\ (Reading(t)' <=> Reading(t))
    <2>1. CASE ends
      BY <1>0, <1>1, <1>2, <2>1, Advance
    <2>2. CASE ~ends
      BY <1>0, <1>1, <1>2, <2>2, Staying
    <2>. QED BY <2>1, <2>2
  <1>4. /\ ~Answered /\ ~Past("listSeries") /\ reader.key \in PlaylistKeys
        /\ \A t : Reading(t) => t = "listSeries"
    BY <1>1, Here
  <1>5. LsTypeOK' /\ Witnessed' /\ AllowedWere' /\ AllowedKept'
    BY <1>0, <1>1, CommonKept DEF Fields
  <1>6. series \in SUBSET Nat /\ IsFiniteSet(series)
    BY ListingAssumption, FS_Subset DEF LsTypeOK
  <1>7. /\ xs \subseteq Entries
        /\ \A x \in xs : /\ x[1] = "episode" /\ x[2] \in episodes /\ x[2][1] = s
                         /\ x = <<x[1], x[2]>>
        /\ \A e \in episodes : e[1] = s => <<"episode", e>> \in xs
    BY EpisodeEntries
  <1>. HIDE DEF xs
  <1>8. OutWas'
    <2>1. ASSUME NEW x \in xs PROVE x \in reader.could \cap reader.was
      <3>1. x = <<"episode", x[2]>> /\ x[2] \in episodes /\ x \in Entries
        BY <1>7
      <3>2. x \in Existing
        BY <3>1 DEF Existing
      <3>3. Subject(x) = s /\ FieldOf[x[1]] = "series"
        BY <1>7 DEF Subject, FieldOf
      <3>4. s \in reader.allowed["series"]
        BY <1>1 DEF OutWas
      <3>. QED BY <1>1, <3>1, <3>2, <3>3, <3>4 DEF Witnessed, AllowedWere
    <2>. QED BY <1>0, <1>1, <1>2, <2>1 DEF OutWas
  <1>9. Clean'
    <2>1. CASE ends
      BY <1>0, <1>1, <1>2, <1>3, <1>4, <2>1 DEF Clean
    <2>2. CASE ~ends
      BY <1>0, <1>1, <1>2, <1>3, <1>4, <2>2 DEF Clean
    <2>. QED BY <2>1, <2>2
  <1>10. Found'
    <2>. SUFFICES ASSUME ~reader.removed, NEW x \in reader.always \ (reader.out \cup xs) PROVE Missing(x)'
      BY <1>2 DEF Found
    <2>1. Missing(x)
      BY <1>1 DEF Found
    <2>4. Above(movies, x[2]) \in Nat /\ Above(series, x[2][1]) \in Nat
      BY RankType, ListingAssumption, FS_Subset DEF LsTypeOK
    <2>5. ASSUME x[1] = "episode"
          PROVE x[2][1] \in todo \/ (~reader.last /\ Above(series, x[2][1]) >= reader.offset)
      <3>1. x \in Offered(reader.line, reader.key) /\ x \in Entries
        BY <1>1 DEF Witnessed, ReaderType
      <3>2. x[2] \in episodes /\ x = <<"episode", x[2]>>
        BY <2>5, <3>1 DEF Offered, Existing, Entries
      <3>3. x[2][1] # s
        BY <1>7, <3>2
      <3>. QED BY <1>0, <1>1, <2>1, <2>5, <3>3 DEF Missing
    <2>6. CASE ends
      <3>1. x[1] # "episode"
        BY <2>5, <2>6
      <3>. QED BY <1>0, <1>2, <1>3, <2>1, <2>4, <2>6, <3>1 DEF Missing
    <2>7. CASE ~ends
      BY <1>0, <1>2, <1>3, <1>4, <2>1, <2>4, <2>5, <2>7 DEF Missing
    <2>. QED BY <2>6, <2>7
  <1>11. Once'
    <2>. SUFFICES ASSUME ~reader.added
                  PROVE /\ ~reader'.twice
                        /\ Reading("listSeries")' => \A t \in todo \cap series : Above(series, t) < offset
                        /\ \A x \in reader.out \cup xs : PutOut(x)'
      BY <1>1, <1>2, <1>4 DEF Once, PlaylistKeys, ApiKeys
    <2>2. /\ ~reader.twice /\ \A x \in reader.out : PutOut(x)
          /\ \A t \in reader.todo \cap series : Above(series, t) < reader.offset
      BY <1>1, <1>4 DEF Once
    <2>3. ASSUME NEW x \in reader.out PROVE PutOut(x)'
      <3>1. CASE ends
        BY <1>3, <1>4, <2>2, <3>1 DEF PutOut
      <3>2. CASE ~ends
        BY <1>0, <1>1, <1>2, <1>3, <1>4, <2>2, <3>2 DEF PutOut
      <3>. QED BY <3>1, <3>2
    <2>4. ASSUME NEW x \in xs PROVE PutOut(x)' /\ x \notin reader.out
      <3>1. x[1] = "episode" /\ x[2][1] = s
        BY <1>7
      <3>2. PutOut(x)'
        <4>1. CASE ends
          BY <1>3, <3>1, <4>1 DEF PutOut
        <4>2. CASE ~ends
          BY <1>0, <1>1, <1>2, <1>3, <2>2, <3>1, <4>2 DEF PutOut
        <4>. QED BY <4>1, <4>2
      <3>3. x \notin reader.out
        BY <1>4, <2>2, <3>1 DEF PutOut
      <3>. QED BY <3>2, <3>3
    <2>5. Reading("listSeries")' => \A t \in todo \cap series : Above(series, t) < offset
      <3>1. CASE ends
        BY <1>3, <3>1
      <3>2. CASE ~ends
        BY <1>0, <2>2, <3>2
      <3>. QED BY <3>1, <3>2
    <2>. QED BY <1>2, <2>2, <2>3, <2>4, <2>5
  <1>. QED BY <1>5, <1>8, <1>9, <1>10, <1>11

\* The last step of an answer of the player API, whatever it puts out.
LEMMA ApiAnswerInv ==
  ASSUME LsInv, NEW t \in {"pageMovies", "pageSeries", "movieInfo", "seriesEpisodes"}, Reading(t),
         NEW xs \in SUBSET Entries, NEW todo \in SUBSET SeriesIds,
         Goes(reader.at + 1, reader.allowed, 0, todo, reader.last, reader.out \cup xs,
              reader.twice \/ xs \cap reader.out # {}),
         \A x \in xs : Subject(x) \in reader.allowed[FieldOf[x[1]]] /\ x \in Existing,
         todo = {} \/ (todo = reader.todo /\ t # "seriesEpisodes")
  PROVE  LsInv'
  <1>. USE DEF LsInv
  <1>1. Begun /\ reader \in ReaderType
    BY ReadingBegun
  <1>2. /\ reader' \in ReaderType /\ reader'.at = reader.at + 1 /\ reader'.key = reader.key
        /\ reader'.line = reader.line /\ reader'.allowed = reader.allowed
        /\ reader'.offset = 0 /\ reader'.todo = todo /\ reader'.last = reader.last
        /\ reader'.out = reader.out \cup xs /\ (reader'.twice => reader.twice \/ xs \cap reader.out # {})
        /\ reader'.could = reader.could /\ reader'.was = reader.was
        /\ reader'.always = reader.always
        /\ reader'.removed = reader.removed /\ reader'.added = reader.added
        /\ UNCHANGED <<channel, movies, series, episodes, bouquet>>
    BY DEF Goes
  <1>3. ~Answered /\ reader.key \in ApiKeys /\ reader.key \notin PlaylistKeys /\ \A s : Reading(s) => s = t
    BY Here
  <1>4. /\ Begun' /\ Answered' /\ \A s : Past(s)' <=> Past(s) \/ s = t
    BY <1>2, <1>3, Advance DEF Fields
  <1>5. \A s : ~Reading(s)'
    BY <1>4 DEF Reading
  <1>6. LsTypeOK' /\ Witnessed' /\ AllowedWere' /\ AllowedKept'
    BY CommonKept DEF Fields
  <1>7. todo = {}
    BY <1>1, <1>3 DEF Clean
  <1>8. OutWas'
    BY <1>1, <1>2, <1>7 DEF OutWas, Witnessed, AllowedWere
  <1>9. Clean'
    BY <1>1, <1>2, <1>3, <1>4, <1>5, <1>7 DEF Clean
  <1>10. Found'
    BY <1>1, <1>2, <1>4, <1>5 DEF Found, Missing
  <1>11. Once'
    BY <1>1, <1>2, <1>3, <1>4, <1>5 DEF Once
  <1>. QED BY <1>6, <1>8, <1>9, <1>10, <1>11

LEMMA PageInv ==
  ASSUME LsInv, PageMovies \/ PageSeries \/ (\E m \in MovieIds : VodInfo(m)) PROVE LsInv'
  <1>. USE DEF LsInv
  <1>1. PICK t \in {"pageMovies", "pageSeries", "movieInfo"}, xs \in SUBSET Entries :
          /\ Reading(t)
          /\ xs \subseteq {"movie"} \X (movies \cap reader.allowed["movies"])
                          \cup {"series"} \X (series \cap reader.allowed["series"])
          /\ Goes(reader.at + 1, reader.allowed, 0, reader.todo, reader.last, reader.out \cup xs,
                  reader.twice \/ xs \cap reader.out # {})
    BY PageEffect
  <1>2. reader.todo \in SUBSET SeriesIds
    BY <1>1, ReadingBegun DEF ReaderType
  <1>3. ASSUME NEW x \in xs PROVE Subject(x) \in reader.allowed[FieldOf[x[1]]] /\ x \in Existing
    <2>1. CASE x \in {"movie"} \X (movies \cap reader.allowed["movies"])
      BY <2>1 DEF Subject, FieldOf, Existing
    <2>2. CASE x \in {"series"} \X (series \cap reader.allowed["series"])
      BY <2>2 DEF Subject, FieldOf, Existing
    <2>. QED BY <1>1, <2>1, <2>2
  <1>. QED BY <1>1, <1>2, <1>3, ApiAnswerInv

LEMMA SeriesEpisodesInv == ASSUME LsInv, SeriesEpisodes PROVE LsInv'
  <1>. USE DEF LsInv
  <1>1. PICK s \in reader.todo :
             Goes(reader.at + 1, reader.allowed, 0, {}, reader.last, reader.out \cup EpisodesOf(s),
                  reader.twice \/ EpisodesOf(s) \cap reader.out # {})
    BY SeriesEpisodesEffect
  <1>2. Reading("seriesEpisodes") /\ Begun
    BY SeriesEpisodesEffect, ReadingBegun
  <1>3. PICK xs \in SUBSET Entries : xs = EpisodesOf(s)
    BY EpisodeEntries
  <1>4. s \in reader.allowed["series"]
    BY <1>2 DEF OutWas
  <1>5. ASSUME NEW x \in xs PROVE Subject(x) \in reader.allowed[FieldOf[x[1]]] /\ x \in Existing
    <2>1. x[1] = "episode" /\ x[2] \in episodes /\ x[2][1] = s /\ x = <<x[1], x[2]>>
      BY <1>3, EpisodeEntries
    <2>. QED BY <1>4, <2>1 DEF Subject, FieldOf, Existing
  <1>6. PICK todo \in SUBSET SeriesIds : todo = {}
    OBVIOUS
  <1>. QED BY <1>1, <1>2, <1>3, <1>5, <1>6, ApiAnswerInv

LEMMA SeriesInfoInv == ASSUME LsInv, NEW s \in SeriesIds, SeriesInfo(s) PROVE LsInv'
  <1>. USE DEF LsInv
  <1>0. PICK at \in {reader.at + 1, reader.at + 2}, todo \in SUBSET SeriesIds :
             /\ todo \subseteq reader.todo \cup reader.allowed["series"]
             /\ at = reader.at + 2 => todo = reader.todo
             /\ Goes(at, reader.allowed, 0, todo, reader.last, reader.out, reader.twice)
    BY SeriesInfoEffect
  <1>1. Reading("seriesRow") /\ Begun /\ reader \in ReaderType /\ reader.at \in Nat \ {0}
    BY SeriesInfoEffect, ReadingBegun DEF ReaderType
  <1>2. /\ reader' \in ReaderType /\ reader'.at = at /\ reader'.key = reader.key
        /\ reader'.line = reader.line /\ reader'.allowed = reader.allowed
        /\ reader'.offset = 0 /\ reader'.todo = todo /\ reader'.last = reader.last
        /\ reader'.out = reader.out /\ (reader'.twice => reader.twice)
        /\ reader'.could = reader.could /\ reader'.was = reader.was
        /\ reader'.always = reader.always
        /\ reader'.removed = reader.removed /\ reader'.added = reader.added
        /\ UNCHANGED <<channel, movies, series, episodes, bouquet>>
    BY <1>0 DEF Goes
  <1>3. /\ ~Answered /\ reader.key \in ApiKeys /\ reader.key \notin PlaylistKeys
        /\ \A t : Reading(t) => t = "seriesRow"
    BY <1>1, Here
  <1>. DEFINE st == Stages(reader.key)
  <1>4. /\ reader.at = 2 /\ Len(st) = 3 /\ st[2] = "seriesRow" /\ st[3] = "seriesEpisodes"
    BY <1>1, ReadingBegun, StagesOfKeys DEF ReaderType
  <1>5. /\ Begun' /\ reader'.at <= Len(Stages(reader'.key)) + 1
    BY <1>0, <1>1, <1>2, <1>4 DEF Begun, Idle, ReaderType, Keys, PlaylistKeys, ApiKeys
  <1>6. \A t : Past(t)' => Past(t) \/ t \in {"seriesRow", "seriesEpisodes"}
    <2>. SUFFICES ASSUME NEW t, Past(t)', ~Past(t) PROVE t \in {"seriesRow", "seriesEpisodes"}
      OBVIOUS
    <2>1. PICK i \in 1..(at - 1) : st[i] = t
      BY <1>2 DEF Past
    <2>2. i = 1 \/ i = 2 \/ i = 3
      BY <1>0, <1>4
    <2>3. i # 1
      BY <1>4, <2>1 DEF Past
    <2>. QED BY <1>4, <2>1, <2>2, <2>3
  <1>7. \A t : Reading(t)' => t = "seriesEpisodes"
    BY <1>0, <1>2, <1>4 DEF Reading, Answered
  <1>8. at = reader.at + 1 => Reading("seriesEpisodes")'
    BY <1>2, <1>3, <1>4 DEF Reading, Answered, ApiKeys
  <1>9. reader.todo = {} /\ reader.offset = 0
    BY <1>1, <1>3 DEF Clean
  <1>10. Past("listSeries") => Past("listSeries")'
    BY <1>0, <1>1, <1>2 DEF Past
  <1>11. LsTypeOK'
    BY <1>1, <1>2, <1>5 DEF LsTypeOK, Begun
  <1>12. Witnessed'
    <2>1. /\ Entitled(reader.line)' = Entitled(reader.line) /\ Existing' = Existing
          /\ Offered(reader.line, reader.key)' = Offered(reader.line, reader.key)
      BY <1>2 DEF Entitled, Existing, Offered, BouquetAllows
    <2>. QED BY <1>1, <1>2, <2>1 DEF Witnessed
  <1>13. AllowedWere'
    BY <1>1, <1>2 DEF AllowedWere
  <1>14. AllowedKept'
    <2>1. \A x \in reader.always : FieldOf[x[1]] \in Fields
      BY <1>1 DEF FieldOf, Fields, ReaderType, Entries
    <2>. QED BY <1>1, <1>2, <1>6, <2>1 DEF AllowedKept, Fields
  <1>15. OutWas'
    BY <1>0, <1>1, <1>2, <1>9 DEF OutWas
  <1>16. Clean'
    <2>1. ~Reading("seriesEpisodes")' => todo = {}
      BY <1>0, <1>8, <1>9
    <2>. QED BY <1>1, <1>2, <1>3, <1>5, <1>7, <1>10, <2>1 DEF Clean
  <1>17. Found'
    BY <1>1, <1>2, <1>6, <1>7 DEF Found, Missing
  <1>18. Once'
    BY <1>1, <1>2, <1>3, <1>7 DEF Once
  <1>. QED BY <1>11, <1>12, <1>13, <1>14, <1>15, <1>16, <1>17, <1>18

\* A new request starts with nothing read and nothing out.
LEMMA NewRequestInv ==
  ASSUME LsInv, NEW key \in Keys, NEW line \in Subscriptions, NewRequest(key, line) PROVE LsInv'
  <1>. USE DEF LsInv
  <1>1. /\ UNCHANGED <<channel, movies, series, episodes, bouquet>>
        /\ reader' = [key |-> key, line |-> line, at |-> 1, allowed |-> [f \in Fields |-> {}],
                offset |-> 0, todo |-> {}, last |-> FALSE, out |-> {}, twice |-> FALSE,
                could |-> Entitled(line), was |-> Existing, always |-> Offered(line, key),
                edits |-> 0, removed |-> FALSE, added |-> FALSE]
    BY DEF NewRequest
  <1>2. /\ reader'.key = key /\ reader'.line = line /\ reader'.at = 1
        /\ reader'.allowed = [f \in Fields |-> {}]
        /\ reader'.offset = 0 /\ reader'.todo = {} /\ reader'.last = FALSE /\ reader'.out = {}
        /\ reader'.twice = FALSE /\ reader'.could = Entitled(line) /\ reader'.was = Existing
        /\ reader'.always = Offered(line, key) /\ reader'.removed = FALSE /\ reader'.added = FALSE
    BY <1>1
  <1>3. /\ Entitled(line) \in SUBSET Entries /\ Existing \in SUBSET Entries
        /\ Offered(line, key) \in SUBSET Entries
    BY DEF Entitled, Existing, Offered, LsTypeOK, Entries, EpisodeIds
  <1>4. reader' \in ReaderType
    <2>1. [f \in Fields |-> {}] \in [Fields -> SUBSET Ids] /\ 0 \in 0..MaxEdits /\ 1 \in Nat \ {0}
      BY ListingAssumption
    <2>2. PICK could \in SUBSET Entries, was \in SUBSET Entries, always \in SUBSET Entries :
            could = Entitled(line) /\ was = Existing /\ always = Offered(line, key)
      BY <1>3
    <2>3. reader' = [key |-> key, line |-> line, at |-> 1, allowed |-> [f \in Fields |-> {}],
                offset |-> 0, todo |-> {}, last |-> FALSE, out |-> {}, twice |-> FALSE,
                could |-> could, was |-> was, always |-> always,
                edits |-> 0, removed |-> FALSE, added |-> FALSE]
      BY <1>1, <2>2
    <2>. QED BY <2>1, <2>3 DEF ReaderType
  <1>5. Begun' /\ reader'.key # "none"
    BY <1>2 DEF Begun, Idle, Keys, PlaylistKeys, ApiKeys
  <1>6. \A s : ~Past(s)'
    BY <1>2 DEF Past
  <1>7. Len(Stages(key)) \in Nat
    BY StageTable
  <1>8. LsTypeOK'
    BY <1>1, <1>2, <1>4, <1>7 DEF LsTypeOK
  <1>9. Witnessed'
    <2>1. /\ Entitled(line)' = Entitled(line) /\ Existing' = Existing
          /\ Offered(line, key)' = Offered(line, key)
      BY <1>1 DEF Entitled, Existing, Offered, BouquetAllows
    <2>. QED BY <1>2, <2>1 DEF Witnessed
  <1>10. AllowedWere'
    <2>1. \A x \in Entries : FieldOf[x[1]] \in Fields
      BY DEF FieldOf, Fields, Entries
    <2>. QED BY <1>2, <2>1 DEF AllowedWere
  <1>11. AllowedKept'
    BY <1>6 DEF AllowedKept
  <1>12. OutWas'
    BY <1>2 DEF OutWas
  <1>13. Clean'
    BY <1>2 DEF Clean
  <1>14. Found'
    <2>. SUFFICES ASSUME NEW x PROVE Missing(x)'
      BY DEF Found
    <2>1. Above(movies, x[2]) \in Nat /\ Above(series, x[2][1]) \in Nat
      BY RankType, ListingAssumption, FS_Subset DEF LsTypeOK
    <2>2. reader'.offset = 0 /\ reader'.last = FALSE /\ movies' = movies /\ series' = series
      BY <1>1, <1>2
    <2>. QED BY <1>6, <2>1, <2>2 DEF Missing
  <1>15. Once'
    BY <1>2 DEF Once
  <1>. QED BY <1>8, <1>9, <1>10, <1>11, <1>12, <1>13, <1>14, <1>15

\* What an edit leaves of the reader, and what it notes.
Noted(removes, adds) ==
  /\ Begun /\ ~Answered
  /\ reader' \in ReaderType
  /\ reader'.key = reader.key /\ reader'.line = reader.line /\ reader'.at = reader.at
  /\ reader'.allowed = reader.allowed /\ reader'.offset = reader.offset
  /\ reader'.todo = reader.todo /\ reader'.last = reader.last /\ reader'.out = reader.out
  /\ reader'.twice = reader.twice
  /\ reader'.could = reader.could \cup Entitled(reader.line)'
  /\ reader'.was = reader.was \cup Existing'
  /\ reader'.always = reader.always \cap Offered(reader.line, reader.key)'
  /\ (reader'.removed <=> reader.removed \/ removes)
  /\ (reader'.added <=> reader.added \/ adds)

\* The tables keep their types.
Tables ==
  /\ channel \in [LiveIds -> Classes \cup {"none"}]
  /\ movies \subseteq MovieIds /\ series \subseteq SeriesIds /\ episodes \subseteq EpisodeIds
  /\ bouquet \in [BouquetIds -> [Fields -> SUBSET Ids]]
  /\ \A b \in BouquetIds, f \in Fields : bouquet[b][f] \subseteq IdsOf(f)

\* As the actions write it.
LEMMA EditedNotes ==
  ASSUME LsTypeOK, Live, NEW removes \in BOOLEAN, NEW adds \in BOOLEAN, Edited(removes, adds), Tables'
  PROVE  Noted(removes, adds)
  <1>1. Begun /\ ~Answered /\ reader \in ReaderType
    BY DEF Live, Begun, Idle, LsTypeOK
  <1>2. PICK line \in {reader.line}, key \in {reader.key} :
          /\ reader.edits < MaxEdits
          /\ reader' = [reader EXCEPT !.edits = @ + 1, !.could = @ \cup Entitled(line)', !.was = @ \cup Existing',
                          !.always = @ \cap Offered(line, key)',
                          !.removed = @ \/ removes, !.added = @ \/ adds]
    BY DEF Edited
  <1>3. Entitled(line)' \in SUBSET Entries /\ Existing' \in SUBSET Entries
    BY DEF Entitled, Existing, Tables, Entries, EpisodeIds
  <1>4. PICK could \in SUBSET Entries, was \in SUBSET Entries, always \in SUBSET Entries :
          /\ could = reader.could \cup Entitled(line)' /\ was = reader.was \cup Existing'
          /\ always = reader.always \cap Offered(line, key)'
    BY <1>1, <1>3 DEF ReaderType
  <1>5. PICK edits \in 0..MaxEdits : edits = reader.edits + 1
    BY <1>1, <1>2, ListingAssumption DEF ReaderType
  <1>6. PICK removed \in BOOLEAN, added \in BOOLEAN :
          removed = (reader.removed \/ removes) /\ added = (reader.added \/ adds)
    OBVIOUS
  <1>7. reader' = [reader EXCEPT !.edits = edits, !.could = could, !.was = was, !.always = always,
                                 !.removed = removed, !.added = added]
    BY <1>1, <1>2, <1>4, <1>5, <1>6 DEF ReaderType
  <1>8. reader' \in ReaderType
    BY <1>1, <1>7 DEF ReaderType
  <1>9. /\ reader'.key = reader.key /\ reader'.line = reader.line /\ reader'.at = reader.at
        /\ reader'.allowed = reader.allowed /\ reader'.offset = reader.offset
        /\ reader'.todo = reader.todo /\ reader'.last = reader.last /\ reader'.out = reader.out
        /\ reader'.twice = reader.twice
    BY <1>1, <1>7 DEF ReaderType
  <1>10. /\ reader'.could = could /\ reader'.was = was /\ reader'.always = always
         /\ reader'.removed = removed /\ reader'.added = added
    BY <1>1, <1>7 DEF ReaderType
  <1>11. line = reader.line /\ key = reader.key
    OBVIOUS
  <1>. QED BY <1>1, <1>4, <1>6, <1>8, <1>9, <1>10, <1>11 DEF Noted

\* Whatever is edited, the invariant stands.
LEMMA EditInv ==
  ASSUME LsInv, NEW removes \in BOOLEAN, NEW adds \in BOOLEAN, Noted(removes, adds), Tables',
         ~removes => movies \subseteq movies' /\ series \subseteq series',
         ~adds => movies' \subseteq movies /\ series' \subseteq series
  PROVE  LsInv'
  <1>. USE DEF LsInv
  <1>1. /\ Begun /\ reader \in ReaderType /\ reader.at <= Len(Stages(reader.key)) + 1
        /\ \A f \in Fields : reader.allowed[f] \subseteq IdsOf(f)
    BY DEF LsTypeOK, Begun, Noted
  <1>2. Begun' /\ reader'.key # "none"
    BY <1>1 DEF Noted, Begun, Idle, ReaderType, Keys, PlaylistKeys, ApiKeys
  <1>3. /\ ~Answered /\ ~Answered'
        /\ \A s : (Past(s)' <=> Past(s)) /\ (Reading(s)' <=> Reading(s))
    BY <1>1, <1>2 DEF Noted, Past, Reading, Answered
  <1>4. LsTypeOK'
    BY <1>1 DEF Noted, Tables, LsTypeOK
  <1>5. Witnessed'
    <2>1. /\ reader'.line = reader.line /\ reader'.key = reader.key
          /\ Entitled(reader.line)' \subseteq reader'.could /\ Existing' \subseteq reader'.was
          /\ reader'.always \subseteq Offered(reader.line, reader.key)'
      BY DEF Noted
    <2>. QED BY <2>1 DEF Witnessed
  <1>6. AllowedWere'
    BY <1>1 DEF AllowedWere, Noted
  <1>7. OutWas'
    BY <1>1 DEF OutWas, Noted
  <1>8. AllowedKept'
    BY <1>1, <1>3 DEF AllowedKept, Noted
  <1>9. Clean'
    BY <1>1, <1>3 DEF Clean, Noted
  <1>10. IsFiniteSet(movies) /\ IsFiniteSet(series) /\ IsFiniteSet(movies') /\ IsFiniteSet(series')
    BY <1>4, ListingAssumption, FS_Subset DEF LsTypeOK
  <1>11. Found'
    <2>. SUFFICES ASSUME ~reader'.removed, NEW x \in reader'.always \ reader'.out PROVE Missing(x)'
      BY DEF Found
    <2>1. ~removes /\ Missing(x)
      BY <1>1 DEF Found, Noted
    <2>2. /\ Above(movies, x[2]) \in Nat /\ Above(movies', x[2]) \in Nat
          /\ Above(movies, x[2]) <= Above(movies', x[2])
      BY <1>10, <2>1, RankType
    <2>3. /\ Above(series, x[2][1]) \in Nat /\ Above(series', x[2][1]) \in Nat
          /\ Above(series, x[2][1]) <= Above(series', x[2][1])
      BY <1>10, <2>1, RankType
    <2>4. reader.offset \in Nat
      BY <1>1 DEF ReaderType
    <2>5. reader'.offset = reader.offset /\ reader'.todo = reader.todo /\ reader'.last = reader.last
      BY DEF Noted
    <2>. QED BY <1>3, <2>1, <2>2, <2>3, <2>4, <2>5 DEF Missing
  <1>12. Once'
    <2>. SUFFICES ASSUME ~reader'.added
                  PROVE /\ ~reader'.twice
                        /\ reader'.key \in ApiKeys => reader'.out = {}
                        /\ Reading("listSeries")' =>
                             \A s \in reader'.todo \cap series' : Above(series', s) < reader'.offset
                        /\ reader'.key \in PlaylistKeys => \A x \in reader'.out : PutOut(x)'
      BY DEF Once
    <2>1. /\ ~adds /\ ~reader.twice /\ (reader.key \in ApiKeys => reader.out = {})
          /\ Reading("listSeries") => \A s \in reader.todo \cap series : Above(series, s) < reader.offset
          /\ reader.key \in PlaylistKeys => \A x \in reader.out : PutOut(x)
      BY <1>1, <1>3 DEF Once, Noted
    <2>2. /\ reader'.offset = reader.offset /\ reader'.todo = reader.todo /\ reader'.key = reader.key
          /\ reader'.out = reader.out /\ reader'.twice = reader.twice /\ reader.offset \in Nat
      BY <1>1 DEF Noted, ReaderType
    <2>3. \A id : /\ Above(movies, id) \in Nat /\ Above(movies', id) \in Nat
                  /\ Above(movies', id) <= Above(movies, id)
                  /\ Above(series, id) \in Nat /\ Above(series', id) \in Nat
                  /\ Above(series', id) <= Above(series, id)
      BY <1>10, <2>1, RankType
    <2>4. movies' \subseteq movies /\ series' \subseteq series
      BY <2>1
    <2>5. ASSUME reader.key \in PlaylistKeys, NEW x \in reader.out PROVE PutOut(x)'
      <3>1. PutOut(x)
        BY <2>1, <2>5
      <3>2. /\ x[2] \in movies' => x[2] \in movies
            /\ x[2][1] \in series' => x[2][1] \in series
        BY <2>4
      <3>3. /\ Above(movies, x[2]) < reader.offset => Above(movies', x[2]) < reader'.offset
            /\ Above(series, x[2][1]) < reader.offset => Above(series', x[2][1]) < reader'.offset
        BY <2>2, <2>3
      <3>. QED BY <1>3, <2>2, <3>1, <3>2, <3>3 DEF PutOut
    <2>6. Reading("listSeries")' =>
             \A s \in reader'.todo \cap series' : Above(series', s) < reader'.offset
      BY <1>3, <2>1, <2>2, <2>3, <2>4
    <2>. QED BY <2>1, <2>2, <2>5, <2>6
  <1>. QED BY <1>4, <1>5, <1>6, <1>7, <1>8, <1>9, <1>11, <1>12

\* Each edit is one of those.
LEMMA AdministratorInv == ASSUME LsInv, Administrator PROVE LsInv'
  <1>. USE DEF LsInv
  <1>0. Tables
    BY DEF LsTypeOK, Tables
  <1>1. ASSUME NEW c \in LiveIds, NEW class \in Classes \cup {"none"}, SaveChannel(c, class)
        PROVE LsInv'
    <2>1. Tables' /\ movies' = movies /\ series' = series
      BY <1>0, <1>1 DEF SaveChannel, Tables
    <2>. QED BY <1>1, <2>1, EditedNotes, EditInv DEF SaveChannel
  <1>2. ASSUME NEW m \in MovieIds, CreateMovie(m) PROVE LsInv'
    <2>1. Tables' /\ movies \subseteq movies' /\ series' = series
      BY <1>0, <1>2 DEF CreateMovie, Tables
    <2>. QED BY <1>2, <2>1, EditedNotes, EditInv DEF CreateMovie
  <1>3. ASSUME NEW m \in MovieIds, DeleteMovie(m) PROVE LsInv'
    <2>1. Tables' /\ movies' \subseteq movies /\ series' = series
      BY <1>0, <1>3 DEF DeleteMovie, Tables
    <2>. QED BY <1>3, <2>1, EditedNotes, EditInv DEF DeleteMovie
  <1>4. ASSUME NEW s \in SeriesIds, CreateSeries(s) PROVE LsInv'
    <2>1. Tables' /\ series \subseteq series' /\ movies' = movies
      BY <1>0, <1>4 DEF CreateSeries, Tables
    <2>. QED BY <1>4, <2>1, EditedNotes, EditInv DEF CreateSeries
  <1>5. ASSUME NEW s \in SeriesIds, DeleteSeriesEpisodes(s) PROVE LsInv'
    <2>1. Tables' /\ series' = series /\ movies' = movies
      BY <1>0, <1>5 DEF DeleteSeriesEpisodes, Tables
    <2>. QED BY <1>5, <2>1, EditedNotes, EditInv DEF DeleteSeriesEpisodes
  <1>6. ASSUME NEW s \in SeriesIds, DeleteSeries(s) PROVE LsInv'
    <2>1. Tables' /\ series' \subseteq series /\ movies' = movies
      BY <1>0, <1>6 DEF DeleteSeries, Tables
    <2>. QED BY <1>6, <2>1, EditedNotes, EditInv DEF DeleteSeries
  <1>7. ASSUME NEW e \in EpisodeIds, CreateEpisode(e) PROVE LsInv'
    <2>1. Tables' /\ series' = series /\ movies' = movies
      BY <1>0, <1>7 DEF CreateEpisode, Tables
    <2>. QED BY <1>7, <2>1, EditedNotes, EditInv DEF CreateEpisode
  <1>8. ASSUME NEW b \in BouquetIds, NEW f \in Fields, NEW ids \in SUBSET IdsOf(f),
               UpdateBouquet(b, f, ids)
        PROVE LsInv'
    <2>1. ids \in SUBSET Ids
      BY DEF IdsOf, Ids
    <2>2. bouquet' \in [BouquetIds -> [Fields -> SUBSET Ids]]
      BY <1>0, <1>8, <2>1 DEF UpdateBouquet, Tables
    <2>3. \A b2 \in BouquetIds, f2 \in Fields :
            bouquet'[b2][f2] = IF b2 = b /\ f2 = f THEN ids ELSE bouquet[b2][f2]
      BY <1>0, <1>8 DEF UpdateBouquet, Tables
    <2>4. \A b2 \in BouquetIds, f2 \in Fields : bouquet'[b2][f2] \subseteq IdsOf(f2)
      BY <1>0, <2>3 DEF Tables
    <2>5. Tables' /\ movies' = movies /\ series' = series
      BY <1>0, <1>8, <2>2, <2>4 DEF UpdateBouquet, Tables
    <2>. QED BY <1>8, <2>5, EditedNotes, EditInv DEF UpdateBouquet
  <1>. QED BY <1>1, <1>2, <1>3, <1>4, <1>5, <1>6, <1>7, <1>8 DEF Administrator

\* Every step keeps the invariant, and it holds at first.
LEMMA LsStep == LsInv /\ [LsNext]_lsVars => LsInv'
  <1>. SUFFICES ASSUME LsInv, [LsNext]_lsVars PROVE LsInv'
    OBVIOUS
  <1>1. ASSUME NEW key \in Keys, NEW line \in Subscriptions, NewRequest(key, line) PROVE LsInv'
    BY <1>1, NewRequestInv
  <1>2. CASE Answer
    BY <1>2, ReadAllowedInv, ListLiveInv, ListMoviesInv, ListSeriesInv, ListEpisodesInv, PageInv,
       SeriesInfoInv, SeriesEpisodesInv DEF Answer
  <1>3. CASE Administrator
    BY <1>3, AdministratorInv
  <1>4. CASE UNCHANGED lsVars
    <2>1. /\ reader' = reader /\ channel' = channel /\ movies' = movies /\ series' = series
          /\ episodes' = episodes /\ bouquet' = bouquet
      BY <1>4 DEF lsVars
    <2>2. (Begun' <=> Begun) /\ (Answered' <=> Answered)
          /\ \A s : (Past(s)' <=> Past(s)) /\ (Reading(s)' <=> Reading(s))
      BY <2>1 DEF Begun, Answered, Past, Reading
    <2>3. LsTypeOK'
      BY <2>1 DEF LsInv, LsTypeOK
    <2>4. Witnessed'
      BY <2>1 DEF LsInv, Witnessed, Begun, Entitled, Existing, Offered, BouquetAllows
    <2>5. AllowedWere' /\ OutWas' /\ AllowedKept'
      BY <2>1, <2>2 DEF LsInv, AllowedWere, OutWas, AllowedKept
    <2>6. Clean'
      BY <2>1, <2>2 DEF LsInv, Clean
    <2>7. \A x : (Missing(x)' <=> Missing(x)) /\ (PutOut(x)' <=> PutOut(x))
      BY <2>1, <2>2 DEF Missing, PutOut
    <2>8. Found' /\ Once'
      BY <2>1, <2>2, <2>7 DEF LsInv, Found, Once
    <2>. QED BY <2>3, <2>4, <2>5, <2>6, <2>8 DEF LsInv
  <1>. QED BY <1>1, <1>2, <1>3, <1>4 DEF LsNext

LEMMA LsStart == LsInit => LsInv
  <1>. SUFFICES ASSUME LsInit PROVE LsInv
    OBVIOUS
  <1>1. ~Begun
    BY DEF LsInit, Begun
  <1>2. \A f \in Fields : IdsOf(f) \in SUBSET Ids
    BY DEF IdsOf, Ids
  <1>3. LsTypeOK
    <2>1. channel \in [LiveIds -> Classes \cup {"none"}]
      BY DEF LsInit, Classes
    <2>2. /\ bouquet \in [BouquetIds -> [Fields -> SUBSET Ids]]
          /\ \A b \in BouquetIds, f \in Fields : bouquet[b][f] \subseteq IdsOf(f)
      <3>1. CASE bouquet = [b \in BouquetIds |-> Full]
        BY <1>2, <3>1 DEF Full
      <3>2. CASE bouquet = [b \in BouquetIds |-> [f \in Fields |-> {}]]
        BY <3>2
      <3>. QED BY <3>1, <3>2 DEF LsInit
    <2>3. movies \subseteq MovieIds /\ series \subseteq SeriesIds /\ episodes \subseteq EpisodeIds
      BY DEF LsInit
    <2>. QED BY <1>1, <2>1, <2>2, <2>3 DEF LsTypeOK, Begun
  <1>. QED BY <1>1, <1>3 DEF LsInv, Witnessed, AllowedWere, OutWas, AllowedKept, Clean, Found, Once

\* Whatever get.php and player_api.php list a line was, since its request arrived,
\* at some moment allowed by its bouquets and at some moment there, so the play
\* routes take it; the radio list apart.  For any number of channels, titles,
\* bouquets and edits.
THEOREM ListsPlay == LsSpec => []ListedPlays
  <1>1. LsInv => ListedPlays
    BY DEF LsInv, OutWas, ListedPlays, Answered, Begun, Idle
  <1>. QED BY <1>1, LsStart, LsStep, PTL DEF LsSpec

\* What an answered request has behind it.
LEMMA AllBehind ==
  ASSUME LsTypeOK, Answered
  PROVE  /\ Begun
         /\ reader.key \in {"all", "live", "get_live_streams"} => Past("listLive")
         /\ reader.key \in {"all", "movie"} => Past("listMovies")
         /\ reader.key \in {"all", "series"} => Past("listSeries")
  <1>. DEFINE st == Stages(reader.key)
  <1>1. Begun /\ reader \in ReaderType /\ reader.at \in Nat
    BY DEF Answered, LsTypeOK, Idle, Begun, ReaderType
  <1>2. Len(st) \in Nat
    BY <1>1, StageTable DEF ReaderType
  <1>3. \A i \in 1..Len(st) : Past(st[i])
    BY <1>1, <1>2 DEF Answered, Past
  <1>4. /\ reader.key = "all" => Len(st) = 7 /\ st[5] = "listLive" /\ st[6] = "listMovies" /\ st[7] = "listSeries"
        /\ reader.key = "live" => Len(st) = 5 /\ st[5] = "listLive"
        /\ reader.key = "movie" => Len(st) = 5 /\ st[5] = "listMovies"
        /\ reader.key = "series" => Len(st) = 5 /\ st[5] = "listSeries"
        /\ reader.key = "get_live_streams" => Len(st) = 2 /\ st[2] = "listLive"
    BY StageRows
  <1>. QED BY <1>1, <1>3, <1>4

\* A playlist read in batches by offset misses a title that was there all the time
\* only when a title is deleted meanwhile, and repeats one only when one is
\* created, for any tables and any size of a batch.
THEOREM ListsMissNothing == LsSpec => []NothingMissed
  <1>1. ASSUME LsInv, Answered PROVE reader.always \subseteq reader.out \/ reader.removed
    <2>. SUFFICES ASSUME ~reader.removed, NEW x \in reader.always, x \notin reader.out PROVE FALSE
      OBVIOUS
    <2>1. Missing(x) /\ x \in Offered(reader.line, reader.key)
      BY <1>1, AllBehind DEF LsInv, Found, Witnessed
    <2>. QED BY <1>1, <2>1, AllBehind DEF LsInv, Offered, Missing
  <1>2. ASSUME LsInv, Answered PROVE reader.twice => reader.added
    BY <1>2, AllBehind DEF LsInv, Once
  <1>3. LsInv => NothingMissed
    BY <1>1, <1>2 DEF NothingMissed
  <1>. QED BY <1>3, LsStart, LsStep, PTL DEF LsSpec

----------------------------------------------------------------------------
(* The delayed playlist                                                      *)

\* Every segment lasts its time and at most a keyframe longer, so the newest n
\* make up n times that at least; and the muxer keeps no more than it was told to.
Cut ==
  \A n \in 1..Len(window) :
     /\ Lag(n) >= n * config.seg
     /\ Lag(n) - Lag(n - 1) \in config.seg..(config.seg + Stretch)
HdInv == HdTypeOK /\ Len(window) <= EffectiveHlsListSize /\ Cut

\* The list is long enough: without its newest segment it still makes up the delay.
LEMMA ListIsLong ==
  ASSUME HdTypeOK
  PROVE  /\ config.seg \in Nat \ {0} /\ config.delay \in Nat \ {0}
         /\ EffectiveHlsListSize \in Nat \ {0, 1}
         /\ (EffectiveHlsListSize - 1) * config.seg >= config.delay
  <1>. DEFINE seg == config.seg  delay == config.delay  q == HdCeilDiv(delay, seg)
              size == EffectiveHlsListSize
  <1>1. seg \in SegTimes /\ seg \in Nat \ {0} /\ seg \in MinSeg..MaxSeg
        /\ delay \in Delays /\ delay \in Nat \ {0}
    <2>1. seg \in SegTimes /\ delay \in Delays
      BY DEF HdTypeOK
    <2>. HIDE DEF seg, delay
    <2>2. seg \in MinSeg..MaxSeg /\ MinSeg \in Nat \ {0} /\ MaxSeg \in Nat
      BY <2>1, HdAssumption
    <2>3. delay \in Nat \ {0}
      BY <2>1, HdAssumption
    <2>. QED BY <2>1, <2>2, <2>3
  <1>2. q \in Nat /\ q * seg >= delay
    <2>. HIDE DEF seg, delay
    <2>1. (delay + seg - 1) \in Nat
      BY <1>1
    <2>2. \A a \in Nat, b \in Nat \ {0} : a \div b \in Nat /\ a < (a \div b) * b + b
      OBVIOUS
    <2>. QED BY <1>1, <2>1, <2>2 DEF HdCeilDiv
  <1>3. Clamp(seg, MinSeg, MaxSeg) = seg
    BY <1>1, HdAssumption DEF Clamp
  <1>4. q + Margin <= MaxList
    BY <1>1, HdAssumption
  <1>5. size \in Nat /\ size >= q + Margin
    <2>1. size = Clamp(q + Margin, UserList, MaxList)
      BY <1>3 DEF EffectiveHlsListSize
    <2>2. UserList \in Nat \ {0} /\ MaxList \in Nat /\ Margin \in Nat \ {0}
      BY HdAssumption
    <2>. HIDE DEF q, size
    <2>3. \A n, low, high \in Nat :
             n <= high => Clamp(n, low, high) \in Nat /\ Clamp(n, low, high) >= n
      BY DEF Clamp
    <2>. QED BY <1>2, <1>4, <2>1, <2>2, <2>3
  <1>. HIDE DEF q, size, seg, delay
  <1>6. q >= 1
    BY <1>1, <1>2
  <1>7. size - 1 >= q /\ size - 1 \in Nat /\ size >= 2
    BY <1>2, <1>5, <1>6, HdAssumption
  <1>8. \A a, b, c \in Nat : a >= b => a * c >= b * c
    OBVIOUS
  <1>9. (size - 1) * seg >= q * seg
    BY <1>1, <1>2, <1>7, <1>8
  <1>10. (size - 1) * seg \in Nat /\ q * seg \in Nat
    BY <1>1, <1>2, <1>7
  <1>. QED BY <1>1, <1>2, <1>5, <1>7, <1>9, <1>10 DEF seg, delay, size

\* A segment more: what lay n behind lies n + 1 behind, and later by its length.
LEMMA Written ==
  ASSUME HdTypeOK, Len(window) <= EffectiveHlsListSize,
         NEW duration \in Nat \ {0}, WriteSegment(duration)
  PROVE  /\ window' \in Seq(Nat \ {0})
         /\ Len(window') <= EffectiveHlsListSize
         /\ Len(window') <= Len(window) + 1
         /\ \A n \in 1..Len(window') : Lag(n)' = Lag(n - 1) + duration
  <1>. DEFINE len == Len(window)  size == EffectiveHlsListSize
              grown == Append([i \in DOMAIN window |-> window[i] + duration], duration)
  <1>1. /\ len \in Nat /\ size \in Nat \ {0} /\ len <= size
        /\ window \in [1..len -> Nat \ {0}] /\ DOMAIN window = 1..len
    BY ListIsLong DEF HdTypeOK
  <1>2. /\ grown \in Seq(Nat \ {0}) /\ Len(grown) = len + 1
        /\ \A i \in 1..len : grown[i] = window[i] + duration
        /\ grown[len + 1] = duration
    <2>. DEFINE older == [i \in DOMAIN window |-> window[i] + duration]
    <2>1. older \in Seq(Nat \ {0}) /\ Len(older) = len /\ \A i \in 1..len : older[i] = window[i] + duration
      BY <1>1
    <2>. HIDE DEF older
    <2>. QED BY <2>1, <1>1 DEF older
  <1>3. window' = IF len + 1 - size > 0 THEN SubSeq(grown, len + 1 - size + 1, len + 1) ELSE grown
    <2>1. window' = IF Len(grown) - size > 0
                    THEN SubSeq(grown, Len(grown) - size + 1, Len(grown)) ELSE grown
      BY DEF WriteSegment
    <2>. HIDE DEF grown, size, len
    <2>. QED BY <1>1, <1>2, <2>1
  <1>. HIDE DEF grown, size, len
  <1>4. CASE len + 1 - size > 0
    <2>1. len = size /\ window' = SubSeq(grown, 2, len + 1)
      BY <1>1, <1>3, <1>4
    <2>2. /\ window' \in Seq(Nat \ {0}) /\ Len(window') = len
          /\ \A i \in 1..len : window'[i] = grown[i + 1]
      <3>1. grown \in Seq(Nat \ {0}) /\ 2 \in 1..(len + 1) /\ len + 1 \in 1..(Len(grown) + 1)
        BY <1>1, <1>2, <2>1
      <3>2. /\ \A i \in 2..(len + 1) : grown[i] \in Nat \ {0}
            /\ len + 1 - 2 + 1 = len
        <4>1. \A i \in 1..Len(grown) : grown[i] \in Nat \ {0}
          BY <3>1, ElementOfSeq
        <4>. QED BY <1>1, <1>2, <4>1
      <3>3. /\ Len(SubSeq(grown, 2, len + 1)) = len
            /\ SubSeq(grown, 2, len + 1) \in Seq(Nat \ {0})
            /\ \A i \in 1..len : SubSeq(grown, 2, len + 1)[i] = grown[i + 1]
        BY <1>1, <1>2, <3>1, <3>2, SubSeqProperties
      <3>. QED BY <2>1, <3>3
    <2>3. ASSUME NEW n \in 1..len PROVE Lag(n)' = Lag(n - 1) + duration
      <3>1. Lag(n)' = grown[len - n + 2]
        BY <1>1, <2>2 DEF Lag
      <3>2. n = 1 => grown[len - n + 2] = duration /\ Lag(n - 1) = 0
        BY <1>1, <1>2 DEF Lag
      <3>3. n # 1 => grown[len - n + 2] = window[len - n + 2] + duration
                     /\ Lag(n - 1) = window[len - n + 2]
        <4>1. ASSUME n # 1 PROVE len - n + 2 \in 1..len /\ n - 1 # 0
          BY <1>1, <4>1
        <4>2. ASSUME n # 1 PROVE Lag(n - 1) = window[len - (n - 1) + 1]
          BY <1>1, <4>1, <4>2 DEF Lag, len
        <4>3. len - (n - 1) + 1 = len - n + 2
          BY <1>1
        <4>. QED BY <1>2, <4>1, <4>2, <4>3
      <3>. QED BY <3>1, <3>2, <3>3
    <2>. QED BY <1>1, <2>1, <2>2, <2>3 DEF len, size
  <1>5. CASE ~(len + 1 - size > 0)
    <2>1. window' = grown /\ Len(window') = len + 1 /\ len + 1 <= size
      BY <1>1, <1>2, <1>3, <1>5
    <2>2. ASSUME NEW n \in 1..(len + 1) PROVE Lag(n)' = Lag(n - 1) + duration
      <3>1. Lag(n)' = grown[len - n + 2]
        BY <1>1, <2>1 DEF Lag
      <3>2. n = 1 => grown[len - n + 2] = duration /\ Lag(n - 1) = 0
        BY <1>1, <1>2 DEF Lag
      <3>3. n # 1 => grown[len - n + 2] = window[len - n + 2] + duration
                     /\ Lag(n - 1) = window[len - n + 2]
        <4>1. ASSUME n # 1 PROVE len - n + 2 \in 1..len /\ n - 1 # 0
          BY <1>1, <4>1
        <4>2. ASSUME n # 1 PROVE Lag(n - 1) = window[len - (n - 1) + 1]
          BY <1>1, <4>1, <4>2 DEF Lag, len
        <4>3. len - (n - 1) + 1 = len - n + 2
          BY <1>1
        <4>. QED BY <1>2, <4>1, <4>2, <4>3
      <3>. QED BY <3>1, <3>2, <3>3
    <2>. QED BY <1>1, <1>2, <2>1, <2>2 DEF len, size
  <1>. QED BY <1>1, <1>4, <1>5

\* Lags are numbers.
LEMMA LagType == HdTypeOK => \A n \in 0..Len(window) : Lag(n) \in Nat
  BY DEF HdTypeOK, Lag

\* Cutting a segment and a new FFmpeg keep the invariant.
LEMMA SegmentCutKeeps == ASSUME HdInv, SegmentCut PROVE HdInv'
  <1>. DEFINE seg == config.seg  len == Len(window)
  <1>1. /\ seg \in Nat \ {0} /\ len \in Nat /\ Stretch \in Nat
        /\ \A n \in 0..len : Lag(n) \in Nat
        /\ \A n \in 1..len : Lag(n) >= n * seg /\ Lag(n) - Lag(n - 1) \in seg..(seg + Stretch)
        /\ Lag(0) = 0
    BY HdAssumption, ListIsLong, LagType DEF HdInv, Cut, Lag, HdTypeOK
  <1>2. PICK late \in 0..Stretch : WriteSegment(seg + late)
    BY DEF SegmentCut
  <1>3. config' = config /\ EffectiveHlsListSize' = EffectiveHlsListSize
    BY DEF SegmentCut, EffectiveHlsListSize
  <1>4. seg + late \in Nat \ {0} /\ seg + late \in seg..(seg + Stretch)
    BY <1>1
  <1>5. /\ window' \in Seq(Nat \ {0}) /\ Len(window') \in Nat
        /\ Len(window') <= EffectiveHlsListSize /\ Len(window') <= len + 1
        /\ \A n \in 1..Len(window') : Lag(n)' = Lag(n - 1) + seg + late
    <2>. DEFINE d == seg + late
    <2>1. d \in Nat \ {0} /\ WriteSegment(d)
      BY <1>2, <1>4
    <2>. HIDE DEF d
    <2>2. /\ window' \in Seq(Nat \ {0})
          /\ Len(window') <= EffectiveHlsListSize /\ Len(window') <= len + 1
          /\ \A n \in 1..Len(window') : Lag(n)' = Lag(n - 1) + d
      BY <2>1, Written DEF HdInv
    <2>3. \A n \in 1..Len(window') : Lag(n - 1) \in Nat
      BY <1>1, <2>2
    <2>. QED BY <1>1, <2>2, <2>3 DEF d
  <1>. HIDE DEF seg, len
  <1>6. ASSUME NEW n \in 1..Len(window')
        PROVE Lag(n)' >= n * seg /\ Lag(n)' - Lag(n - 1)' \in seg..(seg + Stretch)
    <2>1. Lag(n)' = Lag(n - 1) + seg + late /\ Lag(n - 1) \in Nat /\ n - 1 \in 0..len
      BY <1>1, <1>5
    <2>2. CASE n = 1
      <3>1. Lag(0)' = 0
        BY DEF Lag
      <3>. QED BY <1>1, <1>4, <2>1, <2>2, <3>1
    <2>3. CASE n # 1
      <3>1. Lag(n - 1)' = Lag(n - 2) + seg + late /\ Lag(n - 2) \in Nat
        BY <1>1, <1>5, <2>3
      <3>2. /\ Lag(n - 1) >= (n - 1) * seg
            /\ Lag(n - 1) - Lag(n - 2) \in seg..(seg + Stretch)
        BY <1>1, <1>5, <2>1, <2>3
      <3>3. n * seg = (n - 1) * seg + seg /\ (n - 1) * seg \in Nat
        BY <1>1
      <3>4. Lag(n)' - Lag(n - 1)' = Lag(n - 1) - Lag(n - 2)
        BY <1>1, <2>1, <3>1
      <3>5. Lag(n)' >= n * seg
        BY <1>1, <2>1, <3>2, <3>3
      <3>. QED BY <3>2, <3>4, <3>5
    <2>. QED BY <2>2, <2>3
  <1>7. Cut'
    BY <1>3, <1>6 DEF Cut, seg
  <1>. QED BY <1>3, <1>5, <1>7 DEF HdInv, HdTypeOK

\* Every step keeps the invariant, and it holds at first.
LEMMA HdStep == HdInv /\ [HdNext]_hdVars => HdInv'
  <1>. SUFFICES ASSUME HdInv, [HdNext]_hdVars PROVE HdInv'
    OBVIOUS
  <1>1. CASE SegmentCut
    BY <1>1, SegmentCutKeeps
  <1>2. CASE HdEngineRestart
    BY <1>2, ListIsLong DEF HdInv, HdTypeOK, HdEngineRestart, Cut, EffectiveHlsListSize
  <1>3. CASE UNCHANGED hdVars
    <2>1. Cut'
      BY <1>3 DEF HdInv, Cut, Lag, hdVars
    <2>. QED BY <1>3, <2>1 DEF HdInv, HdTypeOK, EffectiveHlsListSize, hdVars
  <1>. QED BY <1>1, <1>2, <1>3 DEF HdNext

LEMMA HdStart == HdInit => HdInv
  <1>. SUFFICES ASSUME HdInit PROVE HdInv
    OBVIOUS
  <1>1. HdTypeOK /\ Len(window) = 0
    BY DEF HdInit, HdTypeOK
  <1>. QED BY <1>1, ListIsLong DEF HdInv, Cut

\* The newest segments that make up the delay are fewer than the list has.
LEMMA DroppedFacts ==
  ASSUME HdInv, Len(window) = EffectiveHlsListSize
  PROVE  /\ Dropped \in 1..(Len(window) - 1) /\ Lag(Dropped) >= config.delay
         /\ Lag(Dropped - 1) < config.delay
  <1>. DEFINE len == Len(window)  enough == {n \in 0..len : Lag(n) >= config.delay}
  <1>1. /\ len \in Nat \ {0, 1} /\ config.delay \in Nat \ {0} /\ config.seg \in Nat
        /\ (len - 1) * config.seg >= config.delay /\ Lag(0) = 0
        /\ \A n \in 0..len : Lag(n) \in Nat
    BY ListIsLong, LagType DEF HdInv, Lag
  <1>2. len - 1 \in enough
    <2>1. Lag(len - 1) >= (len - 1) * config.seg
      BY <1>1 DEF HdInv, Cut
    <2>2. (len - 1) * config.seg \in Nat
      BY <1>1
    <2>. QED BY <1>1, <2>1, <2>2
  <1>3. \E n \in enough : \A m \in enough : n <= m
    <2>1. enough \subseteq Nat /\ enough # {}
      BY <1>1, <1>2
    <2>. HIDE DEF enough
    <2>2. PICK n \in enough : \A m \in enough : <<m, n>> \notin OpToRel(<, Nat)
      BY <2>1, NatLessThanWellFounded, WFMin
    <2>3. OpToRel(<, Nat) = {ss \in Nat \X Nat : ss[1] < ss[2]}
      BY DEF OpToRel
    <2>4. ASSUME NEW m \in enough PROVE n <= m
      <3>1. <<m, n>> \notin {ss \in Nat \X Nat : ss[1] < ss[2]}
        BY <2>2, <2>3
      <3>. QED BY <2>1, <3>1
    <2>. QED BY <2>4
  <1>4. Dropped \in enough /\ \A m \in enough : Dropped <= m
    BY <1>2, <1>3 DEF Dropped
  <1>5. Dropped \in 0..(len - 1) /\ Lag(Dropped) >= config.delay
    BY <1>1, <1>2, <1>4
  <1>6. Dropped # 0
    BY <1>1, <1>5
  <1>7. Dropped - 1 \notin enough /\ Dropped - 1 \in 0..len
    BY <1>1, <1>4, <1>5, <1>6
  <1>8. Lag(Dropped - 1) < config.delay
    BY <1>1, <1>7
  <1>. QED BY <1>1, <1>5, <1>6, <1>8

\* rewriteMediaPlaylistDelayed with the list effectiveHlsListSize asks for: once the
\* window is full, the playlist served names a segment and ends at least the delay
\* and less than one more segment behind the ingest, for every segment time, delay
\* and stretch of segments the options admit.
THEOREM DelayIsKept == HdSpec => []TrailsWhenFull
  <1>1. HdInv => TrailsWhenFull
    <2>. SUFFICES ASSUME HdInv, Len(window) = EffectiveHlsListSize
                  PROVE  /\ Hidden < Len(window) /\ Lag(Hidden) >= config.delay
                         /\ Lag(Hidden) < config.delay + config.seg + Stretch
      BY DEF TrailsWhenFull
    <2>1. /\ Len(window) \in Nat \ {0, 1} /\ config.delay \in Nat /\ config.seg \in Nat
          /\ Stretch \in Nat /\ \A n \in 0..Len(window) : Lag(n) \in Nat
      BY ListIsLong, LagType, HdAssumption DEF HdInv
    <2>2. Hidden = Dropped /\ Hidden \in 1..(Len(window) - 1)
      BY <2>1, DroppedFacts DEF Hidden
    <2>3. Lag(Hidden) >= config.delay /\ Lag(Hidden - 1) < config.delay
      BY <2>2, DroppedFacts
    <2>4. Lag(Hidden) - Lag(Hidden - 1) \in config.seg..(config.seg + Stretch)
      BY <2>1, <2>2 DEF HdInv, Cut
    <2>5. Lag(Hidden) \in Nat /\ Lag(Hidden - 1) \in Nat
      BY <2>1, <2>2
    <2>. QED BY <2>1, <2>2, <2>3, <2>4, <2>5, SMTT(30)
  <1>. QED BY <1>1, HdStart, HdStep, PTL DEF HdSpec
=============================================================================
