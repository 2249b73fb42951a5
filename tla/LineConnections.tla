---------------------------- MODULE LineConnections ----------------------------
(* The connection limit of one line: the live route of stream.js and the      *)
(* Redis set lineService.js counts.  A viewer never closes its connection;    *)
(* its key lives CONN_TTL and the set CONN_TTL + 60 seconds after the last    *)
(* EXPIRE, so the set outlives every key that was written before it.          *)
(* The movie and series routes open connections on the same set and never ask *)
(* canConnect; they are left out because neither reaches that call today (see *)
(* MoviesAnswered in ServerSelection).                                        *)
EXTENDS Naturals, FiniteSets

CONSTANTS
  Viewers,         \* connection uuids
  MaxConnections,  \* max_connections of the line
  Concurrent       \* bound: requests of the line being served at once

ASSUME LimitsAssumption ==
  /\ IsFiniteSet(Viewers)
  /\ MaxConnections \in Nat \ {0} /\ Concurrent \in Nat \ {0}

VARIABLES
  at,        \* where the request of each viewer is
  keys,      \* viewers whose key conn:line:uuid exists
  members,   \* conn:set:line; an empty set does not exist
  setTimed,  \* the set has a time to live
  late,      \* keys written after the last EXPIRE of the set
  visit      \* an administrator's listing: members not looked at yet, and why

lcVars == <<at, keys, members, setTimed, late, visit>>

Serving == {"asked", "admitted", "keyed", "added", "timed"}
Idle == [todo |-> {}, kill |-> FALSE, open |-> FALSE]

LcTypeOK ==
  /\ at \in [Viewers -> Serving \cup {"away", "watching"}]
  /\ keys \subseteq Viewers /\ members \subseteq Viewers /\ late \subseteq keys
  /\ setTimed \in BOOLEAN
  /\ visit \in [todo : SUBSET Viewers, kill : BOOLEAN, open : BOOLEAN]

Busy == {v \in Viewers : at[v] \in Serving}
\* Requests admitted whose connection is not in the set yet.
Admitted == {v \in Viewers : at[v] \in {"admitted", "keyed"}}

Step(v, from, to) == at[v] = from /\ at' = [at EXCEPT ![v] = to]

----------------------------------------------------------------------------
(* handleLive *)

\* Authentication and the expiring-soon redirect are passed.
Ask(v) ==
  /\ at[v] \in {"away", "watching"} /\ v \notin keys \cup members
  /\ Cardinality(Busy) < Concurrent
  /\ at' = [at EXCEPT ![v] = "asked"]
  /\ UNCHANGED <<keys, members, setTimed, late, visit>>

\* Faulty variant: the limit itself is still below the limit.
RoomOffByOne == Cardinality(members) <= MaxConnections
\* countLiveConnections is SCARD: expired members count until they are removed.
Room == Cardinality(members) < MaxConnections

CanConnect(v) ==
  /\ Step(v, "asked", IF Room THEN "admitted" ELSE "away")
  /\ UNCHANGED <<keys, members, setTimed, late, visit>>

\* Not in the bouquet, no server, no running stream, or an error on the way: the
\* request ends, and what it wrote so far stays.
EndRequest(v) ==
  /\ at[v] \in Serving \ {"asked"}
  /\ at' = [at EXCEPT ![v] = "away"]
  /\ UNCHANGED <<keys, members, setTimed, late, visit>>

\* openConnection, one Redis command after the other.
SetKey(v) ==
  /\ Step(v, "admitted", "keyed")
  /\ keys' = keys \cup {v} /\ late' = late \cup {v}
  /\ UNCHANGED <<members, setTimed, visit>>

AddMember(v) ==
  /\ Step(v, "keyed", "added")
  /\ members' = members \cup {v}
  /\ UNCHANGED <<keys, setTimed, late, visit>>

\* EXPIRE does nothing to a set that is gone.
ExpireSet(v) ==
  /\ Step(v, "added", "timed")
  /\ setTimed' = (members # {})
  /\ late' = IF members # {} THEN {} ELSE late
  /\ UNCHANGED <<keys, members, visit>>

\* updateLineActivity and the redirect.
Respond(v) ==
  /\ Step(v, "timed", "watching")
  /\ UNCHANGED <<keys, members, setTimed, late, visit>>

----------------------------------------------------------------------------
(* Time *)

KeyExpires(v) ==
  /\ v \in keys
  /\ keys' = keys \ {v} /\ late' = late \ {v}
  /\ UNCHANGED <<at, members, setTimed, visit>>

\* Faulty variant: the set never gets a time to live.
SetMayExpireNever == FALSE
SetMayExpire == setTimed /\ members # {} /\ keys \subseteq late
SetExpires ==
  /\ SetMayExpire
  /\ members' = {} /\ setTimed' = FALSE
  /\ UNCHANGED <<at, keys, late, visit>>

\* The panel dies: its requests end where they are, Redis keeps its data.
Crash ==
  /\ at' = [v \in Viewers |-> IF at[v] \in Serving THEN "away" ELSE at[v]]
  /\ visit' = Idle
  /\ UNCHANGED <<keys, members, setTimed, late>>

----------------------------------------------------------------------------
(* GET connections and POST kill-connections of a line *)

BeginVisit ==
  /\ ~visit.open
  /\ \E kill \in BOOLEAN : visit' = [todo |-> members, kill |-> kill, open |-> TRUE]
  /\ UNCHANGED <<at, keys, members, setTimed, late>>

\* getActiveConnections drops a member without a key; killConnections closes the
\* others, key first.
Without(v) ==
  /\ members' = members \ {v}
  /\ setTimed' = (setTimed /\ members' # {})

VisitMember(v) ==
  /\ v \in visit.todo
  /\ visit' = [visit EXCEPT !.todo = @ \ {v}]
  /\ IF v \in keys /\ ~visit.kill THEN UNCHANGED <<keys, members, setTimed, late>>
     ELSE Without(v) /\ keys' = keys \ {v} /\ late' = late \ {v}
  /\ UNCHANGED at

EndVisit ==
  /\ visit.open /\ visit.todo = {}
  /\ visit' = Idle
  /\ UNCHANGED <<at, keys, members, setTimed, late>>

----------------------------------------------------------------------------
LcInit ==
  /\ at = [v \in Viewers |-> "away"]
  /\ keys = {} /\ members = {} /\ late = {}
  /\ setTimed = FALSE
  /\ visit = Idle

LcServe(v) == CanConnect(v) \/ SetKey(v) \/ AddMember(v) \/ ExpireSet(v) \/ Respond(v)
LcNext ==
  \/ \E v \in Viewers : \/ Ask(v) \/ LcServe(v) \/ EndRequest(v)
                        \/ KeyExpires(v) \/ VisitMember(v)
  \/ SetExpires \/ Crash \/ BeginVisit \/ EndVisit

LcSpec == LcInit /\ [][LcNext]_lcVars
\* Requests go on, and Redis drops what has expired.
LcFairSpec ==
  LcSpec /\ WF_lcVars(SetExpires)
         /\ \A v \in Viewers : WF_lcVars(LcServe(v) \/ EndRequest(v)) /\ WF_lcVars(KeyExpires(v))

----------------------------------------------------------------------------
\* canConnect and openConnection are separate awaits: a line exceeds its limit,
\* but by no more than the requests it has under way beside the one admitted.
OvershootBounded == Cardinality(members \cup Admitted) <= MaxConnections - 1 + Concurrent

\* A line that refuses everybody frees up again, although no viewer ever closes
\* its connection, as long as its set has a time to live (openConnection).
FullLineFrees == (setTimed /\ ~Room) ~> Room
=============================================================================
