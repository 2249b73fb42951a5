---------------------------- MODULE CommandQueue ----------------------------
(* Remote commands: the server_commands table, the panel routes that lease   *)
(* rows to the agent of one server and record its acknowledgements, and the  *)
(* loop of agent/index.js that executes them.  HTTP requests and responses   *)
(* may be lost or late, and the agent may be restarted between any two steps.*)
EXTENDS Naturals, FiniteSets

CONSTANTS
  Commands,   \* command ids; each is issued once at most
  NoCommand,
  Limit       \* leaseServerCommands(serverId, limit)

ASSUME CommandsAssumption ==
  /\ NoCommand \notin Commands
  /\ IsFiniteSet(Commands)
  /\ Limit \in Nat \ {0}

VARIABLES
  row,       \* status of the table row, "none" before it is inserted
  fresh,     \* canIssueCommandToServer: the last heartbeat is recent
  beats,     \* heartbeat requests in flight: the one awaited, one given up
  response,  \* the heartbeat response on its way to the agent
  agent,     \* where the agent loop is
  acks,      \* ack requests in flight (a duplicate has the same effect)
  executed,  \* how often the agent executed each command
  outcome    \* how that ended

cqVars == <<row, fresh, beats, response, agent, acks, executed, outcome>>

AgentType ==
  [at : {"sleeping", "beating", "working", "acking", "reacking"},
   batch : SUBSET Commands, command : Commands \cup {NoCommand}, answered : BOOLEAN]
AckType == [command : Commands, status : {"succeeded", "failed"}]

CqTypeOK ==
  /\ row \in [Commands -> {"none", "refused", "queued", "leased", "succeeded", "failed"}]
  /\ fresh \in BOOLEAN
  /\ beats \subseteq {"mine", "old"}
  /\ response \in [sent : BOOLEAN, commands : SUBSET Commands]
  /\ agent \in AgentType
  /\ acks \subseteq AckType
  /\ executed \in [Commands -> Nat]
  /\ outcome \in [Commands -> {"ok", "fails"}]

NoResponse == [sent |-> FALSE, commands |-> {}]
Asleep == [at |-> "sleeping", batch |-> {}, command |-> NoCommand, answered |-> FALSE]

----------------------------------------------------------------------------
(* The panel *)

\* issueRemoteCommand: three types pass its checks, one of them also passes the
\* whitelist of createServerCommand; the other two are refused there.
Issue(c) ==
  /\ row[c] = "none" /\ fresh
  /\ \E status \in {"queued", "refused"} : row' = [row EXCEPT ![c] = status]
  /\ UNCHANGED <<fresh, beats, response, agent, acks, executed, outcome>>

\* No heartbeat for STALE_HEARTBEAT_THRESHOLD_MS.
GrowStale ==
  /\ fresh /\ fresh' = FALSE
  /\ UNCHANGED <<row, beats, response, agent, acks, executed, outcome>>

\* Faulty variant: rows leased before are handed out again.
LeasableAgain == {c \in Commands : row[c] \in {"queued", "leased"}}
\* The rows leaseServerCommands picks from: the oldest go first, but rows of the
\* same second in any order, so any of them may be among the first.
Leasable == {c \in Commands : row[c] = "queued"}
\* Faulty variant: only full batches are handed out.
LeaseSizeFull(n) == IF n < Limit THEN 0 ELSE Limit
LeaseSize(n) == IF n < Limit THEN n ELSE Limit

\* POST /agent/heartbeat; who asked decides whether anyone gets the answer.
HandleBeat(from) ==
  /\ from \in beats
  /\ beats' = beats \ {from}
  /\ fresh' = TRUE
  /\ \E S \in SUBSET Leasable :
       /\ Cardinality(S) = LeaseSize(Cardinality(Leasable))
       /\ row' = [c \in Commands |-> IF c \in S THEN "leased" ELSE row[c]]
       /\ response' = IF from = "mine" THEN [sent |-> TRUE, commands |-> S] ELSE response
  /\ UNCHANGED <<agent, acks, executed, outcome>>

\* POST /agent/command/ack: the row is overwritten, whatever it says by now.
Awaited(m) ==
  /\ m.command = agent.command
  /\ \/ agent.at = "reacking" /\ m.status = "failed"
     \/ agent.at = "acking"

HandleAck(m) ==
  /\ m \in acks
  /\ acks' = acks \ {m}
  /\ row' = [row EXCEPT ![m.command] = m.status]
  /\ agent' = [agent EXCEPT !.answered = @ \/ Awaited(m)]
  /\ UNCHANGED <<fresh, beats, response, executed, outcome>>

----------------------------------------------------------------------------
(* The agent loop *)

Beat ==
  /\ agent.at = "sleeping"
  /\ agent' = [agent EXCEPT !.at = "beating"]
  /\ beats' = beats \cup {"mine"}
  /\ UNCHANGED <<row, fresh, response, acks, executed, outcome>>

\* A request nobody waits for any more is lost, or reaches the panel yet.
Abandoned == {beats \ {"mine"}} \cup
             (IF "mine" \in beats THEN {(beats \ {"mine"}) \cup {"old"}} ELSE {})

\* The request failed, was refused, or its response was lost or unreadable.
BeatFails ==
  /\ agent.at = "beating"
  /\ agent' = Asleep
  /\ beats' \in Abandoned /\ response' = NoResponse
  /\ UNCHANGED <<row, fresh, acks, executed, outcome>>

BeatReturns ==
  /\ agent.at = "beating" /\ response.sent
  /\ agent' = [agent EXCEPT !.at = "working", !.batch = response.commands]
  /\ response' = NoResponse
  /\ UNCHANGED <<row, fresh, beats, acks, executed, outcome>>

\* Faulty variant: the result of the command is not looked at.
ReportOptimistic(result) == "succeeded"
Report(result) == IF result = "ok" THEN "succeeded" ELSE "failed"

\* executeCommand and the first attempt at sendCommandAck
Execute(c) ==
  /\ agent.at = "working" /\ c \in agent.batch
  /\ executed' = [executed EXCEPT ![c] = @ + 1]
  /\ \E result \in {"ok", "fails"} :
       /\ outcome' = [outcome EXCEPT ![c] = result]
       /\ acks' = acks \cup {[command |-> c, status |-> Report(result)]}
  /\ agent' = [at |-> "acking", batch |-> agent.batch \ {c}, command |-> c,
               answered |-> FALSE]
  /\ UNCHANGED <<row, fresh, beats, response>>

NextCommand ==
  agent' = [agent EXCEPT !.at = "working", !.command = NoCommand, !.answered = FALSE]

AckReturns ==
  /\ agent.at \in {"acking", "reacking"} /\ agent.answered
  /\ NextCommand
  /\ UNCHANGED <<row, fresh, beats, response, acks, executed, outcome>>

\* sendCommandAck threw: the catch block reports the command as failed.
AckFails ==
  /\ agent.at = "acking"
  /\ agent' = [agent EXCEPT !.at = "reacking", !.answered = FALSE]
  /\ acks' = acks \cup {[command |-> agent.command, status |-> "failed"]}
  /\ UNCHANGED <<row, fresh, beats, response, executed, outcome>>

\* It threw again: `.catch(() => {})`.
ReackFails ==
  /\ agent.at = "reacking"
  /\ NextCommand
  /\ UNCHANGED <<row, fresh, beats, response, acks, executed, outcome>>

Sleep ==
  /\ agent.at = "working" /\ agent.batch = {}
  /\ agent' = Asleep
  /\ UNCHANGED <<row, fresh, beats, response, acks, executed, outcome>>

\* The agent or its machine is restarted; it keeps nothing of its batch.
AgentRestart ==
  /\ agent' = Asleep
  /\ beats' \in Abandoned /\ response' = NoResponse
  /\ UNCHANGED <<row, fresh, acks, executed, outcome>>

----------------------------------------------------------------------------
CqInit ==
  /\ row = [c \in Commands |-> "none"]
  /\ fresh = FALSE
  /\ beats = {} /\ response = NoResponse
  /\ agent = Asleep
  /\ acks = {}
  /\ executed = [c \in Commands |-> 0]
  /\ outcome = [c \in Commands |-> "fails"]

CqNext ==
  \/ \E c \in Commands : Issue(c) \/ Execute(c)
  \/ \E from \in {"mine", "old"} : HandleBeat(from)
  \/ \E m \in acks : HandleAck(m)
  \/ GrowStale \/ Beat \/ BeatFails \/ BeatReturns
  \/ AckReturns \/ AckFails \/ ReackFails \/ Sleep \/ AgentRestart

CqSpec == CqInit /\ [][CqNext]_cqVars

\* The agent's loop goes on, the panel answers what reaches it, and heartbeats
\* that are sent again and again do reach it again and again.
CqFairSpec ==
  /\ CqSpec
  /\ WF_cqVars(Beat) /\ WF_cqVars(BeatReturns) /\ WF_cqVars(Sleep)
  /\ WF_cqVars(AckReturns)
  /\ \A c \in Commands : WF_cqVars(Execute(c))
  /\ \A c \in Commands, status \in {"succeeded", "failed"} :
       WF_cqVars(HandleAck([command |-> c, status |-> status]))
  /\ SF_cqVars(HandleBeat("mine"))

----------------------------------------------------------------------------
(* Properties *)

\* However heartbeats, responses and acknowledgements are lost or delayed and
\* whenever the agent is restarted, no command is executed twice.
AtMostOnce == \A c \in Commands : executed[c] <= 1

\* What the table says of a finished command was earned: it is not marked
\* succeeded unless its execution succeeded, nor failed before it was tried.
ReportsEarned ==
  \A c \in Commands :
    /\ row[c] = "succeeded" => executed[c] = 1 /\ outcome[c] = "ok"
    /\ row[c] = "failed" => executed[c] = 1

\* A queued command is handed out eventually, however many restarts and lost
\* heartbeats come first.
QueuedGetsLeased == \A c \in Commands : row[c] = "queued" ~> row[c] # "queued"
=============================================================================
