---------------------------- MODULE Provisioning ----------------------------
(* Provisioning jobs for one server row (provisionService.js): the stages     *)
(* over SSH, the rows of server_provisioning_jobs whose progress writes are   *)
(* not awaited, the server row the jobs enable and disable, and the agent on  *)
(* the node.  Several jobs may run for the same server.                       *)
EXTENDS Naturals

CONSTANTS
  Jobs,         \* numbered as they start
  Profiles,     \* VALID_PROFILES
  NoProfile,
  NoJob

ASSUME JobsAssumption ==
  NoProfile \notin Profiles /\ Jobs \subseteq Nat /\ NoJob \notin Jobs

VARIABLES
  job,        \* per job: its stage and profile
  jobRow,     \* per job: status of its row
  writing,    \* jobs with a write of status running under way
  wasEnabled, \* streaming_servers.enabled before any job
  enabled,    \* streaming_servers.enabled
  reported,   \* meta_json.agent_profile: what an agent reported last
  nodeAgent,  \* the agent on the node and the job that deployed it
  deployed,   \* jobs that started their agent on the node
  disabled,   \* jobs that disabled the server on their way out
  heard,      \* jobs whose own agent had a heartbeat accepted
  recent      \* jobs that would find a heartbeat recent enough

pvVars == <<job, jobRow, writing, wasEnabled, enabled, reported, nodeAgent,
            deployed, disabled, heard, recent>>

\* "installing" stands for the five stages from connecting to deploying_agent.
JobStages == {"installing", "starting_agent", "enabling", "first_heartbeat",
              "unheard", "runtime_handshake", "completed"}
JobType == [at : JobStages \cup {"none", "failed", "disabling", "over"},
            profile : Profiles \cup {NoProfile}]
\* by is NoJob for an agent installed by hand.
NodeAgentType == [up : BOOLEAN, profile : Profiles \cup {NoProfile}, by : Jobs \cup {NoJob}]

PvTypeOK ==
  /\ job \in [Jobs -> JobType]
  /\ jobRow \in [Jobs -> {"none", "pending", "running", "done", "error"}]
  /\ writing \subseteq Jobs /\ recent \subseteq Jobs
  /\ deployed \subseteq Jobs /\ disabled \subseteq Jobs /\ heard \subseteq Jobs
  /\ wasEnabled \in BOOLEAN /\ enabled \in BOOLEAN
  /\ reported \in Profiles \cup {NoProfile}
  /\ nodeAgent \in NodeAgentType

Goto(j, stage) == job' = [job EXCEPT ![j].at = stage]
\* persist('running'): flushLog is started and nobody awaits it.
Persist(j) == writing' = writing \cup {j}

serverAndNode == <<wasEnabled, enabled, reported, nodeAgent, deployed, disabled, heard, recent>>

----------------------------------------------------------------------------
\* startProvisionJob for a server that has a row (createServer cannot add one).
StartProvisionJob(j) ==
  /\ job[j].at = "none" /\ \A k \in Jobs : k < j => job[k].at # "none"
  /\ \E p \in Profiles : job' = [job EXCEPT ![j] = [at |-> "installing", profile |-> p]]
  /\ jobRow' = [jobRow EXCEPT ![j] = "pending"]
  /\ Persist(j)
  /\ UNCHANGED serverAndNode

\* flushLog reaches the database: its UPDATE has no condition on the status.
WriteLands(j) ==
  /\ j \in writing
  /\ writing' = writing \ {j}
  /\ jobRow' = [jobRow EXCEPT ![j] = "running"]
  /\ UNCHANGED job /\ UNCHANGED serverAndNode

\* The next stage that only works on the node, or the last of them is over.
Advance(j) ==
  /\ job[j].at = "installing"
  /\ \E stage \in {"installing", "starting_agent"} : Goto(j, stage)
  /\ Persist(j)
  /\ UNCHANGED jobRow /\ UNCHANGED serverAndNode

\* SSH, a script, npm, systemctl, a missing file, the panel URL or a query fails.
Fails(j) ==
  /\ job[j].at \in JobStages \ {"unheard"}
  /\ Goto(j, "failed") /\ Persist(j)
  /\ UNCHANGED jobRow /\ UNCHANGED serverAndNode

\* systemctl restart: whatever agent ran on the node is replaced by this one.
RestartAgent(j) ==
  /\ job[j].at = "starting_agent"
  /\ nodeAgent' = [up |-> TRUE, profile |-> job[j].profile, by |-> j]
  /\ deployed' = deployed \cup {j}
  /\ Goto(j, "enabling") /\ Persist(j)
  /\ UNCHANGED <<jobRow, wasEnabled, enabled, reported, disabled, heard, recent>>

EnableServer(j) ==
  /\ job[j].at = "enabling"
  /\ enabled' = TRUE
  /\ Goto(j, "first_heartbeat") /\ Persist(j)
  /\ UNCHANGED <<jobRow, wasEnabled, reported, nodeAgent, deployed, disabled, heard, recent>>

\* waitForFirstHeartbeat takes a heartbeat from five seconds before it began.
HeartbeatFound(j) ==
  /\ job[j].at = "first_heartbeat" /\ j \in recent
  /\ Goto(j, "runtime_handshake") /\ Persist(j)
  /\ UNCHANGED jobRow /\ UNCHANGED serverAndNode

HeartbeatTimeout(j) ==
  /\ job[j].at = "first_heartbeat"
  /\ Goto(j, "unheard") /\ Persist(j)
  /\ UNCHANGED jobRow /\ UNCHANGED serverAndNode

\* Faulty variant: a job that failed leaves the server enabled.
DisableNot(j) == disabled' = disabled \cup {j} /\ enabled' = enabled
\* updateServer(serverId, {enabled: false}); an error of it is swallowed.
Disable(j) ==
  \/ disabled' = disabled \cup {j} /\ enabled' = FALSE
  \/ UNCHANGED <<disabled, enabled>>

DisableUnheard(j) ==
  /\ job[j].at = "unheard"
  /\ Disable(j)
  /\ Goto(j, "failed")
  /\ UNCHANGED <<jobRow, writing, wasEnabled, reported, nodeAgent, deployed, heard, recent>>

\* waitForCapabilityHandshake takes any profile the row names, however old.
Handshake(j) ==
  /\ job[j].at = "runtime_handshake" /\ reported # NoProfile
  /\ Goto(j, IF reported = job[j].profile THEN "completed" ELSE "failed") /\ Persist(j)
  /\ UNCHANGED jobRow /\ UNCHANGED serverAndNode

HandshakeTimeout(j) ==
  /\ job[j].at = "runtime_handshake" /\ reported = NoProfile
  /\ Goto(j, "failed") /\ Persist(j)
  /\ UNCHANGED jobRow /\ UNCHANGED serverAndNode

\* The one write that is awaited.
Complete(j) ==
  /\ job[j].at = "completed"
  /\ jobRow' = [jobRow EXCEPT ![j] = "done"]
  /\ Goto(j, "over")
  /\ UNCHANGED writing /\ UNCHANGED serverAndNode

\* The catch block writes the row, and if that fails nothing more is done.
RecordError(j) ==
  /\ job[j].at = "failed"
  /\ \/ jobRow' = [jobRow EXCEPT ![j] = "error"] /\ Goto(j, "disabling")
     \/ UNCHANGED jobRow /\ Goto(j, "over")
  /\ UNCHANGED writing /\ UNCHANGED serverAndNode

DisableServer(j) ==
  /\ job[j].at = "disabling"
  /\ Disable(j)
  /\ Goto(j, "over")
  /\ UNCHANGED <<jobRow, writing, wasEnabled, reported, nodeAgent, deployed, heard, recent>>

----------------------------------------------------------------------------
\* agentAuth verifies against AGENT_SECRET of the panel, while a deployed agent
\* signs with the secret of its credential: only a hand-installed one is accepted.
Accepted(a) == a.up /\ a.by = NoJob

ProvisionedHeartbeat ==
  /\ Accepted(nodeAgent)
  /\ reported' = nodeAgent.profile
  /\ recent' = {j \in Jobs : job[j].at # "over"}
  /\ heard' = heard \cup ({nodeAgent.by} \cap Jobs)
  /\ UNCHANGED <<job, jobRow, writing, wasEnabled, enabled, nodeAgent, deployed, disabled>>

\* More than five seconds pass between a heartbeat and the wait for one.
HeartbeatAges(j) ==
  /\ j \in recent /\ job[j].at # "first_heartbeat"
  /\ recent' = recent \ {j}
  /\ UNCHANGED <<job, jobRow, writing, wasEnabled, enabled, reported, nodeAgent,
                 deployed, disabled, heard>>

\* The panel restarts: its jobs are gone, their rows stay as they are.
PanelDies ==
  /\ \E j \in Jobs : job[j].at \notin {"none", "over"}
  /\ job' = [j \in Jobs |-> IF job[j].at = "none" THEN job[j] ELSE [job[j] EXCEPT !.at = "over"]]
  /\ writing' = {}
  /\ UNCHANGED jobRow /\ UNCHANGED serverAndNode

----------------------------------------------------------------------------
PvInit ==
  /\ job = [j \in Jobs |-> [at |-> "none", profile |-> NoProfile]]
  /\ jobRow = [j \in Jobs |-> "none"]
  /\ writing = {} /\ deployed = {} /\ disabled = {} /\ heard = {} /\ recent = {}
  /\ enabled \in BOOLEAN /\ wasEnabled = enabled
  /\ reported = NoProfile
  /\ \E p \in Profiles : nodeAgent = [up |-> TRUE, profile |-> p, by |-> NoJob]

PvStep(j) ==
  \/ Advance(j) \/ Fails(j) \/ RestartAgent(j) \/ EnableServer(j)
  \/ HeartbeatFound(j) \/ HeartbeatTimeout(j) \/ DisableUnheard(j)
  \/ Handshake(j) \/ HandshakeTimeout(j) \/ Complete(j)
  \/ RecordError(j) \/ DisableServer(j)
PvNext ==
  \/ \E j \in Jobs : StartProvisionJob(j) \/ WriteLands(j) \/ PvStep(j) \/ HeartbeatAges(j)
  \/ ProvisionedHeartbeat \/ PanelDies

PvSpec == PvInit /\ [][PvNext]_pvVars

----------------------------------------------------------------------------
\* A server that was disabled is enabled only by a job that started an agent on
\* it and has not disabled it since, however the jobs of that server overlap.
EnabledIsEarned == enabled => wasEnabled \/ \E j \in deployed : j \notin disabled

\* Disagreement: a job is done only after the first heartbeat of the server it
\* has newly provisioned (waitForFirstHeartbeat).
DoneMeansHeard == \A j \in Jobs : jobRow[j] = "done" => j \in heard
=============================================================================
