---------------------------- MODULE ServerRegistry ----------------------------
(* The streaming_servers table (serverService.js): administrators and         *)
(* provisioning jobs that update rows, agents whose heartbeats merge what     *)
(* they report into the same rows, and the installer.  Every query is a step  *)
(* of its own, so these actors interleave between any two of them.            *)
EXTENDS Naturals, FiniteSets

CONSTANTS
  Servers,     \* ids of server rows
  NoServer,
  Admins,      \* administrators, or provisioning jobs, that update rows
  Rows,        \* the ids that have a row when the model starts
  Agents       \* the servers an agent runs on

ASSUME ServersAssumption ==
  /\ NoServer \notin Servers
  /\ Rows \subseteq Servers /\ Agents \subseteq Servers

VARIABLES
  server,      \* rows by id; a row deleted is NoRow
  beating,     \* per server: the public address its heartbeat read, merging it
  timely,       \* servers whose last heartbeat is recent
  admin,       \* what each administrator is doing
  brokenOff,   \* rows whose last update stopped between its UPDATE and its demotions
  installed    \* bootstrap-database.js ran to its end

srVars == <<server, beating, timely, admin, brokenOff, installed>>

Roles == {"main", "lb", "edge"}
RowType == [exists : BOOLEAN, role : Roles, enabled : BOOLEAN, base : BOOLEAN]
NoRow == [exists |-> FALSE, role |-> "edge", enabled |-> FALSE, base |-> FALSE]
AdminType == [at : {"idle", "write", "role", "demote"}, target : Servers \cup {NoServer}]
Resting == [at |-> "idle", target |-> NoServer]

SrTypeOK ==
  /\ server \in [Servers -> RowType]
  /\ beating \in [Servers -> {"no", "unset", "set"}]
  /\ timely \subseteq Servers
  /\ admin \in [Admins -> AdminType]
  /\ brokenOff \subseteq Servers \cup {NoServer}
  /\ installed \in BOOLEAN

Exists(s) == s \in Servers /\ server[s].exists
Enabled(s) == Exists(s) /\ server[s].enabled

----------------------------------------------------------------------------
(* Administration *)

\* updateServer's first query: nothing more happens to an id without a row.
BeginUpdate(a, s) ==
  /\ admin[a].at = "idle" /\ Exists(s)
  /\ admin' = [admin EXCEPT ![a] = [at |-> "write", target |-> s]]
  /\ UNCHANGED <<server, beating, timely, brokenOff, installed>>

\* UPDATE streaming_servers: role, enabled or public address, as the body says.
Written(s, role, enabled, base) ==
  IF Exists(s)
  THEN [server EXCEPT ![s] = [exists |-> TRUE, role |-> role, enabled |-> enabled, base |-> base]]
  ELSE server

WriteRow(a) ==
  /\ admin[a].at = "write"
  /\ \E role \in Roles, enabled, base \in BOOLEAN :
       server' = Written(admin[a].target, role, enabled, base)
  /\ admin' = [admin EXCEPT ![a].at = "role"]
  /\ brokenOff' = brokenOff \ {admin[a].target}
  /\ UNCHANGED <<beating, timely, installed>>

\* SELECT role: the others are demoted only if this row is main by now.
ReadRole(a) ==
  /\ admin[a].at = "role"
  /\ admin' = [admin EXCEPT ![a] =
       IF Exists(@.target) /\ server[@.target].role = "main"
       THEN [@ EXCEPT !.at = "demote"] ELSE Resting]
  /\ UNCHANGED <<server, beating, timely, brokenOff, installed>>

\* Faulty variant: only servers that are enabled are demoted.
DemotedIfEnabled(table, keep) ==
  [s \in Servers |-> IF s # keep /\ table[s].role = "main" /\ table[s].enabled
                     THEN [table[s] EXCEPT !.role = "edge"] ELSE table[s]]
Demoted(table, keep) ==
  [s \in Servers |-> IF s # keep /\ table[s].role = "main"
                     THEN [table[s] EXCEPT !.role = "edge"] ELSE table[s]]

DemoteOtherMains(a) ==
  /\ admin[a].at = "demote"
  /\ server' = Demoted(server, admin[a].target)
  /\ admin' = [admin EXCEPT ![a] = Resting]
  /\ UNCHANGED <<beating, timely, brokenOff, installed>>

\* A query fails, or the panel dies: the rest of the update never happens.
BreakOff(a) ==
  /\ admin[a].at # "idle"
  /\ brokenOff' = IF admin[a].at = "write" THEN brokenOff ELSE brokenOff \cup {admin[a].target}
  /\ admin' = [admin EXCEPT ![a] = Resting]
  /\ UNCHANGED <<server, beating, timely, installed>>

\* createServer: its INSERT names 49 columns and 51 values, so the database
\* refuses it whatever the body says, and its caller reports the error.
Inserted(table) == table

CreateServer ==
  /\ server' = Inserted(server)
  /\ UNCHANGED <<beating, timely, admin, brokenOff, installed>>

\* bootstrap-database.js: a main server for an empty table; an error ends it.
Bootstrap ==
  /\ ~installed
  /\ server' = IF \E s \in Servers : Exists(s) THEN server ELSE Inserted(server)
  /\ installed' = TRUE
  /\ UNCHANGED <<beating, timely, admin, brokenOff>>

DeleteServer(s) ==
  /\ Exists(s)
  /\ server' = [server EXCEPT ![s] = NoRow]
  /\ timely' = timely \ {s}
  /\ UNCHANGED <<beating, admin, brokenOff, installed>>

----------------------------------------------------------------------------
(* Agents *)

\* applyHeartbeat, then the SELECT of updateServerCapabilities.
Heartbeat(s) ==
  /\ Exists(s) /\ beating[s] = "no"
  /\ timely' = timely \cup {s}
  /\ beating' = [beating EXCEPT ![s] = IF server[s].base THEN "set" ELSE "unset"]
  /\ UNCHANGED <<server, admin, brokenOff, installed>>

\* Its UPDATE writes back the meta_json it read, public_base_url included.
MergeCapabilities(s) ==
  /\ beating[s] # "no"
  /\ server' = IF Exists(s) THEN [server EXCEPT ![s].base = (beating[s] = "set")] ELSE server
  /\ beating' = [beating EXCEPT ![s] = "no"]
  /\ UNCHANGED <<timely, admin, brokenOff, installed>>

\* The merge fails, or the panel dies before it.
MergeFails(s) ==
  /\ beating[s] # "no"
  /\ beating' = [beating EXCEPT ![s] = "no"]
  /\ UNCHANGED <<server, timely, admin, brokenOff, installed>>

\* No heartbeat for STALE_HEARTBEAT_THRESHOLD_MS.
GoStale(s) ==
  /\ s \in timely /\ timely' = timely \ {s}
  /\ UNCHANGED <<server, beating, admin, brokenOff, installed>>

----------------------------------------------------------------------------
SrInit ==
  /\ \E main \in Rows \cup {NoServer} :
       server = [s \in Servers |-> IF s \in Rows
         THEN [exists |-> TRUE, role |-> IF s = main THEN "main" ELSE "edge",
               enabled |-> TRUE, base |-> TRUE]
         ELSE NoRow]
  /\ beating = [s \in Servers |-> "no"]
  /\ timely = {}
  /\ admin = [a \in Admins |-> Resting]
  /\ brokenOff = {} /\ installed = FALSE

SrNext ==
  \/ \E a \in Admins, s \in Servers : BeginUpdate(a, s)
  \/ \E a \in Admins : WriteRow(a) \/ ReadRole(a) \/ DemoteOtherMains(a) \/ BreakOff(a)
  \/ \E s \in Servers : DeleteServer(s)
  \/ CreateServer \/ Bootstrap
  \/ \E s \in Agents : Heartbeat(s) \/ MergeCapabilities(s) \/ MergeFails(s) \/ GoStale(s)

SrSpec == SrInit /\ [][SrNext]_srVars

----------------------------------------------------------------------------
\* Two rows are both main only while an update of one of them has not demoted the
\* others yet, or was stopped before it could (updateServer, demoteOtherMains),
\* however many administrators edit.
OneMain ==
  \A s, t \in Servers :
    s # t /\ server[s].role = "main" /\ server[t].role = "main" =>
      \/ {s, t} \cap brokenOff # {}
      \/ \E a \in Admins : admin[a].at \in {"role", "demote"} /\ admin[a].target \in {s, t}

\* Disagreement: the installer leaves a registered main server.
InstallRegistersMain == installed => \E s \in Servers : Exists(s)
=============================================================================
