---------------------------- MODULE ServerSelection ----------------------------
(* Which server serves a viewer: selectServer and resolvePlaylistBaseUrl of   *)
(* serverService.js and the live and movie routes of stream.js that redirect  *)
(* to the result.  Rows and settings may change between any two queries.      *)
EXTENDS ServerRegistry

CONSTANT Panel   \* the panel's own origin: the request host or domain_name

ASSUME PanelAssumption == Panel \notin Servers \cup {NoServer}

VARIABLES
  ready,       \* servers on which the channel's placement is runtime-ready
  request,     \* the viewer being served
  seen         \* servers enabled at some moment of the request

selVars == <<server, timely, ready, request, seen>>

Consulting == {"line", "asset", "default"}
Stages == Consulting \cup {"fallback", "domain", "deliver", "movie",
                           "forced", "lb", "main", "host"}
RequestType ==
  [kind : {"live", "movie", "none"},
   at : Stages \cup {"idle", "answered", "hung"},
   force : Servers \cup {NoServer},        \* force_server_id of the line
   serverId : Servers \cup {NoServer},     \* selected.serverId
   base : BOOLEAN,                         \* selected.publicBaseUrl is not empty
   to : Servers \cup {Panel, NoServer}]    \* whose origin it was redirected to
NoRequest == [kind |-> "none", at |-> "idle", force |-> NoServer,
              serverId |-> NoServer, base |-> FALSE, to |-> NoServer]

SelTypeOK ==
  /\ server \in [Servers -> RowType] /\ timely \subseteq Servers
  /\ ready \subseteq Servers /\ seen \subseteq Servers
  /\ request \in RequestType

EnabledIn(table) == {s \in Servers : table[s].exists /\ table[s].enabled}

----------------------------------------------------------------------------
(* The rows change: updates, deletions and heartbeats of ServerRegistry *)

RowChanges(s) ==
  /\ \E row \in RowType :
       /\ row.exists => Exists(s)
       /\ ~row.exists => row = NoRow
       /\ server' = [server EXCEPT ![s] = row]
  /\ seen' = IF request.kind = "none" THEN seen ELSE seen \cup EnabledIn(server')
  /\ UNCHANGED <<timely, ready, request>>

\* A heartbeat, or the passing of time without one.
FreshChanges(s) ==
  /\ s \in timely \/ Exists(s)
  /\ timely' = IF s \in timely THEN timely \ {s} ELSE timely \cup {s}
  /\ UNCHANGED <<server, ready, request, seen>>

\* reportPlacementRuntimeFromNode: the placement becomes ready, or not any more.
ReportPlacement(s) ==
  /\ ready' = IF s \in ready THEN ready \ {s} ELSE ready \cup {s}
  /\ UNCHANGED <<server, timely, request, seen>>

RuntimeReady(s) == s \in timely /\ s \in ready

----------------------------------------------------------------------------
(* selectServer *)

Arrive ==
  /\ request.at = "idle"
  /\ \E k \in {"live", "movie"}, f \in Servers \cup {NoServer} :
       request' = [NoRequest EXCEPT !.kind = k, !.at = "line", !.force = f]
  /\ seen' = EnabledIn(server)
  /\ UNCHANGED <<server, timely, ready>>

\* buildSelectorResult: selectedServerId, publicBaseUrl, and no serverId.
Selected(base) ==
  [request EXCEPT !.at = IF request.kind = "live" THEN "deliver" ELSE "movie",
                  !.serverId = NoServer, !.base = base]

NextStage == CASE request.at = "line" -> "asset" [] request.at = "asset" -> "default"
               [] OTHER -> "fallback"

\* 1 to 3: the server of the line, of the asset, of the default setting is taken
\* if it has a row; a disabled or stale one only adds a warning.
ConsultSetting ==
  /\ request.at \in Consulting
  /\ \E s \in IF request.at = "line" THEN {request.force} ELSE Servers \cup {NoServer} :
       request' = IF Exists(s) THEN Selected(server[s].base)
                  ELSE [request EXCEPT !.at = NextStage]
  /\ UNCHANGED <<server, timely, ready, seen>>

\* The rank of a role in ORDER BY FIELD(role,'lb','main','edge').
Rank(role) == CASE role = "lb" -> 1 [] role = "main" -> 2 [] OTHER -> 3
FirstEnabled == {s \in Servers : Enabled(s) /\ \A t \in Servers :
                   Enabled(t) => Rank(server[s].role) <= Rank(server[t].role)}

\* 4: the first enabled row; rows of one role come in any order.
ConsultFallback ==
  /\ request.at = "fallback"
  /\ \/ \E s \in FirstEnabled : request' = Selected(server[s].base)
     \/ FirstEnabled = {} /\ request' = [request EXCEPT !.at = "domain"]
  /\ UNCHANGED <<server, timely, ready, seen>>

\* 5: without domain_name it throws; the routes do not catch, so the request is
\* never answered.
ConsultDomain ==
  /\ request.at = "domain"
  /\ request' \in {Selected(TRUE), [request EXCEPT !.at = "hung"]}
  /\ UNCHANGED <<server, timely, ready, seen>>

----------------------------------------------------------------------------
(* The live route *)

\* buildLiveDeliveryPlan up to the origin: 503 without a running channel.
Deliver ==
  /\ request.at = "deliver"
  /\ \E at \in {"forced", "answered"} : request' = [request EXCEPT !.at = at]
  /\ UNCHANGED <<server, timely, ready, seen>>

\* The gate looks at selected.serverId: only a server named there is verified.
Destination(origin) ==
  IF request.serverId # NoServer
  THEN IF RuntimeReady(request.serverId) THEN request.serverId ELSE Panel
  ELSE origin
Redirected(origin) == [request EXCEPT !.at = "answered", !.to = Destination(origin)]

\* Faulty variant: a disabled server still gives the origin.
UsableDisabled(s) == Exists(s) /\ server[s].base
Usable(s) == Enabled(s) /\ server[s].base

\* resolvePlaylistBaseUrl: the server of the line or else of the default setting.
ResolveForced ==
  /\ request.at = "forced"
  /\ \E s \in IF request.force # NoServer THEN {request.force} ELSE Servers \cup {NoServer} :
       request' = IF Usable(s) THEN Redirected(s) ELSE [request EXCEPT !.at = "lb"]
  /\ UNCHANGED <<server, timely, ready, seen>>

\* Then the first enabled load balancer, then the main server.
ResolveRole ==
  /\ request.at \in {"lb", "main"}
  /\ LET rows == {s \in Servers : Enabled(s) /\ server[s].role = request.at}
         next == [request EXCEPT !.at = IF @ = "lb" THEN "main" ELSE "host"]
     IN \/ \E s \in rows : request' = IF Usable(s) THEN Redirected(s) ELSE next
        \/ rows = {} /\ request' = next
  /\ UNCHANGED <<server, timely, ready, seen>>

ResolveHost ==
  /\ request.at = "host" /\ request' = Redirected(Panel)
  /\ UNCHANGED <<server, timely, ready, seen>>

----------------------------------------------------------------------------
(* The movie and series routes *)

\* With a public address the proxies of the server are looked up first, by a
\* query that is given no parameter and fails: nobody answers.
ServeMovie ==
  /\ request.at = "movie"
  /\ request' = IF request.base THEN [request EXCEPT !.at = "hung"]
                ELSE [request EXCEPT !.at = "answered", !.to = Panel]
  /\ UNCHANGED <<server, timely, ready, seen>>

Forget ==
  /\ request.at \in {"answered", "hung"}
  /\ request' = NoRequest /\ seen' = {}
  /\ UNCHANGED <<server, timely, ready>>

----------------------------------------------------------------------------
SelInit == SrInit /\ ready = {} /\ seen = {} /\ request = NoRequest

SelServe ==
  \/ ConsultSetting \/ ConsultFallback \/ ConsultDomain
  \/ Deliver \/ ResolveForced \/ ResolveRole \/ ResolveHost
  \/ ServeMovie
SelRows == \/ \E s \in Servers : RowChanges(s)
           \/ \E s \in Agents : FreshChanges(s) \/ ReportPlacement(s)
SelNext == (SelRows \/ Arrive \/ SelServe \/ Forget)
           /\ UNCHANGED <<beating, admin, brokenOff, installed>>

selAll == <<selVars, beating, admin, brokenOff, installed>>
SelSpec == SelInit /\ [][SelNext]_selAll
\* The event loop runs the next step of a request whose query was answered.
SelFairSpec == SelSpec /\ WF_selAll(SelServe /\ UNCHANGED <<beating, admin, brokenOff, installed>>)

----------------------------------------------------------------------------
\* A live viewer is redirected to the panel or to a server that was enabled at
\* some moment of the request, although selectServer also takes disabled ones.
LiveGoesToEnabled == request.at = "answered" => request.to \in seen \cup {Panel, NoServer}

\* Disagreement: stream.js says the placement is verified to be runtime-ready
\* before a redirect to a remote node.
ReadyBeforeRemote ==
  [][request.at # "answered" /\ request'.at = "answered" /\ request'.to \in Servers
       => RuntimeReady(request'.to)]_selAll

\* Disagreement: the movie route redirects to the node or serves from the panel.
MoviesAnswered == request.kind = "movie" ~> request.at = "answered"
=============================================================================
