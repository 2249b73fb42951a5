--------------------------- MODULE RecordsProofs ---------------------------
(* Server rows, lines, bouquets, imports and stored channels: what they      *)
(* promise, for any number of rows, administrators, dialogs, jobs, requests. *)
EXTENDS ServerRegistry, LineLifecycle, Catalog, Imports, ChannelOptions,
        FiniteSetTheorems, SequenceTheorems, TLAPS

----------------------------------------------------------------------------
(* Server rows                                                               *)

\* OneMain rests on this: no role is left behind where a row was deleted, so an
\* update that finds its row gone need not demote anybody.
MainsExist == \A s \in Servers : server[s].role = "main" => server[s].exists

SrInv == SrTypeOK /\ MainsExist /\ OneMain

\* The rows and the progress records the actions write.
LEMMA RegistryRecords ==
  /\ NoRow \in RowType /\ Resting \in AdminType
  /\ \A role \in Roles, enabled, base \in BOOLEAN :
       [exists |-> TRUE, role |-> role, enabled |-> enabled, base |-> base] \in RowType
  /\ \A r \in RowType, base \in BOOLEAN : [r EXCEPT !.base = base] \in RowType
  /\ \A r \in RowType : [r EXCEPT !.role = "edge"] \in RowType
  /\ \A s \in Servers : [at |-> "write", target |-> s] \in AdminType
  /\ \A d \in AdminType : /\ [d EXCEPT !.at = "role"] \in AdminType
                          /\ [d EXCEPT !.at = "demote"] \in AdminType
  BY DEF NoRow, Resting, AdminType, RowType, Roles

\* The installer's rows: one main server at most, and every main one exists.
LEMMA SrInitInv == SrInit => SrInv
  <1>. SUFFICES ASSUME SrInit PROVE SrInv
    OBVIOUS
  <1>1. PICK main \in Rows \cup {NoServer} :
          server = [s \in Servers |-> IF s \in Rows
             THEN [exists |-> TRUE, role |-> IF s = main THEN "main" ELSE "edge",
                   enabled |-> TRUE, base |-> TRUE]
             ELSE NoRow]
    BY DEF SrInit
  <1>2. \A s \in Servers : /\ server[s] \in RowType
                           /\ server[s].role = "main" => s = main /\ server[s].exists
    BY <1>1, RegistryRecords DEF NoRow, RowType, Roles
  <1>3. SrTypeOK
    BY <1>1, <1>2, RegistryRecords DEF SrInit, SrTypeOK
  <1> QED
    BY <1>2, <1>3 DEF SrInv, MainsExist, OneMain

\* A step of an administrator that only goes on or ends, without a change of rows:
\* OneMain needs the update that made a row main only until it has read the role.
LEMMA SrAdminInv ==
  ASSUME SrInv, UNCHANGED <<server, beating, timely, brokenOff, installed>>,
         NEW a \in Admins, NEW d \in AdminType, admin' = [admin EXCEPT ![a] = d],
         \/ admin[a].at = "idle"
         \/ d.at = "demote" /\ d.target = admin[a].target
         \/ server[admin[a].target].role # "main"
         \/ admin[a].target \notin Servers
  PROVE  SrInv'
  <1>1. SrTypeOK'
    BY DEF SrInv, SrTypeOK
  <1>2. MainsExist'
    BY DEF SrInv, MainsExist
  <1>3. OneMain'
    BY DEF SrInv, SrTypeOK, OneMain
  <1> QED
    BY <1>1, <1>2, <1>3 DEF SrInv

\* An UPDATE makes a row main under an update that will demote the others.
LEMMA WriteRowInv ==
  ASSUME SrInv, NEW a \in Admins, WriteRow(a)
  PROVE  SrInv'
  <1>1. PICK role \in Roles, enabled \in BOOLEAN, base \in BOOLEAN :
          server' = Written(admin[a].target, role, enabled, base)
    BY DEF WriteRow
  <1>2. /\ admin' = [admin EXCEPT ![a].at = "role"] /\ brokenOff' = brokenOff \ {admin[a].target}
        /\ UNCHANGED <<beating, timely, installed>>
    BY DEF WriteRow
  <1>3. /\ server' \in [Servers -> RowType]
        /\ \A s \in Servers : s # admin[a].target => server'[s] = server[s]
        /\ \A s \in Servers : server'[s].role = "main" => server'[s].exists
    BY <1>1, RegistryRecords DEF Written, Exists, SrInv, SrTypeOK, MainsExist, RowType
  <1>4. SrTypeOK'
    BY <1>2, <1>3, RegistryRecords DEF SrInv, SrTypeOK
  <1>5. OneMain'
    BY <1>2, <1>3 DEF SrInv, SrTypeOK, OneMain, AdminType
  <1> QED
    BY <1>3, <1>4, <1>5 DEF SrInv, MainsExist

\* Afterwards the row that is kept is the only main one.
LEMMA DemoteInv ==
  ASSUME SrInv, NEW a \in Admins, DemoteOtherMains(a)
  PROVE  SrInv'
  <1>1. /\ server' = Demoted(server, admin[a].target)
        /\ admin' = [admin EXCEPT ![a] = Resting] /\ UNCHANGED <<beating, timely, brokenOff, installed>>
    BY DEF DemoteOtherMains
  <1>2. \A s \in Servers : /\ server'[s] \in RowType
                           /\ server'[s].role = "main" => s = admin[a].target /\ server'[s].exists
    BY <1>1, RegistryRecords DEF Demoted, SrInv, SrTypeOK, MainsExist, RowType
  <1>3. SrTypeOK'
    BY <1>1, <1>2, RegistryRecords DEF SrInv, SrTypeOK, Demoted
  <1> QED
    BY <1>2, <1>3 DEF SrInv, MainsExist, OneMain

\* An update that stops after its UPDATE leaves a note of its row.
LEMMA BreakOffInv ==
  ASSUME SrInv, NEW a \in Admins, BreakOff(a)
  PROVE  SrInv'
  <1>1. /\ admin' = [admin EXCEPT ![a] = Resting]
        /\ brokenOff' = IF admin[a].at = "write" THEN brokenOff ELSE brokenOff \cup {admin[a].target}
        /\ UNCHANGED <<server, beating, timely, installed>>
    BY DEF BreakOff
  <1>2. SrTypeOK'
    BY <1>1, RegistryRecords DEF SrInv, SrTypeOK, AdminType
  <1>3. MainsExist'
    BY <1>1 DEF SrInv, MainsExist
  <1>4. OneMain'
    <2>1. SUFFICES ASSUME NEW s \in Servers, NEW t \in Servers, s # t,
                          server[s].role = "main", server[t].role = "main",
                          {s, t} \cap brokenOff' = {}
                   PROVE  \E b \in Admins : admin'[b].at \in {"role", "demote"} /\ admin'[b].target \in {s, t}
      BY <1>1 DEF OneMain
    <2>2. PICK b \in Admins : admin[b].at \in {"role", "demote"} /\ admin[b].target \in {s, t}
      BY <1>1, <2>1 DEF SrInv, OneMain
    <2>3. b # a
      BY <1>1, <2>1, <2>2
    <2> QED
      BY <1>1, <2>2, <2>3 DEF SrInv, SrTypeOK
  <1> QED
    BY <1>2, <1>3, <1>4 DEF SrInv

\* A row goes, or its public address changes: no server becomes main.
LEMMA SrRowInv ==
  ASSUME SrInv, server' \in [Servers -> RowType], timely' \subseteq Servers,
         beating' \in [Servers -> {"no", "unset", "set"}], installed' \in BOOLEAN,
         admin' = admin, brokenOff' = brokenOff,
         \A s \in Servers : server'[s].role = "main" =>
           server[s].role = "main" /\ server'[s].exists = server[s].exists
  PROVE  SrInv'
  BY DEF SrInv, SrTypeOK, MainsExist, OneMain

\* Every step of administrators, agents and the installer keeps the invariant.
LEMMA SrStepInv == SrInv /\ [SrNext]_srVars => SrInv'
  <1>. SUFFICES ASSUME SrInv, [SrNext]_srVars PROVE SrInv'
    OBVIOUS
  <1>t. SrTypeOK
    BY DEF SrInv
  <1>1. ASSUME NEW a \in Admins, NEW s \in Servers, BeginUpdate(a, s) PROVE SrInv'
    BY <1>1, SrAdminInv, RegistryRecords DEF BeginUpdate
  <1>2. ASSUME NEW a \in Admins, WriteRow(a) PROVE SrInv'
    BY <1>2, WriteRowInv
  <1>3. ASSUME NEW a \in Admins, ReadRole(a) PROVE SrInv'
    <2>1. CASE Exists(admin[a].target) /\ server[admin[a].target].role = "main"
      <3>1. admin' = [admin EXCEPT ![a] = [admin[a] EXCEPT !.at = "demote"]]
        BY <1>3, <2>1 DEF ReadRole
      <3>2. [admin[a] EXCEPT !.at = "demote"] \in AdminType
        BY <1>t, RegistryRecords DEF SrTypeOK
      <3>3. /\ [admin[a] EXCEPT !.at = "demote"].at = "demote"
            /\ [admin[a] EXCEPT !.at = "demote"].target = admin[a].target
        BY <1>t DEF SrTypeOK, AdminType
      <3> QED
        BY <1>3, <3>1, <3>2, <3>3, SrAdminInv DEF ReadRole
    <2>2. CASE ~(Exists(admin[a].target) /\ server[admin[a].target].role = "main")
      <3>1. admin' = [admin EXCEPT ![a] = Resting]
        BY <1>3, <2>2 DEF ReadRole
      <3>2. admin[a].target \notin Servers \/ server[admin[a].target].role # "main"
        BY <2>2 DEF Exists, SrInv, MainsExist
      <3> QED
        BY <1>3, <3>1, <3>2, SrAdminInv, RegistryRecords DEF ReadRole
    <2> QED
      BY <2>1, <2>2
  <1>4. ASSUME NEW a \in Admins, DemoteOtherMains(a) PROVE SrInv'
    BY <1>4, DemoteInv
  <1>5. ASSUME NEW s \in Servers, DeleteServer(s) PROVE SrInv'
    <2>1. \A t \in Servers : server'[t] = IF t = s THEN NoRow ELSE server[t]
      BY <1>5, <1>t DEF DeleteServer, SrTypeOK
    <2>2. server' \in [Servers -> RowType]
      BY <1>5, <1>t, RegistryRecords DEF DeleteServer, SrTypeOK
    <2> QED
      BY <1>5, <1>t, <2>1, <2>2, SrRowInv DEF DeleteServer, SrTypeOK, NoRow
  <1>6. CASE CreateServer
    BY <1>6, <1>t, SrRowInv DEF CreateServer, Inserted, SrTypeOK
  <1>7. CASE Bootstrap
    BY <1>7, <1>t, SrRowInv DEF Bootstrap, Inserted, SrTypeOK
  <1>8. ASSUME NEW s \in Agents, Heartbeat(s) PROVE SrInv'
    <2>1. s \in Servers
      BY ServersAssumption
    <2> QED
      BY <1>8, <1>t, <2>1, SrRowInv DEF Heartbeat, SrTypeOK
  <1>9. ASSUME NEW s \in Agents, MergeCapabilities(s) PROVE SrInv'
    <2>1. s \in Servers
      BY ServersAssumption
    <2>2. \A t \in Servers : /\ server'[t] \in RowType
                             /\ server'[t].role = server[t].role /\ server'[t].exists = server[t].exists
      <3>. DEFINE base == (beating[s] = "set")
      <3>1. base \in BOOLEAN
        OBVIOUS
      <3>2. \A t \in Servers : server'[t] = server[t] \/ server'[t] = [server[t] EXCEPT !.base = base]
        BY <1>9, <1>t DEF MergeCapabilities, SrTypeOK
      <3>. HIDE DEF base
      <3>3. \A r \in RowType : /\ [r EXCEPT !.base = base] \in RowType
                              /\ [r EXCEPT !.base = base].role = r.role
                              /\ [r EXCEPT !.base = base].exists = r.exists
        BY <3>1 DEF RowType
      <3>4. \A t \in Servers : server[t] \in RowType
        BY <1>t DEF SrTypeOK
      <3> QED
        BY <3>2, <3>3, <3>4
    <2>3. server' \in [Servers -> RowType]
      BY <1>9, <1>t, <2>2 DEF MergeCapabilities, SrTypeOK
    <2>4. /\ beating' \in [Servers -> {"no", "unset", "set"}]
          /\ UNCHANGED <<timely, admin, brokenOff, installed>>
      BY <1>9, <1>t DEF MergeCapabilities, SrTypeOK
    <2> QED
      BY <1>t, <2>2, <2>3, <2>4, SrRowInv DEF SrTypeOK
  <1>10. ASSUME NEW s \in Agents, GoStale(s) PROVE SrInv'
    BY <1>10, <1>t, SrRowInv DEF GoStale, SrTypeOK
  <1>11. ASSUME NEW s \in Agents, MergeFails(s) PROVE SrInv'
    BY <1>11, <1>t, SrRowInv DEF MergeFails, SrTypeOK
  <1>12. ASSUME NEW a \in Admins, BreakOff(a) PROVE SrInv'
    BY <1>12, BreakOffInv
  <1>13. CASE UNCHANGED srVars
    BY <1>13, <1>t, SrRowInv DEF srVars, SrTypeOK
  <1> QED
    BY <1>1, <1>2, <1>3, <1>4, <1>5, <1>6, <1>7, <1>8, <1>9, <1>10, <1>11,
       <1>12, <1>13 DEF SrNext

\* Two servers are both main only under an update that will demote one of them.
THEOREM MainStaysUnique == SrSpec => []OneMain
  <1>1. SrInv => OneMain
    BY DEF SrInv
  <1> QED
    BY <1>1, SrInitInv, SrStepInv, PTL DEF SrSpec
----------------------------------------------------------------------------
(* Lines and the sweep                                                       *)

\* Whom a sweep has listed or disabled.
Swept(l) == disabledBy[l] = "sweep" \/ \E w \in Sweeps : l \in condemned[w]

\* SweptAreDue rests on this: no sweep knows an id before its line is made, so a
\* line cannot be made already condemned.
UnusedUntouched == \A l \in Lines : lineRow[l].state = "unused" => ~Swept(l)

LlInv == LlTypeOK /\ UnusedUntouched /\ SweptAreDue

\* The rows and pages the actions write.
LEMMA LineRecords ==
  /\ Unused \in LineRow /\ ClosedPage \in PageType
  /\ [Unused EXCEPT !.state = "gone"] \in LineRow
  /\ \A exp \in Expiries : [Unused EXCEPT !.state = "there", !.exp = exp] \in LineRow
  /\ \A r \in LineRow, exp \in Expiries : [r EXCEPT !.exp = exp] \in LineRow
  /\ \A r \in LineRow, b \in BOOLEAN : /\ [r EXCEPT !.enabled = b] \in LineRow
                                       /\ [r EXCEPT !.admin = b] \in LineRow
  /\ \A r \in LineRow, exp \in Expiries, b \in BOOLEAN :
       [r EXCEPT !.exp = exp, !.admin = b] \in LineRow
  /\ \A how \in {"extend", "form", "list"}, l \in Lines, r \in LineRow :
       [kind |-> how, line |-> {l}, exp |-> r.exp, enabled |-> r.enabled] \in PageType
  BY DEF Unused, ClosedPage, LineRow, PageType, Expiries

\* The dates a dialog may send are dates.
LEMMA Dates ==
  ASSUME LlTypeOK
  PROVE  /\ {} \in Expiries
         /\ \A d \in Durations : {now + d} \in Expiries
         /\ \A p \in Pages : page[p].exp \in Expiries /\ page[p].line \subseteq Lines
         /\ \A l \in Lines : lineRow[l] \in LineRow /\ lineRow[l].exp \in Expiries
         /\ \A s \in SUBSET (0..(MaxTime + 1)) : s \in Expiries
  BY LifeAssumption DEF LlTypeOK, LineRow, PageType, Expiries, Times

\* A date that is over stays so.
LEMMA PastStays ==
  ASSUME NEW exp \in Expiries, NEW t \in Nat, NEW u \in Nat, t <= u, Past(exp, t)
  PROVE  Past(exp, u)
  BY DEF Past, Expiries

\* A step that gives no line it does not note another date, lists no line that is
\* not due, makes no line out of a deleted one and does not turn back the clock.
LEMMA SweptInv ==
  ASSUME LlInv, lineRow' \in [Lines -> LineRow], page' \in [Pages -> PageType],
         now' \in Times, now <= now', promised' \subseteq Lines, redated' \subseteq Lines,
         condemned' \in [Sweeps -> SUBSET Lines],
         disabledBy' \in [Lines -> {"nobody", "sweep", "page"}],
         \A l \in Lines :
           /\ Swept(l)' => Swept(l) \/ (There(l) /\ Past(lineRow[l].exp, now))
           /\ l \notin redated' => l \notin redated \/ (There(l) /\ Past(lineRow[l].exp, now))
           /\ lineRow'[l].state = "unused" => lineRow[l].state = "unused"
           /\ lineRow'[l].state = "there" => There(l) \/ lineRow[l].state = "unused"
           /\ lineRow'[l].state = "there" /\ l \notin redated' => lineRow'[l].exp = lineRow[l].exp
  PROVE  LlInv'
  <1>1. LlTypeOK'
    BY DEF LlTypeOK
  <1>2. UnusedUntouched'
    BY DEF LlInv, UnusedUntouched, There
  <1>3. ASSUME NEW l \in Lines, l \notin redated', lineRow'[l].state = "there", Swept(l)'
        PROVE  Past(lineRow'[l].exp, now')
    <2>1. lineRow'[l].exp = lineRow[l].exp /\ lineRow[l].exp \in Expiries /\ now \in Nat /\ now' \in Nat
      BY <1>3, LifeAssumption DEF LlInv, LlTypeOK, LineRow, Times
    <2>2. Past(lineRow[l].exp, now)
      BY <1>3 DEF LlInv, UnusedUntouched, SweptAreDue, Swept
    <2> QED
      BY <2>1, <2>2, PastStays
  <1>4. SweptAreDue'
    BY <1>3 DEF SweptAreDue, Swept, There
  <1> QED
    BY <1>1, <1>2, <1>4 DEF LlInv

\* A step that only rewrites rows and pages: dates change as NoteRedated notes.
LEMMA NotedInv ==
  ASSUME LlInv, lineRow' \in [Lines -> LineRow], page' \in [Pages -> PageType],
         promised' \subseteq Lines, NoteRedated, UNCHANGED <<now, condemned, disabledBy>>,
         \A l \in Lines : /\ lineRow'[l].state = "unused" => lineRow[l].state = "unused"
                          /\ lineRow'[l].state = "there" => There(l) \/ lineRow[l].state = "unused"
  PROVE  LlInv'
  <1>1. \A l \in Lines : Swept(l)' => Swept(l)
    BY DEF Swept
  <1>2. redated' \subseteq Lines
    BY DEF LlInv, LlTypeOK, NoteRedated
  <1>3. \A l \in Lines : l \notin redated' => l \notin redated /\ lineRow'[l].exp = lineRow[l].exp
    BY DEF NoteRedated
  <1>4. now' \in Times /\ now <= now' /\ condemned' \in [Sweeps -> SUBSET Lines]
        /\ disabledBy' \in [Lines -> {"nobody", "sweep", "page"}]
    BY LifeAssumption DEF LlInv, LlTypeOK, Times
  <1> QED
    BY <1>1, <1>2, <1>3, <1>4, SweptInv

\* A step that gives no line another date.
LEMMA SameDatesInv ==
  ASSUME LlInv, lineRow' \in [Lines -> LineRow], page' \in [Pages -> PageType],
         promised' \subseteq Lines, disabledBy' \in [Lines -> {"nobody", "sweep", "page"}],
         condemned' \in [Sweeps -> SUBSET Lines], UNCHANGED <<now, redated>>,
         \A l \in Lines :
           /\ lineRow'[l].state = "unused" => lineRow[l].state = "unused"
           /\ lineRow'[l].state = "there" => There(l) /\ lineRow'[l].exp = lineRow[l].exp
           /\ disabledBy'[l] = "sweep" => Swept(l)
           /\ \A w \in Sweeps : l \in condemned'[w] => l \in condemned[w]
  PROVE  LlInv'
  <1>1. \A l \in Lines : Swept(l)' => Swept(l)
    BY DEF Swept
  <1>2. now' \in Times /\ now <= now' /\ redated' \subseteq Lines
    BY LifeAssumption DEF LlInv, LlTypeOK, Times
  <1> QED
    BY <1>1, <1>2, SweptInv

\* No line, no list.
LEMMA LlInitInv == LlInit => LlInv
  <1>. SUFFICES ASSUME LlInit PROVE LlInv
    OBVIOUS
  <1>1. LlTypeOK
    <2>1. now \in Times
      BY LifeAssumption DEF LlInit, Times
    <2>2. lineRow \in [Lines -> LineRow] /\ page \in [Pages -> PageType]
      BY LineRecords DEF LlInit
    <2> QED
      BY <2>1, <2>2 DEF LlInit, LlTypeOK
  <1>2. \A l \in Lines : ~There(l) /\ disabledBy[l] = "nobody"
    BY DEF LlInit, There, Unused
  <1>3. \A l \in Lines : ~Swept(l)
    BY <1>2 DEF LlInit, Swept
  <1> QED
    BY <1>1, <1>2, <1>3 DEF LlInv, UnusedUntouched, SweptAreDue

\* Every step of the clock, the sweep, the pages and the routes.
LEMMA LlStepInv == LlInv /\ [LlNext]_llVars => LlInv'
  <1>. SUFFICES ASSUME LlInv, [LlNext]_llVars PROVE LlInv'
    OBVIOUS
  <1>t. LlTypeOK
    BY DEF LlInv
  <1>d. /\ {} \in Expiries
        /\ \A d \in Durations : {now + d} \in Expiries
        /\ \A p \in Pages : page[p].exp \in Expiries /\ page[p].line \subseteq Lines
        /\ \A l \in Lines : lineRow[l] \in LineRow /\ lineRow[l].exp \in Expiries
        /\ \A s \in SUBSET (0..(MaxTime + 1)) : s \in Expiries
    BY <1>t, Dates
  <1>c. ASSUME NEW p \in Pages PROVE [page EXCEPT ![p] = ClosedPage] \in [Pages -> PageType]
    BY <1>t, LineRecords DEF LlTypeOK
  <1>u. ASSUME UNCHANGED <<now, lineRow, condemned, redated, disabledBy, promised>>,
               page' \in [Pages -> PageType]
        PROVE  LlInv'
    <2>1. LlTypeOK'
      BY <1>t, <1>u DEF LlTypeOK
    <2> QED
      BY <1>u, <2>1 DEF LlInv, UnusedUntouched, SweptAreDue, Swept, There
  <1>1. CASE Tick
    <2>1. now' \in Times /\ now <= now'
      BY <1>1, <1>t, LifeAssumption DEF Tick, LlTypeOK, Times
    <2>2. UNCHANGED <<lineRow, condemned, page, redated, disabledBy, promised>>
      BY <1>1 DEF Tick
    <2> QED
      BY <1>t, <2>1, <2>2, SweptInv DEF LlTypeOK, There, Swept
  <1>2. ASSUME NEW w \in Sweeps, SweepReads(w) PROVE LlInv'
    <2>. DEFINE found == {l \in Lines : There(l) /\ lineRow[l].enabled /\ Due(l)}
    <2>1. \A l \in found : There(l) /\ Past(lineRow[l].exp, now)
      BY DEF Due
    <2>. found \subseteq Lines
      OBVIOUS
    <2>2. /\ condemned' = [condemned EXCEPT ![w] = found] /\ redated' = redated \ found
          /\ UNCHANGED <<now, lineRow, page, disabledBy, promised>>
      BY <1>2 DEF SweepReads
    <2>. HIDE DEF found
    <2>3. \A l \in Lines : Swept(l)' => Swept(l) \/ l \in found
      BY <1>t, <2>2 DEF Swept, LlTypeOK
    <2>4. condemned' \in [Sweeps -> SUBSET Lines] /\ redated' \subseteq Lines
      BY <1>t, <2>2 DEF LlTypeOK
    <2>5. now' \in Times /\ now <= now'
      BY <1>t, <2>2, LifeAssumption DEF LlTypeOK, Times
    <2> QED
      BY <1>t, <2>1, <2>2, <2>3, <2>4, <2>5, SweptInv DEF LlTypeOK, There
  <1>3. ASSUME NEW w \in Sweeps, SweepFails(w) PROVE LlInv'
    <2>1. condemned' \in [Sweeps -> SUBSET Lines]
          /\ \A v \in Sweeps : condemned'[v] \subseteq condemned[v]
      BY <1>3, <1>t DEF SweepFails, LlTypeOK
    <2> QED
      BY <1>3, <1>t, <2>1, SameDatesInv DEF SweepFails, LlTypeOK, There, Swept
  <1>4. CASE DeleteExpiredLines
    <2>1. lineRow' \in [Lines -> LineRow]
      BY <1>4, <1>t, LineRecords DEF DeleteExpiredLines, LlTypeOK
    <2>2. \A l \in Lines : lineRow'[l] = lineRow[l] \/ lineRow'[l] = [Unused EXCEPT !.state = "gone"]
      BY <1>4 DEF DeleteExpiredLines
    <2>3. [Unused EXCEPT !.state = "gone"].state = "gone"
      BY DEF Unused
    <2>4. /\ promised' \subseteq Lines /\ disabledBy' \in [Lines -> {"nobody", "sweep", "page"}]
          /\ \A l \in Lines : disabledBy'[l] = "sweep" => disabledBy[l] = "sweep"
          /\ UNCHANGED <<now, condemned, page, redated>>
      BY <1>4, <1>t DEF DeleteExpiredLines, LlTypeOK
    <2>5. \A l \in Lines : /\ lineRow'[l].state = "unused" => lineRow[l].state = "unused"
                           /\ lineRow'[l].state = "there" =>
                                There(l) /\ lineRow'[l].exp = lineRow[l].exp
                           /\ disabledBy'[l] = "sweep" => Swept(l)
      BY <2>2, <2>3, <2>4 DEF There, Swept
    <2> QED
      BY <1>t, <2>1, <2>4, <2>5, SameDatesInv DEF LlTypeOK
  <1>5. ASSUME NEW w \in Sweeps, NEW l \in Lines, SweepDisables(w, l) PROVE LlInv'
    <2>1. \A k \in Lines : \/ lineRow'[k] = lineRow[k]
                           \/ lineRow'[k] = [lineRow[k] EXCEPT !.enabled = FALSE]
      BY <1>5, <1>t, <1>d DEF SweepDisables, LlTypeOK, LineRow
    <2>2. lineRow' \in [Lines -> LineRow]
      BY <1>5, <1>t, <1>d, <2>1, LineRecords DEF SweepDisables, LlTypeOK
    <2>3. \A r \in LineRow : /\ [r EXCEPT !.enabled = FALSE].state = r.state
                             /\ [r EXCEPT !.enabled = FALSE].exp = r.exp
      BY DEF LineRow
    <2>4. /\ disabledBy' \in [Lines -> {"nobody", "sweep", "page"}]
          /\ \A k \in Lines : disabledBy'[k] = "sweep" => Swept(k)
      BY <1>5, <1>t DEF SweepDisables, LlTypeOK, Swept
    <2>5. condemned' \in [Sweeps -> SUBSET Lines]
          /\ \A v \in Sweeps : condemned'[v] \subseteq condemned[v]
      BY <1>5, <1>t DEF SweepDisables, LlTypeOK
    <2>6. \A k \in Lines : lineRow'[k].state = lineRow[k].state /\ lineRow'[k].exp = lineRow[k].exp
      BY <1>d, <2>1, <2>3
    <2>7. UNCHANGED <<now, page, redated, promised>>
      BY <1>5 DEF SweepDisables
    <2> QED
      BY <1>t, <2>2, <2>4, <2>5, <2>6, <2>7, SameDatesInv DEF LlTypeOK, There
  <1>6. ASSUME NEW l \in Lines, CreateLine(l) PROVE LlInv'
    <2>1. PICK exp \in {{}} \cup {{now + d} : d \in Durations} :
            lineRow' = [lineRow EXCEPT ![l] = [Unused EXCEPT !.state = "there", !.exp = exp]]
      BY <1>6 DEF CreateLine
    <2>2. exp \in Expiries
      BY <1>d
    <2>3. lineRow' \in [Lines -> LineRow]
      BY <1>t, <2>1, <2>2, LineRecords DEF LlTypeOK
    <2>4. lineRow[l].state = "unused" /\ NoteRedated /\ UNCHANGED <<now, condemned, page, disabledBy, promised>>
      BY <1>6 DEF CreateLine
    <2>5. \A k \in Lines : k # l => lineRow'[k] = lineRow[k]
      BY <1>t, <2>1 DEF LlTypeOK
    <2>6. \A k \in Lines :
            /\ lineRow'[k].state = "unused" => lineRow[k].state = "unused"
            /\ lineRow'[k].state = "there" => There(k) \/ lineRow[k].state = "unused"
      BY <2>4, <2>5 DEF There
    <2>7. page' \in [Pages -> PageType] /\ promised' \subseteq Lines
      BY <1>t, <2>4 DEF LlTypeOK
    <2> QED
      BY <2>3, <2>4, <2>6, <2>7, NotedInv
  <1>7. ASSUME NEW l \in Lines, BanLine(l) PROVE LlInv'
    <2>1. PICK b \in BOOLEAN : lineRow' = [lineRow EXCEPT ![l].admin = b]
      BY <1>7 DEF BanLine
    <2>2. /\ lineRow' \in [Lines -> LineRow]
          /\ \A k \in Lines : lineRow'[k] = lineRow[k] \/ lineRow'[k] = [lineRow[k] EXCEPT !.admin = b]
      BY <1>t, <1>d, <2>1, LineRecords DEF LlTypeOK
    <2>3. \A r \in LineRow : [r EXCEPT !.admin = b].state = r.state /\ [r EXCEPT !.admin = b].exp = r.exp
      BY DEF LineRow
    <2>4. \A k \in Lines : lineRow'[k].state = lineRow[k].state /\ lineRow'[k].exp = lineRow[k].exp
      BY <1>d, <2>2, <2>3
    <2>5. UNCHANGED <<now, condemned, page, redated, disabledBy, promised>>
      BY <1>7 DEF BanLine
    <2>6. /\ page' \in [Pages -> PageType] /\ condemned' \in [Sweeps -> SUBSET Lines]
          /\ disabledBy' \in [Lines -> {"nobody", "sweep", "page"}] /\ promised' \subseteq Lines
      BY <1>t, <2>5 DEF LlTypeOK
    <2>7. \A k \in Lines :
            /\ lineRow'[k].state = "unused" => lineRow[k].state = "unused"
            /\ lineRow'[k].state = "there" => There(k) /\ lineRow'[k].exp = lineRow[k].exp
            /\ disabledBy'[k] = "sweep" => Swept(k)
            /\ \A w \in Sweeps : k \in condemned'[w] => k \in condemned[w]
      BY <2>4, <2>5 DEF There, Swept
    <2> QED
      BY <2>2, <2>5, <2>6, <2>7, SameDatesInv
  <1>8. ASSUME NEW l \in Lines, DeleteLine(l) PROVE LlInv'
    <2>1. /\ lineRow' \in [Lines -> LineRow]
          /\ \A k \in Lines : lineRow'[k] = lineRow[k] \/ lineRow'[k] = [Unused EXCEPT !.state = "gone"]
      BY <1>8, <1>t, LineRecords DEF DeleteLine, LlTypeOK
    <2>2. [Unused EXCEPT !.state = "gone"].state = "gone"
      BY DEF Unused
    <2>3. UNCHANGED <<now, condemned, page, redated>>
      BY <1>8 DEF DeleteLine
    <2>4. /\ promised' \subseteq Lines /\ disabledBy' \in [Lines -> {"nobody", "sweep", "page"}]
          /\ \A k \in Lines : disabledBy'[k] = "sweep" => disabledBy[k] = "sweep"
      BY <1>8, <1>t DEF DeleteLine, LlTypeOK
    <2>5. page' \in [Pages -> PageType] /\ condemned' \in [Sweeps -> SUBSET Lines]
      BY <1>t, <2>3 DEF LlTypeOK
    <2>6. \A k \in Lines :
            /\ lineRow'[k].state = "unused" => lineRow[k].state = "unused"
            /\ lineRow'[k].state = "there" => There(k) /\ lineRow'[k].exp = lineRow[k].exp
            /\ disabledBy'[k] = "sweep" => Swept(k)
            /\ \A w \in Sweeps : k \in condemned'[w] => k \in condemned[w]
      BY <2>1, <2>2, <2>3, <2>4 DEF There, Swept
    <2> QED
      BY <2>1, <2>3, <2>4, <2>5, <2>6, SameDatesInv
  <1>9. ASSUME NEW p \in Pages, SaveExtension(p) PROVE LlInv'
    <2>1. PICK l \in page[p].line, exp \in SUBSET (0..(MaxTime + 1)) :
            /\ lineRow' = [lineRow EXCEPT ![l].exp = IF There(l) THEN exp ELSE @]
            /\ promised' = IF There(l) THEN promised \cup {l} ELSE promised
      BY <1>9 DEF SaveExtension
    <2>2. l \in Lines /\ exp \in Expiries
      BY <1>d
    <2>3. lineRow' \in [Lines -> LineRow]
      BY <1>t, <1>d, <2>1, <2>2, LineRecords DEF LlTypeOK
    <2>4. page' = [page EXCEPT ![p] = ClosedPage] /\ NoteRedated /\ UNCHANGED <<now, condemned, disabledBy>>
      BY <1>9 DEF SaveExtension
    <2>5. \A k \in Lines : lineRow'[k].state = lineRow[k].state
      BY <1>t, <1>d, <2>1, <2>2 DEF LlTypeOK, LineRow
    <2>6. page' \in [Pages -> PageType] /\ promised' \subseteq Lines
      BY <1>t, <1>c, <2>1, <2>2, <2>4 DEF LlTypeOK
    <2>7. \A k \in Lines :
            /\ lineRow'[k].state = "unused" => lineRow[k].state = "unused"
            /\ lineRow'[k].state = "there" => There(k) \/ lineRow[k].state = "unused"
      BY <2>5 DEF There
    <2> QED
      BY <2>3, <2>4, <2>6, <2>7, NotedInv
  <1>10. ASSUME NEW p \in Pages, SaveForm(p) PROVE LlInv'
    <2>1. PICK l \in page[p].line, admin0 \in BOOLEAN,
               exp \in {{}, page[p].exp} \cup {{now + d} : d \in Durations} :
            lineRow' = [lineRow EXCEPT ![l].exp = IF There(l) THEN exp ELSE @,
                                       ![l].admin = IF There(l) THEN admin0 ELSE @]
      BY <1>10 DEF SaveForm
    <2>2. l \in Lines /\ exp \in Expiries
      BY <1>d
    <2>3. lineRow' \in [Lines -> LineRow]
      <3>1. CASE There(l)
        <4>1. lineRow' = [lineRow EXCEPT ![l] = [lineRow[l] EXCEPT !.exp = exp, !.admin = admin0]]
          BY <1>t, <2>1, <2>2, <3>1 DEF LlTypeOK
        <4> QED
          BY <1>t, <1>d, <2>2, <4>1, LineRecords DEF LlTypeOK
      <3>2. CASE ~There(l)
        <4>1. lineRow' = lineRow
          BY <1>t, <1>d, <2>1, <2>2, <3>2 DEF LlTypeOK, LineRow
        <4> QED
          BY <1>t, <4>1 DEF LlTypeOK
      <3> QED
        BY <3>1, <3>2
    <2>4. /\ page' = [page EXCEPT ![p] = ClosedPage] /\ promised' = promised \ page[p].line
          /\ NoteRedated /\ UNCHANGED <<now, condemned, disabledBy>>
      BY <1>10 DEF SaveForm
    <2>5. \A k \in Lines : lineRow'[k].state = lineRow[k].state
      BY <1>t, <1>d, <2>1, <2>2 DEF LlTypeOK, LineRow
    <2>6. page' \in [Pages -> PageType] /\ promised' \subseteq Lines
      BY <1>t, <1>c, <2>4 DEF LlTypeOK
    <2>7. \A k \in Lines :
            /\ lineRow'[k].state = "unused" => lineRow[k].state = "unused"
            /\ lineRow'[k].state = "there" => There(k) \/ lineRow[k].state = "unused"
      BY <2>5 DEF There
    <2> QED
      BY <2>3, <2>4, <2>6, <2>7, NotedInv
  <1>11. ASSUME NEW p \in Pages, ToggleDisable(p) PROVE LlInv'
    <2>1. PICK l \in page[p].line :
            /\ lineRow' = [lineRow EXCEPT ![l].enabled = IF There(l) THEN ~page[p].enabled ELSE @]
            /\ disabledBy' = [disabledBy EXCEPT ![l] =
                 IF ~There(l) THEN @ ELSE IF page[p].enabled THEN "page" ELSE "nobody"]
      BY <1>11 DEF ToggleDisable
    <2>2. l \in Lines
      BY <1>d
    <2>3. \A k \in Lines : \/ lineRow'[k] = lineRow[k]
                           \/ \E b \in BOOLEAN : lineRow'[k] = [lineRow[k] EXCEPT !.enabled = b]
      BY <1>t, <1>d, <2>1, <2>2 DEF LlTypeOK, LineRow
    <2>4. lineRow' \in [Lines -> LineRow]
      BY <1>t, <1>d, <2>1, <2>3, LineRecords, ZenonT(40) DEF LlTypeOK
    <2>5. \A r \in LineRow, b \in BOOLEAN : /\ [r EXCEPT !.enabled = b].state = r.state
                                            /\ [r EXCEPT !.enabled = b].exp = r.exp
      BY DEF LineRow
    <2>6. /\ disabledBy' \in [Lines -> {"nobody", "sweep", "page"}]
          /\ \A k \in Lines : disabledBy'[k] = "sweep" => disabledBy[k] = "sweep"
      BY <1>t, <2>1, <2>2 DEF LlTypeOK
    <2>7. ASSUME NEW k \in Lines
          PROVE  lineRow'[k].state = lineRow[k].state /\ lineRow'[k].exp = lineRow[k].exp
      BY <1>d, <2>3, <2>5
    <2>8. page' \in [Pages -> PageType] /\ UNCHANGED <<now, condemned, redated, promised>>
      BY <1>11, <1>c DEF ToggleDisable
    <2>9. \A k \in Lines :
            /\ lineRow'[k].state = "unused" => lineRow[k].state = "unused"
            /\ lineRow'[k].state = "there" => There(k) /\ lineRow'[k].exp = lineRow[k].exp
            /\ disabledBy'[k] = "sweep" => Swept(k)
            /\ \A w \in Sweeps : k \in condemned'[w] => k \in condemned[w]
      BY <2>6, <2>7, <2>8 DEF There, Swept
    <2>10. condemned' \in [Sweeps -> SUBSET Lines] /\ promised' \subseteq Lines
      BY <1>t, <2>8 DEF LlTypeOK
    <2> QED
      BY <2>4, <2>6, <2>8, <2>9, <2>10, SameDatesInv
  <1>12. ASSUME NEW p \in Pages, NEW l \in Lines, OpenPage(p, l) PROVE LlInv'
    <2>1. page' \in [Pages -> PageType]
      <3>1. PICK how \in {"extend", "form", "list"} :
              page' = [page EXCEPT ![p] = [kind |-> how, line |-> {l}, exp |-> lineRow[l].exp,
                                           enabled |-> lineRow[l].enabled]]
        BY <1>12 DEF OpenPage
      <3>2. [kind |-> how, line |-> {l}, exp |-> lineRow[l].exp, enabled |-> lineRow[l].enabled]
              \in PageType
        BY <1>d, LineRecords
      <3> QED
        BY <1>t, <3>1, <3>2 DEF LlTypeOK
    <2>2. UNCHANGED <<now, lineRow, condemned, redated, disabledBy, promised>>
      BY <1>12 DEF OpenPage
    <2> QED
      BY <2>1, <2>2, <1>u
  <1>13. CASE UNCHANGED llVars
    <2>1. UNCHANGED <<now, lineRow, condemned, redated, disabledBy, promised>> /\ page' = page
      BY <1>13 DEF llVars
    <2> QED
      BY <1>t, <2>1, <1>u DEF LlTypeOK
  <1> QED
    BY <1>1, <1>2, <1>3, <1>4, <1>5, <1>6, <1>7, <1>8, <1>9, <1>10, <1>11, <1>12, <1>13 DEF LlNext

\* However sweeps, pages and routes overlap, whom a sweep has listed or disabled is
\* overdue until an expiry is changed after its list was read.
THEOREM SweptLinesAreDue == LlSpec => []SweptAreDue
  <1>1. LlInv => SweptAreDue
    BY DEF LlInv
  <1> QED
    BY <1>1, LlInitInv, LlStepInv, PTL DEF LlSpec
----------------------------------------------------------------------------
(* Titles and bouquets                                                       *)

\* What a request has in its hands: a title it saves, or a bouquet it read.
Shaped(r) ==
  /\ r.at \in {"listing", "syncing"} => \E t \in Titles : r.title = {t}
  /\ r.at = "read" => \E b \in Bouquets : r.todo = {b} /\ r.saw[b] # {}

\* A list of a snapshot, with or without t.
Rewritten(list, t, should) == {Synced(ids, t, should) : ids \in list}

\* Its snapshot agrees with the lists, apart from what it has written itself.
Fresh(r) ==
  /\ r.at = "read" => \A b \in r.todo : offered[b] = r.saw[b]
  /\ r.at = "syncing" =>
       \A b \in Bouquets, t \in r.title :
         offered[b] = IF b \in r.todo THEN r.saw[b]
                      ELSE Rewritten(r.saw[b], t, b \in r.wanted)

\* MembershipKept rests on this: a snapshot no other request has made stale is
\* still true, and nothing is promised of a title while it is being saved.
SaveKept(s) ==
  /\ Shaped(save[s])
  /\ ~save[s].overtaken => Fresh(save[s])
  /\ save[s].at = "syncing" => \A t \in save[s].title : intent[t] = {}

CatInv == CatTypeOK /\ (\A s \in Saves : SaveKept(s)) /\ MembershipKept

Intents == {{}} \cup {{bs} : bs \in SUBSET Bouquets}

\* The records of requests the actions write.
LEMMA SaveRecords ==
  /\ NoSave \in SaveType
  /\ \A t \in Titles, wanted \in SUBSET Bouquets :
       [NoSave EXCEPT !.at = "listing", !.title = {t}, !.wanted = wanted] \in SaveType
  /\ \A b \in Bouquets, ids \in SUBSET Titles, saw \in [Bouquets -> Lists] :
       [NoSave EXCEPT !.at = "read", !.todo = {b}, !.saw = saw, !.ids = ids] \in SaveType
  /\ \A r \in SaveType :
       /\ \A saw \in [Bouquets -> Lists], todo \in SUBSET Bouquets :
            [r EXCEPT !.at = "syncing", !.saw = saw, !.todo = todo] \in SaveType
       /\ \A todo \in SUBSET Bouquets : [r EXCEPT !.todo = todo] \in SaveType
       /\ [r EXCEPT !.overtaken = TRUE] \in SaveType
  <1>1. [b \in Bouquets |-> {}] \in [Bouquets -> Lists]
    BY DEF Lists
  <1> QED
    BY <1>1 DEF NoSave, SaveType

\* A request whose snapshot was overtaken has nothing to keep but its shape.
LEMMA OvertakenKept ==
  ASSUME NEW r \in SaveType, Shaped(r)
  PROVE  /\ Shaped([r EXCEPT !.overtaken = TRUE])
         /\ [r EXCEPT !.overtaken = TRUE].overtaken
         /\ [r EXCEPT !.overtaken = TRUE].at = r.at
         /\ [r EXCEPT !.overtaken = TRUE].title = r.title
  BY DEF SaveType, Shaped

\* The lists a request or an administrator writes are lists.
LEMMA WrittenLists ==
  ASSUME offered \in [Bouquets -> Lists], NEW b \in Bouquets, NEW ids \in SUBSET Titles
  PROVE  /\ [offered EXCEPT ![b] = {ids}] \in [Bouquets -> Lists]
         /\ [offered EXCEPT ![b] = {}] \in [Bouquets -> Lists]
  BY DEF Lists

\* A request takes a step of its own that writes no list.
LEMMA OwnStep ==
  ASSUME CatInv, NEW s \in Saves, NEW d \in SaveType, save' = [save EXCEPT ![s] = d],
         offered' = offered, Shaped(d), ~d.overtaken => Fresh(d),
         titles' \subseteq ever', ever' \subseteq Titles, intent' \in [Titles -> Intents],
         d.at = "syncing" => \A t \in d.title : intent'[t] = {},
         \A r \in Saves \ {s} : save[r].at = "syncing" => \A t \in save[r].title : intent'[t] = {},
         MembershipKept'
  PROVE  CatInv'
  <1>1. CatTypeOK'
    BY DEF CatInv, CatTypeOK, Intents
  <1>2. ASSUME NEW r \in Saves PROVE SaveKept(r)'
    <2>1. save'[r] = IF r = s THEN d ELSE save[r]
      BY DEF CatInv, CatTypeOK
    <2>2. \A x : Fresh(x) => Fresh(x)'
      BY DEF Fresh
    <2> QED
      BY <2>1, <2>2 DEF CatInv, SaveKept, Shaped
  <1> QED
    BY <1>1, <1>2 DEF CatInv
\* A list is written: whoever has a snapshot is overtaken. A request that has
\* none has nothing in its hands that a list could disagree with.
LEMMA WriteStep ==
  ASSUME CatInv, offered' \in [Bouquets -> Lists], intent' \in [Titles -> Intents],
         UNCHANGED <<titles, ever>>, save' \in [Saves -> SaveType],
         \A r \in Saves : SaveKept(r)' \/ save'[r] = [save[r] EXCEPT !.overtaken = TRUE],
         \A r \in Saves : save[r].at = "syncing" => \A t \in save[r].title : intent'[t] = {},
         MembershipKept'
  PROVE  CatInv'
  <1>1. CatTypeOK'
    BY DEF CatInv, CatTypeOK, Intents
  <1>2. ASSUME NEW r \in Saves PROVE SaveKept(r)'
    <2>1. CASE save'[r] = [save[r] EXCEPT !.overtaken = TRUE]
      <3>1. save[r] \in SaveType /\ Shaped(save[r])
        BY DEF CatInv, CatTypeOK, SaveKept
      <3>2. /\ Shaped(save'[r]) /\ save'[r].overtaken
            /\ save'[r].at = save[r].at /\ save'[r].title = save[r].title
        BY <2>1, <3>1, OvertakenKept
      <3>3. Shaped(save[r])'
        BY <3>2 DEF Shaped
      <3> QED
        BY <3>2, <3>3 DEF SaveKept
    <2> QED
      BY <2>1
  <1> QED
    BY <1>1, <1>2 DEF CatInv

\* A request without a snapshot keeps what it has, whatever is written.
LEMMA NoSnapshotKept ==
  ASSUME NEW r \in Saves, SaveKept(r), save[r].at \notin {"syncing", "read"}, save'[r] = save[r]
  PROVE  SaveKept(r)'
  BY DEF SaveKept, Shaped, Fresh

\* No request under way, every list empty, nothing promised.
LEMMA CatInitInv == CatInit => CatInv
  <1>. SUFFICES ASSUME CatInit PROVE CatInv
    OBVIOUS
  <1>1. /\ titles \subseteq ever /\ ever \subseteq Titles
        /\ intent \in [Titles -> {{}} \cup {{bs} : bs \in SUBSET Bouquets}]
        /\ offered \in [Bouquets -> Lists]
    BY DEF CatInit, Lists
  <1>2. save \in [Saves -> SaveType] /\ \A s \in Saves : save[s].at = "none"
    BY SaveRecords DEF CatInit, NoSave
  <1>3. \A s \in Saves : SaveKept(s)
    BY <1>2 DEF SaveKept, Shaped, Fresh
  <1>4. MembershipKept
    BY DEF CatInit, MembershipKept
  <1> QED
    BY <1>1, <1>2, <1>3, <1>4 DEF CatInv, CatTypeOK

\* A title begins to be saved, new or not.
LEMMA BeginSaveInv ==
  ASSUME CatInv, NEW s \in Saves, NEW t \in Titles, CreateTitle(s, t) \/ UpdateTitle(s, t)
  PROVE  CatInv'
  <1>1. PICK wanted \in SUBSET Bouquets :
          save' = [save EXCEPT ![s] = [NoSave EXCEPT !.at = "listing", !.title = {t}, !.wanted = wanted]]
    BY DEF CreateTitle, UpdateTitle
  <1>. DEFINE d == [NoSave EXCEPT !.at = "listing", !.title = {t}, !.wanted = wanted]
  <1>2. d \in SaveType /\ d.at = "listing" /\ d.title = {t}
    BY SaveRecords DEF NoSave
  <1>. HIDE DEF d
  <1>3. Shaped(d) /\ Fresh(d)
    BY <1>2 DEF Shaped, Fresh
  <1>4. /\ titles' \subseteq ever' /\ ever' \subseteq Titles /\ UNCHANGED <<offered, intent>>
    BY DEF CreateTitle, UpdateTitle, CatInv, CatTypeOK
  <1>5. MembershipKept' /\ intent' \in [Titles -> Intents]
    BY <1>4 DEF CatInv, CatTypeOK, MembershipKept, Offers, Intents
  <1> QED
    BY <1>1, <1>2, <1>3, <1>4, <1>5, OwnStep DEF CatInv, SaveKept, d

\* The snapshot of all bouquets is taken, and nothing is promised of the title.
LEMMA ListBouquetsInv ==
  ASSUME CatInv, NEW s \in Saves, ListBouquets(s)
  PROVE  CatInv'
  <1>. DEFINE on == {b \in Bouquets : OnOffer(b)}
              d == [save[s] EXCEPT !.at = "syncing", !.saw = offered, !.todo = on]
  <1>1. /\ save[s] \in SaveType /\ offered \in [Bouquets -> Lists] /\ on \in SUBSET Bouquets
        /\ Shaped(save[s]) /\ save[s].at = "listing"
    BY DEF CatInv, CatTypeOK, SaveKept, ListBouquets
  <1>2. save' = [save EXCEPT ![s] = d]
    BY DEF ListBouquets, CatInv, CatTypeOK
  <1>3. /\ d \in SaveType /\ d.at = "syncing" /\ d.title = save[s].title
        /\ d.saw = offered /\ d.todo = {b \in Bouquets : OnOffer(b)}
    <2>. HIDE DEF on
    <2>1. d \in SaveType
      BY <1>1, SaveRecords
    <2>2. d.at = "syncing" /\ d.title = save[s].title /\ d.saw = offered /\ d.todo = on
      BY <1>1 DEF SaveType
    <2> QED
      BY <2>1, <2>2 DEF on
  <1>. HIDE DEF d
  <1>4. Shaped(d) /\ Fresh(d)
    <2>1. \A t, should : Rewritten({}, t, should) = {}
      BY DEF Rewritten
    <2> QED
      BY <1>1, <1>3, <2>1 DEF Shaped, Fresh, OnOffer
  <1>5. /\ intent' = [t \in Titles |-> IF t \in save[s].title THEN {} ELSE intent[t]]
        /\ UNCHANGED <<titles, ever, offered>>
    BY DEF ListBouquets
  <1>6. intent' \in [Titles -> Intents] /\ \A t \in Titles : intent'[t] = {} \/ intent'[t] = intent[t]
    BY <1>5 DEF CatInv, CatTypeOK, Intents
  <1>7. MembershipKept'
    BY <1>5, <1>6 DEF CatInv, MembershipKept, Offers
  <1>8. \A r \in Saves : save[r].title \subseteq Titles
    BY DEF CatInv, CatTypeOK, SaveType
  <1>9. \A t \in d.title : intent'[t] = {}
    BY <1>3, <1>5, <1>8
  <1>10. \A r \in Saves \ {s} : save[r].at = "syncing" => \A t \in save[r].title : intent'[t] = {}
    BY <1>6, <1>8 DEF CatInv, SaveKept
  <1> QED
    BY <1>2, <1>3, <1>4, <1>5, <1>6, <1>7, <1>9, <1>10, OwnStep DEF CatInv, CatTypeOK

\* A request ends, or reads one bouquet, without a word about any title.
LEMMA PlainStepInv ==
  ASSUME CatInv, NEW s \in Saves, NEW d \in SaveType, save' = [save EXCEPT ![s] = d],
         Shaped(d), Fresh(d), d.at # "syncing", UNCHANGED <<titles, ever, offered, intent>>
  PROVE  CatInv'
  <1>1. MembershipKept' /\ intent' \in [Titles -> Intents]
    BY DEF CatInv, CatTypeOK, MembershipKept, Offers, Intents
  <1> QED
    BY <1>1, OwnStep DEF CatInv, CatTypeOK, SaveKept

\* NoSave has nothing in its hands.
LEMMA NoSaveShaped == Shaped(NoSave) /\ Fresh(NoSave) /\ NoSave.at = "none"
  BY DEF Shaped, Fresh, NoSave

\* One bouquet's list, read to be written back with more ids.
LEMMA ReadBouquetInv ==
  ASSUME CatInv, NEW s \in Saves, NEW b \in Bouquets, ReadBouquet(s, b)
  PROVE  CatInv'
  <1>1. PICK ids \in SUBSET ever :
          save' = [save EXCEPT ![s] = [NoSave EXCEPT !.at = "read", !.todo = {b}, !.saw = offered, !.ids = ids]]
    BY DEF ReadBouquet
  <1>. DEFINE d == [NoSave EXCEPT !.at = "read", !.todo = {b}, !.saw = offered, !.ids = ids]
  <1>2. ids \in SUBSET Titles /\ offered \in [Bouquets -> Lists]
    BY DEF CatInv, CatTypeOK
  <1>3. d \in SaveType /\ d.at = "read" /\ d.todo = {b} /\ d.saw = offered
    BY <1>2, SaveRecords DEF NoSave
  <1>. HIDE DEF d
  <1>4. Shaped(d) /\ Fresh(d)
    BY <1>3 DEF Shaped, Fresh, ReadBouquet, OnOffer
  <1> QED
    BY <1>1, <1>3, <1>4, PlainStepInv DEF ReadBouquet, d

\* What is promised of t changes as the list of b, which becomes L.
PromiseFollows(t, b, L) ==
  \A new \in intent'[t] : \E old \in intent[t] :
    /\ new \ {b} = old \ {b}
    /\ b \in new <=> \E ids \in L : t \in ids

\* One list is written: a title is in the bouquets promised if what is promised
\* of it changes as the list does.
LEMMA OneListWritten ==
  ASSUME CatInv, NEW b \in Bouquets, NEW L \in Lists, offered' = [offered EXCEPT ![b] = L],
         intent' \in [Titles -> Intents],
         \A t \in Titles : PromiseFollows(t, b, L)
  PROVE  MembershipKept'
  <1>1. SUFFICES ASSUME NEW t \in Titles, NEW new \in intent'[t]
                 PROVE  {c \in Bouquets : Offers(c, t)'} = new
    BY DEF MembershipKept
  <1>2. PICK old \in intent[t] : /\ new \ {b} = old \ {b}
                                 /\ b \in new <=> \E ids \in L : t \in ids
    BY DEF PromiseFollows
  <1>3. new \subseteq Bouquets
    BY DEF Intents
  <1>4. {c \in Bouquets : Offers(c, t)} = old
    BY DEF CatInv, MembershipKept
  <1>5. ASSUME NEW c \in Bouquets PROVE Offers(c, t)' <=> c \in new
    <2>1. offered'[c] = IF c = b THEN L ELSE offered[c]
      BY DEF CatInv, CatTypeOK
    <2>2. CASE c = b
      BY <2>1, <2>2, <1>2 DEF Offers
    <2>3. CASE c # b
      <3>1. c \in new <=> c \in old
        BY <1>2, <2>3
      <3>2. Offers(c, t)' <=> Offers(c, t)
        BY <2>1, <2>3 DEF Offers
      <3>3. Offers(c, t) <=> c \in old
        BY <1>4
      <3> QED
        BY <3>1, <3>2, <3>3
    <2> QED
      BY <2>2, <2>3
  <1> QED
    BY <1>3, <1>5

\* A query of a request fails.
LEMMA SaveFailsInv ==
  ASSUME CatInv, NEW s \in Saves, SaveFails(s)
  PROVE  CatInv'
  BY PlainStepInv, NoSaveShaped, SaveRecords DEF SaveFails

\* The last bouquet is synced: the title is where it was wanted, if the snapshot
\* was not overtaken and nobody else saves it.
LEMMA SyncDoneInv ==
  ASSUME CatInv, NEW s \in Saves, SyncDone(s)
  PROVE  CatInv'
  <1>1. /\ save[s] \in SaveType /\ save[s].at = "syncing" /\ save[s].todo = {}
        /\ save' = [save EXCEPT ![s] = NoSave] /\ UNCHANGED <<titles, ever, offered>>
    BY DEF CatInv, CatTypeOK, SyncDone
  <1>2. PICK t \in Titles : save[s].title = {t}
    BY <1>1 DEF CatInv, SaveKept, Shaped
  <1>. DEFINE W == {b \in save[s].wanted : save[s].saw[b] # {}}
  <1>3. CASE save[s].overtaken \/ \E r \in Saves \ {s} : Syncing(r, save[s].title)
    <2>1. intent' = intent
      BY <1>3 DEF SyncDone
    <2> QED
      BY <2>1, <1>1, PlainStepInv, NoSaveShaped, SaveRecords
  <1>4. CASE ~(save[s].overtaken \/ \E r \in Saves \ {s} : Syncing(r, save[s].title))
    <2>1. intent' = [u \in Titles |-> IF u \in save[s].title THEN {W} ELSE intent[u]]
      BY <1>4 DEF SyncDone
    <2>2. W \subseteq Bouquets
      BY <1>1 DEF SaveType
    <2>. HIDE DEF W
    <2>3. /\ intent' \in [Titles -> Intents] /\ intent'[t] = {W}
          /\ \A u \in Titles \ {t} : intent'[u] = intent[u]
      BY <2>1, <2>2, <1>2 DEF CatInv, CatTypeOK, Intents
    <2>4. ASSUME NEW b \in Bouquets PROVE Offers(b, t) <=> b \in W
      <3>1. offered[b] = Rewritten(save[s].saw[b], t, b \in save[s].wanted)
        BY <1>1, <1>2, <1>4 DEF CatInv, SaveKept, Fresh
      <3>2. \A ids : t \in Synced(ids, t, b \in save[s].wanted) <=> b \in save[s].wanted
        BY DEF Synced
      <3>3. Offers(b, t) <=> save[s].saw[b] # {} /\ b \in save[s].wanted
        BY <3>1, <3>2 DEF Offers, Rewritten
      <3> QED
        BY <3>3 DEF W
    <2>5. MembershipKept'
      <3>1. \A u \in Titles, b \in Bouquets : Offers(b, u)' <=> Offers(b, u)
        BY <1>1 DEF Offers
      <3>2. ASSUME NEW u \in Titles, NEW bs \in intent'[u]
            PROVE  {b \in Bouquets : Offers(b, u)'} = bs
        <4>1. CASE u = t
          BY <4>1, <2>2, <2>3, <2>4, <3>1
        <4>2. CASE u # t
          BY <4>2, <2>3, <3>1 DEF CatInv, MembershipKept
        <4> QED
          BY <4>1, <4>2
      <3> QED
        BY <3>2 DEF MembershipKept
    <2>6. ASSUME NEW r \in Saves \ {s}, save[r].at = "syncing", NEW u \in save[r].title
          PROVE  intent'[u] = {}
      <3>1. u \in Titles /\ u # t
        BY <2>6, <1>2, <1>4 DEF CatInv, SaveKept, Shaped, Syncing
      <3> QED
        BY <2>6, <3>1, <2>3 DEF CatInv, SaveKept
    <2> QED
      BY <1>1, <2>3, <2>5, <2>6, OwnStep, NoSaveShaped, SaveRecords DEF CatInv, CatTypeOK
  <1> QED
    BY <1>3, <1>4

\* Whoever has a snapshot is overtaken by the write of s, the others keep what
\* they have.
LEMMA OvertakingKept ==
  ASSUME CatInv, NEW s \in Saves, NEW r \in Saves, r # s, save'[r] = Overtaking(s)[r]
  PROVE  SaveKept(r)' \/ save'[r] = [save[r] EXCEPT !.overtaken = TRUE]
  <1>1. CASE save[r].at \in {"syncing", "read"}
    BY <1>1 DEF Overtaking
  <1>2. CASE save[r].at \notin {"syncing", "read"}
    <2>1. save'[r] = save[r] /\ SaveKept(r)
      BY <1>2 DEF Overtaking, CatInv
    <2> QED
      BY <1>2, <2>1, NoSnapshotKept
  <1> QED
    BY <1>1, <1>2

\* Overtaking changes no request's own fields.
LEMMA OvertakingType ==
  ASSUME CatInv, NEW s \in Saves
  PROVE  Overtaking(s) \in [Saves -> SaveType] /\ Overtaking(s)[s] = save[s]
  <1>1. \A r \in Saves : save[r] \in SaveType
    BY DEF CatInv, CatTypeOK
  <1>2. \A r \in Saves : Overtaking(s)[r] \in SaveType
    BY <1>1, SaveRecords DEF Overtaking
  <1> QED
    BY <1>2 DEF Overtaking

\* One bouquet is synced, and its list written unless it is right already.
LEMMA SyncBouquetInv ==
  ASSUME CatInv, NEW s \in Saves, NEW b \in Bouquets, SyncBouquet(s, b)
  PROVE  CatInv'
  <1>. DEFINE d == [save[s] EXCEPT !.todo = @ \ {b}]
  <1>1. /\ save[s] \in SaveType /\ save[s].at = "syncing" /\ b \in save[s].todo
        /\ UNCHANGED <<titles, ever>> /\ offered \in [Bouquets -> Lists]
    BY DEF CatInv, CatTypeOK, SyncBouquet
  <1>2. PICK t \in Titles : save[s].title = {t}
    BY <1>1 DEF CatInv, SaveKept, Shaped
  <1>3. PICK ids \in save[s].saw[b] :
          LET should == b \in save[s].wanted
              same   == (t \in ids) = should
          IN  IF same
              THEN save' = [save EXCEPT ![s].todo = @ \ {b}] /\ UNCHANGED <<offered, intent>>
              ELSE /\ offered' = [offered EXCEPT ![b] = IF OnOffer(b) THEN {Synced(ids, t, should)} ELSE {}]
                   /\ save' = [Overtaking(s) EXCEPT ![s].todo = @ \ {b}]
                   /\ intent' = After(s, intent)
    BY <1>2 DEF SyncBouquet
  <1>4. /\ d \in SaveType /\ d.at = "syncing" /\ d.title = {t} /\ d.wanted = save[s].wanted
        /\ d.saw = save[s].saw /\ d.todo = save[s].todo \ {b} /\ d.overtaken = save[s].overtaken
    <2>1. save[s].todo \ {b} \in SUBSET Bouquets
      BY <1>1 DEF SaveType
    <2>2. d \in SaveType
      BY <1>1, <2>1, SaveRecords
    <2> QED
      BY <1>1, <1>2, <2>2 DEF SaveType
  <1>5. save[s].saw[b] = {ids} /\ ids \in SUBSET Titles
    BY <1>1 DEF SaveType, Lists
  <1>6. Shaped(d) /\ intent[t] = {}
    BY <1>1, <1>2, <1>4 DEF CatInv, SaveKept, Shaped
  <1>7. ~save[s].overtaken => \A c \in Bouquets :
          offered[c] = IF c \in save[s].todo THEN save[s].saw[c]
                       ELSE Rewritten(save[s].saw[c], t, c \in save[s].wanted)
    BY <1>1, <1>2 DEF CatInv, SaveKept, Fresh
  <1>8. Rewritten(save[s].saw[b], t, b \in save[s].wanted) = {Synced(ids, t, b \in save[s].wanted)}
    BY <1>5 DEF Rewritten
  <1>9. Synced(ids, t, b \in save[s].wanted) \in SUBSET Titles
    BY <1>5 DEF Synced
  <1>10. CASE (t \in ids) = (b \in save[s].wanted)
    <2>1. save' = [save EXCEPT ![s] = d] /\ UNCHANGED <<offered, intent>>
      BY <1>10, <1>3
    <2>2. Synced(ids, t, b \in save[s].wanted) = ids
      BY <1>10 DEF Synced
    <2>3. ~d.overtaken => Fresh(d)
      <3>1. SUFFICES ASSUME ~d.overtaken, NEW c \in Bouquets
                     PROVE  offered[c] = IF c \in d.todo THEN d.saw[c]
                                         ELSE Rewritten(d.saw[c], t, c \in d.wanted)
        BY <1>4 DEF Fresh
      <3>. HIDE DEF d
      <3>2. CASE c = b
        BY <3>1, <3>2, <1>1, <1>4, <1>5, <1>7, <1>8, <2>2
      <3>3. CASE c # b
        BY <3>1, <3>3, <1>4, <1>7
      <3> QED
        BY <3>2, <3>3
    <2>. HIDE DEF d
    <2>4. MembershipKept' /\ intent' \in [Titles -> Intents]
      BY <2>1 DEF CatInv, CatTypeOK, MembershipKept, Offers, Intents
    <2>5. \A r \in Saves : save[r].at = "syncing" => \A u \in save[r].title : intent'[u] = {}
      BY <2>1 DEF CatInv, SaveKept
    <2> QED
      BY <1>1, <1>4, <1>6, <2>1, <2>3, <2>4, <2>5, OwnStep DEF CatInv, CatTypeOK
  <1>11. CASE (t \in ids) # (b \in save[s].wanted)
    <2>. DEFINE L == IF OnOffer(b) THEN {Synced(ids, t, b \in save[s].wanted)} ELSE {}
    <2>1. /\ offered' = [offered EXCEPT ![b] = L] /\ intent' = After(s, intent)
          /\ save' = [Overtaking(s) EXCEPT ![s].todo = @ \ {b}]
      BY <1>11, <1>3
    <2>2. L \in Lists
      BY <1>9 DEF Lists
    <2>3. save' = [Overtaking(s) EXCEPT ![s] = d]
      BY <2>1, OvertakingType
    <2>. HIDE DEF d
    <2>4. save' \in [Saves -> SaveType] /\ save'[s] = d /\ \A r \in Saves \ {s} : save'[r] = Overtaking(s)[r]
      BY <2>3, <1>4, OvertakingType
    <2>5. intent' \in [Titles -> Intents] /\ \A u \in Titles : intent'[u] = {} \/ intent'[u] = intent[u]
      BY <2>1 DEF After, CatInv, CatTypeOK, Intents
    <2>6. \A r \in Saves : save[r].at = "syncing" => \A u \in save[r].title : intent'[u] = {}
      BY <2>5 DEF CatInv, CatTypeOK, SaveType, SaveKept
    <2>7. offered' \in [Bouquets -> Lists] /\ offered'[b] = L /\ \A c \in Bouquets \ {b} : offered'[c] = offered[c]
      BY <2>1, <2>2, <1>1
    <2>8. ASSUME ~d.overtaken, NEW c \in Bouquets
          PROVE  offered'[c] = IF c \in d.todo THEN d.saw[c]
                               ELSE Rewritten(d.saw[c], t, c \in d.wanted)
      <3>1. CASE c = b
        <4>1. OnOffer(b)
          BY <2>8, <1>1, <1>4, <1>5, <1>7 DEF OnOffer
        <4> QED
          BY <4>1, <3>1, <2>7, <1>4, <1>8
      <3>2. CASE c # b
        BY <2>8, <3>2, <1>4, <1>7, <2>7
      <3> QED
        BY <3>1, <3>2
    <2>9. SaveKept(s)'
      <3>1. Shaped(save[s])'
        BY <2>4, <1>6 DEF Shaped
      <3>2. (~save[s].overtaken => Fresh(save[s]))'
        BY <2>4, <2>8, <1>4 DEF Fresh
      <3>3. save'[s].at = "syncing" => \A u \in save'[s].title : intent'[u] = {}
        BY <2>4, <2>6, <1>1, <1>2, <1>4
      <3> QED
        BY <3>1, <3>2, <3>3 DEF SaveKept
    <2>10. \A r \in Saves : SaveKept(r)' \/ save'[r] = [save[r] EXCEPT !.overtaken = TRUE]
      BY <2>4, <2>9, OvertakingKept
    <2>11. MembershipKept'
      <3>1. ASSUME NEW u \in Titles, NEW new \in intent'[u]
            PROVE  \E old \in intent[u] : /\ new \ {b} = old \ {b}
                                          /\ b \in new <=> \E i \in L : u \in i
        <4>1. ~save[s].overtaken /\ new \in intent[u] /\ u # t
          BY <2>1, <1>6 DEF After
        <4>2. offered[b] = {ids} /\ OnOffer(b)
          BY <4>1, <1>1, <1>5, <1>7 DEF OnOffer
        <4>3. \A i \in L : i = Synced(ids, t, b \in save[s].wanted)
          BY <4>2
        <4>4. u \in Synced(ids, t, b \in save[s].wanted) <=> u \in ids
          BY <4>1 DEF Synced
        <4>5. b \in new <=> Offers(b, u)
          BY <4>1 DEF CatInv, MembershipKept
        <4> QED
          BY <4>1, <4>2, <4>4, <4>5 DEF Offers
      <3>. HIDE DEF L
      <3>2. \A u \in Titles : PromiseFollows(u, b, L)
        BY <3>1 DEF PromiseFollows
      <3> QED
        BY <3>2, <2>1, <2>2, <2>5, OneListWritten
    <2> QED
      BY <1>1, <2>4, <2>5, <2>6, <2>7, <2>10, <2>11, WriteStep
  <1> QED
    BY <1>10, <1>11

\* What is promised of a title, with or without the bouquet b.
LEMMA PromisesRewritten ==
  ASSUME CatInv, NEW t \in Titles, NEW b \in Bouquets
  PROVE  /\ {bs \cup {b} : bs \in intent[t]} \in Intents
         /\ {bs \ {b} : bs \in intent[t]} \in Intents
         /\ intent[t] \in Intents
  <1>1. intent[t] \in Intents
    BY DEF CatInv, CatTypeOK, Intents
  <1>2. CASE intent[t] = {}
    BY <1>1, <1>2 DEF Intents
  <1>3. CASE intent[t] # {}
    <2>1. PICK bs \in SUBSET Bouquets : intent[t] = {bs}
      BY <1>1, <1>3 DEF Intents
    <2>2. {c \cup {b} : c \in intent[t]} = {bs \cup {b}} /\ {c \ {b} : c \in intent[t]} = {bs \ {b}}
      BY <2>1
    <2>3. \A c \in SUBSET Bouquets : {c} \in Intents
      BY DEF Intents
    <2>4. bs \cup {b} \in SUBSET Bouquets /\ bs \ {b} \in SUBSET Bouquets
      OBVIOUS
    <2>5. {bs \cup {b}} \in Intents /\ {bs \ {b}} \in Intents
      BY <2>3, <2>4
    <2> QED
      BY <1>1, <2>2, <2>5
  <1> QED
    BY <1>2, <1>3

\* A list that was read is written back with more ids.
LEMMA AddToBouquetInv ==
  ASSUME CatInv, NEW s \in Saves, AddToBouquet(s)
  PROVE  CatInv'
  <1>1. /\ save[s] \in SaveType /\ save[s].at = "read" /\ UNCHANGED <<titles, ever>>
        /\ save' = [Overtaking(s) EXCEPT ![s] = NoSave] /\ offered \in [Bouquets -> Lists]
    BY DEF CatInv, CatTypeOK, AddToBouquet
  <1>2. PICK b \in save[s].todo : \E ids \in save[s].saw[b] :
          LET added == (ids \cup save[s].ids) \ ids
          IN  /\ offered' = [offered EXCEPT ![b] = IF OnOffer(b) THEN {ids \cup save[s].ids} ELSE {}]
              /\ intent' = After(s, [t \in Titles |-> IF t \in added /\ OnOffer(b)
                                        THEN {bs \cup {b} : bs \in intent[t]} ELSE intent[t]])
    BY DEF AddToBouquet
  <1>3. PICK ids \in save[s].saw[b] :
          LET added == (ids \cup save[s].ids) \ ids
          IN  /\ offered' = [offered EXCEPT ![b] = IF OnOffer(b) THEN {ids \cup save[s].ids} ELSE {}]
              /\ intent' = After(s, [t \in Titles |-> IF t \in added /\ OnOffer(b)
                                        THEN {bs \cup {b} : bs \in intent[t]} ELSE intent[t]])
    BY <1>2
  <1>4. b \in Bouquets /\ save[s].todo = {b}
    BY <1>1 DEF CatInv, SaveKept, Shaped
  <1>. DEFINE L == IF OnOffer(b) THEN {ids \cup save[s].ids} ELSE {}
  <1>5. save[s].saw[b] = {ids} /\ ids \cup save[s].ids \in SUBSET Titles
    BY <1>1, <1>4 DEF SaveType, Lists
  <1>6. L \in Lists /\ offered' = [offered EXCEPT ![b] = L]
    BY <1>3, <1>5 DEF Lists
  <1>7. offered' \in [Bouquets -> Lists]
    BY <1>1, <1>6, <1>4
  <1>8. ASSUME NEW t \in Titles
        PROVE  /\ intent'[t] \in Intents
               /\ intent'[t] = {} \/ intent'[t] = intent[t] \/ intent'[t] = {bs \cup {b} : bs \in intent[t]}
    <2>1. intent[t] \in Intents
      BY DEF CatInv, CatTypeOK, Intents
    <2>2. intent'[t] = {} \/ intent'[t] = intent[t] \/ intent'[t] = {bs \cup {b} : bs \in intent[t]}
      BY <1>3 DEF After
    <2>3. {bs \cup {b} : bs \in intent[t]} \in Intents
      BY <1>4, PromisesRewritten
    <2>4. {} \in Intents
      BY DEF Intents
    <2> QED
      BY <2>1, <2>2, <2>3, <2>4
  <1>9. intent' \in [Titles -> Intents]
    <2>1. intent' = [t \in Titles |-> intent'[t]]
      BY <1>3 DEF After
    <2> QED
      BY <2>1, <1>8
  <1>10. \A r \in Saves : save[r].at = "syncing" => \A t \in save[r].title : intent'[t] = {}
    <2>1. \A r \in Saves : save[r].at = "syncing" => \A t \in save[r].title : t \in Titles /\ intent[t] = {}
      BY DEF CatInv, CatTypeOK, SaveType, SaveKept
    <2> QED
      BY <2>1, <1>8
  <1>11. save' \in [Saves -> SaveType] /\ save'[s] = NoSave /\ \A r \in Saves \ {s} : save'[r] = Overtaking(s)[r]
    BY <1>1, OvertakingType, SaveRecords
  <1>12. \A r \in Saves : SaveKept(r)' \/ save'[r] = [save[r] EXCEPT !.overtaken = TRUE]
    <2>1. SaveKept(s)'
      BY <1>11 DEF SaveKept, Shaped, Fresh, NoSave
    <2> QED
      BY <2>1, <1>11, OvertakingKept
  <1>13. MembershipKept'
    <2>1. ASSUME NEW t \in Titles, NEW new \in intent'[t]
            PROVE  \E old \in intent[t] : /\ new \ {b} = old \ {b}
                                          /\ b \in new <=> \E i \in L : t \in i
      <3>1. ~save[s].overtaken
        BY <1>3 DEF After
      <3>2. offered[b] = {ids}
        BY <3>1, <1>1, <1>5, <1>4 DEF CatInv, SaveKept, Fresh
      <3>3. L = {ids \cup save[s].ids} /\ OnOffer(b)
        BY <3>2 DEF OnOffer
      <3>4. intent'[t] = IF t \in (ids \cup save[s].ids) \ ids
                         THEN {bs \cup {b} : bs \in intent[t]} ELSE intent[t]
        BY <1>3, <3>1, <3>3 DEF After
      <3>5. CASE t \in (ids \cup save[s].ids) \ ids
        <4>1. PICK old \in intent[t] : new = old \cup {b}
          BY <3>4, <3>5
        <4>2. new \ {b} = old \ {b} /\ b \in new
          BY <4>1
        <4> QED
          BY <3>3, <3>5, <4>2
      <3>6. CASE t \notin (ids \cup save[s].ids) \ ids
        <4>1. new \in intent[t]
          BY <3>4, <3>6
        <4>2. b \in new <=> Offers(b, t)
          BY <4>1, <1>4 DEF CatInv, MembershipKept
        <4>3. Offers(b, t) <=> t \in ids
          BY <3>2 DEF Offers
        <4> QED
          BY <3>3, <3>4, <3>6, <4>2, <4>3
      <3> QED
        BY <3>5, <3>6
    <2>. HIDE DEF L
    <2>2. \A t \in Titles : PromiseFollows(t, b, L)
      BY <2>1 DEF PromiseFollows
    <2> QED
      BY <2>2, <1>6, <1>9, <1>4, OneListWritten
  <1> QED
    BY <1>1, <1>7, <1>9, <1>10, <1>11, <1>12, <1>13, WriteStep

\* An administrator writes one list: with what is promised following it, all
\* that is left is what becomes of the requests under way.
LEMMA AdministratorWrites ==
  ASSUME CatInv, NEW b \in Bouquets, NEW L \in Lists, offered' = [offered EXCEPT ![b] = L],
         UNCHANGED <<titles, ever>>, save' \in [Saves -> SaveType],
         \A r \in Saves : SaveKept(r)' \/ save'[r] = [save[r] EXCEPT !.overtaken = TRUE],
         intent' = [t \in Titles |-> intent'[t]],
         \A t \in Titles :
           /\ intent'[t] \in Intents /\ (intent[t] = {} => intent'[t] = {})
           /\ PromiseFollows(t, b, L)
  PROVE  CatInv'
  <1>1. intent' \in [Titles -> Intents]
    OBVIOUS
  <1>2. MembershipKept'
    BY <1>1, OneListWritten
  <1>3. offered' \in [Bouquets -> Lists]
    BY DEF CatInv, CatTypeOK
  <1>4. \A r \in Saves : save[r].at = "syncing" => \A t \in save[r].title : intent'[t] = {}
    BY DEF CatInv, CatTypeOK, SaveType, SaveKept
  <1> QED
    BY <1>1, <1>2, <1>3, <1>4, WriteStep

\* A new bouquet: no snapshot lists it, so a list that was read is as it was.
LEMMA CreateBouquetInv ==
  ASSUME CatInv, NEW b \in Bouquets, CreateBouquet(b)
  PROVE  CatInv'
  <1>1. PICK ids \in SUBSET titles :
          /\ offered' = [offered EXCEPT ![b] = {ids}]
          /\ intent' = [t \in Titles |-> IF t \in ids THEN {bs \cup {b} : bs \in intent[t]} ELSE intent[t]]
    BY DEF CreateBouquet
  <1>2. {ids} \in Lists
    BY DEF CatInv, CatTypeOK, Lists
  <1>3. /\ \A r \in Saves : save[r] \in SaveType /\ SaveKept(r) /\ save[r].saw[b] = {}
        /\ UNCHANGED <<titles, ever>>
        /\ save' = [r \in Saves |-> IF save[r].at = "syncing" THEN [save[r] EXCEPT !.overtaken = TRUE] ELSE save[r]]
    BY DEF CatInv, CatTypeOK, CreateBouquet
  <1>4. save' \in [Saves -> SaveType]
    BY <1>3, SaveRecords
  <1>5. ASSUME NEW r \in Saves
        PROVE  SaveKept(r)' \/ save'[r] = [save[r] EXCEPT !.overtaken = TRUE]
    <2>1. CASE save[r].at = "syncing"
      BY <2>1, <1>3
    <2>2. CASE save[r].at = "read"
      <3>1. PICK c \in Bouquets : save[r].todo = {c} /\ save[r].saw[c] # {}
        BY <2>2, <1>3 DEF SaveKept, Shaped
      <3>2. c # b /\ offered'[c] = offered[c] /\ save'[r] = save[r]
        BY <3>1, <2>2, <1>1, <1>3 DEF CatInv, CatTypeOK
      <3> QED
        BY <3>1, <3>2, <2>2, <1>3 DEF SaveKept, Shaped, Fresh
    <2>3. CASE save[r].at \notin {"syncing", "read"}
      BY <2>3, <1>3, NoSnapshotKept
    <2> QED
      BY <2>1, <2>2, <2>3
  <1>6. ASSUME NEW t \in Titles
        PROVE  /\ intent'[t] \in Intents /\ (intent[t] = {} => intent'[t] = {})
               /\ PromiseFollows(t, b, {ids})
    <2>1. \A bs \in intent[t] : b \notin bs
      BY DEF CreateBouquet
    <2>2. intent'[t] = IF t \in ids THEN {bs \cup {b} : bs \in intent[t]} ELSE intent[t]
      BY <1>1
    <2>3. CASE t \in ids
      <3>1. intent'[t] = {bs \cup {b} : bs \in intent[t]}
        BY <2>2, <2>3
      <3>2. \A new \in intent'[t] : \E old \in intent[t] : new = old \cup {b}
        BY <3>1
      <3>3. intent'[t] \in Intents
        BY <3>1, PromisesRewritten
      <3>4. intent[t] = {} => intent'[t] = {}
        BY <3>1
      <3>5. PromiseFollows(t, b, {ids})
        BY <3>2, <2>3 DEF PromiseFollows
      <3> QED
        BY <3>3, <3>4, <3>5
    <2>4. CASE t \notin ids
      BY <2>1, <2>2, <2>4, PromisesRewritten DEF PromiseFollows
    <2> QED
      BY <2>3, <2>4
  <1>7. intent' = [t \in Titles |-> intent'[t]]
    BY <1>1
  <1> QED
    BY <1>1, <1>2, <1>3, <1>4, <1>5, <1>6, <1>7, AdministratorWrites

\* An edit of a bouquet makes every snapshot stale, and so does its deletion.
LEMMA SnapshotsOvertaken ==
  ASSUME CatInv, NEW r \in Saves,
         save' = [q \in Saves |-> IF save[q].at \in {"syncing", "read"}
                                  THEN [save[q] EXCEPT !.overtaken = TRUE] ELSE save[q]]
  PROVE  /\ save' \in [Saves -> SaveType]
         /\ SaveKept(r)' \/ save'[r] = [save[r] EXCEPT !.overtaken = TRUE]
  <1>1. \A q \in Saves : save[q] \in SaveType /\ SaveKept(q)
    BY DEF CatInv, CatTypeOK
  <1>2. save' \in [Saves -> SaveType]
    BY <1>1, SaveRecords
  <1>3. CASE save[r].at \in {"syncing", "read"}
    BY <1>2, <1>3
  <1>4. CASE save[r].at \notin {"syncing", "read"}
    BY <1>1, <1>2, <1>4, NoSnapshotKept
  <1> QED
    BY <1>2, <1>3, <1>4

\* The list of a bouquet is replaced.
LEMMA EditBouquetInv ==
  ASSUME CatInv, NEW b \in Bouquets, EditBouquet(b)
  PROVE  CatInv'
  <1>1. PICK ids \in SUBSET ever :
          /\ offered' = [offered EXCEPT ![b] = {ids}]
          /\ intent' = [t \in Titles |-> {IF t \in ids THEN bs \cup {b} ELSE bs \ {b} : bs \in intent[t]}]
    BY DEF EditBouquet
  <1>2. {ids} \in Lists
    BY DEF CatInv, CatTypeOK, Lists
  <1>3. /\ UNCHANGED <<titles, ever>>
        /\ save' = [r \in Saves |-> IF save[r].at \in {"syncing", "read"}
                                    THEN [save[r] EXCEPT !.overtaken = TRUE] ELSE save[r]]
    BY DEF EditBouquet
  <1>4. save' \in [Saves -> SaveType]
    BY <1>3, SaveRecords DEF CatInv, CatTypeOK
  <1>5. \A r \in Saves : SaveKept(r)' \/ save'[r] = [save[r] EXCEPT !.overtaken = TRUE]
    BY <1>3, SnapshotsOvertaken
  <1>6. ASSUME NEW t \in Titles
        PROVE  /\ intent'[t] \in Intents /\ (intent[t] = {} => intent'[t] = {})
               /\ PromiseFollows(t, b, {ids})
    <2>1. CASE t \in ids
      <3>1. intent'[t] = {bs \cup {b} : bs \in intent[t]}
        BY <1>1, <2>1
      <3>2. \A new \in intent'[t] : \E old \in intent[t] : new = old \cup {b}
        BY <3>1
      <3>3. intent'[t] \in Intents
        BY <3>1, PromisesRewritten
      <3>4. intent[t] = {} => intent'[t] = {}
        BY <3>1
      <3>5. PromiseFollows(t, b, {ids})
        BY <3>2, <2>1 DEF PromiseFollows
      <3> QED
        BY <3>3, <3>4, <3>5
    <2>2. CASE t \notin ids
      <3>1. intent'[t] = {bs \ {b} : bs \in intent[t]}
        BY <1>1, <2>2
      <3>2. \A new \in intent'[t] : \E old \in intent[t] : new = old \ {b}
        BY <3>1
      <3>3. intent'[t] \in Intents
        BY <3>1, PromisesRewritten
      <3>4. intent[t] = {} => intent'[t] = {}
        BY <3>1
      <3>5. PromiseFollows(t, b, {ids})
        BY <3>2, <2>2 DEF PromiseFollows
      <3> QED
        BY <3>3, <3>4, <3>5
    <2> QED
      BY <2>1, <2>2
  <1>7. intent' = [t \in Titles |-> intent'[t]]
    BY <1>1
  <1> QED
    BY <1>1, <1>2, <1>3, <1>4, <1>5, <1>6, <1>7, AdministratorWrites

\* A bouquet goes.
LEMMA DeleteBouquetInv ==
  ASSUME CatInv, NEW b \in Bouquets, DeleteBouquet(b)
  PROVE  CatInv'
  <1>1. /\ offered' = [offered EXCEPT ![b] = {}] /\ UNCHANGED <<titles, ever>>
        /\ intent' = [t \in Titles |-> {bs \ {b} : bs \in intent[t]}]
        /\ save' = [r \in Saves |-> IF save[r].at \in {"syncing", "read"}
                                    THEN [save[r] EXCEPT !.overtaken = TRUE] ELSE save[r]]
    BY DEF DeleteBouquet
  <1>2. {} \in Lists
    BY DEF Lists
  <1>3. save' \in [Saves -> SaveType]
    BY <1>1, SaveRecords DEF CatInv, CatTypeOK
  <1>4. \A r \in Saves : SaveKept(r)' \/ save'[r] = [save[r] EXCEPT !.overtaken = TRUE]
    BY <1>1, SnapshotsOvertaken
  <1>5. ASSUME NEW t \in Titles
        PROVE  /\ intent'[t] \in Intents /\ (intent[t] = {} => intent'[t] = {})
               /\ PromiseFollows(t, b, {})
    <2>1. intent'[t] = {bs \ {b} : bs \in intent[t]}
      BY <1>1
    <2>2. \A new \in intent'[t] : \E old \in intent[t] : new = old \ {b}
      BY <2>1
    <2>3. intent'[t] \in Intents
      BY <2>1, PromisesRewritten
    <2>4. intent[t] = {} => intent'[t] = {}
      BY <2>1
    <2>5. PromiseFollows(t, b, {})
      BY <2>2 DEF PromiseFollows
    <2> QED
      BY <2>3, <2>4, <2>5
  <1>6. intent' = [t \in Titles |-> intent'[t]]
    BY <1>1
  <1> QED
    BY <1>1, <1>2, <1>3, <1>4, <1>5, <1>6, AdministratorWrites

\* Rows of titles go, or nothing happens: bouquets keep the ids.
LEMMA RowsGoInv ==
  ASSUME CatInv, titles' \subseteq titles, UNCHANGED <<ever, offered, save, intent>>
  PROVE  CatInv'
  BY DEF CatInv, CatTypeOK, SaveKept, Shaped, Fresh, MembershipKept, Offers

\* CatInv is inductive.
LEMMA CatStepInv == CatInv /\ [CatNext]_catVars => CatInv'
  <1>. SUFFICES ASSUME CatInv, [CatNext]_catVars PROVE CatInv'
    OBVIOUS
  <1>1. ASSUME NEW s \in Saves, NEW t \in Titles, CreateTitle(s, t) \/ UpdateTitle(s, t) PROVE CatInv'
    BY <1>1, BeginSaveInv
  <1>2. ASSUME NEW s \in Saves, ListBouquets(s) PROVE CatInv'
    BY <1>2, ListBouquetsInv
  <1>3. ASSUME NEW s \in Saves, SyncDone(s) PROVE CatInv'
    BY <1>3, SyncDoneInv
  <1>4. ASSUME NEW s \in Saves, SaveFails(s) PROVE CatInv'
    BY <1>4, SaveFailsInv
  <1>5. ASSUME NEW s \in Saves, AddToBouquet(s) PROVE CatInv'
    BY <1>5, AddToBouquetInv
  <1>6. ASSUME NEW s \in Saves, NEW b \in Bouquets, SyncBouquet(s, b) PROVE CatInv'
    BY <1>6, SyncBouquetInv
  <1>7. ASSUME NEW s \in Saves, NEW b \in Bouquets, ReadBouquet(s, b) PROVE CatInv'
    BY <1>7, ReadBouquetInv
  <1>8. ASSUME NEW b \in Bouquets, CreateBouquet(b) PROVE CatInv'
    BY <1>8, CreateBouquetInv
  <1>9. ASSUME NEW b \in Bouquets, EditBouquet(b) PROVE CatInv'
    BY <1>9, EditBouquetInv
  <1>10. ASSUME NEW b \in Bouquets, DeleteBouquet(b) PROVE CatInv'
    BY <1>10, DeleteBouquetInv
  <1>11. ASSUME NEW t \in Titles, DeleteTitle(t) PROVE CatInv'
    BY <1>11, RowsGoInv DEF DeleteTitle
  <1>12. CASE PurgeTitles
    BY <1>12, RowsGoInv DEF PurgeTitles
  <1>13. CASE UNCHANGED catVars
    BY <1>13, RowsGoInv DEF catVars
  <1> QED
    BY <1>1, <1>2, <1>3, <1>4, <1>5, <1>6, <1>7, <1>8, <1>9, <1>10, <1>11, <1>12, <1>13 DEF CatNext

\* A title stays in exactly the bouquets it was last put into, whatever other
\* requests do to their lists, for any number of titles, bouquets and requests:
\* only a write from an outdated snapshot can undo it.
THEOREM MembershipStaysKept == CatSpec => []MembershipKept
  <1>1. CatInv /\ [CatNext]_catVars => CatInv'
    BY CatStepInv
  <1>2. CatInv => MembershipKept
    BY DEF CatInv
  <1> QED
    BY CatInitInv, <1>1, <1>2, PTL DEF CatSpec

----------------------------------------------------------------------------
(* Imports                                                                   *)

\* Only the workers of a job that reads entries, or that failed beside them, insert.
HandsBusy ==
  \A j \in ImportJobs :
    /\ \A w \in Hands : hand[j][w] # {} => w \in imp[j].workers
    /\ imp[j].workers \subseteq HandsOf
    /\ imp[j].workers # {} => imp[j].at = "items" \/ imp[j].status = "error"
    /\ imp[j].at = "over" <=> imp[j].status \in {"done", "cancelled", "error"}
    /\ imp[j].full => kind = "movies"

\* What a job counts as its own is stored, and a full import counts nothing yet
\* when it may still end early.
MineStored ==
  \A j \in ImportJobs :
    /\ imp[j].mine \subseteq Stored
    /\ imp[j].full /\ imp[j].at \in {"reading", "categories", "fetching"} => imp[j].mine = {}
    /\ imp[j].at = "writing" => imp[j].mine \subseteq imp[j].saw

\* While no writers overlap, a merge knows all the bouquet has, and the bouquet
\* all that finished jobs stored.
MergesKnow ==
  quiet => /\ \A j \in ImportJobs : Merging(j) => bouquet \subseteq imp[j].saw
           /\ kind = "movies" =>
                \A j \in ImportJobs : imp[j].status = "done" => imp[j].mine \subseteq bouquet

\* While no jobs overlap, the sets a job looks things up in are complete.
Working(j) == Under(j) /\ (imp[j].workers # {} \/ imp[j].at = "items")
LooksUpRows(j) == Working(j) \/ (kind = "channels" /\ imp[j].at \in {"categories", "fetching"})
LooksUpGroups(j) ==
  imp[j].at = "categories" \/ (imp[j].at \in {"fetching", "items"} /\ ~imp[j].full)
SetsComplete ==
  tidy => /\ \A j, k \in ImportJobs : Under(j) /\ Under(k) => j = k
          /\ \A j \in ImportJobs :
               /\ LooksUpRows(j) => Stored \subseteq imp[j].existing
               /\ LooksUpGroups(j) => {g \in Groups : groups[g] > 0} \subseteq imp[j].known

\* Rows of a URL and the workers about to insert another are no more than workers.
Holding(j, u) == {w \in Hands : \E e \in hand[j][w] : UrlOf[e] = u}
RoomLeft ==
  tidy => /\ \A u \in EntryUrls :
               /\ stored[u] <= Cardinality(HandsOf)
               /\ \A j \in ImportJobs :
                    stored[u] + Cardinality(Holding(j, u)) <= Cardinality(HandsOf)
          /\ \A g \in Groups : groups[g] <= 1

ImInv == ImTypeOK /\ HandsBusy /\ MineStored /\ MergesKnow /\ SetsComplete /\ RoomLeft

USE ImportAssumption

\* Job j goes on as written; the others stay as they are.
Progress(j, at, status, existing, items, workers, mine, saw) ==
  /\ imp' \in [ImportJobs -> ImportType]
  /\ \A k \in ImportJobs \ {j} : imp'[k] = imp[k]
  /\ imp'[j].at = at /\ imp'[j].status = status /\ imp'[j].existing = existing
  /\ imp'[j].items = items /\ imp'[j].workers = workers
  /\ imp'[j].mine = mine /\ imp'[j].saw = saw
\* And neither its scope nor its cancellation changes.
KeepsRest(j) ==
  imp'[j].full = imp[j].full /\ imp'[j].cancelled = imp[j].cancelled

\* Writing one record.
LEMMA WriteImport ==
  ASSUME ImTypeOK, NEW j \in ImportJobs, NEW rec \in ImportType, imp' = [imp EXCEPT ![j] = rec]
  PROVE Progress(j, rec.at, rec.status, rec.existing, rec.items, rec.workers, rec.mine, rec.saw)
        /\ imp'[j] = rec
  BY DEF ImTypeOK, Progress

\* The record of no job,
LEMMA NoImportType == NoImport \in ImportType
  BY DEF NoImport, ImportType, JobPlaces

\* that of a job that is over,
LEMMA EndedEffect ==
  ASSUME ImTypeOK, NEW j \in ImportJobs, NEW s \in {"done", "cancelled", "error"}
  PROVE /\ Ended(j, s) \in ImportType
        /\ Ended(j, s).at = "over" /\ Ended(j, s).status = s /\ Ended(j, s).mine = imp[j].mine
        /\ Ended(j, s).workers = {} /\ Ended(j, s).items = {} /\ ~Ended(j, s).full
        /\ ~Ended(j, s).cancelled /\ Ended(j, s).saw = {} /\ Ended(j, s).existing = {}
        /\ Ended(j, s).known = {}
  BY DEF Ended, NoImport, ImTypeOK, ImportType, JobPlaces

\* and how a job ends that was not interrupted.
LEMMA FinishedEffect ==
  ASSUME ImTypeOK, NEW j \in ImportJobs
  PROVE \E s \in {"done", "cancelled"} : Finished(j) = Ended(j, s)
  BY DEF Finished

\* A job starts with empty hands.
LEMMA StartImportEffect ==
  ASSUME ImTypeOK, NEW j \in ImportJobs, StartImport(j)
  PROVE /\ Progress(j, "reading", "running", {}, {}, {}, {}, {})
        /\ imp'[j].full => kind = "movies"
        /\ ~imp'[j].cancelled
        /\ imp[j].at = "none"
        /\ UNCHANGED <<kind, hand, quiet, stored, groups, bouquet, asked>>
        /\ tidy' = (tidy /\ \A k \in ImportJobs : ~Under(k))
  <1>1. PICK full \in BOOLEAN :
          /\ full => kind = "movies"
          /\ imp' = [imp EXCEPT ![j] = [NoImport EXCEPT !.at = "reading", !.status = "running",
                                                        !.full = full]]
    BY DEF StartImport
  <1>. DEFINE rec == [NoImport EXCEPT !.at = "reading", !.status = "running", !.full = full]
  <1>2. /\ rec \in ImportType /\ rec.at = "reading" /\ rec.status = "running" /\ rec.full = full
        /\ rec.existing = {} /\ rec.items = {} /\ rec.workers = {} /\ rec.mine = {} /\ rec.saw = {}
        /\ ~rec.cancelled
    BY NoImportType DEF NoImport, ImportType, JobPlaces
  <1>3. imp' = [imp EXCEPT ![j] = rec]
    BY <1>1
  <1>. HIDE DEF rec
  <1>4. Progress(j, rec.at, rec.status, rec.existing, rec.items, rec.workers, rec.mine, rec.saw)
        /\ imp'[j] = rec
    BY <1>2, <1>3, WriteImport
  <1>. QED BY <1>1, <1>2, <1>4 DEF StartImport, tables

\* Each step of a job changes its record as follows.
LEMMA ReadCategoriesEffect ==
  ASSUME ImTypeOK, NEW j \in ImportJobs, ReadCategories(j)
  PROVE /\ imp[j].at = "reading"
        /\ Progress(j, "categories", imp[j].status, IF kind = "channels" THEN Stored ELSE {},
                    imp[j].items, imp[j].workers, imp[j].mine, imp[j].saw)
        /\ KeepsRest(j) /\ imp'[j].known = {g \in Groups : groups[g] > 0}
        /\ UNCHANGED <<kind, hand, tidy, quiet, stored, groups, bouquet, asked>>
  <1>1. PICK chosen \in SUBSET Groups :
          imp' = [imp EXCEPT ![j].at = "categories", ![j].todo = chosen,
                             ![j].existing = IF kind = "channels" THEN Stored ELSE {},
                             ![j].known = {g \in Groups : groups[g] > 0}]
    BY DEF ReadCategories
  <1>2. PICK ex : ex = IF kind = "channels" THEN Stored ELSE {}
    OBVIOUS
  <1>3. PICK kn : kn = {g \in Groups : groups[g] > 0}
    OBVIOUS
  <1>. DEFINE rec == [imp[j] EXCEPT !.at = "categories", !.todo = chosen,
                                    !.existing = ex, !.known = kn]
  <1>4. imp[j] \in ImportType /\ ex \in SUBSET EntryUrls /\ kn \in SUBSET Groups
    BY <1>2, <1>3 DEF ImTypeOK, Stored
  <1>5. /\ rec \in ImportType /\ rec.at = "categories" /\ rec.status = imp[j].status
        /\ rec.existing = ex /\ rec.items = imp[j].items /\ rec.workers = imp[j].workers
        /\ rec.mine = imp[j].mine /\ rec.saw = imp[j].saw /\ rec.full = imp[j].full
        /\ rec.cancelled = imp[j].cancelled /\ rec.known = kn
    BY <1>4 DEF ImportType, JobPlaces
  <1>6. imp' = [imp EXCEPT ![j] = rec]
    BY <1>1, <1>2, <1>3 DEF ImTypeOK
  <1>. HIDE DEF rec
  <1>7. Progress(j, rec.at, rec.status, rec.existing, rec.items, rec.workers, rec.mine, rec.saw)
        /\ imp'[j] = rec
    BY <1>5, <1>6, WriteImport
  <1>. QED BY <1>2, <1>3, <1>5, <1>7 DEF ReadCategories, tables, KeepsRest

\* A category at a time, inserted or skipped as adult.
LEMMA NextCategoryEffect ==
  ASSUME ImTypeOK, NEW j \in ImportJobs, NextCategory(j)
  PROVE /\ imp[j].at = "categories"
        /\ \/ /\ Progress(j, IF imp[j].full THEN "categories" ELSE "fetching", imp[j].status,
                          imp[j].existing, imp[j].items, imp[j].workers, imp[j].mine, imp[j].saw)
              /\ \E g \in Groups :
                   /\ imp'[j].known = imp[j].known \cup {g}
                   /\ groups' = [groups EXCEPT ![g] = IF g \in imp[j].known THEN @ ELSE @ + 1]
           \/ /\ Progress(j, imp[j].at, imp[j].status, imp[j].existing, imp[j].items,
                          imp[j].workers, imp[j].mine, imp[j].saw)
              /\ imp'[j].known = imp[j].known /\ groups' = groups
        /\ KeepsRest(j)
        /\ UNCHANGED <<kind, hand, tidy, quiet, stored, bouquet, asked>>
  <1>1. PICK g \in imp[j].todo :
          \/ /\ groups' = [groups EXCEPT ![g] = IF Listed(j, g) THEN @ ELSE @ + 1]
             /\ imp' = [imp EXCEPT ![j].todo = @ \ {g}, ![j].known = @ \cup {g},
                                   ![j].at = IF imp[j].full THEN "categories" ELSE "fetching"]
          \/ imp' = [imp EXCEPT ![j].todo = @ \ {g}] /\ UNCHANGED groups
    BY DEF NextCategory
  <1>2. PICK at : at = IF imp[j].full THEN "categories" ELSE "fetching"
    OBVIOUS
  <1>3. PICK todo : todo = imp[j].todo \ {g}
    OBVIOUS
  <1>4. PICK known : known = imp[j].known \cup {g}
    OBVIOUS
  <1>5. /\ imp[j] \in ImportType /\ g \in Groups /\ at \in JobPlaces
        /\ todo \in SUBSET Groups /\ known \in SUBSET Groups
    BY <1>1, <1>2, <1>3, <1>4 DEF ImTypeOK, ImportType, JobPlaces
  <1>6. CASE imp' = [imp EXCEPT ![j].todo = @ \ {g}] /\ UNCHANGED groups
    <2>. DEFINE rec == [imp[j] EXCEPT !.todo = todo]
    <2>1. /\ rec \in ImportType /\ rec.at = imp[j].at /\ rec.status = imp[j].status
          /\ rec.existing = imp[j].existing /\ rec.items = imp[j].items
          /\ rec.workers = imp[j].workers /\ rec.mine = imp[j].mine /\ rec.saw = imp[j].saw
          /\ rec.full = imp[j].full /\ rec.cancelled = imp[j].cancelled
          /\ rec.known = imp[j].known
      BY <1>5 DEF ImportType
    <2>2. imp' = [imp EXCEPT ![j] = rec]
      BY <1>3, <1>6 DEF ImTypeOK
    <2>. HIDE DEF rec
    <2>3. Progress(j, rec.at, rec.status, rec.existing, rec.items, rec.workers, rec.mine, rec.saw)
          /\ imp'[j] = rec
      BY <2>1, <2>2, WriteImport
    <2>. QED BY <1>6, <2>1, <2>3 DEF NextCategory, KeepsRest
  <1>7. CASE /\ groups' = [groups EXCEPT ![g] = IF Listed(j, g) THEN @ ELSE @ + 1]
             /\ imp' = [imp EXCEPT ![j].todo = @ \ {g}, ![j].known = @ \cup {g},
                                   ![j].at = IF imp[j].full THEN "categories" ELSE "fetching"]
    <2>. DEFINE rec == [imp[j] EXCEPT !.todo = todo, !.known = known, !.at = at]
    <2>1. /\ rec \in ImportType /\ rec.at = at /\ rec.status = imp[j].status
          /\ rec.existing = imp[j].existing /\ rec.items = imp[j].items
          /\ rec.workers = imp[j].workers /\ rec.mine = imp[j].mine /\ rec.saw = imp[j].saw
          /\ rec.full = imp[j].full /\ rec.cancelled = imp[j].cancelled
          /\ rec.known = known
      BY <1>5 DEF ImportType
    <2>2. imp' = [imp EXCEPT ![j] = rec]
      BY <1>2, <1>3, <1>4, <1>7 DEF ImTypeOK
    <2>. HIDE DEF rec
    <2>3. Progress(j, rec.at, rec.status, rec.existing, rec.items, rec.workers, rec.mine, rec.saw)
          /\ imp'[j] = rec
      BY <2>1, <2>2, WriteImport
    <2>. QED BY <1>2, <1>4, <1>5, <1>7, <2>1, <2>3, ZenonT(40) DEF NextCategory, KeepsRest, Listed
  <1>. QED BY <1>1, <1>6, <1>7

\* The last category is done, or the job was cancelled.
LEMMA CategoriesDoneEffect ==
  ASSUME ImTypeOK, NEW j \in ImportJobs, CategoriesDone(j)
  PROVE /\ imp[j].at = "categories"
        /\ Progress(j, (IF imp[j].full THEN "fetching" ELSE "merging"), imp[j].status, {},
                    imp[j].items, imp[j].workers, imp[j].mine, imp[j].saw)
        /\ KeepsRest(j)
        /\ UNCHANGED <<kind, hand, tidy, quiet, stored, groups, bouquet, asked>>
  <1>1. PICK at : at = (IF imp[j].full THEN "fetching" ELSE "merging")
    OBVIOUS
  <1>. DEFINE rec == [imp[j] EXCEPT !.todo = {}, !.known = {}, !.at = at, !.existing = {}]
  <1>2. imp[j] \in ImportType /\ at \in JobPlaces
    BY <1>1 DEF ImTypeOK, JobPlaces
  <1>3. /\ rec \in ImportType
        /\ rec.at = at /\ rec.status = imp[j].status /\ rec.existing = {}
        /\ rec.items = imp[j].items /\ rec.workers = imp[j].workers /\ rec.mine = imp[j].mine
        /\ rec.saw = imp[j].saw /\ rec.full = imp[j].full /\ rec.cancelled = imp[j].cancelled
        /\ rec.known = {}
    BY <1>2 DEF ImportType, JobPlaces
  <1>4. imp' = [imp EXCEPT ![j] = rec]
    BY <1>1 DEF CategoriesDone, ImTypeOK
  <1>. HIDE DEF rec
  <1>5. Progress(j, rec.at, rec.status, rec.existing, rec.items, rec.workers, rec.mine, rec.saw)
        /\ imp'[j] = rec
    BY <1>3, <1>4, WriteImport
  <1>. QED BY <1>1, <1>3, <1>5 DEF CategoriesDone, tables, KeepsRest

\* The last entry is done, or the job was cancelled.
LEMMA ItemsDoneEffect ==
  ASSUME ImTypeOK, NEW j \in ImportJobs, ItemsDone(j)
  PROVE /\ imp[j].at = "items" /\ \A w \in Hands : hand[j][w] = {}
        /\ Progress(j, IF imp[j].full THEN "merging" ELSE "categories", imp[j].status,
                    IF kind = "channels" THEN imp[j].existing ELSE {},
                    {}, {}, imp[j].mine, imp[j].saw)
        /\ KeepsRest(j) /\ imp'[j].known = imp[j].known
        /\ UNCHANGED <<kind, hand, tidy, quiet, stored, groups, bouquet, asked>>
  <1>1. PICK at : at = (IF imp[j].full THEN "merging" ELSE "categories")
    OBVIOUS
  <1>2. PICK ex : ex = (IF kind = "channels" THEN imp[j].existing ELSE {})
    OBVIOUS
  <1>. DEFINE rec == [imp[j] EXCEPT !.at = at, !.items = {},
                                    !.workers = {}, !.existing = ex]
  <1>3. imp[j] \in ImportType /\ at \in JobPlaces /\ ex \in SUBSET EntryUrls
    BY <1>1, <1>2 DEF ImTypeOK, ImportType, JobPlaces
  <1>4. /\ rec \in ImportType
        /\ rec.at = at /\ rec.status = imp[j].status /\ rec.existing = ex
        /\ rec.items = {} /\ rec.workers = {} /\ rec.mine = imp[j].mine
        /\ rec.saw = imp[j].saw /\ rec.full = imp[j].full /\ rec.cancelled = imp[j].cancelled
        /\ rec.known = imp[j].known
    BY <1>3 DEF ImportType, JobPlaces
  <1>5. imp' = [imp EXCEPT ![j] = rec]
    BY <1>1, <1>2 DEF ItemsDone, ImTypeOK
  <1>. HIDE DEF rec
  <1>6. Progress(j, rec.at, rec.status, rec.existing, rec.items, rec.workers, rec.mine, rec.saw)
        /\ imp'[j] = rec
    BY <1>4, <1>5, WriteImport
  <1>. QED BY <1>1, <1>2, <1>4, <1>6 DEF ItemsDone, tables, KeepsRest

\* The flag of a cancelled job is looked at later.
LEMMA CancelJobEffect ==
  ASSUME ImTypeOK, NEW j \in ImportJobs, CancelJob(j)
  PROVE /\ Under(j)
        /\ Progress(j, imp[j].at, imp[j].status, imp[j].existing,
                    imp[j].items, imp[j].workers, imp[j].mine, imp[j].saw)
        /\ imp'[j].cancelled /\ imp'[j].full = imp[j].full /\ imp'[j].known = imp[j].known
        /\ UNCHANGED <<kind, hand, tidy, quiet, stored, groups, bouquet, asked>>
  <1>. DEFINE rec == [imp[j] EXCEPT !.cancelled = TRUE]
  <1>1. imp[j] \in ImportType
    BY DEF ImTypeOK
  <1>2. /\ rec \in ImportType
        /\ rec.at = imp[j].at /\ rec.status = imp[j].status /\ rec.existing = imp[j].existing
        /\ rec.items = imp[j].items /\ rec.workers = imp[j].workers /\ rec.mine = imp[j].mine
        /\ rec.saw = imp[j].saw /\ rec.full = imp[j].full /\ rec.cancelled = TRUE
        /\ rec.known = imp[j].known
    BY <1>1 DEF ImportType, JobPlaces
  <1>3. imp' = [imp EXCEPT ![j] = rec]
    BY DEF CancelJob, ImTypeOK
  <1>. HIDE DEF rec
  <1>4. Progress(j, rec.at, rec.status, rec.existing, rec.items, rec.workers, rec.mine, rec.saw)
        /\ imp'[j] = rec
    BY <1>2, <1>3, WriteImport
  <1>. QED BY <1>2, <1>4 DEF CancelJob, tables, KeepsRest

\* The ids of the bouquet,
LEMMA MergeReadEffect ==
  ASSUME ImTypeOK, NEW j \in ImportJobs, MergeRead(j)
  PROVE /\ imp[j].at = "merging"
        /\ Progress(j, "listing", imp[j].status, imp[j].existing,
                    imp[j].items, imp[j].workers, imp[j].mine, bouquet)
        /\ KeepsRest(j) /\ imp'[j].known = imp[j].known
        /\ UNCHANGED <<kind, hand, tidy, quiet, stored, groups, bouquet, asked>>
  <1>. DEFINE rec == [imp[j] EXCEPT !.at = "listing", !.saw = bouquet]
  <1>1. imp[j] \in ImportType /\ bouquet \in SUBSET EntryUrls
    BY DEF ImTypeOK
  <1>2. /\ rec \in ImportType
        /\ rec.at = "listing" /\ rec.status = imp[j].status /\ rec.existing = imp[j].existing
        /\ rec.items = imp[j].items /\ rec.workers = imp[j].workers /\ rec.mine = imp[j].mine
        /\ rec.saw = bouquet /\ rec.full = imp[j].full /\ rec.cancelled = imp[j].cancelled
        /\ rec.known = imp[j].known
    BY <1>1 DEF ImportType, JobPlaces
  <1>3. imp' = [imp EXCEPT ![j] = rec]
    BY DEF MergeRead, ImTypeOK
  <1>. HIDE DEF rec
  <1>4. Progress(j, rec.at, rec.status, rec.existing, rec.items, rec.workers, rec.mine, rec.saw)
        /\ imp'[j] = rec
    BY <1>2, <1>3, WriteImport
  <1>. QED BY <1>2, <1>4 DEF MergeRead, tables, KeepsRest

\* those of the table,
LEMMA MergeListEffect ==
  ASSUME ImTypeOK, NEW j \in ImportJobs, MergeList(j)
  PROVE /\ imp[j].at = "listing"
        /\ Progress(j, "writing", imp[j].status, imp[j].existing,
                    imp[j].items, imp[j].workers, imp[j].mine, imp[j].saw \cup Stored)
        /\ KeepsRest(j) /\ imp'[j].known = imp[j].known
        /\ UNCHANGED <<kind, hand, tidy, quiet, stored, groups, bouquet, asked>>
  <1>1. PICK sw : sw = imp[j].saw \cup Stored
    OBVIOUS
  <1>. DEFINE rec == [imp[j] EXCEPT !.at = "writing", !.saw = sw]
  <1>2. imp[j] \in ImportType /\ sw \in SUBSET EntryUrls
    BY <1>1 DEF ImTypeOK, ImportType, Stored
  <1>3. /\ rec \in ImportType
        /\ rec.at = "writing" /\ rec.status = imp[j].status /\ rec.existing = imp[j].existing
        /\ rec.items = imp[j].items /\ rec.workers = imp[j].workers /\ rec.mine = imp[j].mine
        /\ rec.saw = sw /\ rec.full = imp[j].full /\ rec.cancelled = imp[j].cancelled
        /\ rec.known = imp[j].known
    BY <1>2 DEF ImportType, JobPlaces
  <1>4. imp' = [imp EXCEPT ![j] = rec]
    BY <1>1 DEF MergeList, ImTypeOK
  <1>. HIDE DEF rec
  <1>5. Progress(j, rec.at, rec.status, rec.existing, rec.items, rec.workers, rec.mine, rec.saw)
        /\ imp'[j] = rec
    BY <1>3, <1>4, WriteImport
  <1>. QED BY <1>1, <1>3, <1>5 DEF MergeList, tables, KeepsRest

\* and both together written.
LEMMA MergeWriteEffect ==
  ASSUME ImTypeOK, NEW j \in ImportJobs, MergeWrite(j)
  PROVE /\ imp[j].at = "writing"
        /\ \E s \in {"done", "cancelled"} : Progress(j, "over", s, {}, {}, {}, imp[j].mine, {})
        /\ ~imp'[j].full /\ ~imp'[j].cancelled
        /\ bouquet' \subseteq imp[j].saw /\ (kind # "channels" => bouquet' = imp[j].saw)
        /\ quiet' = (quiet /\ \A k \in ImportJobs \ {j} : ~Merging(k))
        /\ UNCHANGED <<kind, hand, tidy, stored, groups, asked>>
  <1>1. PICK s \in {"done", "cancelled"} : Finished(j) = Ended(j, s)
    BY FinishedEffect
  <1>2. s \in {"done", "cancelled", "error"}
    OBVIOUS
  <1>. DEFINE rec == Ended(j, s)
  <1>3. /\ rec \in ImportType /\ rec.at = "over" /\ rec.status = s /\ rec.mine = imp[j].mine
        /\ rec.workers = {} /\ rec.items = {} /\ ~rec.full /\ ~rec.cancelled
        /\ rec.saw = {} /\ rec.existing = {}
    BY <1>2, EndedEffect
  <1>4. imp' = [imp EXCEPT ![j] = rec]
    BY <1>1 DEF MergeWrite
  <1>. HIDE DEF rec
  <1>5. Progress(j, rec.at, rec.status, rec.existing, rec.items, rec.workers, rec.mine, rec.saw)
        /\ imp'[j] = rec
    BY <1>3, <1>4, WriteImport
  <1>6. bouquet' \subseteq imp[j].saw /\ (kind # "channels" => bouquet' = imp[j].saw)
    BY DEF MergeWrite, Parsed, Merged
  <1>. QED BY <1>3, <1>5, <1>6 DEF MergeWrite

\* What the provider lists, or nothing, which ends a full import.
LEMMA FetchEffect ==
  ASSUME ImTypeOK, NEW j \in ImportJobs, Fetch(j)
  PROVE /\ imp[j].at = "fetching"
        /\ \/ /\ \E items \in SUBSET Entries :
                   Progress(j, "items", imp[j].status,
                            IF kind = "channels" THEN imp[j].existing ELSE Stored,
                            items, HandsOf, imp[j].mine, imp[j].saw)
              /\ KeepsRest(j) /\ imp'[j].known = imp[j].known
           \/ /\ imp[j].full
              /\ \E s \in {"done", "cancelled"} :
                   Progress(j, "over", s, {}, {}, {}, imp[j].mine, {})
              /\ ~imp'[j].full /\ ~imp'[j].cancelled
           \/ /\ ~imp[j].full
              /\ Progress(j, "categories", imp[j].status, imp[j].existing,
                          imp[j].items, imp[j].workers, imp[j].mine, imp[j].saw)
              /\ KeepsRest(j) /\ imp'[j].known = imp[j].known
        /\ UNCHANGED <<kind, hand, tidy, quiet, stored, groups, bouquet, asked>>
  <1>1. CASE imp[j].full /\ imp' = [imp EXCEPT ![j] = Finished(j)]
    <2>1. PICK s \in {"done", "cancelled"} : Finished(j) = Ended(j, s)
      BY FinishedEffect
    <2>2. s \in {"done", "cancelled", "error"}
      OBVIOUS
    <2>. DEFINE rec == Ended(j, s)
    <2>3. /\ rec \in ImportType /\ rec.at = "over" /\ rec.status = s /\ rec.mine = imp[j].mine
          /\ rec.workers = {} /\ rec.items = {} /\ ~rec.full /\ ~rec.cancelled
          /\ rec.saw = {} /\ rec.existing = {}
      BY <2>2, EndedEffect
    <2>4. imp' = [imp EXCEPT ![j] = rec]
      BY <1>1, <2>1
    <2>. HIDE DEF rec
    <2>5. Progress(j, rec.at, rec.status, rec.existing, rec.items, rec.workers, rec.mine, rec.saw)
          /\ imp'[j] = rec
      BY <2>3, <2>4, WriteImport
    <2>6. Progress(j, "over", s, {}, {}, {}, imp[j].mine, {})
      BY <2>3, <2>5
    <2>. QED BY <1>1, <2>3, <2>5, <2>6 DEF Fetch, tables
  <1>2. CASE ~imp[j].full /\ imp' = [imp EXCEPT ![j] = [@ EXCEPT !.at = "categories"]]
    <2>. DEFINE rec == [imp[j] EXCEPT !.at = "categories"]
    <2>1. imp[j] \in ImportType
      BY DEF ImTypeOK
    <2>2. /\ rec \in ImportType /\ rec.at = "categories" /\ rec.status = imp[j].status
          /\ rec.existing = imp[j].existing /\ rec.items = imp[j].items
          /\ rec.workers = imp[j].workers /\ rec.mine = imp[j].mine /\ rec.saw = imp[j].saw
          /\ rec.full = imp[j].full /\ rec.cancelled = imp[j].cancelled
          /\ rec.known = imp[j].known
      BY <2>1 DEF ImportType, JobPlaces
    <2>3. imp' = [imp EXCEPT ![j] = rec]
      BY <1>2 DEF ImTypeOK
    <2>. HIDE DEF rec
    <2>4. Progress(j, rec.at, rec.status, rec.existing, rec.items, rec.workers, rec.mine, rec.saw)
          /\ imp'[j] = rec
      BY <2>2, <2>3, WriteImport
    <2>. QED BY <1>2, <2>2, <2>4 DEF Fetch, tables, KeepsRest
  <1>3. CASE \E last \in Entries \cup {0} :
               imp' = [imp EXCEPT ![j].at = "items", ![j].workers = HandsOf,
                                  ![j].items = {e \in Entries : e <= last},
                                  ![j].existing = IF kind = "channels" THEN @ ELSE Stored]
    <2>1. PICK items \in SUBSET Entries :
            imp' = [imp EXCEPT ![j].at = "items", ![j].workers = HandsOf, ![j].items = items,
                               ![j].existing = IF kind = "channels" THEN @ ELSE Stored]
      BY <1>3
    <2>2. PICK ex : ex = IF kind = "channels" THEN imp[j].existing ELSE Stored
      OBVIOUS
    <2>. DEFINE rec == [imp[j] EXCEPT !.at = "items", !.workers = HandsOf, !.items = items,
                                      !.existing = ex]
    <2>3. imp[j] \in ImportType /\ HandsOf \in SUBSET Hands /\ ex \in SUBSET EntryUrls
      BY <2>2 DEF ImTypeOK, ImportType, HandsOf, Hands, Stored
    <2>4. /\ rec \in ImportType /\ rec.at = "items" /\ rec.status = imp[j].status
          /\ rec.existing = ex /\ rec.items = items
          /\ rec.workers = HandsOf /\ rec.mine = imp[j].mine /\ rec.saw = imp[j].saw
          /\ rec.full = imp[j].full /\ rec.cancelled = imp[j].cancelled
          /\ rec.known = imp[j].known
      BY <2>3 DEF ImportType, JobPlaces
    <2>5. imp' = [imp EXCEPT ![j] = rec]
      BY <2>1, <2>2 DEF ImTypeOK
    <2>. HIDE DEF rec
    <2>6. Progress(j, rec.at, rec.status, rec.existing, rec.items, rec.workers, rec.mine, rec.saw)
          /\ imp'[j] = rec
      BY <2>4, <2>5, WriteImport
    <2>7. Progress(j, "items", imp[j].status,
                   IF kind = "channels" THEN imp[j].existing ELSE Stored,
                   items, HandsOf, imp[j].mine, imp[j].saw)
      BY <2>2, <2>4, <2>6
    <2>. QED BY <2>4, <2>6, <2>7 DEF Fetch, tables, KeepsRest
  <1>. QED BY <1>1, <1>2, <1>3 DEF Fetch

\* The first entry left, unless its URL is known.
LEMMA TakeEffect ==
  ASSUME ImTypeOK, NEW j \in ImportJobs, NEW w \in Hands, Take(j, w)
  PROVE /\ w \in imp[j].workers /\ hand[j][w] = {} /\ ~imp[j].cancelled
        /\ \E e \in imp[j].items :
             /\ Progress(j, imp[j].at, imp[j].status, imp[j].existing, imp[j].items \ {e},
                         imp[j].workers, imp[j].mine, imp[j].saw)
             /\ hand' = [hand EXCEPT ![j][w] = IF UrlOf[e] \in imp[j].existing THEN {} ELSE {e}]
        /\ KeepsRest(j) /\ imp'[j].known = imp[j].known
        /\ UNCHANGED <<kind, tidy, quiet, stored, groups, bouquet, asked>>
  <1>1. PICK e \in imp[j].items :
          /\ imp' = [imp EXCEPT ![j].items = @ \ {e}]
          /\ hand' = [hand EXCEPT ![j][w] = IF UrlOf[e] \in imp[j].existing THEN {} ELSE {e}]
    BY DEF Take
  <1>2. PICK items : items = imp[j].items \ {e}
    OBVIOUS
  <1>. DEFINE rec == [imp[j] EXCEPT !.items = items]
  <1>3. imp[j] \in ImportType /\ items \in SUBSET Entries
    BY <1>2 DEF ImTypeOK, ImportType
  <1>4. /\ rec \in ImportType /\ rec.at = imp[j].at /\ rec.status = imp[j].status
        /\ rec.existing = imp[j].existing /\ rec.items = items
        /\ rec.workers = imp[j].workers /\ rec.mine = imp[j].mine /\ rec.saw = imp[j].saw
        /\ rec.full = imp[j].full /\ rec.cancelled = imp[j].cancelled
        /\ rec.known = imp[j].known
    BY <1>3 DEF ImportType
  <1>5. imp' = [imp EXCEPT ![j] = rec]
    BY <1>1, <1>2 DEF ImTypeOK
  <1>. HIDE DEF rec
  <1>6. Progress(j, rec.at, rec.status, rec.existing, rec.items, rec.workers, rec.mine, rec.saw)
        /\ imp'[j] = rec
    BY <1>4, <1>5, WriteImport
  <1>7. Progress(j, imp[j].at, imp[j].status, imp[j].existing, imp[j].items \ {e},
                  imp[j].workers, imp[j].mine, imp[j].saw)
    BY <1>2, <1>4, <1>6
  <1>. QED BY <1>1, <1>4, <1>6, <1>7 DEF Take, tables, KeepsRest

\* The row of an entry, and the URL into the set that is looked up.
LEMMA InsertEffect ==
  ASSUME ImTypeOK, NEW j \in ImportJobs, NEW w \in Hands, Insert(j, w)
  PROVE /\ \E e \in hand[j][w] :
             /\ stored' = [stored EXCEPT ![UrlOf[e]] = @ + 1]
             /\ Progress(j, imp[j].at, imp[j].status, imp[j].existing \cup {UrlOf[e]},
                         imp[j].items, imp[j].workers, imp[j].mine \cup {UrlOf[e]}, imp[j].saw)
             /\ e \in Entries /\ UrlOf[e] \in EntryUrls
        /\ hand' = [hand EXCEPT ![j][w] = {}]
        /\ KeepsRest(j) /\ imp'[j].known = imp[j].known
        /\ UNCHANGED <<kind, tidy, quiet, groups, bouquet, asked>>
  <1>1. PICK e \in hand[j][w] :
          /\ stored' = [stored EXCEPT ![UrlOf[e]] = @ + 1]
          /\ imp' = [imp EXCEPT ![j].existing = @ \cup {UrlOf[e]}, ![j].mine = @ \cup {UrlOf[e]}]
    BY DEF Insert, Remembered
  <1>2. PICK ex : ex = imp[j].existing \cup {UrlOf[e]}
    OBVIOUS
  <1>3. PICK mi : mi = imp[j].mine \cup {UrlOf[e]}
    OBVIOUS
  <1>. DEFINE rec == [imp[j] EXCEPT !.existing = ex, !.mine = mi]
  <1>4. e \in Entries /\ UrlOf[e] \in EntryUrls
    BY ZenonT(40) DEF ImTypeOK, EntryUrls
  <1>5. imp[j] \in ImportType /\ ex \in SUBSET EntryUrls /\ mi \in SUBSET EntryUrls
    BY <1>2, <1>3, <1>4 DEF ImTypeOK, ImportType
  <1>6. /\ rec \in ImportType /\ rec.at = imp[j].at /\ rec.status = imp[j].status
        /\ rec.existing = ex /\ rec.items = imp[j].items
        /\ rec.workers = imp[j].workers /\ rec.mine = mi /\ rec.saw = imp[j].saw
        /\ rec.full = imp[j].full /\ rec.cancelled = imp[j].cancelled
        /\ rec.known = imp[j].known
    BY <1>5 DEF ImportType
  <1>7. imp' = [imp EXCEPT ![j] = rec]
    BY <1>1, <1>2, <1>3 DEF ImTypeOK
  <1>. HIDE DEF rec
  <1>8. Progress(j, rec.at, rec.status, rec.existing, rec.items, rec.workers, rec.mine, rec.saw)
        /\ imp'[j] = rec
    BY <1>6, <1>7, WriteImport
  <1>9. Progress(j, imp[j].at, imp[j].status, imp[j].existing \cup {UrlOf[e]},
                  imp[j].items, imp[j].workers, imp[j].mine \cup {UrlOf[e]}, imp[j].saw)
    BY <1>2, <1>3, <1>6, <1>8
  <1>. QED BY <1>1, <1>4, <1>6, <1>8, <1>9 DEF Insert, KeepsRest

\* An exception outside the workers.
LEMMA ImportFailsEffect ==
  ASSUME ImTypeOK, NEW j \in ImportJobs, ImportFails(j)
  PROVE /\ imp[j].at \notin {"none", "items", "over"}
        /\ Progress(j, "over", "error", {}, {}, {}, imp[j].mine, {})
        /\ ~imp'[j].full /\ ~imp'[j].cancelled
        /\ UNCHANGED <<kind, hand, tidy, quiet, stored, groups, bouquet, asked>>
  <1>. DEFINE rec == Ended(j, "error")
  <1>1. /\ rec \in ImportType /\ rec.at = "over" /\ rec.status = "error" /\ rec.mine = imp[j].mine
        /\ rec.workers = {} /\ rec.items = {} /\ ~rec.full /\ ~rec.cancelled
        /\ rec.saw = {} /\ rec.existing = {}
    BY EndedEffect
  <1>2. imp' = [imp EXCEPT ![j] = rec]
    BY DEF ImportFails
  <1>. HIDE DEF rec
  <1>3. Progress(j, rec.at, rec.status, rec.existing, rec.items, rec.workers, rec.mine, rec.saw)
        /\ imp'[j] = rec
    BY <1>1, <1>2, WriteImport
  <1>. QED BY <1>1, <1>3 DEF ImportFails, tables

\* An exception in a worker: the others keep what they look things up in.
LEMMA WorkerFailsEffect ==
  ASSUME ImTypeOK, NEW j \in ImportJobs, NEW w \in Hands, WorkerFails(j, w)
  PROVE /\ w \in imp[j].workers /\ (imp[j].at = "items" \/ hand[j][w] # {})
        /\ \E items, existing :
             /\ Progress(j, "over", "error", existing, items, imp[j].workers \ {w},
                         imp[j].mine, {})
             /\ IF imp[j].workers \ {w} = {} THEN items = {} /\ existing = {}
                ELSE items = imp[j].items /\ existing = imp[j].existing
        /\ ~imp'[j].full /\ imp'[j].cancelled = imp[j].cancelled
        /\ hand' = [hand EXCEPT ![j][w] = {}]
        /\ UNCHANGED <<kind, tidy, quiet, stored, groups, bouquet, asked>>
  <1>1. PICK left : left = imp[j].workers \ {w}
    OBVIOUS
  <1>2. PICK items : items = IF left = {} THEN {} ELSE imp[j].items
    OBVIOUS
  <1>3. PICK ex : ex = IF left = {} THEN {} ELSE imp[j].existing
    OBVIOUS
  <1>4. PICK cancelled : cancelled = imp[j].cancelled
    OBVIOUS
  <1>5. PICK d : d = Ended(j, "error")
    OBVIOUS
  <1>6. /\ d \in ImportType /\ d.at = "over" /\ d.status = "error" /\ d.mine = imp[j].mine
        /\ ~d.full /\ d.saw = {}
    BY <1>5, EndedEffect
  <1>. DEFINE rec == [d EXCEPT !.workers = left, !.cancelled = cancelled,
                                !.items = items, !.existing = ex]
  <1>7. /\ left \in SUBSET Hands /\ cancelled \in BOOLEAN
         /\ items \in SUBSET Entries /\ ex \in SUBSET EntryUrls
    BY <1>1, <1>2, <1>3, <1>4 DEF ImTypeOK, ImportType
  <1>8. /\ rec \in ImportType /\ rec.at = "over" /\ rec.status = "error"
        /\ rec.existing = ex /\ rec.items = items
        /\ rec.workers = left /\ rec.mine = imp[j].mine /\ rec.saw = {}
        /\ ~rec.full /\ rec.cancelled = cancelled
    BY <1>6, <1>7 DEF ImportType
  <1>9. imp' = [imp EXCEPT ![j] = rec]
    BY <1>1, <1>2, <1>3, <1>4, <1>5 DEF WorkerFails
  <1>. HIDE DEF rec
  <1>10. Progress(j, rec.at, rec.status, rec.existing, rec.items, rec.workers, rec.mine, rec.saw)
        /\ imp'[j] = rec
    BY <1>8, <1>9, WriteImport
  <1>11. Progress(j, "over", "error", ex, items, imp[j].workers \ {w}, imp[j].mine, {})
    BY <1>1, <1>8, <1>10, SMTT(30)
  <1>. QED BY <1>1, <1>2, <1>3, <1>4, <1>8, <1>10, <1>11 DEF WorkerFails, tables

\* Rows that go are no longer anybody's.
LEMMA PurgeEffect ==
  ASSUME ImTypeOK, Purge
  PROVE /\ \E gone \in SUBSET Stored :
             /\ stored' = [u \in EntryUrls |-> IF u \in gone THEN 0 ELSE stored[u]]
             /\ bouquet' = bouquet \ gone
             /\ \A j \in ImportJobs :
                  /\ imp'[j] \in ImportType
                  /\ imp'[j].at = imp[j].at /\ imp'[j].status = imp[j].status
                  /\ imp'[j].existing = imp[j].existing /\ imp'[j].items = imp[j].items
                  /\ imp'[j].workers = imp[j].workers /\ imp'[j].known = imp[j].known
                  /\ imp'[j].mine = imp[j].mine \ gone /\ imp'[j].saw = imp[j].saw \ gone
                  /\ KeepsRest(j)
        /\ imp' \in [ImportJobs -> ImportType]
        /\ UNCHANGED <<kind, hand, groups, asked, tidy, quiet>>
  <1>1. PICK gone \in {Stored} \cup {{u} : u \in Stored} :
          /\ stored' = [u \in EntryUrls |-> IF u \in gone THEN 0 ELSE stored[u]]
          /\ bouquet' = bouquet \ gone
          /\ imp' = [j \in ImportJobs |-> [imp[j] EXCEPT !.mine = @ \ gone, !.saw = @ \ gone]]
    BY DEF Purge
  <1>2. gone \in SUBSET Stored
    OBVIOUS
  <1>3. ASSUME NEW j \in ImportJobs
        PROVE /\ imp'[j] \in ImportType
              /\ imp'[j].at = imp[j].at /\ imp'[j].status = imp[j].status
              /\ imp'[j].existing = imp[j].existing /\ imp'[j].items = imp[j].items
              /\ imp'[j].workers = imp[j].workers /\ imp'[j].known = imp[j].known
              /\ imp'[j].mine = imp[j].mine \ gone /\ imp'[j].saw = imp[j].saw \ gone
              /\ KeepsRest(j)
    <2>1. PICK mi : mi = imp[j].mine \ gone
      OBVIOUS
    <2>2. PICK sw : sw = imp[j].saw \ gone
      OBVIOUS
    <2>3. imp'[j] = [imp[j] EXCEPT !.mine = mi, !.saw = sw]
      BY <1>1, <2>1, <2>2
    <2>4. imp[j] \in ImportType /\ mi \in SUBSET EntryUrls /\ sw \in SUBSET EntryUrls
      BY <2>1, <2>2, SMTT(30) DEF ImTypeOK, ImportType
    <2>. QED BY <2>1, <2>2, <2>3, <2>4 DEF ImportType, KeepsRest
  <1>4. imp' \in [ImportJobs -> ImportType]
    BY <1>1, <1>3
  <1>. QED BY <1>1, <1>2, <1>3, <1>4 DEF Purge

\* The types are kept.
LEMMA ImTypeStep ==
  ASSUME ImTypeOK, [ImNext]_imVars PROVE ImTypeOK'
  <1>. USE DEF ImTypeOK, Progress
  <1>1. ASSUME NEW j \in ImportJobs,
               \/ ReadCategories(j) \/ CategoriesDone(j) \/ ItemsDone(j)
               \/ CancelJob(j) \/ MergeRead(j) \/ MergeList(j)
        PROVE /\ imp' \in [ImportJobs -> ImportType]
              /\ UNCHANGED <<kind, hand, tidy, quiet, stored, groups, bouquet, asked>>
    BY <1>1, ReadCategoriesEffect, CategoriesDoneEffect, ItemsDoneEffect, CancelJobEffect,
       MergeReadEffect, MergeListEffect
  <1>2. ASSUME NEW j \in ImportJobs, Fetch(j) \/ ImportFails(j)
        PROVE /\ imp' \in [ImportJobs -> ImportType]
              /\ UNCHANGED <<kind, hand, tidy, quiet, stored, groups, bouquet, asked>>
    BY <1>2, FetchEffect, ImportFailsEffect
  <1>3. ASSUME NEW j \in ImportJobs, StartImport(j) PROVE ImTypeOK'
    BY <1>3, StartImportEffect
  <1>4. ASSUME NEW j \in ImportJobs, NextCategory(j) PROVE ImTypeOK'
    <2>1. imp' \in [ImportJobs -> ImportType]
          /\ UNCHANGED <<kind, hand, tidy, quiet, stored, bouquet, asked>>
      BY <1>4, NextCategoryEffect
    <2>2. groups' \in [Groups -> Nat]
      <3>1. CASE groups' = groups
        BY <3>1
      <3>2. CASE \E g \in Groups :
                   groups' = [groups EXCEPT ![g] = IF g \in imp[j].known THEN @ ELSE @ + 1]
        BY <3>2
      <3>. QED BY <1>4, <3>1, <3>2, NextCategoryEffect
    <2>. QED BY <2>1, <2>2
  <1>5. ASSUME NEW j \in ImportJobs, MergeWrite(j) PROVE ImTypeOK'
    <2>1. bouquet' \subseteq EntryUrls
      BY <1>5, MergeWriteEffect DEF ImportType
    <2>2. imp' \in [ImportJobs -> ImportType]
      BY <1>5, MergeWriteEffect
    <2>. QED BY <1>5, <2>1, <2>2, MergeWriteEffect
  <1>6. ASSUME NEW j \in ImportJobs, NEW w \in Hands, Take(j, w) PROVE ImTypeOK'
    <2>1. /\ imp' \in [ImportJobs -> ImportType]
          /\ UNCHANGED <<kind, tidy, quiet, stored, groups, bouquet, asked>>
      BY <1>6, TakeEffect
    <2>2. PICK e \in imp[j].items :
            hand' = [hand EXCEPT ![j][w] = IF UrlOf[e] \in imp[j].existing THEN {} ELSE {e}]
      BY <1>6, TakeEffect
    <2>3. hand' \in [ImportJobs -> [Hands -> SUBSET Entries]]
      BY <2>2 DEF ImportType
    <2>. QED BY <2>1, <2>3
  <1>7. ASSUME NEW j \in ImportJobs, NEW w \in Hands, Insert(j, w) PROVE ImTypeOK'
    <2>1. /\ imp' \in [ImportJobs -> ImportType]
          /\ UNCHANGED <<kind, tidy, quiet, groups, bouquet, asked>>
          /\ hand' = [hand EXCEPT ![j][w] = {}]
      BY <1>7, InsertEffect
    <2>2. hand' \in [ImportJobs -> [Hands -> SUBSET Entries]]
      BY <2>1
    <2>3. PICK u \in EntryUrls : stored' = [stored EXCEPT ![u] = @ + 1]
      BY <1>7, InsertEffect
    <2>4. stored' \in [EntryUrls -> Nat]
      BY <2>3
    <2>. QED BY <2>1, <2>2, <2>4
  <1>8. ASSUME NEW j \in ImportJobs, NEW w \in Hands, WorkerFails(j, w) PROVE ImTypeOK'
    <2>1. /\ imp' \in [ImportJobs -> ImportType]
          /\ UNCHANGED <<kind, tidy, quiet, stored, groups, bouquet, asked>>
          /\ hand' = [hand EXCEPT ![j][w] = {}]
      BY <1>8, WorkerFailsEffect
    <2>2. hand' \in [ImportJobs -> [Hands -> SUBSET Entries]]
      BY <2>1
    <2>. QED BY <2>1, <2>2
  <1>9. ASSUME NEW g \in Groups, FindCategory(g) \/ CreateFound(g) \/ DeleteCategory(g)
        PROVE ImTypeOK'
    <2>1. CASE FindCategory(g)
      BY <2>1 DEF FindCategory
    <2>2. CASE CreateFound(g)
      <3>1. groups' \in [Groups -> Nat] /\ asked' = {}
        BY <2>2 DEF CreateFound
      <3>2. tidy' \in BOOLEAN
        BY <2>2, Zenon DEF CreateFound
      <3>. QED BY <2>2, <3>1, <3>2 DEF CreateFound
    <2>3. CASE DeleteCategory(g)
      <3>1. groups' \in [Groups -> Nat]
        BY <2>3 DEF DeleteCategory
      <3>. QED BY <2>3, <3>1 DEF DeleteCategory
    <2>. QED BY <1>9, <2>1, <2>2, <2>3
  <1>10. ASSUME Purge PROVE ImTypeOK'
    <2>1. PICK gone \in SUBSET Stored :
            /\ stored' = [u \in EntryUrls |-> IF u \in gone THEN 0 ELSE stored[u]]
            /\ bouquet' = bouquet \ gone
      BY <1>10, PurgeEffect
    <2>2. stored' \in [EntryUrls -> Nat] /\ bouquet' \subseteq EntryUrls
      BY <2>1
    <2>. QED BY <1>10, <2>2, PurgeEffect
  <1>11. ASSUME UpdateBouquet PROVE ImTypeOK'
    BY <1>11 DEF UpdateBouquet
  <1>12. CASE UNCHANGED imVars
    BY <1>12 DEF imVars
  <1>. QED BY <1>1, <1>2, <1>3, <1>4, <1>5, <1>6, <1>7, <1>8, <1>9, <1>10, <1>11, <1>12 DEF ImNext

\* Only workers insert.
LEMMA HandsStep ==
  ASSUME ImTypeOK, HandsBusy, [ImNext]_imVars PROVE HandsBusy'
  <1>. USE DEF Progress, KeepsRest
  <1>1. /\ hand \in [ImportJobs -> [Hands -> SUBSET Entries]]
        /\ \A j \in ImportJobs :
             /\ \A w \in Hands : hand[j][w] # {} => w \in imp[j].workers
             /\ imp[j].workers \subseteq HandsOf
             /\ imp[j].workers # {} => imp[j].at = "items" \/ imp[j].status = "error"
             /\ imp[j].at = "over" <=> imp[j].status \in {"done", "cancelled", "error"}
             /\ imp[j].full => kind = "movies"
    BY DEF HandsBusy, ImTypeOK
  <1>2. ASSUME NEW j \in ImportJobs, UNCHANGED <<kind, hand>>,
               \A k \in ImportJobs \ {j} : imp'[k] = imp[k],
               imp'[j].full => imp[j].full \/ kind = "movies",
               imp'[j].workers \in {imp[j].workers, {}, HandsOf},
               imp'[j].workers # imp[j].workers => \A w \in Hands : hand[j][w] = {},
               imp'[j].workers # {} => imp'[j].at = "items" \/ imp'[j].status = "error",
               imp'[j].at = "over" <=> imp'[j].status \in {"done", "cancelled", "error"}
        PROVE HandsBusy'
    <2>1. HandsOf' = HandsOf
      BY <1>2 DEF HandsOf
    <2>2. ASSUME NEW k \in ImportJobs
          PROVE /\ \A w \in Hands : hand'[k][w] # {} => w \in imp'[k].workers
                /\ imp'[k].workers \subseteq HandsOf
                /\ imp'[k].workers # {} => imp'[k].at = "items" \/ imp'[k].status = "error"
                /\ imp'[k].at = "over" <=> imp'[k].status \in {"done", "cancelled", "error"}
                /\ imp'[k].full => kind' = "movies"
      <3>1. CASE k = j
        BY <1>1, <1>2, <3>1
      <3>2. CASE k # j
        BY <1>1, <1>2, <3>2
      <3>. QED BY <3>1, <3>2
    <2>. QED BY <2>1, <2>2 DEF HandsBusy
  <1>3. \A j \in ImportJobs : imp[j].at \notin {"items", "over"} => imp[j].workers = {}
    BY <1>1
  <1>4. ASSUME NEW j \in ImportJobs, StartImport(j) PROVE HandsBusy'
    BY <1>1, <1>2, <1>3, <1>4, StartImportEffect
  <1>5. ASSUME NEW j \in ImportJobs, ReadCategories(j) PROVE HandsBusy'
    BY <1>1, <1>2, <1>3, <1>5, ReadCategoriesEffect
  <1>6. ASSUME NEW j \in ImportJobs, NextCategory(j) PROVE HandsBusy'
    BY <1>1, <1>2, <1>3, <1>6, NextCategoryEffect
  <1>7. ASSUME NEW j \in ImportJobs, CategoriesDone(j) PROVE HandsBusy'
    BY <1>1, <1>2, <1>3, <1>7, CategoriesDoneEffect
  <1>8. ASSUME NEW j \in ImportJobs, Fetch(j) PROVE HandsBusy'
    BY <1>1, <1>2, <1>3, <1>8, FetchEffect
  <1>9. ASSUME NEW j \in ImportJobs, ItemsDone(j) PROVE HandsBusy'
    BY <1>1, <1>2, <1>9, ItemsDoneEffect
  <1>10. ASSUME NEW j \in ImportJobs, ImportFails(j) PROVE HandsBusy'
    BY <1>1, <1>2, <1>3, <1>10, ImportFailsEffect
  <1>11. ASSUME NEW j \in ImportJobs, CancelJob(j) PROVE HandsBusy'
    BY <1>1, <1>2, <1>11, CancelJobEffect
  <1>12. ASSUME NEW j \in ImportJobs, MergeRead(j) \/ MergeList(j) PROVE HandsBusy'
    BY <1>1, <1>2, <1>3, <1>12, MergeReadEffect, MergeListEffect
  <1>13. ASSUME NEW j \in ImportJobs, MergeWrite(j) PROVE HandsBusy'
    BY <1>1, <1>2, <1>3, <1>13, MergeWriteEffect
  <1>14. ASSUME NEW j \in ImportJobs, NEW w \in Hands, Take(j, w) PROVE HandsBusy'
    <2>1. HandsOf' = HandsOf /\ kind' = kind /\ w \in imp[j].workers
      BY <1>14 DEF HandsOf, Take
    <2>2. PICK e \in imp[j].items :
            /\ imp' = [imp EXCEPT ![j].items = @ \ {e}]
            /\ hand' = [hand EXCEPT ![j][w] = IF UrlOf[e] \in imp[j].existing THEN {} ELSE {e}]
      BY <1>14 DEF Take
    <2>3. /\ \A k \in ImportJobs \ {j} : hand'[k] = hand[k]
          /\ \A v \in Hands \ {w} : hand'[j][v] = hand[j][v]
      BY <2>2 DEF ImTypeOK
    <2>4. /\ \A k \in ImportJobs \ {j} : imp'[k] = imp[k]
          /\ imp'[j].workers = imp[j].workers /\ imp'[j].at = imp[j].at
          /\ imp'[j].status = imp[j].status /\ imp'[j].full = imp[j].full
      BY <2>2 DEF ImTypeOK, ImportType
    <2>5. ASSUME NEW k \in ImportJobs, NEW v \in Hands, hand'[k][v] # {}
          PROVE v \in imp'[k].workers
      <3>1. CASE k # j
        BY <1>1, <2>1, <2>3, <2>4, <2>5, <3>1
      <3>2. CASE k = j /\ v # w
        BY <1>1, <2>1, <2>3, <2>4, <2>5, <3>2
      <3>3. CASE k = j /\ v = w
        BY <2>1, <2>3, <2>4, <2>5, <3>3
      <3>. QED BY <3>1, <3>2, <3>3
    <2>6. ASSUME NEW k \in ImportJobs
          PROVE /\ imp'[k].workers \subseteq HandsOf'
                /\ imp'[k].workers # {} => imp'[k].at = "items" \/ imp'[k].status = "error"
                /\ imp'[k].at = "over" <=> imp'[k].status \in {"done", "cancelled", "error"}
                /\ imp'[k].full => kind' = "movies"
      <3>1. CASE k # j
        BY <1>1, <2>1, <2>3, <2>4, <3>1
      <3>2. CASE k = j
        BY <1>1, <2>1, <2>3, <2>4, <3>2
      <3>. QED BY <3>1, <3>2
    <2>. QED BY <2>5, <2>6 DEF HandsBusy
  <1>15. ASSUME NEW j \in ImportJobs, NEW w \in Hands, Insert(j, w) PROVE HandsBusy'
    <2>1. HandsOf' = HandsOf /\ kind' = kind
      BY <1>15, InsertEffect DEF HandsOf
    <2>2. /\ \A k \in ImportJobs \ {j} : hand'[k] = hand[k] /\ imp'[k] = imp[k]
          /\ \A v \in Hands \ {w} : hand'[j][v] = hand[j][v]
          /\ hand'[j][w] = {}
          /\ imp'[j].workers = imp[j].workers /\ imp'[j].at = imp[j].at
          /\ imp'[j].status = imp[j].status /\ imp'[j].full = imp[j].full
      BY <1>1, <1>15, InsertEffect
    <2>3. ASSUME NEW k \in ImportJobs, NEW v \in Hands, hand'[k][v] # {}
          PROVE v \in imp'[k].workers
      <3>1. CASE k # j
        BY <1>1, <2>1, <2>2, <2>3, <3>1
      <3>2. CASE k = j /\ v # w
        BY <1>1, <2>1, <2>2, <2>3, <3>2
      <3>3. CASE k = j /\ v = w
        BY <2>1, <2>2, <2>3, <3>3
      <3>. QED BY <3>1, <3>2, <3>3
    <2>4. ASSUME NEW k \in ImportJobs
          PROVE /\ imp'[k].workers \subseteq HandsOf'
                /\ imp'[k].workers # {} => imp'[k].at = "items" \/ imp'[k].status = "error"
                /\ imp'[k].at = "over" <=> imp'[k].status \in {"done", "cancelled", "error"}
                /\ imp'[k].full => kind' = "movies"
      <3>1. CASE k # j
        BY <1>1, <2>1, <2>2, <3>1
      <3>2. CASE k = j
        BY <1>1, <2>1, <2>2, <3>2
      <3>. QED BY <3>1, <3>2
    <2>. QED BY <2>3, <2>4 DEF HandsBusy
  <1>16. ASSUME NEW j \in ImportJobs, NEW w \in Hands, WorkerFails(j, w) PROVE HandsBusy'
    <2>1. HandsOf' = HandsOf /\ kind' = kind
      BY <1>16, WorkerFailsEffect DEF HandsOf
    <2>2. /\ \A k \in ImportJobs \ {j} : hand'[k] = hand[k] /\ imp'[k] = imp[k]
          /\ \A v \in Hands \ {w} : hand'[j][v] = hand[j][v]
          /\ hand'[j][w] = {}
          /\ imp'[j].workers = imp[j].workers \ {w} /\ imp'[j].at = "over"
          /\ imp'[j].status = "error" /\ ~imp'[j].full
      BY <1>1, <1>16, WorkerFailsEffect
    <2>3. ASSUME NEW k \in ImportJobs, NEW v \in Hands, hand'[k][v] # {}
          PROVE v \in imp'[k].workers
      <3>1. CASE k # j
        BY <1>1, <2>1, <2>2, <2>3, <3>1
      <3>2. CASE k = j /\ v # w
        BY <1>1, <2>1, <2>2, <2>3, <3>2
      <3>3. CASE k = j /\ v = w
        BY <2>1, <2>2, <2>3, <3>3
      <3>. QED BY <3>1, <3>2, <3>3
    <2>4. ASSUME NEW k \in ImportJobs
          PROVE /\ imp'[k].workers \subseteq HandsOf'
                /\ imp'[k].workers # {} => imp'[k].at = "items" \/ imp'[k].status = "error"
                /\ imp'[k].at = "over" <=> imp'[k].status \in {"done", "cancelled", "error"}
                /\ imp'[k].full => kind' = "movies"
      <3>1. CASE k # j
        BY <1>1, <2>1, <2>2, <3>1
      <3>2. CASE k = j
        BY <1>1, <2>1, <2>2, <3>2
      <3>. QED BY <3>1, <3>2
    <2>. QED BY <2>3, <2>4 DEF HandsBusy
  <1>17. ASSUME Purge PROVE HandsBusy'
    BY <1>1, <1>17, PurgeEffect DEF HandsBusy, HandsOf
  <1>18. ASSUME UNCHANGED <<kind, imp, hand>> PROVE HandsBusy'
    BY <1>1, <1>18 DEF HandsBusy, HandsOf
  <1>. QED BY <1>4, <1>5, <1>6, <1>7, <1>8, <1>9, <1>10, <1>11, <1>12, <1>13, <1>14, <1>15,
         <1>16, <1>17, <1>18
       DEF ImNext, FindCategory, CreateFound, DeleteCategory, UpdateBouquet, imVars

\* What a job counts as its own is stored.
LEMMA MineStep ==
  ASSUME ImTypeOK, HandsBusy, MineStored, [ImNext]_imVars PROVE MineStored'
  <1>. USE DEF Progress, KeepsRest
  <1>. DEFINE Own(k) == /\ imp[k].mine \subseteq Stored
                        /\ imp[k].full /\ imp[k].at \in {"reading", "categories", "fetching"}
                             => imp[k].mine = {}
                        /\ imp[k].at = "writing" => imp[k].mine \subseteq imp[k].saw
  <1>1. \A k \in ImportJobs : Own(k)
    BY DEF MineStored
  <1>2. ASSUME UNCHANGED stored, NEW j \in ImportJobs,
               \A k \in ImportJobs \ {j} : imp'[k] = imp[k],
               imp'[j].mine \in {imp[j].mine, {}},
               imp'[j].full /\ imp'[j].at \in {"reading", "categories", "fetching"}
                 => imp'[j].mine = {},
               imp'[j].at = "writing" => imp'[j].mine \subseteq imp'[j].saw
        PROVE MineStored'
    <2>1. Stored' = Stored
      BY <1>2 DEF Stored
    <2>2. ASSUME NEW k \in ImportJobs PROVE Own(k)'
      <3>1. CASE k = j
        BY <1>1, <1>2, <2>1, <3>1
      <3>2. CASE k # j
        BY <1>1, <1>2, <2>1, <2>2, <3>2
      <3>. QED BY <3>1, <3>2
    <2>. QED BY <2>2 DEF MineStored
  <1>3. ASSUME UNCHANGED <<stored, imp>> PROVE MineStored'
    BY <1>1, <1>3 DEF MineStored, Stored
  <1>4. ASSUME NEW j \in ImportJobs, StartImport(j) PROVE MineStored'
    BY <1>2, <1>4, StartImportEffect
  <1>5. ASSUME NEW j \in ImportJobs, ReadCategories(j) PROVE MineStored'
    BY <1>1, <1>2, <1>5, ReadCategoriesEffect
  <1>6. ASSUME NEW j \in ImportJobs, NextCategory(j) PROVE MineStored'
    BY <1>1, <1>2, <1>6, NextCategoryEffect
  <1>7. ASSUME NEW j \in ImportJobs, CategoriesDone(j) PROVE MineStored'
    BY <1>1, <1>2, <1>7, CategoriesDoneEffect
  <1>8. ASSUME NEW j \in ImportJobs, Fetch(j) PROVE MineStored'
    BY <1>1, <1>2, <1>8, FetchEffect
  <1>9. ASSUME NEW j \in ImportJobs, ItemsDone(j) PROVE MineStored'
    BY <1>1, <1>2, <1>9, ItemsDoneEffect
  <1>10. ASSUME NEW j \in ImportJobs, ImportFails(j) PROVE MineStored'
    BY <1>1, <1>2, <1>10, ImportFailsEffect
  <1>11. ASSUME NEW j \in ImportJobs, CancelJob(j) PROVE MineStored'
    <2>1. /\ \A k \in ImportJobs \ {j} : imp'[k] = imp[k]
          /\ imp'[j].at = imp[j].at /\ imp'[j].mine = imp[j].mine /\ imp'[j].saw = imp[j].saw
          /\ imp'[j].full = imp[j].full /\ UNCHANGED stored
      BY <1>11, CancelJobEffect
    <2>. QED BY <1>1, <1>2, <2>1
  <1>12. ASSUME NEW j \in ImportJobs, MergeRead(j) PROVE MineStored'
    BY <1>1, <1>2, <1>12, MergeReadEffect
  <1>13. ASSUME NEW j \in ImportJobs, MergeList(j) PROVE MineStored'
    BY <1>1, <1>2, <1>13, MergeListEffect
  <1>14. ASSUME NEW j \in ImportJobs, MergeWrite(j) PROVE MineStored'
    <2>1. /\ \A k \in ImportJobs \ {j} : imp'[k] = imp[k]
          /\ imp'[j].at = "over" /\ imp'[j].mine = imp[j].mine /\ UNCHANGED stored
      BY <1>14, MergeWriteEffect
    <2>. QED BY <1>2, <2>1
  <1>15. ASSUME NEW j \in ImportJobs, NEW w \in Hands, Take(j, w) PROVE MineStored'
    BY <1>1, <1>2, <1>15, TakeEffect
  <1>16. ASSUME NEW j \in ImportJobs, NEW w \in Hands, Insert(j, w) PROVE MineStored'
    <2>1. PICK e \in hand[j][w] :
            /\ stored' = [stored EXCEPT ![UrlOf[e]] = @ + 1] /\ UrlOf[e] \in EntryUrls
            /\ imp'[j].mine = imp[j].mine \cup {UrlOf[e]}
            /\ imp'[j].at = imp[j].at
            /\ \A k \in ImportJobs \ {j} : imp'[k] = imp[k]
      BY <1>16, InsertEffect
    <2>2. Stored' = Stored \cup {UrlOf[e]}
      BY <2>1 DEF Stored, ImTypeOK
    <2>3. imp[j].at = "items" \/ imp[j].status = "error"
      BY <2>1 DEF HandsBusy
    <2>4. imp[j].at \in {"items", "over"}
      BY <2>3 DEF HandsBusy
    <2>5. ASSUME NEW k \in ImportJobs PROVE Own(k)'
      <3>1. CASE k = j
        BY <1>1, <2>1, <2>2, <2>4, <3>1
      <3>2. CASE k # j
        BY <1>1, <2>1, <2>2, <2>5, <3>2
      <3>. QED BY <3>1, <3>2
    <2>. QED BY <2>5 DEF MineStored
  <1>17. ASSUME NEW j \in ImportJobs, NEW w \in Hands, WorkerFails(j, w) PROVE MineStored'
    BY <1>1, <1>2, <1>17, WorkerFailsEffect
  <1>18. ASSUME Purge PROVE MineStored'
    <2>1. PICK gone \in SUBSET Stored :
            /\ stored' = [u \in EntryUrls |-> IF u \in gone THEN 0 ELSE stored[u]]
            /\ \A j \in ImportJobs :
                 /\ imp'[j].at = imp[j].at /\ imp'[j].full = imp[j].full
                 /\ imp'[j].mine = imp[j].mine \ gone /\ imp'[j].saw = imp[j].saw \ gone
      BY <1>18, PurgeEffect
    <2>2. Stored' = Stored \ gone
      BY <2>1 DEF Stored, ImTypeOK
    <2>3. ASSUME NEW k \in ImportJobs PROVE Own(k)'
      BY <1>1, <2>1, <2>2
    <2>. QED BY <2>3 DEF MineStored
  <1>. QED BY <1>3, <1>4, <1>5, <1>6, <1>7, <1>8, <1>9, <1>10, <1>11, <1>12, <1>13, <1>14, <1>15,
         <1>16, <1>17, <1>18
       DEF ImNext, FindCategory, CreateFound, DeleteCategory, UpdateBouquet, imVars

\* What merges know.
LEMMA MergesStep ==
  ASSUME ImTypeOK, HandsBusy, MineStored, MergesKnow, [ImNext]_imVars PROVE MergesKnow'
  <1>. USE DEF Progress, KeepsRest, Merging
  <1>1. /\ quiet => \A j \in ImportJobs : Merging(j) => bouquet \subseteq imp[j].saw
        /\ quiet /\ kind = "movies" =>
             \A j \in ImportJobs : imp[j].status = "done" => imp[j].mine \subseteq bouquet
    BY DEF MergesKnow
  <1>2. ASSUME UNCHANGED <<kind, quiet, bouquet>>, NEW j \in ImportJobs,
               \A k \in ImportJobs \ {j} : imp'[k] = imp[k],
               imp'[j].at \in {"listing", "writing"} =>
                 bouquet \subseteq imp'[j].saw
                 \/ (Merging(j) /\ imp[j].saw \subseteq imp'[j].saw),
               imp'[j].status = "done" =>
                 imp'[j].mine = {} \/ (imp[j].status = "done" /\ imp'[j].mine = imp[j].mine)
        PROVE MergesKnow'
    <2>1. ASSUME NEW k \in ImportJobs, quiet, imp'[k].at \in {"listing", "writing"}
          PROVE bouquet \subseteq imp'[k].saw
      <3>1. CASE k = j
        BY <1>1, <1>2, <2>1, <3>1
      <3>2. CASE k # j
        BY <1>1, <1>2, <2>1, <3>2
      <3>. QED BY <3>1, <3>2
    <2>2. ASSUME NEW k \in ImportJobs, quiet, kind = "movies", imp'[k].status = "done"
          PROVE imp'[k].mine \subseteq bouquet
      <3>1. CASE k = j
        BY <1>1, <1>2, <2>2, <3>1
      <3>2. CASE k # j
        BY <1>1, <1>2, <2>2, <3>2
      <3>. QED BY <3>1, <3>2
    <2>. QED BY <1>2, <2>1, <2>2 DEF MergesKnow
  <1>3. ASSUME UNCHANGED <<kind, imp, quiet, bouquet>> PROVE MergesKnow'
    BY <1>1, <1>3 DEF MergesKnow
  <1>4. ASSUME NEW j \in ImportJobs, StartImport(j) PROVE MergesKnow'
    BY <1>2, <1>4, StartImportEffect
  <1>. DEFINE Over(j) == imp[j].status \in {"done", "cancelled", "error"}
  <1>5. \A j \in ImportJobs : imp[j].at = "over" <=> Over(j)
    BY DEF HandsBusy
  <1>6. ASSUME NEW j \in ImportJobs, ReadCategories(j) PROVE MergesKnow'
    BY <1>2, <1>5, <1>6, ReadCategoriesEffect
  <1>7. ASSUME NEW j \in ImportJobs, NextCategory(j) PROVE MergesKnow'
    BY <1>2, <1>5, <1>7, NextCategoryEffect
  <1>8. ASSUME NEW j \in ImportJobs, CategoriesDone(j) PROVE MergesKnow'
    BY <1>2, <1>5, <1>8, CategoriesDoneEffect
  <1>9. ASSUME NEW j \in ImportJobs, Fetch(j) PROVE MergesKnow'
    <2>1. imp[j].full => imp[j].mine = {}
      BY <1>9, FetchEffect DEF MineStored
    <2>. QED BY <1>2, <1>5, <1>9, <2>1, FetchEffect
  <1>10. ASSUME NEW j \in ImportJobs, ItemsDone(j) PROVE MergesKnow'
    <2>1. imp'[j].at \notin {"listing", "writing"} /\ imp'[j].status # "done"
      BY <1>5, <1>10, ItemsDoneEffect
    <2>. QED BY <1>2, <1>10, <2>1, ItemsDoneEffect
  <1>11. ASSUME NEW j \in ImportJobs, ImportFails(j) PROVE MergesKnow'
    BY <1>2, <1>11, ImportFailsEffect
  <1>12. ASSUME NEW j \in ImportJobs, CancelJob(j) PROVE MergesKnow'
    BY <1>2, <1>12, CancelJobEffect
  <1>13. ASSUME NEW j \in ImportJobs, MergeRead(j) PROVE MergesKnow'
    BY <1>2, <1>5, <1>13, MergeReadEffect
  <1>14. ASSUME NEW j \in ImportJobs, MergeList(j) PROVE MergesKnow'
    BY <1>2, <1>5, <1>14, MergeListEffect
  <1>15. ASSUME NEW j \in ImportJobs, MergeWrite(j) PROVE MergesKnow'
    <2>1. PICK s \in {"done", "cancelled"} : Progress(j, "over", s, {}, {}, {}, imp[j].mine, {})
      BY <1>15, MergeWriteEffect
    <2>2. /\ imp[j].at = "writing" /\ kind' = kind
          /\ quiet' => quiet /\ \A k \in ImportJobs \ {j} : ~Merging(k)
          /\ kind # "channels" => bouquet' = imp[j].saw
      BY <1>15, MergeWriteEffect
    <2>3. ASSUME NEW k \in ImportJobs, quiet' PROVE imp'[k].at \notin {"listing", "writing"}
      BY <2>1, <2>2, <2>3
    <2>4. ASSUME NEW k \in ImportJobs, quiet', kind = "movies", imp'[k].status = "done"
          PROVE imp'[k].mine \subseteq bouquet'
      <3>1. /\ bouquet' = imp[j].saw /\ bouquet \subseteq imp[j].saw
            /\ imp[j].mine \subseteq imp[j].saw
        BY <1>1, <2>2, <2>4 DEF MineStored
      <3>2. CASE k = j
        BY <2>1, <3>1, <3>2
      <3>3. CASE k # j
        BY <1>1, <2>1, <2>2, <2>4, <3>1, <3>3
      <3>. QED BY <3>2, <3>3
    <2>. QED BY <2>2, <2>3, <2>4 DEF MergesKnow
  <1>16. ASSUME NEW j \in ImportJobs, NEW w \in Hands, Take(j, w) PROVE MergesKnow'
    BY <1>2, <1>16, TakeEffect
  <1>17. ASSUME NEW j \in ImportJobs, NEW w \in Hands, Insert(j, w) PROVE MergesKnow'
    <2>1. imp[j].at = "items" \/ imp[j].status = "error"
      BY <1>17, InsertEffect DEF HandsBusy
    <2>2. imp[j].status # "done" /\ ~Merging(j)
      BY <1>5, <2>1
    <2>. QED BY <1>2, <1>17, <2>2, InsertEffect
  <1>18. ASSUME NEW j \in ImportJobs, NEW w \in Hands, WorkerFails(j, w) PROVE MergesKnow'
    BY <1>2, <1>18, WorkerFailsEffect
  <1>19. ASSUME Purge PROVE MergesKnow'
    <2>1. UNCHANGED <<kind, quiet>>
      BY <1>19 DEF Purge
    <2>2. PICK gone :
            /\ bouquet' = bouquet \ gone
            /\ imp' = [j \in ImportJobs |-> [imp[j] EXCEPT !.mine = @ \ gone, !.saw = @ \ gone]]
      BY <1>19 DEF Purge
    <2>3. \A j \in ImportJobs :
            /\ imp'[j].at = imp[j].at /\ imp'[j].status = imp[j].status
            /\ imp'[j].mine = imp[j].mine \ gone /\ imp'[j].saw = imp[j].saw \ gone
      BY <2>2 DEF ImTypeOK, ImportType
    <2>. QED BY <1>1, <2>1, <2>2, <2>3 DEF MergesKnow
  <1>20. ASSUME UpdateBouquet PROVE MergesKnow'
    BY <1>20 DEF UpdateBouquet, MergesKnow
  <1>. QED BY <1>3, <1>4, <1>6, <1>7, <1>8, <1>9, <1>10, <1>11, <1>12, <1>13, <1>14, <1>15,
         <1>16, <1>17, <1>18, <1>19, <1>20
       DEF ImNext, FindCategory, CreateFound, DeleteCategory, imVars

\* The categories that exist.
Positive == {g \in Groups : groups[g] > 0}

\* While one job is under way alone, it is enough to look at that job.
LEMMA OneJobMoves ==
  ASSUME ImTypeOK, SetsComplete, tidy, NEW j \in ImportJobs, Under(j),
         \A k \in ImportJobs \ {j} : imp'[k] = imp[k] /\ hand'[k] = hand[k],
         LooksUpRows(j)' => Stored' \subseteq imp'[j].existing,
         LooksUpGroups(j)' => Positive' \subseteq imp'[j].known
  PROVE SetsComplete'
  <1>1. \A k \in ImportJobs \ {j} : ~Under(k)
    BY DEF SetsComplete
  <1>2. \A k \in ImportJobs \ {j} : ~Under(k)'
    BY <1>1 DEF Under
  <1>3. \A k \in ImportJobs : LooksUpRows(k)' \/ LooksUpGroups(k)' => Under(k)'
    BY DEF LooksUpRows, LooksUpGroups, Working, Under
  <1>. QED BY <1>2, <1>3 DEF SetsComplete, Positive

\* No job looks up rows or categories in a set that lacks one.
LEMMA SetsStep ==
  ASSUME ImTypeOK, HandsBusy, SetsComplete, [ImNext]_imVars PROVE SetsComplete'
  <1>. USE DEF Progress, KeepsRest
  <1>1. \A j \in ImportJobs :
          /\ imp[j].at \notin {"items", "over"} => imp[j].workers = {}
          /\ \A w \in Hands : hand[j][w] # {} => w \in imp[j].workers
          /\ imp[j].full => kind = "movies"
    BY DEF HandsBusy
  <1>2. tidy => \A j \in ImportJobs :
                  /\ LooksUpRows(j) => Stored \subseteq imp[j].existing
                  /\ LooksUpGroups(j) => Positive \subseteq imp[j].known
    BY DEF SetsComplete, Positive
  <1>3. \A j \in ImportJobs : imp[j].at \notin {"none", "over"} => Under(j)
    BY DEF Under
  <1>. SUFFICES ASSUME tidy' PROVE SetsComplete'
    BY DEF SetsComplete
  <1>4. ASSUME NEW j \in ImportJobs, StartImport(j) PROVE SetsComplete'
    <2>1. /\ \A k \in ImportJobs \ {j} : imp'[k] = imp[k] /\ hand'[k] = hand[k]
          /\ \A k \in ImportJobs : ~Under(k)
          /\ imp'[j].at = "reading" /\ imp'[j].workers = {}
      BY <1>4, StartImportEffect
    <2>2. \A k \in ImportJobs \ {j} : ~Under(k)'
      BY <2>1 DEF Under
    <2>3. \A k \in ImportJobs \ {j} : ~LooksUpRows(k)' /\ ~LooksUpGroups(k)'
      BY <2>2 DEF LooksUpRows, LooksUpGroups, Working, Under
    <2>4. ~LooksUpRows(j)' /\ ~LooksUpGroups(j)'
      BY <2>1 DEF LooksUpRows, LooksUpGroups, Working
    <2>. QED BY <2>2, <2>3, <2>4 DEF SetsComplete
  <1>5. ASSUME NEW j \in ImportJobs, ReadCategories(j) PROVE SetsComplete'
    <2>1. /\ \A k \in ImportJobs \ {j} : imp'[k] = imp[k] /\ hand'[k] = hand[k]
          /\ Under(j) /\ tidy /\ Stored' = Stored /\ Positive' = Positive
          /\ imp'[j].at = "categories" /\ imp'[j].workers = {} /\ kind' = kind
          /\ imp'[j].known = Positive
          /\ kind = "channels" => imp'[j].existing = Stored
      BY <1>1, <1>3, <1>5, ReadCategoriesEffect DEF Stored, Positive
    <2>. QED BY <2>1, OneJobMoves DEF LooksUpRows, Working
  <1>6. ASSUME NEW j \in ImportJobs, NextCategory(j) PROVE SetsComplete'
    <2>1. /\ \A k \in ImportJobs \ {j} : imp'[k] = imp[k] /\ hand'[k] = hand[k]
          /\ Under(j) /\ tidy /\ Stored' = Stored /\ kind' = kind
          /\ imp'[j].at \in {"categories", "fetching"} /\ imp'[j].workers = {}
          /\ imp'[j].existing = imp[j].existing /\ imp[j].at = "categories"
      BY <1>1, <1>3, <1>6, NextCategoryEffect DEF Stored
    <2>2. Positive \subseteq imp[j].known
      BY <1>2, <2>1 DEF LooksUpGroups
    <2>3. Positive' \subseteq imp'[j].known
      <3>1. CASE groups' = groups /\ imp'[j].known = imp[j].known
        BY <2>2, <3>1 DEF Positive
      <3>2. CASE \E g \in Groups :
                   /\ imp'[j].known = imp[j].known \cup {g}
                   /\ groups' = [groups EXCEPT ![g] = IF g \in imp[j].known THEN @ ELSE @ + 1]
        BY <2>2, <3>2 DEF Positive, ImTypeOK
      <3>. QED BY <1>6, <3>1, <3>2, NextCategoryEffect
    <2>4. LooksUpRows(j)' => Stored' \subseteq imp'[j].existing
      BY <1>2, <2>1 DEF LooksUpRows, Working
    <2>. QED BY <2>1, <2>3, <2>4, OneJobMoves
  <1>7. ASSUME NEW j \in ImportJobs, CategoriesDone(j) PROVE SetsComplete'
    <2>1. /\ \A k \in ImportJobs \ {j} : imp'[k] = imp[k] /\ hand'[k] = hand[k]
          /\ Under(j) /\ tidy /\ kind' = kind /\ imp'[j].full = imp[j].full
          /\ imp'[j].at = (IF imp[j].full THEN "fetching" ELSE "merging")
          /\ imp'[j].workers = {}
      BY <1>1, <1>3, <1>7, CategoriesDoneEffect
    <2>2. ~LooksUpRows(j)' /\ ~LooksUpGroups(j)'
      BY <1>1, <2>1 DEF LooksUpRows, LooksUpGroups, Working
    <2>. QED BY <2>1, <2>2, OneJobMoves
  <1>8. ASSUME NEW j \in ImportJobs, Fetch(j) PROVE SetsComplete'
    <2>1. /\ \A k \in ImportJobs \ {j} : imp'[k] = imp[k] /\ hand'[k] = hand[k]
          /\ Under(j) /\ tidy /\ kind' = kind /\ Stored' = Stored /\ Positive' = Positive
          /\ imp[j].at = "fetching" /\ imp[j].workers = {}
      BY <1>1, <1>3, <1>8, FetchEffect DEF Stored, Positive
    <2>2. CASE imp'[j].at = "over" /\ imp'[j].workers = {}
      <3>1. ~LooksUpRows(j)' /\ ~LooksUpGroups(j)'
        BY <2>2 DEF LooksUpRows, LooksUpGroups, Working
      <3>. QED BY <2>1, <3>1, OneJobMoves
    <2>3. CASE /\ imp'[j].at \in {"items", "categories"} /\ imp'[j].full = imp[j].full
               /\ imp'[j].known = imp[j].known
               /\ imp'[j].at = "categories" => imp'[j].workers = {} /\ ~imp[j].full
               /\ \/ imp'[j].existing = imp[j].existing
                     /\ (kind = "channels" \/ imp'[j].at = "categories")
                  \/ imp'[j].existing = Stored
      <3>1. LooksUpRows(j)' => Stored' \subseteq imp'[j].existing
        BY <1>2, <2>1, <2>3 DEF LooksUpRows, Working
      <3>2. LooksUpGroups(j)' => Positive' \subseteq imp'[j].known
        BY <1>2, <2>1, <2>3 DEF LooksUpGroups
      <3>. QED BY <2>1, <3>1, <3>2, OneJobMoves
    <2>. QED BY <1>8, <2>1, <2>2, <2>3, FetchEffect
  <1>9. ASSUME NEW j \in ImportJobs, ItemsDone(j) PROVE SetsComplete'
    <2>1. /\ \A k \in ImportJobs \ {j} : imp'[k] = imp[k] /\ hand'[k] = hand[k]
          /\ Under(j) /\ tidy /\ kind' = kind /\ Stored' = Stored /\ Positive' = Positive
          /\ imp[j].at = "items" /\ imp'[j].workers = {} /\ imp'[j].known = imp[j].known
          /\ imp'[j].at = (IF imp[j].full THEN "merging" ELSE "categories")
          /\ kind = "channels" => imp'[j].existing = imp[j].existing
      BY <1>3, <1>9, ItemsDoneEffect DEF Stored, Positive
    <2>2. LooksUpRows(j)' => Stored' \subseteq imp'[j].existing
      BY <1>2, <2>1 DEF LooksUpRows, Working
    <2>3. LooksUpGroups(j)' => Positive' \subseteq imp'[j].known
      BY <1>2, <2>1 DEF LooksUpGroups
    <2>. QED BY <2>1, <2>2, <2>3, OneJobMoves
  <1>10. ASSUME NEW j \in ImportJobs, ImportFails(j) \/ MergeWrite(j) PROVE SetsComplete'
    <2>1. /\ \A k \in ImportJobs \ {j} : imp'[k] = imp[k] /\ hand'[k] = hand[k]
          /\ Under(j) /\ tidy /\ imp'[j].workers = {} /\ imp'[j].at = "over"
      BY <1>3, <1>10, ImportFailsEffect, MergeWriteEffect
    <2>2. ~LooksUpRows(j)' /\ ~LooksUpGroups(j)'
      BY <2>1 DEF LooksUpRows, LooksUpGroups, Working
    <2>. QED BY <2>1, <2>2, OneJobMoves
  <1>11. ASSUME NEW j \in ImportJobs, MergeRead(j) \/ MergeList(j) PROVE SetsComplete'
    <2>1. /\ \A k \in ImportJobs \ {j} : imp'[k] = imp[k] /\ hand'[k] = hand[k]
          /\ Under(j) /\ tidy /\ imp'[j].workers = {} /\ imp'[j].at \in {"listing", "writing"}
      BY <1>1, <1>3, <1>11, MergeReadEffect, MergeListEffect
    <2>2. ~LooksUpRows(j)' /\ ~LooksUpGroups(j)'
      BY <2>1 DEF LooksUpRows, LooksUpGroups, Working
    <2>. QED BY <2>1, <2>2, OneJobMoves
  <1>12. ASSUME NEW j \in ImportJobs, CancelJob(j) PROVE SetsComplete'
    <2>1. /\ \A k \in ImportJobs \ {j} : imp'[k] = imp[k] /\ hand'[k] = hand[k]
          /\ Under(j) /\ tidy /\ kind' = kind /\ Stored' = Stored /\ Positive' = Positive
          /\ imp'[j].at = imp[j].at /\ imp'[j].workers = imp[j].workers
          /\ imp'[j].known = imp[j].known /\ imp'[j].existing = imp[j].existing
          /\ imp'[j].full = imp[j].full
      BY <1>12, CancelJobEffect DEF Stored, Positive
    <2>2. LooksUpRows(j)' => Stored' \subseteq imp'[j].existing
      BY <1>2, <2>1 DEF LooksUpRows, Working
    <2>3. LooksUpGroups(j)' => Positive' \subseteq imp'[j].known
      BY <1>2, <2>1 DEF LooksUpGroups
    <2>. QED BY <2>1, <2>2, <2>3, OneJobMoves
  <1>13. ASSUME NEW j \in ImportJobs, NEW w \in Hands, Take(j, w) PROVE SetsComplete'
    <2>1. /\ \A k \in ImportJobs \ {j} : imp'[k] = imp[k] /\ hand'[k] = hand[k]
          /\ Under(j) /\ tidy /\ kind' = kind /\ Stored' = Stored /\ Positive' = Positive
          /\ imp'[j].at = imp[j].at /\ imp[j].workers # {}
          /\ imp'[j].known = imp[j].known /\ imp'[j].existing = imp[j].existing
          /\ imp'[j].full = imp[j].full
      <3>1. PICK e \in imp[j].items :
              hand' = [hand EXCEPT ![j][w] = IF UrlOf[e] \in imp[j].existing THEN {} ELSE {e}]
        BY <1>13 DEF Take
      <3>2. \A k \in ImportJobs \ {j} : hand'[k] = hand[k]
        BY <3>1 DEF ImTypeOK
      <3>3. /\ \A k \in ImportJobs \ {j} : imp'[k] = imp[k]
            /\ imp'[j].at = imp[j].at /\ imp'[j].existing = imp[j].existing
        BY <1>13, TakeEffect
      <3>4. Stored' = Stored /\ Positive' = Positive /\ tidy /\ kind' = kind
            /\ imp[j].workers # {} /\ ~imp[j].cancelled
            /\ imp'[j].known = imp[j].known /\ imp'[j].full = imp[j].full
        BY <1>13, TakeEffect DEF Stored, Positive
      <3>5. Under(j)
        BY <3>1, <3>4 DEF Under
      <3>. QED BY <3>2, <3>4, <3>5, <3>3
    <2>2. LooksUpRows(j)' => Stored' \subseteq imp'[j].existing
      BY <1>2, <2>1 DEF LooksUpRows, Working
    <2>3. LooksUpGroups(j)' => Positive' \subseteq imp'[j].known
      BY <1>2, <2>1 DEF LooksUpGroups
    <2>. QED BY <2>1, <2>2, <2>3, OneJobMoves
  <1>14. ASSUME NEW j \in ImportJobs, NEW w \in Hands, Insert(j, w) PROVE SetsComplete'
    <2>1. PICK u \in EntryUrls :
            /\ stored' = [stored EXCEPT ![u] = @ + 1]
            /\ imp'[j].existing = imp[j].existing \cup {u}
      BY <1>14, InsertEffect
    <2>2. /\ \A k \in ImportJobs \ {j} : imp'[k] = imp[k] /\ hand'[k] = hand[k]
          /\ tidy /\ kind' = kind /\ Positive' = Positive /\ hand[j][w] # {}
          /\ imp'[j].at = imp[j].at /\ imp[j].workers # {}
          /\ imp'[j].known = imp[j].known /\ imp'[j].full = imp[j].full
      <3>1. \A k \in ImportJobs \ {j} : hand'[k] = hand[k]
        <4>1. hand' = [hand EXCEPT ![j][w] = {}]
          BY <1>14, InsertEffect
        <4>. QED BY <4>1 DEF ImTypeOK
      <3>2. /\ hand[j][w] # {} /\ imp'[j].at = imp[j].at
            /\ \A k \in ImportJobs \ {j} : imp'[k] = imp[k]
        BY <1>14, InsertEffect
      <3>. QED BY <1>1, <1>14, <3>1, <3>2, InsertEffect DEF Positive
    <2>3. Under(j)
      BY <2>2 DEF Under
    <2>4. Stored' = Stored \cup {u}
      BY <2>1 DEF Stored, ImTypeOK
    <2>5. Stored' \subseteq imp'[j].existing
      BY <1>2, <2>1, <2>2, <2>3, <2>4 DEF LooksUpRows, Working
    <2>6. LooksUpGroups(j)' => Positive' \subseteq imp'[j].known
      BY <1>2, <2>2 DEF LooksUpGroups
    <2>. QED BY <2>2, <2>3, <2>5, <2>6, OneJobMoves
  <1>15. ASSUME NEW j \in ImportJobs, NEW w \in Hands, WorkerFails(j, w) PROVE SetsComplete'
    <2>1. /\ \A k \in ImportJobs \ {j} : imp'[k] = imp[k] /\ hand'[k] = hand[k]
          /\ tidy /\ Stored' = Stored /\ imp'[j].at = "over"
          /\ imp[j].workers # {} /\ (imp[j].at = "items" \/ hand[j][w] # {})
          /\ imp'[j].workers # {} => imp'[j].existing = imp[j].existing
      <3>1. \A k \in ImportJobs \ {j} : hand'[k] = hand[k]
        <4>1. hand' = [hand EXCEPT ![j][w] = {}]
          BY <1>15, WorkerFailsEffect
        <4>. QED BY <4>1 DEF ImTypeOK
      <3>2. /\ \A k \in ImportJobs \ {j} : imp'[k] = imp[k]
            /\ imp'[j].at = "over" /\ imp'[j].workers = imp[j].workers \ {w}
            /\ imp'[j].workers # {} => imp'[j].existing = imp[j].existing
        BY <1>15, WorkerFailsEffect
      <3>. QED BY <1>15, <3>1, <3>2, WorkerFailsEffect DEF Stored
    <2>2. Under(j)
      BY <2>1 DEF Under
    <2>3. LooksUpRows(j)' => Stored' \subseteq imp'[j].existing
      BY <1>2, <2>1, <2>2 DEF LooksUpRows, Working
    <2>4. ~LooksUpGroups(j)'
      BY <2>1 DEF LooksUpGroups
    <2>. QED BY <2>1, <2>2, <2>3, <2>4, OneJobMoves
  <1>16. ASSUME tidy, UNCHANGED <<kind, hand>>, Stored' \subseteq Stored,
                Positive' \subseteq Positive,
                \A j \in ImportJobs :
                  /\ imp'[j].at = imp[j].at /\ imp'[j].existing = imp[j].existing
                  /\ imp'[j].items = imp[j].items /\ imp'[j].workers = imp[j].workers
                  /\ imp'[j].known = imp[j].known /\ imp'[j].full = imp[j].full
                  /\ imp'[j].cancelled = imp[j].cancelled
         PROVE SetsComplete'
    <2>1. \A j \in ImportJobs : Under(j)' => Under(j)
      BY <1>16 DEF Under
    <2>2. \A j \in ImportJobs : LooksUpRows(j)' => LooksUpRows(j)
      BY <1>16, <2>1 DEF LooksUpRows, Working
    <2>3. \A j \in ImportJobs : LooksUpGroups(j)' => LooksUpGroups(j)
      BY <1>16 DEF LooksUpGroups
    <2>4. \A j, k \in ImportJobs : Under(j) /\ Under(k) => j = k
      BY <1>16 DEF SetsComplete
    <2>5. \A j, k \in ImportJobs : Under(j)' /\ Under(k)' => j = k
      BY <2>1, <2>4
    <2>6. \A j \in ImportJobs :
            /\ LooksUpRows(j)' => Stored' \subseteq imp'[j].existing
            /\ LooksUpGroups(j)' => Positive' \subseteq imp'[j].known
      BY <1>2, <1>16, <2>2, <2>3
    <2>. QED BY <2>5, <2>6 DEF SetsComplete, Positive
  <1>17. ASSUME Purge PROVE SetsComplete'
    <2>1. Stored' \subseteq Stored
      BY <1>17, PurgeEffect DEF Stored, ImTypeOK
    <2>2. Positive' = Positive
      BY <1>17, PurgeEffect DEF Positive
    <2>. QED BY <1>16, <1>17, <2>1, <2>2, PurgeEffect
  <1>18. ASSUME NEW g \in Groups, CreateFound(g) PROVE SetsComplete'
    <2>1. (\A j \in ImportJobs : ~Under(j)) /\ UNCHANGED <<imp, hand, kind>>
      BY <1>18 DEF CreateFound
    <2>2. \A j \in ImportJobs : ~Under(j)'
      BY <2>1 DEF Under
    <2>3. \A k \in ImportJobs : LooksUpRows(k)' \/ LooksUpGroups(k)' => Under(k)'
      BY DEF LooksUpRows, LooksUpGroups, Working, Under
    <2>. QED BY <2>2, <2>3 DEF SetsComplete
  <1>19. ASSUME NEW g \in Groups, FindCategory(g) \/ DeleteCategory(g) PROVE SetsComplete'
    <2>1. UNCHANGED <<kind, hand, imp, stored, tidy>> /\ Positive' \subseteq Positive
      BY <1>19 DEF FindCategory, DeleteCategory, Positive, ImTypeOK
    <2>. QED BY <1>16, <2>1 DEF Stored
  <1>20. ASSUME UpdateBouquet \/ UNCHANGED imVars PROVE SetsComplete'
    BY <1>16, <1>20 DEF UpdateBouquet, imVars, Stored, Positive
  <1>. QED BY <1>4, <1>5, <1>6, <1>7, <1>8, <1>9, <1>10, <1>11, <1>12, <1>13, <1>14, <1>15,
         <1>17, <1>18, <1>19, <1>20 DEF ImNext

\* The workers are finitely many.
LEMMA HandsFinite == IsFiniteSet(HandsOf) /\ Cardinality(HandsOf) \in Nat
  <1>1. IsFiniteSet(1..Workers)
    BY FS_Interval
  <1>2. IsFiniteSet({1})
    BY FS_Singleton
  <1>3. IsFiniteSet(HandsOf)
    BY <1>1, <1>2 DEF HandsOf, Hands
  <1>. QED BY <1>3, FS_CardinalityType

\* Who holds an entry is a worker, so a subset counts less.
LEMMA HoldingCount ==
  ASSUME ImTypeOK, HandsBusy, NEW j \in ImportJobs, NEW u
  PROVE IsFiniteSet(Holding(j, u)) /\ Cardinality(Holding(j, u)) \in Nat
        /\ Cardinality(Holding(j, u)) <= Cardinality(HandsOf)
  <1>. DEFINE H == Holding(j, u)
  <1>1. H \in SUBSET HandsOf
    BY DEF HandsBusy, Holding
  <1>. HIDE DEF H
  <1>2. IsFiniteSet(H) /\ Cardinality(H) <= Cardinality(HandsOf)
    BY <1>1, HandsFinite, FS_Subset
  <1>. QED BY <1>2, FS_CardinalityType DEF H

\* Fewer hold an entry than before: no more rows than there was room for.
LEMMA FewerHold ==
  ASSUME NEW S, NEW T \in SUBSET S, IsFiniteSet(S)
  PROVE Cardinality(T) <= Cardinality(S) /\ Cardinality(T) \in Nat /\ Cardinality(S) \in Nat
  BY FS_Subset, FS_CardinalityType

\* No step stores more rows of a URL than there are workers, nor a category twice.
LEMMA RoomStep ==
  ASSUME ImTypeOK, HandsBusy, SetsComplete, RoomLeft, [ImNext]_imVars, ImTypeOK', HandsBusy'
  PROVE RoomLeft'
  <1>. USE DEF Progress, KeepsRest
  <1>. SUFFICES ASSUME tidy' PROVE RoomLeft'
    BY DEF RoomLeft
  <1>. DEFINE Limit == Cardinality(HandsOf)
              Room(u) == /\ stored[u] <= Limit
                         /\ \A j \in ImportJobs : stored[u] + Cardinality(Holding(j, u)) <= Limit
  <1>1. /\ tidy => (\A u \in EntryUrls : Room(u)) /\ \A g \in Groups : groups[g] <= 1
        /\ Limit \in Nat /\ stored \in [EntryUrls -> Nat] /\ groups \in [Groups -> Nat]
        /\ hand \in [ImportJobs -> [Hands -> SUBSET Entries]]
        /\ \A j \in ImportJobs, u \in EntryUrls :
             /\ IsFiniteSet(Holding(j, u)) /\ Cardinality(Holding(j, u)) \in Nat
             /\ Cardinality(Holding(j, u)) <= Limit
    BY HandsFinite, HoldingCount DEF RoomLeft, ImTypeOK
  <1>2. /\ tidy => \A j, k \in ImportJobs : Under(j) /\ Under(k) => j = k
        /\ tidy => \A j \in ImportJobs :
                     /\ LooksUpRows(j) => Stored \subseteq imp[j].existing
                     /\ LooksUpGroups(j) => {g \in Groups : groups[g] > 0} \subseteq imp[j].known
    BY DEF SetsComplete
  <1>3. ASSUME UNCHANGED <<kind, hand>>, tidy,
               \A u \in EntryUrls : stored'[u] = stored[u] \/ stored'[u] = 0,
               \A g \in Groups : groups'[g] <= 1
        PROVE RoomLeft'
    <2>1. Limit' = Limit
      BY <1>3 DEF HandsOf
    <2>2. \A j \in ImportJobs, u \in EntryUrls : Holding(j, u)' = Holding(j, u)
      BY <1>3 DEF Holding
    <2>3. ASSUME NEW u \in EntryUrls
          PROVE /\ stored'[u] <= Limit
                /\ \A j \in ImportJobs : stored'[u] + Cardinality(Holding(j, u)) <= Limit
      BY <1>1, <1>3, <2>3
    <2>. HIDE DEF Limit
    <2>4. \A u \in EntryUrls :
            /\ stored'[u] <= Limit'
            /\ \A j \in ImportJobs : stored'[u] + Cardinality(Holding(j, u)') <= Limit'
      BY <2>1, <2>2, <2>3
    <2>. QED BY <1>3, <2>4 DEF RoomLeft, Limit
  <1>4. ASSUME NEW j \in ImportJobs,
               \/ StartImport(j) \/ ReadCategories(j) \/ CategoriesDone(j) \/ Fetch(j)
               \/ ItemsDone(j) \/ ImportFails(j) \/ CancelJob(j)
               \/ MergeRead(j) \/ MergeList(j) \/ MergeWrite(j)
        PROVE RoomLeft'
    <2>1. UNCHANGED <<kind, hand, stored, groups>> /\ tidy
      BY <1>4 DEF StartImport, ReadCategories, CategoriesDone, Fetch, ItemsDone, ImportFails,
         CancelJob, MergeRead, MergeList, MergeWrite, tables
    <2>. QED BY <1>1, <1>3, <2>1, SMTT(30)
  <1>5. ASSUME NEW j \in ImportJobs, NextCategory(j) PROVE RoomLeft'
    <2>1. /\ imp[j].at = "categories" /\ tidy /\ UNCHANGED <<kind, hand, stored>>
          /\ \/ groups' = groups
             \/ \E g \in Groups :
                  groups' = [groups EXCEPT ![g] = IF g \in imp[j].known THEN @ ELSE @ + 1]
      BY <1>5, NextCategoryEffect
    <2>2. \A g \in Groups \ imp[j].known : groups[g] = 0
      BY <1>1, <1>2, <2>1 DEF LooksUpGroups
    <2>3. \A g \in Groups : groups'[g] <= 1
      BY <1>1, <2>1, <2>2
    <2>. QED BY <1>3, <2>1, <2>3
  <1>6. ASSUME Purge PROVE RoomLeft'
    <2>1. \A u \in EntryUrls : stored'[u] = stored[u] \/ stored'[u] = 0
      BY <1>6, PurgeEffect
    <2>. QED BY <1>1, <1>3, <1>6, <2>1, PurgeEffect
  <1>7. ASSUME NEW g \in Groups, FindCategory(g) \/ CreateFound(g) \/ DeleteCategory(g)
        PROVE RoomLeft'
    <2>1. UNCHANGED <<kind, hand, stored>> /\ tidy
      BY <1>7 DEF FindCategory, CreateFound, DeleteCategory
    <2>2. \A h \in Groups : groups'[h] <= 1
      <3>1. CASE FindCategory(g)
        BY <1>1, <2>1, <3>1 DEF FindCategory
      <3>2. CASE CreateFound(g)
        <4>1. groups[g] = 0 /\ groups' = [groups EXCEPT ![g] = @ + 1]
          BY <3>2 DEF CreateFound
        <4>. QED BY <1>1, <2>1, <4>1
      <3>3. CASE DeleteCategory(g)
        BY <1>1, <2>1, <3>3 DEF DeleteCategory
      <3>. QED BY <1>7, <3>1, <3>2, <3>3
    <2>. QED BY <1>3, <2>1, <2>2
  <1>8. ASSUME UpdateBouquet \/ UNCHANGED imVars PROVE RoomLeft'
    BY <1>1, <1>3, <1>8 DEF UpdateBouquet, imVars
  <1>9. ASSUME NEW j \in ImportJobs, tidy, UNCHANGED <<kind, groups>>,
               \A k \in ImportJobs \ {j} : hand'[k] = hand[k],
               Under(j),
               \A u \in EntryUrls : stored'[u] \in Nat /\ stored'[u] <= Limit,
               \A u \in EntryUrls : stored'[u] + Cardinality(Holding(j, u)') <= Limit
        PROVE RoomLeft'
    <2>1. Limit' = Limit
      BY <1>9 DEF HandsOf
    <2>2. ASSUME NEW k \in ImportJobs \ {j}, NEW u \in EntryUrls
          PROVE Cardinality(Holding(k, u)') = 0
      <3>1. \A w \in Hands : hand[k][w] = {}
        BY <1>2, <1>9 DEF Under
      <3>2. Holding(k, u)' = {}
        BY <1>9, <2>2, <3>1 DEF Holding
      <3>. QED BY <3>2, FS_EmptySet
    <2>. HIDE DEF Limit
    <2>3. ASSUME NEW u \in EntryUrls, NEW k \in ImportJobs
          PROVE stored'[u] + Cardinality(Holding(k, u)') <= Limit
      BY <1>9, <2>2, <2>3
    <2>4. \A u \in EntryUrls : stored'[u] <= Limit' /\ \A k \in ImportJobs :
                                stored'[u] + Cardinality(Holding(k, u)') <= Limit'
      BY <1>9, <2>1, <2>3
    <2>. QED BY <1>1, <1>9, <2>4 DEF RoomLeft, Limit
  <1>10. ASSUME NEW j \in ImportJobs, NEW w \in Hands, Take(j, w) PROVE RoomLeft'
    <2>1. PICK e \in imp[j].items :
            hand' = [hand EXCEPT ![j][w] = IF UrlOf[e] \in imp[j].existing THEN {} ELSE {e}]
      BY <1>10 DEF Take
    <2>2. /\ w \in imp[j].workers /\ ~imp[j].cancelled /\ hand[j][w] = {}
          /\ tidy /\ UNCHANGED <<kind, groups, stored>>
      BY <1>10, TakeEffect
    <2>3. Under(j) /\ Stored \subseteq imp[j].existing
      <3>1. Under(j)
        BY <2>1, <2>2 DEF Under
      <3>. QED BY <1>2, <2>2, <3>1 DEF LooksUpRows, Working
    <2>4. \A k \in ImportJobs \ {j} : hand'[k] = hand[k]
      BY <1>1, <2>1
    <2>5. ASSUME NEW u \in EntryUrls PROVE stored'[u] + Cardinality(Holding(j, u)') <= Limit
      <3>1. CASE u \notin imp[j].existing /\ u = UrlOf[e]
        <4>1. stored[u] = 0
          BY <1>1, <2>3, <3>1 DEF Stored
        <4>2. Cardinality(Holding(j, u)') <= Limit /\ Cardinality(Holding(j, u)') \in Nat
          <5>1. HandsOf' = HandsOf
            BY <2>2 DEF HandsOf
          <5>2. Holding(j, u)' \in SUBSET HandsOf
            BY <5>1 DEF HandsBusy, Holding
          <5>. QED BY <5>2, HandsFinite, FewerHold
        <4>. QED BY <1>1, <2>2, <4>1, <4>2
      <3>2. CASE u \in imp[j].existing \/ u # UrlOf[e]
        <4>1. Holding(j, u)' \in SUBSET Holding(j, u)
          BY <1>1, <2>1, <3>2 DEF Holding
        <4>2. Cardinality(Holding(j, u)') <= Cardinality(Holding(j, u))
              /\ Cardinality(Holding(j, u)') \in Nat
          BY <1>1, <4>1, FewerHold
        <4>3. stored[u] + Cardinality(Holding(j, u)) <= Limit
          BY <1>1, <2>2
        <4>. QED BY <1>1, <2>2, <4>2, <4>3
      <3>. QED BY <3>1, <3>2
    <2>. QED BY <1>1, <1>9, <2>2, <2>3, <2>4, <2>5
  <1>11. ASSUME NEW j \in ImportJobs, NEW w \in Hands, Insert(j, w) PROVE RoomLeft'
    <2>1. PICK e \in hand[j][w] :
            /\ stored' = [stored EXCEPT ![UrlOf[e]] = @ + 1]
            /\ e \in Entries /\ UrlOf[e] \in EntryUrls
      BY <1>11, InsertEffect
    <2>2. /\ hand' = [hand EXCEPT ![j][w] = {}] /\ tidy /\ UNCHANGED <<kind, groups>>
          /\ Under(j)
      BY <1>11, <2>1, InsertEffect DEF Under
    <2>3. \A k \in ImportJobs \ {j} : hand'[k] = hand[k]
      BY <1>1, <2>2
    <2>4. ASSUME NEW u \in EntryUrls
          PROVE /\ stored'[u] \in Nat /\ stored'[u] <= Limit
                /\ stored'[u] + Cardinality(Holding(j, u)') <= Limit
      <3>1. CASE u = UrlOf[e]
        <4>. DEFINE H == Holding(j, u)
                    S == H \ {w}
        <4>1. w \in H /\ Holding(j, u)' \in SUBSET S
          BY <1>1, <2>1, <2>2, <3>1 DEF Holding
        <4>2. IsFiniteSet(H) /\ Cardinality(H) \in Nat /\ stored[u] + Cardinality(H) <= Limit
          BY <1>1, <2>2
        <4>. HIDE DEF H
        <4>3. IsFiniteSet(S) /\ Cardinality(S) = Cardinality(H) - 1
          BY <4>1, <4>2, FS_RemoveElement
        <4>. HIDE DEF S
        <4>4. Cardinality(Holding(j, u)') <= Cardinality(S) /\ Cardinality(S) \in Nat
              /\ Cardinality(Holding(j, u)') \in Nat
          BY <4>1, <4>3, FewerHold
        <4>5. stored'[u] = stored[u] + 1 /\ stored[u] \in Nat
          BY <1>1, <2>1, <3>1
        <4>. QED BY <1>1, <4>2, <4>3, <4>4, <4>5
      <3>2. CASE u # UrlOf[e]
        <4>1. stored'[u] = stored[u] /\ Holding(j, u)' \in SUBSET Holding(j, u)
          BY <1>1, <2>1, <2>2, <3>2 DEF Holding
        <4>2. Cardinality(Holding(j, u)') <= Cardinality(Holding(j, u))
              /\ Cardinality(Holding(j, u)') \in Nat
          BY <1>1, <4>1, FewerHold
        <4>3. /\ stored[u] + Cardinality(Holding(j, u)) <= Limit /\ stored[u] <= Limit
              /\ stored[u] \in Nat /\ Cardinality(Holding(j, u)) \in Nat
          BY <1>1, <2>2
        <4>. QED BY <1>1, <4>1, <4>2, <4>3
      <3>. QED BY <3>1, <3>2
    <2>. QED BY <1>9, <2>2, <2>3, <2>4
  <1>12. ASSUME NEW j \in ImportJobs, NEW w \in Hands, WorkerFails(j, w) PROVE RoomLeft'
    <2>1. /\ hand' = [hand EXCEPT ![j][w] = {}] /\ tidy /\ UNCHANGED <<kind, groups, stored>>
          /\ imp[j].at = "items" \/ hand[j][w] # {}
      BY <1>12, WorkerFailsEffect
    <2>2. Under(j)
      BY <2>1 DEF Under
    <2>3. \A k \in ImportJobs \ {j} : hand'[k] = hand[k]
      BY <1>1, <2>1
    <2>4. ASSUME NEW u \in EntryUrls PROVE stored'[u] + Cardinality(Holding(j, u)') <= Limit
      <3>1. Holding(j, u)' \in SUBSET Holding(j, u)
        BY <1>1, <2>1 DEF Holding
      <3>2. Cardinality(Holding(j, u)') <= Cardinality(Holding(j, u))
            /\ Cardinality(Holding(j, u)') \in Nat
        BY <1>1, <3>1, FewerHold
      <3>3. stored[u] + Cardinality(Holding(j, u)) <= Limit
        BY <1>1, <2>1
      <3>. QED BY <1>1, <2>1, <3>2, <3>3
    <2>. QED BY <1>1, <1>9, <2>1, <2>2, <2>3, <2>4
  <1>. QED BY <1>4, <1>5, <1>6, <1>7, <1>8, <1>10, <1>11, <1>12 DEF ImNext

\* The start satisfies the invariant.
LEMMA ImInitInv == ImInit => ImInv
  <1>. SUFFICES ASSUME ImInit PROVE ImInv
    OBVIOUS
  <1>1. ImTypeOK
    BY NoImportType DEF ImInit, ImTypeOK
  <1>2. /\ \A j \in ImportJobs :
             /\ imp[j].at = "none" /\ imp[j].status = "none" /\ ~imp[j].full
             /\ imp[j].workers = {} /\ imp[j].mine = {} /\ imp[j].items = {}
        /\ \A j \in ImportJobs, w \in Hands : hand[j][w] = {}
        /\ \A u \in EntryUrls : stored[u] = 0
        /\ \A g \in Groups : groups[g] = 0
    BY DEF ImInit, NoImport
  <1>3. HandsBusy
    BY <1>2 DEF HandsBusy
  <1>4. MineStored /\ MergesKnow
    BY <1>2 DEF MineStored, MergesKnow, Merging
  <1>5. SetsComplete
    BY <1>2 DEF SetsComplete, Under, LooksUpRows, LooksUpGroups, Working
  <1>6. \A j \in ImportJobs, u \in EntryUrls : Cardinality(Holding(j, u)) = 0
    <2>1. \A j \in ImportJobs, u \in EntryUrls : Holding(j, u) = {}
      BY <1>2 DEF Holding
    <2>. QED BY <2>1, FS_EmptySet
  <1>7. RoomLeft
    BY <1>2, <1>6, HandsFinite DEF RoomLeft
  <1>. QED BY <1>1, <1>3, <1>4, <1>5, <1>7 DEF ImInv

\* And every step keeps it.
LEMMA ImNextInv == ImInv /\ [ImNext]_imVars => ImInv'
  BY ImTypeStep, HandsStep, MineStep, MergesStep, SetsStep, RoomStep DEF ImInv

\* However entries repeat and jobs that do not overlap fail or are cancelled,
\* they store no movie, channel or category twice, and an episode no more often
\* than a series import has workers, for any list of the provider
\* (importService.js).
THEOREM NothingIsCopiedNeedlessly == ImSpec => []NoNeedlessCopies
  <1>1. ImInv => NoNeedlessCopies
    BY DEF ImInv, RoomLeft, NoNeedlessCopies
  <1>. QED BY <1>1, ImInitInv, ImNextInv, PTL DEF ImSpec

\* What a job that is done has stored is in its bouquet unless another writer of
\* the bouquet overlapped, for any number of jobs (importService.js:99).
THEOREM BouquetsGetImports == ImSpec => []ImportsReachBouquet
  <1>1. ImInv => ImportsReachBouquet
    BY DEF ImInv, MergesKnow, ImportsReachBouquet
  <1>. QED BY <1>1, ImInitInv, ImNextInv, PTL DEF ImSpec

----------------------------------------------------------------------------
(* Channels: input options                                                   *)

\* The options s are those of R, none of them twice.
Fits(s, R) == s \in Seq(R) /\ \A i, j \in 1..Len(s) : s[i] = s[j] => i = j

\* As many options as names.
LEMMA FitsOnce == ASSUME NEW R, NEW s, Fits(s, R) PROVE OnceEach(s)
  <1>. DEFINE names == {s[i] : i \in DOMAIN s}
  <1>1. Len(s) \in Nat /\ DOMAIN s = 1..Len(s)
    BY LenProperties DEF Fits
  <1>2. IsFiniteSet(1..Len(s)) /\ Cardinality(1..Len(s)) = Len(s)
    <2>. HIDE DEF names
    <2>1. IsFiniteSet(1..Len(s)) /\ Cardinality(1..Len(s)) = IF 1 > Len(s) THEN 0 ELSE Len(s) - 1 + 1
      BY <1>1, FS_Interval, 1 \in Int, Len(s) \in Int
    <2>. QED BY <1>1, <2>1
  <1>3. [i \in 1..Len(s) |-> s[i]] \in Bijection(1..Len(s), names)
    <2>1. [i \in 1..Len(s) |-> s[i]] \in [1..Len(s) -> names]
      BY <1>1
    <2>2. \A i, j \in 1..Len(s) : s[i] = s[j] => i = j
      BY DEF Fits
    <2>3. \A n \in names : \E i \in 1..Len(s) : s[i] = n
      BY <1>1
    <2>. HIDE DEF names
    <2>. QED BY <2>1, <2>2, <2>3 DEF Bijection, Injection, IsInjective, Surjection
  <1>4. Cardinality(names) = Cardinality(1..Len(s))
    <2>. HIDE DEF names
    <2>1. ExistsBijection(1..Len(s), names)
      BY <1>3 DEF ExistsBijection
    <2>. QED BY <1>2, <2>1, FS_Bijection
  <1>. QED BY <1>2, <1>4 DEF OnceEach

LEMMA Joined ==
  ASSUME NEW R, NEW S, NEW s, NEW t, Fits(s, R), Fits(t, S), R \cap S = {}
  PROVE  Fits(s \o t, R \cup S)
  <1>1. /\ s \in Seq(R) /\ t \in Seq(S) /\ s \in Seq(R \cup S) /\ t \in Seq(R \cup S)
        /\ Len(s) \in Nat /\ Len(t) \in Nat
        /\ \A i \in 1..Len(s) : s[i] \in R
        /\ \A i \in 1..Len(t) : t[i] \in S
    <2>1. s \in Seq(R) /\ t \in Seq(S)
      BY DEF Fits
    <2>2. s \in Seq(R \cup S) /\ t \in Seq(R \cup S)
      BY <2>1
    <2>. QED BY <2>1, <2>2, ElementOfSeq, LenProperties
  <1>2. /\ s \o t \in Seq(R \cup S) /\ Len(s \o t) = Len(s) + Len(t)
        /\ \A i \in 1..(Len(s) + Len(t)) : (s \o t)[i] = IF i <= Len(s) THEN s[i] ELSE t[i - Len(s)]
    BY <1>1, ConcatProperties
  <1>3. ASSUME NEW i \in 1..(Len(s) + Len(t)), NEW j \in 1..(Len(s) + Len(t)),
               (s \o t)[i] = (s \o t)[j]
        PROVE i = j
    <2>1. CASE i <= Len(s) /\ j <= Len(s)
      BY <1>1, <1>2, <1>3, <2>1 DEF Fits
    <2>2. CASE i > Len(s) /\ j > Len(s)
      <3>1. t[i - Len(s)] = t[j - Len(s)] /\ i - Len(s) \in 1..Len(t) /\ j - Len(s) \in 1..Len(t)
        BY <1>1, <1>2, <1>3, <2>2
      <3>2. i - Len(s) = j - Len(s)
        BY <3>1 DEF Fits
      <3>. QED BY <1>1, <3>2
    <2>3. CASE i <= Len(s) /\ j > Len(s)
      <3>1. s[i] = t[j - Len(s)] /\ i \in 1..Len(s) /\ j - Len(s) \in 1..Len(t)
        BY <1>1, <1>2, <1>3, <2>3
      <3>. QED BY <1>1, <3>1
    <2>4. CASE i > Len(s) /\ j <= Len(s)
      <3>1. s[j] = t[i - Len(s)] /\ j \in 1..Len(s) /\ i - Len(s) \in 1..Len(t)
        BY <1>1, <1>2, <1>3, <2>4
      <3>. QED BY <1>1, <3>1
    <2>. QED BY <1>1, <2>1, <2>2, <2>3, <2>4
  <1>. QED BY <1>2, <1>3 DEF Fits

LEMMA Nothing == \A R : Fits(<< >>, R)
  BY DEF Fits
LEMMA Whened == ASSUME NEW R, NEW s, Fits(s, R), NEW c PROVE Fits(When(c, s), R)
  <1>1. CASE c
    BY <1>1 DEF When
  <1>2. CASE ~c
    BY <1>2, Nothing DEF When
  <1>. QED BY <1>1, <1>2
LEMMA One == \A a : Fits(<<a>>, {a})
  <1>. SUFFICES ASSUME NEW a PROVE Fits(<<a>>, {a})
    OBVIOUS
  <1>1. <<a>> \in Seq({a}) /\ Len(<<a>>) = 1
    OBVIOUS
  <1>2. \A i, j \in 1..1 : i = j
    OBVIOUS
  <1>. QED BY <1>1, <1>2 DEF Fits
LEMMA Two == ASSUME NEW a, NEW b, a # b PROVE Fits(<<a, b>>, {a, b})
  <1>1. <<a, b>> \in Seq({a, b}) /\ Len(<<a, b>>) = 2
    OBVIOUS
  <1>2. \A i \in 1..2 : i = 1 \/ i = 2
    OBVIOUS
  <1>. QED BY <1>1, <1>2 DEF Fits
LEMMA Three ==
  ASSUME NEW a, NEW b, NEW c, a # b, a # c, b # c
  PROVE  Fits(<<a, b, c>>, {a, b, c})
  <1>1. <<a, b, c>> = <<a, b>> \o <<c>>
    OBVIOUS
  <1>2. Fits(<<a, b>> \o <<c>>, {a, b} \cup {c})
    <2>1. Fits(<<a, b>>, {a, b}) /\ Fits(<<c>>, {c})
      BY One, Two
    <2>2. {a, b} \cap {c} = {}
      OBVIOUS
    <2>. QED BY <2>1, <2>2, Joined
  <1>3. {a, b} \cup {c} = {a, b, c}
    OBVIOUS
  <1>. QED BY <1>1, <1>2, <1>3
LEMMA Seven ==
  ASSUME NEW a, NEW b, NEW c, NEW d, NEW e, NEW f, NEW g,
         a \notin {b, c, d, e, f, g}, b \notin {c, d, e, f, g}, c \notin {d, e, f, g},
         d \notin {e, f, g}, e \notin {f, g}, f # g
  PROVE  Fits(<<a, b, c, d, e, f, g>>, {a, b, c, d, e, f, g})
  <1>. DEFINE s == <<a, b, c, d, e, f, g>>
  <1>1. s = (<<a, b, c>> \o <<d, e, f>>) \o <<g>>
    OBVIOUS
  <1>2. Fits(<<a, b, c>>, {a, b, c}) /\ Fits(<<d, e, f>>, {d, e, f}) /\ Fits(<<g>>, {g})
    BY One, Three
  <1>3. {a, b, c} \cap {d, e, f} = {} /\ ({a, b, c} \cup {d, e, f}) \cap {g} = {}
    OBVIOUS
  <1>4. Fits((<<a, b, c>> \o <<d, e, f>>) \o <<g>>, ({a, b, c} \cup {d, e, f}) \cup {g})
    <2>1. Fits(<<a, b, c>> \o <<d, e, f>>, {a, b, c} \cup {d, e, f})
      BY <1>2, <1>3, Joined
    <2>. QED BY <1>2, <1>3, <2>1, Joined
  <1>5. ({a, b, c} \cup {d, e, f}) \cup {g} = {a, b, c, d, e, f, g}
    OBVIOUS
  <1>. QED BY <1>1, <1>4, <1>5

\* What each part of an input command may name.
StyleNames(in) == IF in.lagFix THEN {} ELSE {"fflags", "flags"}
StabilityNames(in) ==
  IF in.lagFix THEN {"fflags", "use_wallclock_as_timestamps", "avoid_negative_ts"} ELSE {}
RateNames == {"readrate", "readrate_initial_burst", "readrate_catchup", "re"}
RecoverNames ==
  {"rw_timeout", "timeout", "reconnect", "reconnect_streamed", "reconnect_on_network_error",
   "reconnect_on_http_error", "reconnect_delay_max"}
ProtocolNames ==
  {"protocol_whitelist", "allowed_extensions", "allowed_segment_extensions",
   "http_persistent", "http_multiple", "http_seekable", "max_reload", "rtmp_live"}

LEMMA Wider == ASSUME NEW R, NEW S, NEW s, Fits(s, R), R \subseteq S PROVE Fits(s, S)
  BY DEF Fits

LEMMA StyleFits == \A in, settings : Fits(StyleArgs(in, settings), StyleNames(in))
  <1>. SUFFICES ASSUME NEW in, NEW settings PROVE Fits(StyleArgs(in, settings), StyleNames(in))
    OBVIOUS
  <1>1. Fits(<<"fflags">>, {"fflags"}) /\ Fits(<<"flags">>, {"flags"})
    BY One
  <1>2. Fits(<<"fflags", "flags">>, {"fflags", "flags"})
    BY Two
  <1>3. CASE in.lagFix
    <2>1. CombinedFflags(in) = << >> /\ CombinedFflagsSafe(in) = << >>
      BY <1>3 DEF CombinedFflags, CombinedFflagsSafe, When
    <2>2. StyleArgs(in, settings) = << >>
      BY <1>3, <2>1 DEF StyleArgs
    <2>. QED BY <2>2, Nothing
  <1>4. CASE ~in.lagFix
    <2>. DEFINE all == {"fflags", "flags"}
    <2>1. Fits(<<"fflags">>, all)
      BY <1>1, Wider
    <2>2. Fits(CombinedFflagsSafe(in), all) /\ Fits(WebappGenPtsOnly(in), all)
      BY <2>1, Whened DEF CombinedFflagsSafe, WebappGenPtsOnly
    <2>3. Fits(LowLatencyDemuxArgs(in, settings), all)
      BY <1>2, Whened DEF LowLatencyDemuxArgs
    <2>4. Fits(CombinedFflags(in), all)
      <3>. DEFINE a == When(in.genTimestamps \/ ~in.vod, <<"fflags">>)
                  b == When(~in.vod, <<"flags">>)
      <3>1. Fits(a, {"fflags"}) /\ Fits(b, {"flags"})
        BY <1>1, Whened
      <3>. HIDE DEF a, b
      <3>2. Fits(a \o b, {"fflags"} \cup {"flags"})
        BY <3>1, Joined, {"fflags"} \cap {"flags"} = {}
      <3>3. {"fflags"} \cup {"flags"} = all
        OBVIOUS
      <3>4. Fits(a \o b, all)
        BY <3>2, <3>3
      <3>5. CombinedFflags(in) = When(~in.lagFix, a \o b)
        BY DEF CombinedFflags, a, b
      <3>. QED BY <3>4, <3>5, Whened
    <2>5. StyleNames(in) = all
      BY <1>4 DEF StyleNames
    <2>. HIDE DEF all
    <2>. QED BY <2>2, <2>3, <2>4, <2>5 DEF StyleArgs
  <1>. QED BY <1>3, <1>4

LEMMA PartsFit ==
  ASSUME NEW in
  PROVE  /\ Fits(FastStartArgs(in), {"analyzeduration", "probesize"})
         /\ Fits(LiveReadArgs(in), RateNames)
         /\ Fits(NetworkRecoverArgs(in), RecoverNames)
         /\ Fits(InputProtocolArgs(in), ProtocolNames)
         /\ Fits(StabilityInputArgs(in), StabilityNames(in))
         /\ Fits(CencArgs(in), {"cenc_decryption_keys"})
  <1>1. Fits(FastStartArgs(in), {"analyzeduration", "probesize"})
    <2>1. Fits(<<"analyzeduration", "probesize">>, {"analyzeduration", "probesize"})
      BY Two
    <2>. QED BY <2>1, Whened DEF FastStartArgs
  <1>2. Fits(LiveReadArgs(in), RateNames)
    <2>1. Fits(<<"readrate", "readrate_initial_burst", "readrate_catchup">>,
               {"readrate", "readrate_initial_burst", "readrate_catchup"})
      BY Three
    <2>2. Fits(<<"re">>, {"re"})
      BY One
    <2>3. /\ {"readrate", "readrate_initial_burst", "readrate_catchup"} \subseteq RateNames
          /\ {"re"} \subseteq RateNames
      BY DEF RateNames
    <2>4. /\ Fits(<<"readrate", "readrate_initial_burst", "readrate_catchup">>, RateNames)
          /\ Fits(<<"re">>, RateNames)
      BY <2>1, <2>2, <2>3, Wider
    <2>5. \A c : Fits(When(c, <<"re">>), RateNames)
      BY <2>4, Whened
    <2>. QED BY <2>4, <2>5, Nothing DEF LiveReadArgs
  <1>3. Fits(NetworkRecoverArgs(in), RecoverNames)
    <2>1. Fits(<<"rw_timeout", "timeout", "reconnect", "reconnect_streamed",
                 "reconnect_on_network_error", "reconnect_on_http_error",
                 "reconnect_delay_max">>, RecoverNames)
      BY Seven DEF RecoverNames
    <2>. QED BY <2>1, Whened DEF NetworkRecoverArgs
  <1>4. Fits(InputProtocolArgs(in), ProtocolNames)
    <2>. DEFINE hls == {"protocol_whitelist", "allowed_extensions", "allowed_segment_extensions",
                        "http_persistent", "http_multiple", "http_seekable", "max_reload"}
    <2>1. Fits(<<"protocol_whitelist", "allowed_extensions", "allowed_segment_extensions",
                 "http_persistent", "http_multiple", "http_seekable", "max_reload">>, hls)
      BY Seven
    <2>2. hls \subseteq ProtocolNames /\ {"rtmp_live"} \subseteq ProtocolNames
      BY DEF ProtocolNames
    <2>3. Fits(<<"protocol_whitelist", "allowed_extensions", "allowed_segment_extensions",
                 "http_persistent", "http_multiple", "http_seekable", "max_reload">>, ProtocolNames)
      BY <2>1, <2>2, Wider
    <2>4. Fits(When(~in.vod, <<"rtmp_live">>), ProtocolNames)
      <3>1. Fits(<<"rtmp_live">>, {"rtmp_live"})
        BY One
      <3>2. Fits(<<"rtmp_live">>, ProtocolNames)
        BY <2>2, <3>1, Wider
      <3>. QED BY <3>2, Whened
    <2>. QED BY <2>3, <2>4, Nothing DEF InputProtocolArgs
  <1>5. Fits(StabilityInputArgs(in), StabilityNames(in))
    <2>. DEFINE s == <<"fflags", "use_wallclock_as_timestamps", "avoid_negative_ts">>
    <2>1. Fits(s, {"fflags", "use_wallclock_as_timestamps", "avoid_negative_ts"})
      BY Three
    <2>. HIDE DEF s
    <2>2. CASE in.lagFix
      BY <2>1, <2>2 DEF StabilityInputArgs, StabilityNames, When, s
    <2>3. CASE ~in.lagFix
      BY <2>3, Nothing DEF StabilityInputArgs, StabilityNames, When
    <2>. QED BY <2>2, <2>3
  <1>6. Fits(CencArgs(in), {"cenc_decryption_keys"})
    BY One, Whened DEF CencArgs
  <1>. QED BY <1>1, <1>2, <1>3, <1>4, <1>5, <1>6

\* FFmpeg and ffprobe are given no input option twice.
LEMMA CommandsOnce ==
  ASSUME NEW in, NEW settings
  PROVE  OnceEach(BuildInputLead(in, settings)) /\ OnceEach(BuildFfprobeArgs(in))
  <1>. DEFINE fast == FastStartArgs(in)  loop == When(in.extras, <<"stream_loop">>)
              style == StyleArgs(in, settings)  rate == LiveReadArgs(in)
              recover == NetworkRecoverArgs(in)  proxy == When(in.extras, <<"http_proxy">>)
              protocol == InputProtocolArgs(in)  headers == When(in.extras, <<"headers">>)
              stability == StabilityInputArgs(in)  cenc == CencArgs(in)
              FastN == {"analyzeduration", "probesize"}  StyleN == StyleNames(in)
              StabilityN == StabilityNames(in)
  <1>1. /\ Fits(fast, FastN) /\ Fits(rate, RateNames) /\ Fits(recover, RecoverNames)
        /\ Fits(protocol, ProtocolNames) /\ Fits(stability, StabilityN)
        /\ Fits(cenc, {"cenc_decryption_keys"}) /\ Fits(style, StyleN)
    BY PartsFit, StyleFits
  <1>2. Fits(loop, {"stream_loop"}) /\ Fits(proxy, {"http_proxy"}) /\ Fits(headers, {"headers"})
    BY One, Whened
  <1>3. BuildInputLead(in, settings) =
          fast \o loop \o style \o rate \o recover \o proxy \o protocol \o headers
          \o stability \o cenc
    BY DEF BuildInputLead
  <1>4. BuildFfprobeArgs(in) = fast \o rate \o proxy \o protocol \o headers \o cenc
    BY DEF BuildFfprobeArgs
  <1>5. /\ StyleN \subseteq {"fflags", "flags"} /\ StyleN \cap StabilityN = {}
        /\ StabilityN \subseteq {"fflags", "use_wallclock_as_timestamps", "avoid_negative_ts"}
    BY DEF StyleNames, StabilityNames
  <1>. HIDE DEF fast, loop, style, rate, recover, proxy, protocol, headers, stability, cenc,
                StyleN, StabilityN
  <1>6. OnceEach(fast \o loop \o style \o rate \o recover \o proxy \o protocol \o headers
                 \o stability \o cenc)
    <2>. DEFINE S1 == FastN \cup {"stream_loop"}  S2 == S1 \cup StyleN  S3 == S2 \cup RateNames
                S4 == S3 \cup RecoverNames  S5 == S4 \cup {"http_proxy"}
                S6 == S5 \cup ProtocolNames  S7 == S6 \cup {"headers"}  S8 == S7 \cup StabilityN
    <2>1. /\ FastN \cap {"stream_loop"} = {} /\ S1 \cap StyleN = {} /\ S2 \cap RateNames = {}
          /\ S3 \cap RecoverNames = {} /\ S4 \cap {"http_proxy"} = {}
          /\ S5 \cap ProtocolNames = {}
      BY <1>5 DEF RateNames, RecoverNames, ProtocolNames
    <2>2. S6 \cap {"headers"} = {} /\ S7 \cap StabilityN = {} /\ S8 \cap {"cenc_decryption_keys"} = {}
      BY <1>5 DEF RateNames, RecoverNames, ProtocolNames
    <2>3. Fits(fast \o loop, S1)
      BY <1>1, <1>2, <2>1, Joined
    <2>. HIDE DEF S1, FastN
    <2>4. Fits(fast \o loop \o style, S2)
      BY <1>1, <2>1, <2>3, Joined
    <2>. HIDE DEF S2
    <2>5. Fits(fast \o loop \o style \o rate, S3)
      BY <1>1, <2>1, <2>4, Joined
    <2>. HIDE DEF S3
    <2>6. Fits(fast \o loop \o style \o rate \o recover, S4)
      BY <1>1, <2>1, <2>5, Joined
    <2>. HIDE DEF S4
    <2>7. Fits(fast \o loop \o style \o rate \o recover \o proxy, S5)
      BY <1>2, <2>1, <2>6, Joined
    <2>. HIDE DEF S5
    <2>8. Fits(fast \o loop \o style \o rate \o recover \o proxy \o protocol, S6)
      BY <1>1, <2>1, <2>7, Joined
    <2>. HIDE DEF S6
    <2>9. Fits(fast \o loop \o style \o rate \o recover \o proxy \o protocol \o headers, S7)
      BY <1>2, <2>2, <2>8, Joined
    <2>. HIDE DEF S7
    <2>10. Fits(fast \o loop \o style \o rate \o recover \o proxy \o protocol \o headers
                \o stability, S8)
      BY <1>1, <2>2, <2>9, Joined
    <2>. HIDE DEF S8
    <2>11. Fits(fast \o loop \o style \o rate \o recover \o proxy \o protocol \o headers
                \o stability \o cenc, S8 \cup {"cenc_decryption_keys"})
      BY <1>1, <2>2, <2>10, Joined
    <2>. QED BY <2>11, FitsOnce
  <1>7. OnceEach(fast \o rate \o proxy \o protocol \o headers \o cenc)
    <2>. DEFINE S1 == FastN \cup RateNames  S2 == S1 \cup {"http_proxy"}
                S3 == S2 \cup ProtocolNames  S4 == S3 \cup {"headers"}
    <2>1. /\ FastN \cap RateNames = {} /\ S1 \cap {"http_proxy"} = {}
          /\ S2 \cap ProtocolNames = {} /\ S3 \cap {"headers"} = {}
          /\ S4 \cap {"cenc_decryption_keys"} = {}
      BY DEF RateNames, ProtocolNames
    <2>2. Fits(fast \o rate, S1)
      BY <1>1, <2>1, Joined
    <2>. HIDE DEF S1, FastN
    <2>3. Fits(fast \o rate \o proxy, S2)
      BY <1>2, <2>1, <2>2, Joined
    <2>. HIDE DEF S2
    <2>4. Fits(fast \o rate \o proxy \o protocol, S3)
      BY <1>1, <2>1, <2>3, Joined
    <2>. HIDE DEF S3
    <2>5. Fits(fast \o rate \o proxy \o protocol \o headers, S4)
      BY <1>2, <2>1, <2>4, Joined
    <2>. HIDE DEF S4
    <2>6. Fits(fast \o rate \o proxy \o protocol \o headers \o cenc,
               S4 \cup {"cenc_decryption_keys"})
      BY <1>1, <2>1, <2>5, Joined
    <2>. QED BY <2>6, FitsOnce
  <1>. QED BY <1>3, <1>4, <1>6, <1>7

----------------------------------------------------------------------------
(* Channels: what a command maps                                             *)

LEMMA PadsDiffer ==
  \A a, b, i, j : Pad(a, i) = Pad(b, j) <=> a = b /\ i = j
  BY DEF Pad

\* A pad of a graph is taken once: by one filter, or by a map and no filter.
TakenOnce(graph, maps, p) ==
  \/ p \notin maps /\ \E f \in graph : p \in f.in /\ \A g \in graph : p \in g.in => g = f
  \/ p \in maps /\ \A g \in graph : p \notin g.in

LEMMA TakenCounts ==
  ASSUME NEW graph, NEW maps, NEW p, TakenOnce(graph, maps, p)
  PROVE  Cardinality({f \in graph : p \in f.in}) + (IF p \in maps THEN 1 ELSE 0) = 1
  <1>. DEFINE takers == {f \in graph : p \in f.in}
  <1>1. CASE p \notin maps /\ \E f \in graph : p \in f.in /\ \A g \in graph : p \in g.in => g = f
    <2>1. \E f : takers = {f}
      BY <1>1
    <2>2. Cardinality(takers) = 1
      BY <2>1, FS_Singleton
    <2>. QED BY <1>1, <2>2
  <1>2. CASE p \in maps /\ \A g \in graph : p \notin g.in
    <2>1. takers = {}
      BY <1>2
    <2>2. Cardinality(takers) = 0
      BY <2>1, FS_EmptySet
    <2>. QED BY <1>2, <2>2
  <1>. QED BY <1>1, <1>2 DEF TakenOnce

\* Wired, pad by pad.
LEMMA WiredIf ==
  ASSUME NEW files, NEW graph, NEW maps, NEW variants, NEW playlist,
         \A f \in graph : \A p \in f.out : TakenOnce(graph, maps, p),
         \A f \in graph : \A p \in f.in : p \in SourcePads \/ \E g \in graph : p \in g.out,
         \A p \in maps : p \in SourcePads \/ \E g \in graph : p \in g.out,
         files = 2 <=> \E f \in graph : Mark \in f.in
  PROVE  Wired(Command(files, graph, maps, variants, playlist))
  <1>. DEFINE cmd == Command(files, graph, maps, variants, playlist)
  <1>1. cmd.files = files /\ cmd.graph = graph /\ cmd.maps = maps
    BY DEF Command
  <1>2. \A p : p \in Produced(cmd) <=> \E f \in graph : p \in f.out
    BY <1>1 DEF Produced
  <1>. HIDE DEF cmd
  <1>3. \A p \in Produced(cmd) :
          Cardinality({f \in cmd.graph : p \in f.in}) + (IF p \in cmd.maps THEN 1 ELSE 0) = 1
    <2>. SUFFICES ASSUME NEW p \in Produced(cmd)
                  PROVE  Cardinality({f \in graph : p \in f.in}) + (IF p \in maps THEN 1 ELSE 0) = 1
      BY <1>1
    <2>1. TakenOnce(graph, maps, p)
      BY <1>2
    <2>. QED BY <2>1, TakenCounts
  <1>4. (UNION {f.in : f \in cmd.graph}) \cup cmd.maps \subseteq SourcePads \cup Produced(cmd)
    <2>1. /\ \A f \in cmd.graph : \A p \in f.in : p \in SourcePads \cup Produced(cmd)
          /\ \A p \in cmd.maps : p \in SourcePads \cup Produced(cmd)
      BY <1>1, <1>2
    <2>. DEFINE taken == UNION {f.in : f \in cmd.graph}
    <2>2. ASSUME NEW p \in taken PROVE p \in SourcePads \cup Produced(cmd)
      <3>1. PICK ins \in {f.in : f \in cmd.graph} : p \in ins
        BY <2>2
      <3>2. PICK f \in cmd.graph : ins = f.in
        BY <3>1
      <3>. QED BY <2>1, <3>1, <3>2
    <2>. HIDE DEF taken
    <2>3. taken \cup cmd.maps \subseteq SourcePads \cup Produced(cmd)
      BY <2>1, <2>2
    <2>. QED BY <2>3 DEF taken
  <1>5. (cmd.files = 2) <=> ({f \in cmd.graph : Mark \in f.in} # {})
    BY <1>1
  <1>. QED BY <1>3, <1>4, <1>5 DEF Wired, cmd

\* Copies have no graph and map input pads only.
LEMMA CopiesWired ==
  ASSUME NEW o
  PROVE  Wired(CopyCommand(o)) /\ Wired(NginxCommand(o))
  <1>1. CopyMaps(o) \subseteq SourcePads /\ NginxMaps(o) \subseteq SourcePads
    BY DEF CopyMaps, NginxMaps, SourcePads
  <1>2. Wired(Command(1, {}, CopyMaps(o), 0, Playlist(o)))
    BY <1>1, WiredIf
  <1>3. Wired(Command(1, {}, NginxMaps(o), 0, "index.m3u8"))
    BY <1>1, WiredIf
  <1>. QED BY <1>2, <1>3 DEF CopyCommand, NginxCommand

\* The pads by name: `first` is what the graph proper begins with.
First(o, marked) == IF WatermarkShown(o) THEN Pad(marked, 0) ELSE Video

LEMMA OverlayFilters ==
  ASSUME NEW last
  PROVE  \A f : f \in Overlay(last) <=>
           \/ f = Filter({Mark}, {Pad("wm_pre", 0)})
           \/ f = Filter({Pad("wm_pre", 0), Video}, {Pad("wm", 0), Pad("base", 0)})
           \/ f = Filter({Pad("wm", 0), Pad("base", 0)}, {last})
  BY DEF Overlay

LEMMA FilterFields == \A i, o : Filter(i, o).in = i /\ Filter(i, o).out = o
  BY DEF Filter

LEMMA SingleWired == ASSUME NEW o PROVE Wired(SingleCommand(o))
  <1>. DEFINE graph == SingleTranscodeFilter(o)  maps == {Pad("vout", 0), Audio}
  <1>1. CASE ~WatermarkShown(o)
    <2>. DEFINE v == Filter({Video}, {Pad("vout", 0)})
    <2>1. graph = {v} /\ v.in = {Video} /\ v.out = {Pad("vout", 0)} /\ InputFiles(o) = 1
      BY <1>1, FilterFields DEF SingleTranscodeFilter, InputFiles
    <2>. HIDE DEF v, graph
    <2>2. /\ Pad("vout", 0) # Video /\ Mark # Video /\ {Video, Audio} \subseteq SourcePads
      BY PadsDiffer DEF Video, Mark, SourcePads
    <2>3. \A f \in graph : \A p \in f.out : TakenOnce(graph, maps, p)
      BY <2>1, <2>2 DEF TakenOnce
    <2>4. \A f \in graph : \A p \in f.in : p \in SourcePads \/ \E g \in graph : p \in g.out
      BY <2>1, <2>2
    <2>5. \A p \in maps : p \in SourcePads \/ \E g \in graph : p \in g.out
      BY <2>1, <2>2
    <2>6. InputFiles(o) = 2 <=> \E f \in graph : Mark \in f.in
      BY <2>1, <2>2
    <2>. HIDE DEF maps
    <2>7. Wired(Command(InputFiles(o), graph, maps, 0, Playlist(o)))
      BY <2>3, <2>4, <2>5, <2>6, WiredIf
    <2>. QED BY <2>7 DEF SingleCommand, graph, maps
  <1>2. CASE WatermarkShown(o)
    <2>. DEFINE a == Pad("wm_pre", 0)  b == Pad("wm", 0)  c == Pad("base", 0)
                d == Pad("tmp", 0)  e == Pad("vout", 0)
                f1 == Filter({Mark}, {a})  f2 == Filter({a, Video}, {b, c})
                f3 == Filter({b, c}, {d})  f4 == Filter({d}, {e})
    <2>1. graph = {f1, f2, f3, f4} /\ InputFiles(o) = 2
      BY <1>2 DEF SingleTranscodeFilter, InputFiles, Overlay
    <2>2. /\ f1.in = {Mark} /\ f1.out = {a} /\ f2.in = {a, Video} /\ f2.out = {b, c}
          /\ f3.in = {b, c} /\ f3.out = {d} /\ f4.in = {d} /\ f4.out = {e}
      BY FilterFields
    <2>3. /\ a \notin {b, c, d, e} /\ b \notin {c, d, e} /\ c \notin {d, e} /\ d # e
          /\ {a, b, c, d, e} \cap {Video, Audio, Mark} = {} /\ Mark # Video /\ Mark # Audio
          /\ {Video, Audio, Mark} \subseteq SourcePads
      BY PadsDiffer DEF Video, Audio, Mark, SourcePads
    <2>. HIDE DEF graph, a, b, c, d, e, f1, f2, f3, f4
    <2>4. maps = {e, Audio}
      BY DEF e
    <2>. HIDE DEF maps
    <2>5. /\ TakenOnce(graph, maps, a) /\ TakenOnce(graph, maps, b) /\ TakenOnce(graph, maps, c)
          /\ TakenOnce(graph, maps, d) /\ TakenOnce(graph, maps, e)
      <3>1. TakenOnce(graph, maps, a)
        <4>1. a \notin maps /\ f2 \in graph /\ a \in f2.in
          BY <2>1, <2>2, <2>3, <2>4
        <4>2. a \notin f1.in /\ a \notin f3.in /\ a \notin f4.in
          BY <2>2, <2>3
        <4>. QED BY <2>1, <4>1, <4>2 DEF TakenOnce
      <3>2. TakenOnce(graph, maps, b)
        <4>1. b \notin maps /\ f3 \in graph /\ b \in f3.in
          BY <2>1, <2>2, <2>3, <2>4
        <4>2. b \notin f1.in /\ b \notin f2.in /\ b \notin f4.in
          BY <2>2, <2>3
        <4>. QED BY <2>1, <4>1, <4>2 DEF TakenOnce
      <3>3. TakenOnce(graph, maps, c)
        <4>1. c \notin maps /\ f3 \in graph /\ c \in f3.in
          BY <2>1, <2>2, <2>3, <2>4
        <4>2. c \notin f1.in /\ c \notin f2.in /\ c \notin f4.in
          BY <2>2, <2>3
        <4>. QED BY <2>1, <4>1, <4>2 DEF TakenOnce
      <3>4. TakenOnce(graph, maps, d)
        <4>1. d \notin maps /\ f4 \in graph /\ d \in f4.in
          BY <2>1, <2>2, <2>3, <2>4
        <4>2. d \notin f1.in /\ d \notin f2.in /\ d \notin f3.in
          BY <2>2, <2>3
        <4>. QED BY <2>1, <4>1, <4>2 DEF TakenOnce
      <3>5. TakenOnce(graph, maps, e)
        <4>1. e \notin f1.in /\ e \notin f2.in /\ e \notin f3.in /\ e \notin f4.in
          BY <2>2, <2>3
        <4>. QED BY <2>1, <2>4, <4>1 DEF TakenOnce
      <3>. QED BY <3>1, <3>2, <3>3, <3>4, <3>5
    <2>6. \A f \in graph : \A p \in f.out : TakenOnce(graph, maps, p)
      BY <2>1, <2>2, <2>5
    <2>7. \A f \in graph : \A p \in f.in : p \in SourcePads \/ \E g \in graph : p \in g.out
      BY <2>1, <2>2, <2>3
    <2>8. \A p \in maps : p \in SourcePads \/ \E g \in graph : p \in g.out
      BY <2>1, <2>2, <2>3, <2>4
    <2>9. InputFiles(o) = 2 <=> \E f \in graph : Mark \in f.in
      BY <2>1, <2>2
    <2>10. Wired(Command(InputFiles(o), graph, maps, 0, Playlist(o)))
      BY <2>6, <2>7, <2>8, <2>9, WiredIf
    <2>. QED BY <2>10 DEF SingleCommand, graph, maps
  <1>. QED BY <1>1, <1>2

\* The graph of several renditions: `mark` the overlay if there is one, then the
\* video split, each scaled, and the audio split.
SplitGraph(overlay, from, n) ==
  overlay \cup {Filter({from}, {Pad("v", i) : i \in 1..n})}
  \cup {Filter({Pad("v", i)}, {Pad("vo", i)}) : i \in 1..n}
  \cup {Filter({Audio}, {Pad("a", i) : i \in 1..n})}

\* An overlay takes and gives no pad of the rest but `from`, and each of its own
\* pads is taken within it or is `from`.
Apart(overlay, from) ==
  /\ \A f \in overlay : \A p \in f.in \cup f.out : \A a \in {"v", "vo", "a"}, i \in Nat : p # Pad(a, i)
  /\ \A f \in overlay : Audio \notin f.in /\ from \notin f.in
  /\ \A f \in overlay : \A p \in f.out :
        p = from \/ \E g \in overlay : p \in g.in /\ \A h \in overlay : p \in h.in => h = g
  /\ \A f \in overlay : \A p \in f.in : p \in SourcePads \/ \E g \in overlay : p \in g.out
  /\ \A f \in overlay : Audio \notin f.out
  /\ from = Video \/ \E f \in overlay : from \in f.out
  /\ from # Audio /\ from # Mark /\ \A a \in {"v", "vo", "a"}, i \in Nat : from # Pad(a, i)

LEMMA SplitWired ==
  ASSUME NEW overlay, NEW from, NEW n \in Nat, Apart(overlay, from), NEW files,
         NEW variants, NEW playlist,
         files = 2 <=> \E f \in overlay : Mark \in f.in
  PROVE  Wired(Command(files, SplitGraph(overlay, from, n),
                       {Pad(pad, i) : pad \in {"vo", "a"}, i \in 1..n}, variants, playlist))
  <1>. DEFINE graph == SplitGraph(overlay, from, n)
              maps == {Pad(pad, i) : pad \in {"vo", "a"}, i \in 1..n}
              split == Filter({from}, {Pad("v", i) : i \in 1..n})
              audio == Filter({Audio}, {Pad("a", i) : i \in 1..n})
              scale(i) == Filter({Pad("v", i)}, {Pad("vo", i)})
  <1>1. /\ split.in = {from} /\ split.out = {Pad("v", i) : i \in 1..n}
        /\ audio.in = {Audio} /\ audio.out = {Pad("a", i) : i \in 1..n}
        /\ \A i : scale(i).in = {Pad("v", i)} /\ scale(i).out = {Pad("vo", i)}
    BY FilterFields
  <1>2. \A f : f \in graph <=> \/ f \in overlay \/ f = split \/ f = audio
                               \/ \E i \in 1..n : f = scale(i)
    BY DEF SplitGraph
  <1>3. \A p : p \in maps <=> \E i \in 1..n : p = Pad("vo", i) \/ p = Pad("a", i)
    OBVIOUS
  <1>4. /\ \A a \in {"v", "vo", "a"}, i \in Nat : Pad(a, i) # Audio /\ Pad(a, i) # Video /\ Pad(a, i) # Mark
        /\ Video # Mark /\ Audio # Mark /\ Audio # Video
        /\ {Video, Audio, Mark} \subseteq SourcePads
    BY PadsDiffer DEF Video, Audio, Mark, SourcePads
  <1>5. 1..n \subseteq Nat
    OBVIOUS
  <1>. HIDE DEF graph, maps, split, audio, scale
  <1>6. ASSUME NEW i \in 1..n PROVE TakenOnce(graph, maps, Pad("v", i))
    <2>1. Pad("v", i) \notin maps
      BY <1>3, PadsDiffer
    <2>2. scale(i) \in graph /\ Pad("v", i) \in scale(i).in
      BY <1>1, <1>2
    <2>3. ASSUME NEW g \in graph, Pad("v", i) \in g.in PROVE g = scale(i)
      <3>1. g \notin overlay
        BY <1>5, <2>3 DEF Apart
      <3>2. g # split /\ g # audio
        BY <1>1, <1>4, <1>5, <2>3 DEF Apart
      <3>3. PICK j \in 1..n : g = scale(j)
        BY <1>2, <3>1, <3>2
      <3>4. Pad("v", i) = Pad("v", j)
        BY <1>1, <2>3, <3>3
      <3>. QED BY <3>3, <3>4, PadsDiffer
    <2>. QED BY <2>1, <2>2, <2>3 DEF TakenOnce
  <1>7. ASSUME NEW i \in 1..n, NEW a \in {"vo", "a"} PROVE TakenOnce(graph, maps, Pad(a, i))
    <2>1. Pad(a, i) \in maps
      BY <1>3
    <2>2. ASSUME NEW g \in graph PROVE Pad(a, i) \notin g.in
      <3>1. CASE g \in overlay
        BY <1>5, <3>1 DEF Apart
      <3>2. CASE g = split \/ g = audio
        BY <1>1, <1>4, <1>5, <3>2 DEF Apart
      <3>3. CASE \E j \in 1..n : g = scale(j)
        BY <1>1, <3>3, PadsDiffer
      <3>. QED BY <1>2, <3>1, <3>2, <3>3
    <2>. QED BY <2>1, <2>2 DEF TakenOnce
  <1>8. ASSUME NEW f \in overlay, NEW p \in f.out PROVE TakenOnce(graph, maps, p)
    <2>1. p \notin maps
      BY <1>3, <1>5, <1>8 DEF Apart
    <2>2. p # Audio /\ \A i \in 1..n : p # Pad("v", i)
      BY <1>5, <1>8 DEF Apart
    <2>3. CASE p = from
      <3>1. split \in graph /\ p \in split.in
        BY <1>1, <1>2, <2>3
      <3>2. \A g \in graph : p \in g.in => g = split
        BY <1>1, <1>2, <2>2, <2>3 DEF Apart
      <3>. QED BY <2>1, <3>1, <3>2 DEF TakenOnce
    <2>4. CASE p # from
      <3>1. PICK g \in overlay : p \in g.in /\ \A h \in overlay : p \in h.in => h = g
        BY <1>8, <2>4 DEF Apart
      <3>2. g \in graph /\ \A h \in graph : p \in h.in => h = g
        BY <1>1, <1>2, <2>2, <2>4, <3>1
      <3>. QED BY <2>1, <3>1, <3>2 DEF TakenOnce
    <2>. QED BY <2>3, <2>4
  <1>9. \A f \in graph : \A p \in f.out : TakenOnce(graph, maps, p)
    <2>. SUFFICES ASSUME NEW f \in graph, NEW p \in f.out PROVE TakenOnce(graph, maps, p)
      OBVIOUS
    <2>1. CASE f \in overlay
      BY <1>8, <2>1
    <2>2. CASE f = split
      BY <1>1, <1>6, <2>2
    <2>3. CASE f = audio
      BY <1>1, <1>7, <2>3
    <2>4. CASE \E i \in 1..n : f = scale(i)
      BY <1>1, <1>7, <2>4
    <2>. QED BY <1>2, <2>1, <2>2, <2>3, <2>4
  <1>10. \A f \in graph : \A p \in f.in : p \in SourcePads \/ \E g \in graph : p \in g.out
    <2>. SUFFICES ASSUME NEW f \in graph, NEW p \in f.in
                  PROVE  p \in SourcePads \/ \E g \in graph : p \in g.out
      OBVIOUS
    <2>1. CASE f \in overlay
      BY <1>2, <2>1 DEF Apart
    <2>2. CASE f = split
      BY <1>1, <1>2, <1>4, <2>2 DEF Apart
    <2>3. CASE f = audio
      BY <1>1, <1>4, <2>3
    <2>4. CASE \E i \in 1..n : f = scale(i)
      BY <1>1, <1>2, <2>4
    <2>. QED BY <1>2, <2>1, <2>2, <2>3, <2>4
  <1>11. \A p \in maps : p \in SourcePads \/ \E g \in graph : p \in g.out
    BY <1>1, <1>2, <1>3
  <1>12. files = 2 <=> \E f \in graph : Mark \in f.in
    <2>1. Mark \notin split.in /\ Mark \notin audio.in /\ \A i \in 1..n : Mark \notin scale(i).in
      BY <1>1, <1>4, <1>5 DEF Apart
    <2>2. (\E f \in graph : Mark \in f.in) <=> \E f \in overlay : Mark \in f.in
      BY <1>2, <2>1
    <2>. QED BY <2>2
  <1>13. Wired(Command(files, graph, maps, variants, playlist))
    BY <1>9, <1>10, <1>11, <1>12, WiredIf
  <1>. QED BY <1>13 DEF graph, maps

LEMMA MultiWired == ASSUME NEW o, o.rends \in Nat PROVE Wired(MultiCommand(o))
  <1>. DEFINE from == First(o, "base_out")
              overlay == IF WatermarkShown(o) THEN Overlay(Pad("base_out", 0)) ELSE {}
  <1>1. Apart(overlay, from) /\ (InputFiles(o) = 2 <=> \E f \in overlay : Mark \in f.in)
    <2>1. CASE ~WatermarkShown(o)
      <3>1. overlay = {} /\ from = Video /\ InputFiles(o) = 1
        BY <2>1 DEF First, InputFiles
      <3>2. \A a \in {"v", "vo", "a"}, i \in Nat : Video # Pad(a, i)
        BY PadsDiffer DEF Video
      <3>3. Video # Audio /\ Video # Mark
        BY PadsDiffer DEF Video, Audio, Mark
      <3>. HIDE DEF overlay, from
      <3>. QED BY <3>1, <3>2, <3>3 DEF Apart
    <2>2. CASE WatermarkShown(o)
      <3>. DEFINE a == Pad("wm_pre", 0)  b == Pad("wm", 0)  c == Pad("base", 0)
                  d == Pad("base_out", 0)
                  f1 == Filter({Mark}, {a})  f2 == Filter({a, Video}, {b, c})
                  f3 == Filter({b, c}, {d})
      <3>1. overlay = {f1, f2, f3} /\ from = d /\ InputFiles(o) = 2
        BY <2>2 DEF First, InputFiles, Overlay
      <3>2. /\ f1.in = {Mark} /\ f1.out = {a} /\ f2.in = {a, Video} /\ f2.out = {b, c}
            /\ f3.in = {b, c} /\ f3.out = {d}
        BY FilterFields
      <3>3. /\ a \notin {b, c, d} /\ b \notin {c, d} /\ c # d
            /\ {a, b, c, d} \cap {Video, Audio, Mark} = {} /\ Mark # Video /\ Mark # Audio
            /\ Video # Audio /\ {Video, Audio, Mark} \subseteq SourcePads
        BY PadsDiffer DEF Video, Audio, Mark, SourcePads
      <3>4. \A k \in {"v", "vo", "a"}, i \in Nat :
               /\ Pad(k, i) \notin {a, b, c, d} /\ Pad(k, i) \notin {Video, Mark}
        BY PadsDiffer DEF Video, Mark
      <3>. HIDE DEF overlay, from, a, b, c, d, f1, f2, f3
      <3>5. \A f \in overlay : \A p \in f.in \cup f.out : p \in {a, b, c, d, Video, Mark}
        BY <3>1, <3>2
      <3>6. \A f \in overlay : \A p \in f.in \cup f.out :
               \A k \in {"v", "vo", "a"}, i \in Nat : p # Pad(k, i)
        BY <3>4, <3>5
      <3>7. \A f \in overlay : Audio \notin f.in /\ from \notin f.in /\ Audio \notin f.out
        <4>1. Audio \notin {a, b, c, d, Video, Mark}
          BY <3>3
        <4>2. d \notin f1.in /\ d \notin f2.in /\ d \notin f3.in
          BY <3>2, <3>3
        <4>. QED BY <3>1, <3>5, <4>1, <4>2
      <3>8. \A f \in overlay : \A p \in f.in : p \in SourcePads \/ \E g \in overlay : p \in g.out
        BY <3>1, <3>2, <3>3
      <3>9. \A f \in overlay : \A p \in f.out :
               p = from \/ \E g \in overlay : p \in g.in /\ \A h \in overlay : p \in h.in => h = g
        <4>1. a \in f2.in /\ a \notin f1.in /\ a \notin f3.in
          BY <3>2, <3>3
        <4>2. /\ b \in f3.in /\ b \notin f1.in /\ b \notin f2.in
              /\ c \in f3.in /\ c \notin f1.in /\ c \notin f2.in
          BY <3>2, <3>3
        <4>3. \A f \in overlay : \A p \in f.out : p \in {a, b, c, d}
          BY <3>1, <3>2
        <4>. QED BY <3>1, <4>1, <4>2, <4>3
      <3>10. (\E f \in overlay : from \in f.out) /\ (\E f \in overlay : Mark \in f.in)
        BY <3>1, <3>2
      <3>11. from # Audio /\ from # Mark /\ \A k \in {"v", "vo", "a"}, i \in Nat : from # Pad(k, i)
        BY <3>1, <3>3, <3>4
      <3>. QED BY <3>1, <3>6, <3>7, <3>8, <3>9, <3>10, <3>11 DEF Apart
    <2>. QED BY <2>1, <2>2
  <1>2. MultiFilter(o) = SplitGraph(overlay, from, o.rends)
    BY DEF MultiFilter, SplitGraph, First
  <1>. HIDE DEF overlay, from
  <1>. QED BY <1>1, <1>2, SplitWired DEF MultiCommand

\* What buildFfmpegArgs does not refuse is wired, and has a map for each variant.
LEMMA CommandsWork ==
  ASSUME NEW o, o.rends \in Nat
  PROVE  /\ Wired(BuildFfmpegArgs(o)) /\ Wired(NginxCommand(o))
         /\ VariantsMapped(BuildFfmpegArgs(o))
  <1>1. Wired(BuildFfmpegArgs(o)) /\ Wired(NginxCommand(o))
    BY CopiesWired, SingleWired, MultiWired DEF BuildFfmpegArgs
  <1>2. VariantsMapped(BuildFfmpegArgs(o))
    <2>1. CASE NeedsTranscode(o) /\ IsMulti(o)
      <3>1. /\ BuildFfmpegArgs(o).variants = o.rends
            /\ BuildFfmpegArgs(o).maps = {Pad(pad, i) : pad \in {"vo", "a"}, i \in 1..o.rends}
        BY <2>1 DEF BuildFfmpegArgs, MultiCommand, Command
      <3>2. o.rends > 1
        BY <2>1 DEF IsMulti
      <3>. QED BY <3>1, <3>2 DEF VariantsMapped
    <2>2. CASE ~(NeedsTranscode(o) /\ IsMulti(o))
      <3>1. BuildFfmpegArgs(o).playlist = Playlist(o)
        BY <2>2 DEF BuildFfmpegArgs, CopyCommand, SingleCommand, Command
      <3>2. Playlist(o) # "master.m3u8"
        BY <2>2 DEF Playlist
      <3>. QED BY <3>1, <3>2 DEF VariantsMapped
    <2>. QED BY <2>1, <2>2
  <1>. QED BY <1>1, <1>2

----------------------------------------------------------------------------
(* Channels: options                                                         *)

\* A body each of whose fields is what that field may be.
Typed(body) == \A f \in DOMAIN body : f \in DOMAIN Values /\ body[f] \in Values[f]

LEMMA DrmTyped ==
  ASSUME NEW body, Typed(body), NEW mpd \in Urls PROVE Typed(DrmBody(body, mpd))
  <1>1. /\ DOMAIN Values = {"mode", "multi", "rends", "format", "mark", "declared", "queue",
                            "profile", "mpd", "keys"}
        /\ Values["mpd"] = Urls /\ Values["declared"] = Kinds \cup {"auto"}
        /\ Values["format"] = {"hls", "mpegts"}
    BY DEF Values
  <1>. SUFFICES ASSUME NEW f \in DOMAIN DrmBody(body, mpd)
                PROVE  f \in DOMAIN Values /\ DrmBody(body, mpd)[f] \in Values[f]
    BY DEF Typed
  <1>2. CASE f \in {"mpd", "declared", "format"}
    BY <1>1, <1>2 DEF DrmBody, Kinds
  <1>3. CASE f \notin {"mpd", "declared", "format"}
    <2>1. f \in DOMAIN body /\ DrmBody(body, mpd)[f] = body[f]
      BY <1>3 DEF DrmBody
    <2>. QED BY <2>1 DEF Typed
  <1>. QED BY <1>2, <1>3

LEMMA Detected == \A url \in Urls : DetectInputType(url) \in Kinds \cup {"auto"}
  BY DEF DetectInputType

OptionSet == {"mode", "multi", "rends", "format", "mark", "declared", "queue", "profile"}
LEMMA OptionsHave ==
  ASSUME NEW extra PROVE
    /\ extra \in OptionsType => \A f \in OptionSet : extra[f] \in Values[f]
    /\ Values["mode"] = {"copy", "transcode"} /\ Values["multi"] = BOOLEAN
    /\ Values["rends"] = 1..4 /\ Values["format"] = {"hls", "mpegts"}
    /\ Values["mark"] = BOOLEAN /\ Values["declared"] = Kinds \cup {"auto"}
    /\ Values["queue"] = SUBSET Urls /\ Values["profile"] = ProfileIds \cup {NoProfile}
    /\ Values["mpd"] = Urls /\ Values["keys"] = BOOLEAN
  <1>1. /\ Values["mode"] = {"copy", "transcode"} /\ Values["multi"] = BOOLEAN
        /\ Values["rends"] = 1..4 /\ Values["format"] = {"hls", "mpegts"}
        /\ Values["mark"] = BOOLEAN /\ Values["declared"] = Kinds \cup {"auto"}
        /\ Values["queue"] = SUBSET Urls /\ Values["profile"] = ProfileIds \cup {NoProfile}
        /\ Values["mpd"] = Urls /\ Values["keys"] = BOOLEAN
    BY DEF Values
  <1>2. ASSUME extra \in OptionsType, NEW f \in OptionSet PROVE extra[f] \in Values[f]
    <2>. HIDE DEF Values
    <2>. QED BY <1>1, <1>2 DEF OptionSet, OptionsType
  <1>. QED BY <1>1, <1>2

LEMMA KeptIn ==
  ASSUME NEW body, Typed(body), NEW old, old = NoChannel \/ old \in ChannelType,
         NEW f \in OptionSet, NEW default \in Values[f]
  PROVE  Kept(f, body, old, default) \in Values[f]
  <1>1. CASE Names(body, f)
    BY <1>1 DEF Kept, Names, Typed
  <1>2. CASE ~Names(body, f) /\ old # NoChannel
    <2>1. old.opts \in OptionsType
      BY <1>2 DEF ChannelType
    <2>. QED BY <1>2, <2>1, OptionsHave DEF Kept
  <1>3. CASE ~Names(body, f) /\ old = NoChannel
    BY <1>3 DEF Kept
  <1>. QED BY <1>1, <1>2, <1>3

LEMMA MergeType ==
  ASSUME NEW body, Typed(body), NEW old, old = NoChannel \/ old \in ChannelType
  PROVE  /\ Merge(body, old) \in OptionsType
         /\ old = NoChannel => Merge(body, old).queue = IF Names(body, "queue") THEN body.queue ELSE {}
  <1>1. MergedOutputMode(body, old) \in {"copy", "transcode"}
    BY KeptIn, OptionsHave DEF MergedOutputMode, OptionSet
  <1>2. MergedRenditionMode(body, old) \in BOOLEAN
    BY KeptIn, OptionsHave DEF MergedRenditionMode, OptionSet
  <1>3. MergedRenditions(body, old) \in 1..4
    BY KeptIn, OptionsHave, 1 \in 1..4 DEF MergedRenditions, OptionSet
  <1>4. MergedFormat(body, old) \in {"hls", "mpegts"}
    BY KeptIn, OptionsHave DEF MergedFormat, OptionSet
  <1>5. MergedWatermark(body, old) \in BOOLEAN
    BY KeptIn, OptionsHave DEF MergedWatermark, OptionSet
  <1>6. MergedInputType(body, old) \in Kinds \cup {"auto"}
    <2>1. Names(body, "mpd") => body.mpd \in Urls
      BY OptionsHave DEF Typed, Names
    <2>2. (IF Names(body, "mpd") THEN DetectInputType(body.mpd) ELSE "auto") \in Kinds \cup {"auto"}
      BY <2>1, Detected
    <2>. QED BY <2>2, KeptIn, OptionsHave DEF MergedInputType, OptionSet
  <1>7. MergedQueue(body, old) \in SUBSET Urls
    BY KeptIn, OptionsHave DEF MergedQueue, OptionSet
  <1>8. Kept("profile", body, old, NoProfile) \in ProfileIds \cup {NoProfile}
    BY KeptIn, OptionsHave DEF OptionSet
  <1>9. old = NoChannel => MergedQueue(body, old) = IF Names(body, "queue") THEN body.queue ELSE {}
    BY DEF MergedQueue, Kept
  <1>. QED BY <1>1, <1>2, <1>3, <1>4, <1>5, <1>6, <1>7, <1>8, <1>9 DEF Merge, OptionsType

----------------------------------------------------------------------------
(* Channels: what holds of one, and of the requests under way                *)

\* A channel that is not a movie keeps what it was checked for.
Runs(o) ==
  /\ ~MpegtsMultiConflict(o.opts)
  /\ o.class = "normal" /\ HasDash(ChannelSources(o), o.opts.declared) => o.keys
Good(o) == o = NoChannel \/ (o \in ChannelType /\ (o.class # "movie" => Runs(o)))

\* What a request was admitted with; `o` is the channel as it is now.  A channel,
\* once there, stays and keeps its class.
Admits(route, body, extra, o) ==
  /\ route = "put" => o # NoChannel /\ o.class = "normal"
  /\ route = "movie" => o # NoChannel /\ o.class = "movie" /\ Names(body, "mpd")
  /\ route = "drm" => o # NoChannel /\ o.class = "drm"
  /\ route = "post" => Names(body, "mpd") \/ extra.queue # {}
  /\ route \in {"import", "newmovie", "newdrm"} => Names(body, "mpd")
  /\ route = "import" => extra.queue = {}
EditsFit ==
  \A e \in Edits : edits[e] # None => Admits(edits[e].kind, edits[e].body, edits[e].extra, obj)

CoInv ==
  /\ Good(obj)
  /\ table \in [ProfileIds -> ProfileType \cup {NoProfile}]
  /\ edits \in [Edits -> EditType \cup {None}]
  /\ EditsFit

\* What a step leaves of a channel.
Stays(before, after) ==
  before # NoChannel => after # NoChannel /\ after.class = before.class

LEMMA AdmitsStill ==
  ASSUME NEW route, NEW body, NEW extra, NEW before, NEW after, Stays(before, after),
         Admits(route, body, extra, before)
  PROVE  Admits(route, body, extra, after)
  BY DEF Admits, Stays

LEMMA OverrideType ==
  ASSUME CoInv, NEW extra \in OptionsType
  PROVE  ProfileOverride(extra) \in OptionsType /\ ProfileOverride(extra).queue = extra.queue
  <1>. DEFINE tp == IF extra.profile = NoProfile THEN NoProfile ELSE table[extra.profile]
  <1>1. tp = NoProfile \/ tp \in ProfileType
    <2>1. extra.profile \in ProfileIds \cup {NoProfile}
      BY DEF OptionsType
    <2>. QED BY <2>1 DEF CoInv
  <1>2. ProfileOverride(extra) =
          IF tp = NoProfile THEN extra
          ELSE [extra EXCEPT !.mode = tp.mode, !.multi = tp.multi, !.rends = tp.rends]
    BY DEF ProfileOverride
  <1>. HIDE DEF tp
  <1>3. ASSUME tp \in ProfileType
        PROVE  [extra EXCEPT !.mode = tp.mode, !.multi = tp.multi, !.rends = tp.rends] \in
                 {x \in OptionsType : x.queue = extra.queue}
    BY <1>3 DEF ProfileType, OptionsType
  <1>. QED BY <1>1, <1>2, <1>3

LEMMA NamedUrl ==
  ASSUME NEW body, Typed(body)
  PROVE  /\ Names(body, "mpd") => body.mpd \in Urls
         /\ Names(body, "keys") => body.keys \in BOOLEAN
         /\ Names(body, "queue") => body.queue \in SUBSET Urls
  BY OptionsHave DEF Typed, Names

LEMMA ChannelIs ==
  ASSUME NEW class \in Classes, NEW extra \in OptionsType, NEW mpd \in Urls, NEW keys \in BOOLEAN,
         NEW running \in BOOLEAN
  PROVE  LET c == Channel(class, extra, mpd, keys, running)
         IN /\ c \in ChannelType /\ c # NoChannel /\ c.class = class /\ c.opts = extra
            /\ c.mpd = mpd /\ c.keys = keys
            /\ ChannelSources(c) = IF extra.queue # {} THEN extra.queue ELSE {mpd}
  <1>. DEFINE c == Channel(class, extra, mpd, keys, running)
  <1>1. c \in ChannelType /\ c.class = class /\ c.opts = extra /\ c.mpd = mpd /\ c.keys = keys
    BY DEF Channel, ChannelType
  <1>2. c # NoChannel
    BY <1>1, BodiesAssumption
  <1>. QED BY <1>1, <1>2 DEF ChannelSources

LEMMA KeysAfterType ==
  ASSUME NEW body, Typed(body), NEW old, old = NoChannel \/ old \in ChannelType
  PROVE  KeysAfter(body, old) \in BOOLEAN
  BY NamedUrl DEF KeysAfter, ChannelType

LEMMA SourceAfterType ==
  ASSUME NEW body, Typed(body), NEW extra \in OptionsType, NEW old,
         Names(body, "mpd") \/ extra.queue # {} \/ old \in ChannelType
  PROVE  SourceAfter(body, extra, old) \in Urls
  <1>1. extra.queue \subseteq Urls
    BY DEF OptionsType
  <1>2. extra.queue # {} => FirstOf(extra.queue) \in extra.queue
    BY DEF FirstOf
  <1>3. old \in ChannelType => old.mpd \in Urls
    BY DEF ChannelType
  <1>. QED BY <1>1, <1>2, <1>3, NamedUrl DEF SourceAfter

\* A movie of any options, and a DRM stream of one rendition or HLS, are good.
LEMMA MovieGood ==
  ASSUME NEW extra \in OptionsType, NEW mpd \in Urls, NEW keys \in BOOLEAN,
         NEW running \in BOOLEAN, NEW body, body.mpd \in Urls
  PROVE  LET c == Channel("movie", MovieOptions(body, extra), mpd, keys, running)
         IN Good(c) /\ c # NoChannel /\ c.class = "movie"
  <1>1. MovieOptions(body, extra) \in OptionsType
    BY DEF MovieOptions, OptionsType
  <1>2. "movie" \in Classes
    BY DEF Classes
  <1>. QED BY <1>1, <1>2, ChannelIs DEF Good

LEMMA OneRenditionFits ==
  ASSUME NEW extra \in OptionsType
  PROVE  OneRendition(extra) \in OptionsType /\ ~MpegtsMultiConflict(OneRendition(extra))
  <1>1. CASE extra.format = "mpegts" /\ extra.multi
    <2>1. OneRendition(extra) = [extra EXCEPT !.multi = FALSE]
      BY <1>1 DEF OneRendition
    <2>2. [extra EXCEPT !.multi = FALSE] \in OptionsType /\ ~[extra EXCEPT !.multi = FALSE].multi
      BY DEF OptionsType
    <2>. QED BY <2>1, <2>2 DEF MpegtsMultiConflict
  <1>2. CASE ~(extra.format = "mpegts" /\ extra.multi)
    BY <1>2 DEF OneRendition, MpegtsMultiConflict
  <1>. QED BY <1>1, <1>2

LEMMA DrmGood ==
  ASSUME NEW extra \in OptionsType, NEW mpd \in Urls, NEW keys \in BOOLEAN,
         NEW running \in BOOLEAN
  PROVE  LET c == Channel("drm", OneRendition(extra), mpd, keys, running)
         IN Good(c) /\ c # NoChannel
  <1>. DEFINE opts == OneRendition(extra)
              c == Channel("drm", opts, mpd, keys, running)
  <1>1. opts \in OptionsType /\ ~MpegtsMultiConflict(opts)
    BY OneRenditionFits
  <1>2. "drm" \in Classes
    BY DEF Classes
  <1>. HIDE DEF opts
  <1>3. c \in ChannelType /\ c # NoChannel /\ c.class = "drm" /\ c.opts = opts
    BY <1>1, <1>2, ChannelIs
  <1>. HIDE DEF c
  <1>4. Good(c) /\ c # NoChannel
    BY <1>1, <1>3 DEF Good, Runs
  <1>. QED BY <1>4 DEF c, opts

\* A normal channel stored after its checks is good.
LEMMA CheckedGood ==
  ASSUME NEW extra \in OptionsType, NEW mpd \in Urls, NEW keys \in BOOLEAN,
         NEW running \in BOOLEAN, NEW sources,
         sources = IF extra.queue # {} THEN extra.queue ELSE {mpd},
         ~(HasDash(sources, extra.declared) /\ ~keys), ~MpegtsMultiConflict(extra)
  PROVE  LET c == Channel("normal", extra, mpd, keys, running)
         IN Good(c) /\ c # NoChannel /\ c.class = "normal"
  <1>1. "normal" \in Classes
    BY DEF Classes
  <1>. DEFINE c == Channel("normal", extra, mpd, keys, running)
  <1>2. /\ c \in ChannelType /\ c # NoChannel /\ c.class = "normal" /\ c.opts = extra
        /\ c.keys = keys /\ ChannelSources(c) = sources
    BY <1>1, ChannelIs
  <1>. HIDE DEF c
  <1>3. Runs(c)
    BY <1>2 DEF Runs
  <1>4. Good(c) /\ c # NoChannel /\ c.class = "normal"
    BY <1>2, <1>3 DEF Good
  <1>. QED BY <1>4 DEF c

LEMMA SettleKeeps ==
  ASSUME NEW route \in EditKinds, NEW body, Typed(body), NEW extra \in OptionsType, NEW old,
         Good(obj), Admits(route, body, extra, obj),
         route = "drm" => Good(old) /\ old # NoChannel /\ old.class = "drm",
         Settle(route, body, extra, old)
  PROVE  Good(obj') /\ Stays(obj, obj')
  <1>1. obj = NoChannel \/ obj \in ChannelType
    BY DEF Good
  <1>2. ASSUME NEW c, Good(c), Create(c), c # NoChannel PROVE Good(obj') /\ Stays(obj, obj')
    BY <1>2 DEF Create, Stays
  <1>3. Refuse => Good(obj') /\ Stays(obj, obj')
    BY DEF Refuse, Stays
  <1>4. CASE route = "post"
    <2>. DEFINE mpd == SourceAfter(body, extra, NoChannel)
                sources == IF extra.queue # {} THEN extra.queue ELSE {mpd}
                keys == KeysAfter(body, NoChannel)
                c == Channel("normal", extra, mpd, keys, FALSE)
    <2>1. mpd \in Urls /\ keys \in BOOLEAN
      <3>1. Names(body, "mpd") \/ extra.queue # {}
        BY <1>4 DEF Admits
      <3>. QED BY <3>1, SourceAfterType, KeysAfterType
    <2>2. \/ Refuse
          \/ ~(HasDash(sources, extra.declared) /\ ~keys) /\ ~MpegtsMultiConflict(extra) /\ Create(c)
      BY <1>4 DEF Settle, PostChannel
    <2>3. ASSUME ~(HasDash(sources, extra.declared) /\ ~keys), ~MpegtsMultiConflict(extra)
          PROVE  Good(c) /\ c # NoChannel
      BY <2>1, <2>3, CheckedGood, FALSE \in BOOLEAN
    <2>. HIDE DEF c, sources, keys, mpd
    <2>. QED BY <1>2, <1>3, <2>2, <2>3
  <1>5. CASE route = "put"
    <2>. DEFINE mpd == SourceAfter(body, extra, obj)
                sources == IF extra.queue # {} THEN extra.queue ELSE {mpd}
                keys == KeysAfter(body, obj)
                c == Channel("normal", extra, mpd, keys, obj.running)
    <2>1. obj \in ChannelType /\ obj.class = "normal" /\ obj.running \in BOOLEAN
      BY <1>1, <1>5 DEF Admits, ChannelType
    <2>2. mpd \in Urls /\ keys \in BOOLEAN
      BY <2>1, SourceAfterType, KeysAfterType
    <2>3. \/ Refuse
          \/ ~(HasDash(sources, extra.declared) /\ ~keys) /\ ~MpegtsMultiConflict(extra) /\ obj' = c
      BY <1>5 DEF Settle, PutChannel
    <2>4. ASSUME ~(HasDash(sources, extra.declared) /\ ~keys), ~MpegtsMultiConflict(extra)
          PROVE  Good(c) /\ c # NoChannel /\ c.class = "normal"
      BY <2>1, <2>2, <2>4, CheckedGood
    <2>. HIDE DEF c, sources, keys, mpd
    <2>. QED BY <1>3, <2>1, <2>3, <2>4 DEF Stays
  <1>6. CASE route = "import"
    <2>. DEFINE keys == KeysAfter(body, NoChannel)
                c == Channel("normal", extra, body.mpd, keys, FALSE)
    <2>1. body.mpd \in Urls /\ keys \in BOOLEAN /\ extra.queue = {}
      BY <1>6, NamedUrl, KeysAfterType DEF Admits
    <2>2. \/ Refuse
          \/ ~(HasDash({body.mpd}, extra.declared) /\ ~keys) /\ ~MpegtsMultiConflict(extra) /\ Create(c)
      BY <1>6 DEF Settle, CreateImportedChannel
    <2>3. ASSUME ~(HasDash({body.mpd}, extra.declared) /\ ~keys), ~MpegtsMultiConflict(extra)
          PROVE  Good(c) /\ c # NoChannel
      BY <2>1, <2>3, CheckedGood, FALSE \in BOOLEAN
    <2>. HIDE DEF c, keys
    <2>. QED BY <1>2, <1>3, <2>2, <2>3
  <1>7. CASE route = "newmovie"
    <2>. DEFINE c == Channel("movie", MovieOptions(body, extra), body.mpd, FALSE, FALSE)
    <2>1. body.mpd \in Urls
      BY <1>7, NamedUrl DEF Admits
    <2>2. Good(c) /\ c # NoChannel
      BY <2>1, MovieGood, FALSE \in BOOLEAN
    <2>3. Refuse \/ Create(c)
      BY <1>7 DEF Settle, PostMovie
    <2>. HIDE DEF c
    <2>. QED BY <1>2, <1>3, <2>2, <2>3
  <1>8. CASE route = "movie"
    <2>. DEFINE c == Channel("movie", MovieOptions(body, extra), body.mpd, obj.keys, obj.running)
    <2>1. body.mpd \in Urls /\ obj \in ChannelType /\ obj.class = "movie"
      BY <1>1, <1>8, NamedUrl DEF Admits
    <2>2. obj.keys \in BOOLEAN /\ obj.running \in BOOLEAN
      BY <2>1 DEF ChannelType
    <2>3. Good(c) /\ c # NoChannel /\ c.class = "movie"
      BY <2>1, <2>2, MovieGood
    <2>4. Refuse \/ obj' = c
      BY <1>8 DEF Settle, PutMovie
    <2>. HIDE DEF c
    <2>. QED BY <1>3, <2>1, <2>3, <2>4 DEF Stays
  <1>9. CASE route = "newdrm"
    <2>. DEFINE c == Channel("drm", OneRendition(extra), body.mpd, TRUE, FALSE)
    <2>1. body.mpd \in Urls
      BY <1>9, NamedUrl DEF Admits
    <2>2. Good(c) /\ c # NoChannel
      BY <2>1, DrmGood, FALSE \in BOOLEAN, TRUE \in BOOLEAN
    <2>3. Create(c)
      BY <1>9 DEF Settle, PostDrm
    <2>. HIDE DEF c
    <2>. QED BY <1>2, <2>2, <2>3
  <1>10. CASE route = "drm"
    <2>. DEFINE opts == OneRendition(extra)
    <2>1. old \in ChannelType /\ old.class = "drm" /\ obj # NoChannel /\ obj.class = "drm"
      BY <1>10 DEF Good, Admits
    <2>2. opts \in OptionsType /\ ~MpegtsMultiConflict(opts)
      BY OneRenditionFits
    <2>3. obj' = [old EXCEPT !.opts = opts]
      BY <1>10 DEF Settle, PutDrm
    <2>. HIDE DEF opts
    <2>4. obj' \in ChannelType /\ obj'.class = "drm" /\ obj'.opts = opts
      BY <2>1, <2>2, <2>3 DEF ChannelType
    <2>5. obj' # NoChannel
      BY <2>4, BodiesAssumption
    <2>. QED BY <2>1, <2>2, <2>4, <2>5 DEF Good, Runs, Stays
  <1>. QED BY <1>4, <1>5, <1>6, <1>7, <1>8, <1>9, <1>10 DEF EditKinds

----------------------------------------------------------------------------
(* Channels: steps                                                           *)

LEMMA FitKeeps ==
  ASSUME EditsFit, Stays(obj, obj'), edits' = edits PROVE EditsFit'
  BY AdmitsStill DEF EditsFit

LEMMA BeginKeeps ==
  ASSUME CoInv, NEW e \in Edits, NEW route \in EditKinds, NEW body \in Bodies, Begin(e, route, body)
  PROVE  CoInv'
  <1>. DEFINE drm == route \in {"drm", "newdrm"}
              mpd == IF Names(body, "mpd") THEN body.mpd ELSE obj.mpd
              old == IF route = "drm" THEN [obj EXCEPT !.mpd = mpd, !.running = FALSE]
                     ELSE IF Creates(route) THEN NoChannel ELSE obj
              used == IF drm THEN DrmBody(body, mpd) ELSE body
              extra == Merge(used, old)
  <1>1. Typed(body)
    BY BodiesAssumption DEF Typed
  <1>2. obj = NoChannel \/ obj \in ChannelType
    BY DEF CoInv, Good
  <1>3. Admitted(route, body) /\ table' = table
    BY DEF Begin
  <1>4. /\ route \in {"put", "movie", "drm"} => obj # NoChannel
        /\ Creates(route) => obj = NoChannel
        /\ route = "put" => obj.class = "normal"
        /\ route = "movie" => obj.class = "movie" /\ Names(body, "mpd")
        /\ route = "drm" => obj.class = "drm"
        /\ route = "post" => Names(body, "mpd") \/ (Names(body, "queue") /\ body.queue # {})
        /\ route \in {"import", "newmovie", "newdrm"} => Names(body, "mpd")
        /\ route = "import" => ~Names(body, "queue")
    BY <1>3 DEF Admitted, Creates, EditKinds
  <1>5. drm => mpd \in Urls
    <2>1. route = "newdrm" => mpd \in Urls
      BY <1>1, <1>4, NamedUrl
    <2>2. route = "drm" => mpd \in Urls
      BY <1>1, <1>2, <1>4, NamedUrl DEF ChannelType
    <2>. QED BY <2>1, <2>2
  <1>6. Typed(used)
    BY <1>1, <1>5, DrmTyped
  <1>7. route = "drm" => Good(old) /\ old # NoChannel /\ old.class = "drm" /\ old.opts = obj.opts
    <2>. SUFFICES ASSUME route = "drm"
                  PROVE  Good(old) /\ old # NoChannel /\ old.class = "drm" /\ old.opts = obj.opts
      OBVIOUS
    <2>1. obj \in ChannelType /\ obj.class = "drm" /\ Runs(obj)
      BY <1>4 DEF CoInv, Good
    <2>2. old = [obj EXCEPT !.mpd = mpd, !.running = FALSE] /\ mpd \in Urls
      BY <1>5
    <2>. HIDE DEF mpd, old
    <2>3. old \in ChannelType /\ old.class = "drm" /\ old.opts = obj.opts
      BY <2>1, <2>2 DEF ChannelType
    <2>4. old # NoChannel
      BY <2>3, BodiesAssumption
    <2>. QED BY <2>1, <2>3, <2>4 DEF Good, Runs
  <1>8. old = NoChannel \/ old \in ChannelType
    BY <1>2, <1>7 DEF Good
  <1>9. /\ extra \in OptionsType
        /\ old = NoChannel => extra.queue = IF Names(used, "queue") THEN used.queue ELSE {}
    <2>. HIDE DEF used, old
    <2>. QED BY <1>6, <1>8, MergeType
  <1>10. Admits(route, body, extra, obj)
    <2>1. route = "post" => Names(body, "mpd") \/ extra.queue # {}
      BY <1>4, <1>9 DEF Creates
    <2>2. route = "import" => extra.queue = {}
      BY <1>4, <1>9 DEF Creates
    <2>. HIDE DEF extra, old
    <2>. QED BY <1>4, <2>1, <2>2 DEF Admits
  <1>11. CASE extra.profile = NoProfile
    <2>1. Settle(route, body, extra, old) /\ edits' = edits
      BY <1>11 DEF Begin
    <2>. HIDE DEF extra, old
    <2>2. Good(obj') /\ Stays(obj, obj')
      BY <1>1, <1>7, <1>9, <1>10, <2>1, SettleKeeps DEF CoInv
    <2>3. EditsFit'
      BY <2>1, <2>2, FitKeeps DEF CoInv
    <2>. QED BY <1>3, <2>1, <2>2, <2>3 DEF CoInv
  <1>12. CASE extra.profile # NoProfile
    <2>1. /\ edits' = [edits EXCEPT ![e] = [kind |-> route, body |-> body, extra |-> extra]]
          /\ obj' = IF route = "drm" THEN old ELSE obj
      BY <1>12 DEF Begin
    <2>. HIDE DEF extra, old, mpd, used, drm
    <2>2. Good(obj') /\ Stays(obj, obj')
      BY <1>4, <1>7, <2>1 DEF CoInv, Stays
    <2>. DEFINE new == [kind |-> route, body |-> body, extra |-> extra]
    <2>3. new \in EditType /\ new.kind = route /\ new.body = body /\ new.extra = extra
      BY <1>9 DEF EditType
    <2>. HIDE DEF new
    <2>4. edits' = [edits EXCEPT ![e] = new]
      BY <2>1 DEF new
    <2>5. edits' \in [Edits -> EditType \cup {None}]
      BY <2>3, <2>4 DEF CoInv
    <2>6. edits'[e] = new /\ \A d \in Edits : d # e => edits'[d] = edits[d]
      BY <2>4 DEF CoInv
    <2>7. ASSUME NEW d \in Edits, edits'[d] # None
          PROVE  Admits(edits'[d].kind, edits'[d].body, edits'[d].extra, obj')
      <3>1. CASE d = e
        BY <1>10, <2>2, <2>3, <2>6, <3>1, AdmitsStill
      <3>2. CASE d # e
        <4>1. Admits(edits[d].kind, edits[d].body, edits[d].extra, obj)
          BY <2>6, <2>7, <3>2 DEF CoInv, EditsFit
        <4>. QED BY <2>2, <2>6, <3>2, <4>1, AdmitsStill
      <3>. QED BY <3>1, <3>2
    <2>. QED BY <1>3, <2>2, <2>5, <2>7 DEF CoInv, EditsFit
  <1>. QED BY <1>11, <1>12

LEMMA ProfileReadKeeps ==
  ASSUME CoInv, NEW e \in Edits, ProfileRead(e) PROVE CoInv'
  <1>. DEFINE route == edits[e].kind  body == edits[e].body
              extra == ProfileOverride(edits[e].extra)
  <1>1. /\ edits[e] # None /\ Settle(route, body, extra, obj)
        /\ edits' = [edits EXCEPT ![e] = None] /\ table' = table
    BY DEF ProfileRead
  <1>2. route \in EditKinds /\ body \in Bodies /\ edits[e].extra \in OptionsType
    BY <1>1 DEF CoInv, EditType
  <1>3. Typed(body)
    BY <1>2, BodiesAssumption DEF Typed
  <1>4. extra \in OptionsType /\ extra.queue = edits[e].extra.queue
    BY <1>2, OverrideType
  <1>5. Admits(route, body, edits[e].extra, obj)
    BY <1>1 DEF CoInv, EditsFit
  <1>. HIDE DEF route, body, extra
  <1>6. Admits(route, body, extra, obj)
    BY <1>4, <1>5 DEF Admits
  <1>7. Good(obj') /\ Stays(obj, obj')
    <2>1. route = "drm" => Good(obj) /\ obj # NoChannel /\ obj.class = "drm"
      BY <1>6 DEF CoInv, Admits
    <2>. QED BY <1>1, <1>2, <1>3, <1>4, <1>6, <2>1, SettleKeeps DEF CoInv
  <1>8. edits' \in [Edits -> EditType \cup {None}]
    BY <1>1 DEF CoInv
  <1>9. EditsFit'
    <2>1. \A d \in Edits : edits'[d] # None => edits'[d] = edits[d]
      BY <1>1 DEF CoInv
    <2>. QED BY <1>7, <2>1, AdmitsStill DEF CoInv, EditsFit
  <1>. QED BY <1>1, <1>7, <1>8, <1>9 DEF CoInv

\* What was checked of a channel is what it was.
Alike(before, after) ==
  /\ after \in ChannelType /\ after.class = before.class /\ after.keys = before.keys
  /\ after.opts.format = before.opts.format /\ after.opts.multi = before.opts.multi
  /\ after.opts.rends = before.opts.rends /\ after.opts.declared = before.opts.declared
  /\ ChannelSources(after) = ChannelSources(before)

\* Starting, stopping and the stability fix change neither what was checked nor
\* the class.
LEMMA ChannelStepKeeps ==
  ASSUME CoInv,
         \/ \E url \in Urls : StartSource(url)
         \/ StopChannel
         \/ \E mode \in {"copy", "transcode"} : StabilityMode(mode)
  PROVE  CoInv'
  <1>1. obj \in ChannelType /\ table' = table /\ edits' = edits /\ obj # NoChannel
    BY DEF CoInv, Good, StartSource, StopChannel, StabilityMode
  <1>2. /\ obj.opts \in OptionsType /\ obj.class \in Classes /\ obj.mpd \in Urls
        /\ obj.keys \in BOOLEAN /\ obj.running \in BOOLEAN
    BY <1>1 DEF ChannelType
  <1>3. Alike(obj, obj')
    <2>1. ASSUME NEW url \in Urls, StartSource(url)
          PROVE  Alike(obj, obj')
      <3>1. PICK running \in BOOLEAN : obj' = [obj EXCEPT !.mpd = url, !.running = running]
        BY <2>1 DEF StartSource, Refuses
      <3>2. /\ obj' \in ChannelType /\ obj'.class = obj.class /\ obj'.keys = obj.keys
            /\ obj'.opts = obj.opts /\ obj'.mpd = url
        BY <1>1, <3>1 DEF ChannelType
      <3>3. url \in ChannelSources(obj)
        BY <2>1 DEF StartSource
      <3>4. ChannelSources(obj') = ChannelSources(obj)
        BY <3>2, <3>3 DEF ChannelSources
      <3>. QED BY <3>2, <3>4 DEF Alike
    <2>2. ASSUME StopChannel
          PROVE  Alike(obj, obj')
      <3>1. obj' = [obj EXCEPT !.running = FALSE]
        BY <2>2 DEF StopChannel
      <3>2. /\ obj' \in ChannelType /\ obj'.class = obj.class /\ obj'.keys = obj.keys
            /\ obj'.opts = obj.opts /\ obj'.mpd = obj.mpd
        BY <1>1, <3>1 DEF ChannelType
      <3>. QED BY <3>2 DEF Alike, ChannelSources
    <2>3. ASSUME NEW mode \in {"copy", "transcode"}, StabilityMode(mode)
          PROVE  Alike(obj, obj')
      <3>. DEFINE opts == [obj.opts EXCEPT !.mode = mode]
      <3>1. /\ opts \in OptionsType /\ opts.format = obj.opts.format
            /\ opts.multi = obj.opts.multi /\ opts.rends = obj.opts.rends
            /\ opts.declared = obj.opts.declared /\ opts.queue = obj.opts.queue
        BY <1>2 DEF OptionsType
      <3>. HIDE DEF opts
      <3>2. obj' = [obj EXCEPT !.opts = opts]
        BY <1>1, <2>3 DEF StabilityMode, opts
      <3>3. /\ obj' \in ChannelType /\ obj'.class = obj.class /\ obj'.keys = obj.keys
            /\ obj'.opts = opts /\ obj'.mpd = obj.mpd
        BY <1>1, <3>1, <3>2 DEF ChannelType
      <3>. QED BY <3>1, <3>3 DEF Alike, ChannelSources
    <2>. QED BY <2>1, <2>2, <2>3
  <1>4. obj' # NoChannel
    BY <1>3, BodiesAssumption DEF Alike
  <1>5. Good(obj') /\ Stays(obj, obj')
    BY <1>1, <1>3, <1>4 DEF CoInv, Good, Alike, Runs, MpegtsMultiConflict, Stays
  <1>6. EditsFit'
    BY <1>1, <1>5, FitKeeps DEF CoInv
  <1>. QED BY <1>1, <1>5, <1>6 DEF CoInv

LEMMA ProfilesKeep ==
  ASSUME CoInv, NEW p \in ProfileIds, NEW data \in ProfilesSaved,
         \/ CreateTranscodeProfile(p, data) \/ UpdateTranscodeProfile(p, data)
         \/ DeleteTranscodeProfile(p)
  PROVE  CoInv'
  <1>1. data \in ProfileType
    <2>1. /\ [mode |-> "copy", multi |-> FALSE, rends |-> 1] \in ProfileType
          /\ [mode |-> "transcode", multi |-> TRUE, rends |-> 2] \in ProfileType
      BY 1 \in 1..4, 2 \in 1..4 DEF ProfileType
    <2>. QED BY <2>1 DEF ProfilesSaved
  <1>2. PICK row \in ProfileType \cup {NoProfile} : table' = [table EXCEPT ![p] = row]
    BY <1>1 DEF CreateTranscodeProfile, UpdateTranscodeProfile, DeleteTranscodeProfile
  <1>3. obj' = obj /\ edits' = edits
    BY DEF CreateTranscodeProfile, UpdateTranscodeProfile, DeleteTranscodeProfile
  <1>4. Stays(obj, obj')
    BY <1>3 DEF Stays
  <1>5. EditsFit'
    BY <1>3, <1>4, FitKeeps DEF CoInv
  <1>. QED BY <1>2, <1>3, <1>5 DEF CoInv

LEMMA CoStart == CoInit => CoInv
  BY DEF CoInit, CoInv, Good, EditsFit

LEMMA CoStep == CoInv /\ [CoNext]_coVars => CoInv'
  <1>. SUFFICES ASSUME CoInv, [CoNext]_coVars PROVE CoInv'
    OBVIOUS
  <1>1. CASE \E e \in Edits, route \in EditKinds, body \in Bodies : Begin(e, route, body)
    BY <1>1, BeginKeeps
  <1>2. CASE \E e \in Edits : ProfileRead(e)
    BY <1>2, ProfileReadKeeps
  <1>3. CASE \/ \E url \in Urls : StartSource(url)
             \/ StopChannel
             \/ \E mode \in {"copy", "transcode"} : StabilityMode(mode)
    BY <1>3, ChannelStepKeeps
  <1>4. CASE \E p \in ProfileIds, data \in ProfilesSaved :
               CreateTranscodeProfile(p, data) \/ UpdateTranscodeProfile(p, data)
    BY <1>4, ProfilesKeep
  <1>5. CASE \E p \in ProfileIds : DeleteTranscodeProfile(p)
    <2>1. \E data : data \in ProfilesSaved
      BY DEF ProfilesSaved
    <2>. QED BY <1>5, <2>1, ProfilesKeep
  <1>6. CASE UNCHANGED coVars
    <2>1. obj' = obj /\ table' = table /\ edits' = edits
      BY <1>6 DEF coVars
    <2>2. Stays(obj, obj')
      BY <2>1 DEF Stays
    <2>3. EditsFit'
      BY <2>1, <2>2, FitKeeps DEF CoInv
    <2>. QED BY <2>1, <2>3 DEF CoInv
  <1>. QED BY <1>1, <1>2, <1>3, <1>4, <1>5, <1>6 DEF CoNext

LEMMA GoodRuns == CoInv => StoredChannelsRun
  <1>. SUFFICES ASSUME CoInv, obj # NoChannel, obj.class # "movie"
                PROVE  StoredChannelsRun
    BY DEF StoredChannelsRun
  <1>1. obj \in ChannelType /\ Runs(obj) /\ obj.opts \in OptionsType
    BY DEF CoInv, Good, ChannelType
  <1>2. ASSUME NEW file \in {"on", "lost"}
        PROVE  LET o == OutputOf(obj, file)
                   cmd == BuildFfmpegArgs(o)
               IN /\ ~Refuses(o) /\ Wired(cmd) /\ VariantsMapped(cmd) /\ Wired(NginxCommand(o))
                  /\ NeedsTranscode(o) => Announced(o) = cmd.playlist
    <2>. DEFINE o == OutputOf(obj, file)
    <2>1. /\ o.format = obj.opts.format /\ o.multi = obj.opts.multi /\ o.rends = obj.opts.rends
      BY DEF OutputOf
    <2>. HIDE DEF o
    <2>2. o.rends \in Nat
      BY <1>1, <2>1 DEF OptionsType
    <2>3. ~Refuses(o)
      BY <1>1, <2>1 DEF Runs, MpegtsMultiConflict, Refuses, IsMulti
    <2>4. Wired(BuildFfmpegArgs(o)) /\ VariantsMapped(BuildFfmpegArgs(o)) /\ Wired(NginxCommand(o))
      BY <2>2, CommandsWork
    <2>5. BuildFfmpegArgs(o).playlist = Playlist(o)
      BY DEF BuildFfmpegArgs, CopyCommand, SingleCommand, MultiCommand, Command
    <2>6. NeedsTranscode(o) => Announced(o) = Playlist(o)
      BY DEF Announced, Playlist
    <2>. QED BY <2>3, <2>4, <2>5, <2>6 DEF o
  <1>3. ASSUME NEW url \in ChannelSources(obj), NEW options \in InputOptions,
               NEW settings \in SettingsType
        PROVE  LET in == InputOf(obj, url, options)
               IN OnceEach(BuildInputLead(in, settings)) /\ OnceEach(BuildFfprobeArgs(in))
    BY CommandsOnce
  <1>4. obj.class = "normal" /\ HasDash(ChannelSources(obj), obj.opts.declared) => obj.keys
    BY <1>1 DEF Runs
  <1>. QED BY <1>2, <1>3, <1>4 DEF StoredChannelsRun

\* Every channel that is not a movie is stored with options a command can be
\* built from.
THEOREM StoredAlwaysRun == CoSpec => []StoredChannelsRun
  <1>1. CoInit => CoInv
    BY CoStart
  <1>2. CoInv /\ [CoNext]_coVars => CoInv'
    BY CoStep
  <1>3. CoInv => StoredChannelsRun
    BY GoodRuns
  <1>. QED BY <1>1, <1>2, <1>3, PTL DEF CoSpec
=============================================================================
