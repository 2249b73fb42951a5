---------------------------- MODULE PanelAccess ------------------------------
(* Who may use the panel: access codes, users and the session of a browser.  *)
(* The session is not kept by the panel but in a cookie: every request works *)
(* on the copy it was sent with, and an answer that changed its copy         *)
(* replaces the cookie of the browser, whatever became of it since.          *)
(*                                                                           *)
(* Requests carry a valid CSRF token.  A password is right or wrong by       *)
(* choice.                                                                   *)
EXTENDS Naturals, Bags, BagsExt

CONSTANTS Users, Codes, Names, None,
          AllowRegister,          \* ALLOW_REGISTER
          MaxRequests, MaxEdits   \* bounds on requests and on edits of rows

ASSUME PanelAccessAssumption ==
  /\ "admin" \in Names /\ None \notin Users \cup Codes \cup Names
  /\ AllowRegister \in BOOLEAN /\ MaxRequests \in Nat /\ MaxEdits \in Nat

VARIABLES cookie,     \* the session the browser holds
          requests,   \* requests under way, a bag
          user,       \* users, with the flags of their groups
          code,       \* access codes
          sent, edits \* requests sent and rows edited so far

browser == <<cookie, requests, sent>>
database == <<user, code, edits>>
paVars == <<browser, database>>

Roles == {"admin", "reseller"}
\* via is the role its user logged in with: no field of the session, but what
\* the properties are about
NoSession ==
  [user |-> None, portalRole |-> None, code |-> None, name |-> None, via |-> None]
NewRequest ==
  [kind |-> "code", at |-> "code", target |-> None, session |-> NoSession,
   changed |-> FALSE, row |-> None, unread |-> Roles, flags |-> {}]

------------------------------------------------------------------------------
(* Sessions and rows                                                         *)

Enabled(k) == k # None /\ code[k].there = "yes" /\ code[k].enabled
Named(n) == {k \in Codes : Enabled(k) /\ code[k].name = n}
CanLogIn(u) == u # None /\ user[u].there = "yes" /\ user[u].active

\* clearPanelUserSession, which keeps the access code or not
ClearUser(s) == [s EXCEPT !.user = None, !.via = None]
ClearSession(s) == NoSession

\* a fault: a code that was given another role keeps the user
SyncById(s, k) ==
  [IF s.code \in {None, k} THEN s ELSE ClearUser(s)
   EXCEPT !.portalRole = code[k].role, !.name = code[k].name, !.code = k]

\* syncAccessCodeSession: an access code was visited
Sync(s, k) ==
  [IF s.code \in {None, k} /\ s.portalRole \in {None, code[k].role}
     THEN s ELSE ClearUser(s)
   EXCEPT !.portalRole = code[k].role, !.name = code[k].name, !.code = k]

\* the role of a user, of the flags of its group
RoleOf(flags) ==
  IF "admin" \in flags THEN "admin"
  ELSE IF "reseller" \in flags THEN "reseller" ELSE "user"

\* the row of the access code of a session still stands for its role
Valid(s) ==
  Enabled(s.code) /\ s.portalRole # None /\ code[s.code].role = s.portalRole

------------------------------------------------------------------------------
(* The browser                                                               *)

Send(request) ==
  /\ sent < MaxRequests
  /\ sent' = sent + 1
  /\ requests' = BagAdd(requests, [request EXCEPT !.session = cookie])
  /\ UNCHANGED <<cookie, database>>

\* the page of an access code, and /admin, which finds a code by itself
VisitCode(n) == Send([NewRequest EXCEPT !.kind = "gateway", !.target = n])
VisitAdmin == Send([NewRequest EXCEPT !.kind = "alias"])
CheckSession == Send([NewRequest EXCEPT !.kind = "me"])
DoLogin(u) == Send([NewRequest EXCEPT !.kind = "login", !.target = u])
DoLogout == Send([NewRequest EXCEPT !.kind = "logout"])
DoRegister(u) == Send([NewRequest EXCEPT !.kind = "register", !.target = u])
\* a route of the administrators, of the resellers, or of any user
Call(portal) ==
  /\ cookie.user # None    \* the others are refused at once
  /\ Send([NewRequest EXCEPT !.target = portal])

\* the answer arrives with the session if that has changed (cookie-session)
Deliver(r) ==
  /\ r.at \in {"answer", "served"}
  /\ cookie' = IF r.changed THEN r.session ELSE cookie
  /\ requests' = BagRemove(requests, r)
  /\ UNCHANGED <<sent, database>>

------------------------------------------------------------------------------
(* The handlers, one step for what they do between two awaits                *)

Turn(r, next) ==
  /\ requests' = BagAdd(BagRemove(requests, r), next)
  /\ UNCHANGED <<cookie, sent, database>>
\* an answer that leaves the cookie alone need not be followed
Answer(r, s) ==
  IF r.changed \/ s # r.session
    THEN Turn(r, [NewRequest EXCEPT !.at = "answer", !.session = s, !.changed = TRUE])
    ELSE requests' = BagRemove(requests, r) /\ UNCHANGED <<cookie, sent, database>>

\* resolveAccessCodeGatewayRow
Gateway(r) ==
  /\ r.kind = "gateway" /\ r.at = "code"
  /\ IF Named(r.target) = {} THEN Answer(r, r.session)
     ELSE \E k \in Named(r.target) : Answer(r, Sync(r.session, k))

\* resolveAdminAlias: the code named admin, else any that is enabled
AdminAlias(r) ==
  /\ r.kind = "alias" /\ r.at = "code"
  /\ LET admins == {k \in Named("admin") : code[k].role = "admin"} IN
     IF admins = {} THEN Turn(r, [r EXCEPT !.at = "list"])
     ELSE \E k \in admins : Answer(r, Sync(r.session, k))

AdminFallback(r) ==
  /\ r.at = "list"
  /\ LET admins == {k \in Codes : Enabled(k) /\ code[k].role = "admin"} IN
     IF admins = {} THEN Answer(r, r.session)
     ELSE \E k \in admins : Answer(r, Sync(r.session, k))

\* validatePanelAccessCodeSession and its like: also notes a new name
ValidateCode(r) ==
  /\ r.kind = "code" /\ r.at = "code"
  /\ IF Valid(r.session) /\ r.target \in {"any", r.session.portalRole}
       THEN Turn(r, [r EXCEPT !.session.name = code[r.session.code].name,
                              !.changed = r.session.name # code[r.session.code].name,
                              !.row = code[r.session.code].role,
                              !.at = IF r.target = "any" THEN "served" ELSE "user"])
       ELSE Answer(r, ClearSession(r.session))

\* adminAuth and resellerAuth: the user, then the flag of its group
CheckStatus(r) ==
  /\ r.kind = "code" /\ r.at = "user"
  /\ IF CanLogIn(r.session.user) THEN Turn(r, [r EXCEPT !.at = "flags"])
     ELSE Answer(r, r.session)

CheckFlag(r) ==
  /\ r.kind = "code" /\ r.at = "flags"
  /\ LET u == r.session.user IN
     IF user[u].there = "yes" /\ r.target \in user[u].flags
       THEN Turn(r, [r EXCEPT !.at = "served"])
       ELSE Answer(r, r.session)

\* getActivePortalAccessCode, for /me and /login
ActiveCode(r) ==
  /\ r.kind \in {"me", "login"} /\ r.at = "code"
  /\ IF r.kind = "me" /\ r.session.user = None THEN Answer(r, r.session)
     ELSE IF Valid(r.session)
       THEN Turn(r, [r EXCEPT !.at = "user", !.row = code[r.session.code].role])
     ELSE Answer(r, IF r.session.code = None THEN r.session
                    ELSE ClearSession(r.session))

FindUser(r) ==
  /\ r.kind \in {"me", "login"} /\ r.at = "user"
  /\ IF r.kind = "me"
       THEN IF CanLogIn(r.session.user) THEN Turn(r, [r EXCEPT !.at = "flags"])
            ELSE Answer(r, ClearUser(r.session))
       ELSE \/ CanLogIn(r.target) /\ Turn(r, [r EXCEPT !.at = "flags"])
            \/ Answer(r, r.session)

\* resolveRole asks for both flags at once; the answers come one by one
ReadFlag(r, flag) ==
  /\ r.kind \in {"me", "login"} /\ r.at = "flags" /\ flag \in r.unread
  /\ LET u == IF r.kind = "me" THEN r.session.user ELSE r.target
         has == user[u].there = "yes" /\ flag \in user[u].flags
     IN Turn(r, [r EXCEPT !.unread = @ \ {flag},
                          !.flags = IF has THEN @ \cup {flag} ELSE @])

\* the end of /me and of /login
Decide(r) ==
  /\ r.at = "flags" /\ r.unread = {}
  /\ LET agrees == RoleOf(r.flags) = r.row IN
     IF r.kind = "me"
       THEN Answer(r, IF agrees THEN r.session ELSE ClearUser(r.session))
       ELSE Answer(r, IF agrees THEN [r.session EXCEPT !.user = r.target, !.via = r.row]
                      ELSE r.session)

Logout(r) ==
  /\ r.kind = "logout" /\ r.at = "code"
  /\ Answer(r, ClearUser(r.session))

\* /register, open to the first user or where it is allowed; a new user is
\* an administrator, as the first group is
Register(r) ==
  /\ r.kind = "register" /\ r.at = "code"
  /\ IF (AllowRegister \/ \A u \in Users : user[u].there # "yes")
        /\ user[r.target].there = "no"
     THEN /\ user' = [user EXCEPT ![r.target] =
               [there |-> "yes", active |-> TRUE, flags |-> {"admin"}]]
          /\ requests' = BagAdd(BagRemove(requests, r),
               [NewRequest EXCEPT !.at = "answer", !.changed = TRUE,
                  !.session = [r.session EXCEPT !.user = r.target,
                                                !.via = "registered"]])
          /\ UNCHANGED <<cookie, sent, code, edits>>
     ELSE Answer(r, r.session)

------------------------------------------------------------------------------
(* Administrators edit rows meanwhile                                        *)

Edit == edits < MaxEdits /\ edits' = edits + 1 /\ UNCHANGED browser

\* an id is never used again; the name of a code is unique
CreateCode(k, n, role) ==
  /\ Edit /\ code[k].there = "no"
  /\ \A j \in Codes : code[j].there = "yes" => code[j].name # n
  /\ code' = [code EXCEPT ![k] =
       [there |-> "yes", enabled |-> TRUE, role |-> role, name |-> n]]
  /\ UNCHANGED user

UpdateCode(k, n, role, enabled) ==
  /\ Edit /\ code[k].there = "yes"
  /\ \A j \in Codes \ {k} : code[j].there = "yes" => code[j].name # n
  /\ code' = [code EXCEPT ![k] =
       [there |-> "yes", enabled |-> enabled, role |-> role, name |-> n]]
  /\ UNCHANGED user

DeleteCode(k) ==
  /\ Edit /\ code[k].there = "yes"
  /\ code' = [code EXCEPT ![k].there = "gone"]
  /\ UNCHANGED user

\* status, or the group of the user, or the flags of that group
UpdateUser(u, active, flags) ==
  /\ Edit /\ user[u].there = "yes"
  /\ user' = [user EXCEPT ![u].active = active, ![u].flags = flags]
  /\ UNCHANGED code

DeleteUser(u) ==
  /\ Edit /\ user[u].there = "yes"
  /\ user' = [user EXCEPT ![u].there = "gone"]
  /\ UNCHANGED code

------------------------------------------------------------------------------
\* The seeds of the database: an administrator and a code named admin, beside
\* a code of the resellers or none; a browser that has visited a code or none
PaInit ==
  /\ requests = EmptyBag
  /\ sent = 0 /\ edits = 0
  /\ \E root \in Users, k \in Codes :
       /\ user = [u \in Users |-> [there |-> IF u = root THEN "yes" ELSE "no",
                                   active |-> TRUE, flags |-> {"admin"}]]
       /\ \E second \in {"no", "yes"}, n \in Names \ {"admin"} :
            code = [j \in Codes |->
              IF j = k THEN [there |-> "yes", enabled |-> TRUE,
                             role |-> "admin", name |-> "admin"]
              ELSE [there |-> second, enabled |-> TRUE,
                    role |-> "reseller", name |-> n]]
  /\ \E k \in Codes : cookie \in {NoSession, IF Enabled(k) THEN Sync(NoSession, k)
                                            ELSE NoSession}

UnderWay == BagToSet(requests)

PaNext ==
  \/ \E n \in Names : VisitCode(n)
  \/ VisitAdmin
  \/ CheckSession
  \/ \E u \in Users : DoLogin(u)
  \/ DoLogout
  \/ \E u \in Users : DoRegister(u)
  \/ \E portal \in Roles \cup {"any"} : Call(portal)
  \/ \E r \in UnderWay : Deliver(r)
  \/ \E r \in UnderWay : Gateway(r)
  \/ \E r \in UnderWay : AdminAlias(r)
  \/ \E r \in UnderWay : AdminFallback(r)
  \/ \E r \in UnderWay : ValidateCode(r)
  \/ \E r \in UnderWay : CheckStatus(r)
  \/ \E r \in UnderWay : CheckFlag(r)
  \/ \E r \in UnderWay : ActiveCode(r)
  \/ \E r \in UnderWay : FindUser(r)
  \/ \E r \in UnderWay, flag \in Roles : ReadFlag(r, flag)
  \/ \E r \in UnderWay : Decide(r)
  \/ \E r \in UnderWay : Logout(r)
  \/ \E r \in UnderWay : Register(r)
  \/ \E k \in Codes, n \in Names, role \in Roles : CreateCode(k, n, role)
  \/ \E k \in Codes, n \in Names, role \in Roles, enabled \in BOOLEAN :
       UpdateCode(k, n, role, enabled)
  \/ \E k \in Codes : DeleteCode(k)
  \/ \E u \in Users, active \in BOOLEAN, flags \in {{}, {"admin"}, {"reseller"}} :
       UpdateUser(u, active, flags)
  \/ \E u \in Users : DeleteUser(u)

PaSpec == PaInit /\ [][PaNext]_paVars

------------------------------------------------------------------------------
\* A request is only served on the portal its user logged in on: whatever codes
\* other tabs visit, however answers that carry whole sessions overtake one
\* another, and whatever becomes of the role of a code meanwhile, the code the
\* request was let in by has the role its user had at login.  Users that
\* registered never logged in: /register looks at neither code nor role.
ServedOnOwnPortal ==
  \A r \in UnderWay :
    r.at = "served" /\ r.session.via # "registered" => r.row = r.session.via
=============================================================================
