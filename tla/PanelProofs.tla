----------------------------- MODULE PanelProofs ----------------------------
(* Users of the panel, its forms and its boots: what they promise, for any   *)
(* number of users, access codes, rows, lines and requests.                  *)
EXTENDS PanelAccess, PanelForms, SchemaBoot, TLAPS

----------------------------------------------------------------------------
(* Bags                                                                      *)

\* A bag holds what it held and what was added to it.
LEMMA AddedToBag ==
  ASSUME NEW bag, NEW e
  PROVE  BagToSet(BagAdd(bag, e)) \subseteq BagToSet(bag) \cup {e}
  BY DEF BagToSet, BagAdd

\* A bag one was taken of holds nothing new.
LEMMA RemovedFromBag ==
  ASSUME NEW bag, NEW e
  PROVE  BagToSet(BagRemove(bag, e)) \subseteq BagToSet(bag)
  BY DEF BagToSet, BagRemove

\* Nothing is in an empty bag.
LEMMA NothingInEmptyBag == BagToSet(EmptyBag) = {}
  BY DEF BagToSet, EmptyBag, SetToBag

----------------------------------------------------------------------------
(* Sessions                                                                  *)

SessionType ==
  [user : Users \cup {None}, portalRole : Roles \cup {None}, code : Codes \cup {None},
   name : Names \cup {None}, via : Roles \cup {None, "registered"}]
RequestType ==
  [kind : {"code", "gateway", "alias", "me", "login", "logout", "register"},
   at : {"code", "list", "user", "flags", "answer", "served"},
   target : Users \cup Names \cup Roles \cup {"any", None}, session : SessionType,
   changed : BOOLEAN, row : Roles \cup {None}, unread : SUBSET Roles, flags : SUBSET Roles]
CodeType == [there : {"no", "yes", "gone"}, enabled : BOOLEAN, role : Roles, name : Names]
UserType == [there : {"no", "yes", "gone"}, active : BOOLEAN, flags : SUBSET Roles]

PaTypeOK ==
  /\ cookie \in SessionType /\ UnderWay \subseteq RequestType
  /\ code \in [Codes -> CodeType] /\ user \in [Users -> UserType]

\* A user that logged in did so with the role the session still has: what
\* changes the role of a session takes its user away.
Honest(s) ==
  s.user # None =>
    s.via = "registered" \/ (s.via = s.portalRole /\ s.portalRole # None)

\* What a request has found out agrees with the session it was sent with.
Grounded(r) ==
  /\ Honest(r.session)
  /\ r.at \in {"user", "flags", "served"} => r.row = r.session.portalRole /\ r.row # None
  /\ r.kind = "code" /\ r.at # "answer" => r.session.user # None
  /\ r.at = "served" => r.kind = "code"
  /\ r.at \in {"user", "flags"} => r.kind \in {"code", "me", "login"}
  /\ r.kind = "code" => r.unread = Roles
  /\ r.kind \in {"login", "register"} => r.target \in Users

PaInv == PaTypeOK /\ Honest(cookie) /\ \A r \in UnderWay : Grounded(r)

\* What the handlers make of a session is a session again, and honest.
LEMMA SessionSteps ==
  ASSUME code \in [Codes -> CodeType], NEW s \in SessionType, Honest(s)
  PROVE  /\ ClearUser(s) \in SessionType /\ Honest(ClearUser(s))
         /\ ClearSession(s) \in SessionType /\ Honest(ClearSession(s))
         /\ \A k \in Codes : Sync(s, k) \in SessionType /\ Honest(Sync(s, k))
  <1>1. ClearUser(s) \in SessionType /\ Honest(ClearUser(s))
    BY DEF ClearUser, SessionType, Honest
  <1>2. ClearSession(s) \in SessionType /\ Honest(ClearSession(s))
    BY DEF ClearSession, NoSession, SessionType, Honest
  <1>3. ASSUME NEW k \in Codes
        PROVE  Sync(s, k) \in SessionType /\ Honest(Sync(s, k))
    <2>1. code[k].role \in Roles /\ code[k].name \in Names
      BY DEF CodeType
    <2>2. CASE s.code \in {None, k} /\ s.portalRole \in {None, code[k].role}
      <3>1. Sync(s, k) = [s EXCEPT !.portalRole = code[k].role,
                                   !.name = code[k].name, !.code = k]
        BY <2>2 DEF Sync
      <3> QED
        BY <2>1, <2>2, <3>1 DEF SessionType, Honest
    <2>3. CASE ~(s.code \in {None, k} /\ s.portalRole \in {None, code[k].role})
      <3>1. Sync(s, k) = [ClearUser(s) EXCEPT !.portalRole = code[k].role,
                                   !.name = code[k].name, !.code = k]
        BY <2>3 DEF Sync
      <3>2. ClearUser(s).user = None
        BY DEF ClearUser, SessionType
      <3> QED
        BY <1>1, <2>1, <3>1, <3>2 DEF SessionType, Honest
    <2> QED
      BY <2>2, <2>3
  <1> QED
    BY <1>1, <1>2, <1>3

\* A request that has not asked anything yet.
LEMMA NewRequests ==
  /\ NewRequest \in RequestType
  /\ \A s \in SessionType :
       LET answer == [NewRequest EXCEPT !.at = "answer", !.session = s, !.changed = TRUE]
       IN  answer \in RequestType /\ (Honest(s) => Grounded(answer))
  <1>1. NewRequest \in RequestType
    BY DEF NewRequest, NoSession, RequestType, SessionType, Roles
  <1>2. ASSUME NEW s \in SessionType
        PROVE  LET answer == [NewRequest EXCEPT !.at = "answer", !.session = s, !.changed = TRUE]
               IN  answer \in RequestType /\ (Honest(s) => Grounded(answer))
    BY <1>1 DEF NewRequest, RequestType, Grounded, Roles
  <1> QED
    BY <1>1, <1>2

\* A handler goes on, or answers.
LEMMA TurnInv ==
  ASSUME PaInv, NEW r \in UnderWay, NEW next \in RequestType, Grounded(next), Turn(r, next)
  PROVE  PaInv'
  <1>1. UnderWay' \subseteq UnderWay \cup {next}
    BY AddedToBag, RemovedFromBag DEF Turn, UnderWay
  <1>2. UNCHANGED <<cookie, code, user>>
    BY DEF Turn, database
  <1> QED
    BY <1>1, <1>2 DEF PaInv, PaTypeOK

LEMMA AnswerInv ==
  ASSUME PaInv, NEW r \in UnderWay, NEW s \in SessionType, Honest(s), Answer(r, s)
  PROVE  PaInv'
  <1> DEFINE answer == [NewRequest EXCEPT !.at = "answer", !.session = s, !.changed = TRUE]
  <1>1. answer \in RequestType /\ Grounded(answer)
    BY NewRequests
  <1> HIDE DEF answer
  <1>2. CASE Turn(r, answer)
    BY <1>1, <1>2, TurnInv
  <1>3. CASE requests' = BagRemove(requests, r) /\ UNCHANGED <<cookie, sent, database>>
    <2>1. UnderWay' \subseteq UnderWay
      BY <1>3, RemovedFromBag DEF UnderWay
    <2> QED
      BY <1>3, <2>1 DEF PaInv, PaTypeOK, database
  <1> QED
    BY <1>2, <1>3 DEF Answer, answer

\* A browser sends a request with the session it holds.
LEMMA SendInv ==
  ASSUME PaInv, NEW request \in RequestType, request.at = "code",
         request.kind = "code" => cookie.user # None /\ request.unread = Roles,
         request.kind \in {"login", "register"} => request.target \in Users, Send(request)
  PROVE  PaInv'
  <1> DEFINE next == [request EXCEPT !.session = cookie]
  <1>1. next \in RequestType /\ Grounded(next)
    BY DEF PaInv, PaTypeOK, RequestType, Grounded
  <1> HIDE DEF next
  <1>2. UnderWay' \subseteq UnderWay \cup {next}
    BY AddedToBag DEF Send, UnderWay, next
  <1> QED
    BY <1>1, <1>2 DEF Send, database, PaInv, PaTypeOK

LEMMA BrowserInv ==
  ASSUME PaInv,
         \/ \E n \in Names : VisitCode(n)
         \/ VisitAdmin \/ CheckSession \/ DoLogout
         \/ \E u \in Users : DoLogin(u) \/ DoRegister(u)
         \/ \E portal \in Roles \cup {"any"} : Call(portal)
  PROVE  PaInv'
  <1>1. ASSUME NEW n \in Names, VisitCode(n) PROVE PaInv'
    <2>1. [NewRequest EXCEPT !.kind = "gateway", !.target = n] \in RequestType
      BY NewRequests DEF RequestType
    <2> QED
      BY <1>1, <2>1, SendInv DEF VisitCode, NewRequest
  <1>2. CASE VisitAdmin
    <2>1. [NewRequest EXCEPT !.kind = "alias"] \in RequestType
      BY NewRequests DEF RequestType
    <2> QED
      BY <1>2, <2>1, SendInv DEF VisitAdmin, NewRequest
  <1>3. CASE CheckSession
    <2>1. [NewRequest EXCEPT !.kind = "me"] \in RequestType
      BY NewRequests DEF RequestType
    <2> QED
      BY <1>3, <2>1, SendInv DEF CheckSession, NewRequest
  <1>4. CASE DoLogout
    <2>1. [NewRequest EXCEPT !.kind = "logout"] \in RequestType
      BY NewRequests DEF RequestType
    <2> QED
      BY <1>4, <2>1, SendInv DEF DoLogout, NewRequest
  <1>5. ASSUME NEW u \in Users, DoLogin(u) PROVE PaInv'
    <2>1. [NewRequest EXCEPT !.kind = "login", !.target = u] \in RequestType
      BY NewRequests DEF RequestType
    <2> QED
      BY <1>5, <2>1, SendInv DEF DoLogin, NewRequest
  <1>6. ASSUME NEW u \in Users, DoRegister(u) PROVE PaInv'
    <2>1. [NewRequest EXCEPT !.kind = "register", !.target = u] \in RequestType
      BY NewRequests DEF RequestType
    <2> QED
      BY <1>6, <2>1, SendInv DEF DoRegister, NewRequest
  <1>7. ASSUME NEW portal \in Roles \cup {"any"}, Call(portal) PROVE PaInv'
    <2>1. [NewRequest EXCEPT !.target = portal] \in RequestType
      BY NewRequests DEF RequestType
    <2> QED
      BY <1>7, <2>1, SendInv DEF Call, NewRequest
  <1> QED
    BY <1>1, <1>2, <1>3, <1>4, <1>5, <1>6, <1>7

LEMMA DeliverInv ==
  ASSUME PaInv, NEW r \in UnderWay, Deliver(r)
  PROVE  PaInv'
  <1>1. UnderWay' \subseteq UnderWay
    BY RemovedFromBag DEF Deliver, UnderWay
  <1>2. r \in RequestType /\ Grounded(r)
    BY DEF PaInv, PaTypeOK
  <1> QED
    BY <1>1, <1>2 DEF Deliver, database, PaInv, PaTypeOK, RequestType, Grounded

\* The pages of access codes: a session that is synchronised.
LEMMA VisitInv ==
  ASSUME PaInv, NEW r \in UnderWay, Gateway(r) \/ AdminAlias(r) \/ AdminFallback(r)
  PROVE  PaInv'
  <1>1. r \in RequestType /\ r.session \in SessionType /\ Honest(r.session)
    BY DEF PaInv, PaTypeOK, RequestType, Grounded
  <1>2. \A k \in Codes : Sync(r.session, k) \in SessionType /\ Honest(Sync(r.session, k))
    BY <1>1, SessionSteps DEF PaInv, PaTypeOK
  <1>3. CASE Gateway(r)
    <2>1. \/ Answer(r, r.session)
          \/ \E k \in Codes : Answer(r, Sync(r.session, k))
      BY <1>3 DEF Gateway, Named
    <2> QED
      BY <1>1, <1>2, <2>1, AnswerInv
  <1>4. CASE AdminAlias(r)
    <2>1. \/ Turn(r, [r EXCEPT !.at = "list"])
          \/ \E k \in Codes : Answer(r, Sync(r.session, k))
      BY <1>4 DEF AdminAlias, Named
    <2>2. [r EXCEPT !.at = "list"] \in RequestType /\ Grounded([r EXCEPT !.at = "list"])
      BY <1>1, <1>4 DEF AdminAlias, RequestType, Grounded
    <2> QED
      BY <1>2, <2>1, <2>2, AnswerInv, TurnInv
  <1>5. CASE AdminFallback(r)
    <2>1. \/ Answer(r, r.session)
          \/ \E k \in Codes : Answer(r, Sync(r.session, k))
      BY <1>5 DEF AdminFallback
    <2> QED
      BY <1>1, <1>2, <2>1, AnswerInv
  <1> QED
    BY <1>3, <1>4, <1>5

\* The routes of the portals.
LEMMA ValidateCodeInv ==
  ASSUME PaInv, NEW r \in UnderWay, ValidateCode(r)
  PROVE  PaInv'
  <1>1. r \in RequestType /\ r.session \in SessionType /\ Grounded(r)
    BY DEF PaInv, PaTypeOK, RequestType
  <1>2. CASE Valid(r.session) /\ r.target \in {"any", r.session.portalRole}
    <2>1. r.session.code \in Codes /\ code[r.session.code] \in CodeType
      BY <1>1, <1>2 DEF Valid, Enabled, SessionType, PaInv, PaTypeOK
    <2> DEFINE s == [r.session EXCEPT !.name = code[r.session.code].name]
               where == IF r.target = "any" THEN "served" ELSE "user"
               differs == r.session.name # code[r.session.code].name
               next == [r EXCEPT !.session = s, !.changed = differs,
                                 !.row = code[r.session.code].role, !.at = where]
    <2>2. /\ s \in SessionType /\ Honest(s)
          /\ s.user = r.session.user /\ s.portalRole = r.session.portalRole
      BY <1>1, <2>1 DEF SessionType, CodeType, Grounded, Honest
    <2>3. where \in {"served", "user"} /\ differs \in BOOLEAN
      OBVIOUS
    <2>4. code[r.session.code].role = s.portalRole /\ s.portalRole # None
      BY <1>2, <2>2 DEF Valid
    <2>5. Turn(r, next)
      BY <1>1, <1>2 DEF ValidateCode, RequestType
    <2> HIDE DEF s, where, differs
    <2>6. /\ next \in RequestType /\ next.session = s /\ next.kind = r.kind
          /\ next.at = where /\ next.row = code[r.session.code].role
          /\ next.unread = r.unread /\ next.target = r.target
      BY <1>1, <2>1, <2>2, <2>3 DEF RequestType, CodeType
    <2> HIDE DEF next
    <2>7. Grounded(next)
      BY <1>1, <2>2, <2>3, <2>4, <2>6 DEF Grounded, ValidateCode
    <2> QED
      BY <2>5, <2>6, <2>7, TurnInv
  <1>3. CASE ~(Valid(r.session) /\ r.target \in {"any", r.session.portalRole})
    <2>1. Answer(r, ClearSession(r.session))
      BY <1>3 DEF ValidateCode
    <2>2. ClearSession(r.session) \in SessionType /\ Honest(ClearSession(r.session))
      BY <1>1, SessionSteps DEF PaInv, PaTypeOK, Grounded
    <2> QED
      BY <2>1, <2>2, AnswerInv
  <1> QED
    BY <1>2, <1>3

\* A request that only goes on keeps what it was sent with and has found out.
LEMMA GoesOn ==
  ASSUME NEW r \in RequestType, Grounded(r), r.at \in {"user", "flags"}
  PROVE  /\ [r EXCEPT !.at = "flags"] \in RequestType
         /\ Grounded([r EXCEPT !.at = "flags"])
         /\ [r EXCEPT !.at = "served"] \in RequestType
         /\ r.kind = "code" => Grounded([r EXCEPT !.at = "served"])
         /\ \A unread, flags \in SUBSET Roles :
              LET next == [r EXCEPT !.unread = unread, !.flags = flags]
              IN  next \in RequestType /\ (r.kind # "code" => Grounded(next))
  <1>1. /\ [r EXCEPT !.at = "flags"] \in RequestType
        /\ Grounded([r EXCEPT !.at = "flags"])
        /\ [r EXCEPT !.at = "served"] \in RequestType
        /\ r.kind = "code" => Grounded([r EXCEPT !.at = "served"])
    BY DEF RequestType, Grounded
  <1>2. ASSUME NEW unread \in SUBSET Roles, NEW flags \in SUBSET Roles
        PROVE  LET next == [r EXCEPT !.unread = unread, !.flags = flags]
               IN  next \in RequestType /\ (r.kind # "code" => Grounded(next))
    <2> DEFINE next == [r EXCEPT !.unread = unread, !.flags = flags]
    <2>1. /\ next \in RequestType /\ next.session = r.session /\ next.kind = r.kind
          /\ next.at = r.at /\ next.row = r.row /\ next.target = r.target
      BY DEF RequestType
    <2> HIDE DEF next
    <2>2. r.kind # "code" => Grounded(next)
      BY <2>1 DEF Grounded
    <2> QED
      BY <2>1, <2>2 DEF next
  <1> QED
    BY <1>1, <1>2

LEMMA CheckInv ==
  ASSUME PaInv, NEW r \in UnderWay, CheckStatus(r) \/ CheckFlag(r)
  PROVE  PaInv'
  <1>1. r \in RequestType /\ r.session \in SessionType /\ Grounded(r)
    BY DEF PaInv, PaTypeOK, RequestType
  <1>2. Honest(r.session)
    BY <1>1 DEF Grounded
  <1>3. CASE CheckStatus(r)
    <2>1. r.at \in {"user", "flags"}
      BY <1>3 DEF CheckStatus
    <2>2. Turn(r, [r EXCEPT !.at = "flags"]) \/ Answer(r, r.session)
      BY <1>3 DEF CheckStatus
    <2> QED
      BY <1>1, <1>2, <2>1, <2>2, GoesOn, TurnInv, AnswerInv
  <1>4. CASE CheckFlag(r)
    <2>1. r.at \in {"user", "flags"} /\ r.kind = "code"
      BY <1>4 DEF CheckFlag
    <2>2. Turn(r, [r EXCEPT !.at = "served"]) \/ Answer(r, r.session)
      BY <1>4 DEF CheckFlag
    <2> QED
      BY <1>1, <1>2, <2>1, <2>2, GoesOn, TurnInv, AnswerInv
  <1> QED
    BY <1>3, <1>4

\* /me and /login.
LEMMA ActiveCodeInv ==
  ASSUME PaInv, NEW r \in UnderWay, ActiveCode(r)
  PROVE  PaInv'
  <1>1. r \in RequestType /\ r.session \in SessionType /\ Grounded(r)
    BY DEF PaInv, PaTypeOK, RequestType
  <1>2. Honest(r.session)
    BY <1>1 DEF Grounded
  <1>3. /\ ClearSession(r.session) \in SessionType /\ Honest(ClearSession(r.session))
    BY <1>1, <1>2, SessionSteps DEF PaInv, PaTypeOK
  <1>4. CASE /\ ~(r.kind = "me" /\ r.session.user = None) /\ Valid(r.session)
    <2>1. r.session.code \in Codes /\ code[r.session.code] \in CodeType
      BY <1>1, <1>4 DEF Valid, Enabled, SessionType, PaInv, PaTypeOK
    <2> DEFINE next == [r EXCEPT !.at = "user", !.row = code[r.session.code].role]
    <2>2. Turn(r, next)
      BY <1>4 DEF ActiveCode
    <2>3. /\ next \in RequestType /\ next.session = r.session /\ next.kind = r.kind
          /\ next.at = "user" /\ next.row = code[r.session.code].role
          /\ next.unread = r.unread /\ next.target = r.target
      BY <1>1, <2>1 DEF RequestType, CodeType
    <2> HIDE DEF next
    <2>4. Grounded(next)
      BY <1>1, <1>2, <1>4, <2>3 DEF Grounded, Valid, ActiveCode
    <2> QED
      BY <2>2, <2>3, <2>4, TurnInv
  <1>5. CASE ~(~(r.kind = "me" /\ r.session.user = None) /\ Valid(r.session))
    <2>1. Answer(r, r.session) \/ Answer(r, ClearSession(r.session))
      BY <1>5 DEF ActiveCode
    <2> QED
      BY <1>1, <1>2, <1>3, <2>1, AnswerInv
  <1> QED
    BY <1>4, <1>5

LEMMA FindUserInv ==
  ASSUME PaInv, NEW r \in UnderWay, FindUser(r)
  PROVE  PaInv'
  <1>1. r \in RequestType /\ r.session \in SessionType /\ Grounded(r)
    BY DEF PaInv, PaTypeOK, RequestType
  <1>2. Honest(r.session)
    BY <1>1 DEF Grounded
  <1>3. /\ ClearUser(r.session) \in SessionType /\ Honest(ClearUser(r.session))
    BY <1>1, <1>2, SessionSteps DEF PaInv, PaTypeOK
  <1>4. r.at \in {"user", "flags"}
    BY DEF FindUser
  <1>5. \/ Turn(r, [r EXCEPT !.at = "flags"])
        \/ Answer(r, ClearUser(r.session)) \/ Answer(r, r.session)
    BY DEF FindUser
  <1> QED
    BY <1>1, <1>2, <1>3, <1>4, <1>5, GoesOn, TurnInv, AnswerInv

LEMMA ReadFlagInv ==
  ASSUME PaInv, NEW r \in UnderWay, NEW flag \in Roles, ReadFlag(r, flag)
  PROVE  PaInv'
  <1>1. r \in RequestType /\ Grounded(r) /\ r.at \in {"user", "flags"} /\ r.kind # "code"
    BY DEF PaInv, PaTypeOK, ReadFlag
  <1>2. r.unread \ {flag} \in SUBSET Roles /\ r.flags \in SUBSET Roles
    BY <1>1 DEF RequestType
  <1>3. \E flags \in SUBSET Roles :
          Turn(r, [r EXCEPT !.unread = r.unread \ {flag}, !.flags = flags])
    <2>1. r.flags \cup {flag} \in SUBSET Roles
      BY <1>2
    <2> QED
      BY <1>1, <1>2, <2>1 DEF ReadFlag, RequestType
  <1> QED
    BY <1>1, <1>2, <1>3, GoesOn, TurnInv

LEMMA DecideInv ==
  ASSUME PaInv, NEW r \in UnderWay, Decide(r)
  PROVE  PaInv'
  <1>1. r \in RequestType /\ r.session \in SessionType /\ Grounded(r)
    BY DEF PaInv, PaTypeOK, RequestType
  <1>2. Honest(r.session)
    BY <1>1 DEF Grounded
  <1>3. /\ ClearUser(r.session) \in SessionType /\ Honest(ClearUser(r.session))
    BY <1>1, <1>2, SessionSteps DEF PaInv, PaTypeOK
  <1> DEFINE s == [r.session EXCEPT !.user = r.target, !.via = r.row]
  <1>4. r.at = "flags" /\ r.kind \in {"me", "login"}
    BY <1>1 DEF Decide, Grounded, Roles
  <1>5. \/ Answer(r, ClearUser(r.session)) \/ Answer(r, r.session)
        \/ r.kind = "login" /\ Answer(r, s)
    BY <1>4 DEF Decide
  <1>6. r.kind = "login" => s \in SessionType /\ Honest(s)
    BY <1>1, <1>4 DEF Grounded, RequestType, SessionType, Honest
  <1> QED
    BY <1>1, <1>2, <1>3, <1>5, <1>6, AnswerInv

\* /logout takes the user, /register puts one in.
LEMMA LogoutInv ==
  ASSUME PaInv, NEW r \in UnderWay, Logout(r)
  PROVE  PaInv'
  <1>1. r \in RequestType /\ r.session \in SessionType /\ Grounded(r)
    BY DEF PaInv, PaTypeOK, RequestType
  <1>2. /\ ClearUser(r.session) \in SessionType /\ Honest(ClearUser(r.session))
    BY <1>1, SessionSteps DEF PaInv, PaTypeOK, Grounded
  <1> QED
    BY <1>2, AnswerInv DEF Logout

LEMMA RegisterInv ==
  ASSUME PaInv, NEW r \in UnderWay, Register(r)
  PROVE  PaInv'
  <1>1. r \in RequestType /\ r.session \in SessionType /\ Honest(r.session)
    BY DEF PaInv, PaTypeOK, RequestType, Grounded
  <1> DEFINE s == [r.session EXCEPT !.user = r.target, !.via = "registered"]
             newcomer == [there |-> "yes", active |-> TRUE, flags |-> {"admin"}]
             answer == [NewRequest EXCEPT !.at = "answer", !.changed = TRUE, !.session = s]
  <1>2. CASE Answer(r, r.session)
    BY <1>1, <1>2, AnswerInv
  <1>3. CASE /\ user' = [user EXCEPT ![r.target] = newcomer]
             /\ requests' = BagAdd(BagRemove(requests, r), answer)
             /\ UNCHANGED <<cookie, sent, code, edits>>
    <2>1. s \in SessionType /\ Honest(s)
      BY <1>1 DEF PaInv, Grounded, Register, SessionType, Honest
    <2>2. newcomer \in UserType
      BY DEF UserType, Roles
    <2>3. answer \in RequestType /\ Grounded(answer)
      BY <2>1, NewRequests
    <2> HIDE DEF s, newcomer, answer
    <2>4. UnderWay' \subseteq UnderWay \cup {answer}
      BY <1>3, AddedToBag, RemovedFromBag DEF UnderWay
    <2>5. user' \in [Users -> UserType]
      BY <1>3, <2>2 DEF PaInv, PaTypeOK
    <2> QED
      BY <1>3, <2>3, <2>4, <2>5 DEF PaInv, PaTypeOK
  <1> QED
    BY <1>2, <1>3 DEF Register

\* Sessions stay as they are while rows are edited.
LEMMA EditInv ==
  ASSUME PaInv, Edit,
         code' \in [Codes -> CodeType], user' \in [Users -> UserType]
  PROVE  PaInv'
  <1>1. UnderWay' = UnderWay /\ cookie' = cookie
    BY DEF Edit, browser, UnderWay
  <1> QED
    BY <1>1 DEF PaInv, PaTypeOK

LEMMA EditsInv ==
  ASSUME PaInv,
         \/ \E k \in Codes, n \in Names, role \in Roles : CreateCode(k, n, role)
         \/ \E k \in Codes, n \in Names, role \in Roles, enabled \in BOOLEAN :
              UpdateCode(k, n, role, enabled)
         \/ \E k \in Codes : DeleteCode(k)
         \/ \E u \in Users, active \in BOOLEAN, flags \in {{}, {"admin"}, {"reseller"}} :
              UpdateUser(u, active, flags)
         \/ \E u \in Users : DeleteUser(u)
  PROVE  PaInv'
  <1>1. code \in [Codes -> CodeType] /\ user \in [Users -> UserType]
    BY DEF PaInv, PaTypeOK
  <1>2. ASSUME NEW k \in Codes, NEW n \in Names, NEW role \in Roles, CreateCode(k, n, role)
        PROVE  PaInv'
    <2>1. [there |-> "yes", enabled |-> TRUE, role |-> role, name |-> n] \in CodeType
      BY DEF CodeType
    <2> QED
      BY <1>1, <1>2, <2>1, EditInv DEF CreateCode
  <1>3. ASSUME NEW k \in Codes, NEW n \in Names, NEW role \in Roles,
               NEW enabled \in BOOLEAN, UpdateCode(k, n, role, enabled)
        PROVE  PaInv'
    <2>1. [there |-> "yes", enabled |-> enabled, role |-> role, name |-> n] \in CodeType
      BY DEF CodeType
    <2> QED
      BY <1>1, <1>3, <2>1, EditInv DEF UpdateCode
  <1>4. ASSUME NEW k \in Codes, DeleteCode(k) PROVE PaInv'
    <2>1. code' \in [Codes -> CodeType]
      BY <1>1, <1>4 DEF DeleteCode, CodeType
    <2> QED
      BY <1>1, <1>4, <2>1, EditInv DEF DeleteCode
  <1>5. ASSUME NEW u \in Users, NEW active \in BOOLEAN,
               NEW flags \in {{}, {"admin"}, {"reseller"}}, UpdateUser(u, active, flags)
        PROVE  PaInv'
    <2>1. user' = [user EXCEPT ![u] = [@ EXCEPT !.active = active, !.flags = flags]]
      BY <1>1, <1>5 DEF UpdateUser, UserType
    <2>2. [user[u] EXCEPT !.active = active, !.flags = flags] \in UserType
      BY <1>1 DEF UserType, Roles
    <2> QED
      BY <1>1, <1>5, <2>1, <2>2, EditInv DEF UpdateUser
  <1>6. ASSUME NEW u \in Users, DeleteUser(u) PROVE PaInv'
    <2>1. user' \in [Users -> UserType]
      BY <1>1, <1>6 DEF DeleteUser, UserType
    <2> QED
      BY <1>1, <1>6, <2>1, EditInv DEF DeleteUser
  <1> QED
    BY <1>2, <1>3, <1>4, <1>5, <1>6

\* The seeds of the database and a browser that visited a code or none.
LEMMA PaInitInv == PaInit => PaInv
  <1>. SUFFICES ASSUME PaInit PROVE PaInv
    OBVIOUS
  <1>1. UnderWay = {}
    BY NothingInEmptyBag DEF PaInit, UnderWay
  <1>2. user \in [Users -> UserType]
    BY DEF PaInit, UserType, Roles
  <1>3. code \in [Codes -> CodeType]
    BY PanelAccessAssumption DEF PaInit, CodeType, Roles
  <1>4. NoSession \in SessionType /\ Honest(NoSession)
    BY DEF NoSession, SessionType, Honest
  <1>5. cookie \in SessionType /\ Honest(cookie)
    BY <1>3, <1>4, SessionSteps DEF PaInit
  <1> QED
    BY <1>1, <1>2, <1>3, <1>5 DEF PaInv, PaTypeOK

\* Every step keeps sessions honest and requests grounded.
LEMMA PaNextInv == PaInv /\ [PaNext]_paVars => PaInv'
  <1>. SUFFICES ASSUME PaInv, [PaNext]_paVars PROVE PaInv'
    OBVIOUS
  <1>1. CASE UNCHANGED paVars
    BY <1>1 DEF paVars, browser, database, PaInv, PaTypeOK, UnderWay
  <1>2. CASE \/ \E n \in Names : VisitCode(n)
             \/ VisitAdmin \/ CheckSession \/ DoLogout
             \/ \E u \in Users : DoLogin(u) \/ DoRegister(u)
             \/ \E portal \in Roles \cup {"any"} : Call(portal)
    BY <1>2, BrowserInv
  <1>3. CASE \E r \in UnderWay : Deliver(r) \/ Logout(r) \/ Register(r)
    BY <1>3, DeliverInv, LogoutInv, RegisterInv
  <1>4. CASE \E r \in UnderWay : Gateway(r) \/ AdminAlias(r) \/ AdminFallback(r)
    BY <1>4, VisitInv
  <1>5. CASE \E r \in UnderWay : ValidateCode(r) \/ CheckStatus(r) \/ CheckFlag(r)
    BY <1>5, ValidateCodeInv, CheckInv
  <1>6. CASE \E r \in UnderWay :
               \/ ActiveCode(r) \/ FindUser(r) \/ Decide(r)
               \/ \E flag \in Roles : ReadFlag(r, flag)
    BY <1>6, ActiveCodeInv, FindUserInv, DecideInv, ReadFlagInv
  <1>7. CASE \/ \E k \in Codes, n \in Names, role \in Roles : CreateCode(k, n, role)
             \/ \E k \in Codes, n \in Names, role \in Roles, enabled \in BOOLEAN :
                  UpdateCode(k, n, role, enabled)
             \/ \E k \in Codes : DeleteCode(k)
             \/ \E u \in Users, active \in BOOLEAN, flags \in {{}, {"admin"}, {"reseller"}} :
                  UpdateUser(u, active, flags)
             \/ \E u \in Users : DeleteUser(u)
    BY <1>7, EditsInv
  <1> QED
    BY <1>1, <1>2, <1>3, <1>4, <1>5, <1>6, <1>7 DEF PaNext

\* A request is only served on the portal its user logged in on, for any number
\* of users, codes, requests and edits (middleware/adminAuth.js, resellerAuth.js).
THEOREM ServedWhereLoggedIn == PaSpec => []ServedOnOwnPortal
  <1>1. PaInv => ServedOnOwnPortal
    BY DEF PaInv, Grounded, Honest, ServedOnOwnPortal
  <1> QED
    BY <1>1, PaInitInv, PaNextInv, PTL DEF PaSpec

----------------------------------------------------------------------------
(* Forms                                                                     *)

\* The pages whose forms have a select of servers, and those that may save a row
\* with no tags.
Selecting == {"line", "stream", "movie", "series", "episode"}
Tagless == {"stream", "role", "drm"}

\* The waits of openStreamForm after the first.
Stages == {"first", "profiles", "guides", "servers", "timeshift"}

ContentType == [fields : Ids, tags : Ids, server : Ids, guide : Ids]
FormType == [id : Ids, fields : Ids, tags : Ids, server : Ids, guide : Ids]
CallType ==
  [at : {"row", "refs", "tmdb", "list", "features", "details", "search"} \cup Stages,
   row : Ids, read : ContentType, ran : BOOLEAN]
SaveType ==
  [at : {"none", "post", "stop", "put", "put again", "start"}, row : Ids, body : ContentType]
RowType ==
  [there : BOOLEAN, running : BOOLEAN, fields : Ids, tags : Ids, server : Ids,
   guide : Ids]

PfTypeOK ==
  /\ form \in FormType /\ rows \in [Rows -> RowType] /\ saving \in SaveType
  /\ Waiting \subseteq CallType /\ editing \in Ids /\ late \in BOOLEAN

\* The content x is the one of row r, as far as the code sees to it; NoRow stands
\* for a row to come, a stream of which may have any tags.
Own(r, x, tagless) ==
  LET answered == page \in {"movie", "series", "logo"} /\ late
      typed == IF page = "series" THEN {r, NoRow} ELSE {r}
  IN /\ answered \/ x.fields \in typed
     /\ \/ answered \/ (page = "stream" /\ r = NoRow)
        \/ x.tags \in IF page \in tagless THEN {r, NoRow} ELSE typed
     /\ late \/ (x.server \in {r, NoRow} /\ x.guide \in {r, NoRow})

\* A form shows what belongs to its id; only the page of a package may show, for a
\* row that is gone, the inputs of another.
FormOwn(f) ==
  /\ \/ Own(f.id, f, Tagless \cup {"logo"})
     \/ page = "package" /\ f.id \in Rows /\ ~rows[f.id].there
  /\ page \notin Selecting => f.server = NoRow
  /\ page # "stream" => f.guide = NoRow

\* What a save carries belongs to the row it goes to.
SaveOwn(s) ==
  /\ s.at = "post" => page = "series" /\ Own(NoRow, s.body, Tagless)
  /\ s.at \notin {"none", "post"} =>
       page = "stream" /\ s.row \in Rows /\ Own(s.row, s.body, Tagless)

\* What a call that waits will write belongs to its row; the calls that write into
\* whatever form is shown are those of the pages named.
CallOwn(o) ==
  /\ o.at = "row" => o.row \in Rows
  /\ o.at = "refs" /\ page \in {"line", "stream"} => Own(o.row, o.read, Tagless)
  /\ o.at \in Stages => page = "stream" /\ Own(o.row, o.read, Tagless)
  /\ o.at \in {"servers", "timeshift"} => late
  /\ o.at = "tmdb" => page \in {"movie", "series"} /\ o.read.fields = o.row
  /\ o.at = "list" => late /\ page \in Selecting
  /\ o.at = "search" => page = "logo"
  /\ o.at \in {"features", "details"} => page = "server" /\ o.row \in Rows

PfInv ==
  /\ PfTypeOK
  /\ \A o \in Waiting : CallOwn(o)
  /\ page # "server" =>
       /\ FormOwn(form) /\ SaveOwn(saving)
       /\ \A r \in Rows : Own(r, rows[r], Tagless)

\* What is late stays late, and a page stays: so what belonged to a row still does.
LEMMA OwnStays ==
  ASSUME UNCHANGED page, late => late', NEW r, NEW x, NEW tagless, Own(r, x, tagless)
  PROVE  Own(r, x, tagless)'
  BY DEF Own

LEMMA CallsStay ==
  ASSUME UNCHANGED page, late => late', NEW o, CallOwn(o)
  PROVE  CallOwn(o)'
  BY OwnStays DEF CallOwn

LEMMA SavesStay ==
  ASSUME UNCHANGED page, late => late', NEW s, SaveOwn(s)
  PROVE  SaveOwn(s)'
  BY OwnStays DEF SaveOwn

LEMMA FormStays ==
  ASSUME UNCHANGED page, late => late', NEW f, FormOwn(f),
         page = "package" => \A r \in Rows : ~rows[r].there => ~rows'[r].there
  PROVE  FormOwn(f)'
  <1>1. Own(f.id, f, Tagless \cup {"logo"}) => Own(f.id, f, Tagless \cup {"logo"})'
    BY OwnStays
  <1> QED
    BY <1>1 DEF FormOwn

\* The new calls of a step are sound.
NewCalls == \A o \in Waiting' : o \in Waiting \/ (o \in CallType /\ CallOwn(o)')

\* A step that leaves the rows alone.
LEMMA FormChanges ==
  ASSUME PfInv, UNCHANGED <<page, rows, saving>>, late' \in BOOLEAN, late => late',
         editing' \in Ids, NEW f \in FormType, form' = f, page # "server" => FormOwn(f)',
         NewCalls
  PROVE  PfInv'
  <1>1. PfTypeOK'
    BY DEF PfInv, PfTypeOK, NewCalls
  <1>2. \A o \in Waiting' : CallOwn(o)'
    BY CallsStay DEF PfInv, NewCalls
  <1>3. page # "server" => SaveOwn(saving)'
    <2>1. \A s : page # "server" /\ s = saving => SaveOwn(s)'
      BY SavesStay DEF PfInv
    <2> QED
      BY <2>1 DEF SaveOwn, Own
  <1>4. ASSUME page # "server", NEW r \in Rows PROVE Own(r, rows[r], Tagless)'
    BY <1>4 DEF PfInv, Own
  <1>5. page # "server" => FormOwn(form)'
    BY DEF FormOwn, Own
  <1> QED
    BY <1>1, <1>2, <1>3, <1>4, <1>5 DEF PfInv

\* A step that only makes or ends calls.
LEMMA CallsChange ==
  ASSUME PfInv, UNCHANGED <<page, form, late, rows, saving>>, editing' \in Ids, NewCalls
  PROVE  PfInv'
  <1>1. PICK f \in FormType : f = form
    BY DEF PfInv, PfTypeOK
  <1>2. page # "server" => FormOwn(f)'
    BY <1>1 DEF PfInv, FormOwn, Own
  <1> QED
    BY <1>1, <1>2, FormChanges DEF PfInv, PfTypeOK

\* Calls that were added or have ended.
LEMMA CallEnds ==
  ASSUME NEW o \in Waiting, opens' = Others(o)
  PROVE  NewCalls
  BY RemovedFromBag DEF NewCalls, Waiting, Others

LEMMA CallAdded ==
  ASSUME NEW calls, BagToSet(calls) \subseteq Waiting, NEW o \in CallType, CallOwn(o)',
         opens' = BagAdd(calls, o)
  PROVE  NewCalls
  BY AddedToBag DEF NewCalls, Waiting

\* The calls as the actions write them.
LEMMA Calls ==
  /\ Blank \in ContentType /\ NewCall \in CallType /\ NoSave \in SaveType
  /\ \A x \in FormType \cup RowType : Content(x) \in ContentType
  /\ \A r \in Ids, at \in {"row", "refs", "features", "search"} :
       LET o == [NewCall EXCEPT !.row = r, !.at = at]
       IN  o \in CallType /\ o.at = at /\ o.row = r /\ o.read = Blank
  BY DEF Blank, NewCall, NoSave, ContentType, CallType, SaveType, Content, FormType, RowType, Ids

\* Blank inputs belong to a row to come.
LEMMA BlankIsOwn == \A tagless : Own(NoRow, Blank, tagless)'
  BY DEF Own, Blank

LEMMA ClickEditInv ==
  ASSUME PfInv, NEW r \in Rows, ClickEdit(r)
  PROVE  PfInv'
  <1>1. PICK at \in {"row", "refs", "features"} :
          /\ opens' = BagAdd(opens, [NewCall EXCEPT !.row = r, !.at = at])
          /\ at = "features" => page = "server"
          /\ at = "refs" => page \notin {"line", "stream"}
    BY DEF ClickEdit
  <1>2. UNCHANGED <<page, editing, form, late, rows, saving>>
    BY DEF ClickEdit, others
  <1> DEFINE o == [NewCall EXCEPT !.row = r, !.at = at]
  <1>3. o \in CallType /\ o.at = at /\ o.row = r /\ opens' = BagAdd(opens, o)
    BY <1>1 DEF NewCall, CallType, Blank, ContentType, Ids
  <1> HIDE DEF o
  <1>4. CallOwn(o)'
    BY <1>1, <1>2, <1>3 DEF CallOwn, Stages
  <1>5. NewCalls
    BY <1>3, <1>4, CallAdded DEF Waiting
  <1> QED
    BY <1>2, <1>5, CallsChange DEF PfInv, PfTypeOK

LEMMA ClickNewPageInv ==
  ASSUME PfInv, ClickNewPage
  PROVE  PfInv'
  <1> DEFINE o == [NewCall EXCEPT !.at = "refs"]
  <1>1. opens' = BagAdd(opens, o) /\ UNCHANGED <<page, editing, form, late, rows, saving>>
    BY DEF ClickNewPage, others
  <1>2. o \in CallType /\ o.at = "refs" /\ o.row = NoRow /\ o.read = Blank
    BY DEF NewCall, CallType, Blank, ContentType, Ids
  <1> HIDE DEF o
  <1>3. CallOwn(o)'
    BY <1>2, BlankIsOwn DEF CallOwn, Stages
  <1>4. NewCalls
    BY <1>1, <1>2, <1>3, CallAdded DEF Waiting
  <1> QED
    BY <1>1, <1>4, CallsChange DEF PfInv, PfTypeOK

\* The details of a title are asked for what the form shows.
LEMMA AskTmdbInv ==
  ASSUME PfInv, AskTmdb
  PROVE  PfInv'
  <1> PICK id \in Ids : id = form.id
    BY DEF PfInv, PfTypeOK, FormType
  <1> DEFINE o == [NewCall EXCEPT !.at = "tmdb", !.row = id,
                                  !.read = [Blank EXCEPT !.fields = id]]
  <1>1. /\ opens' = BagAdd(opens, o) /\ UNCHANGED <<page, editing, form, late, rows, saving>>
        /\ page \in {"movie", "series"}
    BY DEF AskTmdb, others
  <1>2. o \in CallType /\ o.at = "tmdb" /\ o.row = id /\ o.read.fields = id
    BY DEF NewCall, CallType, Blank, ContentType, Ids
  <1> HIDE DEF o
  <1>3. CallOwn(o)'
    BY <1>1, <1>2 DEF CallOwn, Stages
  <1>4. NewCalls
    BY <1>1, <1>2, <1>3, CallAdded DEF Waiting
  <1> QED
    BY <1>1, <1>4, CallsChange DEF PfInv, PfTypeOK

\* A form filled with what belongs to a row.
LEMMA Filled ==
  ASSUME NEW f \in FormType, NEW r \in Ids, NEW read \in ContentType
  PROVE  LET g == Fill(f, r, read)
         IN  /\ g \in FormType /\ g.id = r /\ g.fields = read.fields /\ g.tags = read.tags
             /\ g.server = f.server /\ g.guide = f.guide
  BY DEF Fill, FormType, ContentType

\* A form is filled at once, on a page that selects servers or one that does not.
LEMMA FillInv ==
  ASSUME PfInv, NEW r \in Ids, NEW read \in ContentType, form' = Fill(form, r, read),
         UNCHANGED <<page, rows, saving>>, UNCHANGED late \/ late', late => late',
         page # "server" => Own(r, read, Tagless \cup {"logo"}),
         page \notin Selecting \/ late', editing' \in Ids, NewCalls
  PROVE  PfInv'
  <1>1. PICK f \in FormType :
          /\ form' = f /\ f.id = r /\ f.fields = read.fields /\ f.tags = read.tags
          /\ f.server = form.server /\ f.guide = form.guide
    BY Filled DEF PfInv, PfTypeOK
  <1>2. late' \in BOOLEAN
    BY DEF PfInv, PfTypeOK
  <1>3. ASSUME page # "server" PROVE FormOwn(f)'
    <2>1. /\ page \notin Selecting => f.server = NoRow
          /\ page # "stream" => f.guide = NoRow
      BY <1>1, <1>3 DEF PfInv, FormOwn
    <2>2. (f.server \in {r, NoRow} /\ f.guide \in {r, NoRow}) \/ late'
      BY <2>1 DEF Selecting
    <2>3. Own(f.id, f, Tagless \cup {"logo"})'
      BY <1>1, <1>3, <2>2 DEF Own
    <2> QED
      BY <2>1, <2>3 DEF FormOwn
  <1> QED
    BY <1>1, <1>2, <1>3, FormChanges

\* populateStreamServerSelect: the server is that of the row, or comes late.
LEMMA FillAndSelectInv ==
  ASSUME PfInv, NEW calls, BagToSet(calls) \subseteq Waiting, NEW r \in Ids,
         NEW read \in ContentType, Own(r, read, Tagless),
         page \in Selecting, page # "stream", FillAndSelect(calls, r, read), UNCHANGED <<page, rows, saving, editing>>
  PROVE  PfInv'
  <1>1. ASSUME NEW s \in Selectable(read.server), opens' = calls, UNCHANGED late,
               form' = [Fill(form, r, read) EXCEPT !.server = s]
        PROVE  PfInv'
    <2>1. s \in Ids
      BY <1>1 DEF Selectable, ContentType, Ids
    <2>2. PICK f \in FormType :
            /\ form' = f /\ f.id = r /\ f.fields = read.fields
            /\ f.tags = read.tags /\ f.server = s /\ f.guide = form.guide
      <3> DEFINE g == [Fill(form, r, read) EXCEPT !.server = s]
      <3>1. form \in FormType
        BY DEF PfInv, PfTypeOK
      <3>2. /\ g \in FormType /\ g.id = r /\ g.fields = read.fields
            /\ g.tags = read.tags /\ g.server = s /\ g.guide = form.guide
        BY <2>1, <3>1 DEF Fill, FormType, ContentType
      <3> QED
        BY <1>1, <3>2
    <2>3. f.guide = NoRow
      BY <2>2 DEF PfInv, FormOwn, Selecting
    <2>4. FormOwn(f)'
      <3>1. Own(f.id, f, Tagless \cup {"logo"})'
        BY <1>1, <2>2, <2>3 DEF Own, Selectable
      <3> QED
        BY <2>3, <3>1 DEF FormOwn
    <2>5. NewCalls
      BY <1>1 DEF NewCalls, Waiting
    <2> QED
      BY <1>1, <2>2, <2>4, <2>5, FormChanges DEF PfInv, PfTypeOK
  <1>2. ASSUME form' = Fill(form, r, read), late' = TRUE,
               opens' = BagAdd(calls, [NewCall EXCEPT !.at = "list", !.row = r, !.read = read])
        PROVE  PfInv'
    <2> DEFINE o == [NewCall EXCEPT !.at = "list", !.row = r, !.read = read]
    <2>1. o \in CallType /\ o.at = "list"
      BY DEF NewCall, CallType
    <2> HIDE DEF o
    <2>2. CallOwn(o)'
      BY <1>2, <2>1 DEF CallOwn, Stages
    <2>3. NewCalls
      BY <1>2, <2>1, <2>2, CallAdded DEF o
    <2>4. Own(r, read, Tagless \cup {"logo"})
      BY DEF Own
    <2> QED
      BY <1>2, <2>3, <2>4, FillInv DEF PfInv, PfTypeOK
  <1> QED
    BY <1>1, <1>2 DEF FillAndSelect

\* What belongs to a row does so with fewer demands.
LEMMA OwnWeaker ==
  ASSUME NEW r, NEW x, Own(r, x, Tagless)
  PROVE  Own(r, x, Tagless \cup {"logo"})
  BY DEF Own

LEMMA ContentIsOwn ==
  ASSUME PfInv, page # "server", NEW r \in Rows
  PROVE  /\ Content(rows[r]) \in ContentType /\ r \in Ids
         /\ Own(r, Content(rows[r]), Tagless)
  BY DEF PfInv, PfTypeOK, RowType, Content, ContentType, Own, Ids

LEMMA BlankNow == Own(NoRow, Blank, Tagless) /\ Blank \in ContentType /\ NoRow \in Ids
  BY DEF Own, Blank, ContentType, Ids

LEMMA ClickNewTitleInv ==
  ASSUME PfInv, ClickNewTitle
  PROVE  PfInv'
  <1>1. page \in Selecting /\ page # "stream"
    BY DEF ClickNewTitle, Selecting
  <1> QED
    BY <1>1, BlankNow, FillAndSelectInv DEF ClickNewTitle, others, Waiting

\* The pages of movies, series, episodes and lines: their answers.
LEMMA TitleArrivesInv ==
  ASSUME PfInv, NEW o \in Waiting,
         \/ MovieArrives(o) \/ SeriesArrives(o) \/ EpisodeArrives(o)
  PROVE  PfInv'
  <1>1. page \in Selecting /\ page \notin {"server", "stream"} /\ o.at = "row"
    BY DEF MovieArrives, SeriesArrives, EpisodeArrives, Selecting
  <1>2. o.row \in Rows
    BY <1>1 DEF PfInv, CallOwn
  <1>3. /\ Content(rows[o.row]) \in ContentType /\ o.row \in Ids
        /\ Own(o.row, Content(rows[o.row]), Tagless)
    BY <1>1, <1>2, ContentIsOwn
  <1>4. BagToSet(Others(o)) \subseteq Waiting
    BY RemovedFromBag DEF Others, Waiting
  <1>5. /\ FillAndSelect(Others(o), o.row, Content(rows[o.row]))
        /\ UNCHANGED <<page, rows, saving, editing>>
    BY DEF MovieArrives, SeriesArrives, EpisodeArrives, others
  <1> QED
    BY <1>1, <1>3, <1>4, <1>5, FillAndSelectInv

LEMMA LineRefsArriveInv ==
  ASSUME PfInv, NEW o \in Waiting, LineRefsArrive(o)
  PROVE  PfInv'
  <1>1. page = "line" /\ page \in Selecting /\ o.at = "refs"
    BY DEF LineRefsArrive, Selecting
  <1>2. o \in CallType /\ CallOwn(o)
    BY DEF PfInv, PfTypeOK
  <1>3. o.read \in ContentType /\ o.row \in Ids /\ Own(o.row, o.read, Tagless)
    BY <1>1, <1>2 DEF CallType, CallOwn
  <1>4. BagToSet(Others(o)) \subseteq Waiting
    BY RemovedFromBag DEF Others, Waiting
  <1>5. /\ FillAndSelect(Others(o), o.row, o.read)
        /\ UNCHANGED <<page, rows, saving, editing>>
    BY DEF LineRefsArrive, others
  <1> QED
    BY <1>1, <1>3, <1>4, <1>5, FillAndSelectInv

\* What was asked for one title is written over the fields of the one shown.
LEMMA TmdbArrivesInv ==
  ASSUME PfInv, NEW o \in Waiting, TmdbArrives(o)
  PROVE  PfInv'
  <1>1. o \in CallType /\ CallOwn(o) /\ o.at = "tmdb"
    BY DEF PfInv, PfTypeOK, TmdbArrives
  <1>2. page \in {"movie", "series"} /\ o.read.fields = o.row /\ o.row \in Ids
    BY <1>1 DEF CallOwn, CallType
  <1>3. PICK f \in FormType :
          /\ form' = f /\ f.id = form.id /\ f.fields = o.row
          /\ f.tags = form.tags /\ f.server = form.server /\ f.guide = form.guide
    BY <1>2 DEF TmdbArrives, PfInv, PfTypeOK, FormType
  <1>4. /\ UNCHANGED <<page, editing, rows, saving>> /\ NewCalls
        /\ late' = (late \/ form.id # o.row)
    BY CallEnds DEF TmdbArrives, others
  <1>5. FormOwn(f)'
    <2>1. Own(form.id, form, Tagless \cup {"logo"})
      BY <1>2 DEF PfInv, FormOwn
    <2>2. Own(f.id, f, Tagless \cup {"logo"})'
      BY <1>2, <1>3, <1>4, <2>1 DEF Own
    <2> QED
      BY <1>2, <1>3, <1>4, <2>2 DEF FormOwn, Selecting, PfInv
  <1> QED
    BY <1>3, <1>4, <1>5, FormChanges DEF PfInv, PfTypeOK

LEMMA PageArrivesInv ==
  ASSUME PfInv, NEW o \in Waiting, PageArrives(o)
  PROVE  PfInv'
  <1>1. /\ page \in {"line", "stream"} /\ o.at = "row"
        /\ UNCHANGED <<page, editing, form, late, rows, saving>>
    BY DEF PageArrives, others
  <1>2. o.row \in Rows
    BY <1>1 DEF PfInv, CallOwn
  <1>3. /\ Content(rows[o.row]) \in ContentType /\ o.row \in Ids
        /\ Own(o.row, Content(rows[o.row]), Tagless)
    BY <1>1, <1>2, ContentIsOwn
  <1>4. PICK read \in ContentType : read = Content(rows[o.row])
    BY <1>3
  <1>5. PICK ran \in BOOLEAN : ran = rows[o.row].running
    BY <1>2 DEF PfInv, PfTypeOK, RowType
  <1> DEFINE first == [NewCall EXCEPT !.at = "refs"]
             again == [at |-> "refs", row |-> o.row, read |-> read, ran |-> ran]
  <1>6. opens' = BagAdd(BagAdd(Others(o), first), again)
    BY <1>4, <1>5 DEF PageArrives
  <1>7. first \in CallType /\ first.at = "refs" /\ first.row = NoRow /\ first.read = Blank
    BY DEF NewCall, CallType, Blank, ContentType, Ids
  <1>8. again \in CallType /\ again.at = "refs" /\ again.row = o.row /\ again.read = read
    BY <1>3 DEF CallType
  <1> HIDE DEF first, again
  <1>9. CallOwn(first)' /\ CallOwn(again)'
    <2>1. Own(again.row, again.read, Tagless)'
      BY <1>1, <1>3, <1>4, <1>8, OwnStays
    <2> QED
      BY <1>7, <1>8, <2>1, BlankIsOwn DEF CallOwn, Stages
  <1>10. Waiting' \subseteq (Waiting \cup {first}) \cup {again}
    BY <1>6, AddedToBag, RemovedFromBag DEF Waiting, Others
  <1>11. NewCalls
    BY <1>7, <1>8, <1>9, <1>10 DEF NewCalls
  <1> QED
    BY <1>1, <1>11, CallsChange DEF PfInv, PfTypeOK

LEMMA RowFailsInv ==
  ASSUME PfInv, NEW o \in Waiting, RowFails(o)
  PROVE  PfInv'
  BY CallEnds, CallsChange DEF RowFails, others, PfInv, PfTypeOK

\* openPackageModal: a package that is gone gets the inputs of the one before.
LEMMA PackageRefsArriveInv ==
  ASSUME PfInv, NEW o \in Waiting, PackageRefsArrive(o)
  PROVE  PfInv'
  <1>1. /\ page = "package" /\ page \notin Selecting
        /\ UNCHANGED <<page, editing, late, rows, saving>> /\ NewCalls
    BY CallEnds DEF PackageRefsArrive, others, Selecting
  <1>2. o.row \in Ids
    BY DEF PfInv, PfTypeOK, CallType
  <1>3. CASE form' = Fill(form, NoRow, Blank)
    BY <1>1, <1>3, BlankNow, OwnWeaker, FillInv DEF PfInv, PfTypeOK
  <1>4. CASE o.row \in Rows /\ form' = Fill(form, o.row, Content(rows[o.row]))
    <2>1. /\ Content(rows[o.row]) \in ContentType
          /\ Own(o.row, Content(rows[o.row]), Tagless)
      BY <1>1, <1>4, ContentIsOwn
    <2> QED
      BY <1>1, <1>2, <1>4, <2>1, OwnWeaker, FillInv DEF PfInv, PfTypeOK
  <1>5. CASE o.row \in Rows /\ ~rows[o.row].there /\ form' = [form EXCEPT !.id = o.row]
    <2>1. PICK f \in FormType :
            form' = f /\ f.id = o.row /\ f.server = form.server /\ f.guide = form.guide
      BY <1>2, <1>5 DEF PfInv, PfTypeOK, FormType
    <2>2. FormOwn(f)'
      BY <1>1, <1>5, <2>1 DEF FormOwn, PfInv
    <2> QED
      BY <1>1, <2>1, <2>2, FormChanges DEF PfInv, PfTypeOK
  <1> QED
    BY <1>2, <1>3, <1>4, <1>5 DEF PackageRefsArrive, Ids

\* A stage of openStreamForm that the next one follows.
LEMMA StageFollows ==
  ASSUME PfInv, NEW o \in Waiting, NEW stage \in Stages, Await(o, stage), UNCHANGED page,
         page = "stream", o.at \in {"refs"} \cup Stages, late => late',
         stage \in {"servers", "timeshift"} => late'
  PROVE  NewCalls
  <1>1. o \in CallType /\ CallOwn(o)
    BY DEF PfInv, PfTypeOK
  <1> DEFINE next == [o EXCEPT !.at = stage]
  <1>2. next \in CallType /\ next.at = stage /\ next.row = o.row /\ next.read = o.read
    BY <1>1 DEF CallType
  <1>3. opens' = BagAdd(Others(o), next)
    BY DEF Await
  <1> HIDE DEF next
  <1>4. CallOwn(next)'
    <2>1. Own(o.row, o.read, Tagless)'
      BY <1>1, OwnStays DEF CallOwn
    <2> QED
      BY <1>2, <2>1 DEF CallOwn, Stages
  <1> QED
    BY <1>2, <1>3, <1>4, CallAdded, RemovedFromBag DEF Others, Waiting

\* What a stage knows of its call and of the form.
LEMMA StageKnows ==
  ASSUME PfInv, NEW o \in Waiting, o.at \in Stages \/ (o.at = "refs" /\ page = "stream")
  PROVE  /\ page = "stream" /\ o.row \in Ids /\ o.read \in ContentType
         /\ Own(o.row, o.read, Tagless)
         /\ form \in FormType /\ Own(form.id, form, Tagless)
         /\ o.at \in {"servers", "timeshift"} => late
  BY DEF PfInv, PfTypeOK, CallType, CallOwn, FormOwn, Own, Stages

\* The form of a stream changes to one that belongs to what it shows.
LEMMA StreamFormChanges ==
  ASSUME PfInv, page = "stream", UNCHANGED <<page, editing, rows, saving>>,
         late' \in BOOLEAN, late => late', NEW f \in FormType, form' = f,
         Own(f.id, f, Tagless)', NewCalls
  PROVE  PfInv'
  <1>1. FormOwn(f)'
    BY DEF FormOwn, Selecting, Own
  <1> QED
    BY <1>1, FormChanges DEF PfInv, PfTypeOK

\* Selects that are drawn anew, empty, in whichever form is shown.
LEMMA Emptied ==
  ASSUME form \in FormType, page = "stream", UNCHANGED <<page, late>>,
         Own(form.id, form, Tagless), form' = [form EXCEPT !.tags = NoRow]
  PROVE  \E f \in FormType : form' = f /\ Own(f.id, f, Tagless)'
  <1>1. PICK f \in FormType :
          /\ form' = f /\ f.id = form.id /\ f.fields = form.fields
          /\ f.tags = NoRow /\ f.server = form.server /\ f.guide = form.guide
    BY DEF FormType, Ids
  <1> QED
    BY <1>1 DEF Own, Tagless

LEMMA TakeOverInv ==
  ASSUME PfInv, NEW o \in Waiting, o.at = "first" \/ (o.at = "refs" /\ page = "stream"),
         TakeOver(o), UNCHANGED <<page, editing, late, rows, saving>>
  PROVE  PfInv'
  <1>1. o.at \in {"refs"} \cup Stages /\ Await(o, "profiles") /\ "profiles" \in Stages
    BY DEF TakeOver, Stages
  <1>2. page = "stream" /\ form \in FormType /\ Own(form.id, form, Tagless)
    BY <1>1, StageKnows
  <1>3. NewCalls
    BY <1>1, <1>2, StageFollows
  <1>4. PICK f \in FormType : form' = f /\ Own(f.id, f, Tagless)'
    BY <1>2, Emptied DEF TakeOver
  <1> QED
    BY <1>2, <1>3, <1>4, StreamFormChanges DEF PfInv, PfTypeOK

\* openStreamForm up to the profiles: the tags are emptied while the stream before
\* is shown.
LEMMA StreamRefsArriveInv ==
  ASSUME PfInv, NEW o \in Waiting,
         StreamRefsArrive(o) \/ StreamListArrives(o) \/ ProfilesArrive(o)
  PROVE  PfInv'
  <1>1. UNCHANGED <<page, editing, late, rows, saving>>
    BY DEF StreamRefsArrive, StreamListArrives, ProfilesArrive, others
  <1>2. CASE StreamRefsArrive(o) /\ TakeOver(o)
    BY <1>1, <1>2, TakeOverInv DEF StreamRefsArrive
  <1>3. CASE StreamRefsArrive(o) /\ Await(o, "first") /\ UNCHANGED form
    <2>1. o.at = "refs" /\ page = "stream" /\ "first" \in Stages
      BY <1>3 DEF StreamRefsArrive, Stages
    <2>2. NewCalls
      BY <1>1, <1>3, <2>1, StageFollows
    <2> QED
      BY <1>1, <1>3, <2>2, CallsChange DEF PfInv, PfTypeOK
  <1>4. CASE StreamListArrives(o)
    BY <1>1, <1>4, TakeOverInv DEF StreamListArrives
  <1>5. CASE ProfilesArrive(o)
    <2>1. o.at \in Stages /\ Await(o, "guides") /\ "guides" \in Stages
      BY <1>5 DEF ProfilesArrive, Stages
    <2>2. page = "stream" /\ form \in FormType /\ Own(form.id, form, Tagless)
      BY <2>1, StageKnows
    <2>3. NewCalls
      BY <1>1, <2>1, <2>2, StageFollows
    <2>4. PICK f \in FormType : form' = f /\ Own(f.id, f, Tagless)'
      BY <1>1, <1>5, <2>2, Emptied DEF ProfilesArrive
    <2> QED
      BY <1>1, <2>2, <2>3, <2>4, StreamFormChanges DEF PfInv, PfTypeOK
  <1> QED
    BY <1>2, <1>3, <1>4, <1>5 DEF StreamRefsArrive

\* The other inputs are filled: with the server and the guide of the stream, or late.
LEMMA StreamFilled ==
  ASSUME PfInv, NEW o \in Waiting, o.at \in Stages, UNCHANGED <<page, editing, late, rows, saving>>,
         NEW s \in Ids, NEW g \in Ids,
         late \/ (s \in {o.row, NoRow} /\ g \in {o.row, NoRow}),
         form' = [FillStream(form, o) EXCEPT !.guide = g, !.server = s], opens' = Others(o)
  PROVE  PfInv'
  <1>1. /\ page = "stream" /\ o.row \in Ids /\ o.read \in ContentType
        /\ Own(o.row, o.read, Tagless) /\ form \in FormType
    BY StageKnows
  <1> DEFINE t == IF o.row = NoRow THEN form.tags ELSE o.read.tags
             h == [FillStream(form, o) EXCEPT !.guide = g, !.server = s]
  <1>2. t \in Ids
    BY <1>1 DEF FormType, ContentType
  <1>3. /\ h \in FormType /\ h.id = o.row /\ h.fields = o.read.fields /\ h.tags = t
        /\ h.server = s /\ h.guide = g
    <2>1. [o.read EXCEPT !.tags = t] \in ContentType
      BY <1>1, <1>2 DEF ContentType
    <2>2. PICK read \in ContentType :
            /\ read = [o.read EXCEPT !.tags = t]
            /\ read.fields = o.read.fields /\ read.tags = t
      BY <1>1, <2>1 DEF ContentType
    <2>3. FillStream(form, o) = Fill(form, o.row, read)
      BY <2>2 DEF FillStream
    <2> QED
      BY <1>1, <2>2, <2>3 DEF Fill, FormType, ContentType
  <1> HIDE DEF t
  <1>4. PICK f \in FormType :
          /\ form' = f /\ f.id = o.row /\ f.fields = o.read.fields /\ f.tags = t
          /\ f.server = s /\ f.guide = g
    BY <1>3
  <1>5. Own(f.id, f, Tagless)'
    BY <1>1, <1>4 DEF t, Own, Tagless
  <1>6. NewCalls
    BY CallEnds
  <1> QED
    BY <1>1, <1>4, <1>5, <1>6, StreamFormChanges DEF PfInv, PfTypeOK

LEMMA GuidesArriveInv ==
  ASSUME PfInv, NEW o \in Waiting, GuidesArrive(o)
  PROVE  PfInv'
  <1>1. o.at = "guides" /\ o.at \in Stages /\ UNCHANGED <<page, editing, rows, saving>>
    BY DEF GuidesArrive, others, Stages
  <1>2. /\ page = "stream" /\ o.row \in Ids /\ o.read \in ContentType
        /\ Own(o.row, o.read, Tagless) /\ form \in FormType /\ Own(form.id, form, Tagless)
    BY <1>1, StageKnows
  <1>3. PICK g \in {o.read.guide, NoRow} :
          \/ /\ \E s \in Selectable(o.read.server) :
                  form' = [FillStream(form, o) EXCEPT !.guide = g, !.server = s]
             /\ opens' = Others(o) /\ UNCHANGED late
          \/ /\ form' = [form EXCEPT !.guide = g]
             /\ Await(o, "servers") /\ late' = TRUE
    BY DEF GuidesArrive
  <1>4. g \in Ids
    BY <1>2, <1>3 DEF ContentType, Ids
  <1>5. ASSUME NEW s \in Selectable(o.read.server), opens' = Others(o), UNCHANGED late,
               form' = [FillStream(form, o) EXCEPT !.guide = g, !.server = s]
        PROVE  PfInv'
    <2>1. s \in Ids /\ (late \/ (s \in {o.row, NoRow} /\ g \in {o.row, NoRow}))
      BY <1>2, <1>3, <1>5 DEF Selectable, Own, ContentType, Ids
    <2> QED
      BY <1>1, <1>4, <1>5, <2>1, StreamFilled
  <1>6. CASE form' = [form EXCEPT !.guide = g] /\ Await(o, "servers") /\ late' = TRUE
    <2>1. NewCalls
      BY <1>1, <1>2, <1>6, StageFollows DEF Stages
    <2>2. PICK f \in FormType :
            /\ form' = f /\ f.id = form.id /\ f.fields = form.fields /\ f.tags = form.tags
      BY <1>2, <1>4, <1>6 DEF FormType
    <2>3. Own(f.id, f, Tagless)'
      BY <1>1, <1>2, <1>6, <2>2 DEF Own
    <2> QED
      BY <1>1, <1>2, <1>6, <2>1, <2>2, <2>3, StreamFormChanges
  <1> QED
    BY <1>3, <1>5, <1>6

LEMMA ServersArriveInv ==
  ASSUME PfInv, NEW o \in Waiting, ServersArrive(o) \/ TimeshiftArrives(o)
  PROVE  PfInv'
  <1>1. o.at \in {"servers", "timeshift"} /\ UNCHANGED <<page, editing, late, rows, saving>>
    BY DEF ServersArrive, TimeshiftArrives, others
  <1>2. /\ page = "stream" /\ late /\ o.row \in Ids /\ o.read \in ContentType
        /\ form \in FormType /\ Own(form.id, form, Tagless)
    BY <1>1, StageKnows DEF Stages
  <1>3. ASSUME NEW s \in Ids, form' = [FillStream(form, o) EXCEPT !.server = s],
               opens' = Others(o)
        PROVE  PfInv'
    <2>1. FillStream(form, o) \in FormType /\ FillStream(form, o).guide = form.guide
      BY <1>2 DEF FillStream, Fill, FormType, ContentType
    <2>2. form' = [FillStream(form, o) EXCEPT !.guide = form.guide, !.server = s]
      BY <1>3, <2>1 DEF FormType
    <2>3. form.guide \in Ids
      BY <1>2 DEF FormType
    <2> QED
      BY <1>1, <1>2, <1>3, <2>2, <2>3, StreamFilled DEF Stages
  <1>4. CASE TimeshiftArrives(o)
    <2>1. /\ FillStream(form, o) \in FormType /\ FillStream(form, o).server = form.server
          /\ form.server \in Ids
      BY <1>2 DEF FillStream, Fill, FormType, ContentType
    <2>2. form' = [FillStream(form, o) EXCEPT !.server = form.server] /\ opens' = Others(o)
      BY <1>4, <2>1 DEF TimeshiftArrives, FormType
    <2> QED
      BY <1>3, <2>1, <2>2
  <1>5. ASSUME NEW s \in Selectable(o.read.server), opens' = Others(o),
               form' = [FillStream(form, o) EXCEPT !.server = s]
        PROVE  PfInv'
    BY <1>2, <1>3, <1>5 DEF Selectable, ContentType, Ids
  <1>6. CASE form' = [form EXCEPT !.server = NoRow] /\ Await(o, "timeshift")
    <2>1. NewCalls
      BY <1>1, <1>2, <1>6, StageFollows DEF Stages
    <2>2. PICK f \in FormType :
            /\ form' = f /\ f.id = form.id /\ f.fields = form.fields /\ f.tags = form.tags
      BY <1>2, <1>6 DEF FormType, Ids
    <2>3. Own(f.id, f, Tagless)'
      BY <1>1, <1>2, <2>2 DEF Own
    <2> QED
      BY <1>1, <1>2, <2>1, <2>2, <2>3, StreamFormChanges DEF PfInv, PfTypeOK
  <1> QED
    BY <1>4, <1>5, <1>6 DEF ServersArrive

\* The list of servers was late: any select may get any server of the rows.
LEMMA ListArrivesInv ==
  ASSUME PfInv, NEW o \in Waiting, ListArrives(o)
  PROVE  PfInv'
  <1>1. /\ o.at = "list" /\ UNCHANGED <<page, editing, late, rows, saving>> /\ NewCalls
    BY CallEnds DEF ListArrives, others
  <1>2. o \in CallType /\ CallOwn(o) /\ form \in FormType
    BY DEF PfInv, PfTypeOK
  <1>3. late /\ page \in Selecting /\ page # "server" /\ FormOwn(form)
    BY <1>1, <1>2 DEF CallOwn, Selecting, PfInv
  <1>4. PICK s \in Ids : form' = [form EXCEPT !.server = s]
    BY <1>2 DEF ListArrives, Selectable, CallType, ContentType, Ids
  <1>5. PICK f \in FormType :
          /\ form' = f /\ f.id = form.id /\ f.fields = form.fields /\ f.tags = form.tags
          /\ f.guide = form.guide
    BY <1>2, <1>4 DEF FormType
  <1>6. FormOwn(f)'
    <2>1. Own(f.id, f, Tagless \cup {"logo"})'
      BY <1>1, <1>3, <1>5 DEF FormOwn, Own, Selecting
    <2> QED
      BY <1>1, <1>3, <1>5, <2>1 DEF FormOwn
  <1> QED
    BY <1>1, <1>5, <1>6, FormChanges DEF PfInv, PfTypeOK

\* The page of a server, of which nothing is said but its types.
LEMMA ServerPageInv ==
  ASSUME PfInv, NEW o \in Waiting, ServerNamed(o) \/ ServerArrives(o)
  PROVE  PfInv'
  <1>1. o \in CallType /\ CallOwn(o) /\ form \in FormType /\ rows \in [Rows -> RowType]
    BY DEF PfInv, PfTypeOK
  <1>2. /\ page = "server" /\ o.row \in Rows /\ o.row \in Ids
        /\ UNCHANGED <<page, editing, late, rows, saving>>
    BY <1>1 DEF ServerNamed, ServerArrives, others, CallOwn, Ids
  <1>3. \E f \in FormType : form' = f
    <2>1. CASE ServerNamed(o)
      BY <1>1, <1>2, <2>1 DEF ServerNamed, FormType, Ids
    <2>2. CASE ServerArrives(o)
      <3>1. rows[o.row] \in RowType
        BY <1>1, <1>2
      <3> QED
        BY <1>1, <2>2, <3>1 DEF ServerArrives, FormType, RowType
    <2> QED
      BY <2>1, <2>2
  <1>4. NewCalls
    <2>1. CASE ServerArrives(o)
      BY <2>1, CallEnds DEF ServerArrives
    <2>2. CASE ServerNamed(o)
      <3> DEFINE next == [o EXCEPT !.at = "details"]
      <3>1. next \in CallType /\ next.at = "details" /\ next.row = o.row
        BY <1>1 DEF CallType
      <3>2. opens' = BagAdd(Others(o), next)
        BY <2>2 DEF ServerNamed
      <3> HIDE DEF next
      <3>3. CallOwn(next)'
        BY <1>2, <3>1 DEF CallOwn, Stages
      <3> QED
        BY <3>1, <3>2, <3>3, CallAdded, RemovedFromBag DEF Others, Waiting
    <2> QED
      BY <2>1, <2>2
  <1> QED
    BY <1>2, <1>3, <1>4, FormChanges DEF PfInv, PfTypeOK

\* The forms that are emptied, then fetch their row.
LEMMA OpenProfileInv ==
  ASSUME PfInv, NEW r \in Ids, OpenProfile(r)
  PROVE  PfInv'
  <1>1. /\ page = "profile" /\ page \notin Selecting /\ form' = Fill(form, NoRow, Blank)
        /\ UNCHANGED <<page, editing, late, rows, saving>>
    BY DEF OpenProfile, others, Empty, Selecting
  <1>2. NewCalls
    <2>1. CASE opens' = opens
      BY <2>1 DEF NewCalls, Waiting
    <2>2. CASE r # NoRow /\ opens' = BagAdd(opens, [NewCall EXCEPT !.row = r])
      <3> DEFINE o == [NewCall EXCEPT !.row = r]
      <3>1. o \in CallType /\ o.at = "row" /\ o.row = r /\ opens' = BagAdd(opens, o)
        BY <2>2 DEF NewCall, CallType, Blank, ContentType, Ids
      <3> HIDE DEF o
      <3>2. CallOwn(o)'
        BY <2>2, <3>1 DEF CallOwn, Stages, Ids
      <3> QED
        BY <3>1, <3>2, CallAdded DEF Waiting
    <2> QED
      BY <2>1, <2>2 DEF OpenProfile
  <1> QED
    BY <1>1, <1>2, BlankNow, OwnWeaker, FillInv DEF PfInv, PfTypeOK

LEMMA ProfileArrivesInv ==
  ASSUME PfInv, NEW o \in Waiting, ProfileArrives(o)
  PROVE  PfInv'
  <1>1. /\ page = "profile" /\ page \notin Selecting /\ o.at = "row"
        /\ UNCHANGED <<page, editing, late, rows, saving>> /\ NewCalls
    BY CallEnds DEF ProfileArrives, others, Selecting
  <1>2. o.row \in Rows
    BY <1>1 DEF PfInv, CallOwn
  <1>3. CASE form' = form
    BY <1>1, <1>3, CallsChange DEF PfInv, PfTypeOK
  <1>4. CASE form' = Fill(form, o.row, Content(rows[o.row]))
    BY <1>1, <1>2, <1>4, ContentIsOwn, OwnWeaker, FillInv DEF PfInv, PfTypeOK
  <1> QED
    BY <1>3, <1>4 DEF ProfileArrives

LEMMA DrmRefsArriveInv ==
  ASSUME PfInv, NEW o \in Waiting, DrmRefsArrive(o)
  PROVE  PfInv'
  <1>1. /\ page = "drm" /\ page \notin Selecting /\ form' = Fill(form, NoRow, Blank)
        /\ UNCHANGED <<page, editing, late, rows, saving>>
    BY DEF DrmRefsArrive, others, Empty, Selecting
  <1>2. o \in CallType
    BY DEF PfInv, PfTypeOK
  <1>3. NewCalls
    <2>1. CASE opens' = Others(o)
      BY <2>1, CallEnds
    <2>2. CASE o.row # NoRow /\ opens' = BagAdd(Others(o), [o EXCEPT !.at = "row"])
      <3> DEFINE next == [o EXCEPT !.at = "row"]
      <3>1. /\ next \in CallType /\ next.at = "row" /\ next.row = o.row
            /\ opens' = BagAdd(Others(o), next) /\ o.row \in Rows
        BY <1>2, <2>2 DEF CallType, Ids
      <3> HIDE DEF next
      <3>2. CallOwn(next)'
        BY <3>1 DEF CallOwn, Stages
      <3> QED
        BY <3>1, <3>2, CallAdded, RemovedFromBag DEF Others, Waiting
    <2> QED
      BY <2>1, <2>2 DEF DrmRefsArrive
  <1> QED
    BY <1>1, <1>3, BlankNow, OwnWeaker, FillInv DEF PfInv, PfTypeOK

\* The profile of a DRM stream may have no option in the select.
LEMMA DrmArrivesInv ==
  ASSUME PfInv, NEW o \in Waiting, DrmArrives(o)
  PROVE  PfInv'
  <1>1. /\ page = "drm" /\ page \notin Selecting /\ o.at = "row"
        /\ UNCHANGED <<page, editing, late, rows, saving>> /\ NewCalls
    BY CallEnds DEF DrmArrives, others, Selecting
  <1>2. o.row \in Rows
    BY <1>1 DEF PfInv, CallOwn
  <1>3. CASE form' = form
    BY <1>1, <1>3, CallsChange DEF PfInv, PfTypeOK
  <1>4. ASSUME NEW t \in {Content(rows[o.row]).tags, NoRow},
               form' = Fill(form, o.row, [Content(rows[o.row]) EXCEPT !.tags = t])
        PROVE  PfInv'
    <2>1. PICK read \in ContentType : read = Content(rows[o.row])
      BY <1>1, <1>2, ContentIsOwn
    <2>2. o.row \in Ids /\ Own(o.row, read, Tagless)
      BY <1>1, <1>2, <2>1, ContentIsOwn
    <2> DEFINE shown == [read EXCEPT !.tags = t]
    <2>3. /\ shown \in ContentType /\ shown.fields = read.fields /\ shown.tags = t
          /\ shown.server = read.server /\ shown.guide = read.guide
      BY <1>4, <2>1 DEF ContentType, Ids
    <2> HIDE DEF shown
    <2>4. Own(o.row, shown, Tagless \cup {"logo"})
      BY <1>1, <1>4, <2>1, <2>2, <2>3 DEF Own, Tagless
    <2> QED
      BY <1>1, <1>4, <2>1, <2>2, <2>3, <2>4, FillInv DEF shown, PfInv, PfTypeOK
  <1> QED
    BY <1>3, <1>4 DEF DrmArrives

\* Pages that read a noted id when they load, and rows that come whole.
LEMMA OpenNotedInv ==
  ASSUME PfInv, NEW r \in Ids, OpenNoted(r)
  PROVE  PfInv'
  <1>1. /\ page \in Noted /\ editing' = r /\ UNCHANGED <<page, form, late, rows, saving>>
    BY DEF OpenNoted
  <1>2. NewCalls
    <2>1. CASE page = "expiry"
      <3> DEFINE o == [NewCall EXCEPT !.row = r]
      <3>1. /\ o \in CallType /\ o.at = "row" /\ o.row = r /\ opens' = BagAdd(opens, o)
            /\ r \in Rows
        BY <2>1 DEF OpenNoted, NewCall, CallType, Blank, ContentType, Ids
      <3> HIDE DEF o
      <3>2. CallOwn(o)'
        BY <3>1 DEF CallOwn, Stages
      <3> QED
        BY <3>1, <3>2, CallAdded DEF Waiting
    <2>2. CASE page # "expiry"
      <3> DEFINE o == [NewCall EXCEPT !.at = "refs"]
      <3>1. /\ o \in CallType /\ o.at = "refs" /\ opens' = BagAdd(opens, o)
        BY <2>2 DEF OpenNoted, NewCall, CallType, Blank, ContentType, Ids
      <3> HIDE DEF o
      <3>2. CallOwn(o)'
        BY <1>1, <3>1 DEF CallOwn, Stages, Noted
      <3> QED
        BY <3>1, <3>2, CallAdded DEF Waiting
    <2> QED
      BY <2>1, <2>2
  <1> QED
    BY <1>1, <1>2, CallsChange

LEMMA NotedIsReadInv ==
  ASSUME PfInv, NEW o \in Waiting, MemberRefsArrive(o) \/ GroupRefsArrive(o)
  PROVE  PfInv'
  <1>1. /\ page \in {"member", "group"} /\ page \notin Selecting /\ NotedIsRead(o)
        /\ UNCHANGED <<page, editing, late, rows, saving>>
    BY DEF MemberRefsArrive, GroupRefsArrive, NotedIsRead, others, Selecting
  <1>2. CASE form' = Fill(form, NoRow, Blank) /\ opens' = Others(o)
    BY <1>1, <1>2, CallEnds, BlankNow, OwnWeaker, FillInv DEF PfInv, PfTypeOK
  <1>3. CASE /\ editing # NoRow /\ UNCHANGED form
             /\ opens' = BagAdd(Others(o), [o EXCEPT !.at = "row", !.row = editing])
    <2>1. PICK r \in Rows : r = editing
      BY <1>3 DEF PfInv, PfTypeOK, Ids
    <2> DEFINE next == [o EXCEPT !.at = "row", !.row = r]
    <2>2. next \in CallType /\ next.at = "row" /\ next.row = r /\ opens' = BagAdd(Others(o), next)
      <3>1. o \in CallType
        BY DEF PfInv, PfTypeOK
      <3> QED
        BY <1>3, <2>1, <3>1 DEF CallType, Ids
    <2> HIDE DEF next
    <2>3. CallOwn(next)'
      BY <2>1, <2>2 DEF CallOwn, Stages
    <2>4. NewCalls
      BY <2>2, <2>3, CallAdded, RemovedFromBag DEF Others, Waiting
    <2> QED
      BY <1>1, <1>3, <2>4, CallsChange DEF PfInv, PfTypeOK
  <1> QED
    BY <1>1, <1>2, <1>3 DEF NotedIsRead, Empty

LEMMA RowFillsInv ==
  ASSUME PfInv, NEW o \in Waiting,
         \/ MemberArrives(o) \/ GroupArrives(o) \/ ServiceArrives(o) \/ NotesArrive(o)
         \/ RestrictionsArrive(o) \/ PermissionsArrive(o)
  PROVE  PfInv'
  <1>1. /\ page \notin Selecting /\ page # "server" /\ RowFills(o)
    BY DEF MemberArrives, GroupArrives, ServiceArrives, NotesArrive, RestrictionsArrive,
           PermissionsArrive, Selecting
  <1>2. /\ o.at = "row" /\ UNCHANGED <<page, editing, late, rows, saving>> /\ NewCalls
        /\ form' = Fill(form, o.row, Content(rows[o.row]))
    BY <1>1, CallEnds DEF RowFills, others
  <1>3. o.row \in Rows
    BY <1>2 DEF PfInv, CallOwn
  <1> QED
    BY <1>1, <1>2, <1>3, ContentIsOwn, OwnWeaker, FillInv DEF PfInv, PfTypeOK

\* editRolePerms draws its boxes again, empty.
LEMMA SecurityReloadsInv ==
  ASSUME PfInv, SecurityReloads
  PROVE  PfInv'
  <1>1. /\ page = "role" /\ UNCHANGED <<page, editing, late, rows, saving, opens>>
        /\ form' = [form EXCEPT !.tags = NoRow]
    BY DEF SecurityReloads, others
  <1>2. PICK f \in FormType :
          /\ form' = f /\ f.id = form.id /\ f.fields = form.fields
          /\ f.tags = NoRow /\ f.server = form.server /\ f.guide = form.guide
    BY <1>1 DEF PfInv, PfTypeOK, FormType, Ids
  <1>3. Own(f.id, f, Tagless \cup {"logo"})'
    BY <1>1, <1>2 DEF PfInv, FormOwn, Own, Tagless
  <1>4. FormOwn(f)'
    BY <1>1, <1>2, <1>3 DEF PfInv, FormOwn
  <1>5. NewCalls
    BY <1>1 DEF NewCalls, Waiting
  <1> QED
    BY <1>1, <1>2, <1>4, <1>5, FormChanges DEF PfInv, PfTypeOK

\* Forms that are filled from the list on screen.
LEMMA OpenAtHandInv ==
  ASSUME PfInv, NEW r \in Ids,
         OpenCategory(r) \/ OpenBouquet(r) \/ OpenProvider(r) \/ OpenAccessCode(r)
  PROVE  PfInv'
  <1>1. /\ page \notin Selecting /\ page # "server" /\ OpenAtHand(r)
    BY DEF OpenCategory, OpenBouquet, OpenProvider, OpenAccessCode, Selecting
  <1>2. UNCHANGED <<page, editing, late, rows, saving, opens>>
    BY <1>1 DEF OpenAtHand, others
  <1>3. NewCalls
    BY <1>2 DEF NewCalls, Waiting
  <1>4. CASE r = NoRow
    BY <1>1, <1>2, <1>3, <1>4, BlankNow, OwnWeaker, FillInv, SMTT(30) DEF OpenAtHand, PfInv, PfTypeOK
  <1>5. CASE r \in Rows /\ r # NoRow
    <2>1. /\ Content(rows[r]) \in ContentType
          /\ Own(r, Content(rows[r]), Tagless \cup {"logo"})
      BY <1>1, <1>5, ContentIsOwn, OwnWeaker
    <2>2. form' = Fill(form, r, Content(rows[r]))
      BY <1>1, <1>5 DEF OpenAtHand
    <2> QED
      BY <1>1, <1>2, <1>3, <2>1, <2>2, FillInv DEF PfInv, PfTypeOK
  <1> QED
    BY <1>4, <1>5 DEF Ids

\* The logo of a channel, and logos found for the one before.
LEMMA OpenLogoInv ==
  ASSUME PfInv, NEW r \in Rows, OpenLogo(r)
  PROVE  PfInv'
  <1>1. /\ page = "logo" /\ page \notin Selecting
        /\ form' = Fill(form, r, [Content(rows[r]) EXCEPT !.tags = NoRow])
        /\ opens' = BagAdd(opens, [NewCall EXCEPT !.at = "search", !.row = r])
        /\ UNCHANGED <<page, editing, late, rows, saving>>
    BY DEF OpenLogo, others, Selecting
  <1>2. PICK read \in ContentType : read = Content(rows[r]) /\ Own(r, read, Tagless) /\ r \in Ids
    BY <1>1, ContentIsOwn
  <1> DEFINE shown == [read EXCEPT !.tags = NoRow]
             o == [NewCall EXCEPT !.at = "search", !.row = r]
  <1>3. /\ shown \in ContentType /\ shown.fields = read.fields /\ shown.tags = NoRow
        /\ shown.server = read.server /\ shown.guide = read.guide
    BY DEF ContentType, Ids
  <1>4. o \in CallType /\ o.at = "search"
    BY DEF NewCall, CallType, Blank, ContentType, Ids
  <1>5. form' = Fill(form, r, shown) /\ opens' = BagAdd(opens, o)
    BY <1>1, <1>2
  <1> HIDE DEF shown, o
  <1>6. Own(r, shown, Tagless \cup {"logo"})
    BY <1>1, <1>2, <1>3 DEF Own, Tagless
  <1>7. CallOwn(o)'
    BY <1>1, <1>4 DEF CallOwn, Stages
  <1>8. NewCalls
    BY <1>4, <1>5, <1>7, CallAdded DEF Waiting
  <1> QED
    BY <1>1, <1>2, <1>3, <1>5, <1>6, <1>8, FillInv DEF PfInv, PfTypeOK

LEMMA LogosArriveInv ==
  ASSUME PfInv, NEW o \in Waiting, LogosArrive(o)
  PROVE  PfInv'
  <1>1. o \in CallType /\ CallOwn(o) /\ o.at = "search" /\ form \in FormType
    BY DEF PfInv, PfTypeOK, LogosArrive
  <1>2. /\ page = "logo" /\ late' = (late \/ form.id # o.row) /\ NewCalls
        /\ UNCHANGED <<page, editing, rows, saving>>
    BY <1>1, CallEnds DEF LogosArrive, others, CallOwn
  <1>3. PICK f \in FormType :
          /\ form' = f /\ f.id = form.id /\ f.fields = form.fields
          /\ f.tags \in {o.row, NoRow} /\ f.server = form.server /\ f.guide = form.guide
    <2> DEFINE g == [form EXCEPT !.tags = o.row]
               h == [form EXCEPT !.tags = NoRow]
    <2>1. /\ g \in FormType /\ g.id = form.id /\ g.fields = form.fields
          /\ g.tags = o.row /\ g.server = form.server /\ g.guide = form.guide
      BY <1>1 DEF FormType, CallType
    <2>2. /\ h \in FormType /\ h.id = form.id /\ h.fields = form.fields
          /\ h.tags = NoRow /\ h.server = form.server /\ h.guide = form.guide
      BY <1>1 DEF FormType, Ids
    <2>3. form' = g \/ form' = h
      BY DEF LogosArrive
    <2> QED
      BY <2>1, <2>2, <2>3
  <1>4. Own(f.id, f, Tagless \cup {"logo"})'
    BY <1>2, <1>3 DEF PfInv, FormOwn, Own
  <1>5. FormOwn(f)'
    BY <1>2, <1>3, <1>4 DEF PfInv, FormOwn
  <1> QED
    BY <1>2, <1>3, <1>5, FormChanges DEF PfInv, PfTypeOK

\* A step that changes rows: what it writes belongs to them.
LEMMA RowsChange ==
  ASSUME PfInv, UNCHANGED <<page, opens>>, late' \in BOOLEAN, late => late', editing' \in Ids,
         NEW f \in FormType, form' = f, page # "server" => FormOwn(f)',
         NEW s \in SaveType, saving' = s, page # "server" => SaveOwn(s)',
         rows' \in [Rows -> RowType],
         NEW r \in Rows, \A q \in Rows : q # r => Content(rows'[q]) = Content(rows[q]),
         NEW x, Content(rows'[r]) = Content(x), page # "server" => Own(r, x, Tagless)'
  PROVE  PfInv'
  <1>1. PfTypeOK'
    BY DEF PfInv, PfTypeOK, Waiting
  <1>2. \A o \in Waiting' : CallOwn(o)'
    BY CallsStay DEF PfInv, Waiting
  <1>3. page # "server" => SaveOwn(saving)' /\ FormOwn(form)'
    BY DEF SaveOwn, FormOwn, Own
  <1>4. ASSUME page # "server", NEW q \in Rows PROVE Own(q, rows[q], Tagless)'
    <2>1. CASE q = r
      BY <1>4, <2>1 DEF Own, Content
    <2>2. CASE q # r
      <3>1. Own(q, rows[q], Tagless)
        BY <1>4 DEF PfInv
      <3>2. Content(rows'[q]) = Content(rows[q])
        BY <2>2
      <3> QED
        BY <3>1, <3>2 DEF Own, Content
    <2> QED
      BY <2>1, <2>2
  <1> QED
    BY <1>1, <1>2, <1>3, <1>4 DEF PfInv

\* A row that is overwritten, with what belongs to it.
LEMMA RowStored ==
  ASSUME rows \in [Rows -> RowType], NEW r \in Rows, NEW body \in ContentType,
         rows' = Stored(r, body), UNCHANGED <<page, late>>
  PROVE  /\ rows' \in [Rows -> RowType]
         /\ \A q \in Rows : q # r => rows'[q] = rows[q]
         /\ \A q \in Rows : rows'[q].there = rows[q].there
         /\ \E x \in RowType :
              /\ rows'[r] = x
              /\ Own(r, body, Tagless) /\ Own(r, rows[r], Tagless) => Own(r, x, Tagless)'
  <1> DEFINE g == IF page = "stream" THEN body.guide ELSE rows[r].guide
             x == [rows[r] EXCEPT !.fields = body.fields, !.tags = body.tags,
                                  !.server = body.server, !.guide = g]
  <1>1. g \in Ids
    BY DEF RowType, ContentType
  <1>2. rows' = [rows EXCEPT ![r] = x]
    <2>1. rows[r] \in RowType
      OBVIOUS
    <2> QED
      BY <2>1 DEF Stored, RowType
  <1> HIDE DEF g
  <1>3. /\ x \in RowType /\ x.fields = body.fields /\ x.tags = body.tags
        /\ x.server = body.server /\ x.there = rows[r].there /\ x.guide = g
    BY <1>1 DEF RowType, ContentType
  <1>4. PICK y \in RowType :
          /\ y = x /\ y.fields = body.fields /\ y.tags = body.tags
          /\ y.server = body.server /\ y.there = rows[r].there /\ y.guide = g
    BY <1>3
  <1>5. Own(r, body, Tagless) /\ Own(r, rows[r], Tagless) => Own(r, y, Tagless)'
    BY <1>4 DEF g, Own
  <1> HIDE DEF x
  <1> QED
    BY <1>2, <1>4, <1>5

\* Save overwrites the row the form shows with what it shows of it.
LEMMA PutInv ==
  ASSUME PfInv, Put, page # "logo", editing' \in Ids
  PROVE  PfInv'
  <1>1. /\ form.id \in Rows /\ form \in FormType /\ saving \in SaveType
        /\ rows \in [Rows -> RowType]
    BY DEF PfInv, PfTypeOK, FormType, Put, Ids
  <1>2. UNCHANGED <<page, opens, form, late, saving>>
    BY DEF Put
  <1>3. CASE UNCHANGED rows
    <2>1. NewCalls
      BY <1>2 DEF NewCalls, Waiting
    <2> QED
      BY <1>2, <1>3, <2>1, CallsChange
  <1>4. CASE rows[form.id].there /\ rows' = Stored(form.id, Content(form))
    <2>1. PICK f \in FormType : f = form
      BY <1>1
    <2>2. PICK s \in SaveType : s = saving
      BY <1>1
    <2>3. PICK body \in ContentType : body = Content(f)
      BY DEF FormType, Content, ContentType
    <2>4. /\ rows' \in [Rows -> RowType]
          /\ \A q \in Rows : q # f.id => rows'[q] = rows[q]
          /\ \A q \in Rows : rows'[q].there = rows[q].there
      BY <1>1, <1>2, <1>4, <2>1, <2>3, RowStored
    <2>5. PICK x \in RowType :
            /\ rows'[f.id] = x
            /\ Own(f.id, body, Tagless) /\ Own(f.id, rows[f.id], Tagless)
                 => Own(f.id, x, Tagless)'
      BY <1>1, <1>2, <1>4, <2>1, <2>3, RowStored
    <2>6. page # "server" => Own(f.id, body, Tagless) /\ Own(f.id, rows[f.id], Tagless)
      BY <1>1, <1>4, <2>1, <2>3 DEF PfInv, FormOwn, Own, Content
    <2>7. page # "server" => FormOwn(f)' /\ SaveOwn(s)'
      BY <1>2, <2>1, <2>2, <2>4, FormStays, SavesStay DEF PfInv
    <2> QED
      BY <1>1, <1>2, <2>1, <2>2, <2>4, <2>5, <2>6, <2>7, RowsChange DEF PfInv, PfTypeOK
  <1> QED
    BY <1>3, <1>4 DEF Put

LEMMA SaveRowInv ==
  ASSUME PfInv,
         \/ SaveLine \/ SaveMovie \/ SaveSeries \/ SaveEpisode \/ SavePackage \/ SaveServer
         \/ SaveProfile \/ SaveDrm \/ SaveMember \/ SaveGroup \/ SaveService \/ SaveNotes
         \/ SaveRestrictions \/ SaveRolePerms \/ SaveCategory \/ SaveBouquet
         \/ SaveProvider \/ SaveAccessCode
  PROVE  PfInv'
  <1>1. Put /\ page # "logo" /\ editing' \in {editing, NoRow}
    BY DEF Update, SaveLine, SaveMovie, SaveSeries, SaveEpisode, SavePackage, SaveServer,
           SaveProfile, SaveDrm, SaveMember, SaveGroup, SaveService, SaveNotes,
           SaveRestrictions, SaveRolePerms, SaveCategory, SaveBouquet, SaveProvider,
           SaveAccessCode
  <1> QED
    BY <1>1, PutInv DEF PfInv, PfTypeOK, Ids

\* A logo is one that was typed or found.
LEMMA ApplyLogoInv ==
  ASSUME PfInv, ApplyLogo
  PROVE  PfInv'
  <1>1. /\ page = "logo" /\ form.id \in Rows /\ form \in FormType /\ saving \in SaveType
        /\ rows \in [Rows -> RowType] /\ UNCHANGED <<page, editing, opens, late, saving>>
        /\ form' = Fill(form, NoRow, Blank)
    BY DEF ApplyLogo, PfInv, PfTypeOK, FormType, Ids, others
  <1>2. NewCalls
    BY <1>1 DEF NewCalls, Waiting
  <1>3. CASE UNCHANGED rows
    BY <1>1, <1>2, <1>3, BlankNow, OwnWeaker, FillInv DEF Selecting, PfInv, PfTypeOK
  <1>4. ASSUME NEW logo \in {form.fields, form.tags} \ {NoRow},
               rows' = [rows EXCEPT ![form.id].fields = logo]
        PROVE  PfInv'
    <2>1. PICK id \in Rows : id = form.id
      BY <1>1
    <2>2. PICK s \in SaveType : s = saving
      BY <1>1
    <2>3. logo \in Ids
      BY <1>1, <1>4 DEF FormType
    <2> DEFINE x == [rows[id] EXCEPT !.fields = logo]
    <2>4. /\ x \in RowType /\ x.fields = logo /\ x.tags = rows[id].tags
          /\ x.server = rows[id].server /\ x.guide = rows[id].guide
      BY <1>1, <2>3 DEF RowType
    <2>5. rows' = [rows EXCEPT ![id] = x]
      BY <1>1, <1>4, <2>1 DEF RowType
    <2> HIDE DEF x
    <2>6. PICK y \in RowType : y = x
      BY <2>4
    <2>7. /\ rows' \in [Rows -> RowType] /\ Content(rows'[id]) = Content(y)
          /\ \A q \in Rows : q # id => Content(rows'[q]) = Content(rows[q])
      BY <1>1, <2>5, <2>6
    <2>8. Own(id, y, Tagless)'
      <3>1. Own(id, rows[id], Tagless) /\ Own(id, form, Tagless \cup {"logo"})
        BY <1>1, <2>1 DEF PfInv, FormOwn
      <3> QED
        BY <1>1, <1>4, <2>4, <2>6, <3>1 DEF Own, Tagless
    <2>9. PICK f \in FormType :
            /\ form' = f /\ f.id = NoRow /\ f.fields = NoRow /\ f.tags = NoRow
            /\ f.server = form.server /\ f.guide = form.guide
      BY <1>1, BlankNow, Filled DEF Blank
    <2>10. FormOwn(f)'
      <3>1. f.server = NoRow /\ f.guide = NoRow
        BY <1>1, <2>9 DEF PfInv, FormOwn, Selecting
      <3> QED
        BY <2>9, <3>1 DEF FormOwn, Own
    <2>11. SaveOwn(s)'
      BY <1>1, <2>2, SavesStay DEF PfInv
    <2> QED
      BY <1>1, <2>2, <2>7, <2>8, <2>9, <2>10, <2>11, RowsChange DEF PfInv, PfTypeOK
  <1> QED
    BY <1>3, <1>4 DEF ApplyLogo

\* A save that goes on, and rows that are deleted, started and stopped.
LEMMA FlagsChange ==
  ASSUME PfInv, UNCHANGED <<page, form, opens, late, editing>>,
         NEW s \in SaveType, saving' = s, page # "server" => SaveOwn(s)',
         rows' \in [Rows -> RowType], \A r \in Rows : Content(rows'[r]) = Content(rows[r]),
         \A r \in Rows : rows'[r].there => rows[r].there
  PROVE  PfInv'
  <1>1. PfTypeOK'
    BY DEF PfInv, PfTypeOK, Waiting
  <1>2. \A o \in Waiting' : CallOwn(o)'
    BY CallsStay DEF PfInv, Waiting
  <1>3. page # "server" => SaveOwn(saving)'
    BY DEF SaveOwn, Own
  <1>4. page # "server" => FormOwn(form)'
    <2>1. PICK f : f = form
      OBVIOUS
    <2>2. page # "server" => FormOwn(f)'
      BY <2>1, FormStays DEF PfInv
    <2> QED
      BY <2>1, <2>2 DEF FormOwn, Own
  <1>5. ASSUME page # "server", NEW r \in Rows PROVE Own(r, rows[r], Tagless)'
    <2>1. Own(r, rows[r], Tagless) /\ Content(rows'[r]) = Content(rows[r])
      BY <1>5 DEF PfInv
    <2> QED
      BY <2>1 DEF Own, Content
  <1> QED
    BY <1>1, <1>2, <1>3, <1>4, <1>5 DEF PfInv

LEMMA SavingInv ==
  ASSUME PfInv, SaveNewSeries \/ SaveStream \/ SaveFails \/ CreateStream
  PROVE  PfInv'
  <1>1. /\ rows \in [Rows -> RowType] /\ form \in FormType /\ saving \in SaveType
        /\ UNCHANGED <<page, form, opens, late, editing, rows>>
    BY DEF SaveNewSeries, SaveStream, SaveFails, CreateStream, others, PfInv, PfTypeOK
  <1>2. PICK f \in FormType : f = form
    BY <1>1
  <1>3. Content(f) \in ContentType /\ f.id \in Ids
    BY DEF FormType, Content, ContentType
  <1>4. CASE SaveNewSeries
    <2> DEFINE s == [at |-> "post", row |-> NoRow, body |-> Content(f)]
    <2>1. s \in SaveType /\ s.at = "post" /\ s.body = Content(f) /\ saving' = s
      BY <1>2, <1>3, <1>4 DEF SaveNewSeries, SaveType, Ids
    <2> HIDE DEF s
    <2>2. SaveOwn(s)'
      <3>1. page = "series" /\ f.id = NoRow /\ Own(f.id, f, Tagless \cup {"logo"})
        BY <1>2, <1>4 DEF SaveNewSeries, PfInv, FormOwn
      <3>2. Own(NoRow, s.body, Tagless)'
        BY <1>1, <2>1, <3>1 DEF Own, Content, Tagless
      <3> QED
        BY <1>1, <2>1, <3>1, <3>2 DEF SaveOwn
    <2> QED
      BY <1>1, <2>1, <2>2, FlagsChange
  <1>5. CASE SaveStream
    <2>1. PICK at \in {"stop", "put"} :
            saving' = [at |-> at, row |-> f.id, body |-> Content(f)]
      BY <1>2, <1>5 DEF SaveStream
    <2> DEFINE s == [at |-> at, row |-> f.id, body |-> Content(f)]
    <2>2. /\ s \in SaveType /\ s.at = at /\ s.row = f.id /\ s.body = Content(f)
          /\ saving' = s
      BY <1>3, <2>1 DEF SaveType
    <2> HIDE DEF s
    <2>3. SaveOwn(s)'
      <3>1. page = "stream" /\ f.id \in Rows /\ Own(f.id, f, Tagless \cup {"logo"})
        BY <1>2, <1>3, <1>5 DEF SaveStream, PfInv, FormOwn, Ids
      <3>2. Own(s.row, s.body, Tagless)'
        BY <1>1, <2>2, <3>1 DEF Own, Content, Tagless
      <3> QED
        BY <1>1, <2>1, <2>2, <3>1, <3>2 DEF SaveOwn
    <2> QED
      BY <1>1, <2>2, <2>3, FlagsChange
  <1>6. CASE SaveFails
    <2>1. NoSave \in SaveType /\ NoSave.at = "none"
      BY Calls DEF NoSave
    <2>2. PICK s \in SaveType : s = NoSave
      BY <2>1
    <2>3. SaveOwn(s)'
      BY <2>1, <2>2 DEF SaveOwn
    <2> QED
      BY <1>1, <1>6, <2>2, <2>3, FlagsChange, SMTT(30) DEF SaveFails
  <1>7. CASE CreateStream
    <2>1. PICK s \in SaveType : s = saving
      BY <1>1
    <2>2. page # "server" => SaveOwn(s)'
      BY <1>1, <2>1, SavesStay DEF PfInv
    <2> QED
      BY <1>1, <1>7, <2>1, <2>2, FlagsChange DEF CreateStream
  <1> QED
    BY <1>4, <1>5, <1>6, <1>7

\* The answer of a creation: the form still shows what was sent, or it is late.
LEMMA SeriesCreatedInv ==
  ASSUME PfInv, SeriesCreated
  PROVE  PfInv'
  <1>1. PICK r \in Rows :
          /\ rows' = [rows EXCEPT ![r] = [@ EXCEPT !.there = TRUE]]
          /\ form' = [form EXCEPT !.id = r]
    BY DEF SeriesCreated
  <1>2. /\ rows \in [Rows -> RowType] /\ form \in FormType /\ saving \in SaveType
        /\ saving.at = "post" /\ saving' = NoSave /\ UNCHANGED <<page, opens, editing>>
        /\ late' = (late \/ Content(form) # saving.body)
    BY DEF SeriesCreated, others, PfInv, PfTypeOK
  <1>3. PICK s \in SaveType : s = NoSave /\ s.at = "none"
    BY Calls DEF NoSave
  <1>4. SaveOwn(s)'
    BY <1>3 DEF SaveOwn
  <1>5. PICK f \in FormType :
          /\ form' = f /\ f.id = r /\ f.fields = form.fields /\ f.tags = form.tags
          /\ f.server = form.server /\ f.guide = form.guide
    BY <1>1, <1>2 DEF FormType, Ids
  <1>6. ASSUME page # "server" PROVE FormOwn(f)'
    <2>1. page = "series" /\ Own(NoRow, saving.body, Tagless)
      BY <1>2, <1>6 DEF PfInv, SaveOwn
    <2>2. CASE late'
      <3>1. Own(f.id, f, Tagless \cup {"logo"})'
        BY <1>2, <2>1, <2>2 DEF Own
      <3> QED
        BY <1>2, <1>5, <2>1, <3>1 DEF FormOwn, Selecting, PfInv
    <2>3. CASE ~late'
      <3>1. ~late /\ Content(form) = saving.body
        BY <1>2, <2>3
      <3>2. /\ form.fields = saving.body.fields /\ form.tags = saving.body.tags
            /\ form.server = saving.body.server /\ form.guide = saving.body.guide
        BY <3>1 DEF Content
      <3>3. f.fields = NoRow /\ f.tags = NoRow /\ f.server = NoRow /\ f.guide = NoRow
        BY <1>5, <2>1, <3>1, <3>2 DEF Own, Tagless
      <3>4. Own(f.id, f, Tagless \cup {"logo"})'
        BY <1>2, <1>5, <2>1, <3>3 DEF Own
      <3> QED
        BY <1>2, <1>5, <2>1, <3>4 DEF FormOwn, Selecting, PfInv
    <2> QED
      BY <2>2, <2>3
  <1> DEFINE x == [rows[r] EXCEPT !.there = TRUE]
  <1>7. x \in RowType /\ Content(x) = Content(rows[r])
    BY <1>2 DEF RowType, Content
  <1>8. PICK y \in RowType : y = x
    BY <1>7
  <1>9. /\ rows' \in [Rows -> RowType] /\ rows'[r] = y
        /\ \A q \in Rows : q # r => rows'[q] = rows[q]
    BY <1>1, <1>2, <1>8
  <1>10. page # "server" => Own(r, y, Tagless)'
    <2>1. page # "server" => Own(r, rows[r], Tagless)
      BY DEF PfInv
    <2> QED
      BY <1>2, <1>7, <1>8, <2>1 DEF Own, Content
  <1> QED
    BY <1>2, <1>3, <1>4, <1>5, <1>6, <1>9, <1>10, RowsChange DEF PfInv, PfTypeOK

\* A row that is started or stopped.
LEMMA RowToggled ==
  ASSUME rows \in [Rows -> RowType], NEW r, NEW up \in BOOLEAN,
         rows' = [rows EXCEPT ![r].running = up]
  PROVE  /\ rows' \in [Rows -> RowType]
         /\ \A q \in Rows : Content(rows'[q]) = Content(rows[q])
         /\ \A q \in Rows : rows'[q].there = rows[q].there
  <1>1. CASE r \in Rows
    <2> DEFINE x == [rows[r] EXCEPT !.running = up]
    <2>1. x \in RowType /\ Content(x) = Content(rows[r]) /\ x.there = rows[r].there
      BY <1>1 DEF RowType, Content
    <2>2. rows' = [rows EXCEPT ![r] = x]
      BY <1>1 DEF RowType
    <2> HIDE DEF x
    <2> QED
      BY <1>1, <2>1, <2>2
  <1>2. CASE r \notin Rows
    BY <1>2
  <1> QED
    BY <1>1, <1>2

\* saveStream: the stream is stopped, overwritten and started.
LEMMA StopForSaveInv ==
  ASSUME PfInv, StopForSave
  PROVE  PfInv'
  <1>1. /\ rows \in [Rows -> RowType] /\ saving \in SaveType /\ saving.at = "stop"
        /\ UNCHANGED <<page, form, opens, late, editing>>
        /\ rows' = [rows EXCEPT ![saving.row].running = FALSE]
    BY DEF StopForSave, others, PfInv, PfTypeOK
  <1>2. PICK s \in SaveType : /\ saving' = s /\ s.at = "put again"
                              /\ s.row = saving.row /\ s.body = saving.body
    <2> DEFINE d == [saving EXCEPT !.at = "put again"]
    <2>1. /\ d \in SaveType /\ d.at = "put again" /\ d.row = saving.row
          /\ d.body = saving.body
      BY <1>1 DEF SaveType
    <2>2. saving' = d
      BY DEF StopForSave
    <2> HIDE DEF d
    <2> QED
      BY <2>1, <2>2
  <1>3. page # "server" => SaveOwn(s)'
    <2>1. page # "server" => SaveOwn(saving)
      BY DEF PfInv
    <2> QED
      BY <1>1, <1>2, <2>1 DEF SaveOwn, Own
  <1> QED
    BY <1>1, <1>2, <1>3, RowToggled, FlagsChange

LEMMA StartAfterSaveInv ==
  ASSUME PfInv, StartAfterSave
  PROVE  PfInv'
  <1>1. /\ rows \in [Rows -> RowType] /\ saving \in SaveType /\ saving' = NoSave
        /\ UNCHANGED <<page, form, opens, late, editing>>
        /\ rows' = [rows EXCEPT ![saving.row].running = rows[saving.row].there]
    BY SMTT(30) DEF StartAfterSave, others, PfInv, PfTypeOK
  <1>2. PICK s \in SaveType : s = NoSave /\ s.at = "none"
    BY Calls DEF NoSave
  <1>3. SaveOwn(s)'
    BY <1>2 DEF SaveOwn
  <1>4. /\ rows' \in [Rows -> RowType]
        /\ \A q \in Rows : Content(rows'[q]) = Content(rows[q]) /\ rows'[q].there = rows[q].there
    <2>1. CASE saving.row \in Rows
      <3>1. rows[saving.row].there \in BOOLEAN
        BY <1>1, <2>1 DEF RowType
      <3> QED
        BY <1>1, <3>1, RowToggled
    <2>2. CASE saving.row \notin Rows
      BY <1>1, <2>2
    <2> QED
      BY <2>1, <2>2
  <1> QED
    BY <1>1, <1>2, <1>3, <1>4, FlagsChange

\* The body of the save, read from the form when Save was pressed, is stored.
LEMMA PutStreamInv ==
  ASSUME PfInv, PutStream
  PROVE  PfInv'
  <1>1. /\ rows \in [Rows -> RowType] /\ saving \in SaveType
        /\ saving.at \in {"put", "put again"} /\ rows' = Stored(saving.row, saving.body)
        /\ saving' = [saving EXCEPT !.at = "start"] \/ saving' = NoSave
        /\ UNCHANGED <<page, form, opens, late, editing>>
    BY DEF PutStream, others, PfInv, PfTypeOK
  <1>2. PICK s \in SaveType :
          /\ saving' = s
          /\ s.at = "none" \/ (s.at = "start" /\ s.row = saving.row /\ s.body = saving.body)
    <2> DEFINE d == [saving EXCEPT !.at = "start"]
    <2>1. d \in SaveType /\ d.at = "start" /\ d.row = saving.row /\ d.body = saving.body
      BY <1>1, ZenonT(40) DEF SaveType
    <2>2. NoSave \in SaveType /\ NoSave.at = "none"
      BY Calls DEF NoSave
    <2>3. saving' = d \/ saving' = NoSave
      BY <1>1
    <2> HIDE DEF d
    <2> QED
      BY <2>1, <2>2, <2>3
  <1>3. PICK r \in Ids : r = saving.row
    BY <1>1 DEF SaveType
  <1>4. PICK body \in ContentType : body = saving.body
    BY <1>1 DEF SaveType
  <1>5. PICK f \in FormType : f = form
    BY DEF PfInv, PfTypeOK
  <1>6. page # "server" => page = "stream" /\ r \in Rows /\ Own(r, body, Tagless)
    BY <1>1, <1>3, <1>4 DEF PfInv, SaveOwn
  <1>7. page # "server" => SaveOwn(s)' /\ Own(r, body, Tagless)'
    BY <1>1, <1>2, <1>3, <1>4, <1>6 DEF SaveOwn, Own
  <1>8. CASE r \in Rows
    <2>1. /\ rows' \in [Rows -> RowType]
          /\ \A q \in Rows : q # r => rows'[q] = rows[q]
          /\ \A q \in Rows : rows'[q].there = rows[q].there
      BY <1>1, <1>3, <1>4, <1>8, RowStored
    <2>2. PICK x \in RowType :
            /\ rows'[r] = x
            /\ Own(r, body, Tagless) /\ Own(r, rows[r], Tagless) => Own(r, x, Tagless)'
      BY <1>1, <1>3, <1>4, <1>8, RowStored
    <2>3. page # "server" => Own(r, x, Tagless)'
      BY <1>6, <1>8, <2>2 DEF PfInv
    <2>4. page # "server" => FormOwn(f)'
      BY <1>1, <1>5, <2>1, FormStays DEF PfInv
    <2> QED
      BY <1>1, <1>2, <1>5, <1>7, <1>8, <2>1, <2>2, <2>3, <2>4, RowsChange DEF PfInv, PfTypeOK
  <1>9. CASE r \notin Rows
    <2>1. rows' = rows
      BY <1>1, <1>3, <1>9 DEF Stored
    <2> QED
      BY <1>1, <1>2, <1>6, <1>7, <1>9, <2>1, FlagsChange
  <1> QED
    BY <1>8, <1>9

LEMMA DeleteRowInv ==
  ASSUME PfInv, NEW r \in Rows, DeleteRow(r)
  PROVE  PfInv'
  <1>1. /\ rows \in [Rows -> RowType] /\ saving \in SaveType
        /\ UNCHANGED <<page, form, opens, late, editing, saving>>
        /\ rows' = [rows EXCEPT ![r].there = FALSE, ![r].running = FALSE]
    BY DEF DeleteRow, PfInv, PfTypeOK
  <1>2. PICK s \in SaveType : s = saving
    BY <1>1
  <1>3. page # "server" => SaveOwn(s)'
    BY <1>1, <1>2, SavesStay DEF PfInv
  <1> DEFINE x == [rows[r] EXCEPT !.there = FALSE, !.running = FALSE]
  <1>4. x \in RowType /\ Content(x) = Content(rows[r]) /\ x.there = FALSE
    BY <1>1 DEF RowType, Content
  <1>5. rows' = [rows EXCEPT ![r] = x]
    BY <1>1 DEF RowType
  <1> HIDE DEF x
  <1>6. /\ rows' \in [Rows -> RowType]
        /\ \A q \in Rows : /\ Content(rows'[q]) = Content(rows[q])
                           /\ rows'[q].there => rows[q].there
    BY <1>1, <1>4, <1>5
  <1> QED
    BY <1>1, <1>2, <1>3, <1>6, FlagsChange

LEMMA ToggleStreamInv ==
  ASSUME PfInv, NEW r \in Rows, ToggleStream(r)
  PROVE  PfInv'
  <1>1. /\ rows \in [Rows -> RowType] /\ saving \in SaveType
        /\ UNCHANGED <<page, form, opens, late, editing, saving>>
        /\ rows' = [rows EXCEPT ![r].running = ~@]
    BY DEF ToggleStream, PfInv, PfTypeOK
  <1>2. PICK s \in SaveType : s = saving
    BY <1>1
  <1>3. page # "server" => SaveOwn(s)'
    BY <1>1, <1>2, SavesStay DEF PfInv
  <1>4. PICK up \in BOOLEAN : up = ~rows[r].running
    BY <1>1 DEF RowType
  <1>5. rows' = [rows EXCEPT ![r].running = up]
    BY <1>1, <1>4
  <1> QED
    BY <1>1, <1>2, <1>3, <1>5, RowToggled, FlagsChange

LEMMA PfInitInv ==
  ASSUME PfInit
  PROVE  PfInv
  <1>1. PICK gone \in SUBSET Rows :
          rows = [r \in Rows |-> [there |-> r \notin gone, running |-> FALSE,
                                 fields |-> r, tags |-> r, server |-> r,
                                 guide |-> r]]
    BY DEF PfInit
  <1>2. Waiting = {}
    BY NothingInEmptyBag DEF PfInit, Waiting
  <1>3. /\ NoRow \in Ids /\ NoSave \in SaveType /\ NoSave.at = "none" /\ saving = NoSave
        /\ late = FALSE /\ editing = NoRow
    BY Calls DEF PfInit, NoSave, Ids
  <1>4. /\ form \in FormType /\ form.id = NoRow /\ form.fields = NoRow /\ form.tags = NoRow
        /\ form.server = NoRow /\ form.guide = NoRow
    BY DEF PfInit, FormType, Ids
  <1>5. rows \in [Rows -> RowType]
    BY <1>1 DEF RowType, Ids
  <1>6. \A r \in Rows : Own(r, rows[r], Tagless)
    BY <1>1 DEF Own
  <1>7. FormOwn(form) /\ SaveOwn(saving)
    BY <1>3, <1>4 DEF FormOwn, SaveOwn, Own
  <1> QED
    BY <1>2, <1>3, <1>4, <1>5, <1>6, <1>7 DEF PfInv, PfTypeOK

\* Every step keeps what the forms hold and what is stored with its row.
LEMMA PfNextInv ==
  ASSUME PfInv, [PfNext]_pfVars
  PROVE  PfInv'
  <1>1. CASE UNCHANGED pfVars
    <2>1. UNCHANGED <<page, form, late, rows, saving, editing, opens>>
      BY <1>1 DEF pfVars, others
    <2>2. NewCalls
      BY <2>1 DEF NewCalls, Waiting
    <2> QED
      BY <2>1, <2>2, CallsChange DEF PfInv, PfTypeOK
  <1>2. ASSUME NEW r \in Rows,
               \/ ClickEdit(r) \/ OpenLogo(r) \/ DeleteRow(r) \/ ToggleStream(r)
        PROVE  PfInv'
    BY <1>2, ClickEditInv, OpenLogoInv, DeleteRowInv, ToggleStreamInv
  <1>3. ASSUME NEW r \in Ids,
               \/ OpenProfile(r) \/ OpenNoted(r) \/ OpenCategory(r) \/ OpenBouquet(r)
               \/ OpenProvider(r) \/ OpenAccessCode(r)
        PROVE  PfInv'
    BY <1>3, OpenProfileInv, OpenNotedInv, OpenAtHandInv
  <1>4. CASE \/ ClickNewTitle \/ ClickNewPage \/ AskTmdb \/ SecurityReloads \/ ApplyLogo
    BY <1>4, ClickNewTitleInv, ClickNewPageInv, AskTmdbInv, SecurityReloadsInv, ApplyLogoInv
  <1>5. ASSUME NEW o \in Waiting,
               \/ MovieArrives(o) \/ SeriesArrives(o) \/ EpisodeArrives(o) \/ TmdbArrives(o)
               \/ PageArrives(o) \/ RowFails(o) \/ LineRefsArrive(o)
               \/ PackageRefsArrive(o) \/ StreamRefsArrive(o) \/ StreamListArrives(o)
               \/ ProfilesArrive(o) \/ GuidesArrive(o) \/ ServersArrive(o)
               \/ TimeshiftArrives(o)
        PROVE  PfInv'
    BY <1>5, TitleArrivesInv, TmdbArrivesInv, PageArrivesInv, RowFailsInv, LineRefsArriveInv,
       PackageRefsArriveInv, StreamRefsArriveInv, GuidesArriveInv, ServersArriveInv
  <1>6. ASSUME NEW o \in Waiting,
               \/ ListArrives(o) \/ ServerNamed(o) \/ ServerArrives(o)
               \/ ProfileArrives(o) \/ DrmRefsArrive(o) \/ DrmArrives(o) \/ LogosArrive(o)
        PROVE  PfInv'
    BY <1>6, ListArrivesInv, ServerPageInv, ProfileArrivesInv, DrmRefsArriveInv,
       DrmArrivesInv, LogosArriveInv
  <1>7. ASSUME NEW o \in Waiting,
               \/ MemberRefsArrive(o) \/ MemberArrives(o) \/ GroupRefsArrive(o)
               \/ GroupArrives(o) \/ ServiceArrives(o) \/ NotesArrive(o)
               \/ RestrictionsArrive(o) \/ PermissionsArrive(o)
        PROVE  PfInv'
    BY <1>7, NotedIsReadInv, RowFillsInv
  <1>8. CASE \/ SaveLine \/ SaveMovie \/ SaveSeries \/ SaveEpisode \/ SavePackage
             \/ SaveServer \/ SaveProfile \/ SaveDrm \/ SaveMember \/ SaveGroup
             \/ SaveService \/ SaveNotes \/ SaveRestrictions \/ SaveRolePerms
             \/ SaveCategory \/ SaveBouquet \/ SaveProvider \/ SaveAccessCode
    BY <1>8, SaveRowInv
  <1>9. CASE \/ SaveNewSeries \/ SeriesCreated \/ CreateStream \/ SaveStream
             \/ StopForSave \/ PutStream \/ StartAfterSave \/ SaveFails
    BY <1>9, SavingInv, SeriesCreatedInv, StopForSaveInv, PutStreamInv, StartAfterSaveInv
  <1> QED
    BY <1>1, <1>2, <1>3, <1>4, <1>5, <1>6, <1>7, <1>8, <1>9 DEF PfNext

\* Whatever order the answers of several openings come in, and whenever Save is pressed,
\* no row is overwritten with the inputs of another (app.js, the save functions).
THEOREM OnlyOwnWrites == PfSpec => []NoForeignWrites
  <1>1. PfInit => PfInv
    BY PfInitInv
  <1>2. PfInv /\ [PfNext]_pfVars => PfInv'
    BY PfNextInv
  <1>3. PfInv => NoForeignWrites
    <2> SUFFICES ASSUME PfInv, NEW r \in Rows, rows[r].there, page # "server"
                 PROVE  LET answered == page \in {"movie", "series", "logo"} /\ late
                            typed == IF page = "series" THEN {r, NoRow} ELSE {r}
                        IN /\ answered \/ rows[r].fields \in typed
                           /\ answered \/ rows[r].tags \in
                                (IF page \in Tagless THEN {r, NoRow} ELSE typed)
                           /\ late \/ {rows[r].server, rows[r].guide} \subseteq {r, NoRow}
      BY DEF NoForeignWrites, Tagless
    <2>1. Own(r, rows[r], Tagless) /\ r # NoRow
      BY FormRows DEF PfInv
    <2> QED
      BY <2>1 DEF Own
  <1> QED
    BY <1>1, <1>2, <1>3, PTL DEF PfSpec

----------------------------------------------------------------------------
(* Boots                                                                     *)

\* What the proofs use of the order of statements: a table that is counted has
\* two seeds after it, the lines are read just before they are migrated, and what
\* an error skips is at most one column of series.
WellPlaced(s, i) ==
  /\ s[i].do = "alter" =>
       \/ s[i].skip = 0
       \/ /\ s[i].skip = 2 /\ i + 2 <= Len(s) /\ s[i + 1].do = "look"
          /\ s[i + 2].do = "alter" /\ s[i + 2].of = "series.stream_server_id"
  /\ s[i].do = "count" =>
       i + 2 <= Len(s) /\ s[i + 1].do = "seed" /\ s[i + 2].do = "seed"
  /\ s[i].do = "migrate" => i > 1 /\ s[i - 1].do = "readLines"
WellFormed(s) ==
  (\E S : s \in Seq(S)) /\ \A i \in 1..Len(s) : WellPlaced(s, i)

LEMMA OneAfterTheOther ==
  ASSUME NEW s, NEW t, WellFormed(s), WellFormed(t)
  PROVE  WellFormed(s \o t)
  <1>1. PICK S : s \in Seq(S)
    BY DEF WellFormed
  <1>2. PICK T : t \in Seq(T)
    BY DEF WellFormed
  <1>3. s \in Seq(S \cup T) /\ t \in Seq(S \cup T)
    BY <1>1, <1>2
  <1>4. /\ s \o t \in Seq(S \cup T) /\ Len(s) \in Nat /\ Len(t) \in Nat
        /\ Len(s \o t) = Len(s) + Len(t)
        /\ \A i \in 1..Len(s) : (s \o t)[i] = s[i]
        /\ \A i \in (Len(s) + 1)..(Len(s) + Len(t)) : (s \o t)[i] = t[i - Len(s)]
    BY <1>3
  <1> DEFINE u == s \o t
  <1>5. ASSUME NEW i \in 1..Len(s)
        PROVE  WellPlaced(u, i)
    <2>1. WellPlaced(s, i)
      BY DEF WellFormed
    <2>2. u[i] = s[i] /\ Len(u) >= Len(s)
      BY <1>4
    <2>3. i + 1 <= Len(s) => u[i + 1] = s[i + 1]
      BY <1>4
    <2>4. i + 2 <= Len(s) => u[i + 2] = s[i + 2] /\ u[i + 1] = s[i + 1]
      BY <1>4
    <2>5. i > 1 => u[i - 1] = s[i - 1]
      BY <1>4
    <2> HIDE DEF u
    <2> QED
      BY <1>4, <2>1, <2>2, <2>3, <2>4, <2>5 DEF WellPlaced
  <1>6. ASSUME NEW i \in (Len(s) + 1)..(Len(s) + Len(t))
        PROVE  WellPlaced(u, i)
    <2> DEFINE k == i - Len(s)
    <2>1. k \in 1..Len(t) /\ WellPlaced(t, k)
      BY <1>4 DEF WellFormed
    <2>2. u[i] = t[k] /\ Len(u) = Len(s) + Len(t)
      BY <1>4
    <2>3. k + 2 <= Len(t) => u[i + 2] = t[k + 2] /\ u[i + 1] = t[k + 1] /\ i + 2 <= Len(u)
      <3>1. ASSUME k + 2 <= Len(t)
            PROVE  /\ i + 2 \in (Len(s) + 1)..(Len(s) + Len(t)) /\ (i + 2) - Len(s) = k + 2
                   /\ i + 1 \in (Len(s) + 1)..(Len(s) + Len(t)) /\ (i + 1) - Len(s) = k + 1
        BY <1>4, <3>1
      <3> QED
        BY <1>4, <2>2, <3>1, SMTT(30)
    <2>4. k > 1 => u[i - 1] = t[k - 1]
      <3>1. ASSUME k > 1
            PROVE  i - 1 \in (Len(s) + 1)..(Len(s) + Len(t)) /\ (i - 1) - Len(s) = k - 1
        BY <1>4, <3>1
      <3> QED
        BY <1>4, <3>1
    <2>5. k > 1 => i > 1
      BY <1>4
    <2> HIDE DEF u, k
    <2> QED
      BY <2>1, <2>2, <2>3, <2>4, <2>5 DEF WellPlaced
  <1>7. \A i \in 1..Len(u) : WellPlaced(u, i)
    BY <1>4, <1>5, <1>6
  <1>8. \E R : u \in Seq(R)
    BY <1>4
  <1> QED
    BY <1>7, <1>8 DEF WellFormed

LEMMA PartsWellFormed ==
  /\ \A ts : WellFormed(CreateTables(ts))
  /\ \A c : WellFormed(AddColumn(c))
  /\ \A k : WellFormed(Default(k))
  /\ \A t, unique : WellFormed(SeedRows(t, unique))
  /\ WellFormed(EnsureLinePasswordSecurityColumns)
  /\ WellFormed(MigrateLegacyLinePasswords)
  /\ WellFormed(EnsureMoviesSeriesStreamServerIdColumns)
  /\ WellFormed(<<[do |-> "seedSettings"]>>)
  <1>1. ASSUME NEW a, a.do \notin {"alter", "count", "migrate"}
        PROVE  WellFormed(<<a>>)
    <2>1. <<a>> \in Seq({a}) /\ Len(<<a>>) = 1 /\ <<a>>[1] = a
      OBVIOUS
    <2>2. WellPlaced(<<a>>, 1)
      BY <1>1, <2>1 DEF WellPlaced
    <2>3. \A i \in 1..Len(<<a>>) : i = 1
      BY <2>1
    <2> QED
      BY <2>1, <2>2, <2>3 DEF WellFormed
  <1>2. ASSUME NEW a, NEW b, a.do \notin {"alter", "count", "migrate"},
               b.do \in {"alter", "migrate"} \/ b.do \notin {"alter", "count", "migrate"},
               b.do = "alter" => b.skip = 0, b.do = "migrate" => a.do = "readLines"
        PROVE  WellFormed(<<a, b>>)
    <2>1. <<a, b>> \in Seq({a, b}) /\ Len(<<a, b>>) = 2 /\ <<a, b>>[1] = a /\ <<a, b>>[2] = b
      OBVIOUS
    <2>2. WellPlaced(<<a, b>>, 1) /\ WellPlaced(<<a, b>>, 2)
      BY <1>2, <2>1 DEF WellPlaced
    <2>3. \A i \in 1..Len(<<a, b>>) : i = 1 \/ i = 2
      BY <2>1
    <2> QED
      BY <2>1, <2>2, <2>3 DEF WellFormed
  <1>3. ASSUME NEW a, NEW b, NEW c, a.do \notin {"alter", "migrate"},
               b.do \notin {"alter", "count", "migrate"},
               c.do \notin {"alter", "count", "migrate"},
               a.do = "count" => b.do = "seed" /\ c.do = "seed"
        PROVE  WellFormed(<<a, b, c>>)
    <2>1. /\ <<a, b, c>> \in Seq({a, b, c}) /\ Len(<<a, b, c>>) = 3
          /\ <<a, b, c>>[1] = a /\ <<a, b, c>>[2] = b /\ <<a, b, c>>[3] = c
      OBVIOUS
    <2>2. \A i \in 1..3 : WellPlaced(<<a, b, c>>, i)
      BY <1>3, <2>1 DEF WellPlaced
    <2> QED
      BY <2>1, <2>2 DEF WellFormed
  <1>4. \A ts : WellFormed(CreateTables(ts))
    BY <1>1 DEF CreateTables
  <1>5. \A c : WellFormed(AddColumn(c))
    BY <1>2 DEF AddColumn, ColumnOr
  <1>6. \A k : WellFormed(Default(k))
    BY <1>2 DEF Default
  <1>7. \A t, unique : WellFormed(SeedRows(t, unique))
    BY <1>3 DEF SeedRows
  <1>8. WellFormed(EnsureLinePasswordSecurityColumns)
    BY <1>3 DEF EnsureLinePasswordSecurityColumns
  <1>9. WellFormed(MigrateLegacyLinePasswords)
    BY <1>2 DEF MigrateLegacyLinePasswords
  <1>10. WellFormed(EnsureMoviesSeriesStreamServerIdColumns)
    <2> DEFINE a == [do |-> "look", of |-> {"movies.stream_server_id"}]
               b == [do |-> "alter", of |-> "movies.stream_server_id", skip |-> 2]
               c == [do |-> "look", of |-> {"series.stream_server_id"}]
               d == [do |-> "alter", of |-> "series.stream_server_id", skip |-> 0]
               s == <<a, b>> \o <<c, d>>
    <2>1. EnsureMoviesSeriesStreamServerIdColumns = s
      BY DEF EnsureMoviesSeriesStreamServerIdColumns, AddColumn, ColumnOr
    <2>2. /\ a.do = "look" /\ b.do = "alter" /\ b.skip = 2 /\ c.do = "look"
          /\ d.do = "alter" /\ d.skip = 0 /\ d.of = "series.stream_server_id"
      OBVIOUS
    <2> HIDE DEF a, b, c, d
    <2>3. s \in Seq({a, b, c, d}) /\ Len(s) = 4 /\ s[1] = a /\ s[2] = b /\ s[3] = c /\ s[4] = d
      OBVIOUS
    <2> HIDE DEF s
    <2>4. \A i \in 1..4 : WellPlaced(s, i)
      BY <2>2, <2>3 DEF WellPlaced
    <2> QED
      BY <2>1, <2>3, <2>4 DEF WellFormed
  <1>11. WellFormed(<<[do |-> "seedSettings"]>>)
    BY <1>1
  <1> QED
    BY <1>4, <1>5, <1>6, <1>7, <1>8, <1>9, <1>10, <1>11

LEMMA ProgramWellFormed == WellFormed(Program)
  <1>1. WellFormed(EnsureAdminFeatureTables)
    BY PartsWellFormed DEF EnsureAdminFeatureTables
  <1>2. WellFormed(EnsureStreamingServersTables)
    BY PartsWellFormed, OneAfterTheOther DEF EnsureStreamingServersTables
  <1>3. WellFormed(SeedTables)
    BY PartsWellFormed, OneAfterTheOther DEF SeedTables
  <1> QED
    BY <1>1, <1>2, <1>3, PartsWellFormed, OneAfterTheOther
    DEF Program, EnsureUsersNotesColumn, EnsureUserGroupsManageExpiryMediaColumn,
        EnsurePackagesOptionsJsonColumn, EnsureEpisodesStreamServerIdColumn,
        EnsureStreamServerPlacementTable, EnsureDefaultStreamServerIdSetting,
        EnsureStreamingPerformanceDefaults, EnsureAdminFeatureSettingsDefaults,
        EnsureSettingsParityDefaults

\* The lines are migrated somewhere on the way.
Migrates(s) == WellFormed(s) /\ \E i \in 1..Len(s) : s[i].do = "migrate"

LEMMA GoesOnToMigrate ==
  ASSUME NEW s, NEW t, WellFormed(s), WellFormed(t), Migrates(s) \/ Migrates(t)
  PROVE  Migrates(s \o t)
  <1>1. PICK S : s \in Seq(S)
    BY DEF WellFormed
  <1>2. PICK T : t \in Seq(T)
    BY DEF WellFormed
  <1>3. s \in Seq(S \cup T) /\ t \in Seq(S \cup T)
    BY <1>1, <1>2
  <1>4. /\ Len(s) \in Nat /\ Len(t) \in Nat /\ Len(s \o t) = Len(s) + Len(t)
        /\ \A i \in 1..Len(s) : (s \o t)[i] = s[i]
        /\ \A i \in 1..Len(t) : (s \o t)[Len(s) + i] = t[i]
    BY <1>3
  <1>5. WellFormed(s \o t)
    BY OneAfterTheOther
  <1>6. CASE Migrates(s)
    <2>1. PICK i \in 1..Len(s) : s[i].do = "migrate"
      BY <1>6 DEF Migrates
    <2>2. i \in 1..Len(s \o t) /\ (s \o t)[i].do = "migrate"
      BY <1>4, <2>1
    <2> QED
      BY <1>5, <2>2 DEF Migrates
  <1>7. CASE Migrates(t)
    <2>1. PICK i \in 1..Len(t) : t[i].do = "migrate"
      BY <1>7 DEF Migrates
    <2>2. Len(s) + i \in 1..Len(s \o t) /\ (s \o t)[Len(s) + i].do = "migrate"
      BY <1>4, <2>1
    <2> QED
      BY <1>5, <2>2 DEF Migrates
  <1> QED
    BY <1>6, <1>7

LEMMA ProgramMigrates == Migrates(Program)
  <1>1. Migrates(MigrateLegacyLinePasswords)
    <2>1. LET s == MigrateLegacyLinePasswords IN Len(s) = 2 /\ s[2].do = "migrate"
      BY DEF MigrateLegacyLinePasswords
    <2> QED
      BY <2>1, PartsWellFormed DEF Migrates
  <1>2. WellFormed(EnsureAdminFeatureTables)
    BY PartsWellFormed DEF EnsureAdminFeatureTables
  <1>3. WellFormed(EnsureStreamingServersTables)
    BY PartsWellFormed, OneAfterTheOther DEF EnsureStreamingServersTables
  <1>4. WellFormed(SeedTables)
    BY PartsWellFormed, OneAfterTheOther DEF SeedTables
  <1> QED
    BY <1>1, <1>2, <1>3, <1>4, PartsWellFormed, OneAfterTheOther, GoesOnToMigrate
    DEF Program, EnsureUsersNotesColumn, EnsureUserGroupsManageExpiryMediaColumn,
        EnsurePackagesOptionsJsonColumn, EnsureEpisodesStreamServerIdColumn,
        EnsureStreamServerPlacementTable, EnsureDefaultStreamServerIdSetting,
        EnsureStreamingPerformanceDefaults, EnsureAdminFeatureSettingsDefaults,
        EnsureSettingsParityDefaults

\* An account that the panel can show a password of and, when it need not be
\* migrated, checks that one.
Recoverable(a) ==
  RecoveredPassword(a) # Absent /\ (~NeedsMigration(a) => a.hash = a.enc)
Known(a) == Recoverable(a) \/ a = UnrecoverableAccount
\* What a boot has to migrate: lines without any password are passed over.
MustMigrate(a) == NeedsMigration(a) /\ a # UnrecoverableAccount

\* What a boot that is past a statement knows of the database.  Tables, columns
\* and migrated lines stay, so that it does not matter who saw to it.
Accomplished(p, i) ==
  /\ Program[i].do = "create" => Program[i].of \subseteq relations
  /\ Program[i].do \in {"alter", "alterOrFail"} =>
       Program[i].of \in columns \/ Program[i].of = "series.stream_server_id"
  /\ Program[i].do = "readLines" =>
       \A l \in CustomerLines :
         MustMigrate(account[l]) => \E row \in boots[p].rows : row[1] = l
  /\ Program[i].do = "migrate" => \A l \in CustomerLines : ~MustMigrate(account[l])

Schema == relations \subseteq AllTables /\ columns \subseteq AllColumns
Accounts ==
  account \in [CustomerLines -> AccountType] /\ \A l \in CustomerLines : Known(account[l])
ReadBefore(p) ==
  /\ boots[p].rows \subseteq CustomerLines \X AccountType
  /\ \A row \in boots[p].rows :
       Known(row[2]) /\ (RecoveredPassword(row[2]) = Absent => ~MustMigrate(account[row[1]]))
Behind(p) == \A i \in 1..Len(Program) : i < boots[p].pc => Accomplished(p, i)
Seen == AllColumns \cup {Program[i].of : i \in DOMAIN Program}
BootType == [pc : Nat, saw : SUBSET Seen, rows : SUBSET (CustomerLines \X AccountType)]

SbInv ==
  /\ Schema /\ Accounts
  /\ boots \in [Processes -> BootType]
  /\ \A p \in Processes : ReadBefore(p) /\ Behind(p)

LEMMA ProgramIsSequence ==
  Len(Program) \in Nat /\ DOMAIN Program = 1..Len(Program)
  BY ProgramWellFormed DEF WellFormed

LEMMA IdleBoot == Idle \in BootType /\ Idle.pc = 0 /\ Idle.rows = {}
  BY DEF Idle, BootType

\* A migrated line, and one with a new password, need not be migrated.
LEMMA NewAccounts ==
  /\ \A a \in AccountType : RecoveredPassword(a) # Absent =>
       /\ Migrated(a) \in AccountType /\ Known(Migrated(a))
       /\ ~MustMigrate(Migrated(a))
  /\ LET a == [plain |-> Absent, hash |-> "p1", enc |-> "p1"]
     IN  a \in AccountType /\ Known(a) /\ ~MustMigrate(a)
  BY DEF Known, MustMigrate, AccountType, RecoveredPassword, Migrated, Recoverable, NeedsMigration,
         Passwords, Absent

\* What a step may do to the database: add to the schema, and migrate lines or
\* give them new passwords.
Onward ==
  /\ relations \subseteq relations' /\ columns \subseteq columns'
  /\ \A l \in CustomerLines :
       account'[l] = account[l] \/ ~MustMigrate(account'[l])

\* What was read of a line without any password stays of no consequence.
LEMMA RowsStayKnown ==
  ASSUME SbInv, Onward, NEW p \in Processes
  PROVE  \A row \in boots[p].rows :
           /\ Known(row[2])
           /\ RecoveredPassword(row[2]) = Absent => ~MustMigrate(account'[row[1]])
  BY DEF SbInv, ReadBefore, Onward

\* A boot that stays where it is, or was ended, has behind it what it had.
LEMMA OthersKeepBehind ==
  ASSUME SbInv, Onward, NEW p \in Processes,
         boots'[p] = boots[p] \/ boots'[p] = Idle
  PROVE  ReadBefore(p)' /\ Behind(p)'
  <1>1. CASE boots'[p] = Idle
    BY <1>1, IdleBoot, ProgramIsSequence DEF ReadBefore, Behind
  <1>2. CASE boots'[p] = boots[p]
    <2>1. ReadBefore(p)'
      BY <1>2, RowsStayKnown DEF SbInv, ReadBefore
    <2>2. ASSUME NEW i \in 1..Len(Program), i < boots[p].pc
          PROVE  Accomplished(p, i)'
      <3>1. Accomplished(p, i)
        BY <2>2 DEF SbInv, Behind
      <3> QED
        BY <1>2, <3>1 DEF Accomplished, Onward
    <2> QED
      BY <1>2, <2>1, <2>2 DEF Behind
  <1> QED
    BY <1>1, <1>2

\* Statements a boot passes in one step.
Passes(p, from, to) ==
  \A i \in 1..Len(Program) : from <= i /\ i < to => Accomplished(p, i)

\* A boot goes on: what it had behind it, and the statements it passes now.
LEMMA GoOnInv ==
  ASSUME SbInv, Onward, Schema', Accounts', NEW p \in Processes,
         NEW pc \in 1..Len(Program), pc = boots[p].pc,
         NEW b \in BootType, boots' = [boots EXCEPT ![p] = b],
         NEW to, b.pc = to, b.rows = boots[p].rows, Passes(p, pc, to)'
  PROVE  SbInv'
  <1>1. boots' \in [Processes -> BootType] /\ boots'[p] = b
        /\ \A q \in Processes : q # p => boots'[q] = boots[q]
    BY DEF SbInv
  <1>2. \A q \in Processes : q # p => ReadBefore(q)' /\ Behind(q)'
    BY <1>1, OthersKeepBehind
  <1>3. ReadBefore(p)'
    BY <1>1, RowsStayKnown DEF SbInv, ReadBefore
  <1>4. ASSUME NEW i \in 1..Len(Program), i < boots[p].pc
        PROVE  Accomplished(p, i)'
    <2>1. Accomplished(p, i)
      BY <1>4 DEF SbInv, Behind
    <2> QED
      BY <1>1, <2>1 DEF Accomplished, Onward
  <1>5. Behind(p)'
    <2>1. to \in Nat /\ Len(Program) \in Nat
      BY ProgramIsSequence DEF BootType
    <2>2. \A i \in 1..Len(Program) : i < pc \/ pc <= i
      BY <2>1
    <2> QED
      BY <1>1, <1>4, <2>2 DEF Behind, Passes
  <1> QED
    BY <1>1, <1>2, <1>3, <1>5 DEF SbInv

\* Boots that are ended, and a database that only grows.
LEMMA EndInv ==
  ASSUME SbInv, Onward, Schema', Accounts', boots' \in [Processes -> BootType],
         \A p \in Processes : boots'[p] = boots[p] \/ boots'[p] = Idle
  PROVE  SbInv'
  BY OthersKeepBehind DEF SbInv

\* The record of a boot that has gone on.
LEMMA GoOnRecord ==
  ASSUME SbInv, NEW p \in Processes, NEW steps \in Nat, NEW saw \in SUBSET Seen,
         GoOn(p, steps, saw)
  PROVE  \E b \in BootType :
           /\ boots' = [boots EXCEPT ![p] = b]
           /\ b.pc = boots[p].pc + steps /\ b.rows = boots[p].rows
  <1> DEFINE b == [boots[p] EXCEPT !.pc = boots[p].pc + steps, !.saw = saw]
  <1>1. boots[p] \in BootType /\ boots \in [Processes -> BootType]
    BY DEF SbInv
  <1>2. boots[p].pc + steps \in Nat
    BY <1>1 DEF BootType
  <1>3. b \in BootType /\ b.pc = boots[p].pc + steps /\ b.rows = boots[p].rows
    BY <1>1, <1>2 DEF BootType
  <1>4. boots' = [boots EXCEPT ![p] = b]
    BY <1>1 DEF GoOn, BootType
  <1> QED
    BY <1>3, <1>4

\* A boot passes one statement.
LEMMA StepInv ==
  ASSUME SbInv, Onward, Schema', Accounts', NEW p \in Processes, NEW saw \in SUBSET Seen,
         NEW pc \in 1..Len(Program), pc = boots[p].pc, GoOn(p, 1, saw), Accomplished(p, pc)'
  PROVE  SbInv'
  <1>1. PICK b \in BootType : /\ boots' = [boots EXCEPT ![p] = b]
                              /\ b.pc = pc + 1 /\ b.rows = boots[p].rows
    BY GoOnRecord
  <1>2. Passes(p, pc, pc + 1)'
    <2>1. \A i \in 1..Len(Program) : pc <= i /\ i < pc + 1 => i = pc
      BY ProgramIsSequence
    <2> QED
      BY <2>1 DEF Passes
  <1> QED
    BY <1>1, <1>2, GoOnInv

\* A statement that leaves the database alone.
LEMMA PassInv ==
  ASSUME SbInv, NEW p \in Processes, NEW saw \in SUBSET Seen, NEW kind, At(p, kind),
         kind \notin {"create", "alter", "alterOrFail", "readLines", "migrate"},
         GoOn(p, 1, saw), UNCHANGED <<relations, columns, account>>
  PROVE  SbInv'
  <1>1. Onward /\ Schema' /\ Accounts'
    BY DEF Onward, SbInv, Schema, Accounts
  <1>2. PICK pc \in 1..Len(Program) : pc = boots[p].pc
    BY DEF At
  <1>3. Accomplished(p, pc)'
    BY <1>2 DEF At, Accomplished
  <1> QED
    BY <1>1, <1>2, <1>3, StepInv

\* The process ends in the middle.
LEMMA BootFailsInv ==
  ASSUME SbInv, NEW p \in Processes, BootFails(p), UNCHANGED <<relations, columns, account>>
  PROVE  SbInv'
  <1>1. Onward /\ Schema' /\ Accounts'
    BY DEF Onward, SbInv, Schema, Accounts
  <1>2. /\ boots' \in [Processes -> BootType]
        /\ \A q \in Processes : boots'[q] = boots[q] \/ boots'[q] = Idle
    BY IdleBoot DEF SbInv, BootFails
  <1> QED
    BY <1>1, <1>2, EndInv

LEMMA CreateTableInv ==
  ASSUME SbInv, NEW p \in Processes, CreateTable(p)
  PROVE  SbInv'
  <1>1. PICK pc \in 1..Len(Program) : pc = boots[p].pc
    BY DEF CreateTable, At
  <1>2. /\ Program[pc].do = "create" /\ GoOn(p, 1, {})
        /\ relations' = relations \cup Program[pc].of /\ UNCHANGED <<columns, account>>
    BY <1>1 DEF CreateTable, At, Subject, Continue
  <1>3. Program[pc].of \subseteq AllTables
    BY <1>2, ProgramIsSequence DEF AllTables, AllOf
  <1>4. Onward /\ Schema' /\ Accounts'
    BY <1>2, <1>3 DEF Onward, SbInv, Schema, Accounts
  <1>5. Accomplished(p, pc)'
    BY <1>2 DEF Accomplished
  <1> QED
    BY <1>1, <1>2, <1>4, <1>5, StepInv

LEMMA LookInv ==
  ASSUME SbInv, NEW p \in Processes, Look(p) \/ FindSetting(p)
  PROVE  SbInv'
  <1>1. CASE Look(p)
    <2>1. Subject(p) \cap columns \in SUBSET Seen
      BY DEF SbInv, Schema, Seen
    <2> QED
      BY <1>1, <2>1, PassInv DEF Look
  <1>2. CASE FindSetting(p)
    <2> DEFINE saw == {k \in {Subject(p)} : settings[k] # Absent}
    <2>1. Subject(p) \in Seen
      BY <1>2, ProgramIsSequence DEF FindSetting, At, Subject, Seen
    <2>2. saw \in SUBSET Seen
      BY <2>1
    <2>3. At(p, "find") /\ GoOn(p, 1, saw) /\ UNCHANGED <<relations, columns, account>>
      BY <1>2 DEF FindSetting
    <2> HIDE DEF saw
    <2> QED
      BY <2>2, <2>3, PassInv
  <1> QED
    BY <1>1, <1>2

\* A column is added, or was; what an error skips is the column of series.
LEMMA AlterInv ==
  ASSUME SbInv, NEW p \in Processes, Alter(p)
  PROVE  SbInv'
  <1>1. PICK pc \in 1..Len(Program) : pc = boots[p].pc
    BY DEF Alter, At
  <1>2. PICK steps \in {1, 1 + Program[pc].skip} :
          /\ Program[pc].do = "alter" /\ GoOn(p, steps, {})
          /\ columns' = columns \cup {Program[pc].of} /\ UNCHANGED <<relations, account>>
    BY <1>1 DEF Alter, At, Subject
  <1>3. Program[pc].of \in AllColumns
    BY <1>2, ProgramIsSequence DEF AllColumns, AllOf
  <1>4. Onward /\ Schema' /\ Accounts'
    BY <1>2, <1>3 DEF Onward, SbInv, Schema, Accounts
  <1>5. WellPlaced(Program, pc)
    BY ProgramWellFormed DEF WellFormed
  <1>6. /\ steps \in 1..3
        /\ steps = 3 => /\ Program[pc + 1].do = "look" /\ Program[pc + 2].do = "alter"
                        /\ Program[pc + 2].of = "series.stream_server_id"
        /\ steps = 1 \/ steps = 3
    BY <1>2, <1>5 DEF WellPlaced
  <1>7. ASSUME NEW i \in 1..Len(Program), pc <= i, i < pc + steps
        PROVE  Accomplished(p, i)'
    <2>1. i = pc \/ (steps = 3 /\ (i = pc + 1 \/ i = pc + 2))
      <3>1. pc <= i /\ i < pc + steps /\ pc \in Int /\ i \in Int
        BY <1>1, <1>7
      <3>2. CASE steps = 1
        BY <3>1, <3>2
      <3>3. CASE steps = 3
        BY <3>1, <3>3
      <3> QED
        BY <1>6, <3>2, <3>3
    <2>2. Accomplished(p, pc)'
      BY <1>2 DEF Accomplished
    <2>3. steps = 3 /\ i # pc => Accomplished(p, i)'
      BY <1>6, <2>1 DEF Accomplished
    <2> QED
      BY <2>1, <2>2, <2>3
  <1>8. PICK b \in BootType : /\ boots' = [boots EXCEPT ![p] = b]
                              /\ b.pc = pc + steps /\ b.rows = boots[p].rows
    BY <1>1, <1>2, <1>6, GoOnRecord
  <1>9. Passes(p, pc, pc + steps)'
    BY <1>7 DEF Passes
  <1> QED
    BY <1>1, <1>4, <1>8, <1>9, GoOnInv

LEMMA AlterOrFailInv ==
  ASSUME SbInv, NEW p \in Processes, AlterOrFail(p)
  PROVE  SbInv'
  <1>1. PICK pc \in 1..Len(Program) : pc = boots[p].pc
    BY DEF AlterOrFail, At
  <1>2. CASE BootFails(p) /\ UNCHANGED columns
    BY <1>2, BootFailsInv DEF AlterOrFail
  <1>3. CASE GoOn(p, 1, boots[p].saw) /\ columns' = columns \cup {Program[pc].of}
    <2>1. Program[pc].do = "alterOrFail" /\ UNCHANGED <<relations, account>>
      BY <1>1 DEF AlterOrFail, At
    <2>2. Program[pc].of \in AllColumns
      BY <2>1, ProgramIsSequence DEF AllColumns, AllOf
    <2>3. Onward /\ Schema' /\ Accounts'
      BY <1>3, <2>1, <2>2 DEF Onward, SbInv, Schema, Accounts
    <2>4. Accomplished(p, pc)'
      BY <1>3, <2>1 DEF Accomplished
    <2>5. boots[p].saw \in SUBSET Seen
      BY DEF SbInv, BootType
    <2> QED
      BY <1>1, <1>3, <2>3, <2>4, <2>5, StepInv
  <1> QED
    BY <1>1, <1>2, <1>3 DEF AlterOrFail, Subject

\* The lines that need it are read: each of them is listed.
LEMMA ReadLinesInv ==
  ASSUME SbInv, NEW p \in Processes, ReadLines(p)
  PROVE  SbInv'
  <1> DEFINE due == {<<l, account[l]>> : l \in {k \in CustomerLines : NeedsMigration(account[k])}}
             b == [pc |-> boots[p].pc + 1, saw |-> {}, rows |-> due]
  <1>1. PICK pc \in 1..Len(Program) : pc = boots[p].pc
    BY DEF ReadLines, At
  <1>2. /\ boots' = [boots EXCEPT ![p] = b] /\ Program[pc].do = "readLines"
        /\ UNCHANGED <<relations, columns, account>>
    BY <1>1 DEF ReadLines, At
  <1>3. /\ \A l \in CustomerLines : MustMigrate(account[l]) => \E row \in due : row[1] = l
        /\ due \subseteq CustomerLines \X AccountType
        /\ \A row \in due :
             Known(row[2]) /\ (RecoveredPassword(row[2]) = Absent => ~MustMigrate(account[row[1]]))
    <2>1. \A l \in CustomerLines : account[l] \in AccountType /\ Known(account[l])
      BY DEF SbInv, Accounts
    <2>2. \A l \in CustomerLines : MustMigrate(account[l]) => \E row \in due : row[1] = l
      <3>1. ASSUME NEW l \in CustomerLines, MustMigrate(account[l])
            PROVE  \E row \in due : row[1] = l
        <4>1. <<l, account[l]>> \in due /\ <<l, account[l]>>[1] = l
          BY <3>1 DEF MustMigrate
        <4> QED
          BY <4>1
      <3> QED
        BY <3>1
    <2>3. ASSUME NEW row \in due
          PROVE  /\ row \in CustomerLines \X AccountType /\ Known(row[2])
                 /\ RecoveredPassword(row[2]) = Absent => ~MustMigrate(account[row[1]])
      <3>1. PICK l \in CustomerLines : row = <<l, account[l]>>
        OBVIOUS
      <3> QED
        BY <2>1, <3>1 DEF Known, Recoverable, MustMigrate
    <2> QED
      BY <2>2, <2>3
  <1> HIDE DEF due
  <1>4. b \in BootType /\ b.rows = due /\ b.pc = pc + 1
    BY <1>1, <1>3 DEF BootType
  <1> HIDE DEF b
  <1>5. boots' \in [Processes -> BootType] /\ boots'[p] = b
        /\ \A q \in Processes : q # p => boots'[q] = boots[q]
    BY <1>2, <1>4 DEF SbInv
  <1>6. Onward /\ Schema' /\ Accounts'
    BY <1>2 DEF Onward, SbInv, Schema, Accounts
  <1>7. ReadBefore(p)'
    BY <1>2, <1>3, <1>4, <1>5 DEF ReadBefore
  <1>8. ASSUME NEW i \in 1..Len(Program), i < pc + 1
        PROVE  Accomplished(p, i)'
    <2>1. i < pc \/ i = pc
      BY <1>8
    <2>2. i < pc => Accomplished(p, i)
      BY <1>1 DEF SbInv, Behind
    <2>3. \A l \in CustomerLines :
            MustMigrate(account[l])' => \E row \in boots'[p].rows : row[1] = l
      BY <1>2, <1>3, <1>4, <1>5
    <2> QED
      BY <1>2, <2>1, <2>2, <2>3 DEF Accomplished
  <1>9. Behind(p)'
    BY <1>4, <1>5, <1>8 DEF Behind
  <1> QED
    BY <1>5, <1>6, <1>7, <1>9, OthersKeepBehind DEF SbInv

\* One line is migrated, by what was read of it.
LEMMA MigrateOneInv ==
  ASSUME SbInv, NEW p \in Processes, NEW row \in boots[p].rows,
         account' = IF RecoveredPassword(row[2]) = Absent THEN account
                    ELSE [account EXCEPT ![row[1]] = Migrated(row[2])],
         boots' = [boots EXCEPT ![p].rows = @ \ {row}], UNCHANGED <<relations, columns>>
  PROVE  SbInv'
  <1> DEFINE l0 == row[1]
             a0 == Migrated(row[2])
  <1>1. l0 \in CustomerLines /\ row[2] \in AccountType /\ Known(row[2])
    BY DEF SbInv, ReadBefore
  <1>2. RecoveredPassword(row[2]) # Absent =>
          a0 \in AccountType /\ Known(a0) /\ ~MustMigrate(a0)
    BY <1>1, NewAccounts
  <1>3. account' = IF RecoveredPassword(row[2]) = Absent THEN account
                   ELSE [account EXCEPT ![l0] = a0]
    OBVIOUS
  <1> HIDE DEF l0, a0
  <1>4. Onward /\ Schema' /\ Accounts' /\ ~MustMigrate(account'[l0])
    <2>1. CASE RecoveredPassword(row[2]) = Absent
      BY <1>1, <1>3, <2>1 DEF Onward, SbInv, Schema, Accounts, ReadBefore, l0
    <2>2. CASE RecoveredPassword(row[2]) # Absent
      BY <1>1, <1>2, <1>3, <2>2 DEF Onward, SbInv, Schema, Accounts
    <2> QED
      BY <2>1, <2>2
  <1>5. /\ boots' \in [Processes -> BootType]
        /\ boots'[p].pc = boots[p].pc /\ boots'[p].rows = boots[p].rows \ {row}
        /\ \A q \in Processes : q # p => boots'[q] = boots[q]
    BY DEF SbInv, BootType
  <1>6. ReadBefore(p)'
    BY <1>4, <1>5, RowsStayKnown DEF SbInv, ReadBefore
  <1>7. ASSUME NEW i \in 1..Len(Program), i < boots[p].pc
        PROVE  Accomplished(p, i)'
    <2>1. Accomplished(p, i)
      BY <1>7 DEF SbInv, Behind
    <2>2. ASSUME Program[i].do = "readLines", NEW l \in CustomerLines,
                 MustMigrate(account'[l])
          PROVE  \E other \in boots'[p].rows : other[1] = l
      <3>1. l # l0 /\ account'[l] = account[l]
        BY <1>4, <2>2 DEF Onward
      <3>2. PICK other \in boots[p].rows : other[1] = l
        BY <2>1, <2>2, <3>1 DEF Accomplished
      <3> QED
        BY <1>5, <3>1, <3>2 DEF l0
    <2>3. ASSUME Program[i].do = "migrate", NEW l \in CustomerLines
          PROVE  ~MustMigrate(account'[l])
      BY <1>4, <2>1, <2>3 DEF Accomplished, Onward
    <2> QED
      BY <1>4, <2>1, <2>2, <2>3 DEF Accomplished, Onward
  <1>8. Behind(p)'
    BY <1>5, <1>7 DEF Behind
  <1> QED
    BY <1>4, <1>5, <1>6, <1>8, OthersKeepBehind DEF SbInv

\* All lines that had been read are migrated, and so are those that need not be.
LEMMA MigrateInv ==
  ASSUME SbInv, NEW p \in Processes, Migrate(p)
  PROVE  SbInv'
  <1>1. PICK pc \in 1..Len(Program) : pc = boots[p].pc
    BY DEF Migrate, At
  <1>2. CASE boots[p].rows = {} /\ Continue(p) /\ UNCHANGED account
    <2>1. /\ Program[pc].do = "migrate" /\ GoOn(p, 1, {})
          /\ UNCHANGED <<relations, columns, account>>
      BY <1>1, <1>2 DEF Migrate, At, Continue
    <2>2. pc > 1 /\ Program[pc - 1].do = "readLines"
      BY <2>1, ProgramWellFormed DEF WellFormed, WellPlaced
    <2>3. pc - 1 \in 1..Len(Program) /\ pc - 1 < pc
      BY <2>2, ProgramIsSequence
    <2>4. Accomplished(p, pc - 1)
      BY <1>1, <2>3 DEF SbInv, Behind
    <2>5. \A l \in CustomerLines : ~MustMigrate(account[l])
      BY <1>2, <2>2, <2>4 DEF Accomplished
    <2>6. Onward /\ Schema' /\ Accounts'
      BY <2>1 DEF Onward, SbInv, Schema, Accounts
    <2>7. Accomplished(p, pc)'
      BY <2>1, <2>5 DEF Accomplished
    <2> QED
      BY <1>1, <2>1, <2>6, <2>7, StepInv
  <1>3. ASSUME NEW row \in boots[p].rows,
               account' = IF RecoveredPassword(row[2]) = Absent THEN account
                          ELSE [account EXCEPT ![row[1]] = Migrated(row[2])],
               boots' = [boots EXCEPT ![p].rows = @ \ {row}]
        PROVE  SbInv'
    BY <1>3, MigrateOneInv DEF Migrate
  <1> QED
    BY <1>2, <1>3 DEF Migrate

LEMMA DefaultSettingInv ==
  ASSUME SbInv, NEW p \in Processes, DefaultSetting(p) \/ SeedSettings(p)
  PROVE  SbInv'
  <1>1. CASE BootFails(p) /\ UNCHANGED <<relations, columns, account>>
    BY <1>1, BootFailsInv
  <1>2. CASE /\ GoOn(p, 1, {}) /\ (At(p, "insert") \/ At(p, "seedSettings"))
             /\ UNCHANGED <<relations, columns, account>>
    BY <1>2, PassInv
  <1> QED
    BY <1>1, <1>2 DEF DefaultSetting, SeedSettings, Continue

LEMMA SeedRowInv ==
  ASSUME SbInv, NEW p \in Processes, SeedRow(p)
  PROVE  SbInv'
  <1>1. CASE BootFails(p) /\ UNCHANGED <<relations, columns, account>>
    BY <1>1, BootFailsInv
  <1>2. CASE GoOn(p, 1, {}) /\ At(p, "seed") /\ UNCHANGED <<relations, columns, account>>
    BY <1>2, PassInv
  <1> QED
    BY <1>1, <1>2 DEF SeedRow, Continue

\* A table with rows: the seeds are passed.
LEMMA CountRowsInv ==
  ASSUME SbInv, NEW p \in Processes, CountRows(p)
  PROVE  SbInv'
  <1>1. PICK pc \in 1..Len(Program) : pc = boots[p].pc
    BY DEF CountRows, At
  <1>2. CASE GoOn(p, 1, {})
    BY <1>2, PassInv DEF CountRows
  <1>3. CASE GoOn(p, 3, {})
    <2>1. Program[pc].do = "count" /\ UNCHANGED <<relations, columns, account>>
      BY <1>1 DEF CountRows, At
    <2>2. Onward /\ Schema' /\ Accounts'
      BY <2>1 DEF Onward, SbInv, Schema, Accounts
    <2>3. Program[pc + 1].do = "seed" /\ Program[pc + 2].do = "seed"
      BY <2>1, ProgramWellFormed DEF WellFormed, WellPlaced
    <2>4. Passes(p, pc, pc + 3)'
      <3>1. \A i \in 1..Len(Program) :
              pc <= i /\ i < pc + 3 => i = pc \/ i = pc + 1 \/ i = pc + 2
        BY ProgramIsSequence
      <3>2. \A i \in 1..Len(Program) :
              pc <= i /\ i < pc + 3 => Program[i].do \in {"count", "seed"}
        BY <2>1, <2>3, <3>1
      <3> QED
        BY <3>2 DEF Passes, Accomplished
    <2>5. PICK b \in BootType : /\ boots' = [boots EXCEPT ![p] = b]
                                /\ b.pc = pc + 3 /\ b.rows = boots[p].rows
      BY <1>1, <1>3, GoOnRecord
    <2> QED
      BY <1>1, <2>2, <2>4, <2>5, GoOnInv
  <1> QED
    BY <1>2, <1>3 DEF CountRows

\* Processes begin and end; administrators save.
LEMMA ProcessInv ==
  ASSUME SbInv, (\E p \in Processes : BeginBoot(p) \/ EndProcess(p)) \/ RestartPanel
  PROVE  SbInv'
  <1>1. Onward /\ Schema' /\ Accounts'
    BY DEF BeginBoot, EndProcess, RestartPanel, Onward, SbInv, Schema, Accounts
  <1>2. ASSUME NEW p \in Processes, BeginBoot(p) PROVE SbInv'
    <2>1. /\ boots' \in [Processes -> BootType]
          /\ boots'[p].pc = 1 /\ boots'[p].rows = boots[p].rows
          /\ \A q \in Processes : q # p => boots'[q] = boots[q]
      BY <1>2 DEF BeginBoot, SbInv, BootType
    <2>2. ReadBefore(p)' /\ Behind(p)'
      BY <1>1, <2>1, RowsStayKnown, ProgramIsSequence DEF SbInv, ReadBefore, Behind
    <2> QED
      BY <1>1, <2>1, <2>2, OthersKeepBehind DEF SbInv
  <1>3. ASSUME NEW p \in Processes, EndProcess(p) PROVE SbInv'
    BY <1>1, <1>3, IdleBoot, EndInv DEF EndProcess, SbInv
  <1>4. CASE RestartPanel
    BY <1>1, <1>4, IdleBoot, EndInv DEF RestartPanel, SbInv
  <1> QED
    BY <1>2, <1>3, <1>4

LEMMA SaveInv ==
  ASSUME SbInv, \/ \E k \in SavedKeys : SetSetting(k)
                \/ \E l \in CustomerLines : UpdateLinePassword(l)
  PROVE  SbInv'
  <1>1. UNCHANGED <<relations, columns, boots>>
    BY DEF SetSetting, UpdateLinePassword
  <1>2. Onward /\ Schema' /\ Accounts'
    <2>1. ASSUME NEW k \in SavedKeys, SetSetting(k) PROVE Onward /\ Schema' /\ Accounts'
      BY <2>1 DEF SetSetting, Onward, SbInv, Schema, Accounts
    <2>2. ASSUME NEW l \in CustomerLines, UpdateLinePassword(l)
          PROVE  Onward /\ Schema' /\ Accounts'
      BY <2>2, NewAccounts DEF UpdateLinePassword, Onward, SbInv, Schema, Accounts
    <2> QED
      BY <2>1, <2>2
  <1> QED
    BY <1>1, <1>2, EndInv DEF SbInv

\* An earlier version of the database, or schema.sql; no process runs.
LEMMA SbInitInv == SbInit => SbInv
  <1>. SUFFICES ASSUME SbInit PROVE SbInv
    OBVIOUS
  <1>1. /\ boots \in [Processes -> BootType]
        /\ \A p \in Processes : boots[p].pc = 0 /\ boots[p].rows = {}
    BY IdleBoot DEF SbInit
  <1>2. Schema
    BY DEF SbInit, Schema
  <1>3. \A a \in OldAccounts \cup {NewAccount} : a \in AccountType /\ Known(a)
    BY DEF Known, UnrecoverableAccount, OldAccounts, NewAccount, AccountType, Recoverable, RecoveredPassword,
           NeedsMigration, Passwords, Absent
  <1>4. Accounts
    BY <1>3 DEF SbInit, Accounts
  <1>5. \A p \in Processes : ReadBefore(p) /\ Behind(p)
    BY <1>1, ProgramIsSequence DEF ReadBefore, Behind
  <1> QED
    BY <1>1, <1>2, <1>4, <1>5 DEF SbInv

LEMMA SbNextInv == SbInv /\ [SbNext]_sbVars => SbInv'
  <1>. SUFFICES ASSUME SbInv, [SbNext]_sbVars PROVE SbInv'
    OBVIOUS
  <1>1. CASE UNCHANGED sbVars
    <2>1. Onward /\ Schema' /\ Accounts'
      BY <1>1 DEF sbVars, Onward, SbInv, Schema, Accounts
    <2> QED
      BY <1>1, <2>1, EndInv DEF sbVars, SbInv
  <1>2. ASSUME NEW p \in Processes, BootStep(p) PROVE SbInv'
    BY <1>2, CreateTableInv, LookInv, AlterInv, AlterOrFailInv, ReadLinesInv, MigrateInv,
       DefaultSettingInv, CountRowsInv, SeedRowInv DEF BootStep
  <1>3. CASE (\E p \in Processes : BeginBoot(p) \/ EndProcess(p)) \/ RestartPanel
    BY <1>3, ProcessInv
  <1>4. CASE \/ \E k \in SavedKeys : SetSetting(k)
             \/ \E l \in CustomerLines : UpdateLinePassword(l)
    BY <1>4, SaveInv
  <1> QED
    BY <1>1, <1>2, <1>3, <1>4 DEF SbNext

\* A serving panel has seen every statement done, by its own boot or another.
LEMMA ReadyWhenServing == SbInv => ServingIsReady
  <1>. SUFFICES ASSUME SbInv, Serving PROVE ServingIsReady
    BY DEF ServingIsReady
  <1>1. \A i \in 1..Len(Program) : Accomplished("panel", i)
    BY ProgramIsSequence DEF SbInv, Behind, Serving, Done, Processes
  <1>2. AllTables \subseteq relations
    BY <1>1, ProgramIsSequence DEF AllTables, AllOf, Accomplished
  <1>3. AllColumns \ {"series.stream_server_id"} \subseteq columns
    BY <1>1, ProgramIsSequence DEF AllColumns, AllOf, Accomplished
  <1>4. \E i \in 1..Len(Program) : Program[i].do = "migrate"
    BY ProgramMigrates DEF Migrates
  <1>5. \A l \in CustomerLines : ~MustMigrate(account[l])
    BY <1>1, <1>4 DEF Accomplished
  <1>6. \A l \in CustomerLines :
          \/ /\ account[l].plain = Absent
             /\ account[l].hash = account[l].enc /\ account[l].hash # Absent
          \/ account[l] = UnrecoverableAccount
    BY <1>5, SMTT(30) DEF SbInv, Accounts, Known, Recoverable, MustMigrate, NeedsMigration
  <1> QED
    BY <1>2, <1>3, <1>6 DEF ServingIsReady, SbInv, Schema

\* However boots of the panel and of the installer were interrupted, overlapped or
\* failed, and whatever administrators saved between: a panel that serves has its
\* schema and lines that can log in (seedDefaults, lib/db.js), for any set of lines.
THEOREM ServesWhenReady == SbSpec => []ServingIsReady
  BY SbInitInv, SbNextInv, ReadyWhenServing, PTL DEF SbSpec

\* What no boot does to a saved setting needs only that every key has one.
LEMMA KeysStay ==
  ASSUME DOMAIN settings = AllKeys, [SbNext]_sbVars
  PROVE  DOMAIN settings' = AllKeys
  BY ZenonT(40) DEF SbNext, sbVars, BootStep, CreateTable, Look, Alter, AlterOrFail, ReadLines, Migrate,
         FindSetting, DefaultSetting, CountRows, SeedRow, SeedSettings, BeginBoot,
         EndProcess, RestartPanel, SetSetting, UpdateLinePassword

\* A boot writes the default of a key it finds no value of, at the time it writes.
THEOREM SavedSettingsStay == SbSpec => SettingsKept
  <1>1. SbInit => DOMAIN settings = AllKeys
    BY DEF SbInit
  <1>2. DOMAIN settings = AllKeys /\ [SbNext]_sbVars => (DOMAIN settings = AllKeys)'
    BY KeysStay
  <1>3. ASSUME DOMAIN settings = AllKeys, SbNext, NEW k \in AllKeys, settings[k] = "saved"
        PROVE  settings'[k] = "saved"
    <2>1. ASSUME NEW p \in Processes, DefaultSetting(p) PROVE settings'[k] = "saved"
      BY <1>3, <2>1 DEF DefaultSetting, Absent
    <2>2. ASSUME NEW p \in Processes, SeedSettings(p) PROVE settings'[k] = "saved"
      BY <1>3, <2>2 DEF SeedSettings, Absent
    <2>3. ASSUME NEW j \in SavedKeys, SetSetting(j) PROVE settings'[k] = "saved"
      BY <1>3, <2>3 DEF SetSetting
    <2>4. CASE UNCHANGED settings
      BY <1>3, <2>4
    <2> QED
      BY <1>3, <2>1, <2>2, <2>3, <2>4
      DEF SbNext, BootStep, CreateTable, Look, Alter, AlterOrFail, ReadLines, Migrate,
          FindSetting, CountRows, SeedRow, BeginBoot, EndProcess, RestartPanel,
          UpdateLinePassword
  <1>4. DOMAIN settings = AllKeys /\ [SbNext]_sbVars =>
          [\A k \in AllKeys : settings[k] = "saved" => settings'[k] = "saved"]_sbVars
    BY <1>3
  <1> QED
    BY <1>1, <1>2, <1>4, PTL DEF SbSpec, SettingsKept
=============================================================================
