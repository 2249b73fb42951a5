----------------------------- MODULE AccessProofs -----------------------------
(* Limits and portals: how many connections a line and how many tokens a      *)
(* panel user can hold, and where a logged-in user is served, for any number  *)
(* of viewers, users, access codes and requests.                              *)
EXTENDS LineConnections, PlaySessions, FiniteSetTheorems, SequenceTheorems,
        WellFoundedInduction, TLAPS

----------------------------------------------------------------------------
(* Connections of a line                                                     *)

\* Every way into the set of connections leads through a request under way.
LcInv ==
  /\ LcTypeOK
  /\ Cardinality(Busy) <= Concurrent
  /\ OvershootBounded

\* Where a request may be.
Places == Serving \cup {"away", "watching"}

\* A part of the viewers is finite, and no larger than a set it lies in.
LEMMA PartOfViewers ==
  ASSUME NEW S \in SUBSET Viewers
  PROVE  /\ IsFiniteSet(S) /\ Cardinality(S) \in Nat
         /\ \A T \in SUBSET S : Cardinality(T) <= Cardinality(S)
  <1>1. IsFiniteSet(S)
    BY LimitsAssumption, FS_Subset
  <1> QED
    BY <1>1, FS_Subset, FS_CardinalityType

\* One request more is one request more.
LEMMA OneMoreViewer ==
  ASSUME NEW S \in SUBSET Viewers, NEW v \in Viewers
  PROVE  Cardinality(S \cup {v}) <= Cardinality(S) + 1
  BY PartOfViewers, FS_AddElement

\* The connections there are and those to come do not grow, nor do the requests.
LEMMA NoMoreInv ==
  ASSUME LcInv, LcTypeOK', Busy' \subseteq Busy,
         (members \cup Admitted)' \subseteq members \cup Admitted
  PROVE  LcInv'
  <1>1. /\ Busy \in SUBSET Viewers /\ members \cup Admitted \in SUBSET Viewers
        /\ Busy' \in SUBSET Viewers /\ (members \cup Admitted)' \in SUBSET Viewers
    BY DEF LcInv, LcTypeOK, Busy, Admitted
  <1>2. Cardinality(Busy') <= Cardinality(Busy)
    BY <1>1, PartOfViewers
  <1>3. Cardinality((members \cup Admitted)') <= Cardinality(members \cup Admitted)
    BY <1>1, PartOfViewers
  <1>4. /\ Cardinality(Busy') \in Nat /\ Cardinality(Busy) \in Nat
        /\ Cardinality((members \cup Admitted)') \in Nat
        /\ Cardinality(members \cup Admitted) \in Nat
    BY <1>1, PartOfViewers
  <1>5. Cardinality(Busy)' <= Concurrent
    BY <1>2, <1>4, LimitsAssumption DEF LcInv
  <1>6. OvershootBounded'
    BY <1>3, <1>4, LimitsAssumption DEF LcInv, OvershootBounded
  <1> QED
    BY <1>5, <1>6 DEF LcInv

\* A request arrives.
LEMMA AskInv == ASSUME LcInv, NEW v \in Viewers, Ask(v) PROVE LcInv'
  <1>1. LcTypeOK'
    BY DEF LcInv, LcTypeOK, Ask, Serving
  <1>2. Busy \in SUBSET Viewers /\ Busy' = Busy \cup {v}
    BY DEF LcInv, LcTypeOK, Ask, Busy, Serving
  <1>3. Cardinality(Busy') <= Cardinality(Busy) + 1
    BY <1>2, OneMoreViewer
  <1>4. Cardinality(Busy) \in Nat /\ Cardinality(Busy') \in Nat
    BY <1>2, PartOfViewers
  <1>5. Cardinality(Busy)' <= Concurrent
    BY <1>3, <1>4, LimitsAssumption DEF Ask
  <1>6. Admitted' = Admitted /\ members' = members
    BY DEF LcInv, LcTypeOK, Ask, Admitted, Serving
  <1>7. OvershootBounded'
    BY <1>6 DEF LcInv, OvershootBounded
  <1> QED
    BY <1>1, <1>5, <1>7 DEF LcInv

\* A request is admitted, because the set is below the limit: whoever else is
\* admitted is under way too.
LEMMA CanConnectInv == ASSUME LcInv, NEW v \in Viewers, CanConnect(v) PROVE LcInv'
  <1>1. LcTypeOK'
    BY DEF LcInv, LcTypeOK, CanConnect, Step, Serving
  <1>2. Busy' \subseteq Busy /\ Busy \in SUBSET Viewers /\ members \in SUBSET Viewers
    BY DEF LcInv, LcTypeOK, CanConnect, Step, Busy, Serving
  <1>3. CASE ~Room
    <2>1. Admitted' \subseteq Admitted /\ members' = members
      BY <1>3 DEF LcInv, LcTypeOK, CanConnect, Step, Admitted, Serving
    <2> QED
      BY <1>1, <1>2, <2>1, NoMoreInv
  <1>4. CASE Room
    <2>1. /\ Cardinality(Busy) \in Nat /\ Cardinality(Busy') \in Nat
          /\ Cardinality(Busy') <= Cardinality(Busy)
      BY <1>2, PartOfViewers
    <2>2. Cardinality(Busy)' <= Concurrent
      BY <2>1, LimitsAssumption DEF LcInv
    <2>3. Admitted' \subseteq Busy' /\ members' = members /\ Busy' \in SUBSET Viewers
      BY <1>2 DEF CanConnect, Admitted, Busy, Serving
    <2>4. /\ IsFiniteSet(members) /\ IsFiniteSet(Admitted')
          /\ Cardinality(members) \in Nat /\ Cardinality(Admitted') \in Nat
          /\ Cardinality(Admitted') <= Cardinality(Busy')
      BY <1>2, <2>3, PartOfViewers
    <2>5. Cardinality(members \cup Admitted') <= Cardinality(members) + Cardinality(Admitted')
      <3>1. /\ Cardinality(members \cup Admitted') =
                 Cardinality(members) + Cardinality(Admitted') - Cardinality(members \cap Admitted')
            /\ Cardinality(members \cap Admitted') \in Nat
        BY <2>4, FS_Union, FS_Intersection, FS_CardinalityType
      <3> QED
        BY <2>4, <3>1
    <2>6. Cardinality(members) < MaxConnections
      BY <1>4 DEF Room
    <2>7. Cardinality(members \cup Admitted') \in Nat
      BY <2>3, <1>2, PartOfViewers
    <2>8. Cardinality(members \cup Admitted') <= MaxConnections - 1 + Concurrent
      BY <2>1, <2>2, <2>4, <2>5, <2>6, <2>7, LimitsAssumption
    <2>9. OvershootBounded'
      BY <2>3, <2>8 DEF OvershootBounded
    <2> QED
      BY <1>1, <2>2, <2>9 DEF LcInv
  <1> QED
    BY <1>3, <1>4

\* The steps of a request after it was admitted.
LEMMA ServeInv ==
  ASSUME LcInv, NEW v \in Viewers,
         SetKey(v) \/ AddMember(v) \/ ExpireSet(v) \/ Respond(v) \/ EndRequest(v)
  PROVE  LcInv'
  <1>1. CASE SetKey(v)
    <2>1. LcTypeOK' /\ Busy' \subseteq Busy /\ members' = members /\ Admitted' \subseteq Admitted
      BY <1>1 DEF LcInv, LcTypeOK, SetKey, Step, Serving, Busy, Admitted
    <2> QED
      BY <2>1, NoMoreInv
  <1>2. CASE AddMember(v)
    <2>1. /\ LcTypeOK' /\ Busy' \subseteq Busy
          /\ members' = members \cup {v} /\ v \in Admitted /\ Admitted' \subseteq Admitted
      BY <1>2 DEF LcInv, LcTypeOK, AddMember, Step, Serving, Busy, Admitted
    <2> QED
      BY <2>1, NoMoreInv
  <1>3. CASE ExpireSet(v)
    <2>1. LcTypeOK' /\ Busy' \subseteq Busy /\ members' = members /\ Admitted' \subseteq Admitted
      BY <1>3 DEF LcInv, LcTypeOK, ExpireSet, Step, Serving, Busy, Admitted
    <2> QED
      BY <2>1, NoMoreInv
  <1>4. CASE Respond(v)
    <2>1. LcTypeOK' /\ Busy' \subseteq Busy /\ members' = members /\ Admitted' \subseteq Admitted
      BY <1>4 DEF LcInv, LcTypeOK, Respond, Step, Serving, Busy, Admitted
    <2> QED
      BY <2>1, NoMoreInv
  <1>5. CASE EndRequest(v)
    <2>1. LcTypeOK' /\ Busy' \subseteq Busy /\ members' = members /\ Admitted' \subseteq Admitted
      BY <1>5 DEF LcInv, LcTypeOK, EndRequest, Serving, Busy, Admitted
    <2> QED
      BY <2>1, NoMoreInv
  <1> QED
    BY <1>1, <1>2, <1>3, <1>4, <1>5

\* Time, a crash and the visits of administrators only take away.
LEMMA TakeAwayInv ==
  ASSUME LcInv,
         \/ \E v \in Viewers : KeyExpires(v) \/ VisitMember(v)
         \/ SetExpires \/ Crash \/ BeginVisit \/ EndVisit
  PROVE  LcInv'
  <1>1. CASE \E v \in Viewers : KeyExpires(v)
    <2>1. LcTypeOK' /\ Busy' = Busy /\ members' = members /\ Admitted' = Admitted
      BY <1>1 DEF LcInv, LcTypeOK, KeyExpires, Busy, Admitted
    <2> QED
      BY <2>1, NoMoreInv
  <1>2. CASE \E v \in Viewers : VisitMember(v)
    <2>1. Busy' = Busy /\ members' \subseteq members /\ Admitted' = Admitted
      BY <1>2 DEF LcInv, LcTypeOK, VisitMember, Without, Busy, Admitted
    <2>2. visit' \in [todo : SUBSET Viewers, kill : BOOLEAN, open : BOOLEAN]
      BY <1>2 DEF LcInv, LcTypeOK, VisitMember
    <2>3. setTimed' \in BOOLEAN
      BY <1>2 DEF LcInv, LcTypeOK, VisitMember, Without
    <2>4. members' \subseteq Viewers /\ keys' \subseteq Viewers /\ late' \subseteq keys' /\ at' = at
      BY <1>2 DEF LcInv, LcTypeOK, VisitMember, Without
    <2>5. LcTypeOK'
      BY <2>2, <2>3, <2>4 DEF LcInv, LcTypeOK
    <2> QED
      BY <2>1, <2>5, NoMoreInv
  <1>3. CASE SetExpires
    <2>1. LcTypeOK' /\ Busy' = Busy /\ members' = {} /\ Admitted' = Admitted
      BY <1>3 DEF LcInv, LcTypeOK, SetExpires, Busy, Admitted
    <2> QED
      BY <2>1, NoMoreInv
  <1>4. CASE Crash
    <2>1. LcTypeOK' /\ Busy' \subseteq Busy /\ members' = members /\ Admitted' \subseteq Admitted
      BY <1>4 DEF LcInv, LcTypeOK, Crash, Busy, Admitted, Idle, Serving
    <2> QED
      BY <2>1, NoMoreInv
  <1>5. CASE BeginVisit \/ EndVisit
    <2>1. visit' \in [todo : SUBSET Viewers, kill : BOOLEAN, open : BOOLEAN]
      <3>1. CASE BeginVisit
        <4>1. PICK kill \in BOOLEAN : visit' = [todo |-> members, kill |-> kill, open |-> TRUE]
          BY <3>1 DEF BeginVisit
        <4> QED
          BY <4>1 DEF LcInv, LcTypeOK
      <3>2. CASE EndVisit
        BY <3>2 DEF EndVisit, Idle
      <3> QED
        BY <1>5, <3>1, <3>2
    <2>2. UNCHANGED <<at, keys, members, setTimed, late>>
      BY <1>5 DEF BeginVisit, EndVisit
    <2>3. LcTypeOK' /\ Busy' = Busy /\ members' = members /\ Admitted' = Admitted
      BY <2>1, <2>2 DEF LcInv, LcTypeOK, Busy, Admitted
    <2> QED
      BY <2>3, NoMoreInv
  <1> QED
    BY <1>1, <1>2, <1>3, <1>4, <1>5

\* LcInv is inductive.
LEMMA LcStepInv == LcInv /\ [LcNext]_lcVars => LcInv'
  <1>. SUFFICES ASSUME LcInv, [LcNext]_lcVars PROVE LcInv'
    OBVIOUS
  <1>1. CASE \E v \in Viewers : Ask(v)
    BY <1>1, AskInv
  <1>2. CASE \E v \in Viewers : LcServe(v) \/ EndRequest(v)
    BY <1>2, CanConnectInv, ServeInv DEF LcServe
  <1>3. CASE \/ \E v \in Viewers : KeyExpires(v) \/ VisitMember(v)
             \/ SetExpires \/ Crash \/ BeginVisit \/ EndVisit
    BY <1>3, TakeAwayInv
  <1>4. CASE UNCHANGED lcVars
    <2>1. LcTypeOK' /\ Busy' = Busy /\ members' = members /\ Admitted' = Admitted
      BY <1>4 DEF LcInv, LcTypeOK, lcVars, Busy, Admitted
    <2> QED
      BY <2>1, NoMoreInv
  <1> QED
    BY <1>1, <1>2, <1>3, <1>4 DEF LcNext

\* At first nobody watches.
LEMMA LcInitInv == LcInit => LcInv
  <1>. SUFFICES ASSUME LcInit PROVE LcInv
    OBVIOUS
  <1>1. LcTypeOK
    BY DEF LcInit, LcTypeOK, Idle
  <1>2. Busy = {} /\ members \cup Admitted = {}
    BY DEF LcInit, Busy, Admitted, Serving
  <1>3. Cardinality({}) = 0
    BY FS_EmptySet
  <1> QED
    BY <1>1, <1>2, <1>3, LimitsAssumption DEF LcInv, OvershootBounded

\* However the requests of a line overlap, and whatever expires, crashes or is
\* killed between their steps, the connections there are and those to come exceed
\* the limit by fewer than the requests of the line that may be under way at once.
THEOREM OvershootStaysBounded == LcSpec => []OvershootBounded
  <1>1. LcInv => OvershootBounded
    BY DEF LcInv
  <1> QED
    BY LcInitInv, LcStepInv, <1>1, PTL DEF LcSpec

----------------------------------------------------------------------------
(* Tokens of panel users                                                     *)

\* What the three books say of one another: a token that is known is in the list
\* of its user; a list is no longer than the limit, nor than the count.
Sessions == [of : PlayUsers, expiresAt : Nat]
ListsTyped == userSessions \in [PlayUsers -> Seq(Tokens)]
KnownAreListed(known, list) ==
  \A t \in Tokens : known[t] # NoToken =>
    known[t].of \in PlayUsers /\ \E i \in 1..Len(list[known[t].of]) : list[known[t].of][i] = t
Bounded(list, active) ==
  \A u \in PlayUsers : Len(list[u]) <= MaxOf(u) /\ Len(list[u]) <= active[u]
BooksAgree(known, list, active) ==
  /\ known \in [Tokens -> Sessions \cup {NoToken}]
  /\ list \in [PlayUsers -> Seq(Tokens)]
  /\ active \in [PlayUsers -> Nat]
  /\ KnownAreListed(known, list)
  /\ Bounded(list, active)

PsInv ==
  /\ clock \in Nat
  /\ BooksAgree(tokens, userSessions, activeConnections)

\* A session is not the absence of one.
LEMMA SessionIsOne == \A s \in Sessions : s # NoToken /\ s.of \in PlayUsers
  BY DEF Sessions, NoToken

\* A set of numbers has a least one.
LEMMA LeastNumber ==
  ASSUME NEW I \in SUBSET Nat, I # {}
  PROVE  Min(I) \in I
  <1>1. PICK x \in I : \A y \in I : <<y, x>> \notin OpToRel(<, Nat)
    BY NatLessThanWellFounded, WFMin
  <1>2. OpToRel(<, Nat) = {ss \in Nat \X Nat : ss[1] < ss[2]}
    BY DEF OpToRel
  <1>3. ASSUME NEW y \in I PROVE x <= y
    <2>1. <<y, x>> \notin {ss \in Nat \X Nat : ss[1] < ss[2]}
      BY <1>1, <1>2
    <2> QED
      BY <2>1
  <1> QED
    BY <1>3 DEF Min

\* A list without one of its tokens is shorter, and has the others.
LEMMA RemovedFirst ==
  ASSUME NEW s \in Seq(Tokens), NEW e
  PROVE  /\ RemoveFirst(s, e) \in Seq(Tokens)
         /\ Len(RemoveFirst(s, e)) <= Len(s)
         /\ (\E i \in 1..Len(s) : s[i] = e) => Len(RemoveFirst(s, e)) = Len(s) - 1
         /\ \A t \in Tokens : t # e /\ (\E i \in 1..Len(s) : s[i] = t)
              => \E i \in 1..Len(RemoveFirst(s, e)) : RemoveFirst(s, e)[i] = t
  <1>1. Len(s) \in Nat /\ \A i \in 1..Len(s) : s[i] \in Tokens
    BY LenProperties, ElementOfSeq
  <1>2. CASE ~\E i \in 1..Len(s) : s[i] = e
    <2>1. RemoveFirst(s, e) = s
      BY <1>2 DEF RemoveFirst
    <2> QED
      BY <1>1, <1>2, <2>1
  <1>3. CASE \E i \in 1..Len(s) : s[i] = e
    <2>. DEFINE I == {i \in 1..Len(s) : s[i] = e}
    <2>1. I \in SUBSET Nat /\ I # {}
      BY <1>1, <1>3
    <2>2. Min(I) \in I
      BY <2>1, LeastNumber
    <2>3. PICK k \in 1..Len(s) :
            /\ s[k] = e
            /\ RemoveFirst(s, e) = SubSeq(s, 1, k - 1) \o SubSeq(s, k + 1, Len(s))
      BY <1>3, <2>1, <2>2 DEF RemoveFirst, RemoveAt, SelectInSeq
    <2>4. PICK a \in Seq(Tokens) : /\ a = SubSeq(s, 1, k - 1) /\ Len(a) = k - 1
                                   /\ \A i \in 1..(k - 1) : a[i] = s[i]
      <3>1. 1 \in Int /\ k - 1 \in Int /\ \A i \in 1..(k - 1) : s[i] \in Tokens
        BY <1>1
      <3>2. /\ SubSeq(s, 1, k - 1) \in Seq(Tokens)
            /\ Len(SubSeq(s, 1, k - 1)) = IF 1 <= k - 1 THEN k - 1 - 1 + 1 ELSE 0
            /\ \A i \in 1..(k - 1 - 1 + 1) : SubSeq(s, 1, k - 1)[i] = s[1 + i - 1]
        BY <3>1, SubSeqProperties
      <3>3. Len(SubSeq(s, 1, k - 1)) = k - 1
        BY <3>2
      <3>4. \A i \in 1..(k - 1) : SubSeq(s, 1, k - 1)[i] = s[i]
        <4>1. k - 1 - 1 + 1 = k - 1 /\ \A i \in 1..(k - 1) : 1 + i - 1 = i
          OBVIOUS
        <4> QED
          BY <3>2, <4>1
      <3> QED
        BY <3>2, <3>3, <3>4
    <2>5. PICK b \in Seq(Tokens) : /\ b = SubSeq(s, k + 1, Len(s)) /\ Len(b) = Len(s) - k
                                   /\ \A i \in 1..(Len(s) - k) : b[i] = s[k + i]
      <3>1. k + 1 \in Int /\ Len(s) \in Int /\ \A i \in (k + 1)..Len(s) : s[i] \in Tokens
        BY <1>1
      <3>2. /\ SubSeq(s, k + 1, Len(s)) \in Seq(Tokens)
            /\ Len(SubSeq(s, k + 1, Len(s))) =
                 IF k + 1 <= Len(s) THEN Len(s) - (k + 1) + 1 ELSE 0
            /\ \A i \in 1..(Len(s) - (k + 1) + 1) :
                 SubSeq(s, k + 1, Len(s))[i] = s[k + 1 + i - 1]
        BY <3>1, SubSeqProperties
      <3>3. Len(SubSeq(s, k + 1, Len(s))) = Len(s) - k
        BY <1>1, <3>2
      <3>4. \A i \in 1..(Len(s) - k) : SubSeq(s, k + 1, Len(s))[i] = s[k + i]
        <4>1. /\ Len(s) - (k + 1) + 1 = Len(s) - k
              /\ \A i \in 1..(Len(s) - k) : k + 1 + i - 1 = k + i
          BY <1>1
        <4> QED
          BY <3>2, <4>1
      <3> QED
        BY <3>2, <3>3, <3>4
    <2>6. PICK c \in Seq(Tokens) : c = a \o b /\ c = RemoveFirst(s, e)
      BY <2>3, <2>4, <2>5, ConcatProperties
    <2>7. /\ Len(c) = Len(s) - 1
          /\ \A i \in 1..(Len(s) - 1) : c[i] = IF i <= k - 1 THEN a[i] ELSE b[i - (k - 1)]
      <3>1. /\ Len(c) = Len(a) + Len(b)
            /\ \A i \in 1..(Len(a) + Len(b)) : c[i] = IF i <= Len(a) THEN a[i] ELSE b[i - Len(a)]
        BY <2>6, ConcatProperties, ZenonT(40)
      <3>2. Len(a) + Len(b) = Len(s) - 1
        <4>1. Len(a) = k - 1 /\ Len(b) = Len(s) - k /\ Len(s) \in Nat /\ k \in Int
          BY <1>1, <2>4, <2>5
        <4> QED
          BY <4>1
      <3> QED
        BY <2>4, <3>1, <3>2
    <2>8. ASSUME NEW t \in Tokens, t # e, NEW i \in 1..Len(s), s[i] = t
          PROVE  \E j \in 1..Len(c) : c[j] = t
      <3>1. CASE i < k
        <4>1. i \in 1..(Len(s) - 1) /\ i <= k - 1 /\ i \in 1..(k - 1)
          BY <1>1, <3>1
        <4> QED
          BY <2>4, <2>7, <2>8, <4>1
      <3>2. CASE i > k
        <4>1. /\ i - 1 \in 1..(Len(s) - 1) /\ ~(i - 1 <= k - 1) /\ i - 1 - (k - 1) = i - k
              /\ i - k \in 1..(Len(s) - k) /\ k + (i - k) = i
          BY <1>1, <3>2
        <4> QED
          BY <2>5, <2>7, <2>8, <4>1
      <3>3. i # k /\ i \in Int /\ k \in Int
        BY <2>3, <2>8
      <3> QED
        BY <3>1, <3>2, <3>3
    <2>9. Len(c) <= Len(s) /\ Len(c) = Len(s) - 1
      BY <1>1, <2>7
    <2> QED
      BY <2>6, <2>8, <2>9
  <1> QED
    BY <1>2, <1>3

\* What a user holds is no more than its list is long.
LEMMA HeldBounded ==
  ASSUME NEW s \in Seq(Tokens), NEW H \in SUBSET Tokens,
         \A t \in H : \E i \in 1..Len(s) : s[i] = t
  PROVE  IsFiniteSet(H) /\ Cardinality(H) \in Nat /\ Cardinality(H) <= Len(s)
  <1>1. Len(s) \in Nat /\ s \in [1..Len(s) -> Tokens]
    BY LenProperties
  <1>. DEFINE R == Range(s)
  <1>2. s \in Surjection(1..Len(s), R)
    BY <1>1 DEF Surjection, Range
  <1>3. IsFiniteSet(1..Len(s)) /\ Cardinality(1..Len(s)) = Len(s)
    BY <1>1, FS_Interval
  <1>4. IsFiniteSet(R) /\ Cardinality(R) <= Len(s)
    BY <1>2, <1>3, FS_Surjection
  <1>5. H \in SUBSET R
    BY <1>1 DEF Range
  <1> QED
    BY <1>1, <1>4, <1>5, FS_Subset, FS_CardinalityType

\* BooksAgree is what SessionsBounded asks for.
LEMMA AgreeBounded ==
  ASSUME BooksAgree(tokens, userSessions, activeConnections)
  PROVE  SessionsBounded
  <1>. SUFFICES ASSUME NEW u \in PlayUsers
                PROVE  LET held == Cardinality({t \in Tokens : Known(t) /\ tokens[t].of = u})
                       IN  held <= MaxOf(u) /\ held <= activeConnections[u]
    BY DEF SessionsBounded
  <1>. DEFINE H == {t \in Tokens : Known(t) /\ tokens[t].of = u}
  <1>1. userSessions[u] \in Seq(Tokens) /\ activeConnections[u] \in Nat
    BY DEF BooksAgree
  <1>2. \A t \in H : \E i \in 1..Len(userSessions[u]) : userSessions[u][i] = t
    BY DEF BooksAgree, KnownAreListed, Known
  <1>3. Cardinality(H) \in Nat /\ Cardinality(H) <= Len(userSessions[u])
    BY <1>1, <1>2, HeldBounded
  <1>4. Len(userSessions[u]) <= MaxOf(u) /\ Len(userSessions[u]) <= activeConnections[u]
    BY DEF BooksAgree, Bounded
  <1>5. Len(userSessions[u]) \in Nat /\ MaxOf(u) \in Nat
    BY <1>1, LenProperties, PlayAssumption DEF MaxOf
  <1> QED
    BY <1>1, <1>3, <1>4, <1>5

\* A token is dropped together with its place in the list of one user, whose count
\* goes down: what was true of the books is true of the new ones.
LEMMA DroppedAgree ==
  ASSUME NEW known, NEW list, NEW active, BooksAgree(known, list, active),
         NEW u \in PlayUsers, NEW t \in Tokens,
         NEW s \in Seq(Tokens), Len(s) + 1 <= Len(list[u]),
         \A x \in Tokens : x # t /\ (\E i \in 1..Len(list[u]) : list[u][i] = x)
            => \E i \in 1..Len(s) : s[i] = x
  PROVE  BooksAgree([known EXCEPT ![t] = NoToken], [list EXCEPT ![u] = s],
                    [active EXCEPT ![u] = IF @ = 0 THEN 0 ELSE @ - 1])
  <1>. DEFINE k2 == [known EXCEPT ![t] = NoToken]
              l2 == [list EXCEPT ![u] = s]
              a2 == [active EXCEPT ![u] = IF @ = 0 THEN 0 ELSE @ - 1]
  <1>1. /\ known \in [Tokens -> Sessions \cup {NoToken}]
        /\ list \in [PlayUsers -> Seq(Tokens)] /\ active \in [PlayUsers -> Nat]
    BY DEF BooksAgree
  <1>2. /\ k2 \in [Tokens -> Sessions \cup {NoToken}] /\ k2[t] = NoToken
        /\ \A x \in Tokens : x # t => k2[x] = known[x]
    BY <1>1
  <1>3. /\ l2 \in [PlayUsers -> Seq(Tokens)] /\ l2[u] = s
        /\ \A w \in PlayUsers : w # u => l2[w] = list[w]
    BY <1>1
  <1>4. /\ a2 \in [PlayUsers -> Nat]
        /\ a2[u] = IF active[u] = 0 THEN 0 ELSE active[u] - 1
        /\ \A w \in PlayUsers : w # u => a2[w] = active[w]
    BY <1>1
  <1>. HIDE DEF k2, l2, a2
  <1>5. KnownAreListed(k2, l2)
    <2>. SUFFICES ASSUME NEW x \in Tokens, k2[x] # NoToken
                  PROVE  /\ k2[x].of \in PlayUsers
                         /\ \E i \in 1..Len(l2[k2[x].of]) : l2[k2[x].of][i] = x
      BY DEF KnownAreListed
    <2>1. x # t /\ k2[x] = known[x]
      BY <1>2
    <2>2. /\ known[x].of \in PlayUsers
          /\ \E i \in 1..Len(list[known[x].of]) : list[known[x].of][i] = x
      BY <2>1 DEF BooksAgree, KnownAreListed
    <2>3. CASE known[x].of = u
      BY <1>3, <2>1, <2>2, <2>3
    <2>4. CASE known[x].of # u
      BY <1>3, <2>1, <2>2, <2>4
    <2> QED
      BY <2>3, <2>4
  <1>6. Bounded(l2, a2)
    <2>. SUFFICES ASSUME NEW w \in PlayUsers
                  PROVE  Len(l2[w]) <= MaxOf(w) /\ Len(l2[w]) <= a2[w]
      BY DEF Bounded
    <2>1. Len(list[w]) <= MaxOf(w) /\ Len(list[w]) <= active[w]
      BY DEF BooksAgree, Bounded
    <2>2. CASE w = u
      <3>1. /\ Len(s) \in Nat /\ Len(list[u]) \in Nat /\ active[u] \in Nat
            /\ MaxOf(u) \in Nat
        BY <1>1, LenProperties, PlayAssumption DEF MaxOf
      <3> QED
        BY <1>3, <1>4, <2>1, <2>2, <3>1
    <2>3. CASE w # u
      BY <1>3, <1>4, <2>1, <2>3
    <2> QED
      BY <2>2, <2>3
  <1> QED
    BY <1>2, <1>3, <1>4, <1>5, <1>6 DEF BooksAgree, k2, l2, a2

\* A place in a list whose token is not known any more is given up.
LEMMA ShortenedAgree ==
  ASSUME NEW known, NEW list, NEW active, BooksAgree(known, list, active),
         NEW u \in PlayUsers, NEW t \in Tokens, known[t] = NoToken,
         NEW s \in Seq(Tokens), Len(s) <= Len(list[u]),
         \A x \in Tokens : x # t /\ (\E i \in 1..Len(list[u]) : list[u][i] = x)
            => \E i \in 1..Len(s) : s[i] = x
  PROVE  BooksAgree(known, [list EXCEPT ![u] = s], active)
  <1>. DEFINE l2 == [list EXCEPT ![u] = s]
  <1>1. /\ known \in [Tokens -> Sessions \cup {NoToken}]
        /\ list \in [PlayUsers -> Seq(Tokens)] /\ active \in [PlayUsers -> Nat]
    BY DEF BooksAgree
  <1>2. /\ l2 \in [PlayUsers -> Seq(Tokens)] /\ l2[u] = s
        /\ \A w \in PlayUsers : w # u => l2[w] = list[w]
    BY <1>1
  <1>. HIDE DEF l2
  <1>3. KnownAreListed(known, l2)
    <2>. SUFFICES ASSUME NEW x \in Tokens, known[x] # NoToken
                  PROVE  /\ known[x].of \in PlayUsers
                         /\ \E i \in 1..Len(l2[known[x].of]) : l2[known[x].of][i] = x
      BY DEF KnownAreListed
    <2>1. /\ known[x].of \in PlayUsers /\ x # t
          /\ \E i \in 1..Len(list[known[x].of]) : list[known[x].of][i] = x
      BY DEF BooksAgree, KnownAreListed
    <2>2. CASE known[x].of = u
      BY <1>2, <2>1, <2>2
    <2>3. CASE known[x].of # u
      BY <1>2, <2>1, <2>3
    <2> QED
      BY <2>2, <2>3
  <1>4. Bounded(l2, active)
    <2>. SUFFICES ASSUME NEW w \in PlayUsers
                  PROVE  Len(l2[w]) <= MaxOf(w) /\ Len(l2[w]) <= active[w]
      BY DEF Bounded
    <2>1. Len(list[w]) <= MaxOf(w) /\ Len(list[w]) <= active[w]
      BY DEF BooksAgree, Bounded
    <2>2. CASE w = u
      <3>1. /\ Len(s) \in Nat /\ Len(list[u]) \in Nat /\ active[u] \in Nat
            /\ MaxOf(u) \in Nat
        BY <1>1, LenProperties, PlayAssumption DEF MaxOf
      <3> QED
        BY <1>2, <2>1, <2>2, <3>1
    <2>3. CASE w # u
      BY <1>2, <2>1, <2>3
    <2> QED
      BY <2>2, <2>3
  <1> QED
    BY <1>1, <1>2, <1>3, <1>4 DEF BooksAgree, l2

\* A fresh token is entered for a user whose list is below its limit.
LEMMA EnteredAgree ==
  ASSUME NEW known, NEW list, NEW active, BooksAgree(known, list, active),
         NEW u \in PlayUsers, NEW t \in Tokens, NEW session \in Sessions, session.of = u,
         Len(list[u]) < MaxOf(u)
  PROVE  BooksAgree([known EXCEPT ![t] = session], [list EXCEPT ![u] = Append(@, t)],
                    [active EXCEPT ![u] = @ + 1])
  <1>. DEFINE k2 == [known EXCEPT ![t] = session]
              l2 == [list EXCEPT ![u] = Append(@, t)]
              a2 == [active EXCEPT ![u] = @ + 1]
  <1>1. /\ known \in [Tokens -> Sessions \cup {NoToken}]
        /\ list \in [PlayUsers -> Seq(Tokens)] /\ active \in [PlayUsers -> Nat]
    BY DEF BooksAgree
  <1>2. /\ Append(list[u], t) \in Seq(Tokens) /\ Len(list[u]) \in Nat
        /\ Len(Append(list[u], t)) = Len(list[u]) + 1
        /\ Append(list[u], t)[Len(list[u]) + 1] = t
        /\ \A i \in 1..Len(list[u]) : Append(list[u], t)[i] = list[u][i]
    BY <1>1, LenProperties, AppendProperties
  <1>3. /\ k2 \in [Tokens -> Sessions \cup {NoToken}] /\ k2[t] = session
        /\ \A x \in Tokens : x # t => k2[x] = known[x]
    BY <1>1
  <1>4. /\ l2 \in [PlayUsers -> Seq(Tokens)] /\ l2[u] = Append(list[u], t)
        /\ \A w \in PlayUsers : w # u => l2[w] = list[w]
    BY <1>1, <1>2
  <1>5. /\ a2 \in [PlayUsers -> Nat] /\ a2[u] = active[u] + 1
        /\ \A w \in PlayUsers : w # u => a2[w] = active[w]
    BY <1>1
  <1>. HIDE DEF k2, l2, a2
  <1>6. \A w \in PlayUsers, x \in Tokens : (\E i \in 1..Len(list[w]) : list[w][i] = x)
           => \E i \in 1..Len(l2[w]) : l2[w][i] = x
    <2>. SUFFICES ASSUME NEW w \in PlayUsers, NEW x \in Tokens,
                         NEW i \in 1..Len(list[w]), list[w][i] = x
                  PROVE  \E j \in 1..Len(l2[w]) : l2[w][j] = x
      OBVIOUS
    <2>1. CASE w = u
      <3>1. i \in 1..Len(l2[u]) /\ l2[u][i] = list[u][i]
        BY <1>2, <1>4, <2>1
      <3> QED
        BY <2>1, <3>1
    <2>2. CASE w # u
      BY <1>4, <2>2
    <2> QED
      BY <2>1, <2>2
  <1>7. \E i \in 1..Len(l2[u]) : l2[u][i] = t
    <2>1. Len(list[u]) + 1 \in 1..Len(l2[u]) /\ l2[u][Len(list[u]) + 1] = t
      BY <1>2, <1>4
    <2> QED
      BY <2>1
  <1>8. KnownAreListed(k2, l2)
    <2>. SUFFICES ASSUME NEW x \in Tokens, k2[x] # NoToken
                  PROVE  /\ k2[x].of \in PlayUsers
                         /\ \E i \in 1..Len(l2[k2[x].of]) : l2[k2[x].of][i] = x
      BY DEF KnownAreListed
    <2>1. CASE x = t
      BY <1>3, <1>7, <2>1
    <2>2. CASE x # t
      <3>1. /\ k2[x] = known[x] /\ known[x].of \in PlayUsers
            /\ \E i \in 1..Len(list[known[x].of]) : list[known[x].of][i] = x
        BY <1>3, <2>2 DEF BooksAgree, KnownAreListed
      <3> QED
        BY <1>6, <3>1
    <2> QED
      BY <2>1, <2>2
  <1>9. Bounded(l2, a2)
    <2>. SUFFICES ASSUME NEW w \in PlayUsers
                  PROVE  Len(l2[w]) <= MaxOf(w) /\ Len(l2[w]) <= a2[w]
      BY DEF Bounded
    <2>1. Len(list[w]) <= MaxOf(w) /\ Len(list[w]) <= active[w]
      BY DEF BooksAgree, Bounded
    <2>2. CASE w = u
      <3>1. MaxOf(u) \in Nat /\ active[u] \in Nat
        BY <1>1, PlayAssumption DEF MaxOf
      <3> QED
        BY <1>2, <1>4, <1>5, <2>1, <2>2, <3>1
    <2>3. CASE w # u
      BY <1>4, <1>5, <2>1, <2>3
    <2> QED
      BY <2>2, <2>3
  <1> QED
    BY <1>3, <1>4, <1>5, <1>8, <1>9 DEF BooksAgree, k2, l2, a2

\* A list without its oldest token has the others.
LEMMA TailKeeps ==
  ASSUME NEW s \in Seq(Tokens), Len(s) >= 1
  PROVE  /\ Head(s) \in Tokens /\ Tail(s) \in Seq(Tokens) /\ Len(Tail(s)) = Len(s) - 1
         /\ \A x \in Tokens : x # Head(s) /\ (\E i \in 1..Len(s) : s[i] = x)
              => \E i \in 1..Len(Tail(s)) : Tail(s)[i] = x
  <1>1. s # << >> /\ Len(s) \in Nat /\ Head(s) = s[1]
    BY EmptySeq, LenProperties
  <1>2. /\ Head(s) \in Tokens /\ Tail(s) \in Seq(Tokens) /\ Len(Tail(s)) = Len(s) - 1
        /\ \A i \in 1..Len(Tail(s)) : Tail(s)[i] = s[i + 1]
    BY <1>1, HeadTailProperties
  <1>3. ASSUME NEW x \in Tokens, x # Head(s), NEW i \in 1..Len(s), s[i] = x
        PROVE  \E j \in 1..Len(Tail(s)) : Tail(s)[j] = x
    <2>1. i # 1
      BY <1>1, <1>3
    <2>2. i - 1 \in 1..Len(Tail(s)) /\ i - 1 + 1 = i
      BY <1>1, <1>2, <2>1
    <2> QED
      BY <1>2, <1>3, <2>2
  <1> QED
    BY <1>2, <1>3

\* The oldest session is killed: the books agree as before.
LEMMA KillOldestAgree ==
  ASSUME PsInv, NEW u \in PlayUsers, Len(userSessions[u]) >= 1
  PROVE  LET e == KillOldestSession(Book, u)
         IN  /\ e = [tokens |-> e.tokens, list |-> e.list, active |-> e.active]
             /\ BooksAgree(e.tokens, e.list, e.active)
             /\ Len(e.list[u]) < Len(userSessions[u])
  <1>. DEFINE s == userSessions[u]
              t == Head(s)
              e == KillOldestSession(Book, u)
              rest == [userSessions EXCEPT ![u] = Tail(s)]
  <1>1. /\ BooksAgree(tokens, userSessions, activeConnections)
        /\ userSessions \in [PlayUsers -> Seq(Tokens)]
        /\ tokens \in [Tokens -> Sessions \cup {NoToken}]
        /\ activeConnections \in [PlayUsers -> Nat]
    BY DEF PsInv, BooksAgree
  <1>2. /\ s \in Seq(Tokens) /\ Len(s) \in Nat
    BY <1>1, LenProperties
  <1>3. /\ t \in Tokens /\ Tail(s) \in Seq(Tokens) /\ Len(Tail(s)) = Len(s) - 1
        /\ \A x \in Tokens : x # t /\ (\E i \in 1..Len(s) : s[i] = x)
             => \E i \in 1..Len(Tail(s)) : Tail(s)[i] = x
    BY <1>2, TailKeeps
  <1>4. CASE tokens[t] = NoToken
    <2>1. e = [tokens |-> tokens, list |-> rest, active |-> activeConnections]
      BY <1>4 DEF KillOldestSession, Book
    <2>2. rest[u] = Tail(s)
      BY <1>1
    <2>3. BooksAgree(tokens, rest, activeConnections)
      <3>1. Len(Tail(s)) <= Len(s)
        BY <1>2, <1>3
      <3> QED
        BY <1>1, <1>3, <1>4, <3>1, ShortenedAgree
    <2>. HIDE DEF rest
    <2>4. Len(rest[u]) < Len(s)
      <3>1. Len(rest[u]) = Len(s) - 1
        BY <1>3, <2>2
      <3> QED
        BY <1>2, <3>1
    <2> QED
      BY <2>1, <2>3, <2>4
  <1>5. CASE tokens[t] # NoToken
    <2>. DEFINE r == RemoveFirst(Tail(s), t)
    <2>1. /\ r \in Seq(Tokens) /\ Len(r) <= Len(Tail(s))
          /\ \A x \in Tokens : x # t /\ (\E i \in 1..Len(Tail(s)) : Tail(s)[i] = x)
               => \E i \in 1..Len(r) : r[i] = x
      <3>1. PICK q \in Seq(Tokens) : q = Tail(s)
        BY <1>3
      <3>2. /\ RemoveFirst(q, t) \in Seq(Tokens) /\ Len(RemoveFirst(q, t)) <= Len(q)
            /\ \A x \in Tokens : x # t /\ (\E i \in 1..Len(q) : q[i] = x)
                 => \E i \in 1..Len(RemoveFirst(q, t)) : RemoveFirst(q, t)[i] = x
        BY RemovedFirst
      <3> QED
        BY <3>1, <3>2
    <2>2. Len(r) \in Nat
      BY <2>1, LenProperties
    <2>3. rest[u] = Tail(s) /\ [rest EXCEPT ![u] = r] = [userSessions EXCEPT ![u] = r]
      BY <1>1
    <2>4. e = [tokens |-> [tokens EXCEPT ![t] = NoToken],
               list |-> [userSessions EXCEPT ![u] = r],
               active |-> [activeConnections EXCEPT ![u] = IF @ = 0 THEN 0 ELSE @ - 1]]
      BY <1>1, <1>5, <2>3 DEF KillOldestSession, Book, Drop, DecActive
    <2>. HIDE DEF r
    <2>5. Len(r) + 1 <= Len(s)
      BY <1>2, <1>3, <2>1, <2>2
    <2>6. \A x \in Tokens : x # t /\ (\E i \in 1..Len(s) : s[i] = x)
            => \E i \in 1..Len(r) : r[i] = x
      BY <1>3, <2>1
    <2>7. BooksAgree([tokens EXCEPT ![t] = NoToken], [userSessions EXCEPT ![u] = r],
                     [activeConnections EXCEPT ![u] = IF @ = 0 THEN 0 ELSE @ - 1])
      BY <1>1, <1>3, <2>1, <2>5, <2>6, DroppedAgree
    <2>8. [userSessions EXCEPT ![u] = r][u] = r
      BY <1>1
    <2> QED
      BY <1>2, <2>2, <2>4, <2>5, <2>7, <2>8
  <1> QED
    BY <1>4, <1>5

\* A token is issued: there is room for it, whatever was listed.
LEMMA IssueTokenInv == ASSUME PsInv, NEW u \in PlayUsers, IssueToken(u) PROVE PsInv'
  <1>. DEFINE e == EnforceMax(Book, u)
              t == NewToken
              session == [of |-> u, expiresAt |-> clock + TtlSeconds]
  <1>1. /\ BooksAgree(tokens, userSessions, activeConnections)
        /\ userSessions[u] \in Seq(Tokens) /\ Len(userSessions[u]) \in Nat
        /\ MaxOf(u) \in Nat /\ MaxOf(u) >= 1 /\ Len(userSessions[u]) <= MaxOf(u)
    BY LenProperties, PlayAssumption DEF PsInv, BooksAgree, Bounded, MaxOf
  <1>2. /\ e = [tokens |-> e.tokens, list |-> e.list, active |-> e.active]
        /\ BooksAgree(e.tokens, e.list, e.active)
        /\ Len(e.list[u]) < MaxOf(u)
    <2>1. CASE Len(userSessions[u]) < MaxOf(u)
      <3>1. e = Book
        BY <2>1 DEF EnforceMax, Book
      <3> QED
        BY <1>1, <2>1, <3>1 DEF Book
    <2>2. CASE ~(Len(userSessions[u]) < MaxOf(u))
      <3>1. e = KillOldestSession(Book, u)
        BY <2>2 DEF EnforceMax, Book
      <3>2. Len(userSessions[u]) >= 1
        BY <1>1, <2>2
      <3>3. /\ e = [tokens |-> e.tokens, list |-> e.list, active |-> e.active]
            /\ BooksAgree(e.tokens, e.list, e.active)
            /\ Len(e.list[u]) < Len(userSessions[u])
        BY <3>1, <3>2, KillOldestAgree
      <3>4. Len(e.list[u]) \in Nat
        BY <3>3, LenProperties DEF BooksAgree
      <3> QED
        BY <1>1, <3>3, <3>4
    <2> QED
      BY <2>1, <2>2
  <1>3. t \in Tokens
    BY DEF IssueToken, NewToken, Fresh
  <1>4. session \in Sessions /\ session.of = u
    BY PlayAssumption DEF Sessions, PsInv
  <1>5. Enter(IncActive([e EXCEPT !.tokens[t] = session], u, t)) /\ clock' = clock
    BY DEF IssueToken
  <1>. HIDE DEF e, t, session
  <1>6. /\ tokens' = [e.tokens EXCEPT ![t] = session]
        /\ userSessions' = [e.list EXCEPT ![u] = Append(@, t)]
        /\ activeConnections' = [e.active EXCEPT ![u] = @ + 1]
    <2>1. PICK k, l, a : e = [tokens |-> k, list |-> l, active |-> a]
      BY <1>2
    <2>2. k = e.tokens /\ l = e.list /\ a = e.active
      BY <2>1
    <2>3. IncActive([e EXCEPT !.tokens[t] = session], u, t)
            = [tokens |-> [k EXCEPT ![t] = session],
               list |-> [l EXCEPT ![u] = Append(@, t)], active |-> [a EXCEPT ![u] = @ + 1]]
      <3>. DEFINE x == [k EXCEPT ![t] = session]
                  l1 == [l EXCEPT ![u] = Append(@, t)]
                  a1 == [a EXCEPT ![u] = @ + 1]
      <3>1. PICK b : b = [e EXCEPT !.tokens[t] = session]
        OBVIOUS
      <3>2. b = [tokens |-> x, list |-> l, active |-> a]
        BY <2>1, <3>1
      <3>3. IncActive(b, u, t) = [[b EXCEPT !.list = [b.list EXCEPT ![u] = Append(b.list[u], t)]]
                                    EXCEPT !.active = [b.active EXCEPT ![u] = b.active[u] + 1]]
        BY DEF IncActive
      <3>4. b.list = l /\ b.active = a
        BY <3>2
      <3>5. IncActive(b, u, t) = [[b EXCEPT !.list = l1] EXCEPT !.active = a1]
        BY <3>3, <3>4
      <3>. HIDE DEF x, l1, a1
      <3>6. IncActive(b, u, t) = [tokens |-> x, list |-> l1, active |-> a1]
        BY <3>2, <3>5
      <3> QED
        BY <3>1, <3>6 DEF x, l1, a1
    <2>4. PICK tokens1, list1, active1 :
            /\ tokens1 = [k EXCEPT ![t] = session]
            /\ list1 = [l EXCEPT ![u] = Append(@, t)] /\ active1 = [a EXCEPT ![u] = @ + 1]
      OBVIOUS
    <2>5. PICK book : book = [tokens |-> tokens1, list |-> list1, active |-> active1]
      OBVIOUS
    <2>6. Enter(book)
      BY <1>5, <2>3, <2>4, <2>5
    <2>7. tokens' = tokens1 /\ userSessions' = list1 /\ activeConnections' = active1
      BY <2>5, <2>6 DEF Enter
    <2> QED
      BY <2>2, <2>4, <2>7
  <1>7. BooksAgree(tokens', userSessions', activeConnections')
    BY <1>2, <1>3, <1>4, <1>6, EnteredAgree
  <1> QED
    BY <1>5, <1>7 DEF PsInv

\* A session ends by its token: its user's list is one shorter.
LEMMA EndSessionInv == ASSUME PsInv, NEW t \in Tokens, EndSession(t) PROVE PsInv'
  <1>1. CASE ~Known(t)
    <2>1. UNCHANGED <<tokens, userSessions, activeConnections, clock>>
      BY <1>1 DEF EndSession, Enter, Book
    <2> QED
      BY <2>1 DEF PsInv
  <1>2. CASE Known(t)
    <2>. DEFINE u == tokens[t].of
                s == userSessions[u]
                r == RemoveFirst(s, t)
    <2>1. /\ BooksAgree(tokens, userSessions, activeConnections)
          /\ userSessions \in [PlayUsers -> Seq(Tokens)]
          /\ tokens \in [Tokens -> Sessions \cup {NoToken}]
          /\ activeConnections \in [PlayUsers -> Nat]
      BY DEF PsInv, BooksAgree
    <2>2. u \in PlayUsers /\ \E i \in 1..Len(s) : s[i] = t
      BY <1>2, <2>1 DEF BooksAgree, KnownAreListed, Known
    <2>3. s \in Seq(Tokens) /\ Len(s) \in Nat
      BY <2>1, <2>2, LenProperties
    <2>4. /\ tokens' = [tokens EXCEPT ![t] = NoToken]
          /\ userSessions' = [userSessions EXCEPT ![u] = r]
          /\ activeConnections' = [activeConnections EXCEPT ![u] = IF @ = 0 THEN 0 ELSE @ - 1]
          /\ clock' = clock
      BY <1>2 DEF EndSession, Enter, Book, Drop, DecActive
    <2>5. /\ r \in Seq(Tokens) /\ Len(r) = Len(s) - 1
          /\ \A x \in Tokens : x # t /\ (\E i \in 1..Len(s) : s[i] = x)
               => \E i \in 1..Len(r) : r[i] = x
      <3>. HIDE DEF s
      <3> QED
        BY <2>2, <2>3, RemovedFirst
    <2>6. Len(r) + 1 <= Len(s)
      BY <2>3, <2>5
    <2>. HIDE DEF r
    <2>7. BooksAgree(tokens', userSessions', activeConnections')
      BY <2>1, <2>2, <2>4, <2>5, <2>6, DroppedAgree
    <2> QED
      BY <2>4, <2>7 DEF PsInv
  <1> QED
    BY <1>1, <1>2

\* An expired token is dropped, and only it.
LEMMA CheckTokenInv == ASSUME PsInv, NEW r \in checking, CheckToken(r) PROVE PsInv'
  <1>1. /\ UNCHANGED <<userSessions, activeConnections, clock>>
        /\ tokens' = tokens \/ tokens' = [tokens EXCEPT ![r.token] = NoToken]
    BY DEF CheckToken
  <1>2. tokens' \in [Tokens -> Sessions \cup {NoToken}]
    BY <1>1 DEF PsInv, BooksAgree
  <1>3. \A t \in Tokens : tokens'[t] = tokens[t] \/ tokens'[t] = NoToken
    BY <1>1 DEF PsInv, BooksAgree
  <1>4. KnownAreListed(tokens', userSessions')
    BY <1>1, <1>3 DEF PsInv, BooksAgree, KnownAreListed
  <1> QED
    BY <1>1, <1>2, <1>4 DEF PsInv, BooksAgree

\* PsInv is inductive.
LEMMA PsStepInv == PsInv /\ [PsNext]_psVars => PsInv'
  <1>. SUFFICES ASSUME PsInv, [PsNext]_psVars PROVE PsInv'
    OBVIOUS
  <1>1. CASE \E u \in PlayUsers : IssueToken(u)
    BY <1>1, IssueTokenInv
  <1>2. CASE \E t \in Tokens : EndSession(t)
    BY <1>2, EndSessionInv
  <1>3. CASE \E r \in checking : CheckToken(r)
    BY <1>3, CheckTokenInv
  <1>4. CASE PlayRestart
    <2>1. /\ clock' \in Nat
          /\ tokens' = [t \in Tokens |-> NoToken]
          /\ userSessions' = [u \in PlayUsers |-> <<>>]
          /\ activeConnections' = [u \in PlayUsers |-> 0]
      BY <1>4 DEF PlayRestart, PsInv
    <2> QED
      BY <2>1, EmptySeq, PlayAssumption
         DEF PsInv, BooksAgree, KnownAreListed, Bounded, MaxOf
  <1>5. CASE \/ \E u \in PlayUsers : BeginStart(u) \/ StartRefused(u) \/ ChangeUser(u)
             \/ \E t \in Tokens, own \in BOOLEAN : BeginCheck(t, own)
             \/ \E r \in checking : CheckUser(r)
             \/ Tick \/ UNCHANGED psVars
    <2>1. UNCHANGED <<tokens, userSessions, activeConnections>>
      BY <1>5 DEF BeginStart, StartRefused, ChangeUser, BeginCheck, CheckUser, Tick, psVars
    <2>2. clock' \in Nat
      BY <1>5 DEF BeginStart, StartRefused, ChangeUser, BeginCheck, CheckUser, Tick, psVars, PsInv
    <2> QED
      BY <2>1, <2>2 DEF PsInv
  <1> QED
    BY <1>1, <1>2, <1>3, <1>4, <1>5 DEF PsNext

\* At first nobody holds a token.
LEMMA PsInitInv == PsInit => PsInv
  BY EmptySeq, PlayAssumption DEF PsInit, PsInv, BooksAgree, KnownAreListed, Bounded, MaxOf

\* However starts overlap, and in whatever order tokens expire, are stopped, make
\* room for new ones or vanish with a restart, a user never holds more than its
\* limit, nor more than getActive says.
THEOREM SessionsStayBounded == PsSpec => []SessionsBounded
  <1>1. PsInv => SessionsBounded
    BY AgreeBounded DEF PsInv
  <1> QED
    BY PsInitInv, PsStepInv, <1>1, PTL DEF PsSpec
=============================================================================
