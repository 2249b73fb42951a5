---------------------------- MODULE PlaySessions -----------------------------
(* Play sessions of panel users (routes/playback.js): a start hands out a    *)
(* token, of which a user holds as many as its limit; requests for a stream  *)
(* are let in by their token or by the token of a line.  Three books are     *)
(* kept on the same tokens, and each way a token ends writes others of them. *)
(*                                                                           *)
(* A token stands for its signed URL; whether a request comes from the       *)
(* address the token was issued to is a choice.  Everything is in memory and *)
(* gone when the panel restarts.                                             *)
EXTENDS Naturals, FiniteSets, Sequences, SequencesExt

CONSTANTS PlayUsers, Tokens,
          LimitOf,     \* maxConnections of the users' metadata, 0 if unset
          DefaultMax,  \* the limit of a user without one
          TtlSeconds,  \* how long a token lives
          MaxClock, MaxStarts   \* bounds on the clock and on the starts of a user

ASSUME PlayAssumption ==
  /\ LimitOf \in [PlayUsers -> Nat] /\ DefaultMax \in Nat \ {0}
  /\ TtlSeconds \in Nat /\ MaxClock \in Nat /\ MaxStarts \in Nat

VARIABLES clock,
          tokens,              \* token -> whose, until when
          userSessions,        \* user -> its tokens in order of issue
          activeConnections,   \* user -> what getActive says
          allowed,             \* users that exist and are not banned or expired
          starting,            \* user -> starts that wait for the channel
          checking             \* requests for a stream that are being checked

psVars == <<clock, tokens, userSessions, activeConnections, allowed, starting,
            checking>>

NoToken == [of |-> "none"]
Known(t) == tokens[t] # NoToken
MaxOf(u) == IF LimitOf[u] = 0 THEN DefaultMax ELSE LimitOf[u]
Fresh == {t \in Tokens : ~Known(t) /\ \A u \in PlayUsers : ~Contains(userSessions[u], t)
                         /\ \A r \in checking : r.token # t}
\* a random token; which of the fresh ones it is does not matter
NewToken == CHOOSE t \in Fresh : TRUE

------------------------------------------------------------------------------
(* The books                                                                 *)

Book == [tokens |-> tokens, list |-> userSessions, active |-> activeConnections]
Enter(b) == /\ tokens' = b.tokens /\ userSessions' = b.list
            /\ activeConnections' = b.active

IncActive(b, u, t) ==
  [b EXCEPT !.list[u] = Append(@, t), !.active[u] = @ + 1]
\* the filter of the list; a token is in it once
DecActive(b, u, t) ==
  [b EXCEPT !.list[u] = RemoveFirst(@, t),
            !.active[u] = IF @ = 0 THEN 0 ELSE @ - 1]
Drop(b, t) == [b EXCEPT !.tokens[t] = NoToken]

\* the oldest entry goes, with its token if that has not expired before
KillOldestSession(b, u) ==
  LET t == Head(b.list[u])
      rest == [b EXCEPT !.list[u] = Tail(@)]
  IN IF b.tokens[t] = NoToken THEN rest ELSE DecActive(Drop(rest, t), u, t)

\* a fault: room is made only when the list is over the limit
EnforceMaxLate(b, u) == IF Len(b.list[u]) <= MaxOf(u) THEN b ELSE KillOldestSession(b, u)
EnforceMax(b, u) == IF Len(b.list[u]) < MaxOf(u) THEN b ELSE KillOldestSession(b, u)

------------------------------------------------------------------------------
(* Starting and stopping                                                     *)

\* authUser; the channel is awaited
BeginStart(u) ==
  /\ u \in allowed /\ starting[u] < MaxStarts
  /\ starting' = [starting EXCEPT ![u] = @ + 1]
  /\ UNCHANGED <<clock, tokens, userSessions, activeConnections, allowed, checking>>

\* the channel could not be started
StartRefused(u) ==
  /\ starting[u] > 0
  /\ starting' = [starting EXCEPT ![u] = @ - 1]
  /\ UNCHANGED <<clock, tokens, userSessions, activeConnections, allowed, checking>>

\* issueToken, to a user that was allowed before the channel was awaited
IssueToken(u) ==
  /\ starting[u] > 0 /\ Fresh # {}
  /\ starting' = [starting EXCEPT ![u] = @ - 1]
  /\ LET t == NewToken
         b == EnforceMax(Book, u)
         session == [of |-> u, expiresAt |-> clock + TtlSeconds]
     IN Enter(IncActive([b EXCEPT !.tokens[t] = session], u, t))
  /\ UNCHANGED <<clock, allowed, checking>>

\* endSession: of a token nobody knows any more nothing is written
EndSession(t) ==
  /\ IF Known(t) THEN Enter(Drop(DecActive(Book, tokens[t].of, t), t)) ELSE Enter(Book)
  /\ UNCHANGED <<clock, allowed, starting, checking>>

------------------------------------------------------------------------------
(* A request for a stream                                                    *)

\* validateSignature, which also refuses a URL that is over; the secret is
\* awaited after that
BeginCheck(t, own) ==
  /\ Known(t) /\ clock <= tokens[t].expiresAt
  /\ checking' = checking \cup {[token |-> t, own |-> own, user |-> "unknown"]}
  /\ UNCHANGED <<clock, tokens, userSessions, activeConnections, allowed, starting>>

\* validateToken as far as the user: an expired token is dropped, but only it
CheckToken(r) ==
  /\ r \in checking /\ r.user = "unknown"
  /\ LET t == r.token
         over == Known(t) /\ clock > tokens[t].expiresAt
         mine == Known(t) /\ ~over /\ r.own
     IN /\ tokens' = IF over THEN [tokens EXCEPT ![t] = NoToken] ELSE tokens
        /\ checking' = (checking \ {r}) \cup
             (IF mine THEN {[r EXCEPT !.user = tokens[t].of]} ELSE {})
  /\ UNCHANGED <<clock, userSessions, activeConnections, allowed, starting>>

\* the user has been read: the request is let in or refused, and gone
CheckUser(r) ==
  /\ r \in checking /\ r.user # "unknown"
  /\ checking' = checking \ {r}
  /\ UNCHANGED <<clock, tokens, userSessions, activeConnections, allowed, starting>>

------------------------------------------------------------------------------
Tick ==
  /\ clock < MaxClock /\ clock' = clock + 1
  /\ UNCHANGED <<tokens, userSessions, activeConnections, allowed, starting, checking>>

\* a user is banned, expires, or is allowed again
ChangeUser(u) ==
  /\ allowed' = IF u \in allowed THEN allowed \ {u} ELSE allowed \cup {u}
  /\ UNCHANGED <<clock, tokens, userSessions, activeConnections, starting, checking>>

PlayRestart ==
  /\ clock < MaxClock /\ clock' = clock + 1
  /\ tokens' = [t \in Tokens |-> NoToken]
  /\ userSessions' = [u \in PlayUsers |-> <<>>]
  /\ activeConnections' = [u \in PlayUsers |-> 0]
  /\ starting' = [u \in PlayUsers |-> 0] /\ checking' = {}
  /\ UNCHANGED allowed

PsInit ==
  /\ clock = 0
  /\ tokens = [t \in Tokens |-> NoToken]
  /\ userSessions = [u \in PlayUsers |-> <<>>]
  /\ activeConnections = [u \in PlayUsers |-> 0]
  /\ allowed = PlayUsers
  /\ starting = [u \in PlayUsers |-> 0] /\ checking = {}

PsNext ==
  \/ \E u \in PlayUsers : BeginStart(u)
  \/ \E u \in PlayUsers : StartRefused(u)
  \/ \E u \in PlayUsers : IssueToken(u)
  \/ \E t \in Tokens : EndSession(t)
  \/ \E t \in Tokens, own \in BOOLEAN : BeginCheck(t, own)
  \/ \E r \in checking : CheckToken(r)
  \/ \E r \in checking : CheckUser(r)
  \/ Tick
  \/ \E u \in PlayUsers : ChangeUser(u)
  \/ PlayRestart

PsSpec == PsInit /\ [][PsNext]_psVars

------------------------------------------------------------------------------
\* A user never holds more valid tokens than its limit, however starts overlap
\* and in whatever order its tokens expire, are stopped or make room for new
\* ones; and getActive never counts fewer than there are, although it counts
\* tokens that have expired for ever.
SessionsBounded ==
  \A u \in PlayUsers :
    LET held == Cardinality({t \in Tokens : Known(t) /\ tokens[t].of = u})
    IN held <= MaxOf(u) /\ held <= activeConnections[u]
=============================================================================
