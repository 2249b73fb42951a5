---------------------------- MODULE ResellerCredits ----------------------------
(* The balance of one reseller and its log: line purchases (reseller.js) and  *)
(* the two routes by which administrators set the balance (admin.js).  The    *)
(* balance is read, compared and overwritten in separate statements.  Amounts *)
(* are hundredths of a credit: users.credits is a signed DECIMAL(12,2), and   *)
(* administrators may set it to any number, below zero too.                   *)
EXTENDS Integers, FiniteSetsExt

CONSTANTS
  Purchases,   \* POST /lines requests
  Corrections, \* PUT /resellers/:id and /resellers/:id/credits requests
  Costs,       \* official or trial credits of a package
  Balances,    \* what administrators set a balance to
  Opening      \* the balance the reseller was created with, without a log entry

ASSUME CreditsAssumption ==
  /\ Purchases \cap Corrections = {}
  /\ Costs \subseteq Int /\ Balances \subseteq Int /\ Opening \in Int

VARIABLES
  credits, \* users.credits
  op,      \* what each request is doing
  setter,  \* the request that wrote the balance last; nobody at first
  log,     \* requests with an entry in credits_logs
  lines    \* purchases that created their line

rcVars == <<credits, op, setter, log, lines>>

Requests == Purchases \cup Corrections
OpType == [at : {"idle", "read", "charged", "paid", "done"}, saw : Int, to : Int]
Begun == [at |-> "idle", saw |-> 0, to |-> 0]

RcTypeOK ==
  /\ credits \in Int
  /\ op \in [Requests -> OpType]
  /\ setter \subseteq Requests /\ log \subseteq Requests
  /\ lines \subseteq Purchases

\* SELECT: the request now relies on what it saw.
Read(r, to, at) == op' = [op EXCEPT ![r] = [at |-> at, saw |-> credits, to |-> to]]

\* Faulty variant: the charge is taken from the balance as it is now.
OverwriteRelative(r, at) ==
  /\ credits' = credits + (op[r].to - op[r].saw) /\ setter' = {r}
  /\ op' = [op EXCEPT ![r].at = at]
\* UPDATE users SET credits: an absolute value, whatever was written since the read.
Overwrite(r, at) ==
  /\ credits' = op[r].to /\ setter' = {r}
  /\ op' = [op EXCEPT ![r].at = at]

\* addCreditLog
Log(r, at) ==
  /\ log' = log \cup {r}
  /\ op' = [op EXCEPT ![r].at = at]

----------------------------------------------------------------------------
(* createResellerLine *)

\* A debt refuses a free package as well.
Affords(cost) == cost <= credits

\* A package that costs nothing needs no charge.
BeginPurchase(p) ==
  /\ op[p].at = "idle"
  /\ \E cost \in Costs :
       \/ Affords(cost) /\ cost > 0 /\ Read(p, credits - cost, "read")
       \/ Affords(cost) /\ cost <= 0 /\ Read(p, credits, "paid")
       \/ ~Affords(cost) /\ op' = [op EXCEPT ![p].at = "done"]
  /\ UNCHANGED <<credits, setter, log, lines>>

Charge(p) ==
  /\ op[p].at = "read"
  /\ Overwrite(p, "charged")
  /\ UNCHANGED <<log, lines>>

LogCharge(p) ==
  /\ op[p].at = "charged"
  /\ Log(p, "paid")
  /\ UNCHANGED <<credits, setter, lines>>

\* lineService.createLine: a taken name or a missing package fails it, and the
\* credits stay taken.
CreateResellerLine(p) ==
  /\ op[p].at = "paid"
  /\ op' = [op EXCEPT ![p].at = "done"]
  /\ lines' \in {lines, lines \cup {p}}
  /\ UNCHANGED <<credits, setter, log>>

----------------------------------------------------------------------------
(* Administrators *)

BeginCorrection(c) ==
  /\ op[c].at = "idle"
  /\ \E to \in Balances : Read(c, to, "read")
  /\ UNCHANGED <<credits, setter, log, lines>>

WriteCorrection(c) ==
  /\ op[c].at = "read"
  /\ Overwrite(c, "charged")
  /\ UNCHANGED <<log, lines>>

LogCorrection(c) ==
  /\ op[c].at = "charged"
  /\ Log(c, "done")
  /\ UNCHANGED <<credits, setter, lines>>

\* PUT /resellers/:id with credits in the body: no log entry at all.
EditReseller(c) ==
  /\ op[c].at = "idle"
  /\ credits' \in Balances /\ setter' = {c}
  /\ op' = [op EXCEPT ![c].at = "done"]
  /\ UNCHANGED <<log, lines>>

\* A statement fails, or the panel dies between two of a request.
Die(r) ==
  /\ op[r].at \in {"read", "charged", "paid"}
  /\ op' = [op EXCEPT ![r].at = "done"]
  /\ UNCHANGED <<credits, setter, log, lines>>

----------------------------------------------------------------------------
RcInit ==
  /\ credits = Opening
  /\ op = [r \in Requests |-> Begun]
  /\ setter = {} /\ log = {} /\ lines = {}

RcNext ==
  \/ \E p \in Purchases : BeginPurchase(p) \/ Charge(p) \/ LogCharge(p) \/ CreateResellerLine(p)
  \/ \E c \in Corrections : \/ BeginCorrection(c) \/ WriteCorrection(c)
                            \/ LogCorrection(c) \/ EditReseller(c)
  \/ \E r \in Requests : Die(r)

RcSpec == RcInit /\ [][RcNext]_rcVars

----------------------------------------------------------------------------
\* However purchases and corrections overlap, a balance below zero is never what
\* a purchase left: each writes what remains of a balance it found sufficient,
\* whatever became of the balance meanwhile (reseller.js:67-72).  Only
\* administrators, or the creation of the reseller, put it there.
PurchasesLeaveNoDebt == credits < 0 => setter \cap Purchases = {}

\* Disagreement: "creates reseller lines by debiting package cost from the reseller
\* credit balance" (reseller.members.test.js:78): while no administrator touches
\* the balance, the lines a reseller got have cost it what they are sold at.
\* A purchase overwrites the charge of another that began before it (reseller.js:72).
LinesArePaid ==
  (\A c \in Corrections : op[c].at = "idle")
    => MapThenSumSet(LAMBDA p : op[p].saw - op[p].to, lines) <= Opening - credits
=============================================================================
