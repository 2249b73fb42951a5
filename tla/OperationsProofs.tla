--------------------------- MODULE OperationsProofs ---------------------------
(* What holds of the credits of a reseller, of the repair of a channel, of    *)
(* provisioning jobs, of the choice of a server, of backups and of remote     *)
(* commands, for every value of the constants.                                *)
EXTENDS ResellerCredits, Stability, Provisioning, ServerSelection, Backups,
        CommandQueue, FiniteSetTheorems, TLAPS

----------------------------------------------------------------------------
(* Credits *)

\* PurchasesLeaveNoDebt rests on this: what a purchase is going to write is not
\* below zero, whatever becomes of the balance until it writes.
ChargesAreCovered == \A p \in Purchases : op[p].at = "read" => op[p].to >= 0

RcInv == RcTypeOK /\ ChargesAreCovered /\ PurchasesLeaveNoDebt

\* A request goes on to another step.
LEMMA RequestGoesOn ==
  ASSUME RcInv, NEW r \in Requests, NEW at \in {"charged", "done", "paid"},
         op' = [op EXCEPT ![r].at = at]
  PROVE  op' \in [Requests -> OpType] /\ ChargesAreCovered'
  <1>1. op \in [Requests -> OpType] /\ op[r] \in OpType /\ Purchases \subseteq Requests
    BY DEF RcInv, RcTypeOK, Requests
  <1>. DEFINE d == [op[r] EXCEPT !.at = at]
  <1>2. d \in OpType /\ d.at = at
    BY <1>1 DEF OpType
  <1>3. op' = [op EXCEPT ![r] = d]
    BY <1>1
  <1>. HIDE DEF d
  <1>4. op' \in [Requests -> OpType]
    BY <1>1, <1>2, <1>3
  <1> QED
    BY <1>1, <1>2, <1>3, <1>4 DEF RcInv, ChargesAreCovered

\* A request reads the balance; a purchase that will charge found enough.
LEMMA ReadInv ==
  ASSUME RcInv, NEW r \in Requests, NEW to \in Int, NEW at \in {"read", "paid"},
         r \in Purchases /\ at = "read" => to >= 0,
         Read(r, to, at), UNCHANGED <<credits, setter, log, lines>>
  PROVE  RcInv'
  <1>. DEFINE d == [at |-> at, saw |-> credits, to |-> to]
  <1>1. d \in OpType /\ d.at = at /\ d.to = to
    BY DEF RcInv, RcTypeOK, OpType
  <1>2. op' = [op EXCEPT ![r] = d]
    BY DEF Read
  <1>3. op \in [Requests -> OpType] /\ Purchases \subseteq Requests
    BY DEF RcInv, RcTypeOK, Requests
  <1>. HIDE DEF d
  <1>4. RcTypeOK'
    BY <1>1, <1>2, <1>3 DEF RcInv, RcTypeOK
  <1>5. ChargesAreCovered'
    BY <1>1, <1>2, <1>3 DEF RcInv, ChargesAreCovered
  <1> QED
    BY <1>4, <1>5 DEF RcInv, PurchasesLeaveNoDebt

\* A request ends, or goes on to a step in which it writes no balance any more.
LEMMA PassInv ==
  ASSUME RcInv, NEW r \in Requests, NEW at \in {"done", "paid"},
         op' = [op EXCEPT ![r].at = at], lines' \subseteq Purchases, log' \subseteq Requests,
         UNCHANGED <<credits, setter>>
  PROVE  RcInv'
  <1>1. op' \in [Requests -> OpType] /\ ChargesAreCovered'
    BY RequestGoesOn
  <1> QED
    BY <1>1 DEF RcInv, RcTypeOK, PurchasesLeaveNoDebt

\* A balance is overwritten: by a purchase, with nothing below zero.
LEMMA OverwriteInv ==
  ASSUME RcInv, NEW r \in Requests, op[r].at = "read", Overwrite(r, "charged"),
         UNCHANGED <<log, lines>>
  PROVE  RcInv'
  <1>1. op' \in [Requests -> OpType] /\ ChargesAreCovered'
    BY RequestGoesOn DEF Overwrite
  <1>2. credits' = op[r].to /\ setter' = {r} /\ op[r].to \in Int
    BY DEF Overwrite, RcInv, RcTypeOK, OpType
  <1>3. RcTypeOK'
    BY <1>1, <1>2 DEF RcInv, RcTypeOK
  <1>4. r \in Purchases => credits' >= 0
    BY <1>2 DEF RcInv, ChargesAreCovered
  <1>5. PurchasesLeaveNoDebt'
    BY <1>2, <1>4 DEF PurchasesLeaveNoDebt
  <1> QED
    BY <1>1, <1>3, <1>5 DEF RcInv

\* An administrator sets a balance without a word in the log.
LEMMA EditResellerInv ==
  ASSUME RcInv, NEW c \in Corrections, EditReseller(c)
  PROVE  RcInv'
  <1>1. credits' \in Int /\ setter' = {c} /\ UNCHANGED <<log, lines>>
    BY CreditsAssumption DEF EditReseller
  <1>2. c \in Requests /\ c \notin Purchases
    BY CreditsAssumption DEF Requests
  <1>3. op' \in [Requests -> OpType] /\ ChargesAreCovered'
    BY <1>2, RequestGoesOn DEF EditReseller
  <1>4. RcTypeOK'
    BY <1>1, <1>2, <1>3 DEF RcInv, RcTypeOK
  <1>5. PurchasesLeaveNoDebt'
    BY <1>1, <1>2 DEF PurchasesLeaveNoDebt
  <1> QED
    BY <1>3, <1>4, <1>5 DEF RcInv

\* A purchase begins: it reads the balance, or is refused.
LEMMA BeginPurchaseInv ==
  ASSUME RcInv, NEW p \in Purchases, BeginPurchase(p)
  PROVE  RcInv'
  <1>1. PICK cost \in Costs :
          \/ Affords(cost) /\ cost > 0 /\ Read(p, credits - cost, "read")
          \/ Affords(cost) /\ cost <= 0 /\ Read(p, credits, "paid")
          \/ ~Affords(cost) /\ op' = [op EXCEPT ![p].at = "done"]
    BY DEF BeginPurchase
  <1>2. p \in Requests /\ UNCHANGED <<credits, setter, log, lines>>
    BY DEF Requests, BeginPurchase
  <1>3. credits \in Int /\ cost \in Int
    BY CreditsAssumption DEF RcInv, RcTypeOK
  <1>4. CASE Affords(cost) /\ cost > 0 /\ Read(p, credits - cost, "read")
    <2>1. credits - cost \in Int /\ credits - cost >= 0
      BY <1>3, <1>4 DEF Affords
    <2> QED
      BY <1>2, <1>4, <2>1, ReadInv
  <1>5. CASE Affords(cost) /\ cost <= 0 /\ Read(p, credits, "paid")
    BY <1>2, <1>3, <1>5, ReadInv
  <1>6. CASE ~Affords(cost) /\ op' = [op EXCEPT ![p].at = "done"]
    BY <1>2, <1>6, PassInv DEF RcInv, RcTypeOK
  <1> QED
    BY <1>1, <1>4, <1>5, <1>6

\* RcInv is inductive.
LEMMA RcStepInv == RcInv /\ [RcNext]_rcVars => RcInv'
  <1>. SUFFICES ASSUME RcInv, [RcNext]_rcVars PROVE RcInv'
    OBVIOUS
  <1>. Purchases \subseteq Requests /\ Corrections \subseteq Requests
    BY DEF Requests
  <1>1. ASSUME NEW p \in Purchases, BeginPurchase(p) PROVE RcInv'
    BY <1>1, BeginPurchaseInv
  <1>2. ASSUME NEW p \in Purchases, Charge(p) PROVE RcInv'
    BY <1>2, OverwriteInv DEF Charge
  <1>3. ASSUME NEW p \in Purchases, LogCharge(p) PROVE RcInv'
    <2>1. lines' \subseteq Purchases /\ log' \subseteq Requests
      BY <1>3 DEF LogCharge, Log, RcInv, RcTypeOK
    <2> QED
      BY <1>3, <2>1, PassInv DEF LogCharge, Log
  <1>4. ASSUME NEW p \in Purchases, CreateResellerLine(p) PROVE RcInv'
    <2>1. lines' \subseteq Purchases /\ log' \subseteq Requests
      BY <1>4 DEF CreateResellerLine, RcInv, RcTypeOK
    <2> QED
      BY <1>4, <2>1, PassInv DEF CreateResellerLine
  <1>5. ASSUME NEW c \in Corrections, BeginCorrection(c) PROVE RcInv'
    <2>1. Balances \subseteq Int /\ c \notin Purchases
      BY CreditsAssumption
    <2> QED
      BY <1>5, <2>1, ReadInv DEF BeginCorrection
  <1>6. ASSUME NEW c \in Corrections, WriteCorrection(c) PROVE RcInv'
    BY <1>6, OverwriteInv DEF WriteCorrection
  <1>7. ASSUME NEW c \in Corrections, LogCorrection(c) PROVE RcInv'
    <2>1. lines' \subseteq Purchases /\ log' \subseteq Requests
      BY <1>7 DEF LogCorrection, Log, RcInv, RcTypeOK
    <2> QED
      BY <1>7, <2>1, PassInv DEF LogCorrection, Log
  <1>8. ASSUME NEW c \in Corrections, EditReseller(c) PROVE RcInv'
    BY <1>8, EditResellerInv
  <1>9. ASSUME NEW r \in Requests, Die(r) PROVE RcInv'
    BY <1>9, PassInv DEF Die, RcInv, RcTypeOK
  <1>10. CASE UNCHANGED rcVars
    BY <1>10 DEF rcVars, RcInv, RcTypeOK, ChargesAreCovered, PurchasesLeaveNoDebt
  <1> QED
    BY <1>1, <1>2, <1>3, <1>4, <1>5, <1>6, <1>7, <1>8, <1>9, <1>10 DEF RcNext

\* Nobody has written the balance a reseller begins with.
LEMMA RcInitInv == RcInit => RcInv
  <1>. SUFFICES ASSUME RcInit PROVE RcInv
    OBVIOUS
  <1>1. Begun \in OpType /\ Begun.at = "idle"
    BY DEF Begun, OpType
  <1>2. op \in [Requests -> OpType] /\ \A r \in Requests : op[r].at = "idle"
    BY <1>1 DEF RcInit
  <1>3. RcTypeOK
    BY <1>2, CreditsAssumption DEF RcInit, RcTypeOK
  <1>4. ChargesAreCovered
    BY <1>2 DEF ChargesAreCovered, Requests
  <1> QED
    BY <1>3, <1>4 DEF RcInv, PurchasesLeaveNoDebt, RcInit

\* However many purchases and corrections overlap, whatever the prices and the
\* balances administrators set, and wherever requests die, no purchase leaves
\* the balance below zero.
THEOREM NoDebtFromPurchases == RcSpec => []PurchasesLeaveNoDebt
  <1>1. RcInv => PurchasesLeaveNoDebt
    BY DEF RcInv
  <1> QED
    BY RcInitInv, RcStepInv, <1>1, PTL DEF RcSpec
----------------------------------------------------------------------------
(* Repair of a channel *)

\* What SettingsComeBack says of the settings in memory holds of those that
\* were saved as well: either may be what a restart begins with.
Protected(c) ==
  /\ c.prev = {} => c.mode = c.chosen
  /\ c.prev # {} /\ ~c.edited => c.prev = {c.chosen} /\ c.mode = Safe

StInv ==
  /\ chan \in Settings /\ saved \in Settings
  /\ Protected(chan) /\ Protected(saved)

\* The safe encoding is a mode.
LEMMA SafeMode == Safe \in Modes
  BY DEF Safe, Modes

\* A fix puts aside what the channel had, once.
LEMMA DegradedProtected ==
  ASSUME NEW c \in Settings, Protected(c)
  PROVE  Degraded(c) \in Settings /\ Protected(Degraded(c))
  <1>. DEFINE prev == IF c.prev = {} THEN {c.mode} ELSE c.prev
  <1>1. /\ c.prev \in {{}} \cup {{m} : m \in Modes} /\ c.mode \in Modes
    BY DEF Settings
  <1>2. prev \in {{}} \cup {{m} : m \in Modes} /\ prev # {}
    BY <1>1
  <1>. HIDE DEF prev
  <1>3. Degraded(c) = [c EXCEPT !.prev = prev, !.mode = Safe]
    BY DEF Degraded, Settings, prev
  <1>4. /\ Degraded(c) \in Settings /\ Degraded(c).prev = prev /\ Degraded(c).mode = Safe
        /\ Degraded(c).chosen = c.chosen /\ Degraded(c).edited = c.edited
    BY <1>2, <1>3, SafeMode DEF Settings
  <1>5. ~c.edited => prev = {c.chosen}
    BY DEF prev, Protected
  <1> QED
    BY <1>2, <1>4, <1>5 DEF Protected

\* A recovery gives back what was put aside.
LEMMA RecoveredProtected ==
  ASSUME NEW c \in Settings, Protected(c)
  PROVE  Recovered(c) \in Settings /\ Protected(Recovered(c))
  <1>. DEFINE was == IF c.prev = {} THEN {c.mode} ELSE c.prev
              back == CHOOSE m \in Modes : m \in was
              chosen == IF c.edited THEN back ELSE c.chosen
  <1>1. PICK m \in Modes : was = {m}
    BY DEF Settings
  <1>. HIDE DEF was
  <1>2. back = m
    BY <1>1
  <1>. HIDE DEF back
  <1>3. ~c.edited => c.chosen = m
    BY <1>1 DEF was, Protected
  <1>4. Recovered(c) = [c EXCEPT !.mode = back, !.prev = {}, !.edited = FALSE, !.chosen = chosen]
    BY DEF Recovered, back, was, Settings
  <1>5. chosen = m
    BY <1>2, <1>3
  <1>. HIDE DEF chosen
  <1>6. /\ Recovered(c) \in Settings /\ Recovered(c).mode = m
        /\ Recovered(c).prev = {} /\ Recovered(c).chosen = m
    BY <1>2, <1>4, <1>5 DEF Settings
  <1> QED
    BY <1>6 DEF Protected

\* An administrator's edit, and the answer of a detection.
LEMMA EditedProtected ==
  ASSUME NEW c \in Settings, Protected(c), NEW m \in Modes
  PROVE  LET d == [c EXCEPT !.mode = m, !.edited = c.prev # {},
                            !.chosen = IF c.prev = {} THEN m ELSE Safe]
         IN  d \in Settings /\ Protected(d)
  BY SafeMode DEF Settings, Protected

\* The source was looked at, and may need the safe encoding.
LEMMA DetectedProtected ==
  ASSUME NEW c \in Settings, Protected(c)
  PROVE  /\ [c EXCEPT !.detected = TRUE] \in Settings /\ Protected([c EXCEPT !.detected = TRUE])
         /\ LET d == [c EXCEPT !.detected = TRUE, !.mode = Safe,
                               !.chosen = IF c.prev = {} THEN Safe ELSE @]
            IN  d \in Settings /\ Protected(d)
  BY SafeMode DEF Settings, Protected

\* StInv is inductive.
LEMMA StStepInv == StInv /\ [StNext]_stVars => StInv'
  <1>. SUFFICES ASSUME StInv, [StNext]_stVars PROVE StInv'
    OBVIOUS
  <1>1. chan \in Settings /\ saved \in Settings /\ Protected(chan) /\ Protected(saved)
    BY DEF StInv
  <1>2. ASSUME NEW c \in Settings, Protected(c), chan' = c, saved' \in {saved, chan}
        PROVE  StInv'
    BY <1>1, <1>2 DEF StInv, Protected
  <1>3. CASE ScanRunning
    <2>1. chan' \in {chan, Degraded(chan), Recovered(chan)} /\ saved' = saved
      BY <1>3 DEF ScanRunning
    <2> QED
      BY <1>1, <1>2, <2>1, DegradedProtected, RecoveredProtected
  <1>4. CASE PlayerReport \/ ManualFix
    BY <1>1, <1>2, <1>4, DegradedProtected DEF PlayerReport, ManualFix
  <1>5. CASE EditChannel
    <2>1. PICK m \in Modes :
            chan' = [chan EXCEPT !.mode = m, !.edited = chan.prev # {},
                                 !.chosen = IF chan.prev = {} THEN m ELSE Safe]
      BY <1>5 DEF EditChannel
    <2>2. saved' = saved
      BY <1>5 DEF EditChannel
    <2> QED
      BY <1>1, <1>2, <2>1, <2>2, EditedProtected, ZenonT(40)
  <1>6. CASE Detected
    <2>1. /\ \/ chan' = [chan EXCEPT !.detected = TRUE]
             \/ chan' = [chan EXCEPT !.detected = TRUE, !.mode = Safe,
                                     !.chosen = IF chan.prev = {} THEN Safe ELSE @]
          /\ saved' = saved
      BY <1>6 DEF Detected
    <2> QED
      BY <1>1, <1>2, <2>1, DetectedProtected
  <1>7. CASE ScanIdle \/ ToggleAutoFix \/ StartChannel \/ StopChannel \/ RestartDue \/ UNCHANGED stVars
    BY <1>1, <1>2, <1>7 DEF ScanIdle, ToggleAutoFix, StartChannel, StopChannel, RestartDue, stVars
  <1>8. CASE Save
    BY <1>1, <1>2, <1>8 DEF Save
  <1>9. CASE PanelRestart
    BY <1>1, <1>2, <1>9 DEF PanelRestart
  <1> QED
    BY <1>3, <1>4, <1>5, <1>6, <1>7, <1>8, <1>9 DEF StNext

\* However many fixes, recoveries, edits and detections follow one another, and
\* whichever save a restart begins with, what was chosen is never lost.
THEOREM ChosenSettingsComeBack == StSpec => []SettingsComeBack
  <1>1. StInit => StInv
    BY DEF StInit, StInv, Settings, Protected
  <1>2. StInv => SettingsComeBack
    BY DEF StInv, Protected, SettingsComeBack
  <1> QED
    BY <1>1, StStepInv, <1>2, PTL DEF StSpec
----------------------------------------------------------------------------
(* Provisioning *)

\* EnabledIsEarned rests on this: a job on its way to enable the server started
\* an agent, and only a job on its way out has disabled it.
JobsKeepTrack ==
  \A j \in Jobs :
    /\ job[j].at = "enabling" => j \in deployed
    /\ j \in disabled => job[j].at \in {"failed", "disabling", "over"}

JobsTyped == job \in [Jobs -> JobType] /\ deployed \subseteq Jobs /\ disabled \subseteq Jobs

PvInv == JobsTyped /\ JobsKeepTrack /\ EnabledIsEarned

\* A job is in its new stage, the others where they were.
LEMMA GotoOne ==
  ASSUME JobsTyped, NEW j \in Jobs,
         NEW stage \in JobStages \cup {"failed", "disabling", "over"}, Goto(j, stage)
  PROVE  job' \in [Jobs -> JobType] /\ job'[j].at = stage /\ \A k \in Jobs \ {j} : job'[k] = job[k]
  <1>1. job \in [Jobs -> JobType] /\ job[j] \in JobType
    BY DEF JobsTyped
  <1>. DEFINE d == [job[j] EXCEPT !.at = stage]
  <1>2. d \in JobType /\ d.at = stage
    BY <1>1 DEF JobType
  <1>3. job' = [job EXCEPT ![j] = d]
    BY <1>1 DEF Goto
  <1>. HIDE DEF d
  <1> QED
    BY <1>1, <1>2, <1>3

\* A job goes on to another stage and leaves the server as it is.
LEMMA GotoInv ==
  ASSUME PvInv, NEW j \in Jobs, NEW stage \in JobStages \cup {"failed", "disabling", "over"},
         stage # "enabling", Goto(j, stage),
         job[j].at \in {"failed", "disabling", "over"} => stage \in {"failed", "disabling", "over"},
         UNCHANGED <<wasEnabled, enabled, deployed, disabled>>
  PROVE  PvInv'
  <1>1. job' \in [Jobs -> JobType] /\ job'[j].at = stage /\ \A k \in Jobs \ {j} : job'[k] = job[k]
    BY GotoOne DEF PvInv
  <1>2. JobsTyped'
    BY <1>1 DEF PvInv, JobsTyped
  <1>3. JobsKeepTrack'
    BY <1>1 DEF PvInv, JobsKeepTrack
  <1> QED
    BY <1>2, <1>3 DEF PvInv, EnabledIsEarned

\* A job begins.
LEMMA StartProvisionJobInv ==
  ASSUME PvInv, NEW j \in Jobs, StartProvisionJob(j)
  PROVE  PvInv'
  <1>1. PICK p \in Profiles : job' = [job EXCEPT ![j] = [at |-> "installing", profile |-> p]]
    BY DEF StartProvisionJob
  <1>2. /\ job[j].at = "none" /\ UNCHANGED <<wasEnabled, enabled, deployed, disabled>>
        /\ job \in [Jobs -> JobType]
    BY DEF StartProvisionJob, serverAndNode, PvInv, JobsTyped
  <1>3. [at |-> "installing", profile |-> p] \in JobType
    BY DEF JobType, JobStages
  <1>4. JobsTyped'
    BY <1>1, <1>2, <1>3 DEF PvInv, JobsTyped
  <1>5. JobsKeepTrack'
    BY <1>1, <1>2 DEF PvInv, JobsKeepTrack
  <1> QED
    BY <1>2, <1>4, <1>5 DEF PvInv, EnabledIsEarned

\* Its agent is started on the node.
LEMMA RestartAgentInv ==
  ASSUME PvInv, NEW j \in Jobs, RestartAgent(j)
  PROVE  PvInv'
  <1>1. /\ job[j].at = "starting_agent" /\ Goto(j, "enabling") /\ deployed' = deployed \cup {j}
        /\ UNCHANGED <<wasEnabled, enabled, disabled>>
    BY DEF RestartAgent
  <1>2. /\ job' \in [Jobs -> JobType] /\ job'[j].at = "enabling"
        /\ \A k \in Jobs \ {j} : job'[k] = job[k]
    BY <1>1, GotoOne DEF PvInv, JobStages
  <1>3. JobsTyped'
    BY <1>1, <1>2 DEF PvInv, JobsTyped
  <1>4. JobsKeepTrack'
    BY <1>1, <1>2 DEF PvInv, JobsKeepTrack
  <1>5. EnabledIsEarned'
    BY <1>1 DEF PvInv, EnabledIsEarned
  <1> QED
    BY <1>3, <1>4, <1>5 DEF PvInv

\* It enables the server, which it has earned.
LEMMA EnableServerInv ==
  ASSUME PvInv, NEW j \in Jobs, EnableServer(j)
  PROVE  PvInv'
  <1>1. /\ job[j].at = "enabling" /\ Goto(j, "first_heartbeat")
        /\ UNCHANGED <<wasEnabled, deployed, disabled>>
    BY DEF EnableServer
  <1>2. /\ job' \in [Jobs -> JobType] /\ job'[j].at = "first_heartbeat"
        /\ \A k \in Jobs \ {j} : job'[k] = job[k]
    BY <1>1, GotoOne DEF PvInv, JobStages
  <1>3. j \in deployed /\ j \notin disabled
    BY <1>1 DEF PvInv, JobsKeepTrack
  <1>4. JobsTyped'
    BY <1>1, <1>2 DEF PvInv, JobsTyped
  <1>5. JobsKeepTrack'
    BY <1>1, <1>2 DEF PvInv, JobsKeepTrack
  <1>6. EnabledIsEarned'
    BY <1>1, <1>3 DEF EnabledIsEarned
  <1> QED
    BY <1>4, <1>5, <1>6 DEF PvInv

\* It disables the server on its way out, or fails to.
LEMMA DisableInv ==
  ASSUME PvInv, NEW j \in Jobs, NEW stage \in {"failed", "over"}, Disable(j), Goto(j, stage),
         UNCHANGED <<wasEnabled, deployed>>
  PROVE  PvInv'
  <1>1. /\ job' \in [Jobs -> JobType] /\ job'[j].at = stage
        /\ \A k \in Jobs \ {j} : job'[k] = job[k]
    BY GotoOne DEF PvInv
  <1>2. JobsTyped'
    BY <1>1 DEF PvInv, JobsTyped, Disable
  <1>3. JobsKeepTrack'
    BY <1>1 DEF PvInv, JobsKeepTrack, Disable
  <1>4. EnabledIsEarned'
    BY DEF PvInv, EnabledIsEarned, Disable
  <1> QED
    BY <1>2, <1>3, <1>4 DEF PvInv

\* Nothing happens to the jobs, or the panel restarts and they are over.
LEMMA JobsRestInv ==
  ASSUME PvInv, UNCHANGED <<wasEnabled, enabled, deployed, disabled>>,
         \/ job' = job
         \/ job' = [j \in Jobs |-> IF job[j].at = "none" THEN job[j] ELSE [job[j] EXCEPT !.at = "over"]]
  PROVE  PvInv'
  <1>1. ASSUME NEW j \in Jobs
        PROVE  /\ job'[j] \in JobType
               /\ job'[j].at \in {job[j].at, "over"}
    <2>1. job[j] \in JobType
      BY DEF PvInv, JobsTyped
    <2>2. [job[j] EXCEPT !.at = "over"] \in JobType /\ [job[j] EXCEPT !.at = "over"].at = "over"
      BY <2>1 DEF JobType
    <2>3. job'[j] = job[j] \/ job'[j] = [job[j] EXCEPT !.at = "over"]
      OBVIOUS
    <2> QED
      BY <2>1, <2>2, <2>3
  <1>2. JobsTyped'
    BY <1>1 DEF PvInv, JobsTyped
  <1>3. JobsKeepTrack'
    BY <1>1 DEF PvInv, JobsKeepTrack
  <1> QED
    BY <1>2, <1>3 DEF PvInv, EnabledIsEarned

\* PvInv is inductive.
LEMMA PvStepInv == PvInv /\ [PvNext]_pvVars => PvInv'
  <1>. SUFFICES ASSUME PvInv, [PvNext]_pvVars PROVE PvInv'
    OBVIOUS
  <1>1. ASSUME NEW j \in Jobs, StartProvisionJob(j) PROVE PvInv'
    BY <1>1, StartProvisionJobInv
  <1>2. ASSUME NEW j \in Jobs, RestartAgent(j) PROVE PvInv'
    BY <1>2, RestartAgentInv
  <1>3. ASSUME NEW j \in Jobs, EnableServer(j) PROVE PvInv'
    BY <1>3, EnableServerInv
  <1>4. ASSUME NEW j \in Jobs, DisableUnheard(j) \/ DisableServer(j) PROVE PvInv'
    BY <1>4, DisableInv DEF DisableUnheard, DisableServer
  <1>5. ASSUME NEW j \in Jobs, Advance(j) \/ Fails(j) \/ HeartbeatFound(j) \/ HeartbeatTimeout(j)
        PROVE  PvInv'
    <2>1. UNCHANGED <<wasEnabled, enabled, deployed, disabled>>
      BY <1>5 DEF Advance, Fails, HeartbeatFound, HeartbeatTimeout, serverAndNode
    <2>2. /\ job[j].at \in JobStages
          /\ \E stage \in {"installing", "starting_agent", "failed", "runtime_handshake", "unheard"} :
               Goto(j, stage)
      BY <1>5 DEF Advance, Fails, HeartbeatFound, HeartbeatTimeout, JobStages
    <2> QED
      BY <2>1, <2>2, GotoInv DEF JobStages
  <1>6. ASSUME NEW j \in Jobs, Handshake(j) \/ HandshakeTimeout(j) \/ Complete(j) PROVE PvInv'
    <2>1. UNCHANGED <<wasEnabled, enabled, deployed, disabled>>
      BY <1>6 DEF Handshake, HandshakeTimeout, Complete, serverAndNode
    <2>2. /\ job[j].at \in JobStages
          /\ \E stage \in {"completed", "failed", "over"} : Goto(j, stage)
      BY <1>6 DEF Handshake, HandshakeTimeout, Complete, JobStages
    <2> QED
      BY <2>1, <2>2, GotoInv DEF JobStages
  <1>7. ASSUME NEW j \in Jobs, RecordError(j) PROVE PvInv'
    <2>1. /\ UNCHANGED <<wasEnabled, enabled, deployed, disabled>>
          /\ \E stage \in {"disabling", "over"} : Goto(j, stage)
      BY <1>7 DEF RecordError, serverAndNode
    <2> QED
      BY <2>1, GotoInv
  <1>8. ASSUME NEW j \in Jobs, WriteLands(j) \/ HeartbeatAges(j) PROVE PvInv'
    BY <1>8, JobsRestInv DEF WriteLands, HeartbeatAges, serverAndNode
  <1>9. CASE ProvisionedHeartbeat
    BY <1>9, JobsRestInv DEF ProvisionedHeartbeat
  <1>10. CASE PanelDies
    BY <1>10, JobsRestInv DEF PanelDies, serverAndNode
  <1>11. CASE UNCHANGED pvVars
    BY <1>11, JobsRestInv DEF pvVars
  <1> QED
    BY <1>1, <1>2, <1>3, <1>4, <1>5, <1>6, <1>7, <1>8, <1>9, <1>10, <1>11 DEF PvNext, PvStep

\* Any number of jobs for one server may overlap, fail and be cut short: it is
\* enabled only by one that started an agent on it and has not disabled it since.
THEOREM EnablingIsEarned == PvSpec => []EnabledIsEarned
  <1>1. PvInit => PvInv
    <2>. SUFFICES ASSUME PvInit PROVE PvInv
      OBVIOUS
    <2>1. [at |-> "none", profile |-> NoProfile] \in JobType
      BY DEF JobType
    <2>2. JobsTyped /\ JobsKeepTrack
      BY <2>1 DEF PvInit, JobsTyped, JobsKeepTrack
    <2> QED
      BY <2>2 DEF PvInit, PvInv, EnabledIsEarned
  <1>2. PvInv => EnabledIsEarned
    BY DEF PvInv
  <1> QED
    BY <1>1, PvStepInv, <1>2, PTL DEF PvSpec
----------------------------------------------------------------------------
(* The choice of a server *)

\* LiveGoesToEnabled rests on this: while a request is served, whoever is enabled
\* has been noted, and selectServer names no server by its id.
EnabledAreSeen == request.kind # "none" => EnabledIn(server) \subseteq seen
NoServerId == request.serverId = NoServer
ServedHasKind == request.at # "idle" => request.kind # "none"
UnsentYet == request.at # "answered" => request.to = NoServer

SelInv ==
  /\ server \in [Servers -> RowType] /\ request \in RequestType
  /\ EnabledAreSeen /\ NoServerId /\ ServedHasKind /\ UnsentYet /\ LiveGoesToEnabled

\* The request in another stage keeps its other fields.
LEMMA InStage ==
  ASSUME NEW q \in RequestType, NEW at \in Stages \cup {"answered", "hung"}
  PROVE  LET d == [q EXCEPT !.at = at]
         IN  /\ d \in RequestType /\ d.at = at
             /\ d.kind = q.kind /\ d.serverId = q.serverId /\ d.to = q.to
  BY DEF RequestType

\* Answered with an address, the request keeps its other fields.
LEMMA SentTo ==
  ASSUME NEW q \in RequestType, NEW to \in Servers \cup {Panel, NoServer}
  PROVE  LET d == [q EXCEPT !.at = "answered", !.to = to]
         IN  /\ d \in RequestType /\ d.at = "answered"
             /\ d.kind = q.kind /\ d.serverId = q.serverId /\ d.to = to
  BY DEF RequestType

\* A step that answers nobody with a server's address.
LEMMA GoesOnInv ==
  ASSUME SelInv, request'.to \in (IF request'.at = "answered" THEN seen \cup {Panel, NoServer} ELSE {NoServer}),
         request' \in RequestType, request'.kind = request.kind, request'.serverId = NoServer,
         request.at # "idle", UNCHANGED <<server, seen>>
  PROVE  SelInv'
  BY DEF SelInv, EnabledAreSeen, EnabledIn, Exists, NoServerId, ServedHasKind, UnsentYet, LiveGoesToEnabled

\* selectServer has chosen.
LEMMA SelectedRecord ==
  ASSUME SelInv, NEW base \in BOOLEAN
  PROVE  /\ Selected(base) \in RequestType /\ Selected(base).kind = request.kind
         /\ Selected(base).serverId = NoServer /\ Selected(base).to = request.to
         /\ Selected(base).at \in {"deliver", "movie"}
  BY DEF SelInv, Selected, RequestType, Stages

\* A viewer is sent to the panel or to a server enabled now.
LEMMA RedirectedInv ==
  ASSUME SelInv, NEW origin, origin = Panel \/ (origin \in Servers /\ Usable(origin)),
         request.at # "idle", request' = Redirected(origin), UNCHANGED <<server, seen>>
  PROVE  SelInv'
  <1>1. request' = [request EXCEPT !.at = "answered", !.to = origin]
    BY DEF SelInv, NoServerId, Redirected, Destination
  <1>2. origin \in seen \cup {Panel, NoServer}
    BY DEF SelInv, EnabledAreSeen, ServedHasKind, EnabledIn, Usable, Enabled, Exists
  <1>3. request \in RequestType /\ origin \in Servers \cup {Panel, NoServer}
    BY DEF SelInv
  <1>4. /\ request' \in RequestType /\ request'.at = "answered" /\ request'.kind = request.kind
        /\ request'.serverId = request.serverId /\ request'.to = origin
    <2>1. PICK d : d = [request EXCEPT !.at = "answered", !.to = origin]
      OBVIOUS
    <2>2. d \in RequestType
      BY <1>3, <2>1 DEF RequestType
    <2>3. /\ d.at = "answered" /\ d.to = origin
          /\ d.kind = request.kind /\ d.serverId = request.serverId
      BY <1>3, <2>1 DEF RequestType
    <2>4. request' = d
      BY <1>1, <2>1
    <2> QED
      BY <2>2, <2>3, <2>4
  <1> QED
    BY <1>2, <1>4, GoesOnInv DEF SelInv, NoServerId

\* The request goes on to another stage, or is answered without an address.
LEMMA StageInv ==
  ASSUME SelInv, NEW at \in Stages \cup {"answered", "hung"},
         request.at # "idle", request.at # "answered",
         request' = [request EXCEPT !.at = at], UNCHANGED <<server, seen>>
  PROVE  SelInv'
  <1>1. request \in RequestType /\ request.to = NoServer
    BY DEF SelInv, UnsentYet
  <1>2. /\ request' \in RequestType /\ request'.at = at /\ request'.kind = request.kind
        /\ request'.serverId = request.serverId /\ request'.to = request.to
    BY <1>1, InStage
  <1> QED
    BY <1>1, <1>2, GoesOnInv DEF SelInv, NoServerId

\* selectServer returns.
LEMMA SelectedInv ==
  ASSUME SelInv, NEW base \in BOOLEAN, request' = Selected(base),
         request.at # "idle", request.at # "answered", UNCHANGED <<server, seen>>
  PROVE  SelInv'
  <1>1. request.to = NoServer
    BY DEF SelInv, UnsentYet
  <1>2. /\ request' \in RequestType /\ request'.kind = request.kind
        /\ request'.serverId = NoServer /\ request'.to = request.to /\ request'.at # "answered"
    BY SelectedRecord
  <1> QED
    BY <1>1, <1>2, GoesOnInv

\* selectServer: each source of a server in its turn.
LEMMA ConsultInv ==
  ASSUME SelInv, ConsultSetting \/ ConsultFallback \/ ConsultDomain
  PROVE  SelInv'
  <1>1. \A s \in Servers : server[s].base \in BOOLEAN
    BY DEF SelInv, RowType
  <1>2. request.at \in Consulting \cup {"fallback", "domain"} /\ UNCHANGED <<server, seen>>
    BY DEF ConsultSetting, ConsultFallback, ConsultDomain
  <1>3. request.at # "idle" /\ request.at # "answered"
    BY <1>2 DEF Consulting
  <1>4. \/ \E base \in BOOLEAN : request' = Selected(base)
        \/ \E at \in Stages \cup {"hung"} : request' = [request EXCEPT !.at = at]
    <2>1. CASE ConsultSetting
      <3>1. PICK s : request' = IF Exists(s) THEN Selected(server[s].base)
                                ELSE [request EXCEPT !.at = NextStage]
        BY <2>1 DEF ConsultSetting
      <3>2. NextStage \in Stages
        BY DEF NextStage, Stages, Consulting
      <3>3. Exists(s) => server[s].base \in BOOLEAN
        BY <1>1 DEF Exists
      <3> QED
        BY <3>1, <3>2, <3>3
    <2>2. CASE ConsultFallback
      <3>1. FirstEnabled \subseteq Servers /\ "domain" \in Stages
        BY DEF FirstEnabled, Stages
      <3> QED
        BY <2>2, <1>1, <3>1 DEF ConsultFallback
    <2>3. CASE ConsultDomain
      BY <2>3 DEF ConsultDomain
    <2> QED
      BY <2>1, <2>2, <2>3
  <1> QED
    BY <1>2, <1>3, <1>4, SelectedInv, StageInv

\* The live route and the movie route.
LEMMA DeliverInv ==
  ASSUME SelInv, Deliver \/ ResolveForced \/ ResolveRole \/ ResolveHost
  PROVE  SelInv'
  <1>1. /\ request.at \in {"deliver", "forced", "lb", "main", "host"}
        /\ UNCHANGED <<server, seen>> /\ request.at # "idle" /\ request.at # "answered"
    BY DEF Deliver, ResolveForced, ResolveRole, ResolveHost
  <1>2. \/ \E at \in Stages \cup {"answered"} : request' = [request EXCEPT !.at = at]
        \/ \E origin : /\ (origin = Panel \/ (origin \in Servers /\ Usable(origin)))
                        /\ request' = Redirected(origin)
    <2>1. CASE Deliver
      BY <2>1 DEF Deliver, Stages
    <2>2. CASE ResolveForced
      <3>1. PICK s : request' = IF Usable(s) THEN Redirected(s) ELSE [request EXCEPT !.at = "lb"]
        BY <2>2 DEF ResolveForced
      <3> QED
        BY <3>1 DEF Usable, Enabled, Exists, Stages
    <2>3. CASE ResolveRole
      <3>. DEFINE next == [request EXCEPT !.at = IF @ = "lb" THEN "main" ELSE "host"]
      <3>1. \E at \in Stages : next = [request EXCEPT !.at = at]
        BY DEF SelInv, RequestType, Stages
      <3>2. request' = next \/ \E s : Usable(s) /\ request' = Redirected(s)
        BY <2>3 DEF ResolveRole
      <3>. HIDE DEF next
      <3> QED
        BY <3>1, <3>2 DEF Usable, Enabled, Exists
    <2>4. CASE ResolveHost
      BY <2>4 DEF ResolveHost
    <2> QED
      BY <2>1, <2>2, <2>3, <2>4
  <1> QED
    BY <1>1, <1>2, StageInv, RedirectedInv

\* The movie route answers from the panel or not at all.
LEMMA ServeMovieInv ==
  ASSUME SelInv, ServeMovie
  PROVE  SelInv'
  <1>1. request.at = "movie" /\ UNCHANGED <<server, seen>> /\ request \in RequestType
    BY DEF ServeMovie, SelInv
  <1>2. CASE request.base
    BY <1>1, <1>2, StageInv DEF ServeMovie
  <1>3. CASE ~request.base
    <2>1. request' = [request EXCEPT !.at = "answered", !.to = Panel]
      BY <1>3 DEF ServeMovie
    <2>2. /\ request' \in RequestType /\ request'.at = "answered" /\ request'.kind = request.kind
          /\ request'.serverId = request.serverId /\ request'.to = Panel
      BY <1>1, <2>1, SentTo
    <2> QED
      BY <1>1, <2>2, GoesOnInv DEF SelInv, NoServerId
  <1> QED
    BY <1>2, <1>3

\* A row is changed: while a request is served, who is enabled by it is noted.
LEMMA RowChangesInv ==
  ASSUME SelInv, NEW s \in Servers, RowChanges(s)
  PROVE  SelInv'
  <1>1. PICK kept \in RowType : server' = [server EXCEPT ![s] = kept]
    BY DEF RowChanges
  <1>2. /\ seen' = IF request.kind = "none" THEN seen ELSE seen \cup EnabledIn(server')
        /\ UNCHANGED request
    BY DEF RowChanges
  <1>3. server' \in [Servers -> RowType]
    BY <1>1 DEF SelInv
  <1>4. EnabledIn(server') = EnabledIn(server)'
    BY DEF EnabledIn
  <1>5. EnabledAreSeen'
    BY <1>2, <1>4 DEF EnabledAreSeen
  <1>6. LiveGoesToEnabled'
    BY <1>2 DEF SelInv, LiveGoesToEnabled
  <1> QED
    BY <1>2, <1>3, <1>5, <1>6 DEF SelInv, NoServerId, ServedHasKind, UnsentYet

\* A viewer comes, or is done with.
LEMMA ComeAndGoInv ==
  ASSUME SelInv, Arrive \/ Forget
  PROVE  SelInv'
  <1>1. server' = server
    BY DEF Arrive, Forget
  <1>2. CASE Arrive
    <2>1. PICK k \in {"live", "movie"}, f \in Servers \cup {NoServer} :
            request' = [NoRequest EXCEPT !.kind = k, !.at = "line", !.force = f]
      BY <1>2 DEF Arrive
    <2>2. /\ request' \in RequestType /\ request'.at = "line" /\ request'.kind = k
          /\ request'.serverId = NoServer /\ request'.to = NoServer
      BY <2>1 DEF NoRequest, RequestType, Stages, Consulting
    <2>3. seen' = EnabledIn(server)
      BY <1>2 DEF Arrive
    <2> QED
      BY <1>1, <2>2, <2>3
         DEF SelInv, EnabledAreSeen, EnabledIn, NoServerId, ServedHasKind, UnsentYet, LiveGoesToEnabled
  <1>3. CASE Forget
    <2>1. /\ request' \in RequestType /\ request'.at = "idle" /\ request'.kind = "none"
          /\ request'.serverId = NoServer /\ request'.to = NoServer
      BY <1>3 DEF Forget, NoRequest, RequestType
    <2> QED
      BY <1>1, <2>1 DEF SelInv, EnabledAreSeen, NoServerId, ServedHasKind, UnsentYet, LiveGoesToEnabled
  <1> QED
    BY <1>2, <1>3

\* Nothing the invariant speaks of changes.
LEMMA SelRestInv ==
  ASSUME SelInv, UNCHANGED <<server, request, seen>>
  PROVE  SelInv'
  BY DEF SelInv, EnabledAreSeen, EnabledIn, NoServerId, ServedHasKind, UnsentYet, LiveGoesToEnabled

\* SelInv is inductive.
LEMMA SelStepInv == SelInv /\ [SelNext]_selAll => SelInv'
  <1>. SUFFICES ASSUME SelInv, [SelNext]_selAll PROVE SelInv'
    OBVIOUS
  <1>1. ASSUME NEW s \in Servers, RowChanges(s) PROVE SelInv'
    BY <1>1, RowChangesInv
  <1>2. ASSUME NEW s \in Agents, FreshChanges(s) \/ ReportPlacement(s) PROVE SelInv'
    BY <1>2, SelRestInv DEF FreshChanges, ReportPlacement
  <1>3. CASE SelServe
    BY <1>3, ConsultInv, DeliverInv, ServeMovieInv DEF SelServe
  <1>4. CASE Arrive \/ Forget
    BY <1>4, ComeAndGoInv
  <1>5. CASE UNCHANGED selAll
    BY <1>5, SelRestInv DEF selAll, selVars
  <1> QED
    BY <1>1, <1>2, <1>3, <1>4, <1>5 DEF SelNext, SelRows

\* Whatever administrators change between the queries of a selection, a viewer
\* is sent to the panel or to a server that was enabled while it was served.
THEOREM ViewersGoToEnabled == SelSpec => []LiveGoesToEnabled
  <1>1. SelInit => SelInv
    <2>. SUFFICES ASSUME SelInit PROVE SelInv
      OBVIOUS
    <2>1. request = NoRequest /\ NoRequest \in RequestType
      BY DEF SelInit, NoRequest, RequestType
    <2>2. server \in [Servers -> RowType]
      BY DEF SelInit, SrInit, RowType, NoRow, Roles
    <2> QED
      BY <2>1, <2>2 DEF SelInv, NoRequest, EnabledAreSeen, NoServerId, ServedHasKind, UnsentYet, LiveGoesToEnabled
  <1>2. SelInv => LiveGoesToEnabled
    BY DEF SelInv
  <1> QED
    BY <1>1, SelStepInv, <1>2, PTL DEF SelSpec

----------------------------------------------------------------------------
(* Backups                                                                   *)

\* Ids and names of one table are distinct, and ids given later are higher.
Sound(t) ==
  /\ t \in TableType
  /\ \A i \in RowsOf(t) : i < t.next
  /\ \A i, j \in RowsOf(t) : t.row[i] = t.row[j] => i = j

\* Names some table, dump or prune holds, and backups whose row is to come.
Used(n) ==
  \/ n \in NamesIn(RowsOf(table), table)
  \/ \E f \in Names : n \in NamesIn(RowsOf(files[f].was), files[f].was)
  \/ \E t \in Tasks : n \in task[t].doomed
Coming(t) == task[t].at \in {"dumping", "inserting"}

TablesSound == Sound(table) /\ \A f \in Names : Sound(files[f].was)
UsedAreGiven == \A n \in Names : Used(n) => n <= count
ComingAreNew ==
  /\ \A t \in Tasks : Coming(t) => task[t].name \in 1..count /\ ~Used(task[t].name)
  /\ \A t, u \in Tasks : Coming(t) /\ Coming(u) /\ t # u => task[t].name # task[u].name

\* A restore knows what it restores.
Targeted == \A t \in Tasks : task[t].restore \/ task[t].at = "restoring" => task[t].target \in Names

BkInv ==
  BkTypeOK /\ TablesSound /\ UsedAreGiven /\ ComingAreNew /\ Targeted /\ PruneSparesNewest

\* Rows of a table are names of finitely many.
LEMMA RowsAreNames ==
  ASSUME NEW t \in TableType, NEW S \in SUBSET RowsOf(t)
  PROVE  /\ S \in SUBSET Names /\ IsFiniteSet(S) /\ Cardinality(S) \in Nat
         /\ \A T \in SUBSET S : Cardinality(T) \in Nat /\ Cardinality(T) <= Cardinality(S)
         /\ NamesIn(S, t) \in SUBSET Names
  <1>1. MaxBackups \in Nat
    BY KeepAssumption
  <1>2. IsFiniteSet(Names)
    BY <1>1, FS_Interval DEF Names
  <1>3. S \in SUBSET Names
    BY DEF RowsOf
  <1>4. IsFiniteSet(S)
    BY <1>2, <1>3, FS_Subset
  <1>5. NamesIn(S, t) \in SUBSET Names
    BY DEF NamesIn, RowsOf, TableType
  <1> QED
    BY <1>3, <1>4, <1>5, FS_Subset, FS_CardinalityType

\* Of a sound table, a prune leaves the newest alone.
LEMMA DoomedNotNewest ==
  ASSUME NEW t, Sound(t)
  PROVE  /\ Doomed(t) \cap NamesIn(Newest(Keep, t), t) = {}
         /\ Doomed(t) \subseteq NamesIn(RowsOf(t), t)
         /\ Doomed(t) \in SUBSET Names
  <1>1. Doomed(t) \subseteq NamesIn(RowsOf(t), t)
    BY DEF Doomed, NamesIn
  <1>2. Doomed(t) \in SUBSET Names
    BY <1>1, RowsAreNames DEF Sound
  <1>3. Doomed(t) \cap NamesIn(Newest(Keep, t), t) = {}
    BY DEF Doomed, NamesIn, Sound, Newest
  <1> QED
    BY <1>1, <1>2, <1>3

\* A new row puts nothing among the newest but itself.
LEMMA InsertedRow ==
  ASSUME NEW t, Sound(t), t.next <= MaxBackups, NEW n \in Names, n \notin NamesIn(RowsOf(t), t),
         NEW t2, t2 = [row |-> [t.row EXCEPT ![t.next] = n], next |-> t.next + 1]
  PROVE  /\ Sound(t2)
         /\ NamesIn(RowsOf(t2), t2) = NamesIn(RowsOf(t), t) \cup {n}
         /\ NamesIn(Newest(Keep, t2), t2) \subseteq NamesIn(Newest(Keep, t), t) \cup {n}
  <1>1. /\ t \in TableType /\ t.next \in Names
        /\ \A i \in RowsOf(t) : i < t.next
        /\ \A i, j \in RowsOf(t) : t.row[i] = t.row[j] => i = j
    BY KeepAssumption DEF Sound, TableType, Names
  <1>2. /\ t2 \in TableType /\ t2.next = t.next + 1
        /\ t2.row[t.next] = n /\ \A i \in Names : i # t.next => t2.row[i] = t.row[i]
    BY <1>1, KeepAssumption DEF TableType, Names
  <1>3. RowsOf(t2) = RowsOf(t) \cup {t.next} /\ t.next \notin RowsOf(t) /\ RowsOf(t) \subseteq Names
    BY <1>1, <1>2 DEF RowsOf, Names, NoName
  <1>4. \A i \in RowsOf(t) : t2.row[i] = t.row[i] /\ t.row[i] # n
    BY <1>2, <1>3 DEF NamesIn
  <1>5. Sound(t2)
    <2>1. \A i \in RowsOf(t2) : i < t2.next
      BY <1>1, <1>2, <1>3 DEF Names
    <2>2. \A i, j \in RowsOf(t2) : t2.row[i] = t2.row[j] => i = j
      BY <1>1, <1>2, <1>3, <1>4
    <2> QED
      BY <1>2, <2>1, <2>2 DEF Sound
  <1>6. NamesIn(RowsOf(t2), t2) = NamesIn(RowsOf(t), t) \cup {n}
    BY <1>2, <1>3, <1>4 DEF NamesIn
  <1>7. ASSUME NEW i \in RowsOf(t), i \in Newest(Keep, t2) PROVE i \in Newest(Keep, t)
    <2>. DEFINE A == {j \in RowsOf(t) : j > i}
                B == {j \in RowsOf(t2) : j > i}
    <2>1. B \in SUBSET RowsOf(t2) /\ A \in SUBSET B
      BY <1>3
    <2>2. Cardinality(A) \in Nat /\ Cardinality(B) \in Nat /\ Cardinality(A) <= Cardinality(B)
      BY <1>2, <2>1, RowsAreNames
    <2>3. Cardinality(B) < Keep
      BY <1>7 DEF Newest
    <2>. HIDE DEF B
    <2>4. Cardinality(A) < Keep
      BY <2>2, <2>3, KeepAssumption
    <2> QED
      BY <2>4 DEF Newest
  <1>8. NamesIn(Newest(Keep, t2), t2) \subseteq NamesIn(Newest(Keep, t), t) \cup {n}
    <2>. SUFFICES ASSUME NEW i \in Newest(Keep, t2)
                  PROVE  t2.row[i] \in NamesIn(Newest(Keep, t), t) \cup {n}
      BY DEF NamesIn
    <2>1. i \in RowsOf(t2)
      BY DEF Newest
    <2> QED
      BY <1>2, <1>3, <1>4, <1>7, <2>1 DEF NamesIn
  <1> QED
    BY <1>5, <1>6, <1>8

\* A row that is not among the newest goes away, and nothing takes its place there.
LEMMA RowGone ==
  ASSUME NEW t, Sound(t), NEW n \in Names \cup {NoName}, NEW w, w = WithoutName(n, t)
  PROVE  /\ Sound(w)
         /\ NamesIn(RowsOf(w), w) \subseteq NamesIn(RowsOf(t), t)
         /\ n \notin NamesIn(Newest(Keep, t), t)
              => NamesIn(Newest(Keep, w), w) \subseteq NamesIn(Newest(Keep, t), t)
  <1>1. /\ t \in TableType
        /\ \A i \in RowsOf(t) : i < t.next
        /\ \A i, j \in RowsOf(t) : t.row[i] = t.row[j] => i = j
    BY DEF Sound
  <1>. DEFINE r == [i \in Names |-> IF t.row[i] = n THEN NoName ELSE t.row[i]]
  <1>2. w = [t EXCEPT !.row = r]
    BY DEF WithoutName
  <1>3. r \in [Names -> Names \cup {NoName}]
    BY <1>1 DEF TableType
  <1>4. w \in TableType /\ w.row = r /\ w.next = t.next
    BY <1>1, <1>2, <1>3 DEF TableType
  <1>5. \A i \in Names : w.row[i] = IF t.row[i] = n THEN NoName ELSE t.row[i]
    BY <1>4
  <1>. HIDE DEF r
  <1>6. RowsOf(w) = {i \in RowsOf(t) : t.row[i] # n} /\ \A i \in RowsOf(w) : w.row[i] = t.row[i]
    BY <1>5 DEF RowsOf
  <1>7. Sound(w)
    BY <1>1, <1>4, <1>6 DEF Sound
  <1>8. NamesIn(RowsOf(w), w) \subseteq NamesIn(RowsOf(t), t)
    BY <1>6 DEF NamesIn
  <1>9. ASSUME n \notin NamesIn(Newest(Keep, t), t), NEW i \in Newest(Keep, w)
        PROVE  i \in Newest(Keep, t)
    <2>. DEFINE A == {j \in RowsOf(t) : j > i}
                B == {j \in RowsOf(w) : j > i}
    <2>1. i \in RowsOf(w) /\ i \in RowsOf(t) /\ Cardinality(B) < Keep
      BY <1>6 DEF Newest
    <2>2. A \in SUBSET RowsOf(t) /\ B \in SUBSET RowsOf(w)
      OBVIOUS
    <2>3. Cardinality(A) \in Nat /\ Cardinality(B) \in Nat
      BY <1>1, <1>4, <2>2, RowsAreNames
    <2>4. CASE \E x \in A : t.row[x] = n
      <3>1. PICK x \in A : t.row[x] = n
        BY <2>4
      <3>2. x \in RowsOf(t) /\ x > i /\ x \notin Newest(Keep, t)
        BY <1>9, <3>1 DEF NamesIn
      <3>. DEFINE C == {j \in RowsOf(t) : j > x}
      <3>3. ~(Cardinality(C) < Keep)
        BY <3>2 DEF Newest
      <3>4. C \in SUBSET B
        <4>. SUFFICES ASSUME NEW j \in RowsOf(t), j > x PROVE j \in RowsOf(w) /\ j > i
          OBVIOUS
        <4>1. j \in Int /\ x \in Int /\ i \in Int
          BY <2>1, <3>2 DEF RowsOf, Names
        <4>2. j # x /\ j > i
          BY <3>2, <4>1
        <4>3. t.row[j] # n
          BY <1>1, <3>1, <3>2, <4>2
        <4> QED
          BY <1>6, <4>2, <4>3
      <3>5. Cardinality(C) \in Nat /\ Cardinality(C) <= Cardinality(B)
        BY <1>4, <2>2, <3>4, RowsAreNames
      <3>. HIDE DEF C, B
      <3> QED
        BY <2>1, <2>3, <3>3, <3>5, KeepAssumption
    <2>5. CASE ~\E x \in A : t.row[x] = n
      <3>1. A = B
        BY <1>6, <2>5
      <3> QED
        BY <2>1, <3>1 DEF Newest
    <2> QED
      BY <2>4, <2>5
  <1>10. n \notin NamesIn(Newest(Keep, t), t)
            => NamesIn(Newest(Keep, w), w) \subseteq NamesIn(Newest(Keep, t), t)
    <2>1. \A i \in Newest(Keep, w) : i \in RowsOf(w)
      BY DEF Newest
    <2> QED
      BY <1>6, <1>9, <2>1 DEF NamesIn
  <1> QED
    BY <1>7, <1>8, <1>10

\* The tables and tasks there are at first.
LEMMA EmptyIsSound ==
  /\ Sound(Empty) /\ NamesIn(RowsOf(Empty), Empty) = {}
  /\ Rest \in TaskType /\ Absent \in ContentType /\ Useless \in ContentType
  <1>1. Empty \in TableType /\ \A i \in Names : Empty.row[i] = NoName
    BY KeepAssumption DEF Empty, TableType, Names
  <1>2. RowsOf(Empty) = {}
    BY <1>1 DEF RowsOf
  <1>3. Rest \in TaskType
    BY DEF Rest, TaskType, Work
  <1> QED
    BY <1>1, <1>2, <1>3 DEF Sound, NamesIn, Absent, Useless, ContentType

\* A prune that others overtook notes it; nothing else of a task changes.
LEMMA OvertakenTasks ==
  ASSUME NEW tasks \in [Tasks -> TaskType]
  PROVE  /\ Overtaken(tasks) \in [Tasks -> TaskType]
         /\ \A t \in Tasks :
              /\ Overtaken(tasks)[t].at = tasks[t].at
              /\ Overtaken(tasks)[t].restore = tasks[t].restore
              /\ Overtaken(tasks)[t].name = tasks[t].name
              /\ Overtaken(tasks)[t].target = tasks[t].target
              /\ Overtaken(tasks)[t].doomed = tasks[t].doomed
              /\ tasks[t].at = "pruning" => Overtaken(tasks)[t].overtaken
  BY DEF Overtaken, TaskType

\* A step after which nothing new is used or to come.
LEMMA NothingNewInv ==
  ASSUME BkInv, BkTypeOK', TablesSound', Targeted', PruneSparesNewest', count' = count,
         \A n \in Names : Used(n)' => Used(n),
         \A t \in Tasks : Coming(t)' => Coming(t) /\ task'[t].name = task[t].name
  PROVE  BkInv'
  <1>1. UsedAreGiven'
    BY DEF BkInv, UsedAreGiven
  <1>2. \A t \in Tasks : Coming(t) => task[t].name \in Names
    BY KeepAssumption DEF BkInv, BkTypeOK, ComingAreNew, Names
  <1>3. ComingAreNew'
    BY <1>2 DEF BkInv, ComingAreNew
  <1> QED
    BY <1>1, <1>3 DEF BkInv

\* The same, of a step that changes one task, and files at most.
LEMMA OneTaskInv ==
  ASSUME BkInv, NEW t \in Tasks, NEW d \in TaskType, task' = [task EXCEPT ![t] = d],
         UNCHANGED <<count, table>>, listed' = listed,
         files' \in [Names -> ContentType], \A f \in Names : Sound(files'[f].was),
         \A f \in Names : files'[f].was = files[f].was \/ files'[f].was = Empty
                          \/ files'[f].was = table,
         d.at # "pruning", d.doomed \subseteq task[t].doomed,
         d.restore \/ d.at = "restoring" => d.target \in Names,
         d.at \in {"dumping", "inserting"} => Coming(t) /\ d.name = task[t].name
  PROVE  BkInv'
  <1>1. /\ task \in [Tasks -> TaskType] /\ task' \in [Tasks -> TaskType]
        /\ task'[t] = d /\ \A u \in Tasks : u # t => task'[u] = task[u]
    BY DEF BkInv, BkTypeOK
  <1>2. BkTypeOK' /\ TablesSound'
    BY <1>1 DEF BkInv, BkTypeOK, TablesSound
  <1>3. Targeted'
    BY <1>1 DEF BkInv, Targeted
  <1>4. PruneSparesNewest'
    BY <1>1 DEF BkInv, PruneSparesNewest
  <1>5. ASSUME NEW n \in Names, Used(n)' PROVE Used(n)
    <2>1. CASE n \in NamesIn(RowsOf(table'), table')
      BY <2>1 DEF Used
    <2>2. CASE \E f \in Names : n \in NamesIn(RowsOf(files'[f].was), files'[f].was)
      BY <2>2, EmptyIsSound DEF Used
    <2>3. CASE \E u \in Tasks : n \in task'[u].doomed
      BY <1>1, <2>3 DEF Used
    <2> QED
      BY <1>5, <2>1, <2>2, <2>3 DEF Used
  <1>6. \A u \in Tasks : Coming(u)' => Coming(u) /\ task'[u].name = task[u].name
    BY <1>1 DEF Coming
  <1> QED
    BY <1>2, <1>3, <1>4, <1>5, <1>6, NothingNewInv

\* A backup begins, on its own or before a restore: its name is new.
LEMMA DumpInv ==
  ASSUME BkInv, NEW t \in Tasks, NEW began \in TaskType, Dump(t, began),
         began.doomed = {}, began.restore => began.target \in Names
  PROVE  BkInv'
  <1>. DEFINE d == [began EXCEPT !.at = "dumping", !.name = count + 1]
  <1>1. count + 1 \in Names /\ count \in Nat /\ count' = count + 1 /\ count' <= MaxBackups
    BY KeepAssumption DEF BkInv, BkTypeOK, Dump, Names
  <1>2. /\ d \in TaskType /\ d.at = "dumping" /\ d.name = count + 1 /\ d.doomed = {}
        /\ d.restore => d.target \in Names
    BY <1>1 DEF TaskType, Work
  <1>3. task' = [task EXCEPT ![t] = d] /\ UNCHANGED <<table, listed>>
    BY DEF Dump
  <1>. HIDE DEF d
  <1>4. /\ task \in [Tasks -> TaskType] /\ task' \in [Tasks -> TaskType]
        /\ task'[t] = d /\ \A u \in Tasks : u # t => task'[u] = task[u]
    BY <1>2, <1>3 DEF BkInv, BkTypeOK
  <1>5. /\ files' \in [Names -> ContentType]
        /\ \A f \in Names : files'[f] = IF f = count + 1 THEN Useless ELSE files[f]
    BY <1>1, EmptyIsSound DEF BkInv, BkTypeOK, Dump
  <1>6. Useless.was = Empty
    BY DEF Useless
  <1>7. BkTypeOK'
    BY <1>1, <1>3, <1>4, <1>5, KeepAssumption DEF BkInv, BkTypeOK
  <1>8. TablesSound'
    BY <1>3, <1>5, <1>6, EmptyIsSound DEF BkInv, TablesSound
  <1>9. Targeted'
    BY <1>2, <1>4 DEF BkInv, Targeted
  <1>10. PruneSparesNewest'
    BY <1>2, <1>3, <1>4 DEF BkInv, PruneSparesNewest
  <1>11. ASSUME NEW n \in Names, Used(n)' PROVE Used(n)
    <2>1. CASE n \in NamesIn(RowsOf(table'), table')
      BY <1>3, <2>1 DEF Used
    <2>2. CASE \E f \in Names : n \in NamesIn(RowsOf(files'[f].was), files'[f].was)
      BY <1>5, <1>6, <2>2, EmptyIsSound DEF Used
    <2>3. CASE \E u \in Tasks : n \in task'[u].doomed
      BY <1>2, <1>4, <2>3 DEF Used
    <2> QED
      BY <1>11, <2>1, <2>2, <2>3 DEF Used
  <1>12. \A n \in Names : n \in Nat
    BY DEF Names
  <1>13. UsedAreGiven'
    BY <1>1, <1>11, <1>12 DEF BkInv, UsedAreGiven
  <1>14. ComingAreNew'
    <2>1. \A u \in Tasks \ {t} : Coming(u)' =>
            Coming(u) /\ task'[u].name = task[u].name /\ task[u].name \in 1..count
      BY <1>4 DEF BkInv, ComingAreNew, Coming
    <2>2. ~Used(count + 1)
      BY <1>1 DEF BkInv, UsedAreGiven
    <2>3. task'[t].name = count + 1 /\ count + 1 \in 1..(count + 1)
      BY <1>1, <1>2, <1>4
    <2>4. \A u \in Tasks, n \in Names : Coming(u)' /\ n = task'[u].name => ~Used(n)'
      <3>. SUFFICES ASSUME NEW u \in Tasks, NEW n \in Names, Coming(u)', n = task'[u].name
                    PROVE  ~Used(n)
        BY <1>11
      <3>1. CASE u = t
        BY <2>2, <2>3, <3>1
      <3>2. CASE u # t
        <4>1. Coming(u) /\ n = task[u].name
          BY <2>1, <3>2
        <4> QED
          BY <4>1 DEF BkInv, ComingAreNew
      <3> QED
        BY <3>1, <3>2
    <2>5. \A u \in Tasks : Coming(u)' => task'[u].name \in 1..count'
      BY <1>1, <2>1, <2>3
    <2>6. \A u \in Tasks : Coming(u)' => ~Used(task[u].name)'
      <3>. SUFFICES ASSUME NEW u \in Tasks, Coming(u)' PROVE ~Used(task[u].name)'
        OBVIOUS
      <3>1. PICK n \in Names : n = task'[u].name
        BY <1>1, <2>5, KeepAssumption DEF Names
      <3>2. ~Used(n)'
        BY <2>4, <3>1
      <3> QED
        BY <3>1, <3>2 DEF Used
    <2>7. \A u, v \in Tasks \ {t} : Coming(u)' /\ Coming(v)' /\ u # v => task'[u].name # task'[v].name
      BY <2>1 DEF BkInv, ComingAreNew
    <2>8. \A u \in Tasks \ {t} : Coming(u)' => task'[u].name # count + 1
      BY <1>1, <2>1
    <2>9. \A u, v \in Tasks : Coming(u)' /\ Coming(v)' /\ u # v => task'[u].name # task'[v].name
      BY <2>3, <2>7, <2>8
    <2> QED
      BY <2>5, <2>6, <2>9 DEF ComingAreNew
  <1> QED
    BY <1>7, <1>8, <1>9, <1>10, <1>13, <1>14 DEF BkInv

\* The pipeline ends, fails or is killed; a page deletes a file.
LEMMA FileInv ==
  ASSUME BkInv, NEW t \in Tasks, DumpDone(t) \/ BackupFails(t) \/ PruneDone(t) \/ DeleteBackup(t)
  PROVE  BkInv'
  <1>1. /\ task[t] \in TaskType /\ files \in [Names -> ContentType] /\ table \in TableType
        /\ Sound(table) /\ \A f \in Names : Sound(files[f].was)
    BY DEF BkInv, BkTypeOK, TablesSound
  <1>2. CASE DumpDone(t)
    <2>. DEFINE d == [task[t] EXCEPT !.at = "inserting"]
    <2>1. PICK content \in {Useless, DumpOf(table)} :
            files' = [files EXCEPT ![task[t].name] = IF Present(task[t].name) THEN content ELSE @]
      BY <1>2 DEF DumpDone
    <2>2. DumpOf(table) \in ContentType /\ DumpOf(table).was = table /\ Useless.was = Empty
      BY <1>1 DEF DumpOf, ContentType, Useless
    <2>3. /\ files' \in [Names -> ContentType]
          /\ \A f \in Names : files'[f] = files[f] \/ files'[f] = Useless \/ files'[f] = DumpOf(table)
      BY <1>1, <2>1, <2>2, EmptyIsSound
    <2>4. \A f \in Names : /\ Sound(files'[f].was)
                           /\ \/ files'[f].was = files[f].was \/ files'[f].was = Empty
                              \/ files'[f].was = table
      BY <1>1, <2>2, <2>3, EmptyIsSound
    <2>5. /\ task' = [task EXCEPT ![t] = d] /\ UNCHANGED <<count, table, listed>>
          /\ Coming(t)
      BY <1>2 DEF DumpDone, Coming
    <2>6. /\ d \in TaskType /\ d.at = "inserting" /\ d.doomed = task[t].doomed
          /\ d.restore = task[t].restore /\ d.target = task[t].target /\ d.name = task[t].name
      BY <1>1 DEF TaskType, Work
    <2>7. d.restore => d.target \in Names
      BY <2>6 DEF BkInv, Targeted
    <2>. HIDE DEF d
    <2> QED
      BY <2>3, <2>4, <2>5, <2>6, <2>7, OneTaskInv
  <1>3. CASE BackupFails(t) \/ PruneDone(t)
    <2>1. task' = [task EXCEPT ![t] = Rest] /\ UNCHANGED <<files, count, table, listed>>
      BY <1>3 DEF BackupFails, PruneDone
    <2>2. /\ Rest \in TaskType /\ Rest.at = "idle" /\ Rest.doomed \subseteq task[t].doomed
          /\ ~Rest.restore
      BY EmptyIsSound DEF Rest
    <2>3. \A f \in Names : Sound(files'[f].was) /\ files'[f].was = files[f].was
      BY <1>1, <2>1
    <2>4. files' \in [Names -> ContentType]
      BY <1>1, <2>1
    <2> QED
      BY <2>1, <2>2, <2>3, <2>4, OneTaskInv
  <1>4. CASE DeleteBackup(t)
    <2>1. PICK entry \in listed :
            /\ table.row[entry[1]] # NoName
            /\ Unlink(table.row[entry[1]])
            /\ task' = [task EXCEPT ![t] = [Rest EXCEPT !.at = "removing",
                                                        !.target = table.row[entry[1]]]]
      BY <1>4 DEF DeleteBackup
    <2>. DEFINE n == table.row[entry[1]]
                d == [Rest EXCEPT !.at = "removing", !.target = n]
    <2>2. entry[1] \in Names
      BY DEF BkInv, BkTypeOK
    <2>3. n \in Names
      BY <1>1, <2>1, <2>2 DEF TableType
    <2>4. /\ d \in TaskType /\ d.at = "removing" /\ d.doomed \subseteq task[t].doomed /\ ~d.restore
      BY <2>3 DEF Rest, TaskType, Work
    <2>5. /\ files' \in [Names -> ContentType]
          /\ \A f \in Names : files'[f] = files[f] \/ files'[f] = Absent
      BY <1>1, <2>1, EmptyIsSound DEF Unlink
    <2>6. \A f \in Names : /\ Sound(files'[f].was)
                           /\ files'[f].was = files[f].was \/ files'[f].was = Empty
      BY <1>1, <2>5, EmptyIsSound DEF Absent
    <2>7. task' = [task EXCEPT ![t] = d] /\ UNCHANGED <<count, table, listed>>
      BY <1>4, <2>1 DEF DeleteBackup
    <2>. HIDE DEF d, n
    <2> QED
      BY <2>4, <2>5, <2>6, <2>7, OneTaskInv
  <1> QED
    BY <1>2, <1>3, <1>4

\* A backup, or the safety backup of a restore, begins.
LEMMA BeginInv ==
  ASSUME BkInv, NEW t \in Tasks, CreateBackup(t) \/ BeginRestore(t)
  PROVE  BkInv'
  <1>1. CASE CreateBackup(t)
    <2>1. Rest \in TaskType /\ Rest.doomed = {} /\ ~Rest.restore
      BY EmptyIsSound DEF Rest
    <2> QED
      BY <1>1, <2>1, DumpInv DEF CreateBackup
  <1>2. CASE BeginRestore(t)
    <2>1. PICK entry \in listed :
            /\ table.row[entry[1]] # NoName
            /\ Dump(t, [Rest EXCEPT !.restore = TRUE, !.target = table.row[entry[1]]])
      BY <1>2 DEF BeginRestore
    <2>2. entry[1] \in Names /\ table \in TableType
      BY DEF BkInv, BkTypeOK
    <2>3. table.row[entry[1]] \in Names
      BY <2>1, <2>2 DEF TableType
    <2>. DEFINE d == [Rest EXCEPT !.restore = TRUE, !.target = table.row[entry[1]]]
    <2>4. d \in TaskType /\ d.doomed = {} /\ d.target \in Names
      BY <2>3 DEF Rest, TaskType, Work
    <2>. HIDE DEF d
    <2>5. Dump(t, d)
      BY <2>1 DEF d
    <2> QED
      BY <2>4, <2>5, DumpInv, SMTT(30)
  <1> QED
    BY <1>1, <1>2

\* The row of a backup is entered: no prune has chosen its name.
LEMMA InsertRowInv == ASSUME BkInv, NEW t \in Tasks, InsertRow(t) PROVE BkInv'
  <1>. DEFINE n == task[t].name
              d == IF task[t].restore THEN [task[t] EXCEPT !.at = "restoring"]
                   ELSE [Rest EXCEPT !.at = "choosing"]
  <1>1. /\ task \in [Tasks -> TaskType] /\ task[t] \in TaskType /\ count \in Nat
        /\ Sound(table) /\ Coming(t) /\ n \in 1..count /\ n \in Names /\ ~Used(n)
    BY KeepAssumption DEF BkInv, BkTypeOK, TablesSound, ComingAreNew, InsertRow, Coming, Names
  <1>2. /\ table.next <= MaxBackups
        /\ table' = [row |-> [table.row EXCEPT ![table.next] = n], next |-> table.next + 1]
        /\ listed' = listed \cup {<<table.next, n>>}
        /\ task' = [task EXCEPT ![t] = d] /\ UNCHANGED <<files, count>>
    BY DEF InsertRow
  <1>3. n \notin NamesIn(RowsOf(table), table)
    BY <1>1 DEF Used
  <1>4. PICK t2 : t2 = table'
    OBVIOUS
  <1>5. /\ Sound(t2)
        /\ NamesIn(RowsOf(t2), t2) = NamesIn(RowsOf(table), table) \cup {n}
        /\ NamesIn(Newest(Keep, t2), t2) \subseteq NamesIn(Newest(Keep, table), table) \cup {n}
    BY <1>1, <1>2, <1>3, <1>4, InsertedRow
  <1>8. /\ d \in TaskType /\ d.at \in {"restoring", "choosing"}
        /\ d.doomed \subseteq task[t].doomed
        /\ d.at = "restoring" \/ d.restore => d.target = task[t].target /\ task[t].restore
    BY <1>1, EmptyIsSound DEF TaskType, Work, Rest
  <1>. HIDE DEF d
  <1>9. /\ task' \in [Tasks -> TaskType] /\ task'[t] = d
        /\ \A u \in Tasks : u # t => task'[u] = task[u]
    BY <1>1, <1>2, <1>8
  <1>10. BkTypeOK'
    <2>1. listed' \subseteq Names \X Names
      BY <1>1, <1>2, KeepAssumption DEF BkInv, BkTypeOK, Names, TableType
    <2> QED
      BY <1>2, <1>4, <1>5, <1>9, <2>1 DEF BkInv, BkTypeOK, Sound
  <1>11. TablesSound'
    BY <1>2, <1>4, <1>5 DEF BkInv, TablesSound, Sound, RowsOf
  <1>12. Targeted'
    BY <1>8, <1>9 DEF BkInv, Targeted
  <1>13. PruneSparesNewest'
    <2>1. \A u \in Tasks : task'[u].at = "pruning" /\ ~task'[u].overtaken =>
            task'[u].doomed \cap NamesIn(Newest(Keep, t2), t2) = {}
      <3>. SUFFICES ASSUME NEW u \in Tasks, task'[u].at = "pruning", ~task'[u].overtaken
                    PROVE  task'[u].doomed \cap NamesIn(Newest(Keep, t2), t2) = {}
        OBVIOUS
      <3>1. CASE u = t
        BY <1>8, <1>9, <3>1
      <3>2. CASE u # t
        <4>1. task[u].doomed \cap NamesIn(Newest(Keep, table), table) = {} /\ task'[u] = task[u]
          BY <1>9, <3>2 DEF BkInv, PruneSparesNewest
        <4>2. n \notin task[u].doomed
          BY <1>1 DEF Used
        <4> QED
          BY <1>5, <4>1, <4>2
      <3> QED
        BY <3>1, <3>2
    <2> QED
      BY <1>4, <2>1 DEF PruneSparesNewest
  <1>14. ASSUME NEW m \in Names, Used(m)' PROVE Used(m) \/ m = n
    <2>1. CASE m \in NamesIn(RowsOf(table'), table')
      BY <1>4, <1>5, <2>1 DEF Used
    <2>2. CASE \E f \in Names : m \in NamesIn(RowsOf(files'[f].was), files'[f].was)
      BY <1>2, <2>2 DEF Used
    <2>3. CASE \E u \in Tasks : m \in task'[u].doomed
      <3>1. PICK u \in Tasks : m \in task'[u].doomed
        BY <2>3
      <3>2. CASE u = t
        BY <1>8, <1>9, <3>1, <3>2 DEF Used
      <3>3. CASE u # t
        BY <1>9, <3>1, <3>3 DEF Used
      <3> QED
        BY <3>2, <3>3
    <2> QED
      BY <1>14, <2>1, <2>2, <2>3 DEF Used
  <1>15. UsedAreGiven'
    BY <1>1, <1>2, <1>14 DEF BkInv, UsedAreGiven
  <1>16. ComingAreNew'
    <2>1. \A u \in Tasks : Coming(u)' => u # t /\ Coming(u) /\ task'[u] = task[u]
      BY <1>8, <1>9 DEF Coming
    <2>2. \A u \in Tasks : Coming(u)' => /\ task[u].name \in 1..count /\ task[u].name # n
                                         /\ task[u].name \in Names /\ ~Used(task[u].name)
      BY <1>1, <2>1, KeepAssumption DEF BkInv, BkTypeOK, ComingAreNew, Names
    <2>3. \A u \in Tasks : Coming(u)' => ~Used(task[u].name)'
      <3>. SUFFICES ASSUME NEW u \in Tasks, Coming(u)' PROVE ~Used(task[u].name)'
        OBVIOUS
      <3>1. PICK m \in Names : m = task[u].name
        BY <2>2
      <3>2. ~Used(m)'
        BY <1>14, <2>2, <3>1
      <3> QED
        BY <2>1, <3>1, <3>2 DEF Used
    <2> QED
      BY <1>2, <2>1, <2>2, <2>3 DEF BkInv, ComingAreNew
  <1> QED
    BY <1>10, <1>11, <1>12, <1>13, <1>15, <1>16 DEF BkInv

\* The table loses rows or is another one, while one task ends or prunes; the
\* others are as they were, or note that they were overtaken.
KeepTheirWork(tasks) ==
  \A u \in Tasks : /\ tasks[u].at = task[u].at /\ tasks[u].restore = task[u].restore
                   /\ tasks[u].name = task[u].name /\ tasks[u].target = task[u].target
                   /\ tasks[u].doomed = task[u].doomed
GoesOnPruning(t, d, t2) ==
  /\ d.restore => task[t].restore /\ d.target = task[t].target
  /\ d.at \in {"idle", "choosing", "pruning"}
  /\ d.doomed \subseteq task[t].doomed \/ d.doomed \subseteq NamesIn(RowsOf(t2), t2)
KnownTable(t2) ==
  /\ Sound(t2)
  /\ \/ NamesIn(RowsOf(t2), t2) \subseteq NamesIn(RowsOf(table), table)
     \/ \E f \in Names : t2 = files[f].was
FilesStay(fs) ==
  /\ fs \in [Names -> ContentType]
  /\ \A f \in Names : fs[f].was = files[f].was \/ fs[f].was = Empty
SpareNewest(tasks, t2) ==
  \A u \in Tasks : tasks[u].at = "pruning" /\ ~tasks[u].overtaken =>
    tasks[u].doomed \cap NamesIn(Newest(Keep, t2), t2) = {}

\* Such a step keeps the invariant if the prunes it leaves spare the newest.
LEMMA TableChangesInv ==
  ASSUME BkInv, NEW t \in Tasks, NEW d \in TaskType, NEW tasks \in [Tasks -> TaskType],
         NEW t2, NEW next, NEW fs,
         next = [tasks EXCEPT ![t] = d], KeepTheirWork(tasks), GoesOnPruning(t, d, t2),
         KnownTable(t2), FilesStay(fs), SpareNewest(next, t2),
         task' = next, table' = t2, files' = fs, count' = count, listed' \subseteq Names \X Names
  PROVE  BkInv'
  <1>. USE DEF KeepTheirWork, GoesOnPruning, KnownTable, FilesStay, SpareNewest
  <1>1. /\ task' \in [Tasks -> TaskType] /\ task'[t] = d
        /\ \A u \in Tasks : u # t => task'[u] = tasks[u]
    OBVIOUS
  <1>2. BkTypeOK'
    BY <1>1 DEF BkInv, BkTypeOK, Sound
  <1>3. \A f \in Names : Sound(files'[f].was)
    BY EmptyIsSound DEF BkInv, TablesSound
  <1>4. TablesSound'
    BY <1>3 DEF TablesSound, Sound, RowsOf
  <1>5. Targeted'
    BY <1>1 DEF BkInv, Targeted
  <1>6. PruneSparesNewest'
    BY DEF PruneSparesNewest
  <1>7. ASSUME NEW m \in Names, m \in NamesIn(RowsOf(t2), t2) PROVE Used(m)
    BY <1>7 DEF Used
  <1>8. ASSUME NEW m \in Names, Used(m)' PROVE Used(m)
    <2>1. CASE m \in NamesIn(RowsOf(table'), table')
      BY <1>7, <2>1
    <2>2. CASE \E f \in Names : m \in NamesIn(RowsOf(files'[f].was), files'[f].was)
      BY <2>2, EmptyIsSound DEF Used
    <2>3. CASE \E u \in Tasks : m \in task'[u].doomed
      <3>1. PICK u \in Tasks : m \in task'[u].doomed
        BY <2>3
      <3>2. CASE u = t
        BY <1>1, <1>7, <3>1, <3>2 DEF Used
      <3>3. CASE u # t
        BY <1>1, <3>1, <3>3 DEF Used
      <3> QED
        BY <3>2, <3>3
    <2> QED
      BY <1>8, <2>1, <2>2, <2>3 DEF Used
  <1>9. \A u \in Tasks : Coming(u)' => Coming(u) /\ task'[u].name = task[u].name
    BY <1>1 DEF Coming
  <1> QED
    BY <1>2, <1>4, <1>5, <1>6, <1>8, <1>9, NothingNewInv

\* A prune chooses: of the rows there are, it spares the newest.
LEMMA ChooseInv == ASSUME BkInv, NEW t \in Tasks, ChooseDoomed(t) PROVE BkInv'
  <1>. DEFINE d == [Rest EXCEPT !.at = "pruning", !.doomed = Doomed(table)]
  <1>1. /\ task \in [Tasks -> TaskType] /\ Sound(table)
        /\ files \in [Names -> ContentType] /\ listed \subseteq Names \X Names
    BY DEF BkInv, BkTypeOK, TablesSound
  <1>2. /\ Doomed(table) \cap NamesIn(Newest(Keep, table), table) = {}
        /\ Doomed(table) \subseteq NamesIn(RowsOf(table), table) /\ Doomed(table) \in SUBSET Names
    BY <1>1, DoomedNotNewest
  <1>3. /\ d \in TaskType /\ d.at = "pruning" /\ ~d.restore /\ d.doomed = Doomed(table)
    BY <1>2 DEF Rest, TaskType, Work
  <1>4. task' = [task EXCEPT ![t] = d] /\ UNCHANGED <<files, count, table, listed>>
    BY DEF ChooseDoomed
  <1>. HIDE DEF d
  <1>5. KeepTheirWork(task) /\ GoesOnPruning(t, d, table) /\ KnownTable(table) /\ FilesStay(files)
    BY <1>1, <1>2, <1>3 DEF KeepTheirWork, GoesOnPruning, KnownTable, FilesStay
  <1>6. SpareNewest(task', table)
    BY <1>1, <1>2, <1>3, <1>4 DEF SpareNewest, BkInv, PruneSparesNewest
  <1> QED
    BY <1>1, <1>3, <1>4, <1>5, <1>6, TableChangesInv

\* A prune goes on: what it takes is not among the newest, unless it was overtaken;
\* then every other prune is overtaken too.
LEMMA PruneOneInv == ASSUME BkInv, NEW t \in Tasks, NEW n \in Names, PruneOne(t, n) PROVE BkInv'
  <1>. DEFINE tasks == IF task[t].overtaken THEN Overtaken(task) ELSE task
              d == [tasks[t] EXCEPT !.doomed = @ \ {n}]
  <1>1. /\ task \in [Tasks -> TaskType] /\ Sound(table) /\ n \in task[t].doomed
        /\ task[t].at = "pruning" /\ UNCHANGED <<count, listed>>
        /\ files' = [files EXCEPT ![n] = Absent] /\ files \in [Names -> ContentType]
    BY DEF BkInv, BkTypeOK, TablesSound, PruneOne, Unlink
  <1>2. /\ tasks \in [Tasks -> TaskType]
        /\ \A u \in Tasks : /\ tasks[u].at = task[u].at /\ tasks[u].restore = task[u].restore
                            /\ tasks[u].name = task[u].name /\ tasks[u].target = task[u].target
                            /\ tasks[u].doomed = task[u].doomed
        /\ task[t].overtaken => \A u \in Tasks : task[u].at = "pruning" => tasks[u].overtaken
        /\ ~task[t].overtaken => tasks = task
    BY <1>1, OvertakenTasks
  <1>3. task' = [tasks EXCEPT ![t] = d]
    BY DEF PruneOne
  <1>. HIDE DEF tasks
  <1>4. /\ d \in TaskType /\ d.at = task[t].at /\ d.restore = task[t].restore
        /\ d.target = task[t].target /\ d.doomed = task[t].doomed \ {n} /\ d.overtaken = tasks[t].overtaken
    BY <1>2 DEF TaskType
  <1>. HIDE DEF d
  <1>5. PICK t2 : t2 = WithoutName(n, table) /\ table' = t2
    BY DEF PruneOne
  <1>6. /\ Sound(t2) /\ NamesIn(RowsOf(t2), t2) \subseteq NamesIn(RowsOf(table), table)
        /\ n \notin NamesIn(Newest(Keep, table), table)
             => NamesIn(Newest(Keep, t2), t2) \subseteq NamesIn(Newest(Keep, table), table)
    BY <1>1, <1>5, RowGone
  <1>7. /\ files' \in [Names -> ContentType]
        /\ \A f \in Names : files'[f].was = files[f].was \/ files'[f].was = Empty
    BY <1>1, EmptyIsSound DEF Absent
  <1>8. listed' \subseteq Names \X Names
    BY <1>1 DEF BkInv, BkTypeOK
  <1>9. \A u \in Tasks : task'[u].at = "pruning" /\ ~task'[u].overtaken =>
           task'[u].doomed \cap NamesIn(Newest(Keep, t2), t2) = {}
    <2>1. CASE task[t].overtaken
      BY <1>2, <1>3, <1>4, <2>1
    <2>2. CASE ~task[t].overtaken
      <3>1. n \notin NamesIn(Newest(Keep, table), table)
        BY <1>1, <2>2 DEF BkInv, PruneSparesNewest
      <3>2. \A u \in Tasks : task'[u].at = "pruning" /\ ~task'[u].overtaken =>
              task[u].at = "pruning" /\ ~task[u].overtaken /\ task'[u].doomed \subseteq task[u].doomed
        BY <1>2, <1>3, <1>4, <2>2
      <3> QED
        BY <1>6, <3>1, <3>2 DEF BkInv, PruneSparesNewest
    <2> QED
      BY <2>1, <2>2
  <1>10. KeepTheirWork(tasks) /\ GoesOnPruning(t, d, t2) /\ KnownTable(t2)
    BY <1>1, <1>2, <1>4, <1>6 DEF KeepTheirWork, GoesOnPruning, KnownTable
  <1>11. FilesStay(files') /\ SpareNewest(task', t2)
    BY <1>7, <1>9 DEF FilesStay, SpareNewest
  <1> QED
    BY <1>1, <1>2, <1>3, <1>4, <1>5, <1>8, <1>10, <1>11, TableChangesInv

\* A row is deleted, or the table restored: every prune under way is overtaken.
LEMMA OvertakesInv ==
  ASSUME BkInv, NEW t \in Tasks, DeleteRow(t) \/ RunRestore(t) \/ RestoreFails(t)
  PROVE  BkInv'
  <1>1. /\ task \in [Tasks -> TaskType] /\ Sound(table) /\ task[t] \in TaskType
        /\ \A f \in Names : Sound(files[f].was)
        /\ files \in [Names -> ContentType] /\ listed \subseteq Names \X Names
        /\ Rest \in TaskType /\ ~Rest.restore /\ Rest.at = "idle" /\ Rest.doomed = {}
    BY EmptyIsSound DEF BkInv, BkTypeOK, TablesSound, Rest
  <1>2. /\ Overtaken(task) \in [Tasks -> TaskType]
        /\ \A u \in Tasks :
             /\ Overtaken(task)[u].at = task[u].at /\ Overtaken(task)[u].restore = task[u].restore
             /\ Overtaken(task)[u].name = task[u].name
             /\ Overtaken(task)[u].target = task[u].target
             /\ Overtaken(task)[u].doomed = task[u].doomed
             /\ task[u].at = "pruning" => Overtaken(task)[u].overtaken
    BY <1>1, OvertakenTasks
  <1>3. CASE DeleteRow(t)
    <2>. DEFINE before == [task EXCEPT ![t] = Rest]
    <2>1. /\ before \in [Tasks -> TaskType] /\ before[t] = Rest
          /\ \A u \in Tasks : u # t => before[u] = task[u]
      BY <1>1
    <2>2. Overtaken(before) = [Overtaken(task) EXCEPT ![t] = Rest]
      BY <1>1, <2>1 DEF Overtaken
    <2>3. PICK t2 : t2 = WithoutName(task[t].target, table) /\ table' = t2
      BY <1>3 DEF DeleteRow
    <2>4. task[t].target \in Names \cup {NoName}
      BY <1>1 DEF TaskType
    <2>5. Sound(t2) /\ NamesIn(RowsOf(t2), t2) \subseteq NamesIn(RowsOf(table), table)
      BY <1>1, <2>3, <2>4, RowGone
    <2>6. task' = [Overtaken(task) EXCEPT ![t] = Rest] /\ UNCHANGED <<files, count, listed>>
      BY <1>3, <2>2 DEF DeleteRow
    <2>7. \A u \in Tasks : ~(task'[u].at = "pruning" /\ ~task'[u].overtaken)
      BY <1>1, <1>2, <2>6
    <2>8. /\ files' \in [Names -> ContentType] /\ listed' \subseteq Names \X Names
          /\ \A f \in Names : files'[f].was = files[f].was
      BY <1>1, <2>6
    <2>9. KeepTheirWork(Overtaken(task)) /\ GoesOnPruning(t, Rest, t2) /\ KnownTable(t2)
      BY <1>1, <1>2, <2>5 DEF KeepTheirWork, GoesOnPruning, KnownTable
    <2>10. FilesStay(files') /\ SpareNewest(task', t2)
      BY <2>7, <2>8 DEF FilesStay, SpareNewest
    <2> QED
      BY <1>1, <1>2, <2>3, <2>6, <2>8, <2>9, <2>10, TableChangesInv
  <1>4. CASE RunRestore(t) \/ RestoreFails(t)
    <2>1. task[t].target \in Names
      BY <1>4 DEF BkInv, Targeted, RunRestore, RestoreFails
    <2>2. PICK t2 : t2 = table' /\ (t2 = table \/ t2 = files[task[t].target].was)
      BY <1>4 DEF RunRestore, RestoreFails, Restored
    <2>3. /\ Sound(t2)
          /\ \/ NamesIn(RowsOf(t2), t2) \subseteq NamesIn(RowsOf(table), table)
             \/ \E f \in Names : t2 = files[f].was
      BY <1>1, <2>1, <2>2
    <2>4. listed' = listed \cup {<<i, t2.row[i]>> : i \in RowsOf(t2)} /\ UNCHANGED <<files, count>>
      BY <1>4, <2>2 DEF RunRestore, RestoreFails, RowsOf
    <2>5. listed' \subseteq Names \X Names
      BY <1>1, <2>3, <2>4 DEF Sound, TableType, RowsOf
    <2>6. /\ files' \in [Names -> ContentType]
          /\ \A f \in Names : files'[f].was = files[f].was
      BY <1>1, <2>4
    <2>7. [Rest EXCEPT !.at = "choosing"] \in TaskType
      BY DEF Rest, TaskType, Work
    <2>8. PICK d \in TaskType : /\ task' = [Overtaken(task) EXCEPT ![t] = d]
                                /\ d = Rest \/ d = [Rest EXCEPT !.at = "choosing"]
      BY <1>1, <1>4, <2>7 DEF RunRestore, RestoreFails
    <2>9. d.at \in {"idle", "choosing"} /\ ~d.restore /\ d.doomed = {}
      BY <2>8 DEF Rest
    <2>10. \A u \in Tasks : task'[u].at = "pruning" /\ ~task'[u].overtaken =>
             task'[u].doomed \cap NamesIn(Newest(Keep, t2), t2) = {}
      BY <1>2, <2>8, <2>9
    <2>11. KeepTheirWork(Overtaken(task)) /\ GoesOnPruning(t, d, t2) /\ KnownTable(t2)
      BY <1>2, <2>3, <2>9 DEF KeepTheirWork, GoesOnPruning, KnownTable
    <2>12. FilesStay(files') /\ SpareNewest(task', t2)
      BY <2>6, <2>10 DEF FilesStay, SpareNewest
    <2> QED
      BY <1>2, <2>2, <2>4, <2>5, <2>8, <2>11, <2>12, TableChangesInv
  <1> QED
    BY <1>3, <1>4

\* BkInv is inductive.
LEMMA BkStepInv == BkInv /\ [BkNext]_bkVars => BkInv'
  <1>. SUFFICES ASSUME BkInv, [BkNext]_bkVars PROVE BkInv'
    OBVIOUS
  <1>1. CASE UNCHANGED bkVars
    <2>1. /\ UNCHANGED <<files, count, table, listed, task>>
      BY <1>1 DEF bkVars
    <2>2. BkTypeOK' /\ TablesSound' /\ Targeted' /\ PruneSparesNewest'
      BY <2>1 DEF BkInv, BkTypeOK, TablesSound, Targeted, PruneSparesNewest
    <2>3. /\ \A n \in Names : Used(n)' => Used(n)
          /\ \A t \in Tasks : Coming(t)' => Coming(t) /\ task'[t].name = task[t].name
      BY <2>1 DEF Used, Coming
    <2> QED
      BY <2>1, <2>2, <2>3, NothingNewInv
  <1>2. CASE BkNext
    <2>1. PICK t \in Tasks :
            \/ CreateBackup(t) \/ DumpDone(t) \/ BackupFails(t) \/ InsertRow(t)
            \/ ChooseDoomed(t) \/ PruneDone(t) \/ \E n \in Names : PruneOne(t, n)
            \/ DeleteBackup(t) \/ DeleteRow(t)
            \/ BeginRestore(t) \/ RunRestore(t) \/ RestoreFails(t)
      BY <1>2 DEF BkNext
    <2> QED
      BY <2>1, BeginInv, FileInv, InsertRowInv, ChooseInv, PruneOneInv, OvertakesInv
  <1> QED
    BY <1>1, <1>2

\* There are no backups at first.
LEMMA BkInitInv == BkInit => BkInv
  <1>. SUFFICES ASSUME BkInit PROVE BkInv
    OBVIOUS
  <1>1. BkTypeOK
    BY EmptyIsSound, KeepAssumption DEF BkInit, BkTypeOK, Sound
  <1>2. /\ TablesSound /\ \A n \in Names : ~Used(n)
    BY EmptyIsSound DEF BkInit, TablesSound, Used, Absent, Rest
  <1>3. UsedAreGiven /\ Targeted /\ PruneSparesNewest /\ ComingAreNew
    BY <1>2 DEF BkInit, UsedAreGiven, ComingAreNew, Coming, Targeted, PruneSparesNewest, Rest
  <1> QED
    BY <1>1, <1>2, <1>3 DEF BkInv

\* Whatever backups, prunes, restores and deletions overlap, a prune that no
\* deletion and no restore overtook never takes one of the newest backups.
THEOREM NewestAreSpared == BkSpec => []PruneSparesNewest
  <1>1. BkInv => PruneSparesNewest
    BY DEF BkInv
  <1> QED
    BY BkInitInv, BkStepInv, <1>1, PTL DEF BkSpec

----------------------------------------------------------------------------
(* Remote commands: executed at most once, whatever is lost, late or restarted *)

USE CommandsAssumption

\* Where a command can be on its way to be executed, and that it is in one of
\* these places only before it was executed and after its row left "queued".
OnTheWay ==
  /\ \A c \in Commands : row[c] \in {"none", "refused", "queued"} =>
       executed[c] = 0 /\ c \notin response.commands /\ c \notin agent.batch
  /\ \A c \in response.commands \cup agent.batch : executed[c] = 0

\* The agent holds a batch only while it works on it, is sent one only while it
\* waits for one, and is sent one per request.
OneBatch ==
  /\ agent.at \in {"sleeping", "beating"} => agent.batch = {}
  /\ agent.at # "beating" => ~response.sent /\ response.commands = {}
  /\ response.sent => "mine" \notin beats
  /\ "mine" \in beats => agent.at = "beating"

\* An acknowledgement under way, or being awaited, is about a command that was
\* executed, and tells no success that was none.
AcksEarned ==
  /\ \A m \in acks : /\ executed[m.command] = 1
                     /\ m.status = "succeeded" => outcome[m.command] = "ok"
  /\ agent.at \in {"acking", "reacking"} =>
       agent.command \in Commands /\ executed[agent.command] = 1

\* The inductive invariant.  AtMostOnce alone is not inductive: it needs that a
\* command is in no batch any more once it was executed.
CqInv == CqTypeOK /\ OnTheWay /\ OneBatch /\ AcksEarned /\ AtMostOnce /\ ReportsEarned

\* The agent's record is well formed when it is asleep or goes on.
LEMMA AgentTypes ==
  /\ Asleep \in AgentType
  /\ NoResponse \in [sent : BOOLEAN, commands : SUBSET Commands]
  /\ \A a \in AgentType :
       /\ [a EXCEPT !.at = "beating"] \in AgentType
       /\ \A b \in SUBSET Commands : [a EXCEPT !.at = "working", !.batch = b] \in AgentType
       /\ \A x \in BOOLEAN : [a EXCEPT !.answered = x] \in AgentType
       /\ [a EXCEPT !.at = "reacking", !.answered = FALSE] \in AgentType
  BY DEF AgentType, Asleep, NoResponse

\* A request given up is not awaited.
LEMMA AbandonedType ==
  ASSUME beats \subseteq {"mine", "old"}
  PROVE \A b \in Abandoned : b \subseteq {"mine", "old"} /\ "mine" \notin b
  BY DEF Abandoned

\* The agent loop begins asleep, with an empty table.
LEMMA CqInitInv == CqInit => CqInv
  <1>. SUFFICES ASSUME CqInit PROVE CqInv
    OBVIOUS
  <1>1. /\ response.commands = {} /\ ~response.sent /\ agent.at = "sleeping" /\ agent.batch = {}
        /\ acks = {} /\ beats = {}
        /\ \A c \in Commands : row[c] = "none" /\ executed[c] = 0
    BY DEF CqInit, NoResponse, Asleep
  <1>2. CqTypeOK
    BY AgentTypes DEF CqInit, CqTypeOK
  <1>. QED BY <1>1, <1>2 DEF CqInv, OnTheWay, OneBatch, AcksEarned, AtMostOnce, ReportsEarned

\* Every step keeps the invariant.
LEMMA CqNextInv == CqInv /\ [CqNext]_cqVars => CqInv'
  <1>. SUFFICES ASSUME CqInv, [CqNext]_cqVars PROVE CqInv'
    OBVIOUS
  <1>. USE DEF CqInv, CqTypeOK, OnTheWay, OneBatch, AcksEarned, AtMostOnce, ReportsEarned
  <1>1. ASSUME NEW c \in Commands, Issue(c) PROVE CqInv'
    BY <1>1 DEF Issue
  <1>2. ASSUME NEW c \in Commands, Execute(c) PROVE CqInv'
    BY <1>2 DEF Execute, Report, AgentType, AckType
  <1>3. ASSUME NEW from \in {"mine", "old"}, HandleBeat(from) PROVE CqInv'
    BY <1>3 DEF HandleBeat, Leasable
  <1>4. ASSUME NEW m \in acks, HandleAck(m) PROVE CqInv'
    <2>1. /\ m.command \in Commands /\ m.status \in {"succeeded", "failed"}
          /\ executed[m.command] = 1
          /\ m.status = "succeeded" => outcome[m.command] = "ok"
      BY DEF AckType
    <2>2. agent' = [agent EXCEPT !.answered = agent.answered \/ Awaited(m)]
          /\ UNCHANGED <<fresh, beats, response, executed, outcome>>
          /\ row' = [row EXCEPT ![m.command] = m.status] /\ acks' = acks \ {m}
      BY <1>4 DEF HandleAck
    <2>3. /\ agent'.at = agent.at /\ agent'.batch = agent.batch
          /\ agent'.command = agent.command
      BY <2>2 DEF AgentType
    <2>4. agent' \in AgentType
      <3>1. (agent.answered \/ Awaited(m)) \in BOOLEAN
        OBVIOUS
      <3>. QED BY <2>2, <3>1, AgentTypes, Zenon
    <2>5. CqTypeOK'
      BY <2>1, <2>2, <2>4
    <2>. QED BY <2>1, <2>2, <2>3, <2>5
  <1>5. CASE GrowStale
    BY <1>5 DEF GrowStale
  <1>6. CASE Beat
    <2>1. /\ agent.at = "sleeping" /\ agent'.at = "beating"
          /\ agent'.batch = agent.batch /\ agent'.command = agent.command
          /\ beats' \subseteq {"mine", "old"}
          /\ UNCHANGED <<row, fresh, response, acks, executed, outcome>>
      BY <1>6 DEF Beat, AgentType
    <2>2. agent' \in AgentType
      BY <1>6, AgentTypes, Zenon DEF Beat
    <2>. QED BY <2>1, <2>2
  <1>7. CASE BeatFails
    BY <1>7, AgentTypes, AbandonedType DEF BeatFails, Asleep, NoResponse
  <1>8. CASE BeatReturns
    <2>1. /\ agent'.at = "working" /\ agent'.batch = response.commands
          /\ response'.commands = {} /\ ~response'.sent
          /\ agent.at = "beating" /\ response.sent
          /\ UNCHANGED <<row, fresh, beats, acks, executed, outcome>>
      BY <1>8 DEF BeatReturns, NoResponse, AgentType
    <2>2. response.commands \in SUBSET Commands
      OBVIOUS
    <2>3. agent' \in AgentType
      BY <1>8, <2>2, AgentTypes DEF BeatReturns
    <2>4. response' \in [sent : BOOLEAN, commands : SUBSET Commands]
      BY <1>8, AgentTypes DEF BeatReturns
    <2>5. CqTypeOK'
      BY <2>1, <2>3, <2>4
    <2>7. OneBatch'
      BY <2>1
    <2>8. AcksEarned' /\ AtMostOnce' /\ ReportsEarned'
      BY <2>1
    <2>6. OnTheWay'
      BY <2>1
    <2>. QED BY <2>5, <2>6, <2>7, <2>8
  <1>9. CASE AckReturns
    BY <1>9 DEF AckReturns, NextCommand, AgentType
  <1>10. CASE AckFails
    <2>1. /\ agent'.at = "reacking" /\ agent'.batch = agent.batch
          /\ agent'.command = agent.command
          /\ agent.command \in Commands /\ executed[agent.command] = 1
          /\ UNCHANGED <<row, fresh, beats, response, executed, outcome>>
          /\ acks' = acks \cup {[command |-> agent.command, status |-> "failed"]}
      BY <1>10 DEF AckFails, AgentType
    <2>2. agent' \in AgentType /\ acks' \subseteq AckType
      <3>1. [command |-> agent.command, status |-> "failed"] \in AckType
        BY <2>1 DEF AckType
      <3>. QED BY <1>10, <2>1, <3>1, AgentTypes DEF AckFails
    <2>3. \A m \in acks' : m \notin acks =>
           m.command = agent.command /\ m.status = "failed"
      BY <2>1
    <2>4. CqTypeOK'
      BY <2>1, <2>2
    <2>6. OnTheWay' /\ AtMostOnce' /\ ReportsEarned'
      BY <2>1
    <2>7. OneBatch'
      BY <2>1, <1>10 DEF AckFails
    <2>5. AcksEarned'
      BY <2>1, <2>3
    <2>. QED BY <2>4, <2>5, <2>6, <2>7
  <1>11. CASE ReackFails
    BY <1>11 DEF ReackFails, NextCommand, AgentType
  <1>12. CASE Sleep
    BY <1>12, AgentTypes DEF Sleep, Asleep
  <1>13. CASE AgentRestart
    BY <1>13, AgentTypes, AbandonedType DEF AgentRestart, Asleep, NoResponse
  <1>14. CASE UNCHANGED cqVars
    BY <1>14 DEF cqVars
  <1>. QED BY <1>1, <1>2, <1>3, <1>4, <1>5, <1>6, <1>7, <1>8, <1>9, <1>10, <1>11,
              <1>12, <1>13, <1>14 DEF CqNext

\* No remote command is executed twice, whatever is lost, delayed or restarted.
THEOREM ExecutedAtMostOnce == CqSpec => []AtMostOnce
  <1>1. CqInv => AtMostOnce
    BY DEF CqInv
  <1>. QED BY CqInitInv, CqNextInv, <1>1, PTL DEF CqSpec

\* A row marked succeeded or failed belongs to a command that was executed, and
\* marked succeeded to one that did succeed.
THEOREM ReportsStayEarned == CqSpec => []ReportsEarned
  <1>1. CqInv => ReportsEarned
    BY DEF CqInv
  <1>. QED BY CqInitInv, CqNextInv, <1>1, PTL DEF CqSpec
=============================================================================
