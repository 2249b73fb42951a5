------------------------------- MODULE Stability -------------------------------
(* Automatic repair of one channel. A monitor scores what the channel's log,  *)
(* playlist and pipe show (stability-monitor.js); bad scores, bad reports of  *)
(* players and administrators put the channel into a safe encoding, good      *)
(* scores take it out again (applyStabilityFix in server.js). What the        *)
(* channel had before is kept beside its settings and both are saved together.*)
EXTENDS Integers, FiniteSets, Sequences

CONSTANTS
  MaxKinds,    \* how many kinds of trouble one scan finds at most
  GoodScans,   \* good scans in a row before a recovery: 6 in the code
  MaxPending   \* delayed restarts pending at once, and detections

ASSUME StAssumption == MaxKinds \in Nat /\ GoodScans \in Nat \ {0} /\ MaxPending \in Nat

VARIABLES
  chan,        \* the channel's settings as the panel has them in memory
  saved,       \* the same as the database has them
  auto,        \* autoFixEnabled
  onAir,       \* status = "running"
  detecting,   \* how many preDetectSource have not answered
  due,         \* restarts a repair has asked for
  streak,      \* the monitor's memory of the channel
  scan         \* what the last scan of the running channel found

stVars == <<chan, saved, auto, onAir, detecting, due, streak, scan>>

\* outputMode with its preset, and stabilityProfile = "lag_fix".
Modes == [out : {"copy", "transcode"}, fix : BOOLEAN]
Safe == [out |-> "transcode", fix |-> TRUE]
\* prev is stabilityPrev, none or one mode. chosen is what the administrator or
\* the detection of the source wanted, edited that it was changed during a fix.
Settings == [mode : Modes, prev : {{}} \cup {{m} : m \in Modes},
             detected : BOOLEAN, chosen : Modes, edited : BOOLEAN]

StTypeOK ==
  /\ chan \in Settings /\ saved \in Settings
  /\ auto \in BOOLEAN /\ onAir \in BOOLEAN
  /\ detecting \in 0..MaxPending /\ due \in 0..MaxPending
  /\ streak \in [good : 0..GoodScans, bad : 0..2] /\ (streak.good = 0 \/ streak.bad = 0)
  /\ scan \in [verdict : {"bad", "warning", "edge", "good"}, signs : 0..MaxKinds]

----------------------------------------------------------------------------
(* The score: 100 less a capped penalty for every kind of trouble *)

Weight == [dts |-> 12, decrypt |-> 20, input |-> 8, http |-> 10, drops |-> 5, missing |-> 8,
           lag |-> 8, speed |-> 15, segment |-> 15, pipe |-> 30]
Cap == [dts |-> 40, decrypt |-> 40, input |-> 30, http |-> 30, drops |-> 20, missing |-> 30,
        lag |-> 40, speed |-> 25, segment |-> 40, pipe |-> 30]
\* The segment's age costs 10, 25 or 40; seconds of lag add up like events.
Penalty(kind, n) ==
  LET p == IF kind = "segment" THEN 15 * n - 5 ELSE Weight[kind] * n
  IN  IF p > Cap[kind] THEN Cap[kind] ELSE p

KindsSeq == <<"dts", "decrypt", "input", "http", "drops", "missing", "lag", "speed", "segment", "pipe">>
\* What the first i kinds can take away, with how many of them have been found.
Losses[i \in 0..Len(KindsSeq)] ==
  IF i = 0 THEN {[sum |-> 0, signs |-> 0]}
  ELSE Losses[i - 1] \cup {[sum |-> l.sum + Penalty(KindsSeq[i], n), signs |-> l.signs + 1] :
                             l \in {k \in Losses[i - 1] : k.signs < MaxKinds}, n \in 1..5}

Bad(score) == score < 60
Verdict(score) ==
  IF Bad(score) THEN "bad" ELSE IF score < 85 THEN "warning"
  ELSE IF score = 85 THEN "edge" ELSE "good"
\* A score below 0 counts as 0, which is as bad.
Scores == {[verdict |-> Verdict(100 - l.sum), signs |-> l.signs] : l \in Losses[Len(KindsSeq)]}

----------------------------------------------------------------------------
(* Fix and recovery *)

Up(n, top) == IF n < top THEN n + 1 ELSE n

\* Faulty variant: what the channel had is noted at every fix.
DegradedAgain(c) == [c EXCEPT !.prev = {c.mode}, !.mode = Safe]
Degraded(c) == [c EXCEPT !.prev = IF @ = {} THEN {c.mode} ELSE @, !.mode = Safe]
\* A recovery without a fix before it finds the settings it just noted.
Recovered(c) ==
  LET back == CHOOSE m \in Modes : m \in (IF c.prev = {} THEN {c.mode} ELSE c.prev)
  IN  [c EXCEPT !.mode = back, !.prev = {}, !.edited = FALSE,
                !.chosen = IF c.edited THEN back ELSE @]

\* A running channel is restarted a moment later.
RestartSoon == due' = IF onAir THEN Up(due, MaxPending) ELSE due

\* scanChannel and onAutoFix. The log still holds lines of earlier runs.
ScanRunning ==
  /\ onAir
  /\ \E s \in Scores :
       LET now == CASE s.verdict = "bad" -> [good |-> 0, bad |-> Up(streak.bad, 2)]
                    [] s.verdict = "warning" -> [good |-> 0, bad |-> 0]
                    [] OTHER -> [good |-> Up(streak.good, GoodScans), bad |-> 0]
           degrade == auto /\ now.bad = 2 /\ chan.mode # Safe
           recover == auto /\ s.verdict = "good" /\ now.good = GoodScans /\ chan.mode.fix
       IN  /\ scan' = s /\ streak' = now
           /\ chan' = IF degrade THEN Degraded(chan) ELSE IF recover THEN Recovered(chan) ELSE chan
           /\ IF degrade \/ recover THEN RestartSoon ELSE UNCHANGED due
  /\ UNCHANGED <<saved, auto, onAir, detecting>>

\* A channel that does not run counts as perfect; its streaks stay.
ScanIdle ==
  /\ ~onAir /\ scan.verdict # "good"
  /\ scan' = [scan EXCEPT !.verdict = "good"]
  /\ UNCHANGED <<chan, saved, auto, onAir, detecting, due, streak>>

\* POST /api/qoe/report: a player that suffers although the score is good.
PlayerReport ==
  /\ auto /\ scan.verdict \in {"good", "edge"}
  /\ chan' = Degraded(chan)
  /\ RestartSoon
  /\ UNCHANGED <<saved, auto, onAir, detecting, streak, scan>>

\* POST /channels/:id/fix: at once, without a delay.
ManualFix ==
  /\ chan' = Degraded(chan)
  /\ onAir' \in {onAir, FALSE}
  /\ UNCHANGED <<saved, auto, detecting, due, streak, scan>>

\* POST /channels/:id/toggle-auto-fix.
ToggleAutoFix ==
  /\ auto' = ~auto
  /\ UNCHANGED <<chan, saved, onAir, detecting, due, streak, scan>>

\* PUT /channels/:id: the page sends an output mode; the profile stays unless the
\* request names one. What a fix has put aside stays too.
EditChannel ==
  /\ ~onAir
  /\ \E m \in Modes :
       chan' = [chan EXCEPT !.mode = m, !.edited = chan.prev # {},
                            !.chosen = IF chan.prev = {} THEN m ELSE Safe]
  /\ auto' \in BOOLEAN
  /\ UNCHANGED <<saved, onAir, detecting, due, streak, scan>>

----------------------------------------------------------------------------
(* Runs *)

\* runChannel looks at the source of a channel that copies it until one such look
\* has ended. A start may be refused before that.
Begin ==
  \/ onAir' = FALSE /\ UNCHANGED detecting
  \/ /\ onAir' \in BOOLEAN
     /\ detecting' = IF chan.mode.out = "copy" /\ ~chan.detected
                     THEN Up(detecting, MaxPending) ELSE detecting

StartChannel ==
  /\ ~onAir /\ Begin
  /\ UNCHANGED <<chan, saved, auto, due, streak, scan>>

StopChannel ==
  /\ onAir /\ onAir' = FALSE
  /\ UNCHANGED <<chan, saved, auto, detecting, due, streak, scan>>

\* The delayed restart does not ask whether the channel was stopped meanwhile. A
\* running HLS channel is switched over without a new start.
RestartDue ==
  /\ due > 0 /\ due' = due - 1
  /\ Begin \/ UNCHANGED <<onAir, detecting>>
  /\ UNCHANGED <<chan, saved, auto, streak, scan>>

\* preDetectSource answers: a source that cannot be copied gets the safe encoding,
\* with nothing put aside, whatever the channel's mode is by then.
Detected ==
  /\ detecting > 0 /\ detecting' = detecting - 1
  /\ \/ chan' = [chan EXCEPT !.detected = TRUE]
     \/ chan' = [chan EXCEPT !.detected = TRUE, !.mode = Safe,
                             !.chosen = IF chan.prev = {} THEN Safe ELSE @]
  /\ UNCHANGED <<saved, auto, onAir, due, streak, scan>>

----------------------------------------------------------------------------
(* The database row *)

\* Every change is saved without being waited for. A save that fails, is late or
\* lands after a newer one leaves an older snapshot, like one not yet made.
Save ==
  /\ saved # chan /\ saved' = chan
  /\ UNCHANGED <<chan, auto, onAir, detecting, due, streak, scan>>

\* loadChannelsFromDb: nothing runs and the monitor remembers nothing.
PanelRestart ==
  /\ chan' = saved /\ auto' \in BOOLEAN /\ onAir' = FALSE /\ detecting' = 0 /\ due' = 0
  /\ streak' = [good |-> 0, bad |-> 0] /\ scan' = [verdict |-> "good", signs |-> 0]
  /\ UNCHANGED saved

----------------------------------------------------------------------------
StInit ==
  /\ \E m \in Modes :
       chan = [mode |-> m, prev |-> {}, detected |-> FALSE, chosen |-> m, edited |-> FALSE]
  /\ saved = chan /\ auto \in BOOLEAN
  /\ onAir = FALSE /\ detecting = 0 /\ due = 0
  /\ streak = [good |-> 0, bad |-> 0] /\ scan = [verdict |-> "good", signs |-> 0]

StNext ==
  \/ ScanRunning \/ ScanIdle \/ PlayerReport \/ ManualFix \/ ToggleAutoFix \/ EditChannel
  \/ StartChannel \/ StopChannel \/ RestartDue \/ Detected
  \/ Save \/ PanelRestart

StSpec == StInit /\ [][StNext]_stVars

----------------------------------------------------------------------------
\* A repair never costs the settings it replaced: whatever fixes follow one
\* another and whichever save survives a restart of the panel, the channel has
\* what was chosen for it or has it put aside for the recovery
\* (applyStabilityFix). An edit made during a fix is not protected.
SettingsComeBack ==
  /\ chan.prev = {} => chan.mode = chan.chosen
  /\ chan.prev # {} /\ ~chan.edited => chan.prev = {chan.chosen} /\ chan.mode = Safe

\* One kind of trouble alone, however often it is found in the log, never leads
\* to an automatic fix: the caps leave it at a warning (computeStabilityScore).
FixTakesTwoSigns == streak.bad > 0 => scan.signs >= 2
=============================================================================
