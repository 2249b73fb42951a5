----------------------------- MODULE LineLifecycle -----------------------------
(* The life of subscriber lines: what administrators and resellers do to them *)
(* (admin.js, reseller.js, the panel's line pages), the minutely sweep that   *)
(* disables expired ones (crons.js) and what a player is told (lineService).  *)
(* Pages act on what a line was when they were opened, a sweep on the list it *)
(* read, and a slow sweep overlaps the next.                                  *)
EXTENDS Naturals

CONSTANTS
  Lines,      \* ids, each given to one line
  Pages,      \* open dialogs of the panel
  Sweeps,     \* runs of the cron job that may be under way at once
  MaxTime,    \* bound of the clock
  Durations   \* what packages and extensions grant

ASSUME LifeAssumption == MaxTime \in Nat /\ Durations \subseteq Nat

VARIABLES
  now,        \* the clock
  lineRow,     \* per line: exp_date (none or one time), enabled, admin_enabled
  condemned,  \* per sweep: the ids it has read and not disabled yet
  page,       \* per dialog: what it shows
  redated,    \* lines whose expiry was changed since a sweep listed them last
  disabledBy, \* who took enabled away
  promised    \* lines the panel has reported as extended

llVars == <<now, lineRow, condemned, page, redated, disabledBy, promised>>

Times == 0..MaxTime
\* No date, or one: a date further off than the clock goes is as good as never.
Expiries == SUBSET Nat
LineRow == [state : {"unused", "there", "gone"}, exp : Expiries, enabled : BOOLEAN, admin : BOOLEAN]
Unused == [state |-> "unused", exp |-> {}, enabled |-> TRUE, admin |-> TRUE]
PageType == [kind : {"closed", "extend", "form", "list"}, line : SUBSET Lines,
             exp : Expiries, enabled : BOOLEAN]
ClosedPage == [kind |-> "closed", line |-> {}, exp |-> {}, enabled |-> TRUE]

LlTypeOK ==
  /\ now \in Times
  /\ lineRow \in [Lines -> LineRow]
  /\ condemned \in [Sweeps -> SUBSET Lines]
  /\ redated \subseteq Lines /\ promised \subseteq Lines
  /\ page \in [Pages -> PageType]
  /\ disabledBy \in [Lines -> {"nobody", "sweep", "page"}]

There(l) == lineRow[l].state = "there"
Past(exp, t) == \E e \in exp : e < t
\* Every action that writes an expiry notes whose it changed.
NoteRedated == redated' = redated \cup {l \in Lines : lineRow'[l].exp # lineRow[l].exp}

----------------------------------------------------------------------------
(* What a player is told *)

\* authenticateLine looks at the ban first, at enabled second, at the date last.
Answer(l) ==
  IF ~There(l) THEN "INVALID" ELSE IF ~lineRow[l].admin THEN "BANNED"
  ELSE IF ~lineRow[l].enabled THEN "DISABLED" ELSE IF Past(lineRow[l].exp, now) THEN "EXPIRED" ELSE "OK"

----------------------------------------------------------------------------
(* The sweep, every minute; a slow one overlaps the next *)

Tick ==
  /\ now < MaxTime /\ now' = now + 1
  /\ UNCHANGED <<lineRow, condemned, page, redated, disabledBy, promised>>

\* Faulty variant: a line without a date compares as one long over.
DueWithoutDate(l) == lineRow[l].exp = {} \/ Past(lineRow[l].exp, now)
Due(l) == Past(lineRow[l].exp, now)
SweepReads(w) ==
  LET found == {l \in Lines : There(l) /\ lineRow[l].enabled /\ Due(l)}
  IN  /\ condemned[w] = {} /\ found # {}
      /\ condemned' = [condemned EXCEPT ![w] = found]
      /\ redated' = redated \ found
      /\ UNCHANGED <<now, lineRow, page, disabledBy, promised>>

\* updateLine: nothing is looked at again.
SweepDisables(w, l) ==
  /\ l \in condemned[w] /\ condemned' = [condemned EXCEPT ![w] = @ \ {l}]
  /\ lineRow' = [lineRow EXCEPT ![l].enabled = IF There(l) THEN FALSE ELSE @]
  /\ disabledBy' = [disabledBy EXCEPT ![l] = IF There(l) THEN "sweep" ELSE @]
  /\ UNCHANGED <<now, page, redated, promised>>

\* An UPDATE fails, or the panel dies: the rest of the list waits for the next.
SweepFails(w) ==
  /\ condemned[w] # {} /\ condemned' = [condemned EXCEPT ![w] = {}]
  /\ UNCHANGED <<now, lineRow, page, redated, disabledBy, promised>>

----------------------------------------------------------------------------
(* Administrators and resellers *)

\* POST /lines and the rows of /lines/bulk: a date, none, or the package's time.
CreateLine(l) ==
  /\ lineRow[l].state = "unused"
  /\ \E exp \in {{}} \cup {{now + d} : d \in Durations} :
       lineRow' = [lineRow EXCEPT ![l] = [Unused EXCEPT !.state = "there", !.exp = exp]]
  /\ UNCHANGED <<now, condemned, page, disabledBy, promised>> /\ NoteRedated

OpenPage(p, l) ==
  /\ page[p].kind = "closed" /\ There(l)
  /\ \E kind \in {"extend", "form", "list"} :
       page' = [page EXCEPT ![p] = [kind |-> kind, line |-> {l}, exp |-> lineRow[l].exp,
                                    enabled |-> lineRow[l].enabled]]
  /\ UNCHANGED <<now, lineRow, condemned, redated, disabledBy, promised>>

\* saveLineExtension: never, or days added to what the dialog was opened with.
Extended(exp, d) == IF exp = {} THEN {now + d} ELSE {e + d : e \in exp}
SaveExtension(p) ==
  /\ page[p].kind = "extend"
  /\ \E l \in page[p].line, exp \in {{}} \cup {Extended(page[p].exp, d) : d \in Durations} :
       /\ exp \subseteq 0..(MaxTime + 1)
       /\ lineRow' = [lineRow EXCEPT ![l].exp = IF There(l) THEN exp ELSE @]
       /\ promised' = IF There(l) THEN promised \cup {l} ELSE promised
  /\ page' = [page EXCEPT ![p] = ClosedPage]
  /\ UNCHANGED <<now, condemned, disabledBy>> /\ NoteRedated

\* saveLine: the whole form goes back, enabled is not part of it. The date is the
\* one it was opened with unless the administrator picks another.
SaveForm(p) ==
  /\ page[p].kind = "form"
  /\ \E l \in page[p].line, admin \in BOOLEAN,
        exp \in {{}, page[p].exp} \cup {{now + d} : d \in Durations} :
       lineRow' = [lineRow EXCEPT ![l].exp = IF There(l) THEN exp ELSE @,
                          ![l].admin = IF There(l) THEN admin ELSE @]
  /\ page' = [page EXCEPT ![p] = ClosedPage]
  /\ promised' = promised \ page[p].line
  /\ UNCHANGED <<now, condemned, disabledBy>> /\ NoteRedated

\* toggleDisableLine: the opposite of what the list showed.
ToggleDisable(p) ==
  /\ page[p].kind = "list"
  /\ \E l \in page[p].line :
       /\ lineRow' = [lineRow EXCEPT ![l].enabled = IF There(l) THEN ~page[p].enabled ELSE @]
       /\ disabledBy' = [disabledBy EXCEPT ![l] =
                           IF ~There(l) THEN @ ELSE IF page[p].enabled THEN "page" ELSE "nobody"]
  /\ page' = [page EXCEPT ![p] = ClosedPage]
  /\ UNCHANGED <<now, condemned, redated, promised>>

\* POST /lines/:id/ban and unban.
BanLine(l) ==
  /\ There(l) /\ \E admin \in BOOLEAN : lineRow' = [lineRow EXCEPT ![l].admin = admin]
  /\ UNCHANGED <<now, condemned, page, redated, disabledBy, promised>>

DeleteLine(l) ==
  /\ There(l) /\ lineRow' = [lineRow EXCEPT ![l] = [Unused EXCEPT !.state = "gone"]]
  /\ promised' = promised \ {l} /\ disabledBy' = [disabledBy EXCEPT ![l] = "nobody"]
  /\ UNCHANGED <<now, condemned, page, redated>>

\* POST /lines/expired/delete: one statement.
DeleteExpiredLines ==
  LET gone == {l \in Lines : There(l) /\ Past(lineRow[l].exp, now)}
  IN  /\ gone # {}
      /\ lineRow' = [l \in Lines |-> IF l \in gone THEN [Unused EXCEPT !.state = "gone"] ELSE lineRow[l]]
      /\ promised' = promised \ gone
      /\ disabledBy' = [l \in Lines |-> IF l \in gone THEN "nobody" ELSE disabledBy[l]]
      /\ UNCHANGED <<now, condemned, page, redated>>

----------------------------------------------------------------------------
LlInit ==
  /\ now = 0 /\ lineRow = [l \in Lines |-> Unused]
  /\ condemned = [w \in Sweeps |-> {}] /\ page = [p \in Pages |-> ClosedPage]
  /\ redated = {} /\ disabledBy = [l \in Lines |-> "nobody"] /\ promised = {}

LlNext ==
  \/ Tick \/ DeleteExpiredLines
  \/ \E w \in Sweeps : SweepReads(w) \/ SweepFails(w) \/ \E l \in Lines : SweepDisables(w, l)
  \/ \E l \in Lines : CreateLine(l) \/ BanLine(l) \/ DeleteLine(l)
  \/ \E p \in Pages : SaveExtension(p) \/ SaveForm(p) \/ ToggleDisable(p)
  \/ \E p \in Pages, l \in Lines : OpenPage(p, l)

LlSpec == LlInit /\ [][LlNext]_llVars

----------------------------------------------------------------------------
\* Whom a sweep has listed, and whom one keeps from playing, is overdue, whatever
\* is edited, banned, deleted, toggled and swept again meanwhile (crons.js:135-145):
\* only a change of the expiry after the list was read makes it otherwise.
SweptAreDue ==
  \A l \in Lines \ redated :
    There(l) /\ (disabledBy[l] = "sweep" \/ \E w \in Sweeps : l \in condemned[w])
      => Past(lineRow[l].exp, now)

\* Disagreement: What crons.js:146 logs ("disabled ... expired line(s)"): a line that a
\* sweep disables is expired then.  Its list may be older than a renewal.
SweepDisablesExpired ==
  [][\A w \in Sweeps, l \in Lines : SweepDisables(w, l) /\ There(l) => Due(l)]_llVars

\* Refuted.  What lines.js:417 reports ("User extended"): a line that is not banned, that no
\* administrator disabled and whose new date is still to come, plays.
ExtendedLinePlays ==
  \A l \in promised :
    lineRow[l].admin /\ disabledBy[l] # "page" /\ ~Past(lineRow[l].exp, now) => Answer(l) = "OK"
=============================================================================
