--------------------------- MODULE TitleMetadata ---------------------------
(* Plots of movies and series from TMDb: the sync of every sixth hour         *)
(* (crons.js), the resync an administrator asks for and the import of an M3U  *)
(* text (routes/admin.js), while titles are edited and the key comes and      *)
(* goes.  Of what TMDb says of a title only the plot is kept here: an empty    *)
(* one is what the sync looks for.                                            *)
EXTENDS Naturals, Sequences, FiniteSets, FiniteSetsExt, SequencesExt

CONSTANTS
  MovieRows, SeriesRows,   \* ids of rows of movies and of series
  TmdbIds,               \* what a row may name
  Missing, Plotless,     \* of those: TMDb has no such title; it has no overview
  SyncLimit,             \* rows a sync takes (20 in the code)
  ResyncLimit,           \* rows of each table a resync of all takes (50)
  MaxEntries,            \* bound: entries of an M3U text
  MaxChanges, MaxFailures    \* bounds: changes by administrators; failing requests

VARIABLES
  titles,                \* the rows there are: title -> what it has
  used,                  \* titles there have been: AUTO_INCREMENT gives no id twice
  hasKey,                \* the setting tmdb_api_key is not empty
  job,                   \* the sync and the resync
  import,                \* the import of an M3U text
  edits, failures          \* against the bounds

tmVars == <<titles, used, hasKey, job, import, edits, failures>>

Movies == {"movie"} \X MovieRows
Series == {"series"} \X SeriesRows
Titles == Movies \cup Series
RowType == [tmdb : TmdbIds \cup {0}, plot : {"", "theirs", "ours"}]
Jobs == {"cron", "admin"}
NoJob == [at |-> "none", todo |-> <<>>, plot |-> ""]
NoImport == [at |-> "none", left |-> 0, kind |-> Movies, row |-> [tmdb |-> 0, plot |-> ""]]

Present == DOMAIN titles

\* fetchTmdbMovieMeta, fetchTmdbTvMeta: a title without an overview has plot ''.
MetaPlot(id) == IF id \in Plotless THEN "" ELSE "theirs"

\* UPDATE ... WHERE id: nothing when the row is gone.
UpdateRow(t, fields) ==
  titles' = [u \in Present |-> IF u = t THEN fields @@ titles[u] ELSE titles[u]]

Edit == edits < MaxChanges /\ edits' = edits + 1
RequestFails == failures < MaxFailures /\ failures' = failures + 1

TmTypeOK ==
  /\ Present \subseteq used /\ used \subseteq Titles /\ \A t \in Present : titles[t] \in RowType
  /\ hasKey \in BOOLEAN /\ edits \in 0..MaxChanges /\ failures \in 0..MaxFailures
  /\ \A j \in Jobs : job[j].at \in {"none", "movies", "series", "fetch", "write"}

----------------------------------------------------------------------------
(* The sync, and the resync of one title or of all                           *)

\* RowType with a tmdb_id and without a plot.
NeedsPlot(t) == titles[t].tmdb # 0 /\ titles[t].plot = ""

\* What SELECT ... LIMIT n may answer: it names no order.
Picks(rows, n) == kSubset(IF Cardinality(rows) < n THEN Cardinality(rows) ELSE n, rows)
Tasks(rows) == {[i \in DOMAIN s |-> [title |-> s[i], tmdb |-> titles[s[i]].tmdb]] : s \in SetToSeqs(rows)}

Proceed(j, at, todo, plot) == job' = [job EXCEPT ![j] = [at |-> at, todo |-> todo, plot |-> plot]]
Loop(j, todo) == IF todo = <<>> THEN job' = [job EXCEPT ![j] = NoJob] ELSE Proceed(j, "fetch", todo, "")

\* The cron: without a key it does nothing.
StartSync ==
  /\ job["cron"].at = "none" /\ hasKey
  /\ Proceed("cron", "movies", <<>>, "")
  /\ UNCHANGED <<titles, used, hasKey, import, edits, failures>>

SyncPicksMovies ==
  /\ job["cron"].at = "movies"
  /\ \E rows \in Picks({t \in Present \cap Movies : NeedsPlot(t)}, SyncLimit) :
       \E todo \in Tasks(rows) : Proceed("cron", "series", todo, "")
  /\ UNCHANGED <<titles, used, hasKey, import, edits, failures>>

\* Series get what the movies leave of the limit.
SyncPicksSeries ==
  /\ job["cron"].at = "series"
  /\ LET movies == job["cron"].todo
     IN \E rows \in Picks({t \in Present \cap Series : NeedsPlot(t)}, SyncLimit - Len(movies)) :
          \E todo \in Tasks(rows) : Loop("cron", movies \o todo)
  /\ UNCHANGED <<titles, used, hasKey, import, edits, failures>>

\* POST /tmdb/resync-movie/:id and resync-series/:id: whatever plot it has.
ResyncOne(t) ==
  /\ job["admin"].at = "none" /\ Edit /\ hasKey
  /\ t \in Present /\ titles[t].tmdb # 0
  /\ Loop("admin", <<[title |-> t, tmdb |-> titles[t].tmdb]>>)
  /\ UNCHANGED <<titles, used, hasKey, import, failures>>

\* POST /tmdb/resync-all: every title with a tmdb_id, up to the limit of each table.
ResyncAll ==
  /\ job["admin"].at = "none" /\ Edit /\ hasKey
  /\ \E m \in Picks({t \in Present \cap Movies : titles[t].tmdb # 0}, ResyncLimit),
        s \in Picks({t \in Present \cap Series : titles[t].tmdb # 0}, ResyncLimit) :
       \E ms \in Tasks(m), ss \in Tasks(s) : Loop("admin", ms \o ss)
  /\ UNCHANGED <<titles, used, hasKey, import, failures>>

\* The answer of TMDb to the first task: an error, or what the title's row gets.
\* The key is the one the job began with.
MetaFails(j) ==
  /\ job[j].at = "fetch"
  /\ IF Head(job[j].todo).tmdb \in Missing THEN UNCHANGED failures ELSE RequestFails

MetaArrives(j) ==
  /\ job[j].at = "fetch" /\ Head(job[j].todo).tmdb \notin Missing
  /\ Proceed(j, "write", job[j].todo, MetaPlot(Head(job[j].todo).tmdb))
  /\ UNCHANGED <<titles, used, hasKey, import, edits, failures>>

\* The rest of the tasks. Faulty variant: the first failure ends the job.
AfterFailureEnds(todo) == <<>>
AfterFailure(todo) == Tail(todo)

TaskFails(j) ==
  /\ MetaFails(j) /\ Loop(j, AfterFailure(job[j].todo))
  /\ UNCHANGED <<titles, used, hasKey, import, edits>>

\* updateMovie, updateSeriesRow: over whatever was typed since the title was picked.
WriteMeta(j) ==
  /\ job[j].at = "write"
  /\ UpdateRow(Head(job[j].todo).title, [plot |-> job[j].plot])
  /\ Loop(j, Tail(job[j].todo))
  /\ UNCHANGED <<used, hasKey, import, edits, failures>>

----------------------------------------------------------------------------
(* POST /movies/import and /series/import                                    *)

Importing(at, left, row) ==
  import' = [import EXCEPT !.at = at, !.left = left, !.row = row]
Plain == [tmdb |-> 0, plot |-> ""]

\* With disable_tmdb or without a key every title is stored as its entry names it.
StartImport ==
  /\ import.at = "none" /\ Edit
  /\ \E n \in 1..MaxEntries, kind \in {Movies, Series}, disabled \in BOOLEAN :
       import' = [at |-> IF hasKey /\ ~disabled THEN "search" ELSE "plain",
                  left |-> n, kind |-> kind, row |-> Plain]
  /\ UNCHANGED <<titles, used, hasKey, job, failures>>

\* The search reads the key again; what fails leaves the title as it is named.
SearchFinds ==
  /\ import.at = "search"
  /\ \/ hasKey /\ \E id \in TmdbIds \ Missing : Importing("details", import.left, [tmdb |-> id, plot |-> ""])
     \/ Importing("create", import.left, Plain)
  /\ UNCHANGED <<titles, used, hasKey, job, edits, failures>>

\* getMovie, getTvShow: all of the details, or none.
DetailsArrive ==
  /\ import.at = "details"
  /\ IF hasKey
     THEN /\ UNCHANGED failures
          /\ Importing("create", import.left, [tmdb |-> import.row.tmdb, plot |-> MetaPlot(import.row.tmdb)])
     ELSE UNCHANGED failures /\ Importing("create", import.left, Plain)
  /\ UNCHANGED <<titles, used, hasKey, job, edits>>

DetailsFail ==
  /\ import.at = "details" /\ RequestFails
  /\ Importing("create", import.left, Plain)
  /\ UNCHANGED <<titles, used, hasKey, job, edits>>

\* createSeries stores no tmdb_id, whatever it is given.
Inserted(t, row) == IF t \in Series THEN [row EXCEPT !.tmdb = 0] ELSE row

\* INSERT: nothing looks whether the title is there already. The next entry
\* searches only when the first did.
Create(t, row) ==
  /\ t \notin used /\ used' = used \cup {t}
  /\ titles' = (t :> Inserted(t, row)) @@ titles

ImportCreates(t) ==
  /\ import.at \in {"create", "plain"} /\ t \in import.kind
  /\ Create(t, import.row)
  /\ import' = IF import.left = 1 THEN NoImport
               ELSE [import EXCEPT !.at = IF @ = "create" THEN "search" ELSE @,
                                   !.left = @ - 1, !.row = Plain]
  /\ UNCHANGED <<hasKey, job, edits, failures>>

\* A failing INSERT ends the import; what is stored stays.
ImportFails ==
  /\ import.at \in {"create", "plain"} /\ RequestFails
  /\ import' = NoImport
  /\ UNCHANGED <<titles, used, hasKey, job, edits>>

----------------------------------------------------------------------------
(* What administrators do meanwhile                                          *)

AddTitle(t) ==
  /\ Edit
  /\ \E id \in TmdbIds \cup {0}, plot \in {"", "ours"} : Create(t, [tmdb |-> id, plot |-> plot])
  /\ UNCHANGED <<hasKey, job, import, failures>>

EditTitle(t) ==
  /\ Edit /\ t \in Present
  /\ \E id \in TmdbIds \cup {0}, plot \in {"", "ours"} : UpdateRow(t, [tmdb |-> id, plot |-> plot])
  /\ UNCHANGED <<used, hasKey, job, import, failures>>

RemoveTitle(t) ==
  /\ Edit /\ t \in Present
  /\ titles' = [u \in Present \ {t} |-> titles[u]]
  /\ UNCHANGED <<used, hasKey, job, import, failures>>

SaveKey ==
  /\ Edit /\ hasKey' = ~hasKey
  /\ UNCHANGED <<titles, used, job, import, failures>>

----------------------------------------------------------------------------

\* Titles by other means (imports of providers) are there from the start.
TmInit ==
  /\ \E there \in SUBSET Titles : titles \in [there -> {r \in RowType : r.plot # "theirs"}]
  /\ used = Present /\ hasKey \in BOOLEAN
  /\ job = [j \in Jobs |-> NoJob] /\ import = NoImport
  /\ edits = 0 /\ failures = 0

TmNext ==
  \/ StartSync \/ SyncPicksMovies \/ SyncPicksSeries \/ ResyncAll \/ SaveKey
  \/ \E j \in Jobs : MetaArrives(j) \/ TaskFails(j) \/ WriteMeta(j)
  \/ StartImport \/ SearchFinds \/ DetailsArrive \/ DetailsFail \/ ImportFails
  \/ \E t \in Titles :
       ResyncOne(t) \/ ImportCreates(t) \/ AddTitle(t) \/ EditTitle(t) \/ RemoveTitle(t)

\* The schedule fires for ever; the queries and requests of a sync come to an end.
CronStep ==
  \/ StartSync \/ SyncPicksMovies \/ SyncPicksSeries
  \/ MetaArrives("cron") \/ TaskFails("cron") \/ WriteMeta("cron")
TmFairness == WF_tmVars(CronStep)

TmSpec == TmInit /\ [][TmNext]_tmVars /\ TmFairness

----------------------------------------------------------------------------
\* A title TMDb has a plot for and that waits for one.
Waits(t) == t \in Present /\ NeedsPlot(t) /\ titles[t].tmdb \notin Missing \cup Plotless

\* Titles that will be picked again and again in vain, before t or beside it.
Hopeless(t) ==
  {u \in Present : /\ NeedsPlot(u) /\ titles[u].tmdb \in Missing \cup Plotless
                   /\ t \in Movies => u \in Movies}

\* t waits for nothing, there is no key, or hopeless titles use up the limit.
Served(t) == ~Waits(t) \/ ~hasKey \/ Cardinality(Hopeless(t)) >= SyncLimit

\* The sync gets to every title in the end, whichever rows a query with a LIMIT
\* and no order picks, whatever fails and is edited meanwhile, unless titles
\* nothing will ever come for use up the limit (crons.js runTmdbSync).
EveryTitleIsFilled == \A t \in Titles : []<>Served(t)
=============================================================================
