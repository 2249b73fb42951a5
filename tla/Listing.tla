------------------------------- MODULE Listing ------------------------------
(* What a line is listed and what it may play: get.php (playlistService.js)  *)
(* and player_api.php (xtreamService.js) against the live, movie and series  *)
(* routes, while administrators change channels, titles and bouquets.  A list *)
(* is read from the database in several queries, rows in batches.             *)
EXTENDS Naturals, Sequences, FiniteSets

CONSTANTS
  LiveIds, MovieIds, SeriesIds,   \* channels; rows of movies and series
  BouquetIds, Subscriptions,      \* bouquets; the sets of bouquets lines have
  BatchSize,                      \* rows of a batch, and the most a page has
  MaxEdits                        \* bound: changes while one list is read

ASSUME ListingAssumption ==
  /\ MovieIds \subseteq Nat /\ SeriesIds \subseteq Nat
  /\ IsFiniteSet(MovieIds) /\ IsFiniteSet(SeriesIds)
  /\ Subscriptions \subseteq SUBSET BouquetIds
  /\ BatchSize \in Nat \ {0} /\ MaxEdits \in Nat

VARIABLES
  channel,                        \* id -> class of the channel, or "none"
  movies, series, episodes,       \* rows
  bouquet,                        \* bouquet -> its four lists
  reader                          \* the request that is answered

lsVars == <<channel, movies, series, episodes, bouquet, reader>>

Classes == {"normal", "radio", "movie", "internal"}
EpisodeIds == SeriesIds \X {1}
Fields == {"channels", "movies", "series", "radios"}
IdsOf(f) == IF f = "movies" THEN MovieIds ELSE IF f = "series" THEN SeriesIds ELSE LiveIds
Full == [f \in Fields |-> IdsOf(f)]
Entries == ({"live"} \X LiveIds) \cup ({"movie"} \X MovieIds)
           \cup ({"series"} \X SeriesIds) \cup ({"episode"} \X EpisodeIds)

\* The awaits of each request, in order.
PlaylistKeys == {"all", "live", "radio_streams", "movie", "series"}
PlaylistStages ==
  [all |-> <<"channels", "movies", "series", "radios", "listLive", "listMovies", "listSeries">>,
   live |-> <<"channels", "movies", "series", "radios", "listLive">>,
   radio_streams |-> <<"channels", "movies", "series", "radios", "listLive">>,
   movie |-> <<"channels", "movies", "series", "radios", "listMovies">>,
   series |-> <<"channels", "movies", "series", "radios", "listSeries">>]
ApiKeys ==
  {"get_live_streams", "get_vod_streams", "get_vod_info", "get_series", "get_series_info"}
ApiStages ==
  [get_live_streams |-> <<"channels", "listLive">>,
   get_vod_streams |-> <<"movies", "pageMovies">>,
   get_vod_info |-> <<"movies", "movieInfo">>,
   get_series |-> <<"series", "pageSeries">>,
   get_series_info |-> <<"series", "seriesRow", "seriesEpisodes">>]
Keys == PlaylistKeys \cup ApiKeys
Stages(key) == IF key \in PlaylistKeys THEN PlaylistStages[key] ELSE ApiStages[key]

Idle == [key |-> "none"]
Answered == reader.key # "none" /\ reader.at > Len(Stages(reader.key))
Reading(stage) ==
  /\ reader.key # "none" /\ ~Answered /\ Stages(reader.key)[reader.at] = stage

----------------------------------------------------------------------------
(* What may be played, and what a playlist read in one instant would hold     *)

\* allowedIdSetFromBouquet, bouquetAllows: a line without bouquets has it all.
\* Faulty variant: so has a line whose bouquets list nothing of the kind.
AllowedIdSetEmpty(line, f) ==
  LET ids == UNION {bouquet[b][f] : b \in line} IN IF ids = {} THEN IdsOf(f) ELSE ids
AllowedIdSet(line, f) == IF line = {} THEN IdsOf(f) ELSE UNION {bouquet[b][f] : b \in line}
BouquetAllows(line, f, id) == line = {} \/ \E b \in line : id \in bouquet[b][f]

\* The bouquets of the line allow it; and it is there: /live looks at no class of
\* a channel, /series at no row of series.
FieldOf == [live |-> "channels", movie |-> "movies", series |-> "series", episode |-> "series"]
Subject(x) == IF x[1] = "episode" THEN x[2][1] ELSE x[2]
Entitled(line) == {x \in Entries : BouquetAllows(line, FieldOf[x[1]], Subject(x))}
Existing ==
  {<<"live", c>> : c \in {d \in LiveIds : channel[d] # "none"}}
  \cup ({"movie"} \X movies) \cup ({"series"} \X series) \cup ({"episode"} \X episodes)
Offered(line, key) ==
  {x \in Entitled(line) \cap Existing :
     \/ x[1] = "live" /\ key \in {"all", "live", "get_live_streams"} /\ channel[x[2]] = "normal"
     \/ x[1] = "movie" /\ key \in {"all", "movie"}
     \/ x[1] = "episode" /\ key \in {"all", "series"} /\ x[2][1] \in series}

----------------------------------------------------------------------------
(* Reading                                                                   *)

\* Requests share nothing: one is enough.
NewRequest(key, line) ==
  /\ reader = Idle
  /\ reader' = [key |-> key, line |-> line, at |-> 1, allowed |-> [f \in Fields |-> {}],
                offset |-> 0, todo |-> {}, last |-> FALSE, out |-> {}, twice |-> FALSE,
                could |-> Entitled(line), was |-> Existing, always |-> Offered(line, key),
                edits |-> 0, removed |-> FALSE, added |-> FALSE]
  /\ UNCHANGED <<channel, movies, series, episodes, bouquet>>

Move(r) == [r EXCEPT !.at = @ + 1, !.offset = 0]
Put(r, xs) == [r EXCEPT !.twice = @ \/ xs \cap r.out # {}, !.out = @ \cup xs]
Read(r) == reader' = r /\ UNCHANGED <<channel, movies, series, episodes, bouquet>>
Allowed(f, ids) == ids \cap reader.allowed[f]

\* listMovies, listSeries: ORDER BY id DESC LIMIT limit OFFSET offset
Above(table, id) == Cardinality({other \in table : other > id})
Rows(table, limit, offset) ==
  {id \in table : Above(table, id) >= offset /\ Above(table, id) < offset + limit}

ReadAllowed(f) ==
  /\ Reading(f)
  /\ Read(Move([reader EXCEPT !.allowed[f] = AllowedIdSet(reader.line, f)]))

\* buildLiveSection and liveStreams: one pass over the channels in memory.
Shown(c) ==
  /\ channel[c] \in {"normal", "radio"}
  /\ CASE reader.key = "radio_streams" ->
            IF reader.line = {} THEN channel[c] = "radio" ELSE c \in reader.allowed["radios"]
       [] reader.key \in {"all", "live"} ->
            channel[c] # "radio" /\ c \in reader.allowed["channels"]
       [] OTHER -> c \in reader.allowed["channels"]
ListLive ==
  /\ Reading("listLive")
  /\ Read(Move(Put(reader, {<<"live", c>> : c \in {d \in LiveIds : Shown(d)}})))

\* Faulty variant: a batch with few titles the line may see ends the list.
ListMoviesFiltered ==
  /\ Reading("listMovies")
  /\ LET batch == Allowed("movies", Rows(movies, BatchSize, reader.offset))
         r == Put(reader, {"movie"} \X batch)
     IN Read(IF Cardinality(batch) < BatchSize THEN Move(r) ELSE [r EXCEPT !.offset = @ + BatchSize])
ListMovies ==
  /\ Reading("listMovies")
  /\ LET batch == Rows(movies, BatchSize, reader.offset)
         r == Put(reader, {"movie"} \X Allowed("movies", batch))
     IN Read(IF Cardinality(batch) < BatchSize THEN Move(r) ELSE [r EXCEPT !.offset = @ + BatchSize])

\* A batch of series is kept while the episodes of each are read.
EndOfSeries(r) == IF r.todo = {} /\ r.last THEN Move(r) ELSE r
ListSeries ==
  /\ Reading("listSeries") /\ reader.todo = {}
  /\ LET batch == Rows(series, BatchSize, reader.offset)
     IN Read(EndOfSeries([reader EXCEPT !.offset = @ + BatchSize,
                            !.todo = Allowed("series", batch), !.last = Cardinality(batch) < BatchSize]))
EpisodesOf(s) == {<<"episode", e>> : e \in {f \in episodes : f[1] = s}}
ListEpisodes ==
  /\ Reading("listSeries")
  /\ \E s \in reader.todo :
       /\ \A t \in reader.todo : t <= s
       /\ Read(EndOfSeries(Put([reader EXCEPT !.todo = @ \ {s}], EpisodesOf(s))))

\* vodStreams, seriesList: the offset counts pages of the size asked for, the
\* limit is clamped, and what the line may not see is dropped afterwards.
Page(stage, kind, f, table) ==
  \E page \in {1, 2}, perPage \in {BatchSize, BatchSize + 1} :
    /\ Reading(stage)
    /\ LET limit == IF perPage > BatchSize THEN BatchSize ELSE perPage
       IN Read(Move(Put(reader, {kind} \X Allowed(f, Rows(table, limit, (page - 1) * perPage)))))
PageMovies == Page("pageMovies", "movie", "movies", movies)
PageSeries == Page("pageSeries", "series", "series", series)

VodInfo(m) ==
  /\ Reading("movieInfo")
  /\ Read(Move(Put(reader, IF m \in reader.allowed["movies"] \cap movies
                           THEN {<<"movie", m>>} ELSE {})))
\* findSeries: the row, then its episodes.
SeriesInfo(s) ==
  /\ Reading("seriesRow")
  /\ IF s \in reader.allowed["series"] \cap series
     THEN Read(Move([reader EXCEPT !.todo = {s}]))
     ELSE Read(Move(Move(reader)))
SeriesEpisodes ==
  /\ Reading("seriesEpisodes")
  /\ \E s \in reader.todo : Read(Move(Put([reader EXCEPT !.todo = {}], EpisodesOf(s))))

----------------------------------------------------------------------------
(* Changing                                                                  *)

\* What was allowed and what was there so far, and what was all the time.
Edited(removes, adds) ==
  \E line \in {reader.line}, key \in {reader.key} :
    /\ reader.edits < MaxEdits
    /\ reader' = [reader EXCEPT !.edits = @ + 1, !.could = @ \cup Entitled(line)', !.was = @ \cup Existing',
                    !.always = @ \cap Offered(line, key)',
                    !.removed = @ \/ removes, !.added = @ \/ adds]
Live == reader.key # "none" /\ ~Answered

SaveChannel(c, class) ==
  /\ Live /\ channel' = [channel EXCEPT ![c] = class]
  /\ UNCHANGED <<movies, series, episodes, bouquet>> /\ Edited(FALSE, FALSE)
\* A new row has a higher id than every other.
CreateMovie(m) ==
  /\ Live /\ \A n \in movies : m > n
  /\ movies' = movies \cup {m}
  /\ UNCHANGED <<channel, series, episodes, bouquet>> /\ Edited(FALSE, TRUE)
DeleteMovie(m) ==
  /\ Live /\ m \in movies /\ movies' = movies \ {m}
  /\ UNCHANGED <<channel, series, episodes, bouquet>> /\ Edited(TRUE, FALSE)
CreateSeries(s) ==
  /\ Live /\ \A t \in series : s > t
  /\ series' = series \cup {s}
  /\ UNCHANGED <<channel, movies, episodes, bouquet>> /\ Edited(FALSE, TRUE)
\* Episodes first, then the row.
DeleteSeriesEpisodes(s) ==
  /\ Live /\ s \in series /\ episodes' = {e \in episodes : e[1] # s}
  /\ UNCHANGED <<channel, movies, series, bouquet>> /\ Edited(FALSE, FALSE)
DeleteSeries(s) ==
  /\ Live /\ s \in series /\ series' = series \ {s}
  /\ UNCHANGED <<channel, movies, episodes, bouquet>> /\ Edited(TRUE, FALSE)
CreateEpisode(e) ==
  /\ Live /\ episodes' = episodes \cup {e}
  /\ UNCHANGED <<channel, movies, series, bouquet>> /\ Edited(FALSE, FALSE)
UpdateBouquet(b, f, ids) ==
  /\ Live /\ bouquet' = [bouquet EXCEPT ![b][f] = ids]
  /\ UNCHANGED <<channel, movies, series, episodes>> /\ Edited(FALSE, FALSE)

Administrator ==
  \/ \E c \in LiveIds, class \in Classes \cup {"none"} : SaveChannel(c, class)
  \/ \E m \in MovieIds : CreateMovie(m) \/ DeleteMovie(m)
  \/ \E s \in SeriesIds : CreateSeries(s) \/ DeleteSeriesEpisodes(s) \/ DeleteSeries(s)
  \/ \E e \in EpisodeIds : CreateEpisode(e)
  \/ \E b \in BouquetIds, f \in Fields : \E ids \in SUBSET IdsOf(f) : UpdateBouquet(b, f, ids)

----------------------------------------------------------------------------
Ids == LiveIds \cup MovieIds \cup SeriesIds
ReaderType ==
  [key : Keys, line : Subscriptions, at : Nat \ {0}, allowed : [Fields -> SUBSET Ids],
   offset : Nat, todo : SUBSET SeriesIds, last : BOOLEAN, out : SUBSET Entries, twice : BOOLEAN,
   could : SUBSET Entries, was : SUBSET Entries, always : SUBSET Entries,
   edits : 0..MaxEdits, removed : BOOLEAN, added : BOOLEAN]
LsTypeOK ==
  /\ channel \in [LiveIds -> Classes \cup {"none"}]
  /\ movies \subseteq MovieIds /\ series \subseteq SeriesIds /\ episodes \subseteq EpisodeIds
  /\ bouquet \in [BouquetIds -> [Fields -> SUBSET Ids]]
  /\ reader # Idle => /\ reader \in ReaderType /\ reader.at <= Len(Stages(reader.key)) + 1
                      /\ \A f \in Fields : reader.allowed[f] \subseteq IdsOf(f)
  /\ \A b \in BouquetIds, f \in Fields : bouquet[b][f] \subseteq IdsOf(f)

\* Everything is there and in a bouquet, or there is nothing yet.
LsInit ==
  /\ channel \in {[c \in LiveIds |-> k] : k \in {"normal", "radio", "none"}}
  /\ bouquet \in {[b \in BouquetIds |-> Full], [b \in BouquetIds |-> [f \in Fields |-> {}]]}
  /\ \/ movies = MovieIds /\ series = SeriesIds /\ episodes = EpisodeIds
     \/ movies = {} /\ series = {} /\ episodes = {}
  /\ reader = Idle

Answer ==
  \/ \E f \in Fields : ReadAllowed(f)
  \/ ListLive \/ ListMovies \/ ListSeries \/ ListEpisodes \/ PageMovies \/ PageSeries
  \/ \E m \in MovieIds : VodInfo(m)
  \/ \E s \in SeriesIds : SeriesInfo(s)
  \/ SeriesEpisodes

LsNext ==
  \/ \E key \in Keys, line \in Subscriptions : NewRequest(key, line)
  \/ Answer
  \/ Administrator

LsSpec == LsInit /\ [][LsNext]_lsVars

----------------------------------------------------------------------------
\* No list shows a line what its bouquets did not allow, or what was not there, at
\* any moment since the request arrived: the sets of the lists and the checks of
\* the routes agree, whatever is edited between the queries.  The radio list is
\* the exception: it is made from the radios of the bouquets, and /live looks a
\* radio up among their channels.
ListedPlays ==
  Answered /\ reader.key # "radio_streams" => reader.out \subseteq reader.could \cap reader.was

\* A playlist misses nothing that was there for the line all the time and repeats
\* nothing, although rows are fetched by offset: a title can only be missed while
\* another is deleted, and repeated while another is created.
NothingMissed ==
  Answered =>
    /\ reader.always \subseteq reader.out \/ reader.removed
    /\ reader.twice => reader.added
=============================================================================
