-------------------------------- MODULE Imports --------------------------------
(* Import jobs (importService.js): what a provider lists is compared with a   *)
(* snapshot of one table, missing rows and categories are inserted one await  *)
(* at a time, and at the end every id is merged into the provider's bouquet.  *)
EXTENDS Naturals, FiniteSets

CONSTANTS
  ImportJobs,  \* numbered as they start (jobSeq)
  Groups,      \* category names of the provider
  Entries,     \* what the provider lists, numbered as the workers reach it
  UrlOf,       \* the URL of each entry; entries may share one
  Workers      \* how many series of a chunk are fetched at once

ASSUME ImportAssumption ==
  /\ Workers \in Nat \ {0}
  /\ ImportJobs \subseteq Nat /\ Entries \subseteq Nat \ {0}

EntryUrls == {UrlOf[e] : e \in Entries}
Hands == 1..Workers

VARIABLES
  kind,       \* the table these jobs fill
  imp,        \* the progress of each job
  hand,       \* per job and worker: the entries it is inserting, one or none
  stored,     \* rows per URL
  groups,     \* rows of stream_categories per name
  bouquet,    \* the ids in the bouquet
  asked,      \* a find-or-create request that found no such category
  tidy,       \* no two jobs have overlapped, nor has anybody created by hand
  quiet       \* no two writers of the bouquet have overlapped

imVars == <<kind, imp, hand, stored, groups, bouquet, asked, tidy, quiet>>

JobPlaces == {"none", "reading", "categories", "fetching", "items",
              "merging", "listing", "writing", "over"}
ImportType == [at : JobPlaces, status : {"none", "running", "done", "cancelled", "error"},
               full : BOOLEAN, cancelled : BOOLEAN,
               known : SUBSET Groups, todo : SUBSET Groups,
               existing : SUBSET EntryUrls, items : SUBSET Entries,
               workers : SUBSET Hands, mine : SUBSET EntryUrls, saw : SUBSET EntryUrls]
NoImport == [at |-> "none", status |-> "none", full |-> FALSE, cancelled |-> FALSE,
             known |-> {}, todo |-> {}, existing |-> {}, items |-> {},
             workers |-> {}, mine |-> {}, saw |-> {}]

ImTypeOK ==
  /\ kind \in {"movies", "series", "channels"}
  /\ imp \in [ImportJobs -> ImportType]
  /\ hand \in [ImportJobs -> [Hands -> SUBSET Entries]]
  /\ stored \in [EntryUrls -> Nat] /\ groups \in [Groups -> Nat]
  /\ bouquet \subseteq EntryUrls /\ asked \subseteq Groups
  /\ tidy \in BOOLEAN /\ quiet \in BOOLEAN

HandsOf == IF kind = "series" THEN Hands ELSE {1}
Stored == {u \in EntryUrls : stored[u] > 0}

\* A worker may still be inserting although the job is over.
Under(j) ==
  \/ imp[j].at \notin {"none", "over"}
  \/ \E w \in Hands : hand[j][w] # {}
  \/ imp[j].workers # {} /\ imp[j].items # {} /\ ~imp[j].cancelled
Ended(j, status) == [NoImport EXCEPT !.at = "over", !.status = status, !.mine = imp[j].mine]
Finished(j) == Ended(j, IF imp[j].cancelled THEN "cancelled" ELSE "done")
tables == <<stored, groups, bouquet, asked>>

----------------------------------------------------------------------------
(* A job *)

\* start*Import: a job is never refused because another one runs.
StartImport(j) ==
  /\ imp[j].at = "none" /\ \A k \in ImportJobs : k < j => imp[k].at # "none"
  /\ \E full \in BOOLEAN :
       /\ full => kind = "movies"
       /\ imp' = [imp EXCEPT ![j] = [NoImport EXCEPT !.at = "reading", !.status = "running",
                                                     !.full = full]]
  /\ tidy' = (tidy /\ \A k \in ImportJobs : ~Under(k))
  /\ UNCHANGED <<kind, hand, quiet>> /\ UNCHANGED tables

\* Which categories there are and, for channels, which URLs.
ReadCategories(j) ==
  /\ imp[j].at = "reading"
  /\ \E chosen \in IF imp[j].full THEN {Groups} ELSE SUBSET Groups :
       imp' = [imp EXCEPT ![j].at = "categories", ![j].todo = chosen,
                          ![j].existing = IF kind = "channels" THEN Stored ELSE {},
                          ![j].known = {g \in Groups : groups[g] > 0}]
  /\ UNCHANGED <<kind, hand, tidy, quiet>> /\ UNCHANGED tables

Listed(j, g) == g \in imp[j].known

\* A category is inserted unless the snapshot has it; an adult one is skipped. A
\* full import goes through all of them first, cancelled or not.
NextCategory(j) ==
  /\ imp[j].at = "categories" /\ (imp[j].full \/ ~imp[j].cancelled)
  /\ \E g \in imp[j].todo :
       \/ /\ groups' = [groups EXCEPT ![g] = IF Listed(j, g) THEN @ ELSE @ + 1]
          /\ imp' = [imp EXCEPT ![j].todo = @ \ {g}, ![j].known = @ \cup {g},
                                ![j].at = IF imp[j].full THEN "categories" ELSE "fetching"]
       \/ imp' = [imp EXCEPT ![j].todo = @ \ {g}] /\ UNCHANGED groups
  /\ UNCHANGED <<kind, hand, stored, bouquet, asked, tidy, quiet>>

CategoriesDone(j) ==
  /\ imp[j].at = "categories" /\ (imp[j].todo = {} \/ (imp[j].cancelled /\ ~imp[j].full))
  /\ imp' = [imp EXCEPT ![j].todo = {}, ![j].known = {},
                        ![j].at = IF imp[j].full THEN "fetching" ELSE "merging",
                        ![j].existing = {}]
  /\ UNCHANGED <<kind, hand, tidy, quiet>> /\ UNCHANGED tables

\* The provider answers with some entries or with nothing, which ends a full
\* import; then the URLs stored by now are read, except for channels.
Fetch(j) ==
  /\ imp[j].at = "fetching"
  /\ \/ \E last \in Entries \cup {0} :
          imp' = [imp EXCEPT ![j].at = "items", ![j].workers = HandsOf,
                             ![j].items = {e \in Entries : e <= last},
                             ![j].existing = IF kind = "channels" THEN @ ELSE Stored]
     \/ imp' = [imp EXCEPT ![j] = IF imp[j].full THEN Finished(j) ELSE [@ EXCEPT !.at = "categories"]]
  /\ UNCHANGED <<kind, hand, tidy, quiet>> /\ UNCHANGED tables

\* The workers of a series import go on when the job has failed beside them; they
\* are alike, so it is the first idle one that takes the next entry.
Take(j, w) ==
  /\ w \in imp[j].workers /\ hand[j][w] = {} /\ ~imp[j].cancelled
  /\ \A v \in imp[j].workers : v < w => hand[j][v] # {}
  /\ \E e \in imp[j].items :
       /\ \A d \in imp[j].items : e <= d
       /\ imp' = [imp EXCEPT ![j].items = @ \ {e}]
       /\ hand' = [hand EXCEPT ![j][w] = IF UrlOf[e] \in imp[j].existing THEN {} ELSE {e}]
  /\ UNCHANGED <<kind, tidy, quiet>> /\ UNCHANGED tables

\* Faulty variant: the URL is not added to the set that is looked up.
NotRemembered(set, u) == set
Remembered(set, u) == set \cup {u}

Insert(j, w) ==
  \E e \in hand[j][w] :
    /\ stored' = [stored EXCEPT ![UrlOf[e]] = @ + 1]
    /\ imp' = [imp EXCEPT ![j].existing = Remembered(@, UrlOf[e]), ![j].mine = @ \cup {UrlOf[e]}]
    /\ hand' = [hand EXCEPT ![j][w] = {}]
    /\ UNCHANGED <<kind, groups, bouquet, asked, tidy, quiet>>

ItemsDone(j) ==
  /\ imp[j].at = "items" /\ (imp[j].items = {} \/ imp[j].cancelled)
  /\ \A w \in Hands : hand[j][w] = {}
  /\ imp' = [imp EXCEPT ![j].at = IF imp[j].full THEN "merging" ELSE "categories",
                        ![j].items = {}, ![j].workers = {},
                        ![j].existing = IF kind = "channels" THEN @ ELSE {}]
  /\ UNCHANGED <<kind, hand, tidy, quiet>> /\ UNCHANGED tables

\* An exception of a query or of the provider ends the job.
ImportFails(j) ==
  /\ imp[j].at \notin {"none", "items", "over"}
  /\ imp' = [imp EXCEPT ![j] = Ended(j, "error")]
  /\ UNCHANGED <<kind, hand, tidy, quiet>> /\ UNCHANGED tables

\* An exception in one worker ends the job, not the workers beside it.
WorkerFails(j, w) ==
  /\ w \in imp[j].workers
  /\ imp[j].at = "items" \/ hand[j][w] # {}
  /\ LET left == imp[j].workers \ {w}
     IN  imp' = [imp EXCEPT ![j] =
                   [Ended(j, "error") EXCEPT !.workers = left, !.cancelled = imp[j].cancelled,
                      !.items = IF left = {} THEN {} ELSE imp[j].items,
                      !.existing = IF left = {} THEN {} ELSE imp[j].existing]]
  /\ hand' = [hand EXCEPT ![j][w] = {}]
  /\ UNCHANGED <<kind, tidy, quiet>> /\ UNCHANGED tables

CancelJob(j) ==
  /\ Under(j) /\ ~imp[j].cancelled
  /\ imp' = [imp EXCEPT ![j].cancelled = TRUE]
  /\ UNCHANGED <<kind, hand, tidy, quiet>> /\ UNCHANGED tables

----------------------------------------------------------------------------
(* mergeAllIdsIntoBouquet, for a cancelled job as well *)

MergeRead(j) ==
  /\ imp[j].at = "merging"
  /\ imp' = [imp EXCEPT ![j].at = "listing", ![j].saw = bouquet]
  /\ UNCHANGED <<kind, hand, tidy, quiet>> /\ UNCHANGED tables

MergeList(j) ==
  /\ imp[j].at = "listing"
  /\ imp' = [imp EXCEPT ![j].at = "writing", ![j].saw = @ \cup Stored]
  /\ UNCHANGED <<kind, hand, tidy, quiet>> /\ UNCHANGED tables

\* Faulty variant: the ids found replace what the bouquet had, minus the new ones.
MergedOldOnly(j) == imp[j].saw \ imp[j].mine
\* parseInt turns an id that begins with a digit into a number: any channel may
\* be written as something that is not its id.
Merged(j) == imp[j].saw
Parsed(ids) == IF kind = "channels" THEN SUBSET ids ELSE {ids}

Merging(k) == imp[k].at \in {"listing", "writing"}
MergeWrite(j) ==
  /\ imp[j].at = "writing"
  /\ bouquet' \in Parsed(Merged(j))
  /\ imp' = [imp EXCEPT ![j] = Finished(j)]
  /\ quiet' = (quiet /\ \A k \in ImportJobs \ {j} : ~Merging(k))
  /\ UNCHANGED <<kind, hand, stored, groups, asked, tidy>>

----------------------------------------------------------------------------
(* Administrators *)

\* findOrCreateCategory looks first and inserts later.
FindCategory(g) ==
  /\ asked = {} /\ groups[g] = 0
  /\ asked' = {g}
  /\ UNCHANGED <<kind, imp, hand, stored, groups, bouquet, tidy, quiet>>

CreateFound(g) ==
  /\ g \in asked /\ asked' = {}
  /\ groups' = [groups EXCEPT ![g] = @ + 1]
  /\ tidy' = (tidy /\ groups[g] = 0 /\ \A j \in ImportJobs : ~Under(j))
  /\ UNCHANGED <<kind, imp, hand, stored, bouquet, quiet>>

\* Nothing refers to a category by key: its rows keep the id.
DeleteCategory(g) ==
  /\ groups[g] > 0
  /\ groups' = [groups EXCEPT ![g] = @ - 1]
  /\ UNCHANGED <<kind, imp, hand, stored, bouquet, asked, tidy, quiet>>

\* purge-all, or the deletion of one row. The ids that bouquets keep refer to
\* nothing: a row inserted later has another.
Purge ==
  \E gone \in {Stored} \cup {{u} : u \in Stored} :
    /\ gone # {}
    /\ stored' = [u \in EntryUrls |-> IF u \in gone THEN 0 ELSE stored[u]]
    /\ bouquet' = bouquet \ gone
    /\ imp' = [j \in ImportJobs |-> [imp[j] EXCEPT !.mine = @ \ gone, !.saw = @ \ gone]]
    /\ UNCHANGED <<kind, hand, groups, asked, tidy, quiet>>

\* PUT /bouquets/:id with the list as the page last knew it.
UpdateBouquet ==
  /\ \E ids \in SUBSET EntryUrls : bouquet' = ids
  /\ quiet' = FALSE
  /\ UNCHANGED <<kind, imp, hand, stored, groups, asked, tidy>>

----------------------------------------------------------------------------
ImInit ==
  /\ kind \in {"movies", "series", "channels"}
  /\ imp = [j \in ImportJobs |-> NoImport]
  /\ hand = [j \in ImportJobs |-> [w \in Hands |-> {}]]
  /\ stored = [u \in EntryUrls |-> 0] /\ groups = [g \in Groups |-> 0]
  /\ bouquet = {} /\ asked = {}
  /\ tidy = TRUE /\ quiet = TRUE

ImNext ==
  \/ \E j \in ImportJobs :
       \/ StartImport(j) \/ ReadCategories(j) \/ NextCategory(j) \/ CategoriesDone(j)
       \/ Fetch(j) \/ ItemsDone(j) \/ ImportFails(j) \/ CancelJob(j)
       \/ MergeRead(j) \/ MergeList(j) \/ MergeWrite(j)
       \/ \E w \in Hands : Take(j, w) \/ Insert(j, w) \/ WorkerFails(j, w)
  \/ \E g \in Groups : FindCategory(g) \/ CreateFound(g) \/ DeleteCategory(g)
  \/ Purge \/ UpdateBouquet

ImSpec == ImInit /\ [][ImNext]_imVars

----------------------------------------------------------------------------
\* Jobs that follow one another store a movie or a channel once, an episode no
\* more often than a series import has workers and a category once, however
\* entries repeat and jobs fail or are cancelled (existing, existingEp,
\* existingUrls, dbCatMap): nothing in the tables would refuse a second row.
NoNeedlessCopies ==
  tidy => /\ \A u \in EntryUrls : stored[u] <= Cardinality(HandsOf)
          /\ \A g \in Groups : groups[g] <= 1

\* What a job that is done has stored is in its bouquet, unless another writer of
\* the bouquet overlapped (importService.js:99). Channel ids may be cut short, and
\* the bouquet of a series import lists series, not episodes.
ImportsReachBouquet ==
  quiet /\ kind = "movies" =>
    \A j \in ImportJobs : imp[j].status = "done" => imp[j].mine \cap Stored \subseteq bouquet
=============================================================================
