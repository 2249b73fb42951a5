-------------------------------- MODULE Catalog --------------------------------
(* Titles and the bouquets that offer them. A bouquet is a row with one list  *)
(* of ids, so every change of membership rewrites whole lists: saving a title *)
(* compares its wish with a snapshot of all bouquets and then updates them    *)
(* one await at a time (bouquetService.syncEntityBouquets), and adding ids to *)
(* one bouquet writes back a list that was read before.                       *)
EXTENDS Naturals

CONSTANTS
  Titles,      \* movies or series, by AUTO_INCREMENT id
  Bouquets,    \* rows of bouquets, by id
  Saves        \* requests under way that change membership

ASSUME CatalogAssumption == Titles \subseteq Nat \ {0}

VARIABLES
  titles,      \* the rows there are
  ever,        \* ids that have been used: AUTO_INCREMENT gives none twice
  offered,     \* per bouquet: none, or the ids in its list
  save,        \* the progress of each request
  intent       \* per title: none, or the bouquets it was last put into

catVars == <<titles, ever, offered, save, intent>>

Lists == {{}} \cup {{ids} : ids \in SUBSET Titles}
SaveType == [at : {"none", "listing", "syncing", "read"},
             title : SUBSET Titles, wanted : SUBSET Bouquets, todo : SUBSET Bouquets,
             saw : [Bouquets -> Lists], ids : SUBSET Titles, overtaken : BOOLEAN]
NoSave == [at |-> "none", title |-> {}, wanted |-> {}, todo |-> {},
           saw |-> [b \in Bouquets |-> {}], ids |-> {}, overtaken |-> FALSE]

CatTypeOK ==
  /\ titles \subseteq ever /\ ever \subseteq Titles
  /\ offered \in [Bouquets -> Lists]
  /\ save \in [Saves -> SaveType]
  /\ intent \in [Titles -> {{}} \cup {{bs} : bs \in SUBSET Bouquets}]

OnOffer(b) == offered[b] # {}
Offers(b, t) == \E ids \in offered[b] : t \in ids
Found(saw, b, t) == \E ids \in saw[b] : t \in ids
Syncing(s, ts) == save[s].at = "syncing" /\ save[s].title = ts
\* A write makes the snapshot of every other request that has one out of date.
Overtaking(s) ==
  [r \in Saves |-> IF r # s /\ save[r].at \in {"syncing", "read"}
                   THEN [save[r] EXCEPT !.overtaken = TRUE] ELSE save[r]]
\* What a write from an outdated snapshot leaves is nobody's intent.
After(s, written) == IF save[s].overtaken THEN [t \in Titles |-> {}] ELSE written

----------------------------------------------------------------------------
(* Saving a title *)

\* POST /movies, /series and the rows of /bulk: the row first, its bouquets then.
CreateTitle(s, t) ==
  /\ save[s].at = "none" /\ t \notin ever /\ \A u \in Titles : u < t => u \in ever
  /\ ever' = ever \cup {t} /\ titles' = titles \cup {t}
  /\ \E wanted \in SUBSET Bouquets :
       save' = [save EXCEPT ![s] = [NoSave EXCEPT !.at = "listing", !.title = {t}, !.wanted = wanted]]
  /\ UNCHANGED <<offered, intent>>

\* PUT: the row is looked up and updated; without bouquet_ids in the body nothing
\* more happens.
UpdateTitle(s, t) ==
  /\ save[s].at = "none" /\ t \in titles
  /\ \E wanted \in SUBSET Bouquets :
       save' = [save EXCEPT ![s] = [NoSave EXCEPT !.at = "listing", !.title = {t}, !.wanted = wanted]]
  /\ UNCHANGED <<titles, ever, offered, intent>>

ListBouquets(s) ==
  /\ save[s].at = "listing"
  /\ save' = [save EXCEPT ![s].at = "syncing", ![s].saw = offered,
                          ![s].todo = {b \in Bouquets : OnOffer(b)}]
  /\ intent' = [t \in Titles |-> IF t \in save[s].title THEN {} ELSE intent[t]]
  /\ UNCHANGED <<titles, ever, offered>>

\* Faulty variant: a title is only ever added.
SyncedAddOnly(ids, t, should) == IF should THEN ids \cup {t} ELSE ids
Synced(ids, t, should) == IF should THEN ids \cup {t} ELSE ids \ {t}

\* One bouquet: its list as the snapshot had it, with or without the title. A
\* bouquet deleted since is not updated.
SyncBouquet(s, b) ==
  /\ save[s].at = "syncing" /\ b \in save[s].todo
  /\ \E t \in save[s].title, ids \in save[s].saw[b] :
       LET should == b \in save[s].wanted
           same   == (t \in ids) = should
       IN  IF same
           THEN save' = [save EXCEPT ![s].todo = @ \ {b}] /\ UNCHANGED <<offered, intent>>
           ELSE /\ offered' = [offered EXCEPT ![b] = IF OnOffer(b) THEN {Synced(ids, t, should)} ELSE {}]
                /\ save' = [Overtaking(s) EXCEPT ![s].todo = @ \ {b}]
                /\ intent' = After(s, intent)
  /\ UNCHANGED <<titles, ever>>

\* The request is answered: the title is where it was wanted, if those bouquets
\* exist and no other request has written since the snapshot or saves it too.
SyncDone(s) ==
  /\ save[s].at = "syncing" /\ save[s].todo = {}
  /\ save' = [save EXCEPT ![s] = NoSave]
  /\ intent' = IF save[s].overtaken \/ \E r \in Saves \ {s} : Syncing(r, save[s].title) THEN intent
               ELSE [t \in Titles |-> IF t \in save[s].title
                       THEN {{b \in save[s].wanted : save[s].saw[b] # {}}} ELSE intent[t]]
  /\ UNCHANGED <<titles, ever, offered>>

\* A query fails half-way: the bouquets updated so far stay updated.
SaveFails(s) ==
  /\ save[s].at \in {"listing", "syncing", "read"}
  /\ save' = [save EXCEPT ![s] = NoSave]
  /\ UNCHANGED <<titles, ever, offered, intent>>

\* DELETE /movies/:id, /series/:id: bouquets keep the id.
DeleteTitle(t) ==
  /\ t \in titles
  /\ titles' = titles \ {t}
  /\ UNCHANGED <<ever, offered, save, intent>>

\* purge-all.
PurgeTitles ==
  /\ titles # {} /\ titles' = {}
  /\ UNCHANGED <<ever, offered, save, intent>>

----------------------------------------------------------------------------
(* Bouquets *)

\* POST /bouquets/:id/sync: the list is read, then written with the new ids.
ReadBouquet(s, b) ==
  /\ save[s].at = "none" /\ OnOffer(b)
  /\ \E ids \in SUBSET ever :
       save' = [save EXCEPT ![s] = [NoSave EXCEPT !.at = "read", !.todo = {b}, !.saw = offered, !.ids = ids]]
  /\ UNCHANGED <<titles, ever, offered, intent>>

AddToBouquet(s) ==
  /\ save[s].at = "read"
  /\ \E b \in save[s].todo : \E ids \in save[s].saw[b] :
       LET added == (ids \cup save[s].ids) \ ids
       IN  /\ offered' = [offered EXCEPT ![b] = IF OnOffer(b) THEN {ids \cup save[s].ids} ELSE {}]
           /\ intent' = After(s, [t \in Titles |-> IF t \in added /\ OnOffer(b)
                                     THEN {bs \cup {b} : bs \in intent[t]} ELSE intent[t]])
  /\ save' = [Overtaking(s) EXCEPT ![s] = NoSave]
  /\ UNCHANGED <<titles, ever>>

CreateBouquet(b) ==
  /\ ~OnOffer(b)
  /\ \A s \in Saves : save[s].saw[b] = {}
  /\ \A s \in Saves : b \notin save[s].wanted
  /\ \A t \in Titles : \A bs \in intent[t] : b \notin bs
  /\ \E ids \in SUBSET titles :
       /\ offered' = [offered EXCEPT ![b] = {ids}]
       /\ intent' = [t \in Titles |-> IF t \in ids THEN {bs \cup {b} : bs \in intent[t]} ELSE intent[t]]
  /\ save' = [r \in Saves |-> IF save[r].at = "syncing" THEN [save[r] EXCEPT !.overtaken = TRUE] ELSE save[r]]
  /\ UNCHANGED <<titles, ever>>

\* PUT /bouquets/:id with a list replaces the list, whatever the page had seen.
EditBouquet(b) ==
  /\ OnOffer(b)
  /\ \E ids \in SUBSET ever :
       /\ offered' = [offered EXCEPT ![b] = {ids}]
       /\ intent' = [t \in Titles |-> {IF t \in ids THEN bs \cup {b} ELSE bs \ {b} : bs \in intent[t]}]
  /\ save' = [r \in Saves |-> IF save[r].at \in {"syncing", "read"}
                              THEN [save[r] EXCEPT !.overtaken = TRUE] ELSE save[r]]
  /\ UNCHANGED <<titles, ever>>

DeleteBouquet(b) ==
  /\ OnOffer(b)
  /\ offered' = [offered EXCEPT ![b] = {}]
  /\ intent' = [t \in Titles |-> {bs \ {b} : bs \in intent[t]}]
  /\ save' = [r \in Saves |-> IF save[r].at \in {"syncing", "read"}
                              THEN [save[r] EXCEPT !.overtaken = TRUE] ELSE save[r]]
  /\ UNCHANGED <<titles, ever>>

----------------------------------------------------------------------------
CatInit ==
  /\ \E last \in Titles \cup {0} : ever = {t \in Titles : t <= last}
  /\ titles = ever
  /\ offered \in [Bouquets -> {{}, {{}}}]
  /\ save = [s \in Saves |-> NoSave]
  /\ intent = [t \in Titles |-> {}]

CatNext ==
  \/ \E s \in Saves, t \in Titles : CreateTitle(s, t) \/ UpdateTitle(s, t)
  \/ \E s \in Saves : ListBouquets(s) \/ SyncDone(s) \/ SaveFails(s) \/ AddToBouquet(s)
  \/ \E s \in Saves, b \in Bouquets : SyncBouquet(s, b) \/ ReadBouquet(s, b)
  \/ \E b \in Bouquets : CreateBouquet(b) \/ EditBouquet(b) \/ DeleteBouquet(b)
  \/ \E t \in Titles : DeleteTitle(t)
  \/ PurgeTitles

CatSpec == CatInit /\ [][CatNext]_catVars

----------------------------------------------------------------------------
\* While nobody saves that title again it stays in exactly the bouquets it was
\* last put into, through everything other requests do to those lists: only a
\* request that writes from an outdated snapshot can undo it (syncEntityBouquets,
\* POST /bouquets/:id/sync).
MembershipKept ==
  \A t \in Titles : \A bs \in intent[t] : {b \in Bouquets : Offers(b, t)} = bs
=============================================================================
