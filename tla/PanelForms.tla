----------------------------- MODULE PanelForms ------------------------------
(* The edit forms of the web interface (public/js): one form per kind of     *)
(* row, filled by a function that awaits its reference data, its row and  *)
(* the list of servers, and saved by a function that reads whatever the form *)
(* holds when Save is pressed.  Rows opened one after the other load at the  *)
(* same time and finish in any order.                                        *)
(*                                                                           *)
(* The content of a form is abstracted to the row it was read from: NoRow    *)
(* stands for blank inputs, an empty list of tags, the default server or no  *)
(* guide.  The tags of a stream stand for its categories and its transcode   *)
(* profile too: selects that are drawn anew, empty, while the opening waits. *)
EXTENDS Naturals, Bags, BagsExt

CONSTANTS Rows, NoRow, MaxClicks,
          MaxElsewhere   \* bound on deletions, starts and stops made elsewhere

ASSUME FormRows == /\ NoRow \notin Rows
                   /\ MaxClicks \in Nat /\ MaxElsewhere \in Nat

VARIABLES page,       \* the kind of row being edited
          form,       \* the inputs: hidden id, fields, tags, server and guide selected
          opens,      \* the calls of the opening function that still wait
          clicks,     \* edit buttons pressed so far
          elsewhere,  \* deletions, starts and stops so far
          listed,     \* _serversCache holds the list of servers
          late,       \* an answer came after the form had changed hands
          original,   \* _editingStreamOriginal: the stream, and whether it ran
          editing,    \* the id noted for the page of a member, a group, a service
          saving,     \* the save of a stream or a new series under way
          rows        \* the rows in the database, and whether a stream runs

others == <<page, elsewhere, editing>>
pfVars == <<others, form, opens, clicks, listed, late, original, saving, rows>>

Fetched == {"line", "movie", "series", "episode", "stream", "notes",
            "restrictions", "role"}
Noted == {"member", "group", "expiry"}
AtHand == {"category", "bouquet", "provider", "code"}
Pages == Fetched \cup Noted \cup AtHand
           \cup {"package", "drm", "profile", "server", "logo"}
Ids == Rows \cup {NoRow}
Blank == [fields |-> NoRow, tags |-> NoRow, server |-> NoRow, guide |-> NoRow]
NewCall == [at |-> "row", row |-> NoRow, read |-> Blank, ran |-> FALSE]
NoStream == [row |-> NoRow, up |-> FALSE]
NoSave == [at |-> "none", row |-> NoRow, body |-> Blank]
Content(x) ==
  [fields |-> x.fields, tags |-> x.tags, server |-> x.server, guide |-> x.guide]

------------------------------------------------------------------------------
(* The synchronous parts of the opening functions                            *)

\* a fault: the hidden id is only written into an empty form
FillKeepsId(f, r, read) ==
  [f EXCEPT !.id = IF f.id = NoRow THEN r ELSE f.id,
            !.fields = read.fields, !.tags = read.tags]
\* id, text inputs and tags are written in one block
Fill(f, r, read) ==
  [f EXCEPT !.id = r, !.fields = read.fields, !.tags = read.tags]

\* a server that is disabled or newer than the cached list has no option
Selectable(server) == {server, NoRow}

Waiting == BagToSet(opens)
Others(o) == BagRemove(opens, o)

\* populateStreamServerSelect: at once from the cached list, or when it comes
FillAndSelect(calls, r, read) ==
  \/ /\ listed
     /\ \E s \in Selectable(read.server) :
          form' = [Fill(form, r, read) EXCEPT !.server = s]
     /\ opens' = calls
     /\ UNCHANGED late
  \/ /\ ~listed
     /\ form' = Fill(form, r, read)
     /\ opens' = BagAdd(calls, [NewCall EXCEPT !.at = "list", !.row = r, !.read = read])
     /\ late' = TRUE

------------------------------------------------------------------------------
(* Opening                                                                   *)

\* editLine, editMovie, editSeries, editStream and editStandaloneEpisode
\* fetch the row, and so do the notes of a member, the restrictions of a line
\* and the permissions of a role; a package is looked up after its list was
\* loaded, a DRM stream is fetched after the list of profiles; the page of a
\* server asks for the features first
ClickEdit(r) ==
  /\ page \in Fetched \cup {"package", "drm", "server"}
  /\ clicks < MaxClicks /\ rows[r].there
  /\ clicks' = clicks + 1
  /\ opens' = BagAdd(opens, [NewCall EXCEPT !.row = r,
       !.at = IF page \in {"package", "drm"} THEN "refs"
              ELSE IF page = "server" THEN "features" ELSE "row"])
  /\ UNCHANGED <<others, form, listed, late, original, saving, rows>>

\* the Add buttons of movies, series and episodes fill the form at once
ClickNewTitle ==
  /\ page \in {"movie", "series", "episode"}
  /\ clicks < MaxClicks
  /\ clicks' = clicks + 1
  /\ FillAndSelect(opens, NoRow, Blank)
  /\ UNCHANGED <<others, listed, original, saving, rows>>

\* the pages of a new line, stream, package or DRM stream load their lists first
ClickNewPage ==
  /\ page \in {"line", "stream", "package", "drm"}
  /\ clicks < MaxClicks
  /\ clicks' = clicks + 1
  /\ opens' = BagAdd(opens, [NewCall EXCEPT !.at = "refs"])
  /\ UNCHANGED <<others, form, listed, late, original, saving, rows>>

\* editMovie, editSeries: the answer fills the form
MovieArrives(o) ==
  /\ page = "movie" /\ o.at = "row"
  /\ FillAndSelect(Others(o), o.row, Content(rows[o.row]))
  /\ UNCHANGED <<others, clicks, listed, original, saving, rows>>

SeriesArrives(o) ==
  /\ page = "series" /\ o.at = "row"
  /\ FillAndSelect(Others(o), o.row, Content(rows[o.row]))
  /\ UNCHANGED <<others, clicks, listed, original, saving, rows>>

\* editStandaloneEpisode; an episode of the series page is at hand already
EpisodeArrives(o) ==
  /\ page = "episode" /\ o.at = "row"
  /\ FillAndSelect(Others(o), o.row, Content(rows[o.row]))
  /\ UNCHANGED <<others, clicks, listed, original, saving, rows>>

\* selectTmdbMovie, selectTmdbSeries: the details asked for the title on screen
\* are written over the fields of whatever is on screen when they come
AskTmdb ==
  /\ page \in {"movie", "series"}
  /\ clicks < MaxClicks
  /\ clicks' = clicks + 1
  /\ opens' = BagAdd(opens,
       [NewCall EXCEPT !.at = "tmdb", !.row = form.id,
                       !.read = [Blank EXCEPT !.fields = form.id]])
  /\ UNCHANGED <<others, form, listed, late, original, saving, rows>>

TmdbArrives(o) ==
  /\ o.at = "tmdb"
  /\ form' = [form EXCEPT !.fields = o.read.fields]
  /\ late' = (late \/ form.id # o.row)
  /\ opens' = Others(o)
  /\ UNCHANGED <<others, clicks, listed, original, saving, rows>>

\* openLineForm and openStreamForm navigate to the page of the form, whose
\* loader opens the form once more, blank; both calls load the lists
PageArrives(o) ==
  /\ page \in {"line", "stream"} /\ o.at = "row"
  /\ opens' = BagAdd(BagAdd(Others(o), [NewCall EXCEPT !.at = "refs"]),
       [at |-> "refs", row |-> o.row,
        read |-> Content(rows[o.row]), ran |-> rows[o.row].running])
  /\ UNCHANGED <<others, form, clicks, listed, late, original, saving, rows>>

\* the request for the row failed: a message and nothing else
RowFails(o) ==
  /\ o.at \in {"row", "tmdb"}
  /\ opens' = Others(o)
  /\ UNCHANGED <<others, form, clicks, listed, late, original, saving, rows>>

\* loadRefData is done, for better or worse: the line form is filled
LineRefsArrive(o) ==
  /\ page = "line" /\ o.at = "refs"
  /\ FillAndSelect(Others(o), o.row, o.read)
  /\ UNCHANGED <<others, clicks, listed, original, saving, rows>>

\* openPackageModal writes the id before it looks the package up; one that is
\* gone from the new list leaves the other inputs as they are
PackageRefsArrive(o) ==
  /\ page = "package" /\ o.at = "refs"
  /\ form' = IF o.row = NoRow THEN Fill(form, NoRow, Blank)
             ELSE IF rows[o.row].there
                  THEN Fill(form, o.row, Content(rows[o.row]))
                  ELSE [form EXCEPT !.id = o.row]
  /\ opens' = Others(o)
  /\ UNCHANGED <<others, clicks, listed, late, original, saving, rows>>

\* openStreamForm waits six times.  A list of servers that is at hand saves three
\* of the waits: the first, and the two between the guide and the other inputs.
Await(o, stage) == opens' = BagAdd(Others(o), [o EXCEPT !.at = stage])

\* tags and _editingStreamOriginal change hands here, while the form still shows
\* the stream opened before
TakeOver(o) ==
  /\ form' = [form EXCEPT !.tags = NoRow]
  /\ original' = [row |-> o.row,
                   up |-> o.row # NoRow /\ o.ran]
  /\ Await(o, "profiles")

StreamRefsArrive(o) ==
  /\ page = "stream" /\ o.at = "refs"
  /\ \/ listed /\ TakeOver(o)
     \/ ~listed /\ Await(o, "first") /\ UNCHANGED <<form, original>>
  /\ UNCHANGED <<others, clicks, listed, late, saving, rows>>

\* ensureServersCacheForPlaylist: the list came, or could not be had and is empty
StreamListArrives(o) ==
  /\ o.at = "first"
  /\ listed' \in BOOLEAN
  /\ TakeOver(o)
  /\ UNCHANGED <<others, clicks, late, saving, rows>>

\* the select of transcode profiles is drawn anew
ProfilesArrive(o) ==
  /\ o.at = "profiles"
  /\ form' = [form EXCEPT !.tags = NoRow]
  /\ Await(o, "guides")
  /\ UNCHANGED <<others, clicks, listed, late, original, saving, rows>>

\* a new stream is given neither tags nor a profile: the selects keep theirs
FillStream(f, o) ==
  Fill(f, o.row, [o.read EXCEPT !.tags = IF o.row = NoRow THEN f.tags ELSE @])

\* loadStreamEditorEpgSources: the guide of the stream, or no option for it.  With
\* the list of servers at hand the other inputs follow at once.  Without, they wait
\* for two requests, while the form shows this guide beside the stream before.
GuidesArrive(o) ==
  /\ o.at = "guides"
  /\ \E g \in {o.read.guide, NoRow} :
       \/ /\ listed
          /\ \E s \in Selectable(o.read.server) :
               form' = [FillStream(form, o) EXCEPT !.guide = g, !.server = s]
          /\ opens' = Others(o)
          /\ UNCHANGED late
       \/ /\ ~listed
          /\ form' = [form EXCEPT !.guide = g]
          /\ Await(o, "servers")
          /\ late' = TRUE
  /\ UNCHANGED <<others, clicks, listed, original, saving, rows>>

\* populateStreamServerSelect asks for the list again; with it the rest is filled
ServersArrive(o) ==
  /\ o.at = "servers"
  /\ listed' \in BOOLEAN
  /\ \/ /\ listed'
        /\ \E s \in Selectable(o.read.server) :
             form' = [FillStream(form, o) EXCEPT !.server = s]
        /\ opens' = Others(o)
     \/ /\ ~listed'
        /\ form' = [form EXCEPT !.server = NoRow]
        /\ Await(o, "timeshift")
  /\ UNCHANGED <<others, clicks, late, original, saving, rows>>

\* populateStreamTimeshiftServerSelect asks once more
TimeshiftArrives(o) ==
  /\ o.at = "timeshift"
  /\ listed' \in BOOLEAN
  /\ form' = FillStream(form, o)
  /\ opens' = Others(o)
  /\ UNCHANGED <<others, clicks, late, original, saving, rows>>

\* the list of servers came after the form was filled, or could not be had
ListArrives(o) ==
  /\ o.at = "list"
  /\ listed' \in BOOLEAN
  /\ \E s \in IF listed' THEN Selectable(o.read.server) ELSE {NoRow} :
       form' = [form EXCEPT !.server = s]
  /\ opens' = Others(o)
  /\ UNCHANGED <<others, clicks, late, original, saving, rows>>

\* openServerModal writes the id and resets the role before it asks for the row
ServerNamed(o) ==
  /\ o.at = "features"
  /\ form' = [form EXCEPT !.id = o.row, !.tags = NoRow]
  /\ opens' = BagAdd(Others(o), [o EXCEPT !.at = "details"])
  /\ UNCHANGED <<others, clicks, listed, late, original, saving, rows>>

\* the row of the server arrives and fills the inputs, whatever the id now is,
\* or it does not and the inputs stay
ServerArrives(o) ==
  /\ o.at = "details"
  /\ LET read == rows[o.row] IN
     form' \in {form, [form EXCEPT !.fields = read.fields, !.tags = read.tags,
                                   !.server = read.server]}
  /\ opens' = Others(o)
  /\ UNCHANGED <<others, clicks, listed, late, original, saving, rows>>

------------------------------------------------------------------------------
(* Forms that are emptied, then fetch the row                                *)

Empty(f) == Fill(f, NoRow, Blank)

\* openTranscodeProfileModal empties the form at once
OpenProfile(r) ==
  /\ page = "profile"
  /\ clicks < MaxClicks
  /\ clicks' = clicks + 1
  /\ form' = Empty(form)
  /\ opens' = IF r = NoRow THEN opens ELSE BagAdd(opens, [NewCall EXCEPT !.row = r])
  /\ UNCHANGED <<others, listed, late, original, saving, rows>>

\* a row that is gone from the list that came leaves the form as it is
ProfileArrives(o) ==
  /\ page = "profile" /\ o.at = "row"
  /\ form' = IF rows[o.row].there THEN Fill(form, o.row, Content(rows[o.row])) ELSE form
  /\ opens' = Others(o)
  /\ UNCHANGED <<others, clicks, listed, late, original, saving, rows>>

\* openDrmStreamModal when the profiles have come
DrmRefsArrive(o) ==
  /\ page = "drm" /\ o.at = "refs"
  /\ form' = Empty(form)
  /\ opens' = IF o.row = NoRow THEN Others(o)
              ELSE BagAdd(Others(o), [o EXCEPT !.at = "row"])
  /\ UNCHANGED <<others, clicks, listed, late, original, saving, rows>>

\* a profile that is not among those that came, or none came, has no option
DrmArrives(o) ==
  /\ page = "drm" /\ o.at = "row"
  /\ LET read == Content(rows[o.row]) IN
     form' \in IF rows[o.row].there
                 THEN {Fill(form, o.row, [read EXCEPT !.tags = t]) : t \in {read.tags, NoRow}}
                 ELSE {form}
  /\ opens' = Others(o)
  /\ UNCHANGED <<others, clicks, listed, late, original, saving, rows>>

------------------------------------------------------------------------------
(* Pages that read a noted id when they load                                 *)

\* openRegisteredUserForm, openMemberGroupForm, editExpiryMediaService
OpenNoted(r) ==
  /\ page \in Noted
  /\ clicks < MaxClicks /\ (IF r = NoRow THEN page # "expiry" ELSE rows[r].there)
  /\ clicks' = clicks + 1
  /\ editing' = r
  /\ opens' = BagAdd(opens, IF page = "expiry" THEN [NewCall EXCEPT !.row = r]
                            ELSE [NewCall EXCEPT !.at = "refs"])
  /\ UNCHANGED <<page, elsewhere, form, listed, late, original, saving, rows>>

\* loadRefData is done: the id is read only now
NotedIsRead(o) ==
  /\ o.at = "refs"
  /\ IF editing = NoRow
       THEN form' = Empty(form) /\ opens' = Others(o)
       ELSE /\ opens' = BagAdd(Others(o), [o EXCEPT !.at = "row", !.row = editing])
            /\ UNCHANGED form
  /\ UNCHANGED <<others, clicks, listed, late, original, saving, rows>>

\* the row itself, which holds the id
RowFills(o) ==
  /\ o.at = "row"
  /\ form' = Fill(form, o.row, Content(rows[o.row]))
  /\ opens' = Others(o)
  /\ UNCHANGED <<others, clicks, listed, late, original, saving, rows>>

MemberRefsArrive(o) == page = "member" /\ NotedIsRead(o)
MemberArrives(o) == page = "member" /\ RowFills(o)
GroupRefsArrive(o) == page = "group" /\ NotedIsRead(o)
GroupArrives(o) == page = "group" /\ RowFills(o)
ServiceArrives(o) == page = "expiry" /\ RowFills(o)

------------------------------------------------------------------------------
(* Small forms                                                               *)

\* openRegisteredUserNotes, openLineRestrictions
NotesArrive(o) == page = "notes" /\ RowFills(o)
RestrictionsArrive(o) == page = "restrictions" /\ RowFills(o)

\* editRolePerms: the boxes and the button get the role together
PermissionsArrive(o) == page = "role" /\ RowFills(o)

\* loadSecurity, which every change on the page ends with, draws new boxes,
\* empty and of no role; the button keeps its role
SecurityReloads ==
  /\ page = "role" /\ clicks < MaxClicks
  /\ clicks' = clicks + 1
  /\ form' = [form EXCEPT !.tags = NoRow]
  /\ UNCHANGED <<others, opens, listed, late, original, saving, rows>>

\* forms filled at once from the list on screen
OpenAtHand(r) ==
  /\ clicks < MaxClicks /\ (r # NoRow => rows[r].there)
  /\ clicks' = clicks + 1
  /\ form' = Fill(form, r, IF r = NoRow THEN Blank ELSE Content(rows[r]))
  /\ UNCHANGED <<others, opens, listed, late, original, saving, rows>>

OpenCategory(r) == page = "category" /\ OpenAtHand(r)
OpenBouquet(r) == page = "bouquet" /\ OpenAtHand(r)
OpenProvider(r) == page = "provider" /\ OpenAtHand(r)
OpenAccessCode(r) == page = "code" /\ OpenAtHand(r)

\* openChannelLogoModal fills the form at once and looks for logos of that
\* name; searchChannelLogos shows what came, for whichever channel by then
OpenLogo(r) ==
  /\ page = "logo"
  /\ clicks < MaxClicks /\ rows[r].there
  /\ clicks' = clicks + 1
  /\ form' = Fill(form, r, [Content(rows[r]) EXCEPT !.tags = NoRow])
  /\ opens' = BagAdd(opens, [NewCall EXCEPT !.at = "search", !.row = r])
  /\ UNCHANGED <<others, listed, late, original, saving, rows>>

LogosArrive(o) ==
  /\ o.at = "search"
  /\ form' \in {[form EXCEPT !.tags = o.row], [form EXCEPT !.tags = NoRow]}
  /\ late' = (late \/ form.id # o.row)
  /\ opens' = Others(o)
  /\ UNCHANGED <<others, clicks, listed, original, saving, rows>>

\* applyChannelLogoResult: one of the logos shown, or the address typed in;
\* the form is closed, its results are gone
ApplyLogo ==
  /\ page = "logo" /\ form.id # NoRow
  /\ \E logo \in {form.fields, form.tags} \ {NoRow} :
       rows' = IF rows[form.id].there THEN [rows EXCEPT ![form.id].fields = logo] ELSE rows
  /\ form' = Fill(form, NoRow, Blank)
  /\ UNCHANGED <<others, opens, clicks, listed, late, original, saving>>

------------------------------------------------------------------------------
(* Saving                                                                    *)

\* a PUT overwrites every column the form knows; only that of a stream has a guide
Stored(r, body) ==
  [rows EXCEPT ![r] = [@ EXCEPT !.fields = body.fields, !.tags = body.tags,
                                !.server = body.server,
                                !.guide = IF page = "stream" THEN body.guide
                                          ELSE rows[r].guide]]

\* an id in the form makes it an update, which a row that is gone ignores
Put ==
  /\ form.id # NoRow
  /\ rows' = IF rows[form.id].there THEN Stored(form.id, Content(form)) ELSE rows
  /\ UNCHANGED <<page, elsewhere, form, opens, clicks, listed, late, original, saving>>

Update == Put /\ UNCHANGED editing

SaveLine == page = "line" /\ Update
SaveMovie == page = "movie" /\ Update
SaveSeries == page = "series" /\ Update
SaveEpisode == page = "episode" /\ Update
SavePackage == page = "package" /\ Update
SaveServer == page = "server" /\ Update
SaveProfile == page = "profile" /\ Update
SaveDrm == page = "drm" /\ Update
SaveMember == page = "member" /\ Put /\ editing' = NoRow
SaveGroup == page = "group" /\ Put /\ editing' = NoRow
SaveService == page = "expiry" /\ Update
SaveNotes == page = "notes" /\ Update
SaveRestrictions == page = "restrictions" /\ Update
SaveRolePerms == page = "role" /\ Update
SaveCategory == page = "category" /\ Update
SaveBouquet == page = "bouquet" /\ Update
SaveProvider == page = "provider" /\ Update
SaveAccessCode == page = "code" /\ Update

\* saveSeries of a new series; the other kinds leave the form after a creation
SaveNewSeries ==
  /\ page = "series" /\ form.id = NoRow /\ saving = NoSave
  /\ saving' = [at |-> "post", row |-> NoRow, body |-> Content(form)]
  /\ UNCHANGED <<others, form, opens, clicks, listed, late, original, rows>>

\* the answer writes the new id into the form, whatever it shows by now
SeriesCreated ==
  /\ saving.at = "post"
  /\ \E r \in Rows :
       /\ ~rows[r].there
       /\ rows' = [rows EXCEPT ![r] = [@ EXCEPT !.there = TRUE]]
       /\ form' = [form EXCEPT !.id = r]
  /\ late' = (late \/ Content(form) # saving.body)
  /\ saving' = NoSave
  /\ UNCHANGED <<others, opens, clicks, listed, original>>

\* a new stream leaves nothing behind in the form but the original
CreateStream ==
  /\ page = "stream" /\ form.id = NoRow
  /\ original' = NoStream
  /\ UNCHANGED <<others, form, opens, clicks, listed, late, saving, rows>>

\* saveStream stops a stream that ran when it was opened
SaveStream ==
  /\ page = "stream" /\ form.id # NoRow /\ saving = NoSave
  /\ saving' = [at |-> IF original.up THEN "stop" ELSE "put",
                row |-> form.id, body |-> Content(form)]
  /\ UNCHANGED <<others, form, opens, clicks, listed, late, original, rows>>

StopForSave ==
  /\ saving.at = "stop"
  /\ rows' = [rows EXCEPT ![saving.row].running = FALSE]
  /\ saving' = [saving EXCEPT !.at = "put again"]
  /\ UNCHANGED <<others, form, opens, clicks, listed, late, original>>

\* PUT /channels/:id refuses a running channel
PutStream ==
  /\ saving.at \in {"put", "put again"}
  /\ rows[saving.row].there /\ ~rows[saving.row].running
  /\ rows' = Stored(saving.row, saving.body)
  /\ IF saving.at = "put again"
       THEN /\ saving' = [saving EXCEPT !.at = "start"] /\ UNCHANGED original
       ELSE /\ saving' = NoSave /\ original' = NoStream
  /\ UNCHANGED <<others, form, opens, clicks, listed, late>>

StartAfterSave ==
  /\ saving.at = "start"
  /\ rows' = [rows EXCEPT ![saving.row].running = rows[saving.row].there]
  /\ saving' = NoSave /\ original' = NoStream
  /\ UNCHANGED <<others, form, opens, clicks, listed, late>>

\* any request of it is refused: the rest is not attempted
SaveFails ==
  /\ saving # NoSave
  /\ saving' = NoSave
  /\ UNCHANGED <<others, form, opens, clicks, listed, late, original, rows>>

\* elsewhere: a row is deleted, a stream is started or stopped
DeleteRow(r) ==
  /\ rows[r].there /\ elsewhere < MaxElsewhere
  /\ elsewhere' = elsewhere + 1
  /\ rows' = [rows EXCEPT ![r].there = FALSE, ![r].running = FALSE]
  /\ UNCHANGED <<page, editing, form, opens, clicks, listed, late, original, saving>>

\* startStream and stopStream of this page also note it in the original
ToggleStream(r) ==
  /\ page = "stream" /\ rows[r].there /\ elsewhere < MaxElsewhere
  /\ elsewhere' = elsewhere + 1
  /\ rows' = [rows EXCEPT ![r].running = ~@]
  /\ original' \in {original, IF original.row = r
                               THEN [row |-> r, up |-> ~rows[r].running]
                               ELSE original}
  /\ UNCHANGED <<page, editing, form, opens, clicks, listed, late, saving>>

------------------------------------------------------------------------------
PfInit ==
  /\ page \in Pages /\ editing = NoRow
  /\ form = [id |-> NoRow, fields |-> NoRow, tags |-> NoRow, server |-> NoRow,
              guide |-> NoRow]
  /\ opens = EmptyBag
  /\ clicks = 0 /\ elsewhere = 0
  /\ listed \in BOOLEAN
  /\ late = FALSE /\ original = NoStream /\ saving = NoSave
  /\ \E gone \in SUBSET Rows :
       /\ gone # {} => page = "series"
       /\ rows = [r \in Rows |-> [there |-> r \notin gone, running |-> FALSE,
                                  fields |-> r, tags |-> r, server |-> r,
                                  guide |-> r]]

PfNext ==
  \/ \E r \in Rows : ClickEdit(r)
  \/ ClickNewTitle
  \/ ClickNewPage
  \/ \E o \in Waiting : MovieArrives(o)
  \/ \E o \in Waiting : SeriesArrives(o)
  \/ \E o \in Waiting : EpisodeArrives(o)
  \/ AskTmdb
  \/ \E o \in Waiting : TmdbArrives(o)
  \/ \E o \in Waiting : PageArrives(o)
  \/ \E o \in Waiting : RowFails(o)
  \/ \E o \in Waiting : LineRefsArrive(o)
  \/ \E o \in Waiting : PackageRefsArrive(o)
  \/ \E o \in Waiting : StreamRefsArrive(o)
  \/ \E o \in Waiting : StreamListArrives(o)
  \/ \E o \in Waiting : ProfilesArrive(o)
  \/ \E o \in Waiting : GuidesArrive(o)
  \/ \E o \in Waiting : ServersArrive(o)
  \/ \E o \in Waiting : TimeshiftArrives(o)
  \/ \E o \in Waiting : ListArrives(o)
  \/ \E o \in Waiting : ServerNamed(o)
  \/ \E o \in Waiting : ServerArrives(o)
  \/ \E r \in Ids : OpenProfile(r)
  \/ \E o \in Waiting : ProfileArrives(o)
  \/ \E o \in Waiting : DrmRefsArrive(o)
  \/ \E o \in Waiting : DrmArrives(o)
  \/ \E r \in Ids : OpenNoted(r)
  \/ \E o \in Waiting : MemberRefsArrive(o)
  \/ \E o \in Waiting : MemberArrives(o)
  \/ \E o \in Waiting : GroupRefsArrive(o)
  \/ \E o \in Waiting : GroupArrives(o)
  \/ \E o \in Waiting : ServiceArrives(o)
  \/ \E o \in Waiting : NotesArrive(o)
  \/ \E o \in Waiting : RestrictionsArrive(o)
  \/ \E o \in Waiting : PermissionsArrive(o)
  \/ SecurityReloads
  \/ \E r \in Rows : OpenLogo(r)
  \/ \E o \in Waiting : LogosArrive(o)
  \/ ApplyLogo
  \/ \E r \in Ids : OpenCategory(r)
  \/ \E r \in Ids : OpenBouquet(r)
  \/ \E r \in Ids : OpenProvider(r)
  \/ \E r \in Ids : OpenAccessCode(r)
  \/ SaveLine
  \/ SaveMovie
  \/ SaveSeries
  \/ SaveEpisode
  \/ SavePackage
  \/ SaveServer
  \/ SaveProfile
  \/ SaveDrm
  \/ SaveMember
  \/ SaveGroup
  \/ SaveService
  \/ SaveNotes
  \/ SaveRestrictions
  \/ SaveRolePerms
  \/ SaveCategory
  \/ SaveBouquet
  \/ SaveProvider
  \/ SaveAccessCode
  \/ SaveNewSeries
  \/ SeriesCreated
  \/ CreateStream
  \/ SaveStream
  \/ StopForSave
  \/ PutStream
  \/ StartAfterSave
  \/ SaveFails
  \/ \E r \in Rows : DeleteRow(r)
  \/ \E r \in Rows : ToggleStream(r)

PfSpec == PfInit /\ [][PfNext]_pfVars

------------------------------------------------------------------------------
\* However the answers of several openings are ordered, and whenever Save is
\* pressed, a row is never overwritten with the fields, the tags, the server or
\* the guide of another row: the functions fill a form in one block after their
\* last await.  Where the code does not, it gives less, and so does this.  The
\* page of a server is left out.  An answer that comes after the form changed
\* hands (TMDb details, logos, a new series' id) may land in the form of another
\* row.  A form opened while no list of servers is at hand has its server written
\* when the list comes, whichever row is shown by then, and that of a stream its
\* guide before it, so either may be saved into another row (late).  The tags of
\* a stream may be saved empty, and so may the permissions of a role, and the
\* profile of a DRM stream.
NoForeignWrites ==
  \A r \in Rows : rows[r].there /\ page # "server" =>
    LET answered == page \in {"movie", "series", "logo"} /\ late
        typed == IF page = "series" THEN {r, NoRow} ELSE {r}
    IN /\ answered \/ rows[r].fields \in typed
       /\ answered \/ rows[r].tags \in
            (IF page \in {"stream", "role", "drm"} THEN {r, NoRow} ELSE typed)
       /\ late \/ {rows[r].server, rows[r].guide} \subseteq {r, NoRow}
=============================================================================
