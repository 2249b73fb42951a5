--------------------------- MODULE ChannelOptions ---------------------------
(* What a channel is stored with: mergeChannelOptions of server.js, the      *)
(* routes that create and edit channels, and transcode profiles.  One        *)
(* channel; a request that names a profile waits for the profile's row       *)
(* between merging the options and checking them.                            *)
EXTENDS FfmpegCommand

CONSTANTS
  Edits,       \* requests under way at the same time
  Bodies,      \* request bodies that occur: records of the options they name
  ProfileIds, NoProfile, NoChannel

\* What each option of a body may be, and what else a body names: normalised as
\* mergeChannelOptions does it.
Values ==
  [mode |-> {"copy", "transcode"}, multi |-> BOOLEAN, rends |-> 1..4,
   format |-> {"hls", "mpegts"}, mark |-> BOOLEAN, declared |-> Kinds \cup {"auto"},
   queue |-> SUBSET Urls, profile |-> ProfileIds \cup {NoProfile}, mpd |-> Urls, keys |-> BOOLEAN]

Classes == {"normal", "movie", "drm"}
OptionsType ==
  [mode : {"copy", "transcode"}, multi : BOOLEAN, rends : 1..4,
   format : {"hls", "mpegts"}, mark : BOOLEAN, declared : Kinds \cup {"auto"},
   queue : SUBSET Urls, profile : ProfileIds \cup {NoProfile}]
ChannelType ==
  [opts : OptionsType, class : Classes, mpd : Urls, keys : BOOLEAN, running : BOOLEAN]

ASSUME BodiesAssumption ==
  /\ \A body \in Bodies : \A f \in DOMAIN body : f \in DOMAIN Values /\ body[f] \in Values[f]
  /\ NoChannel \notin ChannelType

VARIABLES
  obj,         \* the channel object: options, class, source, keys, running
  table,       \* rows of transcode_profiles
  edits        \* requests waiting for a profile row

coVars == <<obj, table, edits>>

ProfileType == [mode : {"copy", "transcode"}, multi : BOOLEAN, rends : 1..4]
EditKinds == {"post", "put", "import", "newmovie", "movie", "newdrm", "drm"}
None == [kind |-> "none"]

EditType == [kind : EditKinds, body : Bodies, extra : OptionsType]
CoTypeOK ==
  /\ obj \in ChannelType \cup {NoChannel}
  /\ table \in [ProfileIds -> ProfileType \cup {NoProfile}]
  /\ edits \in [Edits -> EditType \cup {None}]

CoInit ==
  /\ obj = NoChannel
  /\ table = [p \in ProfileIds |-> NoProfile]
  /\ edits = [e \in Edits |-> None]

----------------------------------------------------------------------------
(* mergeChannelOptions up to its profile: what the body names, else what the *)
(* channel has, else the default.                                            *)

Names(body, option) == option \in DOMAIN body
Kept(option, body, old, default) ==
  IF Names(body, option) THEN body[option]
  ELSE IF old # NoChannel THEN old.opts[option] ELSE default

MergedWatermark(body, old) == Kept("mark", body, old, FALSE)
MergedRenditions(body, old) == Kept("rends", body, old, 1)
MergedOutputMode(body, old) == Kept("mode", body, old, "copy")
MergedRenditionMode(body, old) == Kept("multi", body, old, FALSE)
MergedFormat(body, old) == Kept("format", body, old, "hls")
MergedQueue(body, old) == Kept("queue", body, old, {})
\* The kind guessed from the URL is stored as if it had been declared.
MergedInputType(body, old) ==
  Kept("declared", body, old,
       IF Names(body, "mpd") THEN DetectInputType(body.mpd) ELSE "auto")

Merge(body, old) ==
  [mode |-> MergedOutputMode(body, old), multi |-> MergedRenditionMode(body, old),
   rends |-> MergedRenditions(body, old), format |-> MergedFormat(body, old),
   mark |-> MergedWatermark(body, old), declared |-> MergedInputType(body, old),
   queue |-> MergedQueue(body, old), profile |-> Kept("profile", body, old, NoProfile)]

\* A profile's row, when there is one, wins over the options it has.
ProfileOverride(extra) ==
  LET tp == IF extra.profile = NoProfile THEN NoProfile ELSE table[extra.profile]
  IN IF tp = NoProfile THEN extra
     ELSE [extra EXCEPT !.mode = tp.mode, !.multi = tp.multi, !.rends = tp.rends]

----------------------------------------------------------------------------
(* Checks *)

MpegtsMultiConflict(extra) == extra.format = "mpegts" /\ extra.multi /\ extra.rends > 1
WatermarkConflict(extra) == extra.mode = "copy" /\ extra.mark

EffectiveType(url, declared) == IF declared = "auto" THEN DetectInputType(url) ELSE declared
HasDash(urls, declared) == \E u \in urls : EffectiveType(u, declared) = "dash"

ChannelSources(o) == IF o.opts.queue # {} THEN o.opts.queue ELSE {o.mpd}

\* kid and key as a request leaves them; a value that is not 32 hex digits is kept.
KeysAfter(body, old) ==
  IF Names(body, "keys") THEN body.keys ELSE old # NoChannel /\ old.keys

\* queue[0]: a queue is kept as a set, so its first entry is any of it.
FirstOf(queue) == CHOOSE u \in queue : TRUE
SourceAfter(body, extra, old) ==
  IF Names(body, "mpd") THEN body.mpd
  ELSE IF extra.queue # {} THEN FirstOf(extra.queue) ELSE old.mpd

Channel(class, extra, mpd, keys, running) ==
  [opts |-> extra, class |-> class, mpd |-> mpd, keys |-> keys, running |-> running]

----------------------------------------------------------------------------
(* What each request does once its options are merged: `old` is the channel  *)
(* object as it is by then.  Faulty variants leave out what the code does.   *)

Create(channel) == obj' = IF obj = NoChannel THEN channel ELSE obj
Refuse == UNCHANGED obj

PostChannel(body, extra) ==
  LET mpd == SourceAfter(body, extra, NoChannel)
      sources == IF extra.queue # {} THEN extra.queue ELSE {mpd}
      keys == KeysAfter(body, NoChannel)
  IN IF \/ HasDash(sources, extra.declared) /\ ~keys
        \/ WatermarkConflict(extra) \/ MpegtsMultiConflict(extra)
     THEN Refuse
     ELSE Create(Channel("normal", extra, mpd, keys, FALSE))

\* Faulty variant: the options are checked as the body names them, before the
\* profile has its say.
PutChannelUnprofiled(body, extra) ==
  LET mpd == SourceAfter(body, extra, obj)
      sources == IF extra.queue # {} THEN extra.queue ELSE {mpd}
      keys == KeysAfter(body, obj)
      asked == Merge(body, obj)
  IN IF \/ HasDash(sources, extra.declared) /\ ~keys
        \/ WatermarkConflict(asked) \/ MpegtsMultiConflict(asked)
     THEN Refuse
     ELSE obj' = Channel("normal", extra, mpd, keys, obj.running)
PutChannel(body, extra) ==
  LET mpd == SourceAfter(body, extra, obj)
      sources == IF extra.queue # {} THEN extra.queue ELSE {mpd}
      keys == KeysAfter(body, obj)
  IN IF \/ HasDash(sources, extra.declared) /\ ~keys
        \/ WatermarkConflict(extra) \/ MpegtsMultiConflict(extra)
     THEN Refuse
     ELSE obj' = Channel("normal", extra, mpd, keys, obj.running)

CreateImportedChannel(body, extra) ==
  LET keys == KeysAfter(body, NoChannel)
  IN IF \/ HasDash({body.mpd}, extra.declared) /\ ~keys
        \/ WatermarkConflict(extra) \/ MpegtsMultiConflict(extra)
     THEN Refuse
     ELSE Create(Channel("normal", extra, body.mpd, keys, FALSE))

MovieOptions(body, extra) ==
  [extra EXCEPT !.queue = {body.mpd}, !.declared = "auto"]
PostMovie(body, extra) ==
  IF WatermarkConflict(extra) THEN Refuse
  ELSE Create(Channel("movie", MovieOptions(body, extra), body.mpd, FALSE, FALSE))
PutMovie(body, extra) ==
  IF WatermarkConflict(extra) THEN Refuse
  ELSE obj' = Channel("movie", MovieOptions(body, extra), body.mpd, obj.keys, obj.running)

DrmBody(body, mpd) ==
  [f \in DOMAIN body \cup {"mpd", "declared", "format"} |->
     CASE f = "mpd" -> mpd
       [] f = "declared" -> "dash"
       [] f = "format" -> "mpegts"
       [] OTHER -> body[f]]
OneRendition(extra) ==
  IF extra.format = "mpegts" /\ extra.multi THEN [extra EXCEPT !.multi = FALSE] ELSE extra
PostDrm(body, extra) ==
  Create(Channel("drm", OneRendition(extra), body.mpd, TRUE, FALSE))
PutDrm(extra, old) ==
  obj' = [old EXCEPT !.opts = OneRendition(extra)]

\* The rest of a request, from the merged options on.
Settle(kind, body, extra, old) ==
  CASE kind = "post" -> PostChannel(body, extra)
    [] kind = "put" -> PutChannel(body, extra)
    [] kind = "import" -> CreateImportedChannel(body, extra)
    [] kind = "newmovie" -> PostMovie(body, extra)
    [] kind = "movie" -> PutMovie(body, extra)
    [] kind = "newdrm" -> PostDrm(body, extra)
    [] kind = "drm" -> PutDrm(extra, old)

----------------------------------------------------------------------------
(* Requests *)

\* The panel lists normal channels, movies and DRM streams on pages of their own,
\* each of which edits by its own route.
Admitted(kind, body) ==
  CASE kind = "post" -> /\ obj = NoChannel
                        /\ Names(body, "mpd") \/ (Names(body, "queue") /\ body.queue # {})
    [] kind = "put" -> obj # NoChannel /\ obj.class = "normal" /\ ~obj.running
    \* The importers send one URL and no queue.
    [] kind = "import" -> obj = NoChannel /\ Names(body, "mpd") /\ ~Names(body, "queue")
    [] kind = "newmovie" -> obj = NoChannel /\ Names(body, "mpd") /\ body.mpd \notin {"dash", "rtmp"}
    [] kind = "movie" -> /\ obj # NoChannel /\ obj.class = "movie" /\ ~obj.running
                         /\ Names(body, "mpd") /\ body.mpd \notin {"dash", "rtmp"}
    [] kind = "newdrm" -> /\ obj = NoChannel /\ Names(body, "mpd")
                          /\ Names(body, "keys") /\ body.keys
    [] kind = "drm" -> obj # NoChannel /\ obj.class = "drm"

Creates(kind) == kind \in {"post", "import", "newmovie", "newdrm"}

\* The part of a request before its first await.  Editing a DRM stream stops it
\* and takes its URL at once.
Begin(e, kind, body) ==
  LET drm == kind \in {"drm", "newdrm"}
      mpd == IF Names(body, "mpd") THEN body.mpd ELSE obj.mpd
      old == IF kind = "drm" THEN [obj EXCEPT !.mpd = mpd, !.running = FALSE]
             ELSE IF Creates(kind) THEN NoChannel ELSE obj
      extra == Merge(IF drm THEN DrmBody(body, mpd) ELSE body, old)
  IN /\ edits[e] = None /\ Admitted(kind, body)
     /\ UNCHANGED table
     /\ IF extra.profile = NoProfile
        THEN Settle(kind, body, extra, old) /\ UNCHANGED edits
        ELSE /\ edits' = [edits EXCEPT ![e] = [kind |-> kind, body |-> body, extra |-> extra]]
             /\ obj' = IF kind = "drm" THEN old ELSE obj

\* The profile's row has come, and the request goes on.
ProfileRead(e) ==
  /\ edits[e] # None
  /\ Settle(edits[e].kind, edits[e].body, ProfileOverride(edits[e].extra), obj)
  /\ edits' = [edits EXCEPT ![e] = None]
  /\ UNCHANGED table

----------------------------------------------------------------------------
(* The channel and the profiles meanwhile *)

Announced(o) ==
  IF o.format = "mpegts" THEN "stream.ts"
  ELSE IF IsMulti(o) THEN "master.m3u8" ELSE "index.m3u8"

\* The command's view of a channel; a watermark file may be gone from disk.
OutputOf(c, file) ==
  [format |-> c.opts.format, transcode |-> c.opts.mode = "transcode",
   multi |-> c.opts.multi, rends |-> c.opts.rends,
   watermark |-> IF c.opts.mark THEN file ELSE "off",
   streamAll |-> FALSE, subtitles |-> FALSE]

\* ... and of its inputs; `options` are those the routes above do not touch.
InputOf(c, url, options) ==
  [url |-> url, declared |-> c.opts.declared, vod |-> options.vod,
   lagFix |-> options.lagFix, style |-> "none",
   genTimestamps |-> options.genTimestamps, minimal |-> FALSE, native |-> TRUE,
   extras |-> TRUE]
InputOptions == [vod : BOOLEAN, lagFix : BOOLEAN, genTimestamps : BOOLEAN]

\* startChannel with one of the sources as the current one.
StartSource(url) ==
  /\ obj # NoChannel /\ ~obj.running /\ url \in ChannelSources(obj)
  /\ obj' = [obj EXCEPT !.mpd = url, !.running = ~Refuses(OutputOf(obj, "on"))]
  /\ UNCHANGED <<table, edits>>
StopChannel ==
  /\ obj # NoChannel /\ obj.running
  /\ obj' = [obj EXCEPT !.running = FALSE]
  /\ UNCHANGED <<table, edits>>

\* applyStabilityFix turns transcoding on, and back to what it was.
StabilityMode(mode) ==
  /\ obj # NoChannel /\ obj.class = "normal"
  /\ obj' = [obj EXCEPT !.opts.mode = mode]
  /\ UNCHANGED <<table, edits>>

CreateTranscodeProfile(p, data) ==
  /\ table[p] = NoProfile
  /\ table' = [table EXCEPT ![p] = data]
  /\ UNCHANGED <<obj, edits>>
UpdateTranscodeProfile(p, data) ==
  /\ table[p] # NoProfile
  /\ table' = [table EXCEPT ![p] = data]
  /\ UNCHANGED <<obj, edits>>
DeleteTranscodeProfile(p) ==
  /\ table[p] # NoProfile
  /\ (obj # NoChannel => obj.opts.profile # p)
  /\ table' = [table EXCEPT ![p] = NoProfile]
  /\ UNCHANGED <<obj, edits>>

\* Profiles that occur: a bare copy, and a ladder of renditions.
ProfilesSaved ==
  {[mode |-> "copy", multi |-> FALSE, rends |-> 1],
   [mode |-> "transcode", multi |-> TRUE, rends |-> 2]}

CoNext ==
  \/ \E e \in Edits, kind \in EditKinds, body \in Bodies : Begin(e, kind, body)
  \/ \E e \in Edits : ProfileRead(e)
  \/ \E url \in Urls : StartSource(url)
  \/ StopChannel
  \/ \E mode \in {"copy", "transcode"} : StabilityMode(mode)
  \/ \E p \in ProfileIds, data \in ProfilesSaved :
       CreateTranscodeProfile(p, data) \/ UpdateTranscodeProfile(p, data)
  \/ \E p \in ProfileIds : DeleteTranscodeProfile(p)

CoSpec == CoInit /\ [][CoNext]_coVars

----------------------------------------------------------------------------
\* A channel that is not a movie is stored with options a command can be built
\* from: buildFfmpegArgs does not refuse it, its filter graph and maps fit whether
\* or not the watermark's file is there, neither FFmpeg nor ffprobe is given an
\* input option twice (the last would win), and when it transcodes the playlist /playback-url
\* announces is the one the command writes.  A DASH source of a normal channel has
\* its keys.  Options come from four places (body, channel, profile, stability
\* fix) over an await, and are checked once.
StoredChannelsRun ==
  obj # NoChannel /\ obj.class # "movie" =>
    /\ \A file \in {"on", "lost"} :
         LET o == OutputOf(obj, file)
             cmd == BuildFfmpegArgs(o)
         IN /\ ~Refuses(o) /\ Wired(cmd) /\ VariantsMapped(cmd) /\ Wired(NginxCommand(o))
            /\ NeedsTranscode(o) => Announced(o) = cmd.playlist
    /\ \A url \in ChannelSources(obj), options \in InputOptions, settings \in SettingsType :
         LET in == InputOf(obj, url, options)
         IN OnceEach(BuildInputLead(in, settings)) /\ OnceEach(BuildFfprobeArgs(in))
    /\ obj.class = "normal" /\ HasDash(ChannelSources(obj), obj.opts.declared) => obj.keys
=============================================================================
