---------------------------- MODULE FfmpegCommand ----------------------------
(* lib/ffmpeg-args.js, lib/input-detect.js and the lookups of                *)
(* lib/streaming-settings.js: the FFmpeg command of a channel.  A command is *)
(* the option names of its input, its filter graph, what its output maps and *)
(* the playlist its caller is told; option values are left out where nothing *)
(* below depends on them.                                                    *)
EXTENDS Integers, Sequences, FiniteSets

CONSTANT Urls    \* kinds of source URL that occur

Kinds == {"dash", "hls", "rtmp", "srt", "udp", "ts"}
Styles == {"webapp", "xc", "safe"}

\* A kind is what a URL of it is recognised as; "http" and "file" are the URLs
\* detectInputType cannot tell.
ASSUME UrlAssumption == Urls \subseteq Kinds \cup {"http", "file"}

\* What the input side of a command depends on.
InputType ==
  [url : Urls, declared : Kinds \cup {"auto"}, vod : BOOLEAN, lagFix : BOOLEAN,
   style : Styles \cup {"none"}, genTimestamps : BOOLEAN, minimal : BOOLEAN,
   native : BOOLEAN, extras : BOOLEAN]
\* `extras`: a proxy, headers, loopInput and a KID/key pair are configured.

\* What the output side depends on: `rends` renditions of the known four, and a
\* watermark that is off, on, or on with its file gone.
OutputType ==
  [format : {"hls", "mpegts"}, transcode : BOOLEAN, multi : BOOLEAN, rends : 1..4,
   watermark : {"off", "on", "lost"}, streamAll : BOOLEAN, subtitles : BOOLEAN]

SettingsType == [style : Styles, lowLatency : BOOLEAN]

----------------------------------------------------------------------------
(* Input options *)

DetectInputType(url) == IF url \in Kinds THEN url ELSE "auto"
EffectiveInputType(in) ==
  IF in.declared = "auto" THEN DetectInputType(in.url) ELSE in.declared

OverHttp(in) == in.url \in {"dash", "hls", "ts", "http"}
IsNetworkStreamUrl(in) == in.url # "file"

EffectiveStyle(in, settings) == IF in.style = "none" THEN settings.style ELSE in.style

When(condition, options) == IF condition THEN options ELSE << >>

InputProtocolArgs(in) ==
  CASE EffectiveInputType(in) = "hls" ->
         <<"protocol_whitelist", "allowed_extensions", "allowed_segment_extensions",
           "http_persistent", "http_multiple", "http_seekable", "max_reload">>
    [] EffectiveInputType(in) = "rtmp" -> When(~in.vod, <<"rtmp_live">>)
    [] OTHER -> << >>

CencArgs(in) ==
  When(in.extras /\ EffectiveInputType(in) = "dash", <<"cenc_decryption_keys">>)

LiveReadArgs(in) ==
  LET t == EffectiveInputType(in)
      re == t = "rtmp" \/ (t = "hls" /\ in.native)
            \/ (t = "auto" /\ ~IsNetworkStreamUrl(in))
  IN IF in.vod THEN << >>
     ELSE IF t = "dash" THEN <<"readrate", "readrate_initial_burst", "readrate_catchup">>
     ELSE When(re, <<"re">>)

\* Faulty variant: -fflags is not left to the stability profile.
StabilityInputArgsBeside(in) ==
  <<"fflags", "use_wallclock_as_timestamps", "avoid_negative_ts">>
StabilityInputArgs(in) ==
  When(in.lagFix, <<"fflags", "use_wallclock_as_timestamps", "avoid_negative_ts">>)

CombinedFflags(in) ==
  When(~in.lagFix,
       When(in.genTimestamps \/ ~in.vod, <<"fflags">>) \o When(~in.vod, <<"flags">>))
CombinedFflagsSafe(in) == When(~in.lagFix /\ in.genTimestamps, <<"fflags">>)
LowLatencyDemuxArgs(in, settings) ==
  When(~in.vod /\ settings.lowLatency, <<"fflags", "flags">>)
WebappGenPtsOnly(in) == When(~in.vod /\ in.genTimestamps, <<"fflags">>)

FastStartArgs(in) == When(~in.vod /\ ~in.minimal, <<"analyzeduration", "probesize">>)

NetworkRecoverArgs(in) ==
  When(EffectiveInputType(in) \in {"dash", "hls"} \/ OverHttp(in),
       <<"rw_timeout", "timeout", "reconnect", "reconnect_streamed",
         "reconnect_on_network_error", "reconnect_on_http_error", "reconnect_delay_max">>)

\* The flags chosen by ingest style; lag_fix leaves webapp's path.
StyleArgs(in, settings) ==
  LET style == EffectiveStyle(in, settings)
  IN IF style = "webapp" /\ ~in.lagFix
     THEN IF settings.lowLatency THEN LowLatencyDemuxArgs(in, settings)
                                 ELSE WebappGenPtsOnly(in)
     ELSE IF style = "safe" THEN CombinedFflagsSafe(in) ELSE CombinedFflags(in)

BuildInputLead(in, settings) ==
  FastStartArgs(in) \o When(in.extras, <<"stream_loop">>) \o StyleArgs(in, settings)
  \o LiveReadArgs(in) \o NetworkRecoverArgs(in) \o When(in.extras, <<"http_proxy">>)
  \o InputProtocolArgs(in) \o When(in.extras, <<"headers">>) \o StabilityInputArgs(in)
  \o CencArgs(in)

BuildFfprobeArgs(in) ==
  FastStartArgs(in) \o LiveReadArgs(in) \o When(in.extras, <<"http_proxy">>)
  \o InputProtocolArgs(in) \o When(in.extras, <<"headers">>) \o CencArgs(in)

----------------------------------------------------------------------------
(* Output: pads of the filter graph and what is mapped *)

Pad(name, i) == <<name, i>>
Video == Pad("0:v", 0)      \* the selected tracks of the first input
Audio == Pad("0:a", 0)
Mark == Pad("1:v", 0)       \* the watermark file, when it is an input
SourcePads == {Video, Audio, Mark, Pad("0:s", 0), Pad("0", 0)}
Filter(in, out) == [in |-> in, out |-> out]

NeedsTranscode(o) == o.transcode \/ o.watermark # "off"
WatermarkShown(o) == o.watermark = "on"
\* renditionMode 'multi' with one known rendition is single.
IsMulti(o) == o.multi /\ o.rends > 1

\* buildFfmpegArgs throws.
Refuses(o) == o.format = "mpegts" /\ IsMulti(o)

CopyMaps(o) ==
  IF o.streamAll THEN {Pad("0", 0)}
  ELSE {Video, Audio} \cup (IF o.subtitles THEN {Pad("0:s", 0)} ELSE {})
NginxMaps(o) == IF o.streamAll THEN {Pad("0", 0)} ELSE {Video, Audio}

\* The watermark scaled to the video and laid over it, ending in `last`.
Overlay(last) ==
  {Filter({Mark}, {Pad("wm_pre", 0)}),
   Filter({Pad("wm_pre", 0), Video}, {Pad("wm", 0), Pad("base", 0)}),
   Filter({Pad("wm", 0), Pad("base", 0)}, {last})}

SingleTranscodeFilter(o) ==
  LET from == IF WatermarkShown(o) THEN Pad("tmp", 0) ELSE Video
  IN (IF WatermarkShown(o) THEN Overlay(Pad("tmp", 0)) ELSE {})
     \cup {Filter({from}, {Pad("vout", 0)})}

\* Faulty variant: with a watermark the split still reads the bare video.
MultiFilterUnmarked(o) ==
  (IF WatermarkShown(o) THEN Overlay(Pad("base_out", 0)) ELSE {})
  \cup {Filter({Video}, {Pad("v", i) : i \in 1..o.rends})}
  \cup {Filter({Pad("v", i)}, {Pad("vo", i)}) : i \in 1..o.rends}
  \cup {Filter({Audio}, {Pad("a", i) : i \in 1..o.rends})}
MultiFilter(o) ==
  LET from == IF WatermarkShown(o) THEN Pad("base_out", 0) ELSE Video
  IN (IF WatermarkShown(o) THEN Overlay(Pad("base_out", 0)) ELSE {})
     \cup {Filter({from}, {Pad("v", i) : i \in 1..o.rends})}
     \cup {Filter({Pad("v", i)}, {Pad("vo", i)}) : i \in 1..o.rends}
     \cup {Filter({Audio}, {Pad("a", i) : i \in 1..o.rends})}

Playlist(o) ==
  IF o.format = "mpegts" THEN "stream.ts"
  ELSE IF NeedsTranscode(o) /\ IsMulti(o) THEN "master.m3u8" ELSE "index.m3u8"

\* A command: inputs, filter graph, pads mapped, variants of a master playlist
\* (0 for none) and the playlist reported.
Command(files, graph, maps, variants, playlist) ==
  [files |-> files, graph |-> graph, maps |-> maps, variants |-> variants,
   playlist |-> playlist]

CopyCommand(o) == Command(1, {}, CopyMaps(o), 0, Playlist(o))
InputFiles(o) == IF WatermarkShown(o) THEN 2 ELSE 1
SingleCommand(o) ==
  Command(InputFiles(o), SingleTranscodeFilter(o), {Pad("vout", 0), Audio}, 0, Playlist(o))
MultiCommand(o) ==
  Command(InputFiles(o), MultiFilter(o),
          {Pad(kind, i) : kind \in {"vo", "a"}, i \in 1..o.rends}, o.rends, Playlist(o))

BuildFfmpegArgs(o) ==
  IF ~NeedsTranscode(o) THEN CopyCommand(o)
  ELSE IF IsMulti(o) THEN MultiCommand(o) ELSE SingleCommand(o)

\* Copy to disk for Nginx, and to stdout first for an MPEG-TS channel.
NginxCommand(o) == Command(1, {}, NginxMaps(o), 0, "index.m3u8")

----------------------------------------------------------------------------
(* What a command must be *)

Produced(cmd) == UNION {f.out : f \in cmd.graph}

\* Every pad a filter produces is taken exactly once, by a filter or a map; what
\* is taken is produced or belongs to an input file, and every file is used.
Wired(cmd) ==
  LET takers(p) == {f \in cmd.graph : p \in f.in}
  IN /\ \A p \in Produced(cmd) :
          Cardinality(takers(p)) + (IF p \in cmd.maps THEN 1 ELSE 0) = 1
     /\ (UNION {f.in : f \in cmd.graph}) \cup cmd.maps \subseteq SourcePads \cup Produced(cmd)
     /\ (cmd.files = 2) <=> (takers(Mark) # {})

\* A master playlist has one video and one audio map for every variant.
VariantsMapped(cmd) ==
  cmd.playlist = "master.m3u8" =>
    /\ cmd.variants > 1
    /\ \A i \in 1..cmd.variants : {Pad("vo", i), Pad("a", i)} \subseteq cmd.maps

OnceEach(options) == Cardinality({options[i] : i \in DOMAIN options}) = Len(options)
=============================================================================
