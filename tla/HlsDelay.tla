------------------------------- MODULE HlsDelay -----------------------------
(* Buffered HLS: FFmpeg writes a sliding window of segments, and the panel   *)
(* serves its playlist without the newest ones, so that players trail the    *)
(* ingest (lib/hls-delay-playlist.js).                                       *)
EXTENDS Integers, Sequences

CONSTANTS
  SegTimes,      \* hlsSegmentSeconds that occur
  MinSeg, MaxSeg,  \* the limits segment times are clamped to: 2 and 12
  Delays,        \* hlsBufferDelaySec that occur
  UserList,      \* hlsPlaylistSize
  Margin,        \* segments kept beyond the delay: 14
  MaxList,       \* longest playlist: 500
  Stretch        \* how much later than hls_time a keyframe may come

HdCeilDiv(a, b) == (a + b - 1) \div b

\* mergeChannelOptions clamps segment times to 2..12 s and delays to 5..600 s: the
\* longest list needed has 300 segments and the margin, below its limit.
ASSUME HdAssumption ==
  /\ MinSeg \in Nat \ {0} /\ MaxSeg \in Nat /\ SegTimes \subseteq MinSeg..MaxSeg
  /\ Delays \subseteq Nat \ {0} /\ Stretch \in Nat /\ Margin \in Nat \ {0}
  /\ MaxList \in Nat /\ UserList \in Nat \ {0}
  /\ \A seg \in SegTimes, delay \in Delays : HdCeilDiv(delay, seg) + Margin <= MaxList

VARIABLES
  config,        \* hlsSegmentSeconds and hlsBufferDelaySec of the channel
  window         \* the segments FFmpeg's playlist names, oldest first: seconds
                 \* from the start of each to the end of the newest, which are
                 \* the sums of durations that the playlist is cut by

hdVars == <<config, window>>

HdTypeOK ==
  /\ config \in [seg : SegTimes, delay : Delays]
  /\ window \in Seq(Nat \ {0})

HdInit == config \in [seg : SegTimes, delay : Delays] /\ window = << >>

----------------------------------------------------------------------------

Clamp(n, low, high) ==
  LET least == IF n < low THEN low ELSE n
  IN IF least > high THEN high ELSE least

\* Faulty variant: the list is as long as the delay.
EffectiveHlsListSizeExact ==
  LET least == HdCeilDiv(config.delay, Clamp(config.seg, MinSeg, MaxSeg))
  IN Clamp(least, UserList, MaxList)
EffectiveHlsListSize ==
  LET least == HdCeilDiv(config.delay, Clamp(config.seg, MinSeg, MaxSeg)) + Margin
  IN Clamp(least, UserList, MaxList)

\* The muxer ends a segment at the first keyframe after hls_time and forgets the
\* oldest when the list is full.
WriteSegment(duration) ==
  LET grown == Append([i \in DOMAIN window |-> window[i] + duration], duration)
      excess == Len(grown) - EffectiveHlsListSize
  IN window' = IF excess > 0 THEN SubSeq(grown, excess + 1, Len(grown)) ELSE grown

SegmentCut == /\ \E late \in 0..Stretch : WriteSegment(config.seg + late)
              /\ UNCHANGED config

\* A new FFmpeg starts a new playlist.
HdEngineRestart == window # << >> /\ window' = << >> /\ UNCHANGED config

HdNext == SegmentCut \/ HdEngineRestart
HdSpec == HdInit /\ [][HdNext]_hdVars

----------------------------------------------------------------------------
(* rewriteMediaPlaylistDelayed *)

\* How far the end of the playlist lies behind the ingest without its newest n:
\* the durations of these together.
Lag(n) == IF n = 0 THEN 0 ELSE window[Len(window) - n + 1]

\* Segments are dropped from the newest on until they make up the delay.
Dropped ==
  LET enough == {n \in 0..Len(window) : Lag(n) >= config.delay}
  IN IF enough = {} THEN Len(window) ELSE CHOOSE n \in enough : \A m \in enough : n <= m

\* How many of the newest segments the served playlist leaves out: none when
\* nothing would be left.
Hidden == IF Len(window) < 2 \/ Dropped = Len(window) THEN 0 ELSE Dropped

----------------------------------------------------------------------------
\* Once the window is as long as it gets, the served playlist still names a
\* segment, and ends at least the delay but less than one more segment behind the
\* ingest, whatever the segments' lengths.  Only the list FFmpeg is told to keep
\* makes that so: with too short a list the newest segments are served instead.
TrailsWhenFull ==
  Len(window) = EffectiveHlsListSize =>
    /\ Hidden < Len(window)
    /\ Lag(Hidden) >= config.delay
    /\ Lag(Hidden) < config.delay + config.seg + Stretch
=============================================================================
