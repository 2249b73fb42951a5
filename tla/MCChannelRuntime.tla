-------------------------- MODULE MCChannelRuntime --------------------------
(* Small instances of ChannelRuntime for TLC.                                *)
EXTENDS ChannelRuntime, TLC

CONSTANTS
  FormatOf, ModeOf,   \* output and mode of every channel but those of Hls
  Hls                 \* channels with an HLS output

AllFormats == [c \in Channels |-> IF c \in Hls THEN "hls" ELSE FormatOf]
AllModes == [c \in Channels |-> ModeOf]
Symmetry == Permutations(Procs) \cup Permutations(Runs)

\* A panel with all its channels, whose sources have been inspected before.
AllLoaded ==
  /\ Init
  /\ channels = Channels
  /\ preDetectDone = [c \in Channels |-> TRUE]
  /\ \A p \in Procs : proc[p].chan = CHOOSE c \in Channels : TRUE

LoadedSpec == AllLoaded /\ [][Next]_vars
=============================================================================
