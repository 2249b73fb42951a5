--------------------------- MODULE MCOnDemandLive ---------------------------
(* Small instances of OnDemandLive for TLC.                                  *)
EXTENDS OnDemandLive, TLC

CONSTANTS FormatOf, ModeOf

AllFormats == [c \in Channels |-> FormatOf]
AllModes == [c \in Channels |-> ModeOf]
Symmetry == Permutations(Procs) \cup Permutations(Runs) \cup Permutations(Callers)
=============================================================================
