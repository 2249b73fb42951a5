----------------------------- MODULE EngineSlot -----------------------------
(* What on-demand playback promises about the FFmpeg processes of a channel: *)
(* one at most is at work; the next is launched only when none is, or in the *)
(* same turn that dismisses it; the dismissed ones fade out beside it.       *)
EXTENDS Naturals

CONSTANT Channels

VARIABLES
  working,  \* how many FFmpeg of each channel were not told to stop
  fading    \* how many were told to stop and have not ended yet

slotVars == <<working, fading>>

SlotInit ==
  /\ working = [c \in Channels |-> 0]
  /\ fading = [c \in Channels |-> 0]

Launch(c) ==
  /\ working[c] = 0
  /\ working' = [working EXCEPT ![c] = 1]
  /\ UNCHANGED fading

Cease(c) ==
  /\ working[c] = 1
  /\ working' = [working EXCEPT ![c] = 0]
  /\ UNCHANGED fading

Dismiss(c) ==
  /\ working[c] = 1
  /\ working' = [working EXCEPT ![c] = 0]
  /\ fading' = [fading EXCEPT ![c] = @ + 1]

Replace(c) ==
  /\ working[c] = 1
  /\ fading' = [fading EXCEPT ![c] = @ + 1]
  /\ UNCHANGED working

Fade(c) ==
  /\ fading[c] > 0
  /\ fading' = [fading EXCEPT ![c] = @ - 1]
  /\ UNCHANGED working

SlotNext ==
  \E c \in Channels : Launch(c) \/ Cease(c) \/ Dismiss(c) \/ Replace(c) \/ Fade(c)

SlotSpec == SlotInit /\ [][SlotNext]_slotVars
=============================================================================
