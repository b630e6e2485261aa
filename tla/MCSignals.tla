----------------------------- MODULE MCSignals ------------------------------
EXTENDS Signals, TLC

CONSTANTS a1, a2, a3, INT, HUP

\* Two sets that overlap, and a third one inside them.
Overlap == (a1 :> {INT}) @@ (a2 :> {INT, HUP}) @@ (a3 :> {HUP})
=============================================================================
