----------------------------- MODULE MCRingLadder -----------------------------
(* Small instances of RingLadder: two phones, one or two rungs. *)
EXTENDS RingLadder

CONSTANTS Kitchen, Den

MCHandset == {Kitchen, Den}

\* Both phones at once, and nothing after.
OneRung == <<{Kitchen, Den}>>

\* One phone, then the other: a handoff with a late answer in it.
Relay == <<{Kitchen}, {Den}>>

\* Both phones, then one of them again: siblings and a handoff.
TwoRungs == <<{Kitchen, Den}, {Kitchen}>>
=============================================================================
