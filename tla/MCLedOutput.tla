---------------------------- MODULE MCLedOutput ----------------------------
(* Three LEDs: one that reports change and two that MIDI changes.          *)
EXTENDS LedOutput

CONSTANTS pad1, pad2, pad3

ThreeLeds == <<pad1, pad2, pad3>>
=============================================================================
