---------------------------- MODULE MCRingbuffer ----------------------------
(* Two threads on a storage of four slots, so that both pointers wrap      *)
(* around while the other thread is anywhere in its operation.             *)
EXTENDS Ringbuffer

CONSTANTS a, b, c
=============================================================================
