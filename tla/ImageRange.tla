----------------------------- MODULE ImageRange -----------------------------
(***************************************************************************)
(* Byte ranges of the image.  A byte of the image is identified with its   *)
(* offset, so that a byte skipped, repeated or taken from the wrong place  *)
(* makes a different sequence.                                             *)
(***************************************************************************)
EXTENDS Naturals, Sequences

(* The `count` bytes of the image from offset `from` on.                   *)
Span(from, count) == [i \in 1..count |-> from + i - 1]

Minimum(a, b) == IF a <= b THEN a ELSE b
=============================================================================
