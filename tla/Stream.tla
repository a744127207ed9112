------------------------------- MODULE Stream -------------------------------
(***************************************************************************)
(* What a copy out of the image promises, whatever its chunking: the       *)
(* bytes delivered are, at every moment, a prefix of the range             *)
(* [location, location + length) of the image, and the copy ends in one of *)
(* three ways: the whole range was delivered, the receiver hung up, or the *)
(* copy failed.                                                            *)
(***************************************************************************)
EXTENDS Naturals, Sequences, ImageRange

VARIABLES
  range,      \* <<location, length>> of the copied file
  sent,       \* the bytes the receiver got, in order
  ending      \* "running", "whole", "hungup" or "failed"

vars == <<range, sent, ending>>

Init ==
  /\ range \in Nat \X Nat
  /\ sent = <<>>
  /\ ending = "running"

(* Some more of the range reaches the receiver.                            *)
Deliver ==
  /\ ending = "running"
  /\ \E n \in Len(sent)..range[2] : sent' = Span(range[1], n)
  /\ UNCHANGED <<range, ending>>

Finish ==
  /\ ending = "running"
  /\ sent = Span(range[1], range[2])
  /\ ending' = "whole"
  /\ UNCHANGED <<range, sent>>

(* The receiver hangs up or the copy fails: what was sent stays sent.      *)
GiveUp ==
  /\ ending = "running"
  /\ ending' \in {"hungup", "failed"}
  /\ UNCHANGED <<range, sent>>

Next == Deliver \/ Finish \/ GiveUp

Spec == Init /\ [][Next]_vars
=============================================================================
