------------------------------ MODULE CatNode -------------------------------
(***************************************************************************)
(* `cat_node` (src/lib.rs): stream one file of the image to a writer in    *)
(* chunks.  The loop reads a chunk with `read_exact` and hands it on with  *)
(* `write_all`; both are loops over calls that may move fewer bytes than   *)
(* asked for, fail, or find the end of the image or a closed pipe, and     *)
(* each such call is a step here.                                          *)
(***************************************************************************)
EXTENDS CopyLoop

CONSTANT Nodes  \* the TreeNodes that are passed: see NodesAssumption

ASSUME NodesAssumption ==
  Nodes \subseteq [is_directory  : BOOLEAN,
                   file_location : Nat \cup {NoValue},
                   file_length   : Nat \cup {NoValue}]

\* pc is "open", "read", "write" or "done"; result ends as "Ok", "Pipe" (an
\* Ok too) or "Err".
VARIABLES
  node,        \* the argument
  drained,     \* how much of buffer write_all has handed on
  sent         \* what the writer received

catVars == <<node, pc, pos, remaining, buffer, drained, sent, result>>

Location == node.file_location
Length == node.file_length

(* The node passes both checks cat_node starts with.                       *)
NodeHasRange ==
  ~node.is_directory /\ Location # NoValue /\ Length # NoValue

(* Mutant: the last chunk is as long as the others.                        *)
UncappedRead == Chunk

(* What one iteration moves: remaining.min(EXTRACT_CHUNK_SIZE).            *)
toRead == Minimum(remaining, Chunk)

CatInit ==
  /\ node \in Nodes
  /\ pc = "open"
  /\ pos = 0
  /\ remaining = 0
  /\ buffer = <<>>
  /\ drained = 0
  /\ sent = <<>>
  /\ result = "none"

(* Every return statement: nothing else changes.                           *)
Return(outcome) ==
  /\ pc' = "done"
  /\ result' = outcome

(* A directory, or a node the parser could not locate, is an error.        *)
Refuse ==
  /\ pc = "open"
  /\ ~NodeHasRange
  /\ Return("Err")
  /\ UNCHANGED <<node, pos, remaining, buffer, drained, sent>>

Seek ==
  /\ pc = "open"
  /\ NodeHasRange
  /\ pos' = Location
  /\ remaining' = Length
  /\ pc' = "read"
  /\ UNCHANGED <<node, buffer, drained, sent, result>>

SeekFails ==
  /\ pc = "open"
  /\ NodeHasRange
  /\ Return("Err")
  /\ UNCHANGED <<node, pos, remaining, buffer, drained, sent>>

(* One `read` inside read_exact: one byte up to all that is still wanted.  *)
Read ==
  /\ pc = "read" /\ remaining > 0
  /\ \E n \in 1..(toRead - Len(buffer)) :
       /\ pos + n <= ImageSize
       /\ buffer' = buffer \o Span(pos, n)
       /\ pos' = pos + n
       /\ pc' = IF Len(buffer) + n = toRead THEN "write" ELSE "read"
  /\ UNCHANGED <<node, remaining, drained, sent, result>>

(* An I/O error, or the end of the image (UnexpectedEof): `?` returns it.  *)
CatReadFails ==
  /\ pc = "read" /\ remaining > 0
  /\ Return("Err")
  /\ UNCHANGED <<node, pos, remaining, buffer, drained, sent>>

(* write_all is done when it has handed on the whole chunk; with `write`   *)
(* for write_all (the mutant) it would be after any part of it.            *)
AnyPart(n) == TRUE
WholeChunk(n) == drained + n = Len(buffer)

(* One `write` inside write_all.  The chunk counts as handed on only when  *)
(* all of it is: then the next iteration starts with an empty buffer.      *)
Write ==
  /\ pc = "write"
  /\ \E n \in 1..(Len(buffer) - drained) :
       /\ sent' = sent \o SubSeq(buffer, drained + 1, drained + n)
       /\ IF WholeChunk(n)
            THEN /\ remaining' = remaining - toRead
                 /\ buffer' = <<>>
                 /\ drained' = 0
                 /\ pc' = "read"
            ELSE /\ drained' = drained + n
                 /\ UNCHANGED <<remaining, buffer, pc>>
  /\ UNCHANGED <<node, pos, result>>

(* ErrorKind::BrokenPipe is success, every other write error is returned.  *)
CatWriteFails ==
  /\ pc = "write"
  /\ \E outcome \in {"Pipe", "Err"} : Return(outcome)
  /\ UNCHANGED <<node, pos, remaining, buffer, drained, sent>>

LoopEnds ==
  /\ pc = "read" /\ remaining = 0
  /\ Return("Ok")
  /\ UNCHANGED <<node, pos, remaining, buffer, drained, sent>>

CatNext ==
  \/ Refuse \/ Seek \/ SeekFails
  \/ Read \/ CatReadFails
  \/ Write \/ CatWriteFails
  \/ LoopEnds

(* The code is a straight loop: it always takes its next step.             *)
CatSpec == CatInit /\ [][CatNext]_catVars /\ WF_catVars(CatNext)

-----------------------------------------------------------------------------
CatTypeOK ==
  /\ node \in Nodes
  /\ pc \in {"open", "read", "write", "done"}
  /\ pos \in Nat
  /\ remaining \in Nat
  /\ buffer \in Seq(Nat)
  /\ drained \in 0..Len(buffer)
  /\ sent \in Seq(Nat)
  /\ result \in {"none", "Ok", "Pipe", "Err"}

(* The loop's bookkeeping, which makes the safety properties inductive:    *)
(* nothing moves before the loop, and in it the whole chunks sent, the     *)
(* chunk in flight and the reader's cursor always add up to the range.     *)
CatBookkeeping ==
  /\ pc = "done" <=> result # "none"
  /\ pc = "open" => sent = <<>> /\ buffer = <<>> /\ drained = 0
  /\ pc \in {"read", "write"} =>
       LET whole == Length - remaining
       IN  /\ NodeHasRange
           /\ remaining <= Length
           /\ Len(buffer) <= toRead
           /\ pc = "read" =>
                drained = 0 /\ (remaining > 0 => Len(buffer) < toRead)
           /\ pc = "write" => Len(buffer) = toRead /\ drained < Len(buffer)
           /\ pos = Location + whole + Len(buffer)
           /\ buffer = Span(Location + whole, Len(buffer))
           /\ sent = Span(Location, whole + drained)

(* What the writer has is always a prefix of the file's range, and all of  *)
(* it when the function reports Ok on an open pipe; a node without a range *)
(* sends nothing and never ends in Ok.  (lib.rs: "`writer` receives only   *)
(* file bytes".)                                                           *)
PrefixOfRange ==
  IF NodeHasRange
    THEN /\ \E n \in 0..Length : sent = Span(Location, n)
         /\ result = "Ok" => sent = Span(Location, Length)
    ELSE sent = <<>> /\ result \in {"none", "Err"}

(* The reader's cursor never leaves the file's range, so that the copy     *)
(* never reads, and cannot fail on, bytes that are not the file's.         *)
ReadsOnlyRange ==
  (pc \in {"read", "write"} /\ NodeHasRange) =>
     pos >= Location /\ pos <= Location + Length

(* Once the call has returned, with a closed pipe or otherwise, the writer *)
(* is never given another byte, and the verdict stands.                    *)
NothingAfterReturn == [][result = "none"]_<<sent, result>>

(* The chunked loop implements the abstract copy.                          *)
ending ==
  CASE result = "none" -> "running"
    [] result = "Ok"   -> "whole"
    [] result = "Pipe" -> "hungup"
    [] result = "Err"  -> "failed"

Abstract == INSTANCE Stream WITH
  range <- IF NodeHasRange THEN <<Location, Length>> ELSE <<0, 0>>

ImplementsStream == Abstract!Spec
=============================================================================
