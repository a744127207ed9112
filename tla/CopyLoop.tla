------------------------------ MODULE CopyLoop ------------------------------
(***************************************************************************)
(* What the two loops of src/lib.rs that copy a file out of the image in   *)
(* chunks, cat_node (CatNode) and extract_file_at (Extract), have in       *)
(* common: the parameters, the reader's cursor and the chunk in flight.    *)
(***************************************************************************)
EXTENDS Naturals, Sequences, ImageRange

CONSTANTS
  Chunk,       \* EXTRACT_CHUNK_SIZE: 8 MiB in the code
  ImageSize,   \* number of bytes of the image
  NoValue      \* stands for `None`

ASSUME ChunkAssumption == Chunk \in Nat \ {0}
ASSUME ImageAssumption == ImageSize \in Nat
ASSUME NoValueAssumption == NoValue \notin Nat

VARIABLES
  pc,          \* where the call is
  pos,         \* cursor of the reader
  remaining,   \* bytes of the file not yet handed on in full chunks
  buffer,      \* what has been read of the chunk and not yet handed on
  result       \* "none" while the call runs
=============================================================================
