----------------------------- MODULE MCUploads ------------------------------
(* Instances of Uploads for TLC, in which there is one content of a size,    *)
(* and the sizes are chosen around those that fill a chunk.                  *)
EXTENDS Uploads, TLC

MCSizeOf == [d \in Content |-> d]

Symmetry == Permutations(File)
=============================================================================
