----------------------------- MODULE MCReverter -----------------------------
(***************************************************************************)
(* Instances of Reverter for TLC.  Files are interchangeable, and so are   *)
(* contents: no action compares them with anything but each other.         *)
(***************************************************************************)
EXTENDS Reverter, TLC

Alike == Permutations(File) \cup Permutations(Content)
=============================================================================
