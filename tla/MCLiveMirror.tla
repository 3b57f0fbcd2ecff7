---------------------------- MODULE MCLiveMirror ----------------------------
(* Small instances of LiveMirror for TLC; the configurations choose them.  *)
EXTENDS LiveMirror, TLC

\* The windows of a machine are interchangeable.
WindowSymmetry == Permutations(Instances)
=============================================================================
