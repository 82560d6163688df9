---------------------------- MODULE MCFieldQueue ----------------------------
(* Constants of FieldQueue for TLC; see the cfg files.                     *)
EXTENDS FieldQueue, TLC

\* Two sync passes run the same code (used without liveness properties only).
PassSymmetry == Permutations(Pass)
=============================================================================
