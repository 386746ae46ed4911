---------------------------- MODULE MCSoulStream ----------------------------
(* Instances of SoulStream.tla for TLC. *)
EXTENDS SoulStream

\* Three chunks and, between them, an empty one.
MCSource == <<1, 0, 1, 1>>
=============================================================================
