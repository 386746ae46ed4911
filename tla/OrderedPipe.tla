---------------------------- MODULE OrderedPipe ----------------------------
(***************************************************************************)
(* What a Soul Stream promises its two users (stream.py:7-19): the reader  *)
(* gets a prefix of what the writer put in, in order, without a hole, a    *)
(* repetition or an alteration.                                            *)
(***************************************************************************)
EXTENDS Naturals, Sequences

CONSTANT Item

VARIABLES put, got

Init == put = << >> /\ got = << >>

Put(x) == put' = Append(put, x) /\ UNCHANGED got

Get ==
  /\ Len(got) < Len(put)
  /\ got' = Append(got, put[Len(got) + 1])
  /\ UNCHANGED put

Next == Get \/ \E x \in Item : Put(x)

Spec == Init /\ [][Next]_<<put, got>>
=============================================================================
