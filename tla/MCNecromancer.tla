--------------------------- MODULE MCNecromancer ---------------------------
(* Instances of Necromancer.tla for TLC. *)
EXTENDS Necromancer, TLC

CONSTANTS k1, k2, m1, m2, h0, h1, s1, s2, o1, o2

\* m1 and m2 hold different keys; the mask of k2 turns the magic into the
\* first four bytes of the poison pill.
MCMaskOf == (k1 :> "other") @@ (k2 :> "deadbeef")

OneKeyOf     == m1 :> k2
OneAntiDebug == m1 :> FALSE
OneMaxTamper == m1 :> 1

\* Two instances with different keys; one of them looks for a debugger.
RivalKeyOf     == (m1 :> k1) @@ (m2 :> k2)
RivalAntiDebug == (m1 :> FALSE) @@ (m2 :> TRUE)
RivalMaxTamper == (m1 :> 1) @@ (m2 :> 1)

\* Each signer has signed one object.  To swap both signers and objects changes
\* nothing; nor does swapping the objects, where nobody signs.
MCVouched == (s1 :> {o1}) @@ (s2 :> {o2})
NoneVouched == [s \in {} |-> {}]
SignerSymmetry ==
  {p \in Permutations({s1, s2, o1, o2}) :
     \A s \in {s1, s2} :
       p[s] \in {s1, s2} /\ MCVouched[p[s]] = {p[o] : o \in MCVouched[s]}}
ObjectSymmetry == Permutations({o1, o2})

\* Two instances that share a key: one that survives a failure and never looks
\* for a debugger, one that does and whose max_tamper = 0 makes the first
\* failure fatal.
TwoKeyOf     == (m1 :> k1) @@ (m2 :> k1)
TwoAntiDebug == (m1 :> FALSE) @@ (m2 :> TRUE)
TwoMaxTamper == (m1 :> 2) @@ (m2 :> 0)
=============================================================================
