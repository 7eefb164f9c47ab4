-------------------------------- MODULE Sieve --------------------------------
(***************************************************************************)
(* The elements of a sequence that are in a set, in their order: SelectSeq *)
(* with a set in place of an operator, defined so that it can be expanded  *)
(* in a proof.                                                             *)
(***************************************************************************)
EXTENDS Naturals, Sequences

Sieve(q, keep) ==
    LET f[i \in 0..Len(q)] ==
            IF i = 0 THEN <<>>
            ELSE IF q[i] \in keep THEN Append(f[i - 1], q[i]) ELSE f[i - 1]
    IN  f[Len(q)]
=============================================================================
