------------------------------ MODULE Sequencing ------------------------------
(***************************************************************************)
(* Sequences of whatever there is: Seq(S) without an S.                    *)
(***************************************************************************)
EXTENDS Naturals, Sequences

IsSeq(s) == Len(s) \in Nat /\ s = [i \in 1 .. Len(s) |-> s[i]]
==============================================================================
