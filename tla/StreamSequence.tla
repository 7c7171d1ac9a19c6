--------------------------- MODULE StreamSequence ---------------------------
(***************************************************************************)
(* The wrapping order of stream sequence numbers (runtime.py,              *)
(* sequence_is_newer).  The code works modulo 2^32; SeqMod is that modulus *)
(* and SeqMod \div 2 the half range, so that the order can be checked on a *)
(* small modulus and proved for every one.                                 *)
(***************************************************************************)
EXTENDS Integers

CONSTANT SeqMod
ASSUME SeqModAssumption == SeqMod \in Nat \ {0} /\ SeqMod % 2 = 0

SeqNum == 0 .. SeqMod - 1

\* (candidate - previous) & _MAX_SEQUENCE
Difference(candidate, previous) == (candidate - previous) % SeqMod

SequenceIsNewer(candidate, previous) ==
    /\ 0 < Difference(candidate, previous)
    /\ Difference(candidate, previous) < SeqMod \div 2
=============================================================================
