-------------------------- MODULE AddressArrayUtils --------------------------
(***************************************************************************)
(* Address arrays as sequences (lib/AddressArrayUtils.sol).  Solidity's    *)
(* index i is the sequence's i + 1.                                        *)
(***************************************************************************)
EXTENDS Naturals, Sequences, FiniteSets

\* The set of addresses an array lists.
Elements(A) == {A[i] : i \in DOMAIN A}

\* Position of the first occurrence of a, for an array that contains it.
IndexOf(A, a) ==
    CHOOSE i \in DOMAIN A : A[i] = a /\ \A j \in 1 .. (i - 1) : A[j] # a

Contains(A, a) == \E i \in DOMAIN A : A[i] = a

HasDuplicate(A) == \E i, j \in DOMAIN A : i < j /\ A[i] = A[j]

\* Mutations: the last entry is dropped, not the one at index; and the entry is
\* zeroed in place.
PopLast(A, index) == SubSeq(A, 1, Len(A) - 1)
ZeroEntry(A, index) == [A EXCEPT ![index] = 0]

\* The array without the entry at index: what precedes it, then what follows.
Pop(A, index) ==
    [i \in 1 .. (Len(A) - 1) |-> IF i < index THEN A[i] ELSE A[i + 1]]

\* Only the first occurrence goes; the code reverts when there is none, so
\* every caller guards this with Contains.
Remove(A, a) == Pop(A, IndexOf(A, a))

\* How many times a loop over A visits a.
Occurrences(A, a) == Cardinality({i \in DOMAIN A : A[i] = a})
==============================================================================
