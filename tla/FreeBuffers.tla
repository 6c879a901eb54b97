----------------------------- MODULE FreeBuffers ------------------------------
(***************************************************************************)
(* Free buffers, in the order in which they were given back, the last one    *)
(* first: which of them serves a request, and which of them are released     *)
(* when memory is reclaimed (mlx/backend/common/buffer_cache.h).             *)
(***************************************************************************)
EXTENDS Integers, FiniteSets, SequencesExt

CONSTANTS
  Buffer,    \* the buffers that may ever exist
  Length,    \* the length of each
  PageSize,  \* vm_page_size
  Request    \* the sizes clients ask for

ASSUME FreeBuffersAssumption ==
  /\ Length \in [Buffer -> Nat \ {0}]
  /\ PageSize \in Nat \ {0}
  /\ Request \subseteq Nat \ {0}

Bytes(list) == FoldLeft(LAMBDA sum, b : sum + Length[b], 0, list)

(* A wrong variant, for the mutants of PROJECT.json.                         *)
FitsLoosely(n, size) == n < 2 * size /\ n < size + 2 * PageSize

(* A buffer of length n may serve a request of this size: at most twice the  *)
(* size, and at most two pages more.                                         *)
Fits(n, size) == size <= n /\ n < 2 * size /\ n < size + 2 * PageSize

(* Position i holds the best fit for size: a shortest buffer that is long    *)
(* enough, the oldest one of its length.                                     *)
BestFit(list, size, i) ==
  /\ i \in DOMAIN list
  /\ Fits(Length[list[i]], size)
  /\ \A j \in DOMAIN list :
       size <= Length[list[j]] =>
         \/ Length[list[i]] < Length[list[j]]
         \/ Length[list[i]] = Length[list[j]] /\ j <= i

Hit(list, size) == \E i \in DOMAIN list : BestFit(list, size, i)

(* What is left when at least n bytes are released, the oldest first:        *)
(* nothing when that is most of the list, otherwise as much of its front as  *)
(* leaves enough behind it.                                                  *)
Released(list, n) ==
  LET Behind(k) == Bytes(SubSeq(list, k + 1, Len(list)))
      keep == Cardinality({k \in 1..Len(list) : Behind(k) >= n})
  IN  IF 10 * n >= 9 * Bytes(list) THEN <<>> ELSE SubSeq(list, 1, keep)

=============================================================================
