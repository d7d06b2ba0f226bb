------------------------------- MODULE Lists -------------------------------
(***************************************************************************)
(* The TAILQ macros the server's lists and queues are built with           *)
(* (deps/queue.h), on sequences.                                           *)
(***************************************************************************)
EXTENDS Integers, Sequences, SequencesExt

\* The variants named Defect... are explained in module Subscription.

\* The position of element x. TAILQ elements know theirs.
IndexOf(list, x) == CHOOSE i \in DOMAIN list : list[i] = x

DefectRemoveFirst(list, x) == Tail(list)

\* TAILQ_REMOVE of element x.
Without(list, x) == RemoveAt(list, IndexOf(list, x))

\* A walk through the list that removes the elements in S.
Excluding(list, S) ==
    LET kept[i \in 0..Len(list)] ==
            IF i = 0 THEN <<>>
            ELSE IF list[i] \in S THEN kept[i - 1] ELSE Append(kept[i - 1], list[i])
    IN kept[Len(list)]

\* TAILQ_REMOVE of the last element.
DropLast(list) == SubSeq(list, 1, Len(list) - 1)
=============================================================================
