----------------------------- MODULE Selection -----------------------------
(***************************************************************************)
(* What a loop over a queue leaves of it: the entries of a set, in their   *)
(* order.  It is the library's SelectSeq with a set for the test, written  *)
(* as a recursive function so that it can be reasoned about.               *)
(***************************************************************************)
EXTENDS Naturals, Sequences

\* what the queue holds of a set of entries
Selected(queue, keep) ==
  LET first[i \in 0 .. Len(queue)] ==
        IF i = 0 THEN <<>>
        ELSE IF queue[i] \in keep THEN Append(first[i - 1], queue[i]) ELSE first[i - 1]
  IN first[Len(queue)]
=============================================================================
