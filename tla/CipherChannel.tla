--------------------------- MODULE CipherChannel ---------------------------
(***************************************************************************)
(* What a cipher promises the two ends that share its key: the receiver    *)
(* comes to hold the blocks that were sent, each once and in their order,  *)
(* and nothing else.                                                       *)
(***************************************************************************)
EXTENDS Naturals, Sequences

CONSTANT Messages   \* sequences of blocks

VARIABLES sent, received

Init == sent \in Messages /\ received = <<>>

Deliver ==
  /\ Len(received) < Len(sent)
  /\ received' = Append(received, sent[Len(received) + 1])
  /\ UNCHANGED sent

Spec == Init /\ [][Deliver]_<<sent, received>>
=============================================================================
