----------------------------- MODULE AcceptedHead ---------------------------
(***************************************************************************)
(* What a node promises of the Identity Record it retains under one key,   *)
(* whatever its peers send and however its own calls interleave: the head  *)
(* is only ever replaced by one of higher seq, and the node can show every *)
(* head it accepts from the history it keeps beside it alone.  It does not *)
(* promise that the new head descends from the old one.                    *)
(***************************************************************************)
EXTENDS Naturals, Sequences

CONSTANTS
  Envelope,       \* the envelopes
  None,           \* no envelope
  CanShow(_, _)   \* whether an envelope can be shown from a history

VARIABLES
  head,     \* the retained envelope, None before the first
  history   \* the history retained with it

vars == <<head, history>>

Init == head = None /\ history = <<>>

Accept(e) ==
  /\ head # None => e.seq > head.seq
  /\ head' = e
  /\ history' \in Seq(Envelope)
  /\ CanShow(e, history')

Next == \E e \in Envelope : Accept(e)

Spec == Init /\ [][Next]_vars

=============================================================================
