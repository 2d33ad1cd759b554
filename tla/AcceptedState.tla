---------------------------- MODULE AcceptedState ---------------------------
(***************************************************************************)
(* Which of two copies of a record is current.  Both node modules compare  *)
(* what the DHT yielded, or what the value store holds, with the durable   *)
(* copy, in that order.                                                    *)
(***************************************************************************)
EXTENDS RecordValidator, DurableStore

\* _select_newest_envelope raises: different updates of equal seq.
Conflict(x, y) ==
  x # None /\ y # None /\ x.seq = y.seq /\ x.update # y.update

\* _select_newest_envelope.  Of two proof sets for one update the second,
\* the durable one, is kept.
SelectNewest(x, y) ==
  IF x = None THEN y
  ELSE IF y = None \/ x.seq > y.seq THEN x ELSE y

\* _history_ending_at
EndingAt(h, e) == IF e # None /\ EndsAt(h, e) THEN h ELSE <<>>

\* _identity_predecessor_state_hash is None
NoPredecessor(e) == e.op \in {"legacy", "genesis"}

\* The histories a reader can put together from envelopes it asks for by state
\* hash: at most n of them, bound by the hash each names as its predecessor,
\* down to one without a predecessor, and no state twice.
BoundChains(n) ==
  { c \in UNION {[1..m -> Envelope] : m \in 1..n} :
      /\ NoPredecessor(c[1])
      /\ \A i \in 2..Len(c) : ~NoPredecessor(c[i]) /\ c[i].pred = c[i - 1].update
      /\ \A i, j \in 1..Len(c) : c[i].update = c[j].update => i = j }

=============================================================================
