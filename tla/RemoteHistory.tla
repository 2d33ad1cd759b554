---------------------------- MODULE RemoteHistory ---------------------------
(***************************************************************************)
(* How a reader collects the predecessors of an Identity envelope: the     *)
(* backward walk of _read_remote_identity_predecessor_chain, one request   *)
(* after the other, against bootstrap peers whose accepted state changes   *)
(* between two requests.                                                   *)
(*                                                                         *)
(* A peer is a Registry node with a durable store.  Of it the walk sees    *)
(* the accepted head and the history retained with it, from which the hook *)
(* on its value store answers history keys.  The head moves to a successor *)
(* that validate_identity_overwrite accepts, with whatever proofs it came, *)
(* or to a legacy record that a get adopted; a peer may be down, or come   *)
(* back with an empty store; and a request or its answer may be lost.      *)
(***************************************************************************)
EXTENDS AcceptedState

CONSTANTS
  K,           \* the record key
  Peer,        \* bootstrap peers other than the reader
  Order,       \* _bootstrap_peers, in the order they are asked
  MaxHistory   \* MAX_REMOTE_IDENTITY_HISTORY_ENTRIES

ASSUME WalkAssumption ==
  /\ K \in RecordKey
  /\ Order \in Seq(Peer) \ {<<>>}
  /\ \A p \in Peer : \E i \in 1..Len(Order) : Order[i] = p
  /\ MaxHistory \in Nat \ {0}

(* An envelope's state hash is the SHA-256 of its signed update, and all of *)
(* an envelope but its proofs is decoded from that: the record fields, the *)
(* payload, the sequence number and the authorization map, whose presence  *)
(* is the form.                                                            *)
ASSUME HashAssumption ==
  \A x, y \in Envelope : x.update = y.update =>
    /\ x.form = y.form /\ x.kind = y.kind
    /\ x.key = y.key /\ x.owner = y.owner
    /\ x.payload = y.payload /\ x.seq = y.seq
    /\ x.op = y.op /\ x.epoch = y.epoch
    /\ x.threshold = y.threshold /\ x.signers = y.signers
    /\ x.pred = y.pred

VARIABLES
  env,     \* the accepted envelope of each peer, None if it has none
  chain,   \* the history each peer retains with it
  up,      \* the peers that can be reached
  walk,    \* the reader's walk
  genuine, \* history variable: the walk started at a state some peer held
  loyal    \* history variable: the peers that held that state when the walk
           \* started and since then have answered and kept to their line

peers == <<env, chain, up>>
vars == <<peers, walk, genuine, loyal>>

\* found is the chain collected so far, oldest entry first; ask the position
\* in Order of the next peer to be asked for the predecessor of found[1]; end
\* how the walk ended.
NoWalk == [pc |-> "idle", found |-> <<>>, ask |-> 1, end |-> "none"]

Init ==
  /\ env = [p \in Peer |-> None]
  /\ chain = [p \in Peer |-> <<>>]
  /\ up = Peer
  /\ walk = NoWalk
  /\ genuine = FALSE /\ loyal = {}

-----------------------------------------------------------------------------
(* The peers.                                                              *)

\* Mutant of Retained: the head is all that a peer serves by hash.
HeadOnly(p) == IF env[p] = None THEN {} ELSE {env[p]}

\* The envelopes peer p serves by hash: its history, or its head when it
\* retains none.
Retained(p) ==
  IF env[p] = None THEN {}
  ELSE IF chain[p] = <<>> THEN {env[p]}
  ELSE {chain[p][i] : i \in 1..Len(chain[p])}

\* _get_durable_identity_envelope_by_hash
Served(p, hash) ==
  {e \in Retained(p) : e.update = hash /\ IdentityGet(K, env[p], chain[p])}

Accept(p, e) ==
  /\ IdentityOverwrite(K, e, env[p], chain[p])
  /\ env' = [env EXCEPT ![p] = e]
  /\ chain' = [chain EXCEPT ![p] = AcceptedHistory(e, env[p], chain[p])]
  /\ loyal' = IF IsMultisig(e) THEN loyal ELSE loyal \ {p}
  /\ UNCHANGED <<up, walk, genuine>>

\* A get on the peer retains a newer legacy record (IdentityNode).
Adopt(p, e) ==
  /\ LegacyState(K, e) /\ e.kind = "identity"
  /\ env[p] # None => e.seq > env[p].seq
  /\ env' = [env EXCEPT ![p] = e]
  /\ chain' = [chain EXCEPT ![p] = <<>>]
  /\ loyal' = loyal \ {p}
  /\ UNCHANGED <<up, walk, genuine>>

Crash(p) ==
  /\ p \in up
  /\ up' = up \ {p}
  /\ loyal' = loyal \ {p}
  /\ UNCHANGED <<env, chain, walk, genuine>>

\* The peer comes back with its durable store, or with an empty one.
Restart(p) ==
  /\ p \notin up
  /\ up' = up \cup {p}
  /\ \/ UNCHANGED <<env, chain>>
     \/ /\ env' = [env EXCEPT ![p] = None]
        /\ chain' = [chain EXCEPT ![p] = <<>>]
  /\ UNCHANGED <<walk, genuine, loyal>>

-----------------------------------------------------------------------------
(* The walk.                                                               *)

\* Mutant of TooLong: one entry too many is collected.
OneTooLong(found) == Len(found) > MaxHistory

TooLong(found) == Len(found) >= MaxHistory

\* Mutant of Extended: the collected chain is not turned round at the end.
NotReversed(found, e) == Append(found, e)

Extended(found, e) == <<e>> \o found

Ended(found, end) == [pc |-> "done", found |-> found, ask |-> 1, end |-> end]

\* One turn of the loop: envelope e is looked at after found was collected.
Visit(found, e) ==
  IF \E i \in 1..Len(found) : found[i].update = e.update
     THEN Ended(<<>>, "repeated")
  ELSE IF TooLong(found) THEN Ended(<<>>, "tooLong")
  ELSE IF NoPredecessor(e) THEN Ended(Extended(found, e), "complete")
  ELSE IF TooLong(Extended(found, e)) THEN Ended(<<>>, "tooLong")
  ELSE [pc |-> "asking", found |-> Extended(found, e), ask |-> 1, end |-> "none"]

\* The reader starts from an envelope it has read.
Start(e) ==
  /\ walk.pc = "idle"
  /\ walk' = Visit(<<>>, e)
  /\ genuine' = (\E p \in Peer : e \in Retained(p))
  /\ loyal' = {p \in up : \E x \in Retained(p) : x.update = e.update}
  /\ UNCHANGED peers

\* The peer has nothing to offer, or cannot be reached.
NextPeer == IF walk.ask < Len(Order) THEN [walk EXCEPT !.ask = @ + 1]
            ELSE Ended(<<>>, "notFound")

Asked == Order[walk.ask]

\* One turn of the loop of read_remote_identity_envelope_by_hash
Ask ==
  /\ walk.pc = "asking"
  /\ LET answers == IF Asked \in up THEN Served(Asked, walk.found[1].pred) ELSE {}
     IN  \/ /\ answers = {}
            /\ walk' = NextPeer
         \/ \E e \in answers : walk' = Visit(walk.found, e)
  /\ UNCHANGED <<peers, genuine, loyal>>

\* The request or its answer is lost, and the attempt fails.
Lose ==
  /\ walk.pc = "asking"
  /\ walk' = NextPeer
  /\ loyal' = loyal \ {Asked}
  /\ UNCHANGED <<peers, genuine>>

\* trio.move_on_after, or more than MAX_REMOTE_IDENTITY_HISTORY_BYTES
GiveUp ==
  /\ walk.pc = "asking"
  /\ walk' = Ended(<<>>, "gaveUp")
  /\ UNCHANGED <<peers, genuine, loyal>>

Finish ==
  /\ walk.pc = "done"
  /\ walk' = NoWalk
  /\ genuine' = FALSE /\ loyal' = {}
  /\ UNCHANGED peers

Next ==
  \/ \E p \in Peer :
       \/ \E e \in Envelope : Accept(p, e) \/ Adopt(p, e)
       \/ Crash(p) \/ Restart(p)
  \/ \E e \in Envelope : Start(e)
  \/ Ask \/ Lose \/ GiveUp \/ Finish

Spec == Init /\ [][Next]_vars

-----------------------------------------------------------------------------
End == {"none", "repeated", "tooLong", "complete", "notFound", "gaveUp"}

TypeOK ==
  /\ env \in [Peer -> Envelope \cup {None}]
  /\ chain \in [Peer -> Seq(Envelope)]
  /\ up \subseteq Peer /\ loyal \subseteq Peer
  /\ walk \in [pc : {"idle", "asking", "done"}, found : Seq(Envelope),
               ask : 1..Len(Order), end : End]
  /\ genuine \in BOOLEAN

Complete == walk.end = "complete"

\* A completed walk has put together one of the chains that IdentityNode
\* takes a remote read to yield, of at most MAX_REMOTE_IDENTITY_HISTORY_ENTRIES
\* entries.
CollectsBoundChain == Complete => walk.found \in BoundChains(MaxHistory)

\* The entries of one walk may come from different peers, with different
\* proofs, and from lines that no peer holds any more when the walk ends; yet
\* the history collected for a state that some peer had accepted passes the
\* reader's validation (confirm_identity_owner_key_rotation, get).
CollectedReplays ==
  Complete /\ genuine =>
    IdentityGet(K, walk.found[Len(walk.found)], walk.found)

\* A predecessor is reported missing only when no peer could be relied on: one
\* that holds the state at the start, answers and only moves forward is
\* enough, wherever it stands in the order and whatever the others do.
OneLoyalPeerSuffices == walk.end = "notFound" => loyal = {}

=============================================================================
