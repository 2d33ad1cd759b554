------------------------- MODULE ServingEligibility -------------------------
(***************************************************************************)
(* RoutingEligibility and install_dht_serving_eligibility: which peers a   *)
(* node admits to its routing table and refers others to, and whether it   *)
(* serves the Kademlia protocol itself.                                    *)
(*                                                                         *)
(* A peer is eligible for SERVING_PROOF_TTL_SECONDS after a complete valid *)
(* reply of it was observed; BoundedStream models how a stream observes    *)
(* one.  The KadDHT routing table is outside the repository: its add_peer  *)
(* takes time and may refuse, and it drops peers of its own accord.        *)
(* Tasks interleave at every await: at add_peer, at the KadDHT part of     *)
(* switch_mode, and between a stream's negotiation and its handler.        *)
(***************************************************************************)
EXTENDS Integers, FiniteSets

CONSTANTS
  Peer,
  MaxPeers,    \* MAX_ELIGIBLE_PEERS
  TTL,         \* SERVING_PROOF_TTL_SECONDS
  MaxStreams,  \* bound: inbound streams at one time, negotiated and handled
  None

ASSUME ServingAssumption ==
  /\ IsFiniteSet(Peer)
  /\ MaxPeers \in Nat \ {0}
  /\ TTL \in Nat \ {0}
  /\ MaxStreams \in Nat
  /\ None \notin Int

VARIABLES
  expires,    \* _expires: time left of each peer's proof, 0 when it is over,
              \* None for a peer without an entry
  table,      \* the peers of the KadDHT routing table
  adding,     \* the peers whose original add_peer is awaited
  mode,       \* dht.mode
  switching,  \* the modes that switch_mode calls in progress are switching to
  nodeMode,   \* Libp2pKadDHT._dht_mode, set by on_mode_changed
  handler,    \* whether inbound_handler is registered
  arriving,   \* inbound streams negotiated whose handler has yet to run
  serving,    \* inbound streams that dht.handle_stream is serving
  age,        \* history variable: time since each peer's last valid reply,
              \* None without one since the last mode switch
  referral    \* history variable: what the last step referred to

tables == <<expires, table, adding>>
modes == <<mode, switching, nodeMode, handler>>
vars == <<tables, modes, arriving, serving, age, referral>>

Mode == {"client", "server"}

Cached == {p \in Peer : expires[p] # None}
Fresh == {p \in Cached : expires[p] > 0}

NoReferral == [count |-> 0, peers |-> {}, known |-> {}]

\* Constructing the eligibility empties the routing table.
Init ==
  /\ expires = [p \in Peer |-> None]
  /\ table = {} /\ adding = {}
  /\ mode \in Mode /\ switching = {} /\ nodeMode = mode
  /\ handler = (mode = "server")
  /\ arriving = 0 /\ serving = 0
  /\ age = [p \in Peer |-> None]
  /\ referral = NoReferral

-----------------------------------------------------------------------------
(* Proofs and admission.                                                   *)

\* Mutant of Full: the limit is noticed one entry late.
OverFull(p) == expires[p] = None /\ Cardinality(Cached) > MaxPeers

Full(p) == expires[p] = None /\ Cardinality(Cached) >= MaxPeers

\* Mutant of Oldest: the newest proof is evicted.
Newest == {p \in Cached : \A q \in Cached : expires[q] <= expires[p]}

\* min(self._expires, key=...): any of them when proofs are of the same age
Oldest == {p \in Cached : \A q \in Cached : expires[p] <= expires[q]}

\* Mutant of Renewed: a further reply prolongs a proof that is still good.
Prolonged(p) == IF p \in Fresh THEN expires[p] + TTL ELSE TTL

\* The time a proof of p is good for from now.
Renewed(p) == TTL

\* record_valid_response up to its await: a stream observed a valid reply of p
RecordValidResponse(p) ==
  /\ \/ /\ ~Full(p)
        /\ expires' = [expires EXCEPT ![p] = Renewed(p)]
        /\ UNCHANGED table
     \/ /\ Full(p)
        /\ \E old \in Oldest :
             /\ expires' = [expires EXCEPT ![old] = None, ![p] = Renewed(p)]
             /\ table' = table \ {old}
  /\ adding' = adding \cup {p}
  /\ age' = [age EXCEPT ![p] = 0]
  /\ referral' = NoReferral
  /\ UNCHANGED <<modes, arriving, serving>>

\* is_eligible of the peers in ps drops those whose proof is over.
Drop(ps) ==
  LET over == {p \in ps : expires[p] = 0}
  IN /\ expires' = [p \in Peer |-> IF p \in over THEN None ELSE expires[p]]
     /\ table' = table \ over

\* _guarded_add up to its await: KadDHT proposes p
GuardedAdd(p) ==
  /\ Drop({p})
  /\ adding' = IF p \in Fresh THEN adding \cup {p} ELSE adding
  /\ referral' = NoReferral
  /\ UNCHANGED <<modes, arriving, serving, age>>

\* The original add_peer ends; it took p or not.
EndAdd(p) ==
  /\ p \in adding
  /\ adding' = adding \ {p}
  /\ table' \in {table, table \cup {p}}
  /\ referral' = NoReferral
  /\ UNCHANGED <<expires, modes, arriving, serving, age>>

\* KadDHT drops p from its routing table.
TableDrops(p) ==
  /\ p \in table
  /\ table' = table \ {p}
  /\ referral' = NoReferral
  /\ UNCHANGED <<expires, adding, modes, arriving, serving, age>>

\* Mutant of Looked: as many peers are looked at as are asked for.
LookedAtFew(count) == count

\* How many peers _guarded_find takes from the table: all of them.
Looked(count) == IF count > Cardinality(table) THEN count ELSE Cardinality(table)

AtMost(n, s) == IF Cardinality(s) < n THEN Cardinality(s) ELSE n

\* _guarded_find for a key: the table yields the closest peers, which of them
\* these are depends on the key.
GuardedFind(count) ==
  /\ \E near \in SUBSET table :
       /\ Cardinality(near) = AtMost(Looked(count), table)
       /\ Drop(near)
       /\ \E found \in SUBSET (near \cap Fresh) :
            /\ Cardinality(found) = AtMost(count, near \cap Fresh)
            /\ referral' = [count |-> count, peers |-> found,
                            known |-> table \cap Fresh]
  /\ UNCHANGED <<adding, modes, arriving, serving, age>>

\* Time passes; ages are counted up to TTL.
Tick ==
  /\ expires' = [p \in Peer |-> IF p \in Fresh THEN expires[p] - 1 ELSE expires[p]]
  /\ age' = [p \in Peer |-> IF age[p] = None \/ age[p] = TTL THEN age[p]
                            ELSE age[p] + 1]
  /\ referral' = NoReferral
  /\ UNCHANGED <<table, adding, modes, arriving, serving>>

-----------------------------------------------------------------------------
(* The mode and the inbound handler.                                       *)

\* The KadDHT part of switch_mode, which may clean its routing table.
BeginSwitch(m) ==
  /\ m \notin switching
  /\ switching' = switching \cup {m}
  /\ mode' = m
  /\ table' \in {table, {}}
  /\ referral' = NoReferral
  /\ UNCHANGED <<expires, adding, nodeMode, handler, arriving, serving, age>>

\* Mutant of Registered: the handler follows the mode this call switched to.
RegisteredForCall(m) == m = "server"

\* register_handler, after a switch to m
Registered(m) == mode = "server"

\* Mutant of Forget: the routing table is cleared and the proofs stay.
ForgetTable == table' = table \ Cached /\ UNCHANGED expires

\* RoutingEligibility.clear
Forget ==
  /\ table' = table \ Cached
  /\ expires' = [p \in Peer |-> None]

EndSwitch(m) ==
  /\ m \in switching
  /\ switching' = switching \ {m}
  /\ Forget
  /\ handler' = Registered(m)
  /\ nodeMode' = m
  /\ age' = [p \in Peer |-> None]
  /\ referral' = NoReferral
  /\ UNCHANGED <<adding, mode, arriving, serving>>

\* The host negotiates an inbound stream with the registered handler.
Negotiate ==
  /\ handler /\ arriving < MaxStreams
  /\ arriving' = arriving + 1
  /\ referral' = NoReferral
  /\ UNCHANGED <<tables, modes, serving, age>>

\* Mutant of Serves: a stream is served because its handler was registered.
ServesAlways == TRUE

Serves == mode # "client"

\* inbound_handler starts: it serves the stream or closes it
Handle ==
  /\ arriving > 0 /\ (Serves => serving < MaxStreams)
  /\ arriving' = arriving - 1
  /\ serving' = IF Serves THEN serving + 1 ELSE serving
  /\ referral' = NoReferral
  /\ UNCHANGED <<tables, modes, age>>

\* dht.handle_stream ends, however it does, and the stream is closed.
EndHandle ==
  /\ serving > 0
  /\ serving' = serving - 1
  /\ referral' = NoReferral
  /\ UNCHANGED <<tables, modes, arriving, age>>

Next ==
  \/ \E p \in Peer : RecordValidResponse(p) \/ GuardedAdd(p) \/ EndAdd(p) \/ TableDrops(p)
  \/ \E count \in 1..Cardinality(Peer) : GuardedFind(count)
  \/ Tick
  \/ \E m \in Mode : BeginSwitch(m) \/ EndSwitch(m)
  \/ Negotiate \/ Handle \/ EndHandle

Spec == Init /\ [][Next]_vars

-----------------------------------------------------------------------------
Time == 0..TTL \cup {None}

TypeOK ==
  /\ expires \in [Peer -> Time]
  /\ table \subseteq Peer /\ adding \subseteq Peer
  /\ mode \in Mode /\ switching \subseteq Mode /\ nodeMode \in Mode
  /\ handler \in BOOLEAN
  /\ arriving \in Nat /\ serving \in Nat
  /\ age \in [Peer -> Time]
  /\ referral \in [count : Nat, peers : SUBSET Peer, known : SUBSET Peer]

\* The proofs kept never exceed MAX_ELIGIBLE_PEERS, in whatever order they
\* arrive, expire, and are evicted or cleared.
AtMostCapacity == Cardinality(Cached) <= MaxPeers

\* Every peer referred to has sent a complete valid reply less than the TTL
\* ago and since the last mode switch, although add_peer calls that were
\* awaited then may have put others into the table afterwards.
ReferredAreServing ==
  \A p \in referral.peers : age[p] # None /\ age[p] < TTL

\* Peers without a valid proof that are still in the routing table take no
\* place in an answer: as many eligible peers are referred to as the table
\* has, up to the count asked for.
FullReferral ==
  Cardinality(referral.peers) = AtMost(referral.count, referral.known)

\* Making room for a new proof never costs a peer whose own proof is still
\* good while one that is over stays in the cache.
FreshOutlivesStale ==
  [][\A p \in Peer : RecordValidResponse(p) =>
       \A q \in Fresh : expires'[q] = None =>
         ~ \E r \in Cached : expires[r] = 0 /\ expires'[r] # None]_vars

\* When no switch is in progress the inbound handler is registered exactly in
\* server mode, also when switches overlapped.
HandlerFollowsMode == switching = {} => handler = (mode = "server")

\* From the moment the DHT is a client, no further stream is served: neither
\* one negotiated before the handler was removed nor one that arrives while
\* the switch is in progress.
ClientStopsServing == [][mode = "client" => serving' <= serving]_vars

=============================================================================
