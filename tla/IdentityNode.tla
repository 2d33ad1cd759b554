----------------------------- MODULE IdentityNode ---------------------------
(***************************************************************************)
(* Libp2pKadDHT: how one node reads, writes and retains the Identity       *)
(* Record of key K.                                                        *)
(*                                                                         *)
(* The node is one trio event loop.  Between two awaits a task runs alone, *)
(* so a step of the model is the code from one await to the next.  A put   *)
(* or a get holds _accepted_lock from its first await to its end (op); the *)
(* handlers of inbound PUT_VALUE and GET_VALUE requests and the            *)
(* confirmation of an owner rotation take no lock and run between the      *)
(* steps of op.                                                            *)
(*                                                                         *)
(* KadDHT, its value store and the peers are outside the repository.  They *)
(* appear as: the in-memory value of the key (cached), which may expire;   *)
(* get_value, which yields nothing, the local value, or a network value    *)
(* that the registered validator accepts, which it may also cache; direct  *)
(* reads from bootstrap peers, which may yield any envelope; and any       *)
(* PUT_VALUE at any time.                                                  *)
(***************************************************************************)
EXTENDS AcceptedState

CONSTANTS
  K,           \* the record key
  Durable,     \* whether the node has a durable store
  Server,      \* whether it is a DHTMode.SERVER (or a CLIENT)
  MaxHistory   \* MAX_REMOTE_IDENTITY_HISTORY_ENTRIES

ASSUME NodeAssumption ==
  /\ K \in RecordKey
  /\ Durable \in BOOLEAN
  /\ Server \in BOOLEAN
  /\ MaxHistory \in Nat \ {0}

VARIABLES
  cached,  \* the key's value in the KadDHT value store, None if absent
  store,   \* the key's part of the durable store
  op,      \* the put or get that holds _accepted_lock
  last     \* history variable: who last changed store.value, and from what

vars == <<cached, store, op, last>>

Call == {"get", "put", "putIfCurrent"}

\* env is the envelope to put; expected the caller's expected_state_hash; raw
\* what the DHT read yielded; base the selected current state; chain the
\* history it was validated with; retain whether the durable store is still
\* to be written after publication.
Idle == [pc |-> "idle", call |-> "get", env |-> None, expected |-> Zero,
         raw |-> None, base |-> None, chain |-> <<>>, retain |-> FALSE]

Init ==
  /\ cached = None
  /\ store = EmptyStore
  /\ op = Idle
  /\ last = [by |-> "none", over |-> None]

-----------------------------------------------------------------------------
(* Histories that a node can put together for the state it selects.        *)

\* _history_to_current
HistoryToCurrent(h, local, e) ==
  IF EndsAt(h, e) THEN h
  ELSE IF local = None \/ local = e THEN <<>>
  ELSE IF h = <<>> THEN <<local, e>>
  ELSE IF EndsAt(h, local) THEN Append(h, e) ELSE <<>>

\* What read_remote_identity_envelope_by_hash and the bounded backward walk
\* of _read_remote_identity_predecessor_chain can assemble; RemoteHistory
\* models the walk itself, against peers that change under it.
RemoteChains == BoundChains(MaxHistory)

\* The server without a store keeps no history to check successors against.
HistoryMissing(e) == Server /\ ~Durable /\ IsMultisig(e) /\ e.op # "genesis"

-----------------------------------------------------------------------------
(* The value store with the acceptance hooks of                            *)
(* _install_value_store_acceptance_hooks.                                  *)

RetainedChain == EndingAt(store.history, store.value)

\* get: a durable head that still validates overrides the cached value.
Served ==
  IF store.value = None THEN cached
  ELSE IF IdentityGet(K, store.value, RetainedChain) THEN store.value ELSE None

CachedAfterGet == IF store.value # None /\ Served # None THEN Served ELSE cached

\* Mutant of InboundBase: the durable head is forgotten.
CachedBase == cached

\* The state an inbound envelope is compared with in _validate_dht_record.
InboundBase == SelectNewest(Served, store.value)
InboundChain == EndingAt(store.history, InboundBase)

\* Mutant of Validates: a server needs no history.
ValidatesWithoutHistory(e) ==
  /\ e.key = K /\ e.kind = "identity"
  /\ ~Conflict(Served, store.value)
  /\ e = InboundBase \/ IdentityOverwrite(K, e, InboundBase, InboundChain)

\* _RegistryDHTValueValidator.validate and _validate_dht_record.
Validates(e) ==
  /\ e.key = K /\ e.kind = "identity"
  /\ ~HistoryMissing(e)
  /\ ~Conflict(Served, store.value)
  /\ e = InboundBase \/ IdentityOverwrite(K, e, InboundBase, InboundChain)

\* Write s to the durable store on behalf of `who`.
Retain(s, who) ==
  /\ store' = s
  /\ last' = IF s.value = store.value THEN last
             ELSE [by |-> who, over |-> store.value]

\* put and put_record for a value from the network: validate, store in
\* memory, then _commit_durable_acceptance.
StoreInbound(e) ==
  /\ Validates(e)
  /\ cached' = e
  /\ IF Durable /\ e # InboundBase
     THEN Retain(PutIfNewer(store, e, AcceptedHistory(e, InboundBase, InboundChain)),
                 "inbound")
     ELSE UNCHANGED <<store, last>>

-----------------------------------------------------------------------------
(* Requests and events from outside.                                       *)

InboundPut(e) == StoreInbound(e) /\ UNCHANGED op

InboundGet == cached' = CachedAfterGet /\ UNCHANGED <<store, op, last>>

Expire == cached' = None /\ UNCHANGED <<store, op, last>>

\* A crash or a restart: memory is lost and no call survives.
Restart == cached' = None /\ op' = Idle /\ UNCHANGED <<store, last>>

\* confirm_identity_owner_key_rotation after its only await, the read-back
\* of the expected envelope e from a peer.
Confirm(e) ==
  LET chain == HistoryToCurrent(store.history, store.value, e)
  IN  /\ chain # <<>>
      /\ e.op = "rotate"
      /\ IdentityGet(K, e, chain)
      /\ IF Durable THEN Retain(PutIfNewer(store, e, chain), "confirm")
                    ELSE UNCHANGED <<store, last>>
      /\ UNCHANGED <<cached, op>>

-----------------------------------------------------------------------------
(* The calls that hold _accepted_lock.                                     *)

\* get_value answers with raw, possibly None: absent, inconclusive, raised.
GetValue(raw) ==
  \/ raw = None /\ UNCHANGED <<cached, store, last>>
  \/ raw = Served /\ cached' = CachedAfterGet /\ UNCHANGED <<store, last>>
  \/ raw # None /\ StoreInbound(raw)
  \/ raw # None /\ Validates(raw) /\ cached' = CachedAfterGet
     /\ UNCHANGED <<store, last>>

\* read_remote_identity_envelope, tried where get_value yields None: the
\* unvalidated envelope of some bootstrap peer.
ReadRemote(raw) == raw # None /\ UNCHANGED <<cached, store, last>>

\* The lock is taken and the first read of a call completes.
Read(call, e, expected, raw) ==
  /\ op.pc = "idle"
  /\ GetValue(raw) \/ (call # "putIfCurrent" /\ ReadRemote(raw))
  /\ op' = [Idle EXCEPT !.pc = "read", !.call = call, !.env = e,
                        !.expected = expected, !.raw = raw]

\* Any exception, cancellation or timeout ends a call and frees the lock.
Abandon ==
  /\ op.pc # "idle"
  /\ op' = Idle
  /\ UNCHANGED <<cached, store, last>>

Done == op' = Idle

\* The state a call selects when it resumes after its read.
Current == SelectNewest(op.raw, store.value)

\* _get_validated_identity_envelope_unlocked: cache what was validated.
CacheRead(e, chain) ==
  /\ IdentityGet(K, e, chain)
  /\ IF Durable /\ e = op.raw THEN Retain(PutIfNewer(store, e, chain), "get")
                              ELSE UNCHANGED <<store, last>>
  /\ Done

\* After the read: validate with the local history, or with the envelope
\* alone when it has no predecessor, or go and ask for its history.
GetResume ==
  LET chain == HistoryToCurrent(store.history, store.value, Current)
  IN  /\ op.pc = "read" /\ op.call = "get"
      /\ ~Conflict(op.raw, store.value) /\ Current # None
      /\ UNCHANGED cached
      /\ IF IdentityGet(K, Current, chain) THEN CacheRead(Current, chain)
         ELSE IF NoPredecessor(Current) THEN CacheRead(Current, <<Current>>)
         ELSE /\ op' = [op EXCEPT !.pc = "chain", !.base = Current]
              /\ UNCHANGED <<store, last>>

\* The history of op.base has been read from the peers.
GetWithChain(c) ==
  /\ op.pc = "chain" /\ op.call = "get"
  /\ EndsAt(c, op.base)
  /\ CacheRead(op.base, c)
  /\ UNCHANGED cached

\* A put that neither offers nor meets a multisignature envelope.
LegacyPut == ~\E x \in {op.env, op.raw, store.value} : x # None /\ IsMultisig(x)

PutPreconditions ==
  /\ op.pc = "read" /\ op.call # "get"
  /\ ~Conflict(op.raw, store.value)
  /\ op.call = "putIfCurrent" => Current # None /\ Current.update = op.expected
  /\ ~HistoryMissing(op.env)

\* Validate op.env over base and go on to publish it.  An unconditional put
\* of a multisignature envelope is retained before it is published.
Submit(base, chain) ==
  LET h == AcceptedHistory(op.env, base, chain)
      first == op.call = "put" /\ IsMultisig(op.env) /\ Durable
  IN  /\ IdentityOverwrite(K, op.env, base, chain)
      /\ op.call = "putIfCurrent" /\ op.env.op = "rotate" => Durable
      /\ first => Newer(store, op.env) \/ store.value = op.env
      /\ IF first /\ store.value # op.env
         THEN Retain(PutIfNewer(store, op.env, h), "put")
         ELSE UNCHANGED <<store, last>>
      /\ op' = [Idle EXCEPT !.pc = "publish", !.call = op.call, !.env = op.env,
           !.base = base, !.chain = chain,
           !.retain = LegacyPut \/ (op.call = "putIfCurrent" /\ IsMultisig(op.env))]
      /\ UNCHANGED cached

PutResume ==
  LET chain == EndingAt(store.history, Current)
  IN  /\ PutPreconditions
      /\ IF LegacyPut THEN Submit(Current, <<>>)
         ELSE IF chain # <<>> \/ Current = None THEN Submit(Current, chain)
         ELSE IF NoPredecessor(Current) THEN Submit(Current, <<Current>>)
         ELSE /\ op' = [op EXCEPT !.pc = "chain", !.base = Current]
              /\ UNCHANGED <<cached, store, last>>

PutWithChain(c) ==
  /\ op.pc = "chain" /\ op.call # "get"
  /\ EndsAt(c, op.base)
  /\ Submit(op.base, c)

\* put_value stores a local write in memory, past the acceptance hook, and
\* then awaits the peers.  The validator sees the put again, over the state
\* the caller selected (_local_identity_write_context), and raises where the
\* copies now conflict.
Publish ==
  /\ op.pc = "publish"
  /\ ~Conflict(Served, store.value)
  /\ cached' = op.env
  /\ op' = [op EXCEPT !.pc = "finish"]
  /\ UNCHANGED <<store, last>>

\* The publication has returned.  _durable_install, where it was left for
\* now, raises when put_if_newer refuses; the store is then as it was.
Finish ==
  /\ op.pc = "finish"
  /\ IF op.retain /\ Durable /\ store.value # op.env
     THEN Retain(PutIfNewer(store, op.env, AcceptedHistory(op.env, op.base, op.chain)),
                 op.call)
     ELSE UNCHANGED <<store, last>>
  /\ Done
  /\ UNCHANGED cached

-----------------------------------------------------------------------------

Step == \/ GetResume
        \/ \E c \in RemoteChains : GetWithChain(c)
        \/ PutResume
        \/ \E c \in RemoteChains : PutWithChain(c)
        \/ Publish
        \/ Finish
        \/ Abandon

\* An expected hash other than the predecessor that a multisignature
\* envelope names can only end in Abandon, and is not tried.
Begin == \E raw \in Envelope \cup {None} :
           \/ Read("get", None, Zero, raw)
           \/ \E e \in Envelope : Read("put", e, Zero, raw)
           \/ \E e, x \in Envelope :
                /\ IsMultisig(e) => x.update = e.pred
                /\ Read("putIfCurrent", e, x.update, raw)

Outside == \/ \E e \in Envelope : InboundPut(e) \/ Confirm(e)
           \/ InboundGet
           \/ Expire
           \/ Restart

Next == Begin \/ Step \/ Outside

Spec == Init /\ [][Next]_vars

-----------------------------------------------------------------------------

Hash == {Zero} \cup {e.update : e \in Envelope}

TypeOK ==
  /\ cached \in Envelope \cup {None}
  /\ store \in Store
  /\ op \in [pc : {"idle", "read", "chain", "publish", "finish"},
             call : Call, env : Envelope \cup {None}, expected : Hash,
             raw : Envelope \cup {None}, base : Envelope \cup {None},
             chain : Seq(Envelope), retain : BOOLEAN]
  /\ last \in [by : {"none", "inbound", "confirm"} \cup Call,
               over : Envelope \cup {None}]

(* The history retained beside a multisignature head, if any, ends at it   *)
(* and replays, and a head without one is a genesis: after any restart the *)
(* node still serves the head it accepted.                                 *)
RetainedIsServed ==
  store.value # None => IdentityGet(K, store.value, RetainedChain)

(* The metadata that put_if_newer compares against is that of the envelope *)
(* beside it.                                                              *)
MetadataMatches ==
  IF store.value = None THEN store = EmptyStore
                        ELSE store.seq = store.value.seq

\* The durable head s.value descends from x, which it replaced.
Descends(s, x) ==
  \/ x = None
  \/ IF IsMultisig(s.value)
     THEN \E i \in 1..Len(s.history) - 1 : s.history[i].update = x.update
     ELSE ~IsMultisig(x) /\ s.value.owner = x.owner

(* Requests from peers and the confirmation of a rotation change the       *)
(* durable head without the lock, and at any point of a call: still, they  *)
(* only ever replace it by a head whose retained history contains it.      *)
UnlockedWritersDescend ==
  last.by \in {"inbound", "confirm"} => Descends(store, last.over)

\* What can be shown from the history retained beside it.
CanShow(e, h) == IdentityGet(K, e, EndingAt(h, e))

AH == INSTANCE AcceptedHead WITH head <- store.value, history <- store.history

(* A node keeps the promise of AcceptedHead, however its calls and the     *)
(* requests of its peers interleave and wherever it restarts.              *)
KeepsPromise == AH!Spec

(* docs/multisignature-records.md, section 3: a server without a durable   *)
(* store "rejects post-genesis Identity writes before publication and      *)
(* rejects incoming post-genesis PUT values".  None ever reaches the value *)
(* store from which it answers its peers, by whichever path.               *)
StorelessServerRefuses ==
  cached = None \/ ~HistoryMissing(cached)

=============================================================================
