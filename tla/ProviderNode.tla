---------------------------- MODULE ProviderNode ----------------------------
(***************************************************************************)
(* Libp2pKadDHT: how one node reads, writes and retains the Provider       *)
(* Record of key K.  Steps, KadDHT and the peers are as in IdentityNode,   *)
(* with these differences.  The value store answers with its cached value  *)
(* alone: a durable Provider head does not override it.  As long as all    *)
(* copies in sight are active legacy records, only the cached or the read  *)
(* copy is compared and the durable copy is overwritten with a plain put.  *)
(* get_signed_provider_record takes no lock: it runs beside a put.         *)
(* RegistryService.withdraw_provider is a read of the current head and a   *)
(* put of the tombstone, whose own checks include those made in between.   *)
(***************************************************************************)
EXTENDS AcceptedState

CONSTANTS
  K,       \* the record key
  Durable  \* whether the node has a durable store

ASSUME NodeAssumption == K \in RecordKey /\ Durable \in BOOLEAN

VARIABLES
  cached,  \* the key's value in the KadDHT value store, None if absent
  store,   \* the key's part of the durable store
  op,      \* the put that holds _accepted_lock
  reader,  \* a get_signed_provider_record that has completed its DHT read
  last     \* history variable: who last changed store.value, and from what

vars == <<cached, store, op, reader, last>>

Idle == [pc |-> "idle", env |-> None, raw |-> None, plain |-> FALSE]

NoReader == [busy |-> FALSE, raw |-> None]

Init ==
  /\ cached = None
  /\ store = EmptyStore
  /\ op = Idle
  /\ reader = NoReader
  /\ last = [by |-> "none", over |-> None]

-----------------------------------------------------------------------------

\* _is_provider_withdrawal_envelope
Withdrawn(x) == x # None /\ x.payload = "withdrawn"

\* use_accepted_state
UseAcceptedState(copies) ==
  \E x \in copies : Withdrawn(x) \/ (x # None /\ IsMultisig(x))

\* Mutant of WithdrawalHistory: the history is extended wherever it ends.
BlindHistory(h, prior, e) == Append(h, e)

\* The history kept with tombstone e over the active record prior.
WithdrawalHistory(h, prior, e) ==
  IF EndsAt(h, prior) THEN Append(h, e) ELSE <<prior, e>>

\* Write s to the durable store on behalf of `who`.
Retain(s, who) ==
  /\ store' = s
  /\ last' = IF s.value = store.value THEN last
             ELSE [by |-> who, over |-> store.value]

-----------------------------------------------------------------------------
(* The value store with the acceptance hooks.                              *)

\* Mutant of Existing: the durable head is forgotten.
CachedOnly(e) == cached

\* The state an envelope is compared with in _validate_dht_record.
Existing(e) ==
  IF UseAcceptedState({e, cached, store.value})
  THEN SelectNewest(cached, store.value) ELSE cached

\* _RegistryDHTValueValidator.validate and _validate_dht_record.
Validates(e) ==
  /\ e.key = K /\ e.kind = "provider"
  /\ UseAcceptedState({e, cached, store.value}) => ~Conflict(cached, store.value)
  /\ e = Existing(e) \/ ProviderOverwrite(K, e, Existing(e))

\* _commit_durable_acceptance of e, validated over prior; _durable_install
\* raises where put_if_newer refuses.
Commit(e, prior) ==
  IF ~Durable \/ e = prior \/ e = store.value THEN UNCHANGED <<store, last>>
  ELSE IF Withdrawn(e)
  THEN Retain(PutIfNewer(store, e, WithdrawalHistory(store.history, prior, e)), "inbound")
  ELSE IF IsMultisig(e) THEN Retain(PutIfNewer(store, e, <<>>), "inbound")
  ELSE Retain(RawPut(store, e), "inbound")

StoreInbound(e) ==
  /\ Validates(e)
  /\ cached' = e
  /\ Commit(e, Existing(e))

InboundPut(e) == StoreInbound(e) /\ UNCHANGED <<op, reader>>

Expire == cached' = None /\ UNCHANGED <<store, op, reader, last>>

\* A crash or a restart: memory is lost and no call survives.
Restart ==
  /\ cached' = None /\ op' = Idle /\ reader' = NoReader
  /\ UNCHANGED <<store, last>>

\* get_value answers with raw: nothing, the cached value, or a value from
\* the network that the validator accepts and that may be cached on the way.
GetValue(raw) ==
  \/ raw \in {None, cached} /\ UNCHANGED <<cached, store, last>>
  \/ raw # None /\ StoreInbound(raw)
  \/ raw # None /\ Validates(raw) /\ UNCHANGED <<cached, store, last>>

-----------------------------------------------------------------------------
(* put_signed_provider_record                                              *)

\* The lock is taken and the DHT read completes.
Put(e, raw) ==
  /\ op.pc = "idle"
  /\ GetValue(raw)
  /\ op' = [Idle EXCEPT !.pc = "read", !.env = e, !.raw = raw]
  /\ UNCHANGED reader

Accepting == UseAcceptedState({op.env, op.raw, store.value})

\* Every copy in sight is an active legacy record: compare with the copy
\* read from the DHT alone, and leave the durable write for later.
PutLegacy ==
  /\ op.pc = "read" /\ ~Accepting
  /\ ProviderOverwrite(K, op.env, op.raw)
  /\ op' = [op EXCEPT !.pc = "publish", !.plain = TRUE]
  /\ UNCHANGED <<cached, store, reader, last>>

Current == SelectNewest(op.raw, store.value)

\* ProviderStateConflict where the durable head is not the selected one.
HeadUnchanged(current) ==
  Durable /\ store.value # None => store.value = current

\* Install e durably before it is published; a head that put_if_newer
\* refuses raises.
Install(e, h) ==
  IF ~Durable \/ store.value = e THEN UNCHANGED <<store, last>>
  ELSE Newer(store, e) /\ Retain(PutIfNewer(store, e, h), "put")

\* The accepted state is involved: compare with the newer copy.  A legacy
\* reactivation of a tombstone is published and not installed.
PutAccepted ==
  /\ op.pc = "read" /\ Accepting
  /\ ~Conflict(op.raw, store.value)
  /\ ProviderOverwrite(K, op.env, Current)
  /\ IF Withdrawn(op.env)
     THEN /\ HeadUnchanged(Current)
          /\ Install(op.env, WithdrawalHistory(store.history, Current, op.env))
     ELSE IF IsMultisig(op.env) THEN Install(op.env, <<>>)
     ELSE UNCHANGED <<store, last>>
  /\ op' = [op EXCEPT !.pc = "publish"]
  /\ UNCHANGED <<cached, reader>>

\* put_value: validate once more, store in memory past the hook, and await
\* the peers.
Publish ==
  /\ op.pc = "publish"
  /\ Validates(op.env)
  /\ cached' = op.env
  /\ op' = [op EXCEPT !.pc = "finish"]
  /\ UNCHANGED <<store, reader, last>>

Finish ==
  /\ op.pc = "finish"
  /\ IF op.plain /\ Durable THEN Retain(RawPut(store, op.env), "plainPut")
                            ELSE UNCHANGED <<store, last>>
  /\ op' = Idle
  /\ UNCHANGED <<cached, reader>>

\* Any exception, cancellation or timeout.
Abandon ==
  /\ op.pc # "idle"
  /\ op' = Idle
  /\ UNCHANGED <<cached, store, reader, last>>

-----------------------------------------------------------------------------
(* get_signed_provider_record                                              *)

Get(raw) ==
  /\ ~reader.busy
  /\ GetValue(raw)
  /\ reader' = [busy |-> TRUE, raw |-> raw]
  /\ UNCHANGED op

\* The active record that tombstone e is validated against, None if there
\* is none at hand.
PredecessorOf(e) ==
  LET n == Len(store.history)
  IN  IF store.value # e THEN store.value
      ELSE IF n >= 2 /\ EndsAt(store.history, e) THEN store.history[n - 1] ELSE None

\* Whether e can be given to a caller now.
Shown(e) == ProviderGet(K, e, IF Withdrawn(e) THEN PredecessorOf(e) ELSE None)

\* The rest of the call, without an await: show the newer of the two copies,
\* or nothing, and retain it where it is the copy that was read.
GetResume ==
  LET e == SelectNewest(reader.raw, store.value)
      h == IF Withdrawn(e) THEN store.history ELSE <<>>
  IN  /\ reader.busy
      /\ IF /\ Durable /\ e # None /\ e = reader.raw
            /\ ~Conflict(reader.raw, store.value) /\ Shown(e)
         THEN Retain(PutIfNewer(store, e, h), "get")
         ELSE UNCHANGED <<store, last>>
      /\ reader' = NoReader
      /\ UNCHANGED <<cached, op>>

-----------------------------------------------------------------------------

Step == PutLegacy \/ PutAccepted \/ Publish \/ Finish \/ Abandon \/ GetResume

Begin == \E raw \in Envelope \cup {None} :
           Get(raw) \/ \E e \in Envelope : Put(e, raw)

Outside == (\E e \in Envelope : InboundPut(e)) \/ Expire \/ Restart

Next == Begin \/ Step \/ Outside

Spec == Init /\ [][Next]_vars

-----------------------------------------------------------------------------
(* A multisignature state or a tombstone that is retained is replaced only *)
(* by a higher seq, although inbound requests, gets and the put that holds *)
(* the lock write in any order, from copies read before an await.  The one *)
(* exception is the plain put after the publication of a legacy record.    *)
AcceptedNeverRegresses ==
  UseAcceptedState({last.over}) /\ last.by # "plainPut" =>
    store.value.seq > last.over.seq

(* A tombstone that was put or received, rather than read, is retained     *)
(* with the active record it withdraws, and is shown after any restart.    *)
WrittenTombstoneShown ==
  Withdrawn(store.value) /\ last.by \in {"put", "inbound"} => Shown(store.value)

(* docs/multisignature-records.md, section 2.3: "When a tombstone is       *)
(* observed and validated, get provider returns status: withdrawn".  A     *)
(* tombstone that a get validated and retained is shown by the next get.   *)
RetainedTombstoneShown ==
  Withdrawn(store.value) => Shown(store.value)

=============================================================================
