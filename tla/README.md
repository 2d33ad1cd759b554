# decent-registry in TLA+

decent-registry publishes two kinds of signed records through a Kademlia DHT: an
*Identity Record* under the hash of an owner name, and a *Provider Record* under an
object hash. A record starts as a *legacy* envelope with one owner signature or as a
*multisignature* envelope with a 2-of-3 signer set, and evolves by signed transitions.
A node keeps the state it accepted in memory (the KadDHT value store) and, if it has
one, in an LMDB file. This directory models the rules that decide which envelope may
follow which, the node that applies them between awaits, inbound requests, cache
expiry and restarts, the walk by which a reader collects a record's history from
peers, the stream and routing-table gates in front of KadDHT, and the files in which
signers and nodes keep bundles and keys. Paths below are relative to
`src/decent_registry/`.

## The system

| Component | State | Operations | Modelled by |
| --- | --- | --- | --- |
| Record rules: `verification.py`, with the decoders of `encoding.py` and `signed_envelope.py` | none | validate a genesis, ordinary update, signer replacement, upgrade, owner rotation; replay a history | `Verification` |
| `record_validator.py` | none | `validate_*_overwrite`, `validate_*_get` | `RecordValidator`, `IdentityLineage`, `ProviderLineage` |
| `durable_store.py` | per key: envelope, accepted metadata, history | `put`, `put_if_newer`, `get`, `get_history` | `DurableStore` |
| `dht/libp2p_dht.py`, Identity | value store, durable store, `_accepted_lock` | get, put, conditional put, inbound PUT and GET, confirmation of a rotation | `AcceptedState`, `IdentityNode`; promise: `AcceptedHead` |
| `dht/libp2p_dht.py`, Provider | the same | put (locked), get (not locked), inbound PUT | `AcceptedState`, `ProviderNode` |
| `dht/libp2p_dht.py`, history keys | the histories peers retain, the walk of a reader | serve an envelope by hash, ask peers for one, collect a chain | `RemoteHistory` |
| `dht/serving_eligibility.py`, stream proxies | bytes and deadlines of one stream | read, write, recognise a valid reply | `BoundedStream` |
| `dht/serving_eligibility.py`, eligibility | proofs with expiry, routing table, mode, inbound handler | record a reply, admit, refer, switch mode, serve a stream | `ServingEligibility` |
| `multisig_bundle.py` and the bundle commands of `cli.py` | bundle files | draft, sign, merge, finalize, submit | `SigningCeremony` |
| key files of `cli.py` and `crypto_utils.py` | the node's identity key, the output of keygen | create or load, generate | `KeyFiles` |
| `registry_service.py` | none | builds envelopes, calls the node; `withdraw_provider` reads, checks, puts | partly, as calls of `ProviderNode` and `IdentityNode` |
| `provider_schema.py`, `envelope_builder.py`, `config.py`, `storage_backend.py`, `scripts/` | none | syntax, construction, settings | not modelled, see the end |

How they interact: `RegistryService` calls `Libp2pKadDHT`; that reads through
`KadDHT.get_value`, compares with the durable copy (`_select_newest_envelope`), asks
`RecordValidator`, publishes through `KadDHT.put_value` and writes the durable store.
KadDHT calls back: the registered namespace validator, and the value store whose
`get`, `put` and `put_record` the node has wrapped (`_install_value_store_acceptance_hooks`).
Inbound requests of peers enter by the same hooks, without the lock. Below that,
`install_dht_serving_eligibility` replaces `host.new_stream`, the inbound handler,
`switch_mode` and three methods of the routing table: every Kademlia stream goes
through a bounded proxy, and an outbound one that yields a complete valid reply calls
`record_valid_response`. Signers exchange bundle files; what they finalize (or any
other file) is submitted to a node by `put`.

What is hard in it: every await inside a call under the lock lets inbound requests,
lock-free calls and confirmations change both copies; the durable write comes before
publication in some paths and after it in others; what is compared is sometimes the
transition and sometimes the seq alone; a head is only useful with the history that
replays to it, and that history may have to be put together from peers whose heads
move; memory expires and processes restart; replies arrive in any pieces and against
a deadline; routing proofs expire, are evicted and are cleared across awaits; files
are written in place by processes that may be killed. `PROJECT.json` lists these
hazards at their lines with the properties that cover them.

## Modules

* `Verification` states the rules as constant-level predicates over an envelope
  record `[form, kind, key, owner, seq, payload, op, epoch, threshold, signers, pred,
  proofs, update]`. Python raises where a predicate is false. A validated
  `MultisignatureState` holds copies of fields of its envelope, so the envelope stands
  for it. A hash of a SignedUpdate is the update itself, a signature is the key under
  which it verifies.
* `RecordValidator` adds which of these rules each public method applies, and the
  history that the accepted state carries (`AcceptedHistory`).
* `IdentityLineage`, `ProviderLineage`: one holder, one record, any envelope offered at
  any time. They ask what the rules alone promise.
* `DurableStore`: the three LMDB entries of a key as a record `[value, seq, history]`,
  with `RawPut` and `PutIfNewer`.
* `AcceptedState`: the choice between two copies of a record, and the chains a remote
  read can yield (`BoundChains`), shared by the nodes and `RemoteHistory`.
* `IdentityNode`: one node and one Identity key. `cached` is the value store, `store`
  the durable store, `op` the call that holds `_accepted_lock` with its program counter
  and locals, `last` a history variable. A step is the code from one await to the next.
* `ProviderNode`: the same for a Provider key, with a `reader` besides `op` because
  `get_signed_provider_record` takes no lock.
* `AcceptedHead`: the promise that `IdentityNode` implements: the retained head is only
  replaced by a higher seq, and each head can be shown from the history beside it. It
  does not promise descent, because the code does not keep that (see the divergences).
* `RemoteHistory`: `env`, `chain` and `up` are what the peers hold and whether they
  answer; `walk` is `_read_remote_identity_predecessor_chain`, one action `Ask` or
  `Lose` per request, with the loop turn that follows the answer (`Visit`). Peers accept
  successors, adopt legacy records, crash and return, with or without their store.
* `BoundedStream`: one stream behind either proxy. `outgoing` and `incoming` are the
  frames of the two sides, `written` and `got` how many of their bytes have passed; the
  variables in between are the proxy's fields. A call is two steps, one on each side of
  its await; `StreamTick` is the passing of time and `TimeOut` is `trio.fail_after`.
* `ServingEligibility`: `expires` is `_expires` as time left, `table` the routing table
  of KadDHT, `adding` the `add_peer` calls in progress, `switching` the `switch_mode`
  calls in progress, `arriving` and `serving` the inbound streams before and in
  `handle_stream`. `RecordValidResponse` is what `BoundedStream` does at "recording".
* `SigningCeremony`: `file` is the content of the shared paths, `proc` what each CLI
  process has read and will write, `held` and `chain` the record at the holder to which
  `put` submits, which decides by `RecordValidator`. Files are truncated and then
  written, so they can be torn.
* `KeyFiles`: one step per file operation of `_load_or_create_node_identity_key` and
  of `write_ed25519_private_key_pem`, with kills, failures and a power loss.
* `MCEnvelopes`, `MC...`: envelope pools and instances for TLC. `RecordLemmas` and the
  modules named `...Proofs`: proofs.

Definitions called mutants in comments are deliberate errors, at least one for each
property: the property is violated when they take the place of the definition they
vary. No specification uses them.

KadDHT and the peers are outside the repository and are modelled by what the code lets
them do: `get_value` returns nothing, the local value, or a value the registered
validator accepts, which KadDHT may also store (`GetValue`); direct reads return any
envelope (`ReadRemote`); in `IdentityNode` the assembled predecessor history is any
chain linked by state hashes down to an envelope without a predecessor
(`RemoteChains`), which `RemoteHistory` justifies; PUT_VALUE of anything may come at any
time. The routing table may refuse or drop a peer at will. Exceptions, cancellation and
timeouts end a call at any await (`Abandon`, `Interrupt`).

## Runs

| Run | Instance | What it shows |
| --- | --- | --- |
| `identity_lineage` | every envelope within one field of a legal one, two anchors, two levels of successors | the history of an accepted head is complete, replays and is approved link by link; signer sets change only with the epoch; a genesis keeps its owner; step and replay agree |
| `provider_lineage` | legacy line of two owners, genesis, upgrade, three levels of successors, both payloads | withdrawal, reactivation, readability, no downgrade |
| `identity_node` | 9 envelopes, durable server | the node's own promises, `KeepsPromise` (refinement of `AcceptedHead`) among them |
| `storeless_server` | the same without a store | no post-genesis state is ever served |
| `provider_node` | 9 envelopes, durable node | no regression of accepted states, written tombstones shown |
| `history_walk` | 2 peers, 10 envelopes on two lines, `MaxHistory` 3 | what a walk collects is a bound chain that the reader's validation accepts, although its entries come from different peers; one reliable peer is enough |
| `bounded_stream` | 15 frames against each other in both directions, every split into chunks | a peer is recorded for exactly one complete valid reply, and always then; time per frame is bounded; every stream ends |
| `serving` | 3 peers, cache for 2, TTL 2 | the cache limit, who is referred to, full referrals, eviction order, the handler under overlapping switches, no service as a client |
| `signing` | 2 processes, 2 files, 6 drafts; received bundles that are forged, foreign or signed by two elsewhere | only complete authorisations are finalized, they are what the holder asks for, partial bundles are never accepted |
| `key_files` | 2 nodes, 2 keygens, 4 keys | one key for all starts; the keygen output is absent or complete; success means the own key |
| `provider_readable`, `node_tombstone_shown` | as above | two places where code and documentation part, each a finding in `PROJECT.json` |

Bounds. There is no bound on steps: every pool is finite and every run explores all
reachable states. The pools are what bounds the instance.

* `MCIdentityLineage` varies each field (seq equal and skipped, epoch, owner, signers,
  threshold, key, operation, predecessor) and the proofs (wrong signers, one proof, a
  proof under another key) of every successor, so each guard of the rules is the only one
  to refuse some envelope; two levels above an anchor reach a rotation and a replacement
  over a successor.
* `MCIdentityNode` has a legacy record, its upgrade, two proof sets of one successor, a
  sibling with a skipped seq, a rotation, an envelope with too few proofs, and a legacy
  and a genesis envelope of higher seq; the histories that occur have up to four
  entries, which is `MaxHistory` (the code's `MAX_REMOTE_IDENTITY_HISTORY_ENTRIES` is
  256, and no history exceeds its bound in either). One key and one node suffice because
  no code path compares two keys, and peers are modelled by arbitrary input.
* `MCProviderNode` has two legacy active records around a tombstone, a later tombstone,
  and an upgrade with a withdrawal in two proof sets, a fork of it and a reactivation.
* `MCRemoteHistory`: one line is one entry longer than `MaxHistory`, the other is
  shorter, so walks end on both sides of the limit; two states come with two proof sets
  each; with two peers one can fail while the other answers. The list of peers is not
  empty: with an empty one the code asks nobody.
* `MCBoundedStream`: frames of at most 2 bytes behind prefixes of at most 2 reach every
  position of a chunk boundary (inside the prefix, at its end, inside the payload, at its
  end, one byte beyond), and 3 is the first length over either limit; a deadline of 2
  ticks can be met, used up in two reads, or missed.
* `ServingEligibility`: three peers are one more than the cache holds, a TTL of 2 tells
  fresh, aging and expired apart, and each mode can be switched to while the other switch
  is in progress (two overlapping switches to the same mode are not modelled; their
  second halves do the same). `MaxStreams` is 1.
* `MCSigningCeremony`: two processes share two paths, so each command can overwrite what
  the other reads; merge takes one `--proof` file per command, and longer ones are
  sequences of it. Rotation of an owner cannot be drafted by the bundle commands.
* `MCKeyFiles`: keys are never generated twice, so the four keys bound the number of
  starts; each kind of process has a rival and one more attempt. A keygen process has one
  temporary file, the next attempt waits until it is gone; temporary files do not survive
  a power loss (their names never recur, and nothing reads them).

Deadlock checking is off where a run may legitimately end: the lineage runs (a holder of
the newest envelope of a finite pool has nothing left to accept), `bounded_stream` (a
closed stream) and `key_files` (all keys generated). The other runs check it.

Fairness. Only `BoundedStream` assumes any: `WF(StreamTick)` is that time passes, `WF(TimeOut)`
that trio cancels a scope whose deadline is over. Neither the peer nor the caller is
assumed to do anything. With it `StreamsEnd` holds: every stream is eventually no longer
read or written. No other liveness is claimed. Trio schedules tasks fairly, but nothing
in the code promises that a peer answers, and no retry loop exists; that a walk ends
follows from its entry bound and `GiveUp`, but the sources' 15 seconds are not counted.

## Findings and divergences

Each violation run refutes one sentence of `docs/multisignature-records.md`; see
`findings` in `PROJECT.json` for the quotation and the line:

* a Provider head is read back against the signer set it installs rather than the one
  that approved it (`provider_readable`);
* a get can retain a tombstone with a history that belongs to an earlier head
  (`node_tombstone_shown`).

`HeadReadable` and `WrittenTombstoneShown` are the parts of these promises that do hold.
Further differences, visible in the models but without a run of their own:

* a get compares with the durable head by seq only, so a legacy or genesis envelope of
  higher seq displaces an accepted multisignature line (`dht/libp2p_dht.py:1345`);
* a conditional put compares before an await and installs after it, by seq alone
  (`dht/libp2p_dht.py:1055`), and the plain durable write of a legacy Provider put
  overwrites whatever arrived during its publication (`:826`); what both still keep is
  `KeepsPromise` and `AcceptedNeverRegresses`;
* a legacy reactivation is published but not retained (`:883`), so that a later
  withdrawal is compared with the old durable head and refused as a conflict;
* an ordinary update cannot reactivate a multisignature tombstone
  (`verification.py:666`), which the documentation describes at line 157;
* `finalize` checks the proofs of a replace-signers bundle against the new set
  (`multisig_bundle.py:302`), the record rules against the current one, so that a bundle
  signed only by current signers cannot be finalized. `FinalizedIsAcceptable` therefore
  excepts replace-signers;
* a node killed between creating and writing its identity key leaves an empty file, with
  which every later start fails (`cli.py:312`); `StartsAgree` says that no start then
  runs with a different key.

## Proofs

All theorems assume only the named assumptions of the modules: `EnvelopeAssumption`
(envelopes are what the decoders admit), `NoneAssumption`, `KeyAssumption`,
`ObjectHashAssumption`, `NodeAssumption`, `WalkAssumption`, `HashAssumption` (envelopes
whose signed updates have the same hash differ at most in their proofs, since everything
else is decoded from the update), `StreamAssumption`, `ServingAssumption`,
`CeremonyAssumption`, `FieldAssumption` and `ProofsAssumption` (the bundles that sign and
merge can produce are envelopes). They hold for any number of envelopes, keys, signers,
peers and processes and for any limit. `RecordLemmas` holds the lemmas about the record
rules that several modules use.

`LineageProofs`, Identity. `IInv` is the type invariant with `HistoryReplays`; that is
inductive because a step over a head whose history replays appends to it exactly one
legal step (`AcceptedStep`, `HistoryExtends`), and a history is never looked up by
anything but its last entry. The history is then a chain of `HistoryStep`s, from which
epochs and signers (`EpochsFixSigners`) and the owner (`GenesisOwnerNeverChanges`) follow
by one more invariant each: the last entry has the largest epoch, respectively the
first owner, so the appended entry need only be compared with the last.
`AlwaysApprovedByPredecessor` reads the approval of each link off the rule that
admitted it. `LocalAndRemoteAgree` shows both directions between one validated step and
a replay.

`LineageProofs`, Provider. No history is kept, so `ProviderInv` is about the pair of
`held` and `predecessor`: a multisignature head asks for two proofs and stands on its own
unless it replaced the signers, and a tombstone is a valid step from the active record
kept with it. `ProviderStep` says once what an acceptance implies; from it and the
invariant follow the shape of a tombstone's predecessor (`AlwaysWithdrawsActive`), that
a head reads back (`HeadAlwaysReadable`; after replace-signers the set named by the head
is not the one that approved it), and the three action properties.

`IdentityNodeProofs`. The obstacle is a put, which validates before an await and writes
after it. `SubmitSound` remembers that what it will write was accepted over the base
and chain it keeps, `PutHasEnvelope` that there is something to write; with the types
they are inductive (`NInv`). `StoreStep` then shows that every step leaves the store or
applies `PutIfNewer` to an envelope and a history that can be shown together. From this
alone follow `MetadataMatches`, `RetainedIsServed`, and the refinement of `AcceptedHead`.
`UnlockedWritersDescend` needs in addition that the confirmation of a rotation builds its
history on the durable head. `StorelessServerRefuses` has an invariant of its own
(`RefusalInv`): without a store nothing is ever retained, and a put that has passed its
preconditions offers nothing that needs a history.

`RemoteHistoryProofs`. For `CollectsBoundChain` the invariant says that the entries of
`found` are linked by their predecessor hashes, that only the first may lack a
predecessor, and that there are at most `MaxHistory`; an answer is for the hash asked
for, so `Visit` keeps the links (`HashAssumption` carries them over to another
proof set). `OneLoyalPeerSuffices` needs that a loyal peer
retains the predecessor of every retained entry that has one. `Sound` gives it: the
history of a peer ends at its head and replays, so its entries are linked down to one
without a predecessor. `Reliable` adds that a loyal peer holds the entry found last and
has not been passed over for the present request. `CollectedReplays` is the harder one:
the entries of `found` come from histories of different peers, and whether a rotation is
legal depends on how its history begins, which the walk sees last and on another peer.
`Replaying` says that all entries lie in one `Line`, a set of states closed under
predecessors whose ends have one form, and that each is a legal step in some history that
begins so. The states of any history are a line (`DescentIsLine`); a history that meets a
line anywhere begins as the line does (`SameStart`), by taking the least position at
which the two meet. The existence of that position is `LeastNumber`, obtained from the
library's theorem that `<` is well founded on the naturals; it takes the place of an
induction over the history. The line belongs to the invariant because no peer need hold
the states below the present one any more. `StepOverSameState` then lets one proof set
stand for another, and a completed walk ends the line at a state without predecessor.
From the same invariant sequence numbers fall along a walk (`PredecessorIsOlder`), so
that the check for repeated states never refuses what peers have accepted
(`GenuineNeverRepeats`, a theorem without a run of its own).

`ProviderNodeProofs`. The durable store has two writers: `put_if_newer` compares with the
metadata, `put` with nothing. `MetadataFit` says when the metadata can be trusted: while
a multisignature state or a tombstone is retained, because `put` only writes active
legacy records, over such a state only after a validation that demands a higher number,
or as the plain put that `AcceptedNeverRegresses` leaves out. `PutInv` remembers across the
await that only an active legacy record is ever due for a plain put. A written tombstone
goes with the history it was validated over, from which `OverwriteShows` shows it.

`ServingProofs`, streams. The invariant relates the proxy's counters to the bytes that have
passed: while a reply is watched, `prefix`, or else `payload` plus the prefix of the
incoming frame, is `got`; the request is known only while `written` is its exact size,
and nothing is read before it is complete. `FrameTimeBounded` follows from spent time
plus remaining deadline never exceeding the limit.

`ServingProofs`, eligibility. `expires` and `age` are tied together (an entry with time
left belongs to a reply that is as much younger than the TTL), which gives
`ReferredAreServing`; `AtMostCapacity` is by cardinality of the cache after an eviction;
`HandlerFollowsMode` is inductive because a switch in progress suspends it and the end
of a switch registers the handler by the current mode. The two action properties follow
from the types and the guards.

`SigningCeremonyProofs`. The invariant is that what a process in command finalize will
write satisfied `Finalizable` when read (a process works on its own copy, whatever
happens to the file), and that everything in a file or in a process is an envelope. `FinalizedIsAuthorised` compares the two rules for the same envelope;
`FinalizedIsAcceptable` shows that acceptance depends on the proofs only through what
`Finalizable` has checked. `PartialNeverAccepted` holds for any file that `put` names: the
held state always asks for two proofs (`HeldAsksForTwo`), and so does what may follow it.

`KeyFilesProofs`. For the node key: nobody has started with a key other than the one in the
file, at most one process is about to write it, and while it is the file is empty and
nobody has started.
For keygen: the temporary file of a process at the link is complete and synced, and the
output was linked from such a file.

Only model-checked: `StreamsEnd`, which is liveness under fairness and out of the
prover's reach. Every other property of a passing run is a theorem. The properties of the
two violation runs are false and stay with TLC.

## Plan

Done: the record rules and lineages, the durable store, both nodes, `RemoteHistory`,
`BoundedStream`, `ServingEligibility`, `SigningCeremony`, `KeyFiles`, and their proofs as
listed above. Left, in this order:

1. an abstract specification of what a Provider node retains, and its refinement;
2. two nodes that exchange values: agreement of their lines, and how a node recovers from
   two different updates of equal seq, for which no property stands yet;
3. `BoundedStream` composed with `ServingEligibility`, so that the reply observed on a
   stream is the one that admits its peer.

## Not modelled, and why

CBOR bytes, canonical encoding and URL syntax (`provider_schema.py`; no property depends
on them beyond what `Decoded` states), `envelope_builder.py` (straight-line construction),
Ed25519 (signatures are unforgeable by assumption, generated keys are new), argument
parsing and `config.py` (read once), `storage_backend.py` (a protocol class), libp2p
transports and the KadDHT lookup algorithm (external), the order in which a node's
services start and stop and how it dials bootstrap peers (calls into libp2p without record
state), the experiment scripts. `expires_at` of a conditional put only refuses calls;
there is no clock in the node models. A durable store without `put_if_newer`, which the
code tolerates for test doubles, does not occur with `LMDBDatastore`. The 4 MiB and
15-second limits of the history walk are one action (`GiveUp`) that may happen at any
time.
