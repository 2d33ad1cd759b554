------------------------- MODULE ProviderNodeProofs -------------------------
(***************************************************************************)
(* The properties of ProviderNode for every set of envelopes.              *)
(*                                                                         *)
(* The durable store has two writers that know different things:           *)
(* put_if_newer compares with the metadata, put with nothing.  The         *)
(* invariant says that the metadata can be trusted as long as the retained *)
(* envelope is an accepted state (multisignature, or a tombstone), because *)
(* put only ever writes active legacy records, and those over an accepted  *)
(* state only after a validation that demands a higher seq.  The one       *)
(* writer that does not is the plain put, which AcceptedNeverRegresses     *)
(* leaves out.                                                             *)
(***************************************************************************)
EXTENDS ProviderNode, RecordLemmas

Copy == Envelope \cup {None}

TypeOK ==
  /\ cached \in Copy
  /\ store \in Store
  /\ op \in [pc : {"idle", "read", "publish", "finish"}, env : Copy, raw : Copy,
             plain : BOOLEAN]
  /\ reader \in [busy : BOOLEAN, raw : Copy]
  /\ last \in [by : {"none", "inbound", "put", "plainPut", "get"}, over : Copy]

\* The states that use_accepted_state looks for.
Accepted(x) == x # None /\ (x.payload = "withdrawn" \/ IsMultisig(x))

\* The metadata of an accepted state are those of its envelope.
MetadataFit == Accepted(store.value) => store.seq = store.value.seq

\* What the put that holds the lock is about to write.
PutInv ==
  /\ op.pc # "idle" => op.env \in Envelope
  /\ op.plain => op.env \in Envelope /\ ~Accepted(op.env)

StoreInv == MetadataFit /\ AcceptedNeverRegresses /\ WrittenTombstoneShown

IInv == TypeOK /\ PutInv /\ StoreInv

\* The types of what the writers of the store touch.
StoreTyped ==
  /\ store \in Store
  /\ last \in [by : {"none", "inbound", "put", "plainPut", "get"}, over : Copy]

-----------------------------------------------------------------------------
(* Of several copies, an accepted one is looked for in each.               *)
LEMMA UseAccepted ==
  ASSUME NEW copies
  PROVE  UseAcceptedState(copies) <=> \E x \in copies : Accepted(x)
BY DEF UseAcceptedState, Withdrawn, Accepted

(* The empty node satisfies the invariant.                                 *)
LEMMA InitIInv == Init => IInv
<1> SUFFICES ASSUME Init PROVE IInv OBVIOUS
<1>1. None \in Copy /\ <<>> \in Seq(Envelope) BY DEF Copy
<1>2. TypeOK
  BY <1>1 DEF Init, TypeOK, EmptyStore, Store, Idle, NoReader, Copy
<1>3. PutInv BY DEF Init, PutInv, Idle
<1>4. store.value = None /\ last.over = None
  BY DEF Init, EmptyStore
<1>5. MetadataFit BY <1>4 DEF MetadataFit, Accepted
<1>6. AcceptedNeverRegresses
  BY <1>4, UseAccepted DEF AcceptedNeverRegresses, Accepted
<1>7. WrittenTombstoneShown BY <1>4 DEF WrittenTombstoneShown, Withdrawn
<1> QED BY <1>2, <1>3, <1>5, <1>6, <1>7 DEF IInv, StoreInv

-----------------------------------------------------------------------------
(* The history of a withdrawal ends with the tombstone, and the entry      *)
(* before it is the record that it withdraws.                              *)
LEMMA WithdrawalPair ==
  ASSUME NEW h \in Seq(Envelope), NEW x \in Envelope, NEW e \in Envelope
  PROVE  LET g == WithdrawalHistory(h, x, e)
         IN  /\ g \in Seq(Envelope) /\ Len(g) >= 2
             /\ EndsAt(g, e) /\ g[Len(g) - 1] = x
<1>1. CASE EndsAt(h, x)
  <2> DEFINE n == Len(h)
             g == Append(h, e)
  <2>1. n \in Nat /\ n >= 1 /\ h[n] = x
    <3>1. h # <<>> /\ h[n] = x BY <1>1 DEF EndsAt
    <3> QED BY <3>1, EmptySeq
  <2>2. g \in Seq(Envelope) /\ Len(g) = n + 1
    OBVIOUS
  <2>3. g[n + 1] = e /\ \A i \in 1..n : g[i] = h[i]
    BY AppendProperties
  <2>4. g[n] = x BY <2>1, <2>3
  <2>5. Len(g) >= 2 /\ Len(g) - 1 = n /\ g # <<>>
    BY <2>1, <2>2
  <2>6. g[Len(g)] = e BY <2>2, <2>3
  <2>7. EndsAt(g, e) BY <2>5, <2>6 DEF EndsAt
  <2>8. g[Len(g) - 1] = x BY <2>4, <2>5
  <2> HIDE DEF g
  <2> QED BY <1>1, <2>2, <2>5, <2>7, <2>8 DEF WithdrawalHistory, g
<1>2. CASE ~EndsAt(h, x)
  <2> DEFINE g == <<x, e>>
  <2>1. g \in Seq(Envelope) /\ Len(g) = 2 /\ g[1] = x /\ g[2] = e /\ g # <<>>
    OBVIOUS
  <2>2. WithdrawalHistory(h, x, e) = g BY <1>2 DEF WithdrawalHistory
  <2> QED BY <2>1, <2>2 DEF EndsAt
<1> QED BY <1>1, <1>2

(* A step that leaves the store and the account of its last write alone.   *)
LEMMA StoreKept ==
  ASSUME StoreInv, StoreTyped, UNCHANGED <<store, last>>
  PROVE  StoreInv' /\ StoreTyped'
BY DEF StoreInv, StoreTyped, MetadataFit, AcceptedNeverRegresses,
       WrittenTombstoneShown, Shown, PredecessorOf

(* put keeps the store's invariant if what it writes is an active legacy   *)
(* record, of higher seq than an accepted state it replaces.               *)
LEMMA RawPutKeeps ==
  ASSUME StoreInv, StoreTyped, NEW e \in Envelope, ~Accepted(e),
         NEW who \in {"inbound", "plainPut"}, Retain(RawPut(store, e), who),
         who # "plainPut" /\ Accepted(store.value) => e.seq > store.value.seq
  PROVE  StoreInv' /\ StoreTyped'
<1>1. e # None BY EnvelopeAssumption
<1>2. /\ store' = [store EXCEPT !.value = e]
      /\ last' = IF e = store.value THEN last ELSE [by |-> who, over |-> store.value]
  BY DEF Retain, RawPut, StoreTyped, Store
<1>3. store' \in Store /\ store'.value = e
  BY <1>2 DEF StoreTyped, Store
<1>4. StoreTyped'
  BY <1>2, <1>3 DEF StoreTyped, Store, Copy
<1>5. MetadataFit' BY <1>3 DEF MetadataFit
<1>6. WrittenTombstoneShown'
  BY <1>1, <1>3 DEF WrittenTombstoneShown, Withdrawn, Accepted
<1>7. AcceptedNeverRegresses'
  <2>1. CASE e = store.value
    BY <1>2, <1>3, <2>1 DEF StoreInv, AcceptedNeverRegresses
  <2>2. CASE e # store.value
    <3>1. last'.over = store.value /\ last'.by = who
      BY <1>2, <2>2
    <3>2. UseAcceptedState({last'.over}) => Accepted(store.value)
      BY <3>1, UseAccepted
    <3> QED BY <1>3, <3>1, <3>2 DEF AcceptedNeverRegresses
  <2> QED BY <2>1, <2>2
<1> QED BY <1>4, <1>5, <1>6, <1>7 DEF StoreInv

(* put_if_newer keeps it: over an accepted state it compares with the seq  *)
(* of that state.  A tombstone that was put or received comes with the     *)
(* record it withdraws.                                                    *)
LEMMA PutIfNewerKeeps ==
  ASSUME StoreInv, StoreTyped, NEW e \in Envelope, NEW h \in Seq(Envelope),
         NEW who \in {"inbound", "put", "get"}, Retain(PutIfNewer(store, e, h), who),
         Withdrawn(e) /\ who # "get" =>
           \E x \in Envelope :
             /\ ProviderOverwrite(K, e, x) /\ Len(h) >= 2
             /\ EndsAt(h, e) /\ h[Len(h) - 1] = x
  PROVE  StoreInv' /\ StoreTyped'
<1>1. e # None /\ e.seq \in Nat BY EnvelopeAssumption DEF Decoded
<1>2. CASE ~Newer(store, e)
  BY <1>2, StoreKept DEF Retain, PutIfNewer
<1>3. CASE Newer(store, e)
  <2>1. /\ store' = [value |-> e, seq |-> e.seq, history |-> h]
        /\ last' = IF e = store.value THEN last
                   ELSE [by |-> who, over |-> store.value]
    BY <1>3 DEF Retain, PutIfNewer
  <2>2. store' \in Store /\ store'.value = e /\ store'.seq = e.seq /\ store'.history = h
    BY <1>1, <2>1 DEF Store
  <2>3. StoreTyped'
    BY <2>1, <2>2 DEF StoreTyped, Store, Copy
  <2>4. MetadataFit' BY <2>2 DEF MetadataFit
  <2>5. Accepted(store.value) => e.seq > store.value.seq
    <3> SUFFICES ASSUME Accepted(store.value) PROVE e.seq > store.value.seq OBVIOUS
    <3>1. store.seq = store.value.seq BY DEF StoreInv, MetadataFit
    <3>2. store.value # None BY DEF Accepted
    <3>3. e.seq > CurrentSeq(store) BY <1>3, <3>2 DEF Newer
    <3> QED BY <3>1, <3>3 DEF CurrentSeq
  <2>6. AcceptedNeverRegresses'
    <3>1. CASE e = store.value
      BY <2>1, <2>2, <3>1 DEF StoreInv, AcceptedNeverRegresses
    <3>2. CASE e # store.value
      <4>1. last'.over = store.value BY <2>1, <3>2
      <4>2. UseAcceptedState({last'.over}) => Accepted(store.value)
        BY <4>1, UseAccepted
      <4> QED BY <2>2, <2>5, <4>1, <4>2 DEF AcceptedNeverRegresses
    <3> QED BY <3>1, <3>2
  <2>7. WrittenTombstoneShown'
    <3> SUFFICES ASSUME Withdrawn(e), last'.by \in {"put", "inbound"}
                 PROVE  Shown(store.value)'
      BY <2>2 DEF WrittenTombstoneShown, Withdrawn
    <3>1. e # store.value
      <4> SUFFICES ASSUME e = store.value PROVE FALSE OBVIOUS
      <4>1. e.seq > e.seq BY <2>5 DEF Withdrawn, Accepted
      <4> QED BY <1>1, <4>1
    <3>2. who # "get" BY <2>1, <3>1
    <3>3. PICK x \in Envelope :
            /\ ProviderOverwrite(K, e, x) /\ Len(h) >= 2
            /\ EndsAt(h, e) /\ h[Len(h) - 1] = x
      BY <3>2
    <3>4. PredecessorOf(e)' = x
      BY <2>2, <3>3 DEF PredecessorOf
    <3>5. ProviderGet(K, e, x)
      BY <3>3, OverwriteShows DEF Withdrawn
    <3> QED BY <2>2, <3>4, <3>5 DEF Shown
  <2> QED BY <2>3, <2>4, <2>6, <2>7 DEF StoreInv
<1> QED BY <1>2, <1>3

-----------------------------------------------------------------------------
(* Of the copies that are compared, none is newer than the selected one.   *)
LEMMA Selected ==
  ASSUME NEW x \in Copy, NEW y \in Copy
  PROVE  /\ SelectNewest(x, y) \in Copy
         /\ y # None => SelectNewest(x, y) # None /\ SelectNewest(x, y).seq >= y.seq
<1>1. y # None => y.seq \in Nat BY EnvelopeAssumption DEF Copy, Decoded
<1>2. x # None => x.seq \in Nat BY EnvelopeAssumption DEF Copy, Decoded
<1> QED BY <1>1, <1>2 DEF SelectNewest, Copy

(* What the acceptance hook retains keeps the store's invariant.           *)
LEMMA CommitKeeps ==
  ASSUME StoreInv, StoreTyped, cached \in Copy, NEW e \in Envelope,
         Validates(e), Commit(e, Existing(e))
  PROVE  StoreInv' /\ StoreTyped'
<1> DEFINE x == Existing(e)
<1>1. store.value \in Copy /\ store.history \in Seq(Envelope)
  BY DEF StoreTyped, Store, Copy
<1>2. x \in Copy BY <1>1, Selected DEF Existing
<1>3. CASE UNCHANGED <<store, last>>
  BY <1>3, StoreKept
<1>4. CASE e # x /\ Withdrawn(e)
           /\ Retain(PutIfNewer(store, e, WithdrawalHistory(store.history, x, e)),
                     "inbound")
  <2>1. ProviderOverwrite(K, e, x) BY <1>4 DEF Validates
  <2>2. x \in Envelope
    <3>1. x # None BY <1>4, <2>1 DEF ProviderOverwrite, Transition, Withdrawn
    <3> QED BY <1>2, <3>1 DEF Copy
  <2> DEFINE g == WithdrawalHistory(store.history, x, e)
  <2>3. g \in Seq(Envelope) /\ Len(g) >= 2 /\ EndsAt(g, e) /\ g[Len(g) - 1] = x
    BY <1>1, <2>2, WithdrawalPair
  <2> HIDE DEF g, x
  <2>4. Retain(PutIfNewer(store, e, g), "inbound") BY <1>4 DEF g, x
  <2> QED BY <2>1, <2>2, <2>3, <2>4, PutIfNewerKeeps
<1>5. CASE e # x /\ ~Withdrawn(e) /\ IsMultisig(e)
           /\ Retain(PutIfNewer(store, e, <<>>), "inbound")
  <2>1. <<>> \in Seq(Envelope) OBVIOUS
  <2> QED BY <1>5, <2>1, PutIfNewerKeeps
<1>6. CASE e # x /\ ~Withdrawn(e) /\ ~IsMultisig(e)
           /\ Retain(RawPut(store, e), "inbound")
  <2>1. ~Accepted(e) BY <1>6, EnvelopeAssumption DEF Accepted, Withdrawn
  <2>2. Accepted(store.value) => e.seq > store.value.seq
    <3> SUFFICES ASSUME Accepted(store.value) PROVE e.seq > store.value.seq OBVIOUS
    <3>1. x = SelectNewest(cached, store.value)
      BY UseAccepted DEF Existing
    <3>2. store.value # None BY DEF Accepted
    <3>3. x # None /\ x.seq >= store.value.seq
      BY <1>1, <3>1, <3>2, Selected
    <3>4. ProviderOverwrite(K, e, x) BY <1>6 DEF Validates
    <3>5. e.seq > x.seq BY <1>2, <3>3, <3>4, ProviderStep DEF Copy
    <3>6. e.seq \in Nat /\ x.seq \in Nat /\ store.value.seq \in Nat
      BY <1>1, <1>2, <3>2, <3>3, EnvelopeAssumption DEF Copy, Decoded
    <3> HIDE DEF x
    <3> QED BY <3>3, <3>5, <3>6
  <2> QED BY <1>6, <2>1, <2>2, RawPutKeeps
<1> HIDE DEF x
<1>7. Commit(e, x) BY DEF x
<1> QED BY <1>3, <1>4, <1>5, <1>6, <1>7 DEF Commit

(* Nor does a read from the DHT harm it, whatever it yields.               *)
LEMMA GetValueKeeps ==
  ASSUME StoreInv, StoreTyped, cached \in Copy, NEW raw \in Copy, GetValue(raw)
  PROVE  StoreInv' /\ StoreTyped' /\ cached' \in Copy
<1>1. CASE UNCHANGED <<cached, store, last>>
  BY <1>1, StoreKept
<1>2. CASE raw # None /\ StoreInbound(raw)
  <2>1. raw \in Envelope BY <1>2 DEF Copy
  <2>2. Validates(raw) /\ Commit(raw, Existing(raw)) /\ cached' = raw
    BY <1>2 DEF StoreInbound
  <2> QED BY <2>1, <2>2, CommitKeeps
<1> QED BY <1>1, <1>2 DEF GetValue

-----------------------------------------------------------------------------
(* What the invariant says, part by part.                                  *)
LEMMA Parts ==
  IInv <=> /\ StoreInv /\ StoreTyped /\ PutInv
           /\ cached \in Copy
           /\ op \in [pc : {"idle", "read", "publish", "finish"}, env : Copy,
                      raw : Copy, plain : BOOLEAN]
           /\ reader \in [busy : BOOLEAN, raw : Copy]
BY DEF IInv, TypeOK, StoreTyped

(* A put and a get that begin.                                             *)
LEMMA BeginStep ==
  ASSUME IInv, NEW raw \in Copy, Get(raw) \/ \E e \in Envelope : Put(e, raw)
  PROVE  IInv'
<1>1. /\ StoreInv /\ StoreTyped /\ PutInv /\ cached \in Copy
      /\ op \in [pc : {"idle", "read", "publish", "finish"}, env : Copy,
                 raw : Copy, plain : BOOLEAN]
      /\ reader \in [busy : BOOLEAN, raw : Copy]
  BY Parts
<1>2. GetValue(raw) BY DEF Get, Put
<1>3. StoreInv' /\ StoreTyped' /\ cached' \in Copy BY <1>1, <1>2, GetValueKeeps
<1>4. CASE Get(raw)
  <2>1. op' = op /\ reader' \in [busy : BOOLEAN, raw : Copy] BY <1>4 DEF Get
  <2>2. PutInv' BY <1>1, <2>1 DEF PutInv
  <2> QED BY <1>1, <1>3, <2>1, <2>2, Parts DEF IInv, TypeOK, StoreTyped
<1>5. ASSUME NEW e \in Envelope, Put(e, raw) PROVE IInv'
  <2>1. /\ op' = [pc |-> "read", env |-> e, raw |-> raw, plain |-> FALSE]
        /\ reader' = reader
    BY <1>5 DEF Put, Idle
  <2>2. op' \in [pc : {"idle", "read", "publish", "finish"}, env : Copy,
                 raw : Copy, plain : BOOLEAN]
    BY <2>1 DEF Copy
  <2>3. PutInv' BY <2>1 DEF PutInv
  <2> QED BY <1>1, <1>3, <2>1, <2>2, <2>3 DEF IInv, TypeOK, StoreTyped
<1> QED BY <1>4, <1>5

(* The steps of a put after its read.                                      *)
LEMMA PutStep ==
  ASSUME IInv, PutLegacy \/ PutAccepted \/ Publish \/ Finish \/ Abandon
  PROVE  IInv'
<1>1. /\ StoreInv /\ StoreTyped /\ PutInv /\ cached \in Copy
      /\ op \in [pc : {"idle", "read", "publish", "finish"}, env : Copy,
                 raw : Copy, plain : BOOLEAN]
      /\ reader \in [busy : BOOLEAN, raw : Copy]
  BY Parts
<1>2. ASSUME reader' = reader, cached' \in Copy, StoreInv', StoreTyped', PutInv',
             op' \in [pc : {"idle", "read", "publish", "finish"}, env : Copy,
                      raw : Copy, plain : BOOLEAN]
      PROVE  IInv'
  BY <1>1, <1>2 DEF IInv, TypeOK, StoreTyped
<1>3. CASE PutLegacy
  <2>1. /\ op.pc = "read" /\ ~Accepting /\ UNCHANGED <<cached, store, reader, last>>
        /\ op' = [op EXCEPT !.pc = "publish", !.plain = TRUE]
    BY <1>3 DEF PutLegacy
  <2>2. op.env \in Envelope /\ ~Accepted(op.env)
    BY <1>1, <2>1, UseAccepted DEF PutInv, Accepting
  <2>3. op'.env = op.env
    BY <1>1, <2>1
  <2>4. PutInv' BY <2>2, <2>3 DEF PutInv
  <2>5. op' \in [pc : {"idle", "read", "publish", "finish"}, env : Copy,
                 raw : Copy, plain : BOOLEAN]
    BY <1>1, <2>1
  <2> QED BY <1>1, <1>2, <2>1, <2>4, <2>5, StoreKept
<1>4. CASE PutAccepted
  <2>1. /\ op.pc = "read" /\ UNCHANGED <<cached, reader>>
        /\ ProviderOverwrite(K, op.env, Current)
        /\ op' = [op EXCEPT !.pc = "publish"]
    BY <1>4 DEF PutAccepted
  <2>2. op.env \in Envelope /\ op.raw \in Copy
        /\ store.value \in Copy /\ store.history \in Seq(Envelope)
    BY <1>1, <2>1 DEF PutInv, StoreTyped, Store, Copy
  <2>3. op'.env = op.env /\ op'.plain = op.plain
        /\ op' \in [pc : {"idle", "read", "publish", "finish"}, env : Copy,
                    raw : Copy, plain : BOOLEAN]
    BY <1>1, <2>1
  <2>4. PutInv' BY <1>1, <2>2, <2>3 DEF PutInv
  <2>5. StoreInv' /\ StoreTyped'
    <3>1. CASE UNCHANGED <<store, last>> BY <1>1, <3>1, StoreKept
    <3>2. CASE /\ Withdrawn(op.env)
               /\ Retain(PutIfNewer(store, op.env,
                                    WithdrawalHistory(store.history, Current, op.env)),
                         "put")
      <4> DEFINE x == Current
                 g == WithdrawalHistory(store.history, x, op.env)
      <4>1. x \in Copy BY <2>2, Selected DEF Current
      <4>2. x # None
        BY <2>1, <3>2 DEF ProviderOverwrite, Transition, Withdrawn
      <4>3. x \in Envelope BY <4>1, <4>2 DEF Copy
      <4>4. ProviderOverwrite(K, op.env, x) BY <2>1
      <4>5. Retain(PutIfNewer(store, op.env, g), "put") BY <3>2
      <4> HIDE DEF x
      <4>6. g \in Seq(Envelope) /\ Len(g) >= 2 /\ EndsAt(g, op.env) /\ g[Len(g) - 1] = x
        BY <2>2, <4>3, WithdrawalPair
      <4> HIDE DEF g
      <4> QED BY <1>1, <2>2, <4>3, <4>4, <4>5, <4>6, PutIfNewerKeeps
    <3>3. CASE /\ ~Withdrawn(op.env)
               /\ Retain(PutIfNewer(store, op.env, <<>>), "put")
      <4>1. <<>> \in Seq(Envelope) OBVIOUS
      <4> QED BY <1>1, <2>2, <3>3, <4>1, PutIfNewerKeeps
    <3> QED BY <1>4, <3>1, <3>2, <3>3 DEF PutAccepted, Install
  <2> QED BY <1>1, <1>2, <2>1, <2>3, <2>4, <2>5
<1>5. CASE Publish
  <2>1. /\ op.pc = "publish" /\ cached' = op.env /\ UNCHANGED <<store, reader, last>>
        /\ op' = [op EXCEPT !.pc = "finish"]
    BY <1>5 DEF Publish
  <2>2. op'.env = op.env /\ op'.plain = op.plain
        /\ op' \in [pc : {"idle", "read", "publish", "finish"}, env : Copy,
                    raw : Copy, plain : BOOLEAN]
    BY <1>1, <2>1
  <2>3. op.env \in Envelope BY <1>1, <2>1 DEF PutInv
  <2>4. PutInv' BY <1>1, <2>2, <2>3 DEF PutInv
  <2>5. cached' \in Copy BY <2>1, <2>3 DEF Copy
  <2> QED BY <1>1, <1>2, <2>1, <2>2, <2>4, <2>5, StoreKept
<1>6. ASSUME op' = Idle
      PROVE  /\ PutInv'
             /\ op' \in [pc : {"idle", "read", "publish", "finish"}, env : Copy,
                         raw : Copy, plain : BOOLEAN]
  BY <1>6 DEF Idle, PutInv, Copy
<1>7. CASE Finish
  <2>1. op' = Idle /\ UNCHANGED <<cached, reader>> BY <1>7 DEF Finish
  <2>2. StoreInv' /\ StoreTyped'
    <3>1. CASE op.plain /\ Retain(RawPut(store, op.env), "plainPut")
      <4>1. op.env \in Envelope /\ ~Accepted(op.env) BY <1>1, <3>1 DEF PutInv
      <4> QED BY <1>1, <3>1, <4>1, RawPutKeeps
    <3>2. CASE UNCHANGED <<store, last>> BY <1>1, <3>2, StoreKept
    <3> QED BY <1>7, <3>1, <3>2 DEF Finish
  <2> QED BY <1>1, <1>2, <1>6, <2>1, <2>2
<1>8. CASE Abandon
  <2>1. op' = Idle /\ UNCHANGED <<cached, store, reader, last>> BY <1>8 DEF Abandon
  <2> QED BY <1>1, <1>2, <1>6, <2>1, StoreKept
<1> QED BY <1>3, <1>4, <1>5, <1>7, <1>8

(* The end of a get, and what happens outside any call.                    *)
LEMMA OtherStep ==
  ASSUME IInv, GetResume \/ Outside
  PROVE  IInv'
<1>1. /\ StoreInv /\ StoreTyped /\ PutInv /\ cached \in Copy
      /\ op \in [pc : {"idle", "read", "publish", "finish"}, env : Copy,
                 raw : Copy, plain : BOOLEAN]
      /\ reader \in [busy : BOOLEAN, raw : Copy]
  BY Parts
<1>2. ASSUME reader' \in [busy : BOOLEAN, raw : Copy], cached' \in Copy,
             StoreInv', StoreTyped', op' \in {op, Idle}
      PROVE  IInv'
  <2>1. Idle \in [pc : {"idle", "read", "publish", "finish"}, env : Copy,
                  raw : Copy, plain : BOOLEAN]
    BY DEF Idle, Copy
  <2>2. PutInv' BY <1>1, <1>2 DEF PutInv, Idle
  <2> QED BY <1>1, <1>2, <2>1, <2>2 DEF IInv, TypeOK, StoreTyped
<1>3. NoReader \in [busy : BOOLEAN, raw : Copy] BY DEF NoReader, Copy
<1>4. CASE GetResume
  <2> DEFINE e == SelectNewest(reader.raw, store.value)
             h == IF Withdrawn(e) THEN store.history ELSE <<>>
  <2>1. reader' = NoReader /\ UNCHANGED <<cached, op>> BY <1>4 DEF GetResume
  <2>2. h \in Seq(Envelope)
    <3>1. store.history \in Seq(Envelope) BY <1>1 DEF StoreTyped, Store
    <3>2. <<>> \in Seq(Envelope) OBVIOUS
    <3> QED BY <3>1, <3>2
  <2>3. e \in Copy BY <1>1, Selected DEF StoreTyped, Store, Copy
  <2>4. \/ UNCHANGED <<store, last>>
        \/ e # None /\ Retain(PutIfNewer(store, e, h), "get")
    BY <1>4 DEF GetResume
  <2> HIDE DEF e, h
  <2>5. StoreInv' /\ StoreTyped'
    <3>1. CASE UNCHANGED <<store, last>> BY <1>1, <3>1, StoreKept
    <3>2. CASE e # None /\ Retain(PutIfNewer(store, e, h), "get")
      <4>1. e \in Envelope BY <2>3, <3>2 DEF Copy
      <4> QED BY <1>1, <2>2, <3>2, <4>1, PutIfNewerKeeps
    <3> QED BY <2>4, <3>1, <3>2
  <2> QED BY <1>1, <1>2, <1>3, <2>1, <2>5
<1>5. ASSUME NEW e \in Envelope, InboundPut(e) PROVE IInv'
  <2>1. /\ Validates(e) /\ Commit(e, Existing(e)) /\ cached' = e
        /\ UNCHANGED <<op, reader>>
    BY <1>5 DEF InboundPut, StoreInbound
  <2>2. StoreInv' /\ StoreTyped' BY <1>1, <2>1, CommitKeeps
  <2> QED BY <1>1, <1>2, <2>1, <2>2 DEF Copy
<1>6. CASE Expire
  BY <1>1, <1>2, <1>6, StoreKept DEF Expire, Copy
<1>7. CASE Restart
  BY <1>1, <1>2, <1>3, <1>7, StoreKept DEF Restart, Copy
<1> QED BY <1>4, <1>5, <1>6, <1>7 DEF Outside

(* The invariant holds in every reachable state.                           *)
THEOREM Inductive == Spec => []IInv
<1>1. IInv /\ [Next]_vars => IInv'
  <2> SUFFICES ASSUME IInv, [Next]_vars PROVE IInv' OBVIOUS
  <2>1. CASE Begin
    BY <2>1, BeginStep DEF Begin, Copy
  <2>2. CASE Step
    BY <2>2, PutStep, OtherStep DEF Step
  <2>3. CASE Outside
    BY <2>3, OtherStep
  <2>4. CASE UNCHANGED vars
    <3>1. /\ StoreInv /\ StoreTyped /\ PutInv /\ cached \in Copy
          /\ op \in [pc : {"idle", "read", "publish", "finish"}, env : Copy,
                     raw : Copy, plain : BOOLEAN]
          /\ reader \in [busy : BOOLEAN, raw : Copy]
      BY Parts
    <3>2. UNCHANGED <<cached, store, op, reader, last>> BY <2>4 DEF vars
    <3>3. StoreInv' /\ StoreTyped' BY <3>1, <3>2, StoreKept
    <3>4. PutInv' BY <3>1, <3>2 DEF PutInv
    <3> QED BY <3>1, <3>2, <3>3, <3>4 DEF IInv, TypeOK, StoreTyped
  <2> QED BY <2>1, <2>2, <2>3, <2>4 DEF Next
<1> QED BY InitIInv, <1>1, PTL DEF Spec

(* A retained multisignature state or tombstone only ever gives way to a   *)
(* higher seq, plain puts aside.                                           *)
THEOREM AcceptedAlwaysAdvances == Spec => []AcceptedNeverRegresses
<1>1. IInv => AcceptedNeverRegresses BY DEF IInv, StoreInv
<1> QED BY <1>1, Inductive, PTL

(* A retained tombstone that was put or received is always shown.          *)
THEOREM WrittenTombstoneAlwaysShown == Spec => []WrittenTombstoneShown
<1>1. IInv => WrittenTombstoneShown BY DEF IInv, StoreInv
<1> QED BY <1>1, Inductive, PTL

(* While an accepted state is retained, its metadata are those of its      *)
(* envelope: put_if_newer compares with the seq that is really there.      *)
THEOREM MetadataAlwaysFit == Spec => []MetadataFit
<1>1. IInv => MetadataFit BY DEF IInv, StoreInv
<1> QED BY <1>1, Inductive, PTL

=============================================================================
