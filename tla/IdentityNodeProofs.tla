------------------------- MODULE IdentityNodeProofs -------------------------
(***************************************************************************)
(* Proofs about IdentityNode, for every envelope set, with and without a   *)
(* durable store.                                                          *)
(*                                                                         *)
(* Whatever the step, the durable store either stays as it is or is the    *)
(* result of put_if_newer for an envelope and a history that can be shown  *)
(* together (StoreStep).  That needs two facts about the steps before: the *)
(* envelope a put publishes was validated over the base and the chain that *)
(* the put remembers (SubmitSound), and the types.  The rest follows from  *)
(* StoreStep: metadata and envelope agree, the head is served, and every   *)
(* step is one of AcceptedHead.                                            *)
(***************************************************************************)
EXTENDS IdentityNode, RecordLemmas

(* What a put remembers between its validation and its end.                *)
SubmitSound ==
  op.pc \in {"publish", "finish"} =>
    op.env \in Envelope /\ IdentityOverwrite(K, op.env, op.base, op.chain)

(* A put was begun with an envelope.                                       *)
PutHasEnvelope == op.call # "get" => op.env \in Envelope

NInv == TypeOK /\ SubmitSound /\ PutHasEnvelope

(* A history kept with e, if there is one, ends at e.                      *)
Fits(h, e) == h = <<>> \/ EndsAt(h, e)

(* An envelope and the history to be retained with it can be shown.        *)
Showable(e, h) ==
  /\ e \in Envelope /\ h \in Seq(Envelope) /\ Fits(h, e)
  /\ IdentityGet(K, e, EndingAt(h, e))

StoreChange ==
  \/ UNCHANGED store
  \/ \E e, h : Showable(e, h) /\ store' = PutIfNewer(store, e, h)

-----------------------------------------------------------------------------

(* The empty history is a history.                                         *)
LEMMA EmptyHistory == <<>> \in Seq(Envelope)
OBVIOUS

(* What an overwrite yields can be shown.                                  *)
LEMMA OverwriteShowable ==
  ASSUME NEW e \in Envelope, NEW x \in Envelope \cup {None},
         NEW c \in Seq(Envelope), IdentityOverwrite(K, e, x, c)
  PROVE  Showable(e, AcceptedHistory(e, x, c))
<1> DEFINE h == AcceptedHistory(e, x, c)
<1>1. /\ h \in Seq(Envelope)
      /\ IF IsMultisig(e) THEN EndsAt(h, e) /\ History(K, h)
                          ELSE h = <<>> /\ LegacyState(K, e)
  BY AcceptedIsShown
<1>2. e # None /\ e.kind = "identity"
  BY EnvelopeAssumption DEF IdentityOverwrite
<1>3. IsMultisig(e) => EndingAt(h, e) = h /\ h # <<>>
  BY <1>1, <1>2 DEF EndingAt, EndsAt
<1>4. IdentityGet(K, e, EndingAt(h, e))
  BY <1>1, <1>2, <1>3 DEF IdentityGet
<1> QED
  BY <1>1, <1>4 DEF Showable, Fits

(* What was validated for a read can be shown.                             *)
LEMMA ReadShowable ==
  ASSUME NEW e \in Envelope, NEW c \in Seq(Envelope), IdentityGet(K, e, c),
         Fits(c, e)
  PROVE  Showable(e, c)
<1>1. e # None
  BY EnvelopeAssumption
<1>2. IdentityGet(K, e, EndingAt(c, e))
  BY <1>1 DEF IdentityGet, EndingAt
<1> QED
  BY <1>2 DEF Showable

(* _history_to_current returns a history of envelopes that ends at the     *)
(* current one, or none.                                                   *)
LEMMA HistoryToCurrentType ==
  ASSUME NEW h \in Seq(Envelope), NEW x \in Envelope \cup {None}, NEW e \in Envelope
  PROVE  /\ HistoryToCurrent(h, x, e) \in Seq(Envelope)
         /\ Fits(HistoryToCurrent(h, x, e), e)
<1>1. CASE EndsAt(h, e) \/ x = None \/ x = e
  BY <1>1, EmptyHistory DEF HistoryToCurrent, Fits
<1>2. CASE ~(EndsAt(h, e) \/ x = None \/ x = e)
  <2>1. <<x, e>> \in Seq(Envelope)
    BY <1>2
  <2>2. EndsAt(<<x, e>>, e)
    <3>1. <<x, e>> # <<>> /\ Len(<<x, e>>) = 2 /\ <<x, e>>[2] = e
      OBVIOUS
    <3> QED
      BY <3>1 DEF EndsAt
  <2>3. Append(h, e) \in Seq(Envelope) /\ EndsAt(Append(h, e), e)
    <3>1. /\ Append(h, e) \in Seq(Envelope) /\ Len(h) \in Nat
          /\ Len(Append(h, e)) = Len(h) + 1 /\ Append(h, e)[Len(h) + 1] = e
      BY AppendProperties
    <3>2. Append(h, e) # <<>>
      BY <3>1
    <3> QED
      BY <3>1, <3>2 DEF EndsAt
  <2> QED
    BY <1>2, <2>1, <2>2, <2>3, EmptyHistory DEF HistoryToCurrent, Fits
<1> QED
  BY <1>1, <1>2

(* Parts of the types, kept apart for the provers.                         *)
LEMMA Typed ==
  ASSUME TypeOK
  PROVE  /\ cached \in Envelope \cup {None}
         /\ store.value \in Envelope \cup {None}
         /\ store.history \in Seq(Envelope)
         /\ op.raw \in Envelope \cup {None}
         /\ op.base \in Envelope \cup {None}
         /\ op.env \in Envelope \cup {None}
         /\ op.chain \in Seq(Envelope)
         /\ Served \in Envelope \cup {None}
         /\ Current \in Envelope \cup {None}
         /\ InboundBase \in Envelope \cup {None}
         /\ InboundChain \in Seq(Envelope)
<1>1. /\ cached \in Envelope \cup {None}
      /\ store.value \in Envelope \cup {None}
      /\ op.raw \in Envelope \cup {None}
      /\ op.base \in Envelope \cup {None}
      /\ op.env \in Envelope \cup {None}
  BY DEF TypeOK, Store
<1>2. store.history \in Seq(Envelope) /\ op.chain \in Seq(Envelope)
  BY DEF TypeOK, Store
<1>3. Served \in Envelope \cup {None}
  BY <1>1 DEF Served
<1>4. Current \in Envelope \cup {None} /\ InboundBase \in Envelope \cup {None}
  BY <1>1, <1>3 DEF Current, InboundBase, SelectNewest
<1>5. InboundChain \in Seq(Envelope)
  BY <1>2, EmptyHistory DEF InboundChain, EndingAt
<1> QED
  BY <1>1, <1>2, <1>3, <1>4, <1>5

-----------------------------------------------------------------------------

(* An inbound envelope is stored only together with a history that shows it. *)
LEMMA InboundChange ==
  ASSUME TypeOK, NEW e \in Envelope, StoreInbound(e)
  PROVE  StoreChange
<1>1. CASE Durable /\ e # InboundBase
  <2>1. IdentityOverwrite(K, e, InboundBase, InboundChain)
    BY <1>1 DEF StoreInbound, Validates
  <2>2. Showable(e, AcceptedHistory(e, InboundBase, InboundChain))
    BY <2>1, Typed, OverwriteShowable
  <2>3. store' = PutIfNewer(store, e, AcceptedHistory(e, InboundBase, InboundChain))
    BY <1>1 DEF StoreInbound, Retain
  <2> QED
    BY <2>2, <2>3 DEF StoreChange
<1>2. CASE ~(Durable /\ e # InboundBase)
  BY <1>2 DEF StoreInbound, StoreChange
<1> QED
  BY <1>1, <1>2

(* What a get caches was validated with the history it caches.             *)
LEMMA CacheChange ==
  ASSUME NEW e \in Envelope, NEW c \in Seq(Envelope), CacheRead(e, c), Fits(c, e)
  PROVE  StoreChange
<1>1. Showable(e, c)
  BY ReadShowable DEF CacheRead
<1>2. store' = PutIfNewer(store, e, c) \/ UNCHANGED store
  BY DEF CacheRead, Retain
<1> QED
  BY <1>1, <1>2 DEF StoreChange

(* A submitted put retains what it validated, or nothing yet, and          *)
(* remembers what it validated.                                            *)
LEMMA SubmitChange ==
  ASSUME TypeOK, op.env \in Envelope, NEW x \in Envelope \cup {None},
         NEW c \in Seq(Envelope), Submit(x, c)
  PROVE  StoreChange /\ SubmitSound'
<1>1. IdentityOverwrite(K, op.env, x, c)
  BY DEF Submit
<1>2. Showable(op.env, AcceptedHistory(op.env, x, c))
  BY <1>1, OverwriteShowable
<1>3. \/ store' = PutIfNewer(store, op.env, AcceptedHistory(op.env, x, c))
      \/ UNCHANGED store
  BY DEF Submit, Retain
<1>4. op'.env = op.env /\ op'.base = x /\ op'.chain = c
  BY DEF Submit, Idle
<1> QED
  BY <1>1, <1>2, <1>3, <1>4 DEF StoreChange, SubmitSound

(* The chains that peers can yield are histories of envelopes.             *)
LEMMA RemoteChainType ==
  ASSUME NEW c \in RemoteChains
  PROVE  c \in Seq(Envelope)
BY DEF RemoteChains, BoundChains

(* Every step leaves the store alone or retains something showable.        *)
LEMMA StoreStep ==
  ASSUME NInv, Next
  PROVE  StoreChange
<1> USE DEF NInv
<1>1. ASSUME NEW call, NEW e, NEW x, NEW raw \in Envelope \cup {None},
             Read(call, e, x, raw)
      PROVE  StoreChange
  <2>1. UNCHANGED store \/ (raw # None /\ StoreInbound(raw))
    BY <1>1 DEF Read, GetValue, ReadRemote
  <2>2. raw # None => raw \in Envelope
    OBVIOUS
  <2> QED
    BY <2>1, <2>2, InboundChange DEF StoreChange
<1>2. CASE GetResume
  <2> DEFINE chain == HistoryToCurrent(store.history, store.value, Current)
  <2>1. Current \in Envelope
    BY <1>2, Typed DEF GetResume
  <2>2. chain \in Seq(Envelope) /\ Fits(chain, Current)
    BY <2>1, Typed, HistoryToCurrentType
  <2>2a. <<Current>> \in Seq(Envelope) /\ Fits(<<Current>>, Current)
    BY <2>1 DEF Fits, EndsAt
  <2>3. CacheRead(Current, chain) \/ CacheRead(Current, <<Current>>) \/ UNCHANGED store
    BY <1>2 DEF GetResume
  <2> QED
    BY <2>1, <2>2, <2>2a, <2>3, CacheChange DEF StoreChange
<1>3. ASSUME NEW c \in RemoteChains, GetWithChain(c)
      PROVE  StoreChange
  <2>1. c \in Seq(Envelope) /\ CacheRead(op.base, c) /\ EndsAt(c, op.base)
    BY <1>3, RemoteChainType DEF GetWithChain
  <2>2. op.base \in Envelope
    <3>1. Len(c) \in 1..Len(c) /\ op.base = c[Len(c)]
      BY <2>1 DEF EndsAt
    <3> QED
      BY <2>1, <3>1, ElementOfSeq
  <2> QED
    BY <2>1, <2>2, CacheChange DEF Fits
<1>4. CASE PutResume
  <2> DEFINE chain == EndingAt(store.history, Current)
  <2>1. op.env \in Envelope
    BY <1>4 DEF PutResume, PutPreconditions, PutHasEnvelope
  <2>2. chain \in Seq(Envelope) /\ Current \in Envelope \cup {None}
    <3>1. chain \in Seq(Envelope)
      BY Typed, EmptyHistory DEF EndingAt
    <3> QED
      BY <3>1, Typed
  <2>3. \/ Submit(Current, <<>>) \/ Submit(Current, chain)
        \/ Current # None /\ Submit(Current, <<Current>>)
        \/ UNCHANGED store
    BY <1>4 DEF PutResume
  <2>4. Current # None => <<Current>> \in Seq(Envelope)
    BY <2>2
  <2> QED
    BY <2>1, <2>2, <2>3, <2>4, SubmitChange, EmptyHistory DEF StoreChange
<1>5. ASSUME NEW c \in RemoteChains, PutWithChain(c)
      PROVE  StoreChange
  <2>1. c \in Seq(Envelope) /\ op.base \in Envelope \cup {None}
    BY RemoteChainType, Typed
  <2>2. op.env \in Envelope /\ Submit(op.base, c)
    BY <1>5 DEF PutWithChain, PutHasEnvelope
  <2> QED
    BY <2>1, <2>2, SubmitChange
<1>6. CASE Finish
  <2>1. op.env \in Envelope /\ IdentityOverwrite(K, op.env, op.base, op.chain)
    BY <1>6 DEF Finish, SubmitSound
  <2>2. Showable(op.env, AcceptedHistory(op.env, op.base, op.chain))
    BY <2>1, Typed, OverwriteShowable
  <2>3. \/ store' = PutIfNewer(store, op.env,
                               AcceptedHistory(op.env, op.base, op.chain))
        \/ UNCHANGED store
    BY <1>6 DEF Finish, Retain
  <2> QED
    BY <2>2, <2>3 DEF StoreChange
<1>7. ASSUME NEW e \in Envelope, Confirm(e)
      PROVE  StoreChange
  <2> DEFINE chain == HistoryToCurrent(store.history, store.value, e)
  <2>1. chain \in Seq(Envelope) /\ IdentityGet(K, e, chain) /\ Fits(chain, e)
    BY <1>7, Typed, HistoryToCurrentType DEF Confirm
  <2>2. Showable(e, chain)
    BY <2>1, ReadShowable
  <2>3. store' = PutIfNewer(store, e, chain) \/ UNCHANGED store
    BY <1>7 DEF Confirm, Retain
  <2> QED
    BY <2>2, <2>3 DEF StoreChange
<1>8. ASSUME NEW e \in Envelope, InboundPut(e)
      PROVE  StoreChange
  BY <1>8, InboundChange DEF InboundPut
<1>9. CASE Publish \/ Abandon \/ InboundGet \/ Expire \/ Restart
  BY <1>9 DEF Publish, Abandon, InboundGet, Expire, Restart, StoreChange
<1> QED
  BY <1>1, <1>2, <1>3, <1>4, <1>5, <1>6, <1>7, <1>8, <1>9
     DEF Next, Begin, Step, Outside

-----------------------------------------------------------------------------
(* NInv is inductive.                                                      *)

(* The store keeps its type.                                               *)
LEMMA StoreType ==
  ASSUME TypeOK, StoreChange
  PROVE  store' \in Store
<1>1. CASE UNCHANGED store
  BY <1>1 DEF TypeOK
<1>2. ASSUME NEW e, NEW h, Showable(e, h), store' = PutIfNewer(store, e, h)
      PROVE  store' \in Store
  <2>1. e \in Envelope /\ h \in Seq(Envelope)
    BY <1>2 DEF Showable
  <2>2. e.seq \in Nat
    BY <2>1, EnvelopeAssumption DEF Decoded
  <2>3. [value |-> e, seq |-> e.seq, history |-> h] \in Store
    BY <2>1, <2>2 DEF Store
  <2> QED
    BY <1>2, <2>3 DEF PutIfNewer, TypeOK
<1> QED
  BY <1>1, <1>2 DEF StoreChange

Operations ==
  [pc : {"idle", "read", "chain", "publish", "finish"},
   call : Call, env : Envelope \cup {None}, expected : Hash,
   raw : Envelope \cup {None}, base : Envelope \cup {None},
   chain : Seq(Envelope), retain : BOOLEAN]

(* What an operation becomes keeps its type, and what SubmitSound and      *)
(* PutHasEnvelope say of it.                                               *)
OpSound == op' \in Operations /\ SubmitSound' /\ PutHasEnvelope'

(* An idle operation is sound.                                             *)
LEMMA IdleSound == ASSUME op' = Idle PROVE OpSound
<1>1. Idle \in Operations
  BY EmptyHistory DEF Idle, Operations, Call, Hash
<1>2. Idle.pc = "idle" /\ Idle.call = "get"
  BY DEF Idle
<1> QED
  BY <1>1, <1>2 DEF OpSound, SubmitSound, PutHasEnvelope

(* A submitted put is sound.                                               *)
LEMMA SubmitOp ==
  ASSUME NInv, op.call # "get", NEW x \in Envelope \cup {None},
         NEW c \in Seq(Envelope), Submit(x, c)
  PROVE  OpSound
<1>1. op.env \in Envelope /\ op.call \in Call
  BY DEF NInv, PutHasEnvelope, TypeOK
<1>2. SubmitSound'
  BY <1>1, SubmitChange DEF NInv
<1>3. PICK r \in BOOLEAN :
        op' = [Idle EXCEPT !.pc = "publish", !.call = op.call, !.env = op.env,
                           !.base = x, !.chain = c, !.retain = r]
  BY DEF Submit, LegacyPut
<1>4. op' = [pc |-> "publish", call |-> op.call, env |-> op.env,
             expected |-> Zero, raw |-> None, base |-> x, chain |-> c,
             retain |-> r]
  BY <1>3 DEF Idle
<1>5. op' \in Operations /\ PutHasEnvelope'
  BY <1>1, <1>4 DEF Operations, PutHasEnvelope, Hash
<1> QED
  BY <1>2, <1>5 DEF OpSound

(* Every step leaves a sound operation.                                    *)
LEMMA OpStep ==
  ASSUME NInv, Next
  PROVE  OpSound
<1> USE DEF NInv
<1>0. op \in Operations
  BY DEF TypeOK, Operations
<1>1. ASSUME NEW call \in Call, NEW e \in Envelope \cup {None}, NEW x \in Hash,
             NEW raw \in Envelope \cup {None}, Read(call, e, x, raw),
             call # "get" => e \in Envelope
      PROVE  OpSound
  <2>1. op' = [pc |-> "read", call |-> call, env |-> e, expected |-> x,
               raw |-> raw, base |-> None, chain |-> <<>>, retain |-> FALSE]
    BY <1>1 DEF Read, Idle
  <2>2. op' \in Operations
    BY <2>1, EmptyHistory DEF Operations
  <2> QED
    BY <1>1, <2>1, <2>2 DEF OpSound, SubmitSound, PutHasEnvelope
<1>2. ASSUME Begin PROVE OpSound
  <2>1. /\ "get" \in Call /\ "put" \in Call /\ "putIfCurrent" \in Call
        /\ None \in Envelope \cup {None} /\ Zero \in Hash
        /\ \A x \in Envelope : x.update \in Hash
    BY DEF Call, Hash
  <2>2. PICK raw \in Envelope \cup {None} :
          \/ Read("get", None, Zero, raw)
          \/ \E e \in Envelope : Read("put", e, Zero, raw)
          \/ \E e, x \in Envelope : Read("putIfCurrent", e, x.update, raw)
    BY <1>2 DEF Begin
  <2>3. CASE Read("get", None, Zero, raw)
    BY <1>1, <2>1, <2>3
  <2>4. CASE \E e \in Envelope : Read("put", e, Zero, raw)
    BY <1>1, <2>1, <2>4
  <2>5. CASE \E e, x \in Envelope : Read("putIfCurrent", e, x.update, raw)
    BY <1>1, <2>1, <2>5
  <2> QED
    BY <2>2, <2>3, <2>4, <2>5
<1>3. ASSUME NEW p \in {"chain"}, Current \in Envelope \cup {None},
             op' = [op EXCEPT !.pc = p, !.base = Current]
      PROVE  OpSound
  <2>1. /\ op' \in Operations /\ op'.pc = "chain"
        /\ op'.call = op.call /\ op'.env = op.env
    BY <1>0, <1>3 DEF Operations
  <2> QED
    BY <2>1 DEF OpSound, SubmitSound, PutHasEnvelope
<1>4. CASE GetResume
  BY <1>3, <1>4, IdleSound, Typed DEF GetResume, CacheRead, Done
<1>5. ASSUME NEW c \in RemoteChains, GetWithChain(c)
      PROVE  OpSound
  BY <1>5, IdleSound DEF GetWithChain, CacheRead, Done
<1>6. CASE PutResume
  <2> DEFINE chain == EndingAt(store.history, Current)
  <2>1. chain \in Seq(Envelope) /\ Current \in Envelope \cup {None}
    <3>1. chain \in Seq(Envelope)
      BY Typed, EmptyHistory DEF EndingAt
    <3> QED
      BY <3>1, Typed
  <2>2. op.call # "get"
    BY <1>6 DEF PutResume, PutPreconditions
  <2>3. \/ Submit(Current, <<>>) \/ Submit(Current, chain)
        \/ Current # None /\ Submit(Current, <<Current>>)
        \/ op' = [op EXCEPT !.pc = "chain", !.base = Current]
    BY <1>6 DEF PutResume
  <2>4. Current # None => <<Current>> \in Seq(Envelope)
    BY <2>1
  <2> QED
    BY <1>3, <2>1, <2>2, <2>3, <2>4, SubmitOp, EmptyHistory
<1>7. ASSUME NEW c \in RemoteChains, PutWithChain(c)
      PROVE  OpSound
  <2>1. c \in Seq(Envelope) /\ op.base \in Envelope \cup {None}
    BY RemoteChainType, Typed
  <2> QED
    BY <1>7, <2>1, SubmitOp DEF PutWithChain
<1>8. CASE Publish
  <2>1. /\ op' \in Operations /\ op'.pc = "finish" /\ op.pc = "publish"
        /\ op'.call = op.call /\ op'.env = op.env
        /\ op'.base = op.base /\ op'.chain = op.chain
    BY <1>0, <1>8 DEF Operations, Publish
  <2> QED
    BY <2>1 DEF OpSound, SubmitSound, PutHasEnvelope
<1>9. CASE Finish \/ Abandon \/ Restart
  BY <1>9, IdleSound DEF Finish, Abandon, Restart, Done
<1>10. CASE UNCHANGED op
  BY <1>0, <1>10 DEF OpSound, SubmitSound, PutHasEnvelope
<1>11. ASSUME NEW e \in Envelope, InboundPut(e) \/ Confirm(e)
       PROVE  UNCHANGED op
  BY <1>11 DEF InboundPut, Confirm
<1>12. CASE InboundGet \/ Expire
  BY <1>10, <1>12 DEF InboundGet, Expire
<1> QED
  BY <1>2, <1>4, <1>5, <1>6, <1>7, <1>8, <1>9, <1>10, <1>11, <1>12
     DEF Next, Step, Outside

-----------------------------------------------------------------------------
(* The types of the two remaining variables.                               *)

(* Only an envelope, or nothing, is ever cached.                           *)
LEMMA CachedType ==
  ASSUME NInv, Next
  PROVE  cached' \in Envelope \cup {None}
<1> USE DEF NInv
<1>1. /\ cached \in Envelope \cup {None} /\ Served \in Envelope \cup {None}
      /\ op.env \in Envelope \cup {None}
  BY Typed
<1>2. CachedAfterGet \in Envelope \cup {None}
  BY <1>1 DEF CachedAfterGet
<1>3. ASSUME NEW raw \in Envelope \cup {None}, NEW call, NEW e, NEW x,
             Read(call, e, x, raw)
      PROVE  cached' \in Envelope \cup {None}
  BY <1>1, <1>2, <1>3 DEF Read, GetValue, ReadRemote, StoreInbound
<1>4. CASE Begin
  BY <1>3, <1>4 DEF Begin
<1>5. CASE Step
  BY <1>1, <1>5 DEF Step, GetResume, GetWithChain, PutResume, PutWithChain, Submit,
                    Publish, Finish, Abandon
<1>6. CASE Outside
  BY <1>1, <1>2, <1>6 DEF Outside, InboundPut, Confirm, StoreInbound, InboundGet,
                          Expire, Restart
<1> QED
  BY <1>4, <1>5, <1>6 DEF Next

LastValues == [by : {"none", "inbound", "confirm"} \cup Call,
               over : Envelope \cup {None}]

(* The history variable keeps its type.                                    *)
LEMMA LastType ==
  ASSUME NInv, Next
  PROVE  last' \in LastValues
<1> USE DEF NInv
<1>1. last \in LastValues /\ store.value \in Envelope \cup {None} /\ op.call \in Call
  BY DEF TypeOK, LastValues, Store
<1>2. ASSUME NEW s, NEW who \in {"inbound", "confirm"} \cup Call, Retain(s, who)
      PROVE  last' \in LastValues
  BY <1>1, <1>2 DEF Retain, LastValues
<1>3. ASSUME NEW e, StoreInbound(e) PROVE last' \in LastValues
  BY <1>1, <1>2, <1>3 DEF StoreInbound
<1>4. ASSUME NEW e, NEW c, CacheRead(e, c) PROVE last' \in LastValues
  BY <1>1, <1>2, <1>4 DEF CacheRead, Call
<1>5. ASSUME NEW x, NEW c, Submit(x, c) PROVE last' \in LastValues
  BY <1>1, <1>2, <1>5 DEF Submit, Call
<1>6. CASE Begin
  BY <1>1, <1>3, <1>6 DEF Begin, Read, GetValue, ReadRemote
<1>7. CASE Step
  BY <1>1, <1>2, <1>4, <1>5, <1>7
     DEF Step, GetResume, GetWithChain, PutResume, PutWithChain, Publish, Finish, Abandon
<1>8. CASE Outside
  BY <1>1, <1>2, <1>3, <1>8 DEF Outside, InboundPut, Confirm, InboundGet, Expire, Restart
<1> QED
  BY <1>6, <1>7, <1>8 DEF Next

(* NInv holds in every reachable state.                                    *)
THEOREM Inductive == Spec => []NInv
<1>1. Init => NInv
  <2> SUFFICES ASSUME Init PROVE NInv
    OBVIOUS
  <2>1. op \in Operations
    BY EmptyHistory DEF Init, Idle, Operations, Call, Hash
  <2>2. store \in Store
    BY EmptyHistory DEF Init, EmptyStore, Store
  <2>3. op.pc = "idle" /\ op.call = "get"
    BY DEF Init, Idle
  <2> QED
    BY <2>1, <2>2, <2>3
       DEF Init, NInv, TypeOK, Operations, SubmitSound, PutHasEnvelope
<1>2. NInv /\ Next => NInv'
  <2> SUFFICES ASSUME NInv, Next PROVE NInv'
    OBVIOUS
  <2>1. store' \in Store
    BY StoreStep, StoreType DEF NInv
  <2> QED
    BY <2>1, OpStep, CachedType, LastType
       DEF NInv, TypeOK, OpSound, Operations, LastValues
<1>3. NInv /\ UNCHANGED vars => NInv'
  BY DEF NInv, TypeOK, SubmitSound, PutHasEnvelope, vars
<1> QED
  BY <1>1, <1>2, <1>3, PTL DEF Spec

(* The variables of a node always have their types.                        *)
THEOREM TypeCorrect == Spec => []TypeOK
<1>1. NInv => TypeOK
  BY DEF NInv
<1> QED
  BY <1>1, Inductive, PTL

-----------------------------------------------------------------------------
(* What follows from StoreStep.                                            *)

StoreInv ==
  /\ MetadataMatches
  /\ RetainedIsServed
  /\ Fits(store.history, store.value)

(* put_if_newer writes envelope, metadata and history together.            *)
LEMMA StoreInvStep ==
  ASSUME TypeOK, StoreInv, StoreChange
  PROVE  /\ StoreInv'
         /\ \/ UNCHANGED store
            \/ /\ store'.value # store.value
               /\ store'.value \in Envelope /\ store'.history \in Seq(Envelope)
               /\ IdentityGet(K, store'.value, EndingAt(store'.history, store'.value))
               /\ store.value # None => store'.value.seq > store.value.seq
<1>1. CASE UNCHANGED store
  BY <1>1 DEF StoreInv, MetadataMatches, RetainedIsServed, RetainedChain, Fits
<1>2. ASSUME NEW e, NEW h, Showable(e, h), store' = PutIfNewer(store, e, h),
             Newer(store, e)
      PROVE  /\ StoreInv'
             /\ store'.value = e /\ store'.history = h /\ e # store.value
             /\ store.value # None => e.seq > store.value.seq
  <2>1. store' = [value |-> e, seq |-> e.seq, history |-> h]
    BY <1>2 DEF PutIfNewer
  <2>2. e \in Envelope /\ e # None /\ e.seq \in Nat
    BY <1>2, EnvelopeAssumption DEF Showable, Decoded
  <2>3. StoreInv'
    BY <1>2, <2>1, <2>2
       DEF StoreInv, MetadataMatches, RetainedIsServed, RetainedChain, Showable
  <2>4. store.value # None => e.seq > store.value.seq
    <3> SUFFICES ASSUME store.value # None PROVE e.seq > store.value.seq
      OBVIOUS
    <3>1. store.seq = store.value.seq
      BY DEF StoreInv, MetadataMatches
    <3> QED
      BY <1>2, <3>1 DEF Newer, CurrentSeq
  <2>5. e # store.value
    BY <2>2, <2>4
  <2> QED
    BY <2>1, <2>3, <2>4, <2>5
<1>3. ASSUME NEW e, NEW h, store' = PutIfNewer(store, e, h), ~Newer(store, e)
      PROVE  UNCHANGED store
  BY <1>3 DEF PutIfNewer
<1> QED
  BY <1>1, <1>2, <1>3 DEF StoreChange, Showable

(* The store satisfies StoreInv in every reachable state.                  *)
THEOREM StoreIsSound == Spec => []StoreInv
<1>1. Init => StoreInv
  BY DEF Init, EmptyStore, StoreInv, MetadataMatches, RetainedIsServed, Fits
<1>2. NInv /\ StoreInv /\ [Next]_vars => StoreInv'
  <2>1. NInv /\ StoreInv /\ Next => StoreInv'
    BY StoreStep, StoreInvStep DEF NInv
  <2>2. StoreInv /\ UNCHANGED vars => StoreInv'
    BY DEF StoreInv, MetadataMatches, RetainedIsServed, RetainedChain, Fits, vars
  <2> QED
    BY <2>1, <2>2
<1> QED
  BY <1>1, <1>2, Inductive, PTL DEF Spec

(* The metadata that put_if_newer compares against is always that of the   *)
(* envelope beside it.                                                     *)
THEOREM MetadataAlwaysMatches == Spec => []MetadataMatches
<1>1. StoreInv => MetadataMatches
  BY DEF StoreInv
<1> QED
  BY <1>1, StoreIsSound, PTL

(* In every state, so after any restart, the node can serve the head it    *)
(* retains from what it retains beside it.                                 *)
THEOREM RetainedIsAlwaysServed == Spec => []RetainedIsServed
<1>1. StoreInv => RetainedIsServed
  BY DEF StoreInv
<1> QED
  BY <1>1, StoreIsSound, PTL

(* A node implements AcceptedHead: whatever its peers send and however its *)
(* calls interleave, its head only gives way to one of higher seq that it  *)
(* can show.                                                               *)
THEOREM ImplementsAcceptedHead == Spec => KeepsPromise
<1>1. Init => AH!Init
  BY DEF Init, EmptyStore, AH!Init
<1>2. NInv /\ StoreInv /\ [Next]_vars => [AH!Next]_(AH!vars)
  <2>1. ASSUME NInv, StoreInv, Next
        PROVE  [AH!Next]_(AH!vars)
    <3>1. CASE UNCHANGED store
      BY <3>1 DEF AH!vars
    <3>2. CASE /\ store'.value \in Envelope /\ store'.history \in Seq(Envelope)
               /\ IdentityGet(K, store'.value,
                              EndingAt(store'.history, store'.value))
               /\ store.value # None => store'.value.seq > store.value.seq
      BY <3>2 DEF AH!Next, AH!Accept, CanShow
    <3> QED
      BY <2>1, <3>1, <3>2, StoreStep, StoreInvStep DEF NInv
  <2>2. ASSUME UNCHANGED vars PROVE [AH!Next]_(AH!vars)
    BY <2>2 DEF vars, AH!vars
  <2> QED
    BY <2>1, <2>2
<1> QED
  BY <1>1, <1>2, Inductive, StoreIsSound, PTL DEF Spec, KeepsPromise, AH!Spec

-----------------------------------------------------------------------------
(* Descent: what the writers without the lock put in place of a head.      *)

(* A history that ends at x, extended by e, contains x before e.           *)
LEMMA AppendDescends ==
  ASSUME NEW s, NEW h \in Seq(Envelope), NEW x, NEW e \in Envelope,
         EndsAt(h, x), s.value = e, s.history = Append(h, e), IsMultisig(e)
  PROVE  Descends(s, x)
<1>1. /\ Len(h) \in Nat /\ Len(h) >= 1 /\ Len(s.history) = Len(h) + 1
      /\ s.history[Len(h)] = h[Len(h)]
  BY AppendProperties DEF EndsAt
<1>2. s.history[Len(h)].update = x.update
  BY <1>1 DEF EndsAt
<1>3. Len(h) \in 1..Len(s.history) - 1
  BY <1>1
<1> QED
  BY <1>2, <1>3 DEF Descends

(* So does the pair of x and e.                                            *)
LEMMA PairDescends ==
  ASSUME NEW s, NEW x, NEW e,
         s.value = e, s.history = <<x, e>>, IsMultisig(e)
  PROVE  Descends(s, x)
<1>1. Len(s.history) = 2 /\ s.history[1] = x /\ 1 \in 1..Len(s.history) - 1
  OBVIOUS
<1> QED
  BY <1>1 DEF Descends

(* put_if_newer of e either leaves the store or puts e in it.              *)
LEMMA PutChanges ==
  ASSUME NEW e, NEW h, store' = PutIfNewer(store, e, h), store' # store
  PROVE  store'.value = e /\ store'.history = h
BY DEF PutIfNewer

(* An inbound PUT is validated over the durable head, so what it retains   *)
(* descends from it.                                                       *)
LEMMA InboundDescends ==
  ASSUME NInv, StoreInv, NEW e \in Envelope, StoreInbound(e), store' # store
  PROVE  Descends(store', store.value)
<1> DEFINE v == store.value
           c == RetainedChain
<1>1. CASE v = None
  BY <1>1 DEF Descends
<1>2. CASE v # None
  <2>1. Served = v
    BY <1>2 DEF Served, StoreInv, RetainedIsServed
  <2>2. InboundBase = v /\ InboundChain = c
    BY <1>2, <2>1 DEF InboundBase, InboundChain, SelectNewest, RetainedChain
  <2>3. /\ IdentityOverwrite(K, e, v, c)
        /\ store' = PutIfNewer(store, e, AcceptedHistory(e, v, c))
    BY <2>2 DEF StoreInbound, Validates, Retain
  <2>4. store'.value = e /\ store'.history = AcceptedHistory(e, v, c)
    BY <2>3, PutChanges
  <2>5. v \in Envelope /\ c \in Seq(Envelope)
    <3>1. v \in Envelope
      BY <1>2, Typed DEF NInv
    <3>2. c \in Seq(Envelope)
      BY Typed, EmptyHistory DEF NInv, RetainedChain, EndingAt
    <3> QED
      BY <3>1, <3>2
  <2>6. CASE ~IsMultisig(e)
    <3>1. ~IsMultisig(v) /\ e.owner = v.owner
      BY <1>2, <2>3, <2>6 DEF IdentityOverwrite, Transition, LegacyUpdate
    <3> QED
      BY <2>4, <2>6, <3>1 DEF Descends
  <2>7. CASE IsMultisig(e) /\ IsMultisig(v) /\ c # <<>>
    <3>1. store'.history = Append(c, e)
      BY <1>2, <2>4, <2>7 DEF AcceptedHistory
    <3>2. EndsAt(c, v)
      BY <2>7 DEF RetainedChain, EndingAt
    <3> QED
      BY <2>4, <2>5, <2>7, <3>1, <3>2, AppendDescends
  <2>8. CASE IsMultisig(e) /\ ~(IsMultisig(v) /\ c # <<>>)
    <3>1. store'.history = <<v, e>>
      BY <1>2, <2>4, <2>8 DEF AcceptedHistory
    <3> QED
      BY <2>4, <2>8, <3>1, PairDescends
  <2> QED
    BY <2>6, <2>7, <2>8
<1> QED
  BY <1>1, <1>2

(* A confirmation extends the retained history.                            *)
LEMMA ConfirmDescends ==
  ASSUME NInv, StoreInv, NEW e \in Envelope, Confirm(e), store' # store
  PROVE  Descends(store', store.value)
<1> DEFINE v == store.value
           h == store.history
           c == HistoryToCurrent(h, v, e)
<1>1. CASE v = None
  BY <1>1 DEF Descends
<1>2. CASE v # None
  <2>1. c # <<>> /\ IsMultisig(e) /\ store' = PutIfNewer(store, e, c)
    BY EnvelopeAssumption DEF Confirm, Retain, IsMultisig, Decoded
  <2>2. store'.value = e /\ store'.history = c
    BY <2>1, PutChanges
  <2>3. e # v
    BY <2>1, StoreInvStep, <2>2, Typed, StoreStep DEF NInv, Confirm, Next, Outside
  <2>4. h \in Seq(Envelope)
    BY Typed DEF NInv
  <2>5. ~EndsAt(h, e)
    BY <2>3 DEF StoreInv, Fits, EndsAt
  <2>6. CASE h = <<>>
    <3>1. c = <<v, e>>
      BY <1>2, <2>3, <2>5, <2>6 DEF HistoryToCurrent
    <3> QED
      BY <2>1, <2>2, <3>1, PairDescends
  <2>7. CASE h # <<>>
    <3>1. c = Append(h, e) /\ EndsAt(h, v)
      BY <1>2, <2>1, <2>3, <2>5, <2>7 DEF HistoryToCurrent
    <3> QED
      BY <2>1, <2>2, <2>4, <3>1, AppendDescends
  <2> QED
    BY <2>6, <2>7
<1> QED
  BY <1>1, <1>2

(* One step preserves UnlockedWritersDescend.                              *)
LEMMA DescendStep ==
  ASSUME NInv, StoreInv, UnlockedWritersDescend, Next
  PROVE  UnlockedWritersDescend'
<1>1. CASE UNCHANGED <<store, last>>
  BY <1>1 DEF UnlockedWritersDescend, Descends
<1>2. store' # store => store'.value # store.value
  BY StoreStep, StoreInvStep DEF NInv
<1>3. ASSUME NEW s, NEW who, Retain(s, who),
             store' # store /\ who \in {"inbound", "confirm"} =>
               Descends(store', store.value)
      PROVE  UnlockedWritersDescend'
  <2>1. CASE store' = store
    BY <1>1, <1>3, <2>1 DEF Retain
  <2>2. CASE store' # store
    <3>1. last' = [by |-> who, over |-> store.value]
      BY <1>2, <1>3, <2>2 DEF Retain
    <3> QED
      BY <1>3, <2>2, <3>1 DEF UnlockedWritersDescend
  <2> QED
    BY <2>1, <2>2
<1>4. ASSUME NEW e \in Envelope, StoreInbound(e) PROVE UnlockedWritersDescend'
  <2>1. store' # store => Descends(store', store.value)
    BY <1>4, InboundDescends
  <2> QED
    BY <1>1, <1>3, <1>4, <2>1 DEF StoreInbound
<1>5. ASSUME NEW e \in Envelope, Confirm(e) PROVE UnlockedWritersDescend'
  <2>1. store' # store => Descends(store', store.value)
    BY <1>5, ConfirmDescends
  <2> QED
    BY <1>1, <1>3, <1>5, <2>1 DEF Confirm
<1>6. ASSUME NEW s, NEW who \in Call, Retain(s, who) PROVE UnlockedWritersDescend'
  BY <1>3, <1>6 DEF Call
<1>7. op.call \in Call /\ "get" \in Call /\ "put" \in Call
  BY DEF NInv, TypeOK, Call
<1>8. CASE Begin
  <2>1. ASSUME NEW raw \in Envelope \cup {None}, NEW call, NEW e, NEW x,
               Read(call, e, x, raw)
        PROVE  UnlockedWritersDescend'
    <3>1. UNCHANGED <<store, last>> \/ (raw \in Envelope /\ StoreInbound(raw))
      BY <2>1 DEF Read, GetValue, ReadRemote
    <3> QED
      BY <1>1, <1>4, <3>1
  <2> QED
    BY <1>8, <2>1 DEF Begin
<1>9. CASE Step
  BY <1>1, <1>6, <1>7, <1>9
     DEF Step, GetResume, GetWithChain, CacheRead, PutResume, PutWithChain, Submit,
         Publish, Finish, Abandon
<1>10. CASE Outside
  BY <1>1, <1>4, <1>5, <1>10 DEF Outside, InboundPut, InboundGet, Expire, Restart
<1> QED
  BY <1>8, <1>9, <1>10 DEF Next

(* Writers that hold no lock, at whatever point of a call they run, only   *)
(* replace the durable head by one that descends from it.                  *)
THEOREM UnlockedWritersAlwaysDescend == Spec => []UnlockedWritersDescend
<1>1. Init => UnlockedWritersDescend
  BY DEF Init, UnlockedWritersDescend
<1>2. NInv /\ StoreInv /\ UnlockedWritersDescend /\ [Next]_vars
        => UnlockedWritersDescend'
  <2>1. UnlockedWritersDescend /\ UNCHANGED vars => UnlockedWritersDescend'
    BY DEF UnlockedWritersDescend, Descends, vars
  <2> QED
    BY <2>1, DescendStep
<1> QED
  BY <1>1, <1>2, Inductive, StoreIsSound, PTL DEF Spec

-----------------------------------------------------------------------------

(* A put that goes on after its preconditions offers nothing for which the *)
(* node would need a history it has not.                                   *)
PutAllowed ==
  op.pc \in {"chain", "publish", "finish"} /\ op.call # "get" =>
    ~HistoryMissing(op.env)

(* Only gets and puts read or publish: a get is never at its publication.  *)
GetPublishesNothing == op.pc \in {"publish", "finish"} => op.call # "get"

NothingRetained == ~Durable => store.value = None

RefusalInv ==
  PutAllowed /\ GetPublishesNothing /\ NothingRetained /\ StorelessServerRefuses

(* A get_value answers from memory or stores what it has validated.        *)
LEMMA GetValueRefuses ==
  ASSUME RefusalInv, NEW raw, GetValue(raw)
  PROVE  NothingRetained' /\ StorelessServerRefuses'
<1>1. HistoryMissing(CachedAfterGet) => CachedAfterGet = None
  BY DEF RefusalInv, NothingRetained, StorelessServerRefuses, HistoryMissing,
         CachedAfterGet
<1> QED
  BY <1>1 DEF RefusalInv, NothingRetained, StorelessServerRefuses, GetValue,
     StoreInbound, Validates, HistoryMissing

(* Every step preserves the refusals of a server without a store and of a  *)
(* put with no history.                                                    *)
LEMMA RefusalStep ==
  ASSUME NInv, RefusalInv, Next
  PROVE  RefusalInv'
<1> USE DEF RefusalInv
<1>1. NothingRetained' /\ StorelessServerRefuses' /\ op' = op => RefusalInv'
  BY DEF PutAllowed, GetPublishesNothing, HistoryMissing
<1>2. op' = Idle => PutAllowed' /\ GetPublishesNothing'
  BY DEF PutAllowed, GetPublishesNothing, Idle
<1>3. UNCHANGED store => NothingRetained'
  BY DEF NothingRetained
<1>4. UNCHANGED cached => StorelessServerRefuses'
  BY DEF StorelessServerRefuses, HistoryMissing
<1>5. CASE Begin
  <2>1. ASSUME NEW raw, NEW call, NEW e, NEW x, Read(call, e, x, raw)
        PROVE  RefusalInv'
    <3>1. op'.pc = "read"
      BY <2>1 DEF Read, Idle
    <3>2. NothingRetained' /\ StorelessServerRefuses'
      BY <2>1, <1>3, <1>4, GetValueRefuses DEF Read, ReadRemote
    <3> QED
      BY <3>1, <3>2 DEF PutAllowed, GetPublishesNothing
  <2> QED
    BY <1>5, <2>1 DEF Begin
<1>6. ASSUME NEW e, NEW c, CacheRead(e, c), UNCHANGED cached PROVE RefusalInv'
  <2>1. NothingRetained'
    BY <1>6, <1>3 DEF CacheRead, NothingRetained
  <2> QED
    BY <1>2, <1>4, <1>6, <2>1 DEF CacheRead, Done
<1>7. CASE op.pc = "read" /\ op' = [op EXCEPT !.pc = "chain", !.base = Current]
           /\ UNCHANGED <<cached, store>> /\ (op.call = "get" \/ ~HistoryMissing(op.env))
  <2>1. op'.pc = "chain" /\ op'.call = op.call /\ op'.env = op.env
    BY <1>7 DEF NInv, TypeOK
  <2> QED
    BY <1>3, <1>4, <1>7, <2>1 DEF PutAllowed, GetPublishesNothing, HistoryMissing
<1>8. ASSUME NEW x, NEW c, Submit(x, c), op.call # "get", ~HistoryMissing(op.env)
      PROVE  RefusalInv'
  <2>1. op'.pc = "publish" /\ op'.call = op.call /\ op'.env = op.env
    BY <1>8 DEF Submit, Idle
  <2>2. NothingRetained'
    BY <1>8, <1>3 DEF Submit, NothingRetained
  <2>3. UNCHANGED cached
    BY <1>8 DEF Submit
  <2> QED
    BY <1>4, <1>8, <2>1, <2>2, <2>3
       DEF PutAllowed, GetPublishesNothing, HistoryMissing
<1>9. CASE GetResume
  BY <1>6, <1>7, <1>9 DEF GetResume
<1>10. CASE \E c \in RemoteChains : GetWithChain(c)
  BY <1>6, <1>10 DEF GetWithChain
<1>11. CASE PutResume
  BY <1>7, <1>8, <1>11 DEF PutResume, PutPreconditions
<1>12. CASE \E c \in RemoteChains : PutWithChain(c)
  BY <1>8, <1>12 DEF PutWithChain, PutAllowed
<1>13. CASE Publish
  <2>1. op'.pc = "finish" /\ op'.call = op.call /\ op'.env = op.env
    BY <1>13 DEF Publish, NInv, TypeOK
  <2>2. op.call # "get" /\ ~HistoryMissing(op.env)
    BY <1>13 DEF Publish, GetPublishesNothing, PutAllowed
  <2> QED
    BY <1>3, <1>13, <2>1, <2>2
       DEF Publish, PutAllowed, GetPublishesNothing, StorelessServerRefuses,
           HistoryMissing
<1>14. CASE Finish
  <2>1. NothingRetained'
    BY <1>3, <1>14 DEF Finish, NothingRetained
  <2> QED
    BY <1>2, <1>4, <1>14, <2>1 DEF Finish, Done
<1>15. CASE Abandon
  BY <1>2, <1>3, <1>4, <1>15 DEF Abandon
<1>16. CASE Outside
  <2>1. ASSUME NEW e \in Envelope, InboundPut(e) PROVE RefusalInv'
    BY <1>1, <2>1 DEF InboundPut, StoreInbound, Validates, NothingRetained,
       StorelessServerRefuses, HistoryMissing
  <2>2. ASSUME NEW e \in Envelope, Confirm(e) PROVE RefusalInv'
    BY <1>1, <1>4, <2>2 DEF Confirm, NothingRetained
  <2>3. CASE InboundGet
    BY <1>1, <1>3, <2>3 DEF InboundGet, CachedAfterGet, NothingRetained,
       StorelessServerRefuses, HistoryMissing
  <2>4. CASE Expire \/ Restart
    BY <1>1, <1>2, <1>3, <2>4 DEF Expire, Restart, StorelessServerRefuses
  <2> QED
    BY <1>16, <2>1, <2>2, <2>3, <2>4 DEF Outside
<1> QED
  BY <1>5, <1>9, <1>10, <1>11, <1>12, <1>13, <1>14, <1>15, <1>16 DEF Next, Step

(* A server without a durable store never comes to hold a post-genesis     *)
(* Identity, whichever of a put, a read and an inbound request offers it.  *)
THEOREM StorelessServerAlwaysRefuses == Spec => []StorelessServerRefuses
<1>1. Init => RefusalInv
  BY DEF Init, Idle, EmptyStore, RefusalInv, PutAllowed, GetPublishesNothing,
         NothingRetained, StorelessServerRefuses
<1>2. NInv /\ RefusalInv /\ [Next]_vars => RefusalInv'
  <2>1. RefusalInv /\ UNCHANGED vars => RefusalInv'
    BY DEF RefusalInv, PutAllowed, GetPublishesNothing, NothingRetained,
           StorelessServerRefuses, HistoryMissing, vars
  <2> QED
    BY <2>1, RefusalStep
<1>3. RefusalInv => StorelessServerRefuses
  BY DEF RefusalInv
<1> QED
  BY <1>1, <1>2, <1>3, Inductive, PTL DEF Spec

=============================================================================
