------------------------- MODULE RemoteHistoryProofs ------------------------
(***************************************************************************)
(* Proofs about RemoteHistory, for every set of envelopes, every list of   *)
(* peers and every bound on the walk.                                      *)
(*                                                                         *)
(* The inductive invariant has three parts.  What a peer retains replays,  *)
(* or is one signed legacy record (Sound).  What the walk has found is a   *)
(* chain with the bound still ahead (Walking).  Each loyal peer still      *)
(* serves the predecessor the walk asks for, and has not been passed over  *)
(* for it (Reliable): it retains the entry found last, so it retains the   *)
(* predecessor, whatever it has accepted since.  And what the walk has     *)
(* found, at whichever peers and with whichever proofs, is one line        *)
(* (Replaying): every entry is a legal step in some history that begins    *)
(* the way the line does that the walk started from.                      *)
(***************************************************************************)
EXTENDS RemoteHistory, RecordLemmas, WellFoundedInduction

SoundAt(p) ==
  /\ env[p] = None => chain[p] = <<>>
  /\ env[p] # None =>
       /\ env[p].kind = "identity"
       /\ IF IsMultisig(env[p]) THEN EndsAt(chain[p], env[p]) /\ History(K, chain[p])
                                ELSE chain[p] = <<>> /\ LegacyState(K, env[p])

Sound == \A p \in Peer : SoundAt(p)

\* A collected chain, but for where it begins.
Linked(f) ==
  /\ \A i \in 2..Len(f) : ~NoPredecessor(f[i]) /\ f[i].pred = f[i - 1].update
  /\ \A i, j \in 1..Len(f) : f[i].update = f[j].update => i = j

WalkingAt(w) ==
  /\ w.pc # "done" => w.end = "none"
  /\ w.pc = "asking" =>
       /\ w.found # <<>> /\ Len(w.found) < MaxHistory /\ Linked(w.found)
       /\ ~NoPredecessor(w.found[1])
  /\ w.end = "complete" =>
       /\ w.found # <<>> /\ Len(w.found) <= MaxHistory /\ Linked(w.found)
       /\ NoPredecessor(w.found[1])

Walking == WalkingAt(walk)

Holds(p, hash) == \E x \in Retained(p) : x.update = hash

Reliable ==
  /\ walk.pc = "asking" =>
       \A p \in loyal : /\ p \in up
                        /\ Holds(p, walk.found[1].update)
                        /\ \A i \in 1..(walk.ask - 1) : Order[i] # p
  /\ walk.end = "notFound" => loyal = {}

\* A set of states that holds the predecessor of each of its states; the ones
\* without a predecessor have the form of envelope a.
Line(U, a) ==
  \A x \in Envelope : x.update \in U =>
    IF NoPredecessor(x) THEN IsMultisig(x) <=> IsMultisig(a) ELSE x.pred \in U

\* The states of a sequence of envelopes.
States(h) == {h[i].update : i \in 1..Len(h)}

\* A history, or a legacy record that may become one.
Descent(h) ==
  /\ h # <<>>
  /\ Anchor(K, h[1])
  /\ \A i \in 2..Len(h) : HistoryStep(K, h[1], h[i - 1], h[i])

\* Envelope e has a place in a history with an anchor like a.
Placed(e, a) ==
  IF NoPredecessor(e) THEN Anchor(K, e)
                      ELSE \E d \in Envelope : HistoryStep(K, a, d, e)

\* What is collected belongs to one line.
OneLine(f) ==
  \E a \in Envelope, U \in SUBSET {x.update : x \in Envelope} :
    /\ Line(U, a)
    /\ States(f) \subseteq U
    /\ \A i \in 1..Len(f) : Placed(f[i], a)

Replaying == genuine /\ walk.found # <<>> => OneLine(walk.found)

IInv == TypeOK /\ Sound /\ Walking /\ Reliable

-----------------------------------------------------------------------------
(* The peers.                                                              *)

(* A step of a history names the state it follows, so it has one.          *)
LEMMA StepNamesState ==
  ASSUME NEW k, NEW a, NEW d, NEW e, HistoryStep(k, a, d, e)
  PROVE  ~NoPredecessor(e) /\ e.pred = d.update
BY DEF HistoryStep, NoPredecessor, Upgrade, RotationFromLegacy, RotationFromState,
       RotationInvariants, OrdinaryUpdate, SignerReplacement, CommonTransition

(* An anchor has no predecessor.                                           *)
LEMMA AnchorIsFirst ==
  ASSUME NEW k, NEW e \in Envelope, Anchor(k, e)
  PROVE  NoPredecessor(e)
BY EnvelopeAssumption DEF Anchor, Genesis, LegacyState, NoPredecessor, Decoded

(* A peer retains envelopes only.                                          *)
LEMMA RetainedType ==
  ASSUME TypeOK, NEW p \in Peer
  PROVE  Retained(p) \subseteq Envelope
<1>1. env[p] \in Envelope \cup {None} /\ chain[p] \in Seq(Envelope)
  BY DEF TypeOK
<1> QED
  BY <1>1, ElementOfSeq DEF Retained

(* A peer that retains a state serves the predecessor the state names.     *)
LEMMA PredecessorServed ==
  ASSUME TypeOK, Sound, NEW p \in Peer, NEW x \in Retained(p), ~NoPredecessor(x)
  PROVE  Served(p, x.pred) # {}
<1> DEFINE c == chain[p]
<1>1. env[p] \in Envelope /\ env[p] # None /\ c \in Seq(Envelope)
  BY DEF TypeOK, Retained
<1>2. SoundAt(p)
  BY DEF Sound
<1>3. CASE ~IsMultisig(env[p])
  <2>1. c = <<>> /\ env[p].form = "legacy"
    BY <1>1, <1>2, <1>3 DEF SoundAt, LegacyState
  <2>2. x = env[p]
    BY <1>1, <2>1 DEF Retained
  <2> QED
    BY <1>1, <2>1, <2>2, EnvelopeAssumption DEF NoPredecessor, Decoded
<1>4. CASE IsMultisig(env[p])
  <2>1. /\ env[p].kind = "identity"
        /\ c # <<>> /\ EndsAt(c, env[p]) /\ History(K, c)
    BY <1>1, <1>2, <1>4 DEF SoundAt, EndsAt
  <2>2. IdentityGet(K, env[p], c)
    BY <1>4, <2>1 DEF IdentityGet
  <2>3. PICK i \in 1..Len(c) : x = c[i]
    BY <1>1, <2>1 DEF Retained
  <2>4. Len(c) \in Nat /\ 1 \in 1..Len(c)
    BY <1>1, <2>3
  <2>5. i # 1
    <3>1. c[1] \in Envelope /\ Anchor(K, c[1])
      BY <1>1, <2>1, <2>4, ElementOfSeq DEF History
    <3> QED
      BY <2>3, <3>1, AnchorIsFirst
  <2>6. i \in 2..Len(c) /\ i - 1 \in 1..Len(c)
    BY <2>3, <2>4, <2>5
  <2>7. HistoryStep(K, c[1], c[i - 1], c[i])
    BY <2>1, <2>6 DEF History
  <2>8. c[i - 1].update = x.pred
    BY <2>3, <2>7, StepNamesState
  <2>9. c[i - 1] \in Retained(p)
    BY <1>1, <2>1, <2>6 DEF Retained
  <2> QED
    BY <2>2, <2>8, <2>9 DEF Served
<1> QED
  BY <1>3, <1>4

(* A peer that accepts a multisignature successor forgets nothing.         *)
LEMMA AcceptKeeps ==
  ASSUME TypeOK, Sound, TypeOK', NEW q \in Peer, NEW e \in Envelope, Accept(q, e),
         NEW p \in Peer, p = q => IsMultisig(e)
  PROVE  Retained(p) \subseteq Retained(p)'
<1>1. /\ IdentityOverwrite(K, e, env[q], chain[q])
      /\ env' = [env EXCEPT ![q] = e]
      /\ chain' = [chain EXCEPT ![q] = AcceptedHistory(e, env[q], chain[q])]
  BY DEF Accept
<1>2. /\ env \in [Peer -> Envelope \cup {None}]
      /\ chain \in [Peer -> Seq(Envelope)]
  BY DEF TypeOK
<1>3. CASE p # q
  <2>1. env'[p] = env[p] /\ chain'[p] = chain[p]
    BY <1>1, <1>2, <1>3
  <2> QED
    BY <2>1 DEF Retained
<1>4. CASE p = q /\ env[p] # None
  <2>1. env'[p] = e /\ chain'[p] = AcceptedHistory(e, env[p], chain[p]) /\ IsMultisig(e)
    BY <1>1, <1>2, <1>4
  <2>2. env'[p] # None /\ chain[p] \in Seq(Envelope) /\ env[p] \in Envelope
    BY <1>2, <1>4, <2>1, EnvelopeAssumption
  <2>3. CASE chain[p] = <<>>
    <3>1. chain'[p] = <<env[p], e>>
      BY <1>4, <2>1, <2>3 DEF AcceptedHistory
    <3>2. chain'[p] # <<>> /\ 1 \in 1..Len(chain'[p]) /\ chain'[p][1] = env[p]
      BY <3>1
    <3>3. Retained(p) = {env[p]}
      BY <1>4, <2>3 DEF Retained
    <3> QED
      BY <2>2, <3>2, <3>3 DEF Retained
  <2>4. CASE chain[p] # <<>>
    <3>1. IsMultisig(env[p])
      BY <1>4, <2>4 DEF Sound, SoundAt
    <3>2. chain'[p] = Append(chain[p], e)
      BY <1>4, <2>1, <2>4, <3>1 DEF AcceptedHistory
    <3>3. /\ Len(chain'[p]) = Len(chain[p]) + 1 /\ Len(chain[p]) \in Nat
          /\ \A i \in 1..Len(chain[p]) : chain'[p][i] = chain[p][i]
      BY <2>2, <3>2, AppendProperties
    <3>4. chain'[p] # <<>>
      BY <2>2, <3>2
    <3>5. \A i \in 1..Len(chain[p]) : i \in 1..Len(chain'[p])
      BY <3>3
    <3> QED
      BY <1>4, <2>2, <2>4, <3>3, <3>4, <3>5 DEF Retained
  <2> QED
    BY <2>3, <2>4
<1>5. CASE p = q /\ env[p] = None
  BY <1>5 DEF Retained
<1> QED
  BY <1>3, <1>4, <1>5

-----------------------------------------------------------------------------
(* The walk.                                                               *)

(* A linked chain stays linked when the predecessor of its first entry is  *)
(* put before it, unless the state was seen already.                       *)
LEMMA ExtendedLinked ==
  ASSUME NEW f \in Seq(Envelope), NEW e \in Envelope, Linked(f),
         f # <<>> => ~NoPredecessor(f[1]) /\ f[1].pred = e.update,
         \A i \in 1..Len(f) : f[i].update # e.update
  PROVE  /\ Extended(f, e) \in Seq(Envelope)
         /\ Len(Extended(f, e)) = Len(f) + 1
         /\ Extended(f, e) # <<>> /\ Extended(f, e)[1] = e
         /\ Linked(Extended(f, e))
<1> DEFINE g == Extended(f, e)
<1>1. <<e>> \in Seq(Envelope) /\ Len(<<e>>) = 1 /\ <<e>>[1] = e /\ Len(f) \in Nat
  OBVIOUS
<1>2. /\ g \in Seq(Envelope) /\ Len(g) = 1 + Len(f)
      /\ \A i \in 1..Len(g) : g[i] = IF i <= 1 THEN <<e>>[i] ELSE f[i - 1]
  BY <1>1, ConcatProperties DEF Extended
<1>3. g[1] = e /\ \A i \in 2..Len(g) : g[i] = f[i - 1]
  BY <1>1, <1>2
<1>4. ASSUME NEW i \in 2..Len(g)
      PROVE  ~NoPredecessor(g[i]) /\ g[i].pred = g[i - 1].update
  <2>1. CASE i = 2
    <3>1. f # <<>> /\ g[2] = f[1] /\ g[1] = e
      BY <1>1, <1>2, <1>3, <2>1
    <3> QED
      BY <2>1, <3>1
  <2>2. CASE i # 2
    <3>1. i - 1 \in 2..Len(g) /\ i - 1 \in 2..Len(f)
      BY <1>1, <1>2, <2>2
    <3>2. g[i] = f[i - 1] /\ g[i - 1] = f[(i - 1) - 1]
      BY <1>3, <3>1
    <3> QED
      BY <3>1, <3>2 DEF Linked
  <2> QED
    BY <2>1, <2>2
<1>5. ASSUME NEW i \in 1..Len(g), NEW j \in 1..Len(g), g[i].update = g[j].update
      PROVE  i = j
  <2>1. CASE i = 1 /\ j # 1
    <3>1. j \in 2..Len(g) /\ j - 1 \in 1..Len(f)
      BY <1>1, <1>2, <2>1
    <3> QED
      BY <1>3, <1>5, <2>1, <3>1
  <2>2. CASE i # 1 /\ j = 1
    <3>1. i \in 2..Len(g) /\ i - 1 \in 1..Len(f)
      BY <1>1, <1>2, <2>2
    <3> QED
      BY <1>3, <1>5, <2>2, <3>1
  <2>3. CASE i # 1 /\ j # 1
    <3>1. /\ i \in 2..Len(g) /\ i - 1 \in 1..Len(f)
          /\ j \in 2..Len(g) /\ j - 1 \in 1..Len(f)
      BY <1>1, <1>2, <2>3
    <3>2. f[i - 1].update = f[j - 1].update
      BY <1>3, <1>5, <3>1
    <3>3. i - 1 = j - 1
      BY <3>1, <3>2 DEF Linked
    <3> QED
      BY <1>2, <3>1, <3>3
  <2> QED
    BY <2>1, <2>2, <2>3
<1>6. g # <<>>
  BY <1>1, <1>2
<1> QED
  BY <1>1, <1>2, <1>3, <1>4, <1>5, <1>6 DEF Linked

(* Where one turn of the loop leaves the walk.                             *)
LEMMA VisitWalks ==
  ASSUME NEW f \in Seq(Envelope), NEW e \in Envelope, Linked(f),
         f # <<>> => ~NoPredecessor(f[1]) /\ f[1].pred = e.update
  PROVE  /\ Visit(f, e) \in [pc : {"idle", "asking", "done"}, found : Seq(Envelope),
                             ask : 1..Len(Order), end : End]
         /\ WalkingAt(Visit(f, e))
         /\ Visit(f, e).end # "notFound"
         /\ Visit(f, e).pc = "asking" => Visit(f, e).found[1] = e /\ Visit(f, e).ask = 1
<1> DEFINE w == Visit(f, e)
           g == Extended(f, e)
<1>1. /\ <<>> \in Seq(Envelope) /\ Len(f) \in Nat /\ MaxHistory \in Nat
      /\ 1 \in 1..Len(Order)
  BY WalkAssumption
<1>3. CASE \/ \E i \in 1..Len(f) : f[i].update = e.update
           \/ TooLong(f)
           \/ ~NoPredecessor(e) /\ TooLong(g)
  <2>1. w = Ended(<<>>, "repeated") \/ w = Ended(<<>>, "tooLong")
    BY <1>3 DEF Visit
  <2>2. PICK x \in {"repeated", "tooLong"} :
          w = [pc |-> "done", found |-> <<>>, ask |-> 1, end |-> x]
    BY <2>1 DEF Ended
  <2> HIDE DEF w, g
  <2>3. /\ w.pc = "done" /\ w.found = <<>> /\ w.ask = 1 /\ w.end = x
        /\ w \in [pc : {"idle", "asking", "done"}, found : Seq(Envelope),
                  ask : 1..Len(Order), end : End]
    BY <1>1, <2>2 DEF End
  <2>4. WalkingAt(w)
    BY <2>3 DEF WalkingAt
  <2> QED
    BY <2>3, <2>4 DEF w
<1>4. CASE /\ ~\E i \in 1..Len(f) : f[i].update = e.update
           /\ ~TooLong(f)
           /\ NoPredecessor(e)
  <2>1. /\ g \in Seq(Envelope) /\ Len(g) = Len(f) + 1 /\ g # <<>> /\ g[1] = e /\ Linked(g)
    BY <1>4, ExtendedLinked
  <2>2. Len(g) <= MaxHistory
    BY <1>1, <1>4, <2>1 DEF TooLong
  <2>3. w = [pc |-> "done", found |-> g, ask |-> 1, end |-> "complete"]
    BY <1>4 DEF Visit, Ended
  <2> HIDE DEF w, g
  <2>4. /\ w.pc = "done" /\ w.found = g /\ w.ask = 1 /\ w.end = "complete"
        /\ w \in [pc : {"idle", "asking", "done"}, found : Seq(Envelope),
                  ask : 1..Len(Order), end : End]
    BY <1>1, <2>1, <2>3 DEF End
  <2>5. WalkingAt(w)
    BY <1>4, <2>1, <2>2, <2>4 DEF WalkingAt
  <2> QED
    BY <2>4, <2>5 DEF w
<1>5. CASE /\ ~\E i \in 1..Len(f) : f[i].update = e.update
           /\ ~TooLong(f)
           /\ ~NoPredecessor(e) /\ ~TooLong(g)
  <2>1. /\ g \in Seq(Envelope) /\ Len(g) = Len(f) + 1 /\ g # <<>> /\ g[1] = e /\ Linked(g)
    BY <1>5, ExtendedLinked
  <2>2. Len(g) < MaxHistory
    BY <1>1, <1>5, <2>1 DEF TooLong
  <2>3. w = [pc |-> "asking", found |-> g, ask |-> 1, end |-> "none"]
    BY <1>5 DEF Visit
  <2> HIDE DEF w, g
  <2>4. /\ w.pc = "asking" /\ w.found = g /\ w.ask = 1 /\ w.end = "none"
        /\ w \in [pc : {"idle", "asking", "done"}, found : Seq(Envelope),
                  ask : 1..Len(Order), end : End]
    BY <1>1, <2>1, <2>3 DEF End
  <2>5. WalkingAt(w)
    BY <1>5, <2>1, <2>2, <2>4 DEF WalkingAt
  <2> QED
    BY <2>1, <2>4, <2>5 DEF w
<1> QED
  BY <1>3, <1>4, <1>5

-----------------------------------------------------------------------------
(* One line.                                                               *)

(* A set of natural numbers has a least element.                           *)
LEMMA LeastNumber ==
  ASSUME NEW T, T \subseteq Nat, T # {}
  PROVE  \E n \in T : \A m \in T : n <= m
<1> DEFINE R == OpToRel(<, Nat)
<1>1. IsWellFoundedOn(R, Nat)
  BY NatLessThanWellFounded
<1>2. \A m, n \in Nat : m < n => <<m, n>> \in R
  BY DEF OpToRel
<1> HIDE DEF R
<1>3. PICK n \in T : \A m \in T : <<m, n>> \notin R
  BY <1>1, WFMin
<1>4. ASSUME NEW m \in T
      PROVE  n <= m
  <2>1. n \in Nat /\ m \in Nat /\ ~(m < n)
    BY <1>2, <1>3
  <2> QED
    BY <2>1
<1> QED
  BY <1>4

(* Of its anchor a step looks at the form only.                            *)
LEMMA AnchorForm ==
  ASSUME NEW a, NEW b, NEW d, NEW e, IsMultisig(a) <=> IsMultisig(b),
         HistoryStep(K, a, d, e)
  PROVE  HistoryStep(K, b, d, e)
BY DEF HistoryStep, RotationFromState

(* Of the state it follows a step looks at the signed update only, apart   *)
(* from the one proof of a legacy record.                                  *)
LEMMA StepOverSameState ==
  ASSUME NEW a, NEW x \in Envelope, NEW y \in Envelope, x.update = y.update,
         NEW e, HistoryStep(K, a, x, e), ~IsMultisig(y) => LegacyState(K, y)
  PROVE  HistoryStep(K, a, y, e)
<1>1. /\ x.form = y.form /\ x.kind = y.kind /\ x.key = y.key /\ x.owner = y.owner
      /\ x.payload = y.payload /\ x.seq = y.seq /\ x.op = y.op
      /\ x.epoch = y.epoch /\ x.threshold = y.threshold /\ x.signers = y.signers
  BY HashAssumption
<1>2. CASE IsMultisig(x)
  BY <1>1, <1>2
     DEF HistoryStep, IsMultisig, RotationFromState, RotationInvariants,
         OrdinaryUpdate, SignerReplacement, CommonTransition, ThresholdProofs
<1>3. CASE ~IsMultisig(x)
  BY <1>1, <1>3
     DEF HistoryStep, IsMultisig, Upgrade, RotationFromLegacy, RotationInvariants
<1> QED
  BY <1>2, <1>3

(* Every entry of a descent after the first names the entry before it, and *)
(* the first names none.                                                   *)
LEMMA DescentLinks ==
  ASSUME NEW h \in Seq(Envelope), Descent(h), NEW i \in 1..Len(h)
  PROVE  /\ h[i] \in Envelope /\ 1 \in 1..Len(h) /\ h[1] \in Envelope
         /\ NoPredecessor(h[i]) <=> i = 1
         /\ i # 1 => /\ i - 1 \in 1..Len(h) /\ i \in 2..Len(h)
                     /\ h[i - 1] \in Envelope
                     /\ h[i].pred = h[i - 1].update
<1>1. Len(h) \in Nat /\ 1 \in 1..Len(h)
  OBVIOUS
<1>2. h[i] \in Envelope /\ h[1] \in Envelope
  BY <1>1, ElementOfSeq
<1>3. NoPredecessor(h[1])
  BY <1>2, AnchorIsFirst DEF Descent
<1>4. ASSUME i # 1
      PROVE  /\ i - 1 \in 1..Len(h) /\ i \in 2..Len(h)
             /\ h[i - 1] \in Envelope
             /\ ~NoPredecessor(h[i]) /\ h[i].pred = h[i - 1].update
  <2>1. i - 1 \in 1..Len(h) /\ i \in 2..Len(h)
    BY <1>1, <1>4
  <2>2. HistoryStep(K, h[1], h[i - 1], h[i])
    BY <2>1 DEF Descent
  <2>3. h[i - 1] \in Envelope
    BY <2>1, ElementOfSeq
  <2> QED
    BY <2>1, <2>2, <2>3, StepNamesState
<1> QED
  BY <1>1, <1>2, <1>3, <1>4

(* The states of a descent are a line.                                     *)
LEMMA DescentIsLine ==
  ASSUME NEW h \in Seq(Envelope), Descent(h)
  PROVE  Line(States(h), h[1])
<1> SUFFICES ASSUME NEW x \in Envelope, x.update \in States(h)
             PROVE  IF NoPredecessor(x) THEN IsMultisig(x) <=> IsMultisig(h[1])
                                        ELSE x.pred \in States(h)
  BY DEF Line
<1>1. PICK i \in 1..Len(h) : x.update = h[i].update
  BY DEF States
<1>2. /\ h[i] \in Envelope /\ h[1] \in Envelope
      /\ NoPredecessor(h[i]) <=> i = 1
      /\ i # 1 => i - 1 \in 1..Len(h) /\ h[i].pred = h[i - 1].update
  BY DescentLinks
<1>3. x.op = h[i].op /\ x.pred = h[i].pred /\ x.form = h[i].form
  BY <1>1, <1>2, HashAssumption
<1>4. NoPredecessor(x) <=> i = 1
  BY <1>2, <1>3 DEF NoPredecessor
<1>5. CASE i = 1
  BY <1>3, <1>4, <1>5 DEF IsMultisig
<1>6. CASE i # 1
  BY <1>2, <1>3, <1>4, <1>6 DEF States
<1> QED
  BY <1>5, <1>6

(* A descent that meets a line anywhere begins the way the line does: its  *)
(* first entry in the line is its first entry.                             *)
LEMMA SameStart ==
  ASSUME NEW h \in Seq(Envelope), Descent(h), NEW U, NEW a, Line(U, a),
         NEW i \in 1..Len(h), h[i].update \in U
  PROVE  IsMultisig(h[1]) <=> IsMultisig(a)
<1> DEFINE T == {j \in 1..Len(h) : h[j].update \in U}
<1>1. PICK n \in T : \A m \in T : n <= m
  <2>1. T \subseteq Nat /\ T # {}
    OBVIOUS
  <2> QED
    BY <2>1, LeastNumber
<1>2. n = 1
  <2> SUFFICES ASSUME n # 1 PROVE FALSE
    OBVIOUS
  <2>1. /\ h[n] \in Envelope /\ ~NoPredecessor(h[n])
        /\ n - 1 \in 1..Len(h) /\ h[n].pred = h[n - 1].update
    BY <1>1, DescentLinks
  <2>2. n - 1 \in T
    BY <1>1, <2>1 DEF Line
  <2>3. n <= n - 1 /\ n \in Nat
    BY <1>1, <2>2
  <2> QED
    BY <2>3
<1>3. h[1] \in Envelope /\ NoPredecessor(h[1]) /\ h[1].update \in U
  BY <1>1, <1>2, DescentLinks
<1> QED
  BY <1>3 DEF Line

(* A descent is about Identity records throughout.                         *)
LEMMA DescentKind ==
  ASSUME NEW h \in Seq(Envelope), Descent(h), NEW i \in 1..Len(h)
  PROVE  h[i].kind = "identity"
<1> DEFINE T == {j \in 1..Len(h) : h[j].kind # "identity"}
<1> SUFFICES ASSUME T # {} PROVE FALSE
  OBVIOUS
<1>1. PICK n \in T : \A m \in T : n <= m
  <2>1. T \subseteq Nat
    OBVIOUS
  <2> QED
    BY <2>1, LeastNumber
<1>2. n # 1
  BY <1>1 DEF Descent, Anchor
<1>3. n - 1 \in 1..Len(h) /\ n \in 2..Len(h)
  BY <1>1, <1>2, DescentLinks
<1>4. h[n - 1].kind = "identity"
  <2>1. n - 1 \notin T
    <3>1. n \in Nat /\ ~(n <= n - 1)
      BY <1>1
    <3> QED
      BY <1>1, <3>1
  <2> QED
    BY <1>3, <2>1
<1>5. HistoryStep(K, h[1], h[n - 1], h[n])
  BY <1>3 DEF Descent
<1>6. h[n].kind = "identity"
  BY <1>4, <1>5
     DEF HistoryStep, Upgrade, RotationFromLegacy, RotationFromState,
         RotationInvariants, OrdinaryUpdate, SignerReplacement, CommonTransition
<1> QED
  BY <1>1, <1>6

(* Every entry of a descent is placed.                                     *)
LEMMA EntryPlaced ==
  ASSUME NEW h \in Seq(Envelope), Descent(h), NEW i \in 1..Len(h),
         NEW a, IsMultisig(h[1]) <=> IsMultisig(a)
  PROVE  Placed(h[i], a)
<1>1. CASE i = 1
  <2>1. NoPredecessor(h[1]) /\ Anchor(K, h[1])
    BY <1>1, DescentLinks DEF Descent
  <2> QED
    BY <1>1, <2>1 DEF Placed
<1>2. CASE i # 1
  <2>1. ~NoPredecessor(h[i]) /\ i \in 2..Len(h) /\ h[i - 1] \in Envelope
    BY <1>2, DescentLinks
  <2>2. HistoryStep(K, h[1], h[i - 1], h[i])
    BY <2>1 DEF Descent
  <2>3. HistoryStep(K, a, h[i - 1], h[i])
    BY <2>2, AnchorForm
  <2> QED
    BY <2>1, <2>3 DEF Placed
<1> QED
  BY <1>1, <1>2

(* Whatever a peer retains is an entry of a descent.                       *)
LEMMA RetainedDescends ==
  ASSUME TypeOK, Sound, NEW p \in Peer, NEW e \in Retained(p)
  PROVE  \E h \in Seq(Envelope) : Descent(h) /\ \E i \in 1..Len(h) : h[i] = e
<1>1. env[p] \in Envelope /\ env[p] # None /\ chain[p] \in Seq(Envelope)
  BY DEF TypeOK, Retained
<1>2. SoundAt(p)
  BY DEF Sound
<1>3. CASE IsMultisig(env[p])
  <2>1. chain[p] # <<>> /\ History(K, chain[p])
    BY <1>1, <1>2, <1>3 DEF SoundAt, EndsAt
  <2>2. Descent(chain[p])
    BY <2>1 DEF History, Descent
  <2>3. \E i \in 1..Len(chain[p]) : chain[p][i] = e
    BY <1>1, <2>1 DEF Retained
  <2> QED
    BY <1>1, <2>2, <2>3
<1>4. CASE ~IsMultisig(env[p])
  <2>1. e = env[p] /\ e.kind = "identity" /\ LegacyState(K, e) /\ ~IsMultisig(e)
    BY <1>1, <1>2, <1>4 DEF SoundAt, Retained
  <2> DEFINE h == <<e>>
  <2>2. h \in Seq(Envelope) /\ h # <<>> /\ Len(h) = 1 /\ h[1] = e
    BY <1>1, <2>1
  <2>3. Anchor(K, e)
    BY <2>1 DEF Anchor
  <2>4. \A i \in 2..Len(h) : FALSE
    BY <2>2
  <2>5. Descent(h)
    BY <2>2, <2>3, <2>4 DEF Descent
  <2>6. \E i \in 1..Len(h) : h[i] = e
    BY <2>2
  <2> QED
    BY <2>2, <2>5, <2>6
<1> QED
  BY <1>3, <1>4

-----------------------------------------------------------------------------
(* The steps.                                                              *)

(* The initial states satisfy the invariant.                               *)
LEMMA InitIInv == Init => IInv
<1> SUFFICES ASSUME Init PROVE IInv
  OBVIOUS
<1> USE DEF Init
<1>1. <<>> \in Seq(Envelope) /\ 1 \in 1..Len(Order)
  BY WalkAssumption
<1>2. TypeOK
  BY <1>1 DEF TypeOK, NoWalk, End
<1>3. Sound
  BY DEF Sound, SoundAt
<1>4. Walking /\ Reliable
  BY DEF Walking, WalkingAt, Reliable, NoWalk
<1> QED
  BY <1>2, <1>3, <1>4 DEF IInv

(* A step of a peer after which the loyal peers are loyal, up and hold all *)
(* they held leaves the reader's part of the invariant alone.              *)
LEMMA ReaderUndisturbed ==
  ASSUME IInv, walk' = walk, loyal' \subseteq loyal,
         \A p \in loyal' : p \in up' /\ Retained(p) \subseteq Retained(p)'
  PROVE  Walking' /\ Reliable'
<1>1. Walking'
  BY DEF IInv, Walking
<1>2. ASSUME walk.pc = "asking", NEW p \in loyal'
      PROVE  /\ p \in up' /\ Holds(p, walk.found[1].update)'
             /\ \A i \in 1..(walk.ask - 1) : Order[i] # p
  BY <1>2 DEF IInv, Reliable, Holds
<1>3. walk.end = "notFound" => loyal' = {}
  BY DEF IInv, Reliable
<1> QED
  BY <1>1, <1>2, <1>3 DEF Reliable

(* Accept preserves the invariant.                                         *)
LEMMA AcceptIInv ==
  ASSUME IInv, NEW q \in Peer, NEW e \in Envelope, Accept(q, e)
  PROVE  IInv'
<1>1. /\ IdentityOverwrite(K, e, env[q], chain[q])
      /\ env' = [env EXCEPT ![q] = e]
      /\ chain' = [chain EXCEPT ![q] = AcceptedHistory(e, env[q], chain[q])]
      /\ loyal' = IF IsMultisig(e) THEN loyal ELSE loyal \ {q}
      /\ UNCHANGED <<up, walk, genuine>>
  BY DEF Accept
<1>2. TypeOK /\ Sound /\ Walking /\ Reliable
  BY DEF IInv
<1>3. /\ env \in [Peer -> Envelope \cup {None}]
      /\ chain \in [Peer -> Seq(Envelope)]
      /\ loyal \subseteq Peer
  BY <1>2 DEF TypeOK
<1>4. /\ chain'[q] \in Seq(Envelope)
      /\ IF IsMultisig(e) THEN EndsAt(chain'[q], e) /\ History(K, chain'[q])
                          ELSE chain'[q] = <<>> /\ LegacyState(K, e)
  <2>1. env[q] \in Envelope \cup {None} /\ chain[q] \in Seq(Envelope)
    BY <1>3
  <2>2. chain'[q] = AcceptedHistory(e, env[q], chain[q])
    BY <1>1, <1>3
  <2>3. /\ AcceptedHistory(e, env[q], chain[q]) \in Seq(Envelope)
        /\ IF IsMultisig(e)
           THEN /\ EndsAt(AcceptedHistory(e, env[q], chain[q]), e)
                /\ History(K, AcceptedHistory(e, env[q], chain[q]))
           ELSE AcceptedHistory(e, env[q], chain[q]) = <<>> /\ LegacyState(K, e)
    BY <1>1, <2>1, AcceptedIsShown
  <2> QED
    BY <2>2, <2>3
<1>5. TypeOK'
  BY <1>1, <1>2, <1>3, <1>4 DEF TypeOK
<1>6. Sound'
  <2> SUFFICES ASSUME NEW p \in Peer PROVE SoundAt(p)'
    BY DEF Sound
  <2>1. CASE p = q
    BY <1>1, <1>3, <1>4, <2>1, EnvelopeAssumption DEF SoundAt, IdentityOverwrite
  <2>2. CASE p # q
    <3>1. env'[p] = env[p] /\ chain'[p] = chain[p]
      BY <1>1, <1>3, <2>2
    <3> QED
      BY <1>2, <3>1 DEF Sound, SoundAt
  <2> QED
    BY <2>1, <2>2
<1>7. CASE walk.pc = "asking"
  <2>1. ASSUME NEW p \in loyal'
        PROVE  p \in up' /\ Retained(p) \subseteq Retained(p)'
    <3>1. p \in loyal /\ p \in Peer /\ (p = q => IsMultisig(e))
      BY <1>1, <1>3
    <3>2. p \in up'
      BY <1>1, <1>2, <1>7, <3>1 DEF Reliable
    <3>3. Retained(p) \subseteq Retained(p)'
      BY <1>2, <1>5, <3>1, AcceptKeeps
    <3> QED
      BY <3>2, <3>3
  <2>2. Walking' /\ Reliable'
    BY <1>1, <2>1, ReaderUndisturbed
  <2> QED
    BY <1>5, <1>6, <2>2 DEF IInv
<1>8. CASE walk.pc # "asking"
  <2>1. Walking'
    BY <1>1, <1>2 DEF Walking
  <2>2. Reliable'
    BY <1>1, <1>2, <1>8 DEF Reliable
  <2> QED
    BY <1>5, <1>6, <2>1, <2>2 DEF IInv
<1> QED
  BY <1>7, <1>8

(* Adopt, Crash and Restart preserve the invariant: a peer they change is  *)
(* no longer loyal, or was not loyal since it was down.                    *)
LEMMA PeerIInv ==
  ASSUME IInv, NEW q \in Peer,
         (\E e \in Envelope : Adopt(q, e)) \/ Crash(q) \/ Restart(q)
  PROVE  IInv'
<1>1. TypeOK /\ Sound /\ Walking /\ Reliable
  BY DEF IInv
<1>2. /\ env \in [Peer -> Envelope \cup {None}]
      /\ chain \in [Peer -> Seq(Envelope)]
      /\ up \subseteq Peer /\ loyal \subseteq Peer
      /\ <<>> \in Seq(Envelope)
  BY <1>1 DEF TypeOK
<1>3. /\ walk' = walk /\ genuine' = genuine /\ loyal' \subseteq loyal
      /\ \A p \in Peer \ {q} : (p \in up' <=> p \in up)
      /\ q \in loyal' => q \in up'
      /\ walk.pc = "asking" => q \notin loyal'
      /\ up' \subseteq Peer
  BY <1>1, <1>2 DEF Adopt, Crash, Restart, Reliable
<1>4. \/ env' = env /\ chain' = chain
      \/ /\ env' = [env EXCEPT ![q] = None] /\ chain' = [chain EXCEPT ![q] = <<>>]
      \/ \E e \in Envelope :
           /\ LegacyState(K, e) /\ e.kind = "identity"
           /\ env' = [env EXCEPT ![q] = e] /\ chain' = [chain EXCEPT ![q] = <<>>]
  BY DEF Adopt, Crash, Restart
<1>5. \A p \in Peer \ {q} : env'[p] = env[p] /\ chain'[p] = chain[p]
  BY <1>2, <1>4
<1>6. TypeOK'
  <2>1. env' \in [Peer -> Envelope \cup {None}] /\ chain' \in [Peer -> Seq(Envelope)]
    BY <1>2, <1>4
  <2> QED
    BY <1>1, <1>2, <1>3, <2>1 DEF TypeOK
<1>7. Sound'
  <2> SUFFICES ASSUME NEW p \in Peer PROVE SoundAt(p)'
    BY DEF Sound
  <2>1. CASE p # q
    BY <1>1, <1>5, <2>1 DEF Sound, SoundAt
  <2>2. CASE p = q
    <3>1. CASE env' = env /\ chain' = chain
      BY <1>1, <3>1 DEF Sound, SoundAt
    <3>2. CASE env' = [env EXCEPT ![q] = None] /\ chain' = [chain EXCEPT ![q] = <<>>]
      BY <1>2, <2>2, <3>2 DEF SoundAt
    <3>3. ASSUME NEW e \in Envelope, LegacyState(K, e), e.kind = "identity",
                 env' = [env EXCEPT ![q] = e], chain' = [chain EXCEPT ![q] = <<>>]
          PROVE  SoundAt(p)'
      <4>1. env'[p] = e /\ chain'[p] = <<>> /\ ~IsMultisig(e) /\ e # None
        BY <1>2, <2>2, <3>3, EnvelopeAssumption DEF IsMultisig, LegacyState
      <4> QED
        BY <3>3, <4>1 DEF SoundAt
    <3> QED
      BY <1>4, <3>1, <3>2, <3>3
  <2> QED
    BY <2>1, <2>2
<1>8. CASE walk.pc = "asking"
  <2>1. ASSUME NEW p \in loyal'
        PROVE  p \in up' /\ Retained(p) \subseteq Retained(p)'
    <3>1. p \in loyal /\ p \in Peer \ {q}
      BY <1>2, <1>3, <1>8
    <3>2. p \in up'
      BY <1>1, <1>3, <1>8, <3>1 DEF Reliable
    <3> QED
      BY <1>5, <3>1, <3>2 DEF Retained
  <2>2. Walking' /\ Reliable'
    BY <1>3, <2>1, ReaderUndisturbed
  <2> QED
    BY <1>6, <1>7, <2>2 DEF IInv
<1>9. CASE walk.pc # "asking"
  <2>1. Walking' /\ Reliable'
    BY <1>1, <1>3, <1>9 DEF Walking, Reliable
  <2> QED
    BY <1>6, <1>7, <2>1 DEF IInv
<1> QED
  BY <1>8, <1>9

(* Start preserves the invariant.                                          *)
LEMMA StartIInv ==
  ASSUME IInv, NEW e \in Envelope, Start(e)
  PROVE  IInv'
<1>1. /\ walk' = Visit(<<>>, e)
      /\ genuine' = (\E p \in Peer : e \in Retained(p))
      /\ loyal' = {p \in up : \E x \in Retained(p) : x.update = e.update}
      /\ UNCHANGED peers
  BY DEF Start
<1>2. TypeOK /\ Sound
  BY DEF IInv
<1>3. <<>> \in Seq(Envelope) /\ Linked(<<>>)
  BY DEF Linked
<1>4. /\ walk' \in [pc : {"idle", "asking", "done"}, found : Seq(Envelope),
                    ask : 1..Len(Order), end : End]
      /\ WalkingAt(walk') /\ walk'.end # "notFound"
      /\ walk'.pc = "asking" => walk'.found[1] = e /\ walk'.ask = 1
  BY <1>1, <1>3, VisitWalks
<1>5. TypeOK'
  BY <1>1, <1>2, <1>4 DEF TypeOK, peers
<1>6. Sound'
  BY <1>1, <1>2 DEF Sound, SoundAt, peers
<1>7. Walking'
  BY <1>4 DEF Walking, WalkingAt
<1>8. Reliable'
  <2>1. ASSUME walk'.pc = "asking", NEW p \in loyal'
        PROVE  /\ p \in up' /\ Holds(p, walk.found[1].update)'
               /\ \A i \in 1..(walk'.ask - 1) : Order[i] # p
    BY <1>1, <1>4, <2>1 DEF Holds, Retained, peers
  <2> QED
    BY <1>4, <2>1 DEF Reliable
<1> QED
  BY <1>5, <1>6, <1>7, <1>8 DEF IInv

(* While the walk asks, a loyal peer has an answer.                        *)
LEMMA LoyalAnswers ==
  ASSUME IInv, walk.pc = "asking", NEW p \in loyal
  PROVE  p \in up /\ Served(p, walk.found[1].pred) # {}
<1>1. TypeOK /\ Sound /\ Walking /\ Reliable /\ p \in Peer
  BY DEF IInv, TypeOK
<1>2. p \in up /\ Holds(p, walk.found[1].update)
  BY <1>1 DEF Reliable
<1>3. PICK x \in Retained(p) : x.update = walk.found[1].update
  BY <1>2 DEF Holds
<1>4. walk.found[1] \in Envelope /\ ~NoPredecessor(walk.found[1])
  <2>1. walk.found \in Seq(Envelope) /\ walk.found # <<>>
    BY <1>1 DEF TypeOK, Walking, WalkingAt
  <2> QED
    BY <1>1, <2>1 DEF Walking, WalkingAt
<1>5. x \in Envelope
  BY <1>1, RetainedType
<1>6. ~NoPredecessor(x) /\ x.pred = walk.found[1].pred
  BY <1>3, <1>4, <1>5, HashAssumption DEF NoPredecessor
<1> QED
  BY <1>1, <1>2, <1>6, PredecessorServed

(* A step of the walk leaves the peers as they are.                        *)
LEMMA PeersStay ==
  ASSUME IInv, UNCHANGED peers, loyal' \subseteq loyal, genuine' \in BOOLEAN,
         walk' \in [pc : {"idle", "asking", "done"}, found : Seq(Envelope),
                    ask : 1..Len(Order), end : End]
  PROVE  TypeOK' /\ Sound'
BY DEF IInv, TypeOK, Sound, SoundAt, peers

(* A walk that has ended without a chain.                                  *)
LEMMA EndedEmpty ==
  ASSUME NEW x \in End \ {"complete"}
  PROVE  /\ Ended(<<>>, x) \in [pc : {"idle", "asking", "done"}, found : Seq(Envelope),
                                ask : 1..Len(Order), end : End]
         /\ WalkingAt(Ended(<<>>, x))
         /\ Ended(<<>>, x).pc = "done" /\ Ended(<<>>, x).end = x
<1> DEFINE w == Ended(<<>>, x)
<1>1. w = [pc |-> "done", found |-> <<>>, ask |-> 1, end |-> x]
  BY DEF Ended
<1>2. <<>> \in Seq(Envelope) /\ 1 \in 1..Len(Order) /\ x \in End
  BY WalkAssumption
<1> HIDE DEF w
<1>3. /\ w \in [pc : {"idle", "asking", "done"}, found : Seq(Envelope),
                ask : 1..Len(Order), end : End]
      /\ w.pc = "done" /\ w.end = x
  BY <1>1, <1>2
<1>4. WalkingAt(w)
  BY <1>3 DEF WalkingAt
<1> QED
  BY <1>3, <1>4 DEF w

(* Passing over a peer that is not loyal preserves the invariant.          *)
LEMMA NextPeerIInv ==
  ASSUME IInv, walk.pc = "asking", walk' = NextPeer, UNCHANGED peers,
         loyal' \subseteq loyal, Asked \notin loyal', genuine' \in BOOLEAN
  PROVE  IInv'
<1>1. TypeOK /\ Sound /\ Walking /\ Reliable
  BY DEF IInv
<1>2. /\ walk \in [pc : {"idle", "asking", "done"}, found : Seq(Envelope),
                   ask : 1..Len(Order), end : End]
      /\ Len(Order) \in Nat /\ loyal \subseteq Peer
  <2>1. /\ walk \in [pc : {"idle", "asking", "done"}, found : Seq(Envelope),
                     ask : 1..Len(Order), end : End]
        /\ loyal \subseteq Peer
    BY <1>1 DEF TypeOK
  <2>2. Order \in Seq(Peer)
    BY WalkAssumption
  <2> QED
    BY <2>1, <2>2, LenProperties
<1>3. CASE walk.ask < Len(Order)
  <2>1. walk' = [walk EXCEPT !.ask = walk.ask + 1]
    BY <1>3 DEF NextPeer
  <2>2. /\ walk' \in [pc : {"idle", "asking", "done"}, found : Seq(Envelope),
                      ask : 1..Len(Order), end : End]
        /\ walk'.pc = walk.pc /\ walk'.found = walk.found /\ walk'.end = walk.end
        /\ walk'.ask = walk.ask + 1
    <3>1. walk.ask + 1 \in 1..Len(Order)
      BY <1>2, <1>3
    <3>2. walk' = [pc |-> walk.pc, found |-> walk.found, ask |-> walk.ask + 1,
                   end |-> walk.end]
      BY <1>2, <2>1
    <3>3. /\ walk'.pc = walk.pc /\ walk'.found = walk.found /\ walk'.end = walk.end
          /\ walk'.ask = walk.ask + 1
      BY <3>2
    <3>4. /\ walk.pc \in {"idle", "asking", "done"} /\ walk.found \in Seq(Envelope)
          /\ walk.end \in End
      BY <1>2
    <3> QED
      BY <3>1, <3>2, <3>3, <3>4
  <2>3. Walking'
    BY <1>1, <2>2 DEF Walking, WalkingAt
  <2>4. ASSUME NEW p \in loyal'
        PROVE  /\ p \in up' /\ Holds(p, walk.found[1].update)'
               /\ \A i \in 1..(walk'.ask - 1) : Order[i] # p
    <3>1. p \in up' /\ Holds(p, walk.found[1].update)'
      BY <1>1, <2>2 DEF Reliable, Holds, Retained, peers
    <3>2. ASSUME NEW i \in 1..(walk'.ask - 1)
          PROVE  Order[i] # p
      <4>1. i \in 1..(walk.ask - 1) \/ i = walk.ask
        BY <1>2, <2>2
      <4> QED
        BY <1>1, <4>1 DEF Reliable, Asked
    <3> QED
      BY <3>1, <3>2
  <2>5. Reliable'
    <3>1. walk'.end # "notFound"
      BY <1>1, <2>2 DEF Walking, WalkingAt
    <3> QED
      BY <2>4, <3>1 DEF Reliable
  <2> QED
    BY <2>2, <2>3, <2>5, PeersStay DEF IInv
<1>4. CASE ~(walk.ask < Len(Order))
  <2>1. walk' = Ended(<<>>, "notFound")
    BY <1>4 DEF NextPeer
  <2>2. /\ walk' \in [pc : {"idle", "asking", "done"}, found : Seq(Envelope),
                      ask : 1..Len(Order), end : End]
        /\ WalkingAt(walk') /\ walk'.pc = "done"
    BY <2>1, EndedEmpty DEF End
  <2>3. loyal' = {}
    <3> SUFFICES ASSUME NEW p \in loyal' PROVE FALSE
      OBVIOUS
    <3>1. p \in Peer /\ p \in loyal
      BY <1>2
    <3>2. PICK i \in 1..Len(Order) : Order[i] = p
      BY <3>1, WalkAssumption
    <3>3. i \in 1..(walk.ask - 1) \/ i = walk.ask
      BY <1>2, <1>4
    <3> QED
      BY <1>1, <3>1, <3>2, <3>3 DEF Reliable, Asked
  <2>4. Walking' /\ Reliable'
    BY <2>2, <2>3 DEF Walking, WalkingAt, Reliable
  <2> QED
    BY <2>2, <2>4, PeersStay DEF IInv
<1> QED
  BY <1>3, <1>4

(* Ask preserves the invariant.                                            *)
LEMMA AskIInv ==
  ASSUME IInv, Ask
  PROVE  IInv'
<1> DEFINE answers == IF Asked \in up THEN Served(Asked, walk.found[1].pred) ELSE {}
<1>1. walk.pc = "asking" /\ UNCHANGED <<peers, genuine, loyal>>
  BY DEF Ask
<1>2. TypeOK /\ Sound /\ Walking /\ Reliable /\ loyal \subseteq Peer
  BY DEF IInv, TypeOK
<1>3. CASE answers = {} /\ walk' = NextPeer
  <2>1. Asked \notin loyal
    BY <1>1, <1>3, LoyalAnswers
  <2>2. genuine' \in BOOLEAN
    BY <1>1, <1>2 DEF TypeOK
  <2> QED
    BY <1>1, <1>3, <2>1, <2>2, NextPeerIInv
<1>4. ASSUME NEW e \in answers, walk' = Visit(walk.found, e)
      PROVE  IInv'
  <2>1. /\ walk.found \in Seq(Envelope) /\ walk.found # <<>> /\ Linked(walk.found)
        /\ ~NoPredecessor(walk.found[1]) /\ walk.found[1] \in Envelope
    <3>1. /\ walk.found \in Seq(Envelope) /\ walk.found # <<>> /\ Linked(walk.found)
          /\ ~NoPredecessor(walk.found[1])
      BY <1>1, <1>2 DEF TypeOK, Walking, WalkingAt
    <3> QED
      BY <3>1
  <2>2. e.update = walk.found[1].pred /\ e \in Retained(Asked)
    BY <1>4 DEF Served
  <2>3. Asked \in Peer /\ e \in Envelope
    <3>1. walk.ask \in 1..Len(Order) /\ Order \in Seq(Peer)
      BY <1>2, WalkAssumption DEF TypeOK
    <3>2. Asked \in Peer
      BY <3>1, ElementOfSeq DEF Asked
    <3> QED
      BY <1>2, <2>2, <3>2, RetainedType
  <2>4. /\ walk' \in [pc : {"idle", "asking", "done"}, found : Seq(Envelope),
                      ask : 1..Len(Order), end : End]
        /\ WalkingAt(walk') /\ walk'.end # "notFound"
        /\ walk'.pc = "asking" => walk'.found[1] = e /\ walk'.ask = 1
    BY <1>4, <2>1, <2>2, <2>3, VisitWalks
  <2>5. ASSUME walk'.pc = "asking", NEW p \in loyal'
        PROVE  /\ p \in up' /\ Holds(p, walk.found[1].update)'
               /\ \A i \in 1..(walk'.ask - 1) : Order[i] # p
    <3>1. p \in up /\ Served(p, walk.found[1].pred) # {}
      BY <1>1, <2>5, LoyalAnswers
    <3>2. PICK x \in Retained(p) : x.update = walk.found[1].pred
      BY <3>1 DEF Served
    <3>3. p \in up' /\ x \in Retained(p)' /\ x.update = walk'.found[1].update
      BY <1>1, <2>2, <2>4, <2>5, <3>1, <3>2 DEF Retained, peers
    <3>4. walk'.ask = 1
      BY <2>4, <2>5
    <3> QED
      BY <3>3, <3>4 DEF Holds
  <2>6. Reliable' /\ Walking'
    BY <2>4, <2>5 DEF Reliable, Walking, WalkingAt
  <2>7. TypeOK' /\ Sound'
    <3>1. genuine' \in BOOLEAN /\ loyal' \subseteq loyal
      BY <1>1, <1>2 DEF TypeOK
    <3> QED
      BY <1>1, <2>4, <3>1, PeersStay
  <2> QED
    BY <2>6, <2>7 DEF IInv
<1> QED
  BY <1>3, <1>4 DEF Ask

(* Lose, GiveUp and Finish preserve the invariant.                         *)
LEMMA EndIInv ==
  ASSUME IInv, Lose \/ GiveUp \/ Finish
  PROVE  IInv'
<1>1. TypeOK /\ Sound /\ Walking /\ Reliable /\ genuine \in BOOLEAN
  BY DEF IInv, TypeOK
<1>2. CASE Lose
  <2>1. genuine' \in BOOLEAN
    BY <1>1, <1>2 DEF Lose
  <2> QED
    BY <1>2, <2>1, NextPeerIInv DEF Lose
<1>3. CASE GiveUp
  <2>1. walk' = Ended(<<>>, "gaveUp") /\ UNCHANGED <<peers, genuine, loyal>>
    BY <1>3 DEF GiveUp
  <2>2. /\ walk' \in [pc : {"idle", "asking", "done"}, found : Seq(Envelope),
                      ask : 1..Len(Order), end : End]
        /\ WalkingAt(walk') /\ walk'.pc = "done" /\ walk'.end = "gaveUp"
    BY <2>1, EndedEmpty DEF End
  <2>3. Walking' /\ Reliable'
    BY <2>2 DEF Walking, WalkingAt, Reliable
  <2> QED
    BY <1>1, <2>1, <2>2, <2>3, PeersStay DEF IInv
<1>4. CASE Finish
  <2>1. walk' = NoWalk /\ genuine' = FALSE /\ loyal' = {} /\ UNCHANGED peers
    BY <1>4 DEF Finish
  <2>2. <<>> \in Seq(Envelope) /\ 1 \in 1..Len(Order)
    BY WalkAssumption
  <2>3. walk' \in [pc : {"idle", "asking", "done"}, found : Seq(Envelope),
                   ask : 1..Len(Order), end : End]
    BY <2>1, <2>2 DEF NoWalk, End
  <2>4. Walking' /\ Reliable'
    BY <2>1 DEF NoWalk, Walking, WalkingAt, Reliable
  <2> QED
    BY <2>1, <2>3, <2>4, PeersStay DEF IInv
<1> QED
  BY <1>2, <1>3, <1>4

(* IInv holds in every reachable state.                                    *)
THEOREM Inductive == Spec => []IInv
<1>1. IInv /\ [Next]_vars => IInv'
  <2>1. IInv /\ Next => IInv'
    BY AcceptIInv, PeerIInv, StartIInv, AskIInv, EndIInv DEF Next
  <2>2. IInv /\ UNCHANGED vars => IInv'
    BY DEF IInv, TypeOK, Sound, SoundAt, Walking, Reliable, Holds, Retained, vars, peers
  <2> QED
    BY <2>1, <2>2
<1> QED
  BY InitIInv, <1>1, PTL DEF Spec

(* Peers and walk are always of their types.                               *)
THEOREM TypeCorrect == Spec => []TypeOK
<1>1. IInv => TypeOK
  BY DEF IInv
<1> QED
  BY <1>1, Inductive, PTL

(* A completed walk has always collected a chain that is bound by hashes   *)
(* down to a state without predecessor, within the bound and without a     *)
(* repetition, whatever the peers do between two requests.                 *)
THEOREM AlwaysCollectsBoundChain == Spec => []CollectsBoundChain
<1>1. IInv => CollectsBoundChain
  <2> SUFFICES ASSUME IInv, Complete PROVE walk.found \in BoundChains(MaxHistory)
    BY DEF CollectsBoundChain
  <2> DEFINE f == walk.found
  <2>1. /\ f \in Seq(Envelope) /\ f # <<>> /\ Len(f) <= MaxHistory
        /\ Linked(f) /\ NoPredecessor(f[1])
    BY DEF IInv, TypeOK, Walking, WalkingAt, Complete
  <2>2. Len(f) \in 1..MaxHistory /\ f \in [1..Len(f) -> Envelope]
    BY <2>1, WalkAssumption, EmptySeq
  <2> QED
    BY <2>1, <2>2 DEF BoundChains, Linked
<1> QED
  BY <1>1, Inductive, PTL

(* A predecessor is never reported missing while a peer is loyal, however  *)
(* many peers there are and wherever the loyal one stands in the order.    *)
THEOREM OneLoyalPeerAlwaysSuffices == Spec => []OneLoyalPeerSuffices
<1>1. IInv => OneLoyalPeerSuffices
  BY DEF IInv, Reliable, OneLoyalPeerSuffices
<1> QED
  BY <1>1, Inductive, PTL

-----------------------------------------------------------------------------
(* What is collected replays.                                              *)

(* What is collected stays one line when an entry of it is put in front.   *)
LEMMA OneLineExtends ==
  ASSUME NEW f \in Seq(Envelope), NEW e \in Envelope,
         NEW a \in Envelope, NEW U \in SUBSET {x.update : x \in Envelope},
         Line(U, a), States(f) \subseteq U, \A i \in 1..Len(f) : Placed(f[i], a),
         e.update \in U, Placed(e, a)
  PROVE  OneLine(Extended(f, e))
<1> DEFINE g == Extended(f, e)
<1>1. <<e>> \in Seq(Envelope) /\ Len(<<e>>) = 1 /\ <<e>>[1] = e /\ Len(f) \in Nat
  OBVIOUS
<1>2. /\ g \in Seq(Envelope) /\ Len(g) = 1 + Len(f)
      /\ \A i \in 1..Len(g) : g[i] = IF i <= 1 THEN <<e>>[i] ELSE f[i - 1]
  BY <1>1, ConcatProperties DEF Extended
<1>3. \A i \in 1..Len(g) : g[i] = e \/ \E j \in 1..Len(f) : g[i] = f[j]
  <2> SUFFICES ASSUME NEW i \in 1..Len(g), i # 1
               PROVE  \E j \in 1..Len(f) : g[i] = f[j]
    BY <1>1, <1>2
  <2>1. i - 1 \in 1..Len(f) /\ ~(i <= 1)
    BY <1>1, <1>2
  <2>2. g[i] = f[i - 1]
    BY <1>2, <2>1
  <2> QED
    BY <2>1, <2>2
<1> HIDE DEF g
<1>4. States(g) \subseteq U
  BY <1>3 DEF States
<1>5. \A i \in 1..Len(g) : Placed(g[i], a)
  BY <1>3
<1>6. OneLine(g)
  BY <1>4, <1>5 DEF OneLine
<1> QED
  BY <1>6 DEF g

(* A turn of the loop that collects anything collects what it looked at.   *)
LEMMA VisitFinds ==
  ASSUME NEW f, NEW e, Visit(f, e).found # <<>>
  PROVE  Visit(f, e).found = Extended(f, e)
<1>1. \/ \E x \in End : Visit(f, e) = Ended(<<>>, x)
      \/ Visit(f, e) = Ended(Extended(f, e), "complete")
      \/ Visit(f, e) = [pc |-> "asking", found |-> Extended(f, e), ask |-> 1,
                        end |-> "none"]
  BY DEF Visit, End
<1> QED
  BY <1>1 DEF Ended

(* The start preserves Replaying: the line is that of the peer that holds  *)
(* the state.                                                              *)
LEMMA StartReplays ==
  ASSUME IInv, NEW e \in Envelope, Start(e)
  PROVE  Replaying'
<1> SUFFICES ASSUME genuine', walk'.found # <<>> PROVE OneLine(walk'.found)
  BY DEF Replaying
<1>1. TypeOK /\ Sound /\ walk' = Visit(<<>>, e) /\ walk'.found = Extended(<<>>, e)
  BY VisitFinds DEF IInv, Start
<1>2. PICK p \in Peer : e \in Retained(p)
  BY DEF Start
<1>3. PICK h \in Seq(Envelope) : Descent(h) /\ \E i \in 1..Len(h) : h[i] = e
  BY <1>1, <1>2, RetainedDescends
<1>4. PICK i \in 1..Len(h) : h[i] = e
  BY <1>3
<1>5. Line(States(h), h[1]) /\ Placed(e, h[1]) /\ e.update \in States(h)
  BY <1>3, <1>4, DescentIsLine, EntryPlaced DEF States
<1>6. h[1] \in Envelope /\ States(h) \in SUBSET {x.update : x \in Envelope}
  BY <1>3, DescentLinks DEF States
<1>7. <<>> \in Seq(Envelope) /\ States(<<>>) = {} /\ Len(<<>>) = 0
  BY DEF States
<1>8. States(<<>>) \subseteq States(h) /\ \A j \in 1..Len(<<>>) : Placed(<<>>[j], h[1])
  BY <1>7
<1> QED
  BY <1>1, <1>5, <1>6, <1>7, <1>8, OneLineExtends

(* An answer preserves Replaying: the answering peer retains it in a       *)
(* history that meets the line, and so begins the way the line does.       *)
LEMMA AnswerReplays ==
  ASSUME IInv, Replaying, Ask, genuine, walk'.found # <<>>,
         NEW e, Asked \in up, e \in Served(Asked, walk.found[1].pred),
         walk' = Visit(walk.found, e)
  PROVE  OneLine(walk'.found)
<1> DEFINE f == walk.found
<1>1. TypeOK /\ Sound /\ Walking /\ walk.pc = "asking"
  BY DEF IInv, Ask
<1>2. f \in Seq(Envelope) /\ f # <<>> /\ 1 \in 1..Len(f) /\ f[1] \in Envelope
      /\ ~NoPredecessor(f[1])
  BY <1>1 DEF TypeOK, Walking, WalkingAt
<1>3. Asked \in Peer /\ e \in Retained(Asked) /\ e.update = f[1].pred
  BY <1>1 DEF TypeOK, Served
<1>4. e \in Envelope
  BY <1>1, <1>3, RetainedType
<1>5. PICK a \in Envelope, U \in SUBSET {x.update : x \in Envelope} :
        /\ Line(U, a)
        /\ States(f) \subseteq U
        /\ \A i \in 1..Len(f) : Placed(f[i], a)
  BY <1>2 DEF Replaying, OneLine
<1>6. e.update \in U
  <2>1. f[1].update \in U
    BY <1>2, <1>5 DEF States
  <2> QED
    BY <1>2, <1>3, <1>5, <2>1 DEF Line
<1>7. PICK h \in Seq(Envelope) : Descent(h) /\ \E i \in 1..Len(h) : h[i] = e
  BY <1>1, <1>3, RetainedDescends
<1>8. PICK i \in 1..Len(h) : h[i] = e
  BY <1>7
<1>9. IsMultisig(h[1]) <=> IsMultisig(a)
  BY <1>5, <1>6, <1>7, <1>8, SameStart
<1>10. Placed(e, a)
  BY <1>7, <1>8, <1>9, EntryPlaced
<1>11. walk'.found = Extended(f, e)
  BY VisitFinds
<1> QED
  BY <1>2, <1>4, <1>5, <1>6, <1>10, <1>11, OneLineExtends

(* Passing over a peer collects nothing.                                   *)
LEMMA NextPeerFinds ==
  ASSUME TypeOK, walk' = NextPeer, walk'.found # <<>>
  PROVE  walk'.found = walk.found
BY DEF TypeOK, NextPeer, Ended

(* Every step preserves Replaying.                                         *)
LEMMA ReplayingStep ==
  ASSUME IInv, Replaying, [Next]_vars
  PROVE  Replaying'
<1>1. TypeOK
  BY DEF IInv
<1>2. CASE UNCHANGED <<walk, genuine>>
  BY <1>2 DEF Replaying
<1>3. ASSUME NEW p \in Peer,
             \/ \E e \in Envelope : Accept(p, e) \/ Adopt(p, e)
             \/ Crash(p) \/ Restart(p)
      PROVE  Replaying'
  BY <1>2, <1>3 DEF Accept, Adopt, Crash, Restart
<1>4. ASSUME NEW e \in Envelope, Start(e)
      PROVE  Replaying'
  BY <1>4, StartReplays
<1>5. ASSUME walk' = NextPeer, genuine' = genuine
      PROVE  Replaying'
  BY <1>1, <1>5, NextPeerFinds DEF Replaying
<1>6. CASE Ask
  <2>1. CASE walk' = NextPeer
    BY <1>5, <1>6, <2>1 DEF Ask
  <2>2. ASSUME NEW e, Asked \in up, e \in Served(Asked, walk.found[1].pred),
               walk' = Visit(walk.found, e)
        PROVE  Replaying'
    BY <1>6, <2>2, AnswerReplays DEF Ask, Replaying
  <2> QED
    BY <1>6, <2>1, <2>2 DEF Ask
<1>7. CASE Lose
  BY <1>5, <1>7 DEF Lose
<1>8. CASE GiveUp \/ Finish
  BY <1>8 DEF GiveUp, Finish, Ended, NoWalk, Replaying
<1>9. CASE Next
  BY <1>3, <1>4, <1>6, <1>7, <1>8, <1>9 DEF Next
<1> QED
  BY <1>2, <1>9 DEF vars

(* A linked chain that is one line down to a state without predecessor is  *)
(* a descent.                                                              *)
LEMMA LineReplays ==
  ASSUME NEW f \in Seq(Envelope), f # <<>>, Linked(f), NoPredecessor(f[1]), OneLine(f)
  PROVE  Descent(f)
<1>1. PICK a \in Envelope, U \in SUBSET {x.update : x \in Envelope} :
        /\ Line(U, a)
        /\ States(f) \subseteq U
        /\ \A i \in 1..Len(f) : Placed(f[i], a)
  BY DEF OneLine
<1>2. Len(f) \in Nat /\ 1 \in 1..Len(f) /\ \A i \in 1..Len(f) : f[i] \in Envelope
  BY ElementOfSeq
<1>3. Anchor(K, f[1])
  BY <1>1, <1>2 DEF Placed
<1>4. IsMultisig(f[1]) <=> IsMultisig(a)
  <2>1. f[1].update \in U
    BY <1>1, <1>2 DEF States
  <2> QED
    BY <1>1, <1>2, <2>1 DEF Line
<1>5. ASSUME NEW i \in 2..Len(f)
      PROVE  HistoryStep(K, f[1], f[i - 1], f[i])
  <2>1. i \in 1..Len(f) /\ i - 1 \in 1..Len(f)
    BY <1>2
  <2>2. ~NoPredecessor(f[i]) /\ f[i].pred = f[i - 1].update
    BY DEF Linked
  <2>3. PICK d \in Envelope : HistoryStep(K, a, d, f[i])
    BY <1>1, <2>1, <2>2 DEF Placed
  <2>4. d.update = f[i - 1].update /\ f[i - 1] \in Envelope
    BY <1>2, <2>1, <2>2, <2>3, StepNamesState
  <2>5. ~IsMultisig(f[i - 1]) => LegacyState(K, f[i - 1])
    <3> SUFFICES ASSUME ~IsMultisig(f[i - 1]) PROVE LegacyState(K, f[i - 1])
      OBVIOUS
    <3>1. NoPredecessor(f[i - 1])
      BY <2>4, EnvelopeAssumption DEF IsMultisig, Decoded, NoPredecessor
    <3>2. Anchor(K, f[i - 1])
      BY <1>1, <2>1, <3>1 DEF Placed
    <3> QED
      BY <3>2 DEF Anchor
  <2>6. HistoryStep(K, a, f[i - 1], f[i])
    BY <2>3, <2>4, <2>5, StepOverSameState
  <2> QED
    BY <1>4, <2>6, AnchorForm
<1> QED
  BY <1>3, <1>5 DEF Descent

(* What a completed walk has collected for a state that some peer had      *)
(* accepted always passes the reader's validation: whatever mixture of     *)
(* peers, proof sets and moments the entries come from.                    *)
THEOREM CollectedAlwaysReplays == Spec => []CollectedReplays
<1>1. Init => Replaying
  BY DEF Init, NoWalk, Replaying
<1>2. IInv /\ Replaying => CollectedReplays
  <2> DEFINE f == walk.found
  <2> SUFFICES ASSUME IInv, Replaying, Complete, genuine
               PROVE  IdentityGet(K, f[Len(f)], f)
    BY DEF CollectedReplays
  <2>1. /\ f \in Seq(Envelope) /\ f # <<>> /\ Linked(f) /\ NoPredecessor(f[1])
        /\ OneLine(f)
    BY DEF IInv, TypeOK, Walking, WalkingAt, Complete, Replaying
  <2>2. Descent(f)
    BY <2>1, LineReplays
  <2>3. Len(f) \in 1..Len(f) /\ f[Len(f)] \in Envelope
    BY <2>1, ElementOfSeq, EmptySeq
  <2>4. f[Len(f)].kind = "identity"
    BY <2>1, <2>2, <2>3, DescentKind
  <2>5. CASE IsMultisig(f[Len(f)])
    BY <2>1, <2>2, <2>4, <2>5 DEF IdentityGet, EndsAt, History, Descent
  <2>6. CASE ~IsMultisig(f[Len(f)])
    <3>1. NoPredecessor(f[Len(f)])
      BY <2>3, <2>6, EnvelopeAssumption DEF IsMultisig, Decoded, NoPredecessor
    <3>2. Len(f) = 1
      BY <2>1, <2>2, <2>3, <3>1, DescentLinks
    <3>3. LegacyState(K, f[Len(f)])
      BY <2>2, <2>6, <3>2 DEF Descent, Anchor
    <3> QED
      BY <2>4, <2>6, <3>3 DEF IdentityGet
  <2> QED
    BY <2>5, <2>6
<1> QED
  BY <1>1, <1>2, ReplayingStep, Inductive, PTL DEF Spec

(* A step raises the sequence number.                                      *)
LEMMA StepRaisesSeq ==
  ASSUME NEW a, NEW d \in Envelope, NEW e \in Envelope, HistoryStep(K, a, d, e)
  PROVE  e.seq > d.seq /\ e.seq \in Nat /\ d.seq \in Nat
<1>1. e.seq \in Nat /\ d.seq \in Nat
  BY EnvelopeAssumption DEF Decoded
<1>2. e.seq > d.seq \/ e.seq = d.seq + 1
  BY DEF HistoryStep, Upgrade, RotationFromLegacy, RotationFromState,
         RotationInvariants, OrdinaryUpdate, SignerReplacement, CommonTransition
<1> QED
  BY <1>1, <1>2

(* What is collected in one line has increasing sequence numbers, and the  *)
(* predecessor that is asked for has a smaller one than all of it.         *)
LEMMA PredecessorIsOlder ==
  ASSUME NEW f \in Seq(Envelope), f # <<>>, Linked(f), OneLine(f),
         ~NoPredecessor(f[1]), NEW e \in Envelope, e.update = f[1].pred,
         NEW i \in 1..Len(f)
  PROVE  f[i].seq > e.seq
<1>1. PICK a \in Envelope : \A j \in 1..Len(f) : Placed(f[j], a)
  BY DEF OneLine
<1>2. Len(f) \in Nat /\ 1 \in 1..Len(f) /\ \A j \in 1..Len(f) : f[j] \in Envelope
  BY ElementOfSeq
<1>3. ASSUME NEW j \in 1..Len(f), NEW x \in Envelope,
             ~NoPredecessor(f[j]), f[j].pred = x.update
      PROVE  f[j].seq > x.seq /\ f[j].seq \in Nat /\ x.seq \in Nat
  <2>1. PICK d \in Envelope : HistoryStep(K, a, d, f[j])
    BY <1>1, <1>3 DEF Placed
  <2>2. d.update = x.update
    BY <1>3, <2>1, StepNamesState
  <2>3. d.seq = x.seq
    BY <2>2, HashAssumption
  <2> QED
    BY <1>2, <2>1, <2>3, StepRaisesSeq
<1> DEFINE T == {j \in 1..Len(f) : ~(f[j].seq > e.seq)}
<1> SUFFICES ASSUME T # {} PROVE FALSE
  OBVIOUS
<1>4. PICK n \in T : \A m \in T : n <= m
  <2>1. T \subseteq Nat
    OBVIOUS
  <2> QED
    BY <2>1, LeastNumber
<1>5. n # 1
  BY <1>2, <1>3, <1>4
<1>6. n \in 2..Len(f) /\ n - 1 \in 1..Len(f) /\ n - 1 \notin T
  <2>1. n \in 1..Len(f) /\ n \in Nat
    BY <1>4
  <2>2. n \in 2..Len(f) /\ n - 1 \in 1..Len(f) /\ ~(n <= n - 1)
    BY <1>2, <1>5, <2>1
  <2> QED
    BY <1>4, <2>2
<1>7. f[n].seq > f[n - 1].seq /\ f[n].seq \in Nat /\ f[n - 1].seq \in Nat
  <2>1. ~NoPredecessor(f[n]) /\ f[n].pred = f[n - 1].update
    BY <1>6 DEF Linked
  <2> QED
    BY <1>2, <1>3, <1>4, <1>6, <2>1
<1>8. f[n - 1].seq > e.seq /\ e.seq \in Nat
  BY <1>6, EnvelopeAssumption DEF Decoded
<1>9. f[n].seq > e.seq
  BY <1>7, <1>8
<1> QED
  BY <1>4, <1>9

\* A walk from an accepted state is never refused as going round in circles.
NeverRepeats == genuine => walk.end # "repeated"

(* Every step preserves NeverRepeats.                                      *)
LEMMA NeverRepeatsStep ==
  ASSUME IInv, Replaying, NeverRepeats, [Next]_vars
  PROVE  NeverRepeats'
<1>1. TypeOK
  BY DEF IInv
<1>2. CASE UNCHANGED <<walk, genuine>>
  BY <1>2 DEF NeverRepeats
<1>3. ASSUME NEW p \in Peer,
             \/ \E e \in Envelope : Accept(p, e) \/ Adopt(p, e)
             \/ Crash(p) \/ Restart(p)
      PROVE  NeverRepeats'
  BY <1>2, <1>3 DEF Accept, Adopt, Crash, Restart
<1>4. ASSUME NEW e \in Envelope, Start(e)
      PROVE  NeverRepeats'
  <2>1. ~\E i \in 1..Len(<<>>) : <<>>[i].update = e.update
    OBVIOUS
  <2>2. walk' = Visit(<<>>, e)
    BY <1>4 DEF Start
  <2>3. walk'.end # "repeated"
    BY <2>1, <2>2 DEF Visit, Ended
  <2> QED
    BY <2>3 DEF NeverRepeats
<1>5. ASSUME walk.pc = "asking", walk' = NextPeer
      PROVE  NeverRepeats'
  <2>1. walk.end = "none"
    BY <1>5 DEF IInv, Walking, WalkingAt
  <2>2. walk'.end = walk.end \/ walk'.end = "notFound"
    BY <1>1, <1>5 DEF TypeOK, NextPeer, Ended
  <2> QED
    BY <2>1, <2>2 DEF NeverRepeats
<1>6. CASE Ask
  <2>1. CASE walk' = NextPeer
    BY <1>5, <1>6, <2>1 DEF Ask
  <2>2. ASSUME NEW e, Asked \in up, e \in Served(Asked, walk.found[1].pred),
               walk' = Visit(walk.found, e), genuine
        PROVE  walk'.end # "repeated"
    <3> DEFINE f == walk.found
    <3>1. /\ f \in Seq(Envelope) /\ f # <<>> /\ Linked(f) /\ OneLine(f)
          /\ ~NoPredecessor(f[1])
      BY <1>1, <1>6, <2>2 DEF IInv, TypeOK, Walking, WalkingAt, Ask, Replaying
    <3>2. Asked \in Peer /\ e \in Retained(Asked) /\ e.update = f[1].pred
      BY <1>1, <2>2 DEF TypeOK, Served
    <3>3. e \in Envelope
      BY <1>1, <3>2, RetainedType
    <3>4. ASSUME NEW i \in 1..Len(f)
          PROVE  f[i].update # e.update
      <4>1. f[i].seq > e.seq /\ f[i] \in Envelope /\ e.seq \in Nat
        BY <3>1, <3>2, <3>3, PredecessorIsOlder, ElementOfSeq, EnvelopeAssumption
           DEF Decoded
      <4>2. f[i].seq # e.seq
        BY <4>1
      <4> QED
        BY <3>3, <4>1, <4>2, HashAssumption
    <3>5. ~\E i \in 1..Len(f) : f[i].update = e.update
      BY <3>4
    <3> HIDE DEF f
    <3>6. Visit(f, e).end # "repeated"
      BY <3>5 DEF Visit, Ended
    <3> QED
      BY <2>2, <3>6 DEF f
  <2> QED
    BY <1>6, <2>1, <2>2 DEF Ask, NeverRepeats
<1>7. CASE Lose
  BY <1>5, <1>7 DEF Lose
<1>8. CASE GiveUp \/ Finish
  BY <1>8 DEF GiveUp, Finish, Ended, NoWalk, NeverRepeats
<1>9. CASE Next
  BY <1>3, <1>4, <1>6, <1>7, <1>8, <1>9 DEF Next
<1> QED
  BY <1>2, <1>9 DEF vars

(* The check for a repeated state never refuses what peers have accepted,  *)
(* although each request may be answered by another peer at another time:  *)
(* sequence numbers fall along the walk.                                   *)
THEOREM GenuineNeverRepeats == Spec => []NeverRepeats
<1>1. Init => Replaying /\ NeverRepeats
  BY DEF Init, NoWalk, Replaying, NeverRepeats
<1> QED
  BY <1>1, ReplayingStep, NeverRepeatsStep, Inductive, PTL DEF Spec

=============================================================================
