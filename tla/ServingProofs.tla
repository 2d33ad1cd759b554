---------------------------- MODULE ServingProofs ---------------------------
(***************************************************************************)
(* The safety properties of BoundedStream and of ServingEligibility, which *)
(* together model dht/serving_eligibility.py.                              *)
(*                                                                         *)
(* Streams, for any frames, sizes and deadlines.  What the proxy has       *)
(* parsed has to agree with what the transport has carried: a tracked      *)
(* request is written to its last byte and no further, reading starts only *)
(* then, and of the reply the prefix, later the prefix and the payload,    *)
(* are all that was delivered.  A stream that has failed is left behind:   *)
(* it is only closed.                                                      *)
(*                                                                         *)
(* Eligibility, for any number of peers, any capacity and any time to      *)
(* live.  A proof that is still good and the time since the reply it rests *)
(* on add up to at most TTL; every step keeps that, because proofs are     *)
(* only written together with a reply, and cleared together with the       *)
(* record of it.  The capacity follows from the one step that adds an      *)
(* entry.                                                                  *)
(***************************************************************************)
EXTENDS BoundedStream, ServingEligibility, FiniteSetTheorems, TLAPS

Active == pc \notin {"failed", "closed"}

\* Nothing has been read.
Unread == got = 0 /\ prefix = 0 /\ length = Unset /\ payload = 0

\* A request is tracked as known exactly from its last byte to the next.
RequestInv ==
  kind = "outbound" =>
    /\ written < Size(outgoing) => Unread /\ pc \notin {"reading", "recording"}
    /\ Active /\ written >= Size(outgoing) => request \in {"known", "untracked"}
    /\ Active /\ request = "known" =>
         written = Size(outgoing) /\ outgoing.message.typed

\* What was delivered of the reply to a known request is accounted for.
ReplyInv ==
  kind = "outbound" /\ Active /\ request = "known" =>
    /\ length = Unset => /\ payload = 0 /\ got = prefix
                         /\ prefix = 0 \/ Undecided(incoming, prefix)
    /\ length # Unset => /\ length = incoming.length
                         /\ got = incoming.prefix + payload
                         /\ payload = length => proof
    /\ pc = "recording" => /\ length # Unset /\ payload = length
                           /\ ValidResponse(outgoing.message, incoming.message)

RecordingInv == pc = "recording" => kind = "outbound" /\ request = "known"

\* What is left of a deadline and what was spent under it.
DeadlineInv ==
  /\ IF readDeadline = Unset THEN spent.read = 0 /\ pc # "reading"
                             ELSE spent.read + readDeadline <= FrameTime
  /\ IF writeDeadline = Unset THEN spent.write = 0 /\ pc # "writing"
                              ELSE spent.write + writeDeadline <= FrameTime

StreamInv == StreamTypeOK /\ RequestInv /\ ReplyInv /\ RecordingInv /\ DeadlineInv

-----------------------------------------------------------------------------
(* A frame has at least its length prefix.                                 *)
LEMMA Sizes ==
  ASSUME NEW f \in Frame
  PROVE  /\ f.prefix \in Nat /\ f.prefix > 0 /\ f.length \in Nat
         /\ Size(f) \in Nat /\ Size(f) >= f.prefix /\ Size(f) > 0
BY StreamAssumption DEF Size

(* A new stream satisfies the invariant.                                   *)
LEMMA StreamInitInv == StreamInit => StreamInv
<1> SUFFICES ASSUME StreamInit PROVE StreamInv OBVIOUS
<1>1. StreamTypeOK BY StreamAssumption DEF StreamInit, StreamTypeOK
<1>2. RequestInv BY Sizes, StreamAssumption DEF StreamInit, RequestInv, Unread, Active
<1>3. ReplyInv BY DEF StreamInit, ReplyInv
<1>4. RecordingInv BY DEF StreamInit, RecordingInv
<1>5. DeadlineInv BY DEF StreamInit, DeadlineInv
<1> QED BY <1>1, <1>2, <1>3, <1>4, <1>5 DEF StreamInv

\* Writing on makes a known request untracked.
LEMMA ObservedKnown ==
  ASSUME StreamTypeOK, RequestInv, NEW n \in Nat, n > written, Active,
         kind = "outbound"
  PROVE  LET r == Observed(n)
         IN  /\ r \in {"partial", "known", "untracked", "refused"}
             /\ n >= Size(outgoing) => r \in {"known", "untracked", "refused"}
             /\ r = "known" => n = Size(outgoing) /\ outgoing.message.typed
<1>1. /\ outgoing.prefix \in Nat /\ outgoing.prefix > 0 /\ outgoing.length \in Nat
      /\ Size(outgoing) \in Nat /\ Size(outgoing) >= outgoing.prefix
  BY Sizes DEF StreamTypeOK
<1>2. written \in Nat /\ request \in {"partial", "known", "untracked"} BY DEF StreamTypeOK
<1>3. n >= Size(outgoing) => ~Undecided(outgoing, n)
  BY <1>1, StreamAssumption DEF Undecided
<1>4. request = "known" => written = Size(outgoing) BY DEF RequestInv
<1> QED BY <1>1, <1>2, <1>3, <1>4 DEF Observed

(* Starting a write preserves the invariant.                               *)
LEMMA WriteStep ==
  ASSUME StreamInv, NEW n \in 1..(MaxBytes + PrefixLimit + 1), BeginWrite(n)
  PROVE  StreamInv'
<1> USE StreamAssumption
<1>0. n \in Nat /\ n > 0 /\ written \in Nat /\ pc = "idle"
      /\ written' = written + n /\ written' \in Nat /\ written' > written
      /\ pc' \in {"writing", "failed"}
      /\ UNCHANGED <<kind, outgoing, incoming, want, parsed, readDeadline, got, spent>>
  BY DEF StreamInv, StreamTypeOK, BeginWrite
<1>1. \/ UNCHANGED <<request, writeDeadline>> /\ pc' = "failed"
      \/ /\ pc' \in {"writing", "failed"}
         /\ writeDeadline' = Started(writeDeadline)
         /\ pc' = "writing" => Started(writeDeadline) > 0
         /\ request' = IF kind = "outbound" THEN Observed(written') ELSE request
         /\ request' # "refused"
  BY <1>0 DEF BeginWrite
<1>2. kind = "outbound" =>
        LET r == Observed(written')
        IN  /\ r \in {"partial", "known", "untracked", "refused"}
            /\ written' >= Size(outgoing) => r \in {"known", "untracked", "refused"}
            /\ r = "known" => written' = Size(outgoing) /\ outgoing.message.typed
  BY <1>0, ObservedKnown DEF StreamInv, Active
<1>3. StreamTypeOK'
  BY <1>0, <1>1, <1>2 DEF StreamInv, StreamTypeOK, parsed, Started
<1>4. RequestInv'
  <2> SUFFICES ASSUME kind = "outbound" PROVE RequestInv' BY <1>0 DEF RequestInv
  <2>1. Size(outgoing) \in Nat BY Sizes DEF StreamInv, StreamTypeOK
  <2>2. (written < Size(outgoing) => Unread /\ pc \notin {"reading", "recording"})'
    BY <1>0, <2>1 DEF StreamInv, RequestInv, Unread, parsed, Size
  <2>3. Active' => request' = Observed(written') /\ request' # "refused"
    BY <1>1 DEF Active
  <2> QED BY <1>0, <1>2, <2>2, <2>3 DEF RequestInv, Size
<1>5. ReplyInv'
  <2> SUFFICES ASSUME kind = "outbound", Active', request' = "known" PROVE ReplyInv'
    BY <1>0 DEF ReplyInv
  <2>1. Size(outgoing) \in Nat /\ written' = Size(outgoing)
    BY <1>1, <1>2, Sizes DEF StreamInv, StreamTypeOK, Active
  <2>2. Unread BY <1>0, <2>1 DEF StreamInv, RequestInv
  <2> QED BY <1>0, <2>2 DEF ReplyInv, Unread, parsed
<1>6. RecordingInv' BY <1>0 DEF RecordingInv
<1>7. DeadlineInv'
  BY <1>0, <1>1 DEF StreamInv, StreamTypeOK, DeadlineInv, Started
<1> QED BY <1>3, <1>4, <1>5, <1>6, <1>7 DEF StreamInv

(* Starting a read preserves the invariant.                                *)
LEMMA ReadStep ==
  ASSUME StreamInv, NEW n \in 0..(MaxBytes + 1), BeginRead(n)
  PROVE  StreamInv'
<1> USE StreamAssumption
<1>0. /\ pc = "idle"
      /\ kind = "outbound" => written >= Size(outgoing)
      /\ pc' \in {"reading", "failed"}
      /\ UNCHANGED <<kind, outgoing, incoming, request, written, parsed,
                     writeDeadline, got, spent>>
  BY DEF BeginRead
<1>1. StreamTypeOK' BY <1>0 DEF StreamInv, StreamTypeOK, BeginRead, parsed, Started
<1>2. Size(outgoing) \in Nat /\ written \in Nat BY Sizes DEF StreamInv, StreamTypeOK
<1>3. RequestInv'
  <2> SUFFICES ASSUME kind = "outbound" PROVE RequestInv' BY <1>0 DEF RequestInv
  <2>1. Active /\ written >= Size(outgoing) BY <1>0 DEF Active
  <2>2. ~(written' < Size(outgoing)') BY <1>0, <1>2, <2>1 DEF Size
  <2>3. request' \in {"known", "untracked"} BY <1>0, <2>1 DEF StreamInv, RequestInv
  <2>4. request' = "known" => (written = Size(outgoing) /\ outgoing.message.typed)'
    BY <1>0, <2>1 DEF StreamInv, RequestInv, Size
  <2> QED BY <2>2, <2>3, <2>4 DEF RequestInv
<1>4. ReplyInv'
  <2> SUFFICES ASSUME kind = "outbound", request = "known" PROVE ReplyInv'
    BY <1>0 DEF ReplyInv
  <2>1. Active /\ pc' # "recording" BY <1>0 DEF Active
  <2> QED BY <1>0, <2>1 DEF StreamInv, ReplyInv, parsed, Undecided
<1>5. RecordingInv' BY <1>0 DEF RecordingInv
<1>6. DeadlineInv' BY <1>0 DEF BeginRead, StreamInv, StreamTypeOK, DeadlineInv, Started
<1> QED BY <1>1, <1>3, <1>4, <1>5, <1>6 DEF StreamInv

(* A returning read preserves the invariant, whatever part of the reply it *)
(* brings.                                                                 *)
LEMMA ReceiveStep ==
  ASSUME StreamInv, NEW c \in 0..(MaxBytes + PrefixLimit + 1), Receive(c)
  PROVE  StreamInv'
<1> USE StreamAssumption
<1>0. /\ pc = "reading" /\ got' = got + c /\ c \in Nat
      /\ UNCHANGED <<kind, outgoing, incoming, want, request, written, deadlines, spent>>
      /\ pc' \in {"idle", "recording", "failed"}
  BY DEF Receive, AcceptChunk
<1>1. /\ incoming.prefix \in Nat /\ incoming.prefix > 0 /\ incoming.length \in Nat
      /\ Size(outgoing) \in Nat /\ written \in Nat /\ got \in Nat
      /\ prefix \in Nat /\ payload \in Nat /\ proof \in BOOLEAN
  BY Sizes DEF StreamInv, StreamTypeOK
<1>2. kind = "outbound" => written >= Size(outgoing)
  BY <1>0, <1>1 DEF StreamInv, RequestInv
<1>3. ASSUME Watched, length = Unset, ~Undecided(incoming, prefix + c), ~Refused(incoming)
      PROVE  prefix + c >= incoming.prefix
  BY <1>0, <1>1, <1>3 DEF Undecided, Refused
<1>4. ASSUME length # Unset \/ ~(Undecided(incoming, prefix + c) \/ Refused(incoming)),
             Watched, AcceptChunk(c)
      PROVE  Collected(c) \in Nat /\ payload' = Collected(c)
  BY <1>0, <1>1, <1>3, <1>4 DEF Collected, AcceptChunk
<1>5. StreamTypeOK'
  <2>1. /\ prefix' \in Nat /\ payload' \in Nat /\ length' \in Nat \cup {Unset}
        /\ proof' \in BOOLEAN
    <3>1. CASE AcceptChunk(c) /\ Watched
               /\ (length # Unset \/ ~(Undecided(incoming, prefix + c) \/ Refused(incoming)))
      BY <1>1, <1>4, <3>1 DEF AcceptChunk, ValidResponse
    <3>2. CASE UNCHANGED parsed
      BY <3>2 DEF parsed, StreamInv, StreamTypeOK
    <3>3. CASE prefix' = prefix + c /\ UNCHANGED <<length, payload, proof>>
      BY <1>0, <1>1, <3>3 DEF StreamInv, StreamTypeOK
    <3> QED BY <3>1, <3>2, <3>3 DEF Receive
  <2> QED BY <1>0, <1>1, <2>1 DEF StreamInv, StreamTypeOK, deadlines
<1>6. RequestInv' BY <1>0, <1>1, <1>2 DEF StreamInv, RequestInv, Active, Size
<1>7. ReplyInv' /\ RecordingInv'
  <2>1. CASE AcceptChunk(c) /\ Watched /\ c > 0
             /\ (length # Unset \/ ~(Undecided(incoming, prefix + c) \/ Refused(incoming)))
    <3>1. length' = incoming.length /\ payload' = Collected(c) /\ Collected(c) \in Nat
      BY <1>4, <2>1 DEF AcceptChunk
    <3>2. length' # Unset BY <1>1, <3>1
    <3>3. CASE ~(kind = "outbound" /\ request = "known")
      BY <1>0, <2>1, <3>3 DEF ReplyInv, RecordingInv, AcceptChunk, Watched
    <3>4. CASE kind = "outbound" /\ request = "known"
      <4>1. got' = incoming.prefix + payload'
        BY <1>0, <1>1, <3>1, <3>4 DEF StreamInv, ReplyInv, Active, Collected
      <4>2. Active' /\ payload' = length' => proof'
        BY <2>1, <3>1, <3>4 DEF AcceptChunk, Active
      <4>3. pc' = "recording" =>
              payload' = length' /\ ValidResponse(outgoing.message, incoming.message)
        BY <2>1, <3>1 DEF AcceptChunk
      <4> QED BY <1>0, <3>1, <3>2, <3>4, <4>1, <4>2, <4>3
              DEF ReplyInv, RecordingInv, ValidResponse
    <3> QED BY <3>3, <3>4
  <2>2. CASE pc' = "idle" /\ UNCHANGED parsed /\ (~Watched \/ c = 0)
    BY <1>0, <1>1, <2>2
       DEF StreamInv, ReplyInv, RecordingInv, Active, parsed, Watched, Undecided
  <2>3. CASE /\ Watched /\ c > 0 /\ length = Unset /\ Undecided(incoming, prefix + c)
             /\ prefix' = prefix + c
             /\ pc' = "idle" /\ UNCHANGED <<length, payload, proof>>
    BY <1>0, <1>1, <2>3
       DEF StreamInv, ReplyInv, RecordingInv, Active, Undecided
  <2>4. CASE pc' = "failed"
    BY <2>4 DEF ReplyInv, RecordingInv, Active
  <2> QED BY <2>1, <2>2, <2>3, <2>4 DEF Receive
<1>8. DeadlineInv' BY <1>0 DEF StreamInv, DeadlineInv, deadlines
<1> QED BY <1>5, <1>6, <1>7, <1>8 DEF StreamInv

(* The passing of time preserves the invariant: what was spent under a     *)
(* deadline and what is left of it stay within the frame time.             *)
LEMMA TickStep == ASSUME StreamInv, StreamTick PROVE StreamInv'
<1> USE StreamAssumption
<1>0. UNCHANGED <<kind, outgoing, incoming, pc, want, request, written, parsed, got>>
  BY DEF StreamTick
<1>1. /\ readDeadline \in 0..FrameTime \cup {Unset}
      /\ writeDeadline \in 0..FrameTime \cup {Unset}
      /\ spent.read \in Nat /\ spent.write \in Nat
  BY DEF StreamInv, StreamTypeOK
<1>2. StreamTypeOK'
  BY <1>0, <1>1 DEF StreamTick, StreamInv, StreamTypeOK, parsed, Less, Counted
<1>3. RequestInv' /\ ReplyInv' /\ RecordingInv'
  BY <1>0 DEF StreamInv, RequestInv, ReplyInv, RecordingInv, Unread, Active, parsed,
     Size, Undecided, ValidResponse
<1>4. pc = "reading" => readDeadline \in 1..FrameTime
  BY <1>1 DEF StreamTick, Due, StreamInv, DeadlineInv
<1>5. pc = "writing" => writeDeadline \in 1..FrameTime
  BY <1>1 DEF StreamTick, Due, StreamInv, DeadlineInv
<1>6. spent'.read = (IF pc = "reading" THEN Counted(spent.read) ELSE spent.read)
      /\ spent'.write = (IF pc = "writing" THEN Counted(spent.write) ELSE spent.write)
      /\ readDeadline' = Less(readDeadline) /\ writeDeadline' = Less(writeDeadline)
  BY DEF StreamTick
<1>7. DeadlineInv'
  BY <1>0, <1>1, <1>4, <1>5, <1>6 DEF StreamInv, DeadlineInv, Less, Counted
<1> QED BY <1>2, <1>3, <1>7 DEF StreamInv

\* Steps that change nothing but what the stream awaits.
LEMMA ControlStep ==
  ASSUME StreamInv, EndWrite \/ Recorded \/ TimeOut \/ Interrupt \/ Close
  PROVE  StreamInv'
<1>0. /\ UNCHANGED <<kind, outgoing, incoming, want, request, written, parsed,
                     deadlines, got, spent>>
      /\ \/ pc \in {"writing", "recording"} /\ pc' = "idle"
         \/ pc' = "failed"
         \/ pc' = "closed"
  BY DEF EndWrite, Recorded, TimeOut, Interrupt, Fail, Close
<1>1. StreamTypeOK' BY <1>0 DEF StreamInv, StreamTypeOK, parsed, deadlines
<1>2. RequestInv'
  BY <1>0 DEF StreamInv, RequestInv, Unread, Active, parsed, Size
<1>3. ReplyInv' BY <1>0 DEF StreamInv, ReplyInv, Active, parsed, Undecided
<1>4. RecordingInv' BY <1>0 DEF RecordingInv
<1>5. DeadlineInv' BY <1>0 DEF StreamInv, DeadlineInv, deadlines
<1> QED BY <1>1, <1>2, <1>3, <1>4, <1>5 DEF StreamInv

(* The invariant of the stream holds in every reachable state.             *)
LEMMA StreamInductive == StreamSpec => []StreamInv
<1>1. StreamInv /\ [StreamNext]_streamVars => StreamInv'
  <2> SUFFICES ASSUME StreamInv, [StreamNext]_streamVars PROVE StreamInv' OBVIOUS
  <2>1. CASE UNCHANGED streamVars
    BY <2>1 DEF streamVars, parsed, deadlines, StreamInv, StreamTypeOK, RequestInv, ReplyInv,
       RecordingInv, DeadlineInv, Unread, Active, Size, Undecided, ValidResponse
  <2>2. CASE StreamNext
    BY <2>2, WriteStep, ReadStep, ReceiveStep, TickStep, ControlStep DEF StreamNext
  <2> QED BY <2>1, <2>2
<1> QED BY StreamInitInv, <1>1, PTL DEF StreamSpec

-----------------------------------------------------------------------------
(* The counters and deadlines of a stream are well typed.                  *)
THEOREM StreamTypeCorrect == StreamSpec => []StreamTypeOK
<1>1. StreamInv => StreamTypeOK BY DEF StreamInv
<1> QED BY <1>1, StreamInductive, PTL

(* A peer is recorded as serving only for one whole valid reply to one     *)
(* whole typed request, however the bytes of both were split.              *)
THEOREM ProofAlwaysEarned == StreamSpec => []ProofIsEarned
<1>1. StreamInv => ProofIsEarned
  <2> SUFFICES ASSUME StreamInv, pc = "recording"
               PROVE  /\ kind = "outbound"
                      /\ written = Size(outgoing) /\ outgoing.message.typed
                      /\ got = Size(incoming)
                      /\ ValidResponse(outgoing.message, incoming.message)
    BY DEF ProofIsEarned
  <2>1. kind = "outbound" /\ request = "known" /\ Active
    BY DEF StreamInv, RecordingInv, Active
  <2> QED BY <2>1 DEF StreamInv, RequestInv, ReplyInv, Size
<1> QED BY <1>1, StreamInductive, PTL

(* A valid reply that was read to its end is recorded.                     *)
THEOREM EarnedAlwaysRecorded == StreamSpec => []EarnedIsRecorded
<1>1. StreamInv => EarnedIsRecorded
  <2> SUFFICES ASSUME StreamInv, kind = "outbound", request = "known",
                      pc \in {"idle", "recording"}, got = Size(incoming)
               PROVE  proof
    BY DEF EarnedIsRecorded
  <2>1. Active BY DEF Active
  <2>2. /\ incoming.prefix \in Nat /\ incoming.prefix > 0 /\ incoming.length \in Nat
        /\ prefix \in Nat /\ payload \in Nat
        /\ Size(incoming) = incoming.prefix + incoming.length
    BY Sizes DEF StreamInv, StreamTypeOK, Size
  <2>3. length # Unset
    BY <2>1, <2>2 DEF StreamInv, ReplyInv, Undecided
  <2> QED BY <2>1, <2>2, <2>3 DEF StreamInv, ReplyInv
<1> QED BY <1>1, StreamInductive, PTL

(* No frame takes more than MAX_DHT_FRAME_TIME_SECONDS of awaiting, summed *)
(* over its reads or writes.                                               *)
THEOREM FrameTimeAlwaysBounded == StreamSpec => []FrameTimeBounded
<1>1. StreamInv => FrameTimeBounded
  BY StreamAssumption DEF StreamInv, StreamTypeOK, DeadlineInv, FrameTimeBounded
<1> QED BY <1>1, StreamInductive, PTL

-----------------------------------------------------------------------------
(* Eligibility.                                                            *)

\* What is left of a proof and the age of the reply it rests on.
ProofsAge ==
  \A p \in Peer : expires[p] # None =>
    /\ age[p] # None
    /\ expires[p] > 0 => age[p] + expires[p] <= TTL

ServingInv ==
  /\ TypeOK
  /\ ProofsAge
  /\ AtMostCapacity
  /\ ReferredAreServing
  /\ FullReferral
  /\ HandlerFollowsMode

-----------------------------------------------------------------------------
(* Peers are finitely many.                                                *)
LEMMA PeerSetsFinite ==
  ASSUME NEW S \in SUBSET Peer
  PROVE  IsFiniteSet(S) /\ Cardinality(S) \in Nat
BY ServingAssumption, FS_Subset, FS_CardinalityType

(* Where no referral was made, none falls short.                           *)
LEMMA NothingReferred ==
  Cardinality(NoReferral.peers) = AtMost(NoReferral.count, NoReferral.known)
BY FS_EmptySet DEF NoReferral, AtMost

(* A node that starts satisfies the invariant.                             *)
LEMMA ServingInitInv == Init => ServingInv
<1> SUFFICES ASSUME Init PROVE ServingInv OBVIOUS
<1> USE ServingAssumption
<1>1. TypeOK BY DEF Init, TypeOK, Time, Mode, NoReferral
<1>2. Cached = {} BY DEF Init, Cached
<1>3. AtMostCapacity BY <1>2, FS_EmptySet DEF AtMostCapacity
<1>4. ProofsAge BY DEF Init, ProofsAge
<1>5. ReferredAreServing BY DEF Init, ReferredAreServing, NoReferral
<1>6. FullReferral BY NothingReferred DEF Init, FullReferral
<1>7. HandlerFollowsMode BY DEF Init, HandlerFollowsMode
<1> QED BY <1>1, <1>3, <1>4, <1>5, <1>6, <1>7 DEF ServingInv

\* Dropping proofs that are over adds none and leaves the good ones.
LEMMA Dropped ==
  ASSUME TypeOK, NEW ps \in SUBSET Peer, Drop(ps)
  PROVE  /\ expires' \in [Peer -> Time]
         /\ table' \subseteq table
         /\ \A p \in Peer : expires'[p] \in {expires[p], None}
BY DEF Drop, TypeOK, Time

\* Fewer entries are no more.
LEMMA FewerCached ==
  ASSUME ServingInv, \A p \in Peer : expires[p] = None => expires'[p] = None
  PROVE  AtMostCapacity'
<1>1. Cached \in SUBSET Peer /\ Cached' \in SUBSET Cached BY DEF Cached
<1>2. IsFiniteSet(Cached) BY <1>1, PeerSetsFinite
<1>3. Cardinality(Cached') <= Cardinality(Cached) BY <1>1, <1>2, FS_Subset
<1>4. Cardinality(Cached) \in Nat /\ Cardinality(Cached') \in Nat
  BY <1>1, PeerSetsFinite
<1> QED BY <1>3, <1>4, ServingAssumption DEF ServingInv, AtMostCapacity

\* A reply adds one entry where there is room, and otherwise exchanges one.
LEMMA ReplyRecorded ==
  ASSUME ServingInv, NEW p \in Peer, RecordValidResponse(p)
  PROVE  AtMostCapacity'
<1> USE ServingAssumption DEF ServingInv, TypeOK, Time
<1>0. /\ Cached \in SUBSET Peer /\ IsFiniteSet(Cached)
      /\ Cardinality(Cached) \in Nat /\ Cardinality(Cached) <= MaxPeers
  <2>1. Cached \in SUBSET Peer BY DEF Cached
  <2> QED BY <2>1, PeerSetsFinite DEF AtMostCapacity
<1>1. CASE ~Full(p) /\ expires' = [expires EXCEPT ![p] = Renewed(p)]
  <2>1. Cached' = Cached \cup {p} BY <1>1 DEF Cached, Renewed
  <2>2. CASE p \in Cached
    <3>1. Cached' = Cached BY <2>1, <2>2
    <3> QED BY <1>0, <3>1 DEF AtMostCapacity
  <2>3. CASE p \notin Cached
    <3>1. Cardinality(Cached) < MaxPeers BY <1>0, <1>1, <2>3 DEF Full, Cached
    <3>2. Cardinality(Cached') = Cardinality(Cached) + 1
      BY <1>0, <2>1, <2>3, FS_AddElement
    <3> QED BY <1>0, <3>1, <3>2 DEF AtMostCapacity
  <2> QED BY <2>2, <2>3
<1>2. CASE /\ Full(p)
           /\ \E old \in Oldest :
                expires' = [expires EXCEPT ![old] = None, ![p] = Renewed(p)]
  <2>1. PICK old \in Oldest :
          expires' = [expires EXCEPT ![old] = None, ![p] = Renewed(p)]
    BY <1>2
  <2>2. old \in Cached /\ p \notin Cached
    BY <1>2, <2>1 DEF Oldest, Full, Cached
  <2>3. Cached' = (Cached \ {old}) \cup {p}
    BY <1>0, <2>1, <2>2 DEF Cached, Renewed
  <2>4. IsFiniteSet(Cached \ {old})
        /\ Cardinality(Cached \ {old}) = Cardinality(Cached) - 1
    BY <1>0, <2>2, FS_RemoveElement
  <2>5. Cardinality(Cached') = Cardinality(Cached \ {old}) + 1
    BY <2>2, <2>3, <2>4, FS_AddElement
  <2> QED BY <1>0, <2>4, <2>5 DEF AtMostCapacity
<1> QED BY <1>1, <1>2 DEF RecordValidResponse

\* All of the table is looked at, so no good proof in it is overlooked.
LEMMA Found ==
  ASSUME ServingInv, NEW count \in Nat, GuardedFind(count)
  PROVE  /\ FullReferral'
         /\ referral' \in [count : Nat, peers : SUBSET Peer, known : SUBSET Peer]
         /\ referral'.peers \subseteq Fresh
         /\ \E near \in SUBSET Peer : Drop(near)
<1> USE DEF ServingInv, TypeOK
<1>1. PICK near \in SUBSET table :
        /\ Cardinality(near) = AtMost(Looked(count), table)
        /\ Drop(near)
        /\ \E found \in SUBSET (near \cap Fresh) :
             /\ Cardinality(found) = AtMost(count, near \cap Fresh)
             /\ referral' = [count |-> count, peers |-> found,
                             known |-> table \cap Fresh]
  BY DEF GuardedFind
<1>2. IsFiniteSet(table) /\ Cardinality(table) \in Nat
  BY PeerSetsFinite
<1>3. Cardinality(near) = Cardinality(table)
  BY <1>1, <1>2 DEF AtMost, Looked
<1>4. near = table
  BY <1>1, <1>2, <1>3, FS_Subset
<1>5. PICK found \in SUBSET (near \cap Fresh) :
        /\ Cardinality(found) = AtMost(count, near \cap Fresh)
        /\ referral' = [count |-> count, peers |-> found,
                        known |-> table \cap Fresh]
  BY <1>1
<1>6. FullReferral'
  BY <1>4, <1>5 DEF FullReferral, AtMost
<1> QED BY <1>1, <1>5, <1>6

-----------------------------------------------------------------------------
\* A step that refers to nobody.
LEMMA Quiet ==
  ASSUME referral' = NoReferral
  PROVE  ReferredAreServing' /\ FullReferral'
BY NothingReferred DEF ReferredAreServing, FullReferral, NoReferral, AtMost

(* Every step preserves the invariant of the eligibility.                  *)
LEMMA ServingStep == ServingInv /\ [Next]_vars => ServingInv'
<1> SUFFICES ASSUME ServingInv, [Next]_vars PROVE ServingInv' OBVIOUS
<1> USE ServingAssumption
<1>1. ASSUME NEW p \in Peer, RecordValidResponse(p) PROVE ServingInv'
  <2>1. TypeOK'
    BY <1>1 DEF RecordValidResponse, ServingInv, TypeOK, Time, Renewed, Oldest, Cached,
       NoReferral, modes
  <2>2. ProofsAge'
    BY <1>1 DEF RecordValidResponse, ServingInv, TypeOK, Time, ProofsAge, Renewed
  <2>3. HandlerFollowsMode'
    BY <1>1 DEF RecordValidResponse, ServingInv, HandlerFollowsMode, modes
  <2>4. referral' = NoReferral BY <1>1 DEF RecordValidResponse
  <2> QED BY <1>1, <2>1, <2>2, <2>3, <2>4, ReplyRecorded, Quiet DEF ServingInv
<1>2. ASSUME NEW p \in Peer, GuardedAdd(p) PROVE ServingInv'
  <2>0. Drop({p}) /\ referral' = NoReferral /\ UNCHANGED <<modes, arriving, serving, age>>
    BY <1>2 DEF GuardedAdd
  <2>1. TypeOK'
    BY <1>2, <2>0, Dropped DEF GuardedAdd, ServingInv, TypeOK, NoReferral, modes
  <2>2. ProofsAge'
    BY <2>0, Dropped DEF ServingInv, ProofsAge
  <2>3. AtMostCapacity' BY <2>0, Dropped, FewerCached DEF ServingInv
  <2>4. HandlerFollowsMode' BY <2>0 DEF ServingInv, HandlerFollowsMode, modes
  <2> QED BY <2>0, <2>1, <2>2, <2>3, <2>4, Quiet DEF ServingInv
<1>3. ASSUME NEW p \in Peer, EndAdd(p) \/ TableDrops(p) PROVE ServingInv'
  <2>0. referral' = NoReferral /\ UNCHANGED <<expires, modes, arriving, serving, age>>
    BY <1>3 DEF EndAdd, TableDrops
  <2>1. TypeOK'
    BY <1>3, <2>0 DEF EndAdd, TableDrops, ServingInv, TypeOK, NoReferral, modes
  <2>2. ProofsAge' BY <2>0 DEF ServingInv, ProofsAge
  <2>3. AtMostCapacity' BY <2>0, FewerCached
  <2>4. HandlerFollowsMode' BY <2>0 DEF ServingInv, HandlerFollowsMode, modes
  <2> QED BY <2>0, <2>1, <2>2, <2>3, <2>4, Quiet DEF ServingInv
<1>4. ASSUME NEW count \in 1..Cardinality(Peer), GuardedFind(count) PROVE ServingInv'
  <2>0. UNCHANGED <<adding, modes, arriving, serving, age>>
    BY <1>4 DEF GuardedFind
  <2>1. PICK near \in SUBSET Peer : Drop(near)
    BY <1>4, Found, PeerSetsFinite
  <2>2. TypeOK'
    BY <1>4, <2>0, <2>1, Dropped, Found, PeerSetsFinite DEF ServingInv, TypeOK, modes
  <2>3. ProofsAge' BY <2>0, <2>1, Dropped DEF ServingInv, ProofsAge
  <2>4. AtMostCapacity' BY <2>1, Dropped, FewerCached DEF ServingInv
  <2>5. ReferredAreServing'
    <3>1. referral'.peers \subseteq Fresh BY <1>4, Found, PeerSetsFinite
    <3> QED BY <2>0, <3>1
            DEF ServingInv, TypeOK, Time, ProofsAge, Fresh, Cached, ReferredAreServing
  <2>6. FullReferral' BY <1>4, Found, PeerSetsFinite
  <2>7. HandlerFollowsMode' BY <2>0 DEF ServingInv, HandlerFollowsMode, modes
  <2> QED BY <2>2, <2>3, <2>4, <2>5, <2>6, <2>7 DEF ServingInv
<1>5. CASE Tick
  <2>1. TypeOK'
    BY <1>5 DEF Tick, ServingInv, TypeOK, Time, Fresh, Cached, NoReferral, modes
  <2>2. ProofsAge'
    BY <1>5 DEF Tick, ServingInv, TypeOK, Time, ProofsAge, Fresh, Cached
  <2>3. AtMostCapacity' BY <1>5, FewerCached DEF Tick, Fresh, Cached
  <2>4. HandlerFollowsMode' BY <1>5 DEF Tick, ServingInv, HandlerFollowsMode, modes
  <2>5. referral' = NoReferral BY <1>5 DEF Tick
  <2> QED BY <2>1, <2>2, <2>3, <2>4, <2>5, Quiet DEF ServingInv
<1>6. ASSUME NEW m \in Mode, BeginSwitch(m) PROVE ServingInv'
  <2>1. TypeOK' BY <1>6 DEF BeginSwitch, ServingInv, TypeOK, NoReferral
  <2>2. ProofsAge' BY <1>6 DEF BeginSwitch, ServingInv, ProofsAge
  <2>3. AtMostCapacity' BY <1>6, FewerCached DEF BeginSwitch
  <2>4. HandlerFollowsMode' BY <1>6 DEF BeginSwitch, HandlerFollowsMode
  <2>5. referral' = NoReferral BY <1>6 DEF BeginSwitch
  <2> QED BY <2>1, <2>2, <2>3, <2>4, <2>5, Quiet DEF ServingInv
<1>7. ASSUME NEW m \in Mode, EndSwitch(m) PROVE ServingInv'
  <2>1. TypeOK'
    BY <1>7 DEF EndSwitch, Forget, Registered, ServingInv, TypeOK, Time, NoReferral
  <2>2. ProofsAge' BY <1>7 DEF EndSwitch, Forget, ProofsAge
  <2>3. AtMostCapacity' BY <1>7, FewerCached DEF EndSwitch, Forget
  <2>4. HandlerFollowsMode' BY <1>7 DEF EndSwitch, Registered, HandlerFollowsMode
  <2>5. referral' = NoReferral BY <1>7 DEF EndSwitch
  <2> QED BY <2>1, <2>2, <2>3, <2>4, <2>5, Quiet DEF ServingInv
<1>8. CASE Negotiate \/ Handle \/ EndHandle
  <2>0. referral' = NoReferral /\ UNCHANGED <<tables, modes, age>>
    BY <1>8 DEF Negotiate, Handle, EndHandle
  <2>1. TypeOK'
    BY <1>8, <2>0 DEF Negotiate, Handle, EndHandle, ServingInv, TypeOK, NoReferral,
       tables, modes
  <2>2. ProofsAge' BY <2>0 DEF ServingInv, ProofsAge, tables
  <2>3. AtMostCapacity' BY <2>0, FewerCached DEF tables
  <2>4. HandlerFollowsMode' BY <2>0 DEF ServingInv, HandlerFollowsMode, modes
  <2> QED BY <2>0, <2>1, <2>2, <2>3, <2>4, Quiet DEF ServingInv
<1>9. CASE UNCHANGED vars
  BY <1>9, FewerCached DEF vars, tables, modes, ServingInv, TypeOK, ProofsAge,
     ReferredAreServing, FullReferral, HandlerFollowsMode
<1> QED BY <1>1, <1>2, <1>3, <1>4, <1>5, <1>6, <1>7, <1>8, <1>9 DEF Next

(* The invariant of the eligibility holds in every reachable state.        *)
LEMMA ServingInductive == Spec => []ServingInv
BY ServingInitInv, ServingStep, PTL DEF Spec

-----------------------------------------------------------------------------
(* The state of the eligibility and of the mode is well typed: no proof    *)
(* lasts longer than the TTL.                                              *)
THEOREM ServingTypeCorrect == Spec => []TypeOK
<1>1. ServingInv => TypeOK BY DEF ServingInv
<1> QED BY <1>1, ServingInductive, PTL

(* The cache of proofs never grows beyond MAX_ELIGIBLE_PEERS.              *)
THEOREM NeverOverCapacity == Spec => []AtMostCapacity
<1>1. ServingInv => AtMostCapacity BY DEF ServingInv
<1> QED BY <1>1, ServingInductive, PTL

(* No peer is referred to but on a valid reply within the TTL and since    *)
(* the last mode switch, however add_peer, expiry and switches interleave. *)
THEOREM OnlyServingReferred == Spec => []ReferredAreServing
<1>1. ServingInv => ReferredAreServing BY DEF ServingInv
<1> QED BY <1>1, ServingInductive, PTL

(* Peers without a proof never displace eligible ones from an answer.      *)
THEOREM ReferralAlwaysFull == Spec => []FullReferral
<1>1. ServingInv => FullReferral BY DEF ServingInv
<1> QED BY <1>1, ServingInductive, PTL

(* After any overlap of mode switches the handler agrees with the mode.    *)
THEOREM HandlerAgreesWithMode == Spec => []HandlerFollowsMode
<1>1. ServingInv => HandlerFollowsMode BY DEF ServingInv
<1> QED BY <1>1, ServingInductive, PTL

(* A good proof is never evicted while one that is over is kept.           *)
THEOREM EvictionPrefersStale == Spec => FreshOutlivesStale
<1>1. ServingInv /\ [Next]_vars =>
        [\A p \in Peer : RecordValidResponse(p) =>
           \A q \in Fresh : expires'[q] = None =>
             ~ \E r \in Cached : expires[r] = 0 /\ expires'[r] # None]_vars
  <2> SUFFICES ASSUME ServingInv, NEW p \in Peer, RecordValidResponse(p),
                      NEW q \in Fresh, expires'[q] = None,
                      NEW r \in Cached, expires[r] = 0
               PROVE  FALSE
    OBVIOUS
  <2>1. q \in Peer /\ expires[q] \in 1..TTL
    BY DEF ServingInv, TypeOK, Time, Fresh, Cached
  <2>2. PICK old \in Oldest :
          expires' = [expires EXCEPT ![old] = None, ![p] = Renewed(p)]
    BY <2>1, ServingAssumption
       DEF RecordValidResponse, ServingInv, TypeOK, Time, Renewed, Cached
  <2>3. q = old
    BY <2>1, <2>2, ServingAssumption DEF ServingInv, TypeOK, Time, Renewed, Oldest, Cached
  <2>4. expires[old] <= expires[r]
    BY <2>2 DEF Oldest
  <2> QED BY <2>1, <2>3, <2>4
<1> QED BY <1>1, ServingInductive, PTL DEF Spec, FreshOutlivesStale

(* A node that has become a client takes up no further stream.             *)
THEOREM ClientTakesNoStream == Spec => ClientStopsServing
<1>1. ServingInv /\ [Next]_vars => [mode = "client" => serving' <= serving]_vars
  <2> SUFFICES ASSUME ServingInv, Next, mode = "client" PROVE serving' <= serving
    OBVIOUS
  <2>1. serving \in Nat BY DEF ServingInv, TypeOK
  <2>2. CASE Handle
    BY <2>1, <2>2 DEF Handle, Serves
  <2>3. CASE EndHandle
    BY <2>1, <2>3 DEF EndHandle
  <2>4. CASE ~Handle /\ ~EndHandle
    <3>1. serving' = serving
      BY <2>4 DEF Next, RecordValidResponse, GuardedAdd, EndAdd, TableDrops,
         GuardedFind, Tick, BeginSwitch, EndSwitch, Negotiate
    <3> QED BY <2>1, <3>1
  <2> QED BY <2>2, <2>3, <2>4
<1> QED BY <1>1, ServingInductive, PTL DEF Spec, ClientStopsServing

=============================================================================
