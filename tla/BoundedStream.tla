---------------------------- MODULE BoundedStream ---------------------------
(***************************************************************************)
(* One Kademlia stream behind BoundedDHTStream (kind "outbound": a request *)
(* is written, then its reply is read) or BoundedInboundDHTStream (kind    *)
(* "inbound": a request is read, then the reply is written).               *)
(*                                                                         *)
(* Both proxies see bytes in pieces whose sizes the caller, the peer and   *)
(* the transport choose; bytes are counted here and what they say is the   *)
(* frame they belong to: a varint prefix, the length it declares and a     *)
(* message.  The caller (KadDHT) writes a whole request before it reads,   *)
(* and reads a whole request before it answers.  Deadlines are the time    *)
(* that is left of them, and time passes in ticks.                         *)
(***************************************************************************)
EXTENDS Integers

CONSTANTS
  MaxBytes,     \* MAX_DHT_MESSAGE_SIZE
  PrefixLimit,  \* the longest varint prefix, 10 bytes
  FrameTime,    \* MAX_DHT_FRAME_TIME_SECONDS
  Frame,        \* the frames the two sides may send
  Unset         \* no value, Python's None

ASSUME StreamAssumption ==
  /\ MaxBytes \in Nat \ {0}
  /\ PrefixLimit \in Nat \ {0}
  /\ FrameTime \in Nat \ {0}
  /\ Unset \notin Int
  /\ \A f \in Frame : f.prefix \in Nat \ {0} /\ f.length \in Nat

VARIABLES
  kind,           \* which proxy
  outgoing,       \* the frame the caller writes
  incoming,       \* the frame the other side sends
  pc,             \* what the proxy awaits, or how the stream ended
  want,           \* the bytes the pending read asked the transport for
  request,        \* _tracking and _request_message of the outbound proxy
  written,        \* _written_bytes
  prefix,         \* len(_response_prefix), len(_prefix)
  length,         \* _response_length, _length
  payload,        \* len(_response_payload), _payload_read
  proof,          \* _proof_recorded
  readDeadline,   \* time left of _read_deadline, Unset before the first read
  writeDeadline,  \* time left of _write_deadline, Unset before the first write
  got,            \* history variable: bytes the transport has delivered
  spent           \* history variable: time spent in the awaited reads, writes

parsed == <<prefix, length, payload, proof>>
deadlines == <<readDeadline, writeDeadline>>
streamVars == <<kind, outgoing, incoming, pc, want, request, written, parsed,
          deadlines, got, spent>>

Size(f) == f.prefix + f.length

\* _decode_varint_prefix yields None for n bytes of f ...
Undecided(f, n) == n < f.prefix /\ n < PrefixLimit

\* ... and otherwise a length that is refused or that the frame must have.
Refused(f) == f.prefix > PrefixLimit \/ ~f.canonical \/ f.length > MaxBytes

\* _contains_type_field, ParseFromString, _validate_dht_response and the
\* validate_response of install_dht_serving_eligibility
ValidResponse(q, r) ==
  /\ r.typed /\ r.parses
  /\ r.type = q.type /\ q.type # "PING"
  /\ q.type = "PUT_VALUE" => q.record # Unset /\ r.key = q.record
  /\ q.type \in {"GET_VALUE", "ADD_PROVIDER", "GET_PROVIDERS"} => r.key = q.key
  /\ q.type = "GET_VALUE" /\ r.record # Unset => r.record = q.key
  /\ r.referrals /\ r.signed

StreamInit ==
  /\ kind \in {"outbound", "inbound"}
  /\ outgoing \in Frame /\ incoming \in Frame
  /\ pc = "idle" /\ want = 0
  /\ request = "partial" /\ written = 0
  /\ prefix = 0 /\ length = Unset /\ payload = 0 /\ proof = FALSE
  /\ readDeadline = Unset /\ writeDeadline = Unset
  /\ got = 0 /\ spent = [read |-> 0, write |-> 0]

-----------------------------------------------------------------------------
(* Writing.                                                                *)

\* Mutant of Observed: bytes after the request are not noticed.
FollowingRequestIgnored(n) ==
  IF request = "untracked" \/ Undecided(outgoing, n) THEN request
  ELSE IF Refused(outgoing) /\ outgoing.length # 0 THEN "refused"
  ELSE IF outgoing.length # 0 /\ n < Size(outgoing) THEN "partial"
  ELSE IF outgoing.length # 0 /\ outgoing.message.parses /\ outgoing.message.typed
       THEN "known" ELSE "untracked"

\* _observe_request, with n bytes of the request collected
Observed(n) ==
  IF request = "untracked" \/ Undecided(outgoing, n) THEN request
  ELSE IF Refused(outgoing) THEN "refused"
  ELSE IF outgoing.length # 0 /\ n < Size(outgoing) THEN "partial"
  ELSE IF /\ outgoing.length # 0 /\ n = Size(outgoing)
          /\ outgoing.message.parses /\ outgoing.message.typed
       THEN "known" ELSE "untracked"

\* Mutant of Started: a deadline is extended by each operation under it.
Extended(deadline) == FrameTime + (IF deadline = Unset THEN 0 ELSE deadline)

\* What is left of a deadline when an operation starts under it.
Started(deadline) == IF deadline = Unset THEN FrameTime ELSE deadline

\* The caller writes n bytes.  Of an outbound stream these may run into a
\* second request; of an inbound one they are the reply.
BeginWrite(n) ==
  /\ pc = "idle"
  /\ kind = "outbound" => written + n <= Size(outgoing) + 1
  /\ kind = "inbound" => got >= Size(incoming)
  /\ written' = written + n
  /\ \/ /\ written + n > MaxBytes + PrefixLimit
        /\ pc' = "failed"
        /\ UNCHANGED <<request, writeDeadline>>
     \/ /\ written + n <= MaxBytes + PrefixLimit
        /\ LET r == IF kind = "outbound" THEN Observed(written + n) ELSE request
           IN \/ /\ r = "refused"
                 /\ pc' = "failed"
                 /\ UNCHANGED <<request, writeDeadline>>
              \/ /\ r # "refused"
                 /\ request' = r
                 /\ writeDeadline' = Started(writeDeadline)
                 /\ pc' = IF Started(writeDeadline) > 0 THEN "writing"
                          ELSE "failed"
  /\ UNCHANGED <<kind, outgoing, incoming, want, parsed, readDeadline, got, spent>>

EndWrite ==
  /\ pc = "writing"
  /\ pc' = "idle"
  /\ UNCHANGED <<kind, outgoing, incoming, want, request, written, parsed,
                 deadlines, got, spent>>

-----------------------------------------------------------------------------
(* Reading.                                                                *)

\* Mutant of BeginRead: each read of the frame gets the whole time.
EachReadItsOwnDeadline(n) ==
  /\ pc = "idle"
  /\ kind = "outbound" => written >= Size(outgoing)
  /\ \/ /\ n > MaxBytes
        /\ pc' = "failed"
        /\ UNCHANGED <<want, readDeadline>>
     \/ /\ n <= MaxBytes
        /\ want' = IF n > 0 THEN n
                   ELSE MaxBytes + 1 + (IF kind = "inbound" THEN PrefixLimit ELSE 0)
        /\ readDeadline' = FrameTime
        /\ pc' = "reading"
  /\ UNCHANGED <<kind, outgoing, incoming, request, written, parsed,
                 writeDeadline, got, spent>>

\* Mutant of BeginRead: a read starts although its deadline has passed.
ExpiredReadStarts(n) ==
  /\ pc = "idle"
  /\ kind = "outbound" => written >= Size(outgoing)
  /\ \/ /\ n > MaxBytes
        /\ pc' = "failed"
        /\ UNCHANGED <<want, readDeadline>>
     \/ /\ n <= MaxBytes
        /\ want' = IF n > 0 THEN n
                   ELSE MaxBytes + 1 + (IF kind = "inbound" THEN PrefixLimit ELSE 0)
        /\ readDeadline' = Started(readDeadline)
        /\ pc' = "reading"
  /\ UNCHANGED <<kind, outgoing, incoming, request, written, parsed,
                 writeDeadline, got, spent>>

\* read(n); n = 0 stands for read(None), which asks for a little more than a
\* frame so that a longer one is noticed.
BeginRead(n) ==
  /\ pc = "idle"
  /\ kind = "outbound" => written >= Size(outgoing)
  /\ \/ /\ n > MaxBytes
        /\ pc' = "failed"
        /\ UNCHANGED <<want, readDeadline>>
     \/ /\ n <= MaxBytes
        /\ want' = IF n > 0 THEN n
                   ELSE MaxBytes + 1 + (IF kind = "inbound" THEN PrefixLimit ELSE 0)
        /\ readDeadline' = Started(readDeadline)
        /\ pc' = IF Started(readDeadline) > 0 THEN "reading" ELSE "failed"
  /\ UNCHANGED <<kind, outgoing, incoming, request, written, parsed,
                 writeDeadline, got, spent>>

Watched == kind = "inbound" \/ request = "known"

\* Mutant of Collected: what follows the prefix in its chunk is lost.
RemainderLost(c) == IF length = Unset THEN 0 ELSE payload + c

\* The payload bytes known after a chunk of c bytes that completes or follows
\* the prefix.
Collected(c) == IF length = Unset THEN prefix + c - incoming.prefix ELSE payload + c

\* _observe_response and BoundedInboundDHTStream.read once the length is known
AcceptChunk(c) ==
  /\ length' = incoming.length /\ payload' = Collected(c) /\ prefix' = 0
  /\ \/ /\ Collected(c) > incoming.length
        /\ pc' = "failed" /\ UNCHANGED proof
     \/ /\ Collected(c) <= incoming.length
        /\ kind = "inbound" \/ Collected(c) # incoming.length \/ proof
        /\ pc' = "idle" /\ UNCHANGED proof
     \/ /\ kind = "outbound" /\ Collected(c) = incoming.length /\ ~proof
        /\ proof' = ValidResponse(outgoing.message, incoming.message)
        /\ pc' = IF proof' THEN "recording" ELSE "failed"

\* The transport delivers c bytes to the pending read; no bytes mean the end
\* of the stream.  The other side may send one byte more than its frame.
Receive(c) ==
  /\ pc = "reading"
  /\ c <= want /\ got + c <= Size(incoming) + 1
  /\ got' = got + c
  /\ \/ /\ ~Watched \/ c = 0
        /\ pc' = "idle" /\ UNCHANGED parsed
     \/ /\ Watched /\ c > 0 /\ length = Unset /\ Undecided(incoming, prefix + c)
        /\ prefix' = prefix + c
        /\ pc' = "idle" /\ UNCHANGED <<length, payload, proof>>
     \/ /\ Watched /\ c > 0 /\ length = Unset /\ ~Undecided(incoming, prefix + c)
        /\ Refused(incoming)
        /\ pc' = "failed" /\ UNCHANGED parsed
     \/ /\ Watched /\ c > 0
        /\ length # Unset \/ ~(Undecided(incoming, prefix + c) \/ Refused(incoming))
        /\ AcceptChunk(c)
  /\ UNCHANGED <<kind, outgoing, incoming, want, request, written, deadlines, spent>>

\* record_valid_response returns: the routing table took the peer or not.
Recorded ==
  /\ pc = "recording"
  /\ pc' = "idle"
  /\ UNCHANGED <<kind, outgoing, incoming, want, request, written, parsed,
                 deadlines, got, spent>>

-----------------------------------------------------------------------------
(* Time, cancellation and the end.                                         *)

Due == \/ pc = "reading" /\ readDeadline = 0
       \/ pc = "writing" /\ writeDeadline = 0

Less(deadline) ==
  IF deadline = Unset \/ deadline = 0 THEN deadline ELSE deadline - 1

\* The time spent, counted no further than one tick past the limit.
Counted(time) == IF time > FrameTime THEN time ELSE time + 1

\* Time does not pass an expired deadline of a pending operation.
StreamTick ==
  /\ ~Due /\ pc # "closed"
  /\ readDeadline' = Less(readDeadline)
  /\ writeDeadline' = Less(writeDeadline)
  /\ spent' = [read  |-> IF pc = "reading" THEN Counted(spent.read) ELSE spent.read,
               write |-> IF pc = "writing" THEN Counted(spent.write) ELSE spent.write]
  /\ UNCHANGED <<kind, outgoing, incoming, pc, want, request, written, parsed, got>>

Fail ==
  /\ pc' = "failed"
  /\ UNCHANGED <<kind, outgoing, incoming, want, request, written, parsed,
                 deadlines, got, spent>>

\* trio.fail_after
TimeOut == Due /\ Fail

\* The transport fails, or the task is cancelled while it awaits.
Interrupt == pc \in {"reading", "writing", "recording"} /\ Fail

Close ==
  /\ pc \in {"idle", "failed"}
  /\ pc' = "closed"
  /\ UNCHANGED <<kind, outgoing, incoming, want, request, written, parsed,
                 deadlines, got, spent>>

StreamNext ==
  \/ \E n \in 1..(MaxBytes + PrefixLimit + 1) : BeginWrite(n)
  \/ EndWrite
  \/ \E n \in 0..(MaxBytes + 1) : BeginRead(n)
  \/ \E c \in 0..(MaxBytes + PrefixLimit + 1) : Receive(c)
  \/ Recorded \/ StreamTick \/ TimeOut \/ Interrupt \/ Close

\* Time passes, and trio cancels what is past its deadline.
Fairness == WF_streamVars(StreamTick) /\ WF_streamVars(TimeOut)

StreamSpec == StreamInit /\ [][StreamNext]_streamVars /\ Fairness

-----------------------------------------------------------------------------
StreamTypeOK ==
  /\ kind \in {"outbound", "inbound"}
  /\ outgoing \in Frame /\ incoming \in Frame
  /\ pc \in {"idle", "writing", "reading", "recording", "failed", "closed"}
  /\ want \in Nat
  /\ request \in {"partial", "known", "untracked"}
  /\ written \in Nat /\ prefix \in Nat /\ payload \in Nat /\ got \in Nat
  /\ length \in Nat \cup {Unset}
  /\ proof \in BOOLEAN
  /\ readDeadline \in 0..FrameTime \cup {Unset}
  /\ writeDeadline \in 0..FrameTime \cup {Unset}
  /\ spent \in [read : Nat, write : Nat]

\* A peer is recorded as serving only when the stream has carried exactly one
\* request, a typed one, and exactly the bytes of one reply that answers it.
\* However the bytes were split, neither a partial reply nor one to a second
\* request counts (_observe_request, _observe_response).
ProofIsEarned ==
  pc = "recording" =>
    /\ kind = "outbound"
    /\ written = Size(outgoing) /\ outgoing.message.typed
    /\ got = Size(incoming)
    /\ ValidResponse(outgoing.message, incoming.message)

\* Conversely, a reply that answers the request and was read to its end on a
\* stream that did not fail is recorded, whatever its chunks were.
EarnedIsRecorded ==
  /\ kind = "outbound" /\ request = "known" /\ pc \in {"idle", "recording"}
  /\ got = Size(incoming) /\ ~Refused(incoming)
  /\ ValidResponse(outgoing.message, incoming.message)
  => proof

\* The time the caller spends awaiting one frame, summed over all its reads
\* (or writes), stays within MAX_DHT_FRAME_TIME_SECONDS: a peer that dribbles
\* bytes gains nothing.
FrameTimeBounded == spent.read <= FrameTime /\ spent.write <= FrameTime

\* No stream is read or written for ever, whatever the peer and the caller
\* do: sooner or later the proxy awaits the transport no more.
StreamsEnd == <>[](pc \notin {"reading", "writing"})

=============================================================================
