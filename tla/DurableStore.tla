----------------------------- MODULE DurableStore ---------------------------
(***************************************************************************)
(* LMDBDatastore: what a node keeps on disk under one record key.  Three   *)
(* LMDB databases hold the envelope (value), the accepted metadata (here   *)
(* its seq) and the accepted history.  put_if_newer writes the three in    *)
(* one write transaction, so a crash leaves either all or none of a write  *)
(* and a store is a value of the record type below, never a torn mixture.  *)
(* put writes the envelope alone and leaves metadata and history behind.   *)
(***************************************************************************)
EXTENDS Verification

\* Python's None is not an integer.
ASSUME NoneAssumption == None \notin Nat

Store == [value : Envelope \cup {None}, seq : Nat \cup {None},
          history : Seq(Envelope)]

EmptyStore == [value |-> None, seq |-> None, history |-> <<>>]

\* put
RawPut(s, e) == [s EXCEPT !.value = e]

\* The seq a candidate must exceed: that of the metadata, else the one
\* decoded from the stored envelope (_extract_seq).
CurrentSeq(s) == IF s.seq # None THEN s.seq ELSE s.value.seq

\* Mutant of Newer: an equal seq replaces.
NewerOrEqual(s, e) == IF s.value = None THEN s.seq = None ELSE e.seq >= CurrentSeq(s)

\* Whether put_if_newer installs e.  Metadata without an envelope refuses.
Newer(s, e) == IF s.value = None THEN s.seq = None ELSE e.seq > CurrentSeq(s)

\* Mutants of PutIfNewer: one of the three writes is left out.
WithoutHistory(s, e, h) ==
  IF Newer(s, e) THEN [s EXCEPT !.value = e, !.seq = e.seq] ELSE s

WithoutMetadata(s, e, h) ==
  IF Newer(s, e) THEN [s EXCEPT !.value = e, !.history = h] ELSE s

\* put_if_newer, and the store it leaves; h = <<>> deletes the history.
PutIfNewer(s, e, h) ==
  IF Newer(s, e) THEN [value |-> e, seq |-> e.seq, history |-> h] ELSE s

=============================================================================
