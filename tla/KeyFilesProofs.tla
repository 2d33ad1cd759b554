--------------------------- MODULE KeyFilesProofs ---------------------------
(***************************************************************************)
(* The properties of KeyFiles for any number of processes and keys.        *)
(*                                                                         *)
(* For the node key the invariant follows the file from the exclusive      *)
(* create to the write: as long as a process is in between, the file is    *)
(* empty, no other process can pass the create, and nobody has obtained a  *)
(* key.  For keygen it follows the one key from the temporary file, which  *)
(* is complete and synced before the link, to the destination.             *)
(***************************************************************************)
EXTENDS KeyFiles, FiniteSetTheorems, TLAPS

NodeInv ==
  /\ \A n \in Node :
       /\ node[n].pc \in {"create", "write", "chmod", "runs"} => node[n].key \in Key
       /\ node[n].pc = "write" => nodeKey = Empty /\ obtained = {}
       /\ node[n].pc = "chmod" => nodeKey = node[n].key
  /\ \A n, m \in Node : node[n].pc = "write" /\ node[m].pc = "write" => n = m
  /\ \A j, k \in obtained : j = k
  /\ nodeKey \in Key => obtained \subseteq {nodeKey}
  /\ nodeKey = Absent => obtained = {}

KeygenInv ==
  /\ \A g \in Keygen :
       /\ keygen[g].pc \notin {"off", "failed", "leftover"} => keygen[g].key \in Key
       /\ keygen[g].pc = "sync" => temp[g] = keygen[g].key
       /\ keygen[g].pc = "link" => temp[g] = keygen[g].key /\ g \in synced
       /\ keygen[g].pc \in {"unlink", "done"} => ownerKey = keygen[g].key
  /\ ownerKey # Empty
  /\ ownerKey \in Key => ownerSynced

IInv == TypeOK /\ NodeInv /\ KeygenInv

-----------------------------------------------------------------------------

(* An empty directory satisfies the invariant.                             *)
LEMMA InitIInv == Init => IInv
<1> SUFFICES ASSUME Init PROVE IInv OBVIOUS
<1> USE KeyAssumption DEF Init, Off, Content
<1>1. TypeOK BY DEF TypeOK
<1>2. NodeInv BY DEF NodeInv
<1>3. KeygenInv BY DEF KeygenInv
<1> QED BY <1>1, <1>2, <1>3 DEF IInv

(* The steps of a starting node preserve the invariant: it never replaces  *)
(* a file that holds a key.                                                *)
LEMMA NodeStep ==
  ASSUME IInv, NEW n \in Node,
         \/ Look(n) \/ Create(n) \/ Write(n) \/ Chmod(n) \/ Read(n) \/ Stop(n)
  PROVE  IInv'
<1> USE KeyAssumption DEF IInv, At, Goes, Off, Content
<1>1. CASE Look(n)
  BY <1>1 DEF Look, TypeOK, NodeInv, KeygenInv, files
<1>2. CASE Create(n)
  BY <1>2 DEF Create, TypeOK, NodeInv, KeygenInv
<1>3. CASE Write(n)
  BY <1>3 DEF Write, TypeOK, NodeInv, KeygenInv
<1>4. CASE Chmod(n)
  BY <1>4 DEF Chmod, Runs, TypeOK, NodeInv, KeygenInv, files
<1>5. CASE Read(n)
  <2>1. UNCHANGED <<files, keygen, fresh>> /\ node[n].pc = "read"
    BY <1>5 DEF Read
  <2>2. CASE nodeKey \in Key /\ Runs(n, nodeKey)
    BY <2>1, <2>2 DEF Runs, TypeOK, NodeInv, KeygenInv, files
  <2>3. CASE node' = [node EXCEPT ![n] = Off] /\ UNCHANGED obtained
    BY <2>1, <2>3 DEF TypeOK, NodeInv, KeygenInv, files
  <2> QED BY <1>5, <2>2, <2>3 DEF Read
<1>6. CASE Stop(n)
  BY <1>6 DEF Stop, TypeOK, NodeInv, KeygenInv, files
<1> QED BY <1>1, <1>2, <1>3, <1>4, <1>5, <1>6

(* What a keygen process may change: its own state, its temporary file and *)
(* the destination.  A step that changes no more preserves the invariant   *)
(* if the process itself ends up as the invariant wants it.                *)
GenState == [pc : {"off", "write", "sync", "link", "unlink", "done", "failed",
                   "leftover"},
             key : Key \cup {Absent}]

GenOK(g) ==
  /\ keygen[g].pc \notin {"off", "failed", "leftover"} => keygen[g].key \in Key
  /\ keygen[g].pc = "sync" => temp[g] = keygen[g].key
  /\ keygen[g].pc = "link" => temp[g] = keygen[g].key /\ g \in synced
  /\ keygen[g].pc \in {"unlink", "done"} => ownerKey = keygen[g].key

\* The step of process g leaves the others and the node key alone.
OnlyOf(g) ==
  /\ UNCHANGED <<nodeKey, node, obtained>>
  /\ keygen' \in [Keygen -> GenState]
  /\ temp' \in [Keygen -> Content]
  /\ synced' \subseteq Keygen
  /\ fresh' \subseteq Key
  /\ \A h \in Keygen \ {g} :
       /\ keygen'[h] = keygen[h] /\ temp'[h] = temp[h]
       /\ h \in synced' <=> h \in synced

(* A process moves on and keeps its key.                                   *)
LEMMA GenMoves ==
  ASSUME NEW g \in Keygen, keygen \in [Keygen -> GenState],
         NEW pc \in {"off", "write", "sync", "link", "unlink", "done", "failed",
                     "leftover"},
         GenGoes(g, pc)
  PROVE  /\ keygen' \in [Keygen -> GenState]
         /\ keygen'[g].pc = pc /\ keygen'[g].key = keygen[g].key
         /\ \A h \in Keygen \ {g} : keygen'[h] = keygen[h]
<1>1. keygen' = [keygen EXCEPT ![g].pc = pc] BY DEF GenGoes
<1>2. keygen[g] \in GenState OBVIOUS
<1>3. /\ keygen'[g] = [keygen[g] EXCEPT !.pc = pc]
      /\ \A h \in Keygen \ {g} : keygen'[h] = keygen[h]
      /\ DOMAIN keygen' = Keygen
  BY <1>1
<1>4. [keygen[g] EXCEPT !.pc = pc] \in GenState BY <1>2 DEF GenState
<1>5. keygen'[g].pc = pc /\ keygen'[g].key = keygen[g].key
  BY <1>2, <1>3 DEF GenState
<1>6. keygen' \in [Keygen -> GenState] BY <1>1, <1>4
<1> QED BY <1>3, <1>5, <1>6

(* The destination stays as it is.                                         *)
LEMMA OwnerKept ==
  ASSUME IInv, NEW g \in Keygen, OnlyOf(g), GenOK(g)',
         UNCHANGED <<ownerKey, ownerSynced>>
  PROVE  IInv'
<1>1. TypeOK' BY DEF IInv, TypeOK, OnlyOf, GenState
<1>2. NodeInv' BY DEF IInv, NodeInv, OnlyOf
<1>3. \A h \in Keygen : GenOK(h) BY DEF IInv, KeygenInv, GenOK
<1>4. \A h \in Keygen \ {g} : GenOK(h)' BY <1>3 DEF GenOK, OnlyOf
<1>5. \A h \in Keygen : GenOK(h)' BY <1>4
<1>6. KeygenInv' BY <1>5 DEF IInv, KeygenInv, GenOK
<1> QED BY <1>1, <1>2, <1>6 DEF IInv

(* What the temporary file of one process may become.                      *)
LEMMA CleanedTemp ==
  ASSUME temp \in [Keygen -> Content], NEW g \in Keygen, temp' \in Cleaned(g)
  PROVE  /\ temp' \in [Keygen -> Content]
         /\ \A h \in Keygen \ {g} : temp'[h] = temp[h]
  BY DEF Cleaned, Content

(* The steps of key generation preserve the invariant: the owner key       *)
(* appears only by linking a synced temporary file.                        *)
LEMMA KeygenStep ==
  ASSUME IInv, NEW g \in Keygen,
         \/ MakeTemp(g) \/ WriteTemp(g) \/ Sync(g) \/ Link(g) \/ Unlink(g)
         \/ Fail(g) \/ Kill(g)
  PROVE  IInv'
<1>1. /\ keygen \in [Keygen -> GenState] /\ temp \in [Keygen -> Content]
      /\ synced \subseteq Keygen /\ fresh \subseteq Key
      /\ keygen[g] \in GenState
  BY DEF IInv, TypeOK, GenState
<1>2. \A h \in Keygen : GenOK(h) BY DEF IInv, KeygenInv, GenOK
<1>3. Absent \in Content /\ Empty \in Content /\ Key \subseteq Content BY DEF Content
<1>4. CASE MakeTemp(g)
  <2>1. PICK k \in fresh :
          /\ keygen' = [keygen EXCEPT ![g] = [pc |-> "write", key |-> k]]
          /\ fresh' = fresh \ {k}
    BY <1>4 DEF MakeTemp
  <2>2. k \in Key /\ [pc |-> "write", key |-> k] \in GenState BY <1>1 DEF GenState
  <2>3. keygen' \in [Keygen -> GenState] BY <1>1, <2>1, <2>2
  <2>4. keygen'[g] = [pc |-> "write", key |-> k] BY <1>1, <2>1
  <2>5. temp' = [temp EXCEPT ![g] = Empty] /\ synced' = synced \ {g}
    BY <1>4 DEF MakeTemp
  <2>6. temp' \in [Keygen -> Content] BY <1>1, <1>3, <2>5
  <2>7. OnlyOf(g) BY <1>1, <1>4, <2>1, <2>3, <2>5, <2>6 DEF OnlyOf, MakeTemp
  <2>8. GenOK(g)' BY <2>2, <2>4 DEF GenOK
  <2> QED BY <1>4, <2>7, <2>8, OwnerKept DEF MakeTemp
<1>5. CASE WriteTemp(g)
  <2>1. GenGoes(g, "sync") /\ keygen[g].pc = "write"
    BY <1>5 DEF WriteTemp, GenAt
  <2>2. keygen[g].key \in Key BY <1>2, <2>1 DEF GenOK
  <2>3. temp' = [temp EXCEPT ![g] = keygen[g].key] BY <1>5 DEF WriteTemp
  <2>4. temp' \in [Keygen -> Content] /\ temp'[g] = keygen[g].key
    BY <1>1, <1>3, <2>2, <2>3
  <2>5. /\ keygen' \in [Keygen -> GenState]
        /\ keygen'[g].pc = "sync" /\ keygen'[g].key = keygen[g].key
        /\ \A h \in Keygen \ {g} : keygen'[h] = keygen[h]
    BY <1>1, <2>1, GenMoves
  <2>6. OnlyOf(g) BY <1>1, <1>5, <2>3, <2>4, <2>5 DEF OnlyOf, WriteTemp
  <2>7. GenOK(g)' BY <2>2, <2>4, <2>5 DEF GenOK
  <2> QED BY <1>5, <2>6, <2>7, OwnerKept DEF WriteTemp
<1>6. CASE Sync(g)
  <2>1. GenGoes(g, "link") /\ keygen[g].pc = "sync" BY <1>6 DEF Sync, GenAt
  <2>2. keygen[g].key \in Key /\ temp[g] = keygen[g].key
    BY <1>2, <2>1 DEF GenOK
  <2>3. synced' = synced \cup {g} /\ temp' = temp BY <1>6 DEF Sync
  <2>4. /\ keygen' \in [Keygen -> GenState]
        /\ keygen'[g].pc = "link" /\ keygen'[g].key = keygen[g].key
        /\ \A h \in Keygen \ {g} : keygen'[h] = keygen[h]
    BY <1>1, <2>1, GenMoves
  <2>5. OnlyOf(g) BY <1>1, <1>6, <2>3, <2>4 DEF OnlyOf, Sync
  <2>6. GenOK(g)' BY <2>2, <2>3, <2>4 DEF GenOK
  <2> QED BY <1>6, <2>5, <2>6, OwnerKept DEF Sync
<1>7. CASE Link(g)
  <2>1. keygen[g].pc = "link" /\ UNCHANGED <<nodeKey, synced, node, fresh, obtained>>
    BY <1>7 DEF Link, GenAt
  <2>2. temp[g] = keygen[g].key /\ g \in synced /\ keygen[g].key \in Key
    BY <1>2, <2>1 DEF GenOK
  <2>3. CASE /\ ownerKey = Absent
             /\ ownerKey' = temp[g] /\ ownerSynced' = (g \in synced)
             /\ GenGoes(g, "unlink") /\ UNCHANGED temp
    <3>1. /\ keygen' \in [Keygen -> GenState]
          /\ keygen'[g].pc = "unlink" /\ keygen'[g].key = keygen[g].key
          /\ \A h \in Keygen \ {g} : keygen'[h] = keygen[h]
      BY <1>1, <2>3, GenMoves
    <3>2. ownerKey' \in Key /\ ownerKey' = keygen[g].key /\ ownerSynced' = TRUE
      BY <2>2, <2>3
    <3>3. TypeOK'
      BY <1>1, <1>3, <2>1, <2>3, <3>1, <3>2 DEF IInv, TypeOK, GenState
    <3>4. GenOK(g)' BY <2>2, <3>1, <3>2 DEF GenOK
    <3>5. \A h \in Keygen \ {g} : GenOK(h)'
      <4> SUFFICES ASSUME NEW h \in Keygen \ {g} PROVE GenOK(h)' OBVIOUS
      <4>1. GenOK(h) /\ keygen'[h] = keygen[h] BY <1>2, <3>1
      <4>2. keygen[h].pc \notin {"unlink", "done"}
        BY <4>1, <2>3, KeyAssumption DEF GenOK
      <4> QED BY <4>1, <4>2, <2>1, <2>3 DEF GenOK
    <3>6. \A h \in Keygen : GenOK(h)' BY <3>4, <3>5
    <3>7. KeygenInv' BY <3>2, <3>6, KeyAssumption DEF KeygenInv, GenOK
    <3>8. NodeInv' BY <2>1 DEF IInv, NodeInv
    <3> QED BY <3>3, <3>7, <3>8 DEF IInv
  <2>4. CASE /\ ownerKey # Absent
             /\ temp' \in Cleaned(g)
             /\ GenGoes(g, Failed(g)) /\ UNCHANGED <<ownerKey, ownerSynced>>
    <3>1. /\ temp' \in [Keygen -> Content]
          /\ \A h \in Keygen \ {g} : temp'[h] = temp[h]
      BY <1>1, <2>4, CleanedTemp
    <3>2. PICK pc \in {"failed", "leftover"} : GenGoes(g, pc)
      BY <2>4 DEF Failed
    <3>3. /\ keygen' \in [Keygen -> GenState] /\ keygen'[g].pc = pc
          /\ \A h \in Keygen \ {g} : keygen'[h] = keygen[h]
      BY <1>1, <3>2, GenMoves
    <3>4. OnlyOf(g) BY <1>1, <2>1, <3>1, <3>3 DEF OnlyOf
    <3>5. GenOK(g)' BY <3>3 DEF GenOK
    <3> QED BY <2>4, <3>4, <3>5, OwnerKept
  <2> QED BY <1>7, <2>3, <2>4 DEF Link
<1>8. CASE Unlink(g)
  <2>1. keygen[g].pc = "unlink" /\ UNCHANGED <<ownerKey, ownerSynced>>
    BY <1>8 DEF Unlink, GenAt
  <2>2. temp' \in Cleaned(g) BY <1>8 DEF Unlink, Cleaned
  <2>3. /\ temp' \in [Keygen -> Content]
        /\ \A h \in Keygen \ {g} : temp'[h] = temp[h]
    BY <1>1, <2>2, CleanedTemp
  <2>4. PICK pc \in {"done", "failed", "leftover"} : GenGoes(g, pc)
    BY <1>8 DEF Unlink, Failed
  <2>5. /\ keygen' \in [Keygen -> GenState]
        /\ keygen'[g].pc = pc /\ keygen'[g].key = keygen[g].key
        /\ \A h \in Keygen \ {g} : keygen'[h] = keygen[h]
    BY <1>1, <2>4, GenMoves
  <2>6. OnlyOf(g) BY <1>1, <1>8, <2>3, <2>5 DEF OnlyOf, Unlink
  <2>7. keygen[g].key \in Key /\ ownerKey = keygen[g].key BY <1>2, <2>1 DEF GenOK
  <2>8. GenOK(g)' BY <2>1, <2>5, <2>7 DEF GenOK
  <2> QED BY <2>1, <2>6, <2>8, OwnerKept
<1>9. CASE Fail(g)
  <2>1. temp' \in Cleaned(g) BY <1>9 DEF Fail
  <2>2. /\ temp' \in [Keygen -> Content]
        /\ \A h \in Keygen \ {g} : temp'[h] = temp[h]
    BY <1>1, <2>1, CleanedTemp
  <2>3. PICK pc \in {"failed", "leftover"} : GenGoes(g, pc)
    BY <1>9 DEF Fail, Failed
  <2>4. /\ keygen' \in [Keygen -> GenState] /\ keygen'[g].pc = pc
        /\ \A h \in Keygen \ {g} : keygen'[h] = keygen[h]
    BY <1>1, <2>3, GenMoves
  <2>5. OnlyOf(g) BY <1>1, <1>9, <2>2, <2>4 DEF OnlyOf, Fail
  <2>6. GenOK(g)' BY <2>4 DEF GenOK
  <2> QED BY <1>9, <2>5, <2>6, OwnerKept DEF Fail
<1>10. CASE Kill(g)
  <2>1. keygen' = [keygen EXCEPT ![g] = Off] BY <1>10 DEF Kill
  <2>2. Off \in GenState BY DEF Off, GenState
  <2>3. /\ keygen' \in [Keygen -> GenState] /\ keygen'[g].pc = "off"
        /\ \A h \in Keygen \ {g} : keygen'[h] = keygen[h]
    BY <1>1, <2>1, <2>2 DEF Off
  <2>4. OnlyOf(g) BY <1>1, <1>10, <2>3 DEF OnlyOf, Kill, files
  <2>5. GenOK(g)' BY <2>3 DEF GenOK
  <2> QED BY <1>10, <2>4, <2>5, OwnerKept DEF Kill, files
<1> QED BY <1>4, <1>5, <1>6, <1>7, <1>8, <1>9, <1>10

(* A power loss preserves the invariant: what it may tear was never        *)
(* synced.                                                                 *)
LEMMA PowerLossStep == ASSUME IInv, PowerLoss PROVE IInv'
<1>1. /\ \A n \in Node : node'[n] = Off
      /\ \A g \in Keygen : keygen'[g] = Off
  BY DEF PowerLoss
<1>2. nodeKey' \in {nodeKey, Absent, Empty} /\ ownerKey' \in {ownerKey, Absent, Empty}
  BY DEF PowerLoss, Remains
<1>3. ownerKey' # Empty
  BY KeyAssumption DEF PowerLoss, Remains, IInv, TypeOK, KeygenInv, Content
<1>4. TypeOK'
  <2>1. nodeKey' \in Content /\ ownerKey' \in Content
    BY <1>2 DEF IInv, TypeOK, Content
  <2>2. temp' \in [Keygen -> Content] /\ synced' \subseteq Keygen
    BY DEF PowerLoss, Content
  <2>3. node' = [n \in Node |-> Off] /\ keygen' = [g \in Keygen |-> Off]
    BY DEF PowerLoss
  <2>4. obtained' \subseteq Key /\ fresh' \subseteq Key /\ ownerSynced' \in BOOLEAN
    BY DEF PowerLoss, IInv, TypeOK
  <2> QED BY <2>1, <2>2, <2>3, <2>4 DEF TypeOK, Off
<1>5. NodeInv'
  <2>1. nodeKey' # Absent => nodeKey # Absent /\ nodeKey' \in {nodeKey, Empty}
    BY DEF PowerLoss, Remains
  <2>2. obtained' = IF nodeKey' = Absent THEN {} ELSE obtained BY DEF PowerLoss
  <2>3. \A j, k \in obtained' : j = k BY <2>2 DEF IInv, NodeInv
  <2>4. nodeKey' \in Key => obtained' \subseteq {nodeKey'}
    BY <2>1, <2>2, KeyAssumption DEF IInv, NodeInv
  <2> QED BY <1>1, <2>2, <2>3, <2>4 DEF NodeInv, Off
<1>6. KeygenInv'
  <2>1. ownerKey' \in Key => ownerKey' = ownerKey /\ ownerSynced' = ownerSynced
    BY <1>2, KeyAssumption DEF PowerLoss
  <2> QED BY <1>1, <1>3, <2>1 DEF IInv, KeygenInv, Off
<1> QED BY <1>4, <1>5, <1>6 DEF IInv

(* The invariant holds in every reachable state.                           *)
LEMMA Inductive == Spec => []IInv
<1>1. IInv /\ [Next]_vars => IInv'
  <2> SUFFICES ASSUME IInv, [Next]_vars PROVE IInv' OBVIOUS
  <2>1. CASE UNCHANGED vars
    BY <2>1 DEF IInv, vars, files, TypeOK, NodeInv, KeygenInv
  <2>2. CASE Next
    BY <2>2, NodeStep, KeygenStep, PowerLossStep DEF Next
  <2> QED BY <2>1, <2>2
<1> QED BY InitIInv, <1>1, PTL DEF Spec

-----------------------------------------------------------------------------
(* The state of the key files and their processes is well typed.           *)
THEOREM TypeCorrect == Spec => []TypeOK
<1>1. IInv => TypeOK BY DEF IInv
<1> QED BY <1>1, Inductive, PTL

(* Every start of a node obtains the same key, however many processes race *)
(* to create the file and wherever they are stopped.                       *)
THEOREM StartsAlwaysAgree == Spec => []StartsAgree
<1>1. IInv => StartsAgree
  <2> SUFFICES ASSUME IInv PROVE StartsAgree OBVIOUS
  <2>1. PICK k : obtained \subseteq {k} BY DEF IInv, NodeInv
  <2>2. IsFiniteSet({k}) /\ Cardinality({k}) = 1 BY FS_Singleton
  <2>3. Cardinality(obtained) <= Cardinality({k}) BY <2>1, <2>2, FS_Subset
  <2> QED BY <2>2, <2>3 DEF StartsAgree
<1> QED BY <1>1, Inductive, PTL

(* The destination of keygen is never incomplete, after any failures,      *)
(* kills and power losses.                                                 *)
THEOREM OwnerKeyAlwaysComplete == Spec => []OwnerKeyComplete
<1>1. IInv => OwnerKeyComplete BY DEF IInv, KeygenInv, OwnerKeyComplete
<1> QED BY <1>1, Inductive, PTL

(* A keygen that succeeded has its own key at the destination, whatever    *)
(* number of others run with the same destination.                         *)
THEOREM SuccessKeepsOwnKey == Spec => []SuccessIsOwnKey
<1>1. IInv => SuccessIsOwnKey BY DEF IInv, KeygenInv, SuccessIsOwnKey
<1> QED BY <1>1, Inductive, PTL

=============================================================================
