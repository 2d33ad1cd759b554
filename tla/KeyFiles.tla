------------------------------ MODULE KeyFiles ------------------------------
(***************************************************************************)
(* The two private key files that the command line creates.                *)
(*                                                                         *)
(* nodeKey is the identity key of a node beside its datastore:             *)
(* _load_or_create_node_identity_key reads it, or creates it exclusively   *)
(* and then writes it in place.  ownerKey is the destination of keygen:    *)
(* write_ed25519_private_key_pem writes a temporary file, syncs it and     *)
(* links it to the destination.                                            *)
(*                                                                         *)
(* Several processes run either function at once, any file operation may   *)
(* fail, a process may be killed between two of them, and after a power    *)
(* loss a file that was not yet synced is there, empty or gone.            *)
(***************************************************************************)
EXTENDS Naturals, FiniteSets

CONSTANTS
  Node,     \* processes that start a node on the same datastore
  Keygen,   \* processes that run keygen with the same output path
  Key,      \* private keys
  Absent,   \* there is no file
  Empty     \* a file without a complete key

ASSUME KeyAssumption == Absent \notin Key /\ Empty \notin Key /\ Absent # Empty

VARIABLES
  nodeKey,   \* content of node_privkey.bin
  ownerKey,  \* content of the output path of keygen
  temp,      \* content of the temporary file of each keygen
  synced,    \* the keygen processes whose temporary file is on disk for good
  ownerSynced, \* whether ownerKey is
  node,      \* what each node process is doing, and with which key
  keygen,    \* what each keygen process is doing, and with which key
  fresh,     \* keys not yet generated
  obtained   \* history variable: the keys nodes have started with since
             \* nodeKey was last missing after a power loss

files == <<nodeKey, ownerKey, temp, synced, ownerSynced>>
vars == <<files, node, keygen, fresh, obtained>>

Content == Key \cup {Absent, Empty}
Off == [pc |-> "off", key |-> Absent]

Init ==
  /\ nodeKey = Absent /\ ownerKey = Absent
  /\ temp = [g \in Keygen |-> Absent] /\ synced = {} /\ ownerSynced = FALSE
  /\ node = [n \in Node |-> Off]
  /\ keygen = [g \in Keygen |-> Off]
  /\ fresh = Key
  /\ obtained = {}

-----------------------------------------------------------------------------
(* _load_or_create_node_identity_key                                       *)

At(n, pc) == node[n].pc = pc
Goes(n, pc) == node' = [node EXCEPT ![n].pc = pc]

\* key_path.exists(); mkdir and create_new_key_pair follow if it does not.
Look(n) ==
  /\ At(n, "off")
  /\ \/ /\ nodeKey # Absent
        /\ Goes(n, "read")
        /\ UNCHANGED fresh
     \/ /\ nodeKey = Absent
        /\ \E k \in fresh :
             /\ node' = [node EXCEPT ![n] = [pc |-> "create", key |-> k]]
             /\ fresh' = fresh \ {k}
  /\ UNCHANGED <<files, keygen, obtained>>

\* Mutant of Create: open(key_path, "wb").
CreateOrEmpty(n) ==
  /\ At(n, "create")
  /\ nodeKey' = Empty
  /\ Goes(n, "write")
  /\ UNCHANGED <<ownerKey, temp, synced, ownerSynced, keygen, fresh, obtained>>

\* open(key_path, "xb"): another process may have been faster.
Create(n) ==
  /\ At(n, "create")
  /\ \/ /\ nodeKey = Absent
        /\ nodeKey' = Empty
        /\ Goes(n, "write")
     \/ /\ nodeKey # Absent
        /\ Goes(n, "read")
        /\ UNCHANGED nodeKey
  /\ UNCHANGED <<ownerKey, temp, synced, ownerSynced, keygen, fresh, obtained>>

Write(n) ==
  /\ At(n, "write")
  /\ nodeKey' = node[n].key
  /\ Goes(n, "chmod")
  /\ UNCHANGED <<ownerKey, temp, synced, ownerSynced, keygen, fresh, obtained>>

Runs(n, k) ==
  /\ node' = [node EXCEPT ![n] = [pc |-> "runs", key |-> k]]
  /\ obtained' = obtained \cup {k}

Chmod(n) ==
  /\ At(n, "chmod")
  /\ Runs(n, node[n].key)
  /\ UNCHANGED <<files, keygen, fresh>>

\* Ed25519PrivateKey.from_bytes refuses anything but a complete key.
Read(n) ==
  /\ At(n, "read")
  /\ \/ nodeKey \in Key /\ Runs(n, nodeKey)
     \/ nodeKey \notin Key /\ node' = [node EXCEPT ![n] = Off] /\ UNCHANGED obtained
  /\ UNCHANGED <<files, keygen, fresh>>

\* The node stops, is killed, or an operation on its key file fails.
Stop(n) ==
  /\ ~At(n, "off")
  /\ node' = [node EXCEPT ![n] = Off]
  /\ UNCHANGED <<files, keygen, fresh, obtained>>

-----------------------------------------------------------------------------
(* write_ed25519_private_key_pem                                           *)

GenAt(g, pc) == keygen[g].pc = pc
GenGoes(g, pc) == keygen' = [keygen EXCEPT ![g].pc = pc]

\* The key exists before any file does; then mkstemp and chmod.
MakeTemp(g) ==
  /\ GenAt(g, "off") /\ temp[g] = Absent
  /\ \E k \in fresh :
       /\ keygen' = [keygen EXCEPT ![g] = [pc |-> "write", key |-> k]]
       /\ fresh' = fresh \ {k}
  /\ temp' = [temp EXCEPT ![g] = Empty]
  /\ synced' = synced \ {g}
  /\ UNCHANGED <<nodeKey, ownerKey, ownerSynced, node, obtained>>

WriteTemp(g) ==
  /\ GenAt(g, "write")
  /\ temp' = [temp EXCEPT ![g] = keygen[g].key]
  /\ GenGoes(g, "sync")
  /\ UNCHANGED <<nodeKey, ownerKey, synced, ownerSynced, node, fresh, obtained>>

\* Mutant of Sync: there is no fsync.
NoSync(g) ==
  /\ GenAt(g, "sync")
  /\ GenGoes(g, "link")
  /\ UNCHANGED <<files, node, fresh, obtained>>

Sync(g) ==
  /\ GenAt(g, "sync")
  /\ synced' = synced \cup {g}
  /\ GenGoes(g, "link")
  /\ UNCHANGED <<nodeKey, ownerKey, temp, ownerSynced, node, fresh, obtained>>

\* What the finally clause leaves: it removes the temporary file if it can.
Cleaned(g) == {[temp EXCEPT ![g] = Absent], temp}
Failed(g) == IF temp'[g] = Absent THEN "failed" ELSE "leftover"

\* An operation before the link fails.
Fail(g) ==
  /\ keygen[g].pc \in {"write", "sync", "link"}
  /\ temp' \in Cleaned(g)
  /\ GenGoes(g, Failed(g))
  /\ UNCHANGED <<nodeKey, ownerKey, synced, ownerSynced, node, fresh, obtained>>

\* Mutant of Link: os.replace instead of os.link.
Replace(g) ==
  /\ GenAt(g, "link")
  /\ ownerKey' = temp[g] /\ ownerSynced' = (g \in synced)
  /\ GenGoes(g, "unlink") /\ UNCHANGED temp
  /\ UNCHANGED <<nodeKey, synced, node, fresh, obtained>>

\* os.link: it fails if the destination exists.
Link(g) ==
  /\ GenAt(g, "link")
  /\ \/ /\ ownerKey = Absent
        /\ ownerKey' = temp[g] /\ ownerSynced' = (g \in synced)
        /\ GenGoes(g, "unlink") /\ UNCHANGED temp
     \/ /\ ownerKey # Absent
        /\ temp' \in Cleaned(g)
        /\ GenGoes(g, Failed(g)) /\ UNCHANGED <<ownerKey, ownerSynced>>
  /\ UNCHANGED <<nodeKey, synced, node, fresh, obtained>>

\* The key is in place.  If the temporary file cannot be removed keygen
\* reports failure all the same, and tries once more.
Unlink(g) ==
  /\ GenAt(g, "unlink")
  /\ \/ /\ temp' = [temp EXCEPT ![g] = Absent]
        /\ GenGoes(g, "done")
     \/ /\ temp' \in Cleaned(g)
        /\ GenGoes(g, Failed(g))
  /\ UNCHANGED <<nodeKey, ownerKey, synced, ownerSynced, node, fresh, obtained>>

Kill(g) ==
  /\ ~GenAt(g, "off")
  /\ keygen' = [keygen EXCEPT ![g] = Off]
  /\ UNCHANGED <<files, node, fresh, obtained>>

-----------------------------------------------------------------------------
\* What a power loss may leave of a file, by whether it was synced.
Remains(content, safe) ==
  IF content = Absent THEN {Absent}
  ELSE {content, Absent} \cup (IF safe THEN {} ELSE {Empty})

\* Everything stops.  A directory entry is not synced by either function.
PowerLoss ==
  /\ nodeKey' \in Remains(nodeKey, FALSE)
  /\ ownerKey' \in Remains(ownerKey, ownerSynced)
  /\ temp' = [g \in Keygen |-> Absent] /\ synced' = {}
  /\ node' = [n \in Node |-> Off]
  /\ keygen' = [g \in Keygen |-> Off]
  /\ obtained' = IF nodeKey' = Absent THEN {} ELSE obtained
  /\ UNCHANGED <<ownerSynced, fresh>>

Next ==
  \/ \E n \in Node :
       Look(n) \/ Create(n) \/ Write(n) \/ Chmod(n) \/ Read(n) \/ Stop(n)
  \/ \E g \in Keygen :
       \/ MakeTemp(g) \/ WriteTemp(g) \/ Sync(g) \/ Link(g) \/ Unlink(g)
       \/ Fail(g) \/ Kill(g)
  \/ PowerLoss

Spec == Init /\ [][Next]_vars

-----------------------------------------------------------------------------
TypeOK ==
  /\ nodeKey \in Content /\ ownerKey \in Content
  /\ temp \in [Keygen -> Content]
  /\ synced \subseteq Keygen /\ ownerSynced \in BOOLEAN
  /\ node \in [Node -> [pc : {"off", "create", "write", "chmod", "read", "runs"},
                        key : Key \cup {Absent}]]
  /\ keygen \in [Keygen -> [pc : {"off", "write", "sync", "link", "unlink",
                                 "done", "failed", "leftover"},
                            key : Key \cup {Absent}]]
  /\ fresh \subseteq Key /\ obtained \subseteq Key

\* Every start of the node obtains the same key, whichever processes race to
\* create the file or are killed while they do, as long as the file itself
\* does not vanish in a power loss
\* (test_node_identity_private_key_is_persisted_across_restarts; the comment
\* "Avoid overwriting existing keys (including races) with an atomic create").
StartsAgree == Cardinality(obtained) <= 1

\* The destination of keygen never holds an incomplete key, whatever fails or
\* stops in between, a power loss included ("no-partial-output guarantee").
OwnerKeyComplete == ownerKey # Empty

\* When keygen reports success the destination holds the key it generated, and
\* keeps it while others run with the same destination: at most one of them
\* succeeds.
SuccessIsOwnKey ==
  \A g \in Keygen : keygen[g].pc = "done" => ownerKey = keygen[g].key

=============================================================================
