-------------------------- MODULE MessageProtection --------------------------
(***************************************************************************)
(* Encryption and decryption of private messages within one epoch          *)
(* (mls-rs/src/group/ciphertext_processor.rs over secret_tree.rs), by      *)
(* several members that start the epoch with the same secret tree.         *)
(*                                                                         *)
(* The network loses, duplicates and reorders: a message that was sent     *)
(* stays in net and may be opened any number of times, or never.  A member *)
(* persists its tree with write_to_storage and restarts from what it wrote *)
(* last.  A message leaves the device only after the state that produced   *)
(* it was written; this is the application's part of the contract that     *)
(* Group::write_to_storage puts on it.                                     *)
(***************************************************************************)
EXTENDS SecretTree, FiniteSets

CONSTANTS Member,        \* leaf node indexes of the members
          MaxMessages,   \* bound: messages sealed in the whole run
          MaxSteps       \* bound: steps of a ratchet a message is still opened at

ASSUME MemberAssumption ==
    Member \subseteq Leaf /\ MaxMessages \in Nat /\ MaxSteps \in Nat

VARIABLES tree,    \* tree[m]: the member's epoch_secrets.secret_tree
          fresh,   \* fresh[m]: messages sealed since the last write
          ready,   \* ready[m]: messages sealed and written, not sent yet
          net,     \* messages that were sent
          sealed,  \* number of messages sealed so far; names them
          acc,     \* acc[m]: messages that m decrypted (history)
          failed,  \* failed[m]: leaves m got an error for (history)
          disk     \* disk[m]: the stored tree, with acc[m] and failed[m] then

vars == <<tree, fresh, ready, net, sealed, acc, failed, disk>>

Message ==
    [id : 1 .. MaxMessages, sender : Member, type : KeyType,
     generation : Generation, key : Nat]

Stored(m) == [tree |-> EncodeTree(tree[m]), acc |-> acc[m], failed |-> failed[m]]

Init ==
    /\ tree = [m \in Member |-> NewSecretTree]
    /\ fresh = [m \in Member |-> {}]
    /\ ready = [m \in Member |-> {}]
    /\ net = {}
    /\ sealed = 0
    /\ acc = [m \in Member |-> {}]
    /\ failed = [m \in Member |-> {}]
    /\ disk = [m \in Member |->
                  [tree |-> EncodeTree(NewSecretTree), acc |-> {}, failed |-> {}]]

\* CiphertextProcessor::seal: the next key of the member's own leaf.
Seal(m, t) ==
    LET res == NextMessageKey(tree[m], m, t)
    IN  /\ sealed < MaxMessages
        /\ tree' = [tree EXCEPT ![m] = res.known]
        /\ IF res.ok
           THEN /\ fresh' = [fresh EXCEPT ![m] = @ \cup
                     {[id |-> sealed + 1, sender |-> m, type |-> t,
                       generation |-> res.data.generation, key |-> res.data.key]}]
                /\ sealed' = sealed + 1
                /\ UNCHANGED failed
           ELSE /\ failed' = [failed EXCEPT ![m] = @ \cup {m}]
                /\ UNCHANGED <<fresh, sealed>>
        /\ UNCHANGED <<ready, net, acc, disk>>

\* The application hands a message whose state was written to the network.
Send(m) ==
    /\ \E msg \in ready[m] :
          /\ ready' = [ready EXCEPT ![m] = @ \ {msg}]
          /\ net' = net \cup {msg}
    /\ UNCHANGED <<tree, fresh, sealed, acc, failed, disk>>

\* The current secret of a ratchet: once generations wrap, replaying the same
\* messages advances it for ever.
Steps(m, l, t) ==
    IF l \in DOMAIN tree[m] /\ tree[m][l].kind = "Ratchet"
    THEN tree[m][l].ratchets[t].secret ELSE 0

\* CiphertextProcessor::open of a message from another member (one from the
\* member itself is refused, CantProcessMessageFromSelf, before the tree is
\* touched).  With the wrong key the AEAD refuses, after the key was consumed.
Open(m, msg) ==
    LET res == MessageKeyGeneration(tree[m], msg.sender, msg.type, msg.generation)
    IN  /\ msg \in net
        /\ msg.sender # m
        /\ Steps(m, msg.sender, msg.type) <= MaxSteps
        /\ tree' = [tree EXCEPT ![m] = res.known]
        /\ IF res.ok
           THEN /\ acc' = [acc EXCEPT ![m] =
                              @ \cup {x \in {msg} : x.key = res.data.key}]
                /\ UNCHANGED failed
           ELSE /\ failed' = [failed EXCEPT ![m] = @ \cup {msg.sender}]
                /\ UNCHANGED acc
        /\ UNCHANGED <<fresh, ready, net, sealed, disk>>

\* Group::write_to_storage, the part about the current epoch's secret tree.
Write(m) ==
    /\ disk' = [disk EXCEPT ![m] = Stored(m)]
    /\ ready' = [ready EXCEPT ![m] = @ \cup fresh[m]]
    /\ fresh' = [fresh EXCEPT ![m] = {}]
    /\ UNCHANGED <<tree, net, sealed, acc, failed>>

\* The process ends and the group is loaded again from storage.
Reload(m) ==
    /\ tree' = [tree EXCEPT ![m] = DecodeTree(disk[m].tree)]
    /\ acc' = [acc EXCEPT ![m] = disk[m].acc]
    /\ failed' = [failed EXCEPT ![m] = disk[m].failed]
    /\ fresh' = [fresh EXCEPT ![m] = {}]
    /\ UNCHANGED <<ready, net, sealed, disk>>

Next ==
    \E m \in Member :
        \/ \E t \in KeyType : Seal(m, t)
        \/ Send(m)
        \/ \E msg \in net : Open(m, msg)
        \/ Write(m)
        \/ Reload(m)

Spec == Init /\ [][Next]_vars

-----------------------------------------------------------------------------
(* Properties *)

\* Type invariant.
TypeOK ==
    /\ DOMAIN tree = Member /\ DOMAIN disk = Member
    /\ \A m \in Member : /\ KnownSecrets(tree[m])
                         /\ KnownSecrets(DecodeTree(disk[m].tree))
                         /\ disk[m].acc \subseteq Message
                         /\ disk[m].failed \subseteq Leaf
    /\ fresh \in [Member -> SUBSET Message]
    /\ ready \in [Member -> SUBSET Message]
    /\ net \subseteq Message
    /\ sealed \in 0 .. MaxMessages
    /\ acc \in [Member -> SUBSET Message]
    /\ failed \in [Member -> SUBSET Leaf]

\* No two messages that left a device were encrypted with the same key, though
\* the device may have restarted from older state in between, and though
\* generations wrap: next_message_key never yields a key again, and consuming
\* another leaf's path never brings an own, already used secret back.
KeysNeverReused ==
    \A a, b \in net :
        (a.sender = b.sender /\ a.type = b.type /\ a.key = b.key) => a = b

Opens(m, msg) ==
    LET res == MessageKeyGeneration(tree[m], msg.sender, msg.type, msg.generation)
    IN  res.ok /\ res.data.key = msg.key

\* A message that was decrypted once cannot be decrypted again (the deletion of
\* keys in get_message_key), also after the tree was written and read back.
NoSecondDecryption ==
    \A m \in Member : \A msg \in acc[m] : ~Opens(m, msg)

RatchetGeneration(m, l, t) ==
    IF l \in DOMAIN tree[m] /\ tree[m][l].kind = "Ratchet"
    THEN tree[m][l].ratchets[t].generation ELSE 0

\* Any message another member sent opens, in whatever order messages arrive,
\* unless it was opened before, an earlier message of that sender was refused,
\* it is more than MAX_RATCHET_BACK_HISTORY generations ahead, or a generation
\* has wrapped: the sender's, the receiver's, or the limit computed from it.
OutOfOrderTolerated ==
    \A m \in Member : \A msg \in net :
        LET limit == RatchetGeneration(m, msg.sender, msg.type) + MAX_RATCHET_BACK_HISTORY
        IN  /\ msg.sender # m /\ msg \notin acc[m] /\ msg.sender \notin failed[m]
            /\ \A x \in net : x.sender = msg.sender /\ x.type = msg.type => x.key < U32
            /\ Steps(m, msg.sender, msg.type) < U32
            /\ msg.generation <= limit
            /\ limit < U32 \/ msg.generation < RatchetGeneration(m, msg.sender, msg.type)
            => Opens(m, msg)

\* A leaf's keys can still be derived exactly as long as no request for the
\* leaf failed: consuming one leaf's path keeps the siblings' secrets, and a
\* refused generation drops the leaf's ratchets for the rest of the epoch
\* (message_key_generation puts them back on success only).
LeafLostIffRefused ==
    \A m \in Member : \A l \in Leaf :
        (Up[l] \cap DOMAIN tree[m] = {}) <=> l \in failed[m]
=============================================================================
