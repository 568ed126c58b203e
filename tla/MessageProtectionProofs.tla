----------------------- MODULE MessageProtectionProofs -----------------------
(***************************************************************************)
(* No message key is ever used for two messages, for every tree shape that *)
(* satisfies TreeAssumption, every number of members and messages, and     *)
(* every width of the generation counter.                                  *)
(*                                                                         *)
(* KeysNeverReused is not inductive.  It needs that the keys a member used *)
(* cannot be derived from its tree any more (Spent), in memory and on      *)
(* disk; and Spent survives the expansion of another leaf's path only      *)
(* because no two known nodes lie on one path from a leaf to the root      *)
(* (AtMostOne).                                                            *)
(***************************************************************************)
EXTENDS MessageProtection, TLAPS

AtMostOne(known) ==
    \A l \in Leaf : \A p, q \in Up[l] \cap DOMAIN known : p = q

\* What is known on the path of leaf m yields no key of the messages in S.
Spent(known, m, S) ==
    \A n \in Up[m] \cap DOMAIN known : \A a \in S :
        known[n].kind = "Ratchet" /\ a.key < known[n].ratchets[a.type].secret

-----------------------------------------------------------------------------
(* The tree operations *)

\* A path that is reached from a node is reached from everything below it.
LEMMA ReachedUp ==
    ASSUME NEW known, NEW p \in Node, NEW c \in Node, p \in Up[c], Reached(known, p)
    PROVE  \E q \in Up[c] : q \in DOMAIN known /\ known[q].kind = "Secret"
<1>1. Up[p] \subseteq Up[c] BY TreeAssumption
<1> QED BY <1>1 DEF Reached

\* A node that ConsumePath adds is the child of a reached node of the path.
LEMMA ConsumePathDomain ==
    ASSUME NEW known, NEW l \in Leaf, NEW n \in DOMAIN ConsumePath(known, l)
    PROVE  /\ n \notin Up[l] \ {l}
           /\ \/ n \in DOMAIN known /\ ConsumePath(known, l)[n] = known[n]
              \/ /\ ConsumePath(known, l)[n] = Secret
                 /\ \E p \in Up[l] \ {l} : Reached(known, p) /\ (n = Left[p] \/ n = Right[p])
BY DEF ConsumePath

\* The children of a node of a path lie below it and have one more ancestor.
LEMMA ChildUp ==
    ASSUME NEW l \in Leaf, NEW p \in Up[l] \ {l}, NEW n, n = Left[p] \/ n = Right[p]
    PROVE  /\ p \in Node \ Leaf
           /\ n \in Node
           /\ n \notin Up[p]
           /\ Up[n] = Up[p] \cup {n}
<1>1. l \in Node /\ p \in Node BY TreeAssumption
<1>2. p \notin Leaf BY <1>1, TreeAssumption
<1> QED BY <1>1, <1>2, TreeAssumption

\* Expanding a path (take_leaf_ratchet) keeps the types.
LEMMA ConsumePathType ==
    ASSUME NEW known, NEW l \in Leaf, KnownSecrets(known)
    PROVE  KnownSecrets(ConsumePath(known, l))
<1> DEFINE k == ConsumePath(known, l)
<1>1. k = [x \in DOMAIN k |-> k[x]] BY DEF ConsumePath
<1>2. ASSUME NEW x \in DOMAIN k
      PROVE  x \in Node /\ SecretTreeNode(k[x]) /\ (k[x].kind = "Ratchet" => x \in Leaf)
  <2>1. CASE x \in DOMAIN known /\ k[x] = known[x]
    BY <2>1 DEF KnownSecrets
  <2>2. CASE /\ k[x] = Secret
             /\ \E p \in Up[l] \ {l} : Reached(known, p) /\ (x = Left[p] \/ x = Right[p])
    <3>1. x \in Node BY <2>2, ChildUp
    <3> QED BY <2>2, <3>1 DEF SecretTreeNode, Secret
  <2> QED BY <2>1, <2>2, ConsumePathDomain
<1> QED BY <1>1, <1>2 DEF KnownSecrets

\* Expanding a path leaves the paths of other leaves as they were, unless they
\* pass through the secret that was expanded.
LEMMA ConsumePathNew ==
    ASSUME NEW known, NEW l \in Leaf, NEW m \in Leaf,
           NEW n \in Up[m] \cap DOMAIN ConsumePath(known, l)
    PROVE  \/ n \in DOMAIN known /\ ConsumePath(known, l)[n] = known[n]
           \/ \E q \in Up[m] \cap Up[l] : q \in DOMAIN known /\ known[q].kind = "Secret"
<1> SUFFICES ASSUME NEW p \in Up[l] \ {l}, Reached(known, p), n = Left[p] \/ n = Right[p]
             PROVE  \E q \in Up[m] \cap Up[l] : q \in DOMAIN known /\ known[q].kind = "Secret"
  BY ConsumePathDomain
<1>1. Up[n] = Up[p] \cup {n} /\ n \in Node BY ChildUp
<1>2. m \in Node /\ l \in Node /\ p \in Node BY TreeAssumption
<1>3. Up[n] \subseteq Up[m] BY <1>2, TreeAssumption
<1>4. Up[p] \subseteq Up[m] /\ Up[p] \subseteq Up[l] BY <1>1, <1>2, <1>3, TreeAssumption
<1> QED BY <1>4 DEF Reached

\* Two children of path nodes, both off the path of l, do not lie on the path
\* of one leaf m unless they are the same.
LEMMA OffPathChildren ==
    ASSUME NEW l \in Leaf, NEW m \in Leaf,
           NEW p \in Up[l] \ {l}, NEW q \in Up[l] \ {l}, NEW c, NEW d,
           c = Left[p] \/ c = Right[p], d = Left[q] \/ d = Right[q],
           c \in Up[m], d \in Up[m], c \notin Up[l] \ {l}, d \notin Up[l] \ {l},
           c # l, d # l
    PROVE  c = d
<1>1. /\ Up[c] = Up[p] \cup {c} /\ c \notin Up[p] /\ c \in Node
      /\ Up[d] = Up[q] \cup {d} /\ d \notin Up[q] /\ d \in Node
  BY ChildUp
<1>2. m \in Node /\ l \in Node BY TreeAssumption
<1>3. c \in Up[d] \/ d \in Up[c] BY <1>1, <1>2, TreeAssumption
<1>4. Up[p] \subseteq Up[l] /\ Up[q] \subseteq Up[l] BY <1>2, TreeAssumption
<1>5. CASE c \in Up[d] BY <1>1, <1>4, <1>5
<1>6. CASE d \in Up[c] BY <1>1, <1>4, <1>6
<1> QED BY <1>3, <1>5, <1>6

\* Expanding a path leaves at most one known secret on the path of each leaf.
LEMMA ConsumePathAtMostOne ==
    ASSUME NEW known, NEW l \in Leaf, AtMostOne(known), l \notin DOMAIN known
    PROVE  AtMostOne(ConsumePath(known, l))
<1> DEFINE k == ConsumePath(known, l)
<1> SUFFICES ASSUME NEW m \in Leaf, NEW c \in Up[m] \cap DOMAIN k,
                    NEW d \in Up[m] \cap DOMAIN k, c # d
             PROVE  FALSE
  BY DEF AtMostOne
<1> HIDE DEF k
<1>1. CASE c \in DOMAIN known /\ d \in DOMAIN known
  BY <1>1 DEF AtMostOne
<1>2. \A n \in DOMAIN k : n \notin Up[l] \ {l} BY ConsumePathDomain DEF k
<1>3. ASSUME NEW n \in Up[m] \cap DOMAIN k, NEW o \in Up[m] \cap DOMAIN k,
             n \notin DOMAIN known, o \in DOMAIN known
      PROVE  FALSE
  <2>1. PICK q \in Up[m] \cap Up[l] : q \in DOMAIN known
    BY <1>3, ConsumePathNew DEF k
  <2>2. q = o BY <1>3, <2>1 DEF AtMostOne
  <2> QED BY <1>2, <1>3, <2>1, <2>2
<1>4. CASE c \notin DOMAIN known /\ d \notin DOMAIN known
  <2>1. PICK p \in Up[l] \ {l} : c = Left[p] \/ c = Right[p]
    BY <1>4, ConsumePathDomain DEF k
  <2>2. PICK q \in Up[l] \ {l} : d = Left[q] \/ d = Right[q]
    BY <1>4, ConsumePathDomain DEF k
  <2>3. CASE m = l
    <3>1. c = l /\ d = l BY <1>2, <2>3
    <3> QED BY <3>1
  <2>4. CASE m # l
    <3>1. l \notin Up[m] BY <2>4, TreeAssumption
    <3> QED BY <1>2, <2>1, <2>2, <3>1, OffPathChildren
  <2> QED BY <2>3, <2>4
<1> QED BY <1>1, <1>3, <1>4

\* The map and ratchets that TakeLeafRatchet leaves behind, before anything is
\* put back.
LEMMA TakeLeafRatchetFacts ==
    ASSUME NEW known, NEW l \in Leaf, KnownSecrets(known), AtMostOne(known),
           NEW taken, taken = TakeLeafRatchet(known, l)
    PROVE  /\ KnownSecrets(taken.known)
           /\ AtMostOne(taken.known)
           /\ DOMAIN taken.ratchets = KeyType
           /\ \A t \in KeyType : SecretKeyRatchet(taken.ratchets[t])
           /\ taken.ok => Up[l] \cap DOMAIN taken.known = {}
<1> DEFINE k == IF l \in DOMAIN known THEN known ELSE ConsumePath(known, l)
<1>1. KnownSecrets(k) /\ AtMostOne(k) BY ConsumePathType, ConsumePathAtMostOne
<1>2. /\ taken.known = take_node(k, l)
      /\ taken.ok <=> l \in DOMAIN k
      /\ taken.ratchets = IF l \in DOMAIN k /\ k[l].kind = "Ratchet"
                          THEN k[l].ratchets ELSE NewRatchets
  BY DEF TakeLeafRatchet, TakeLeaf
<1> HIDE DEF k
<1>3. /\ DOMAIN take_node(k, l) = DOMAIN k \ {l}
      /\ \A x \in DOMAIN k \ {l} : take_node(k, l)[x] = k[x]
      /\ take_node(k, l) = [x \in DOMAIN take_node(k, l) |-> take_node(k, l)[x]]
  BY DEF take_node
<1>4. KnownSecrets(taken.known)
  BY <1>1, <1>2, <1>3 DEF KnownSecrets
<1>5. AtMostOne(taken.known)
  BY <1>1, <1>2, <1>3 DEF AtMostOne
<1>6. DOMAIN NewRatchets = KeyType /\ \A t \in KeyType : SecretKeyRatchet(NewRatchets[t])
  <2>1. 0 \in Generation BY RatchetAssumption DEF Generation
  <2>2. DOMAIN NewRatchet.history = {} BY DEF NewRatchet
  <2>3. NewRatchet.history \in [{} -> MessageKeyData] BY DEF NewRatchet
  <2>4. /\ NewRatchet.secret = 0 /\ NewRatchet.generation = 0
        /\ NewRatchet = [secret |-> NewRatchet.secret, generation |-> NewRatchet.generation,
                         history |-> NewRatchet.history]
    BY DEF NewRatchet
  <2>5. SecretKeyRatchet(NewRatchet) BY <2>1, <2>2, <2>3, <2>4 DEF SecretKeyRatchet
  <2> QED BY <2>5 DEF NewRatchets
<1>7. ASSUME l \in DOMAIN k, k[l].kind = "Ratchet"
      PROVE  DOMAIN k[l].ratchets = KeyType /\ \A t \in KeyType : SecretKeyRatchet(k[l].ratchets[t])
  <2>1. SecretTreeNode(k[l]) BY <1>1, <1>7 DEF KnownSecrets
  <2>2. k[l] # Secret BY <1>7 DEF Secret
  <2> QED BY <2>1, <2>2 DEF SecretTreeNode
<1>8. ASSUME l \in DOMAIN k PROVE Up[l] \cap (DOMAIN k \ {l}) = {}
  <2>1. l \in Up[l] BY TreeAssumption
  <2> QED BY <1>1, <1>8, <2>1 DEF AtMostOne
<1> QED BY <1>2, <1>3, <1>4, <1>5, <1>6, <1>7, <1>8

\* Taking a leaf's ratchets brings no used key of member m back.
LEMMA TakeLeafRatchetSpent ==
    ASSUME NEW known, NEW l \in Leaf, NEW m \in Leaf, NEW S,
           KnownSecrets(known), AtMostOne(known), Spent(known, m, S),
           NEW taken, taken = TakeLeafRatchet(known, l)
    PROVE  /\ Spent(taken.known, m, S)
           /\ m = l /\ taken.ok => \A a \in S : a.key < taken.ratchets[a.type].secret
<1> DEFINE k == IF l \in DOMAIN known THEN known ELSE ConsumePath(known, l)
<1>1. Spent(k, m, S)
  <2>1. CASE l \in DOMAIN known BY <2>1
  <2>2. CASE l \notin DOMAIN known
    <3> SUFFICES ASSUME NEW n \in Up[m] \cap DOMAIN ConsumePath(known, l), NEW a \in S
                 PROVE  /\ ConsumePath(known, l)[n].kind = "Ratchet"
                        /\ a.key < ConsumePath(known, l)[n].ratchets[a.type].secret
      BY <2>2 DEF Spent
    <3>1. CASE n \in DOMAIN known /\ ConsumePath(known, l)[n] = known[n]
      BY <3>1 DEF Spent
    <3>2. CASE \E q \in Up[m] \cap Up[l] : q \in DOMAIN known /\ known[q].kind = "Secret"
      BY <3>2 DEF Spent
    <3> QED BY <3>1, <3>2, ConsumePathNew
  <2> QED BY <2>1, <2>2
<1>2. /\ taken.known = take_node(k, l)
      /\ taken.ok <=> l \in DOMAIN k
      /\ taken.ratchets = IF l \in DOMAIN k /\ k[l].kind = "Ratchet"
                          THEN k[l].ratchets ELSE NewRatchets
  BY DEF TakeLeafRatchet, TakeLeaf
<1> HIDE DEF k
<1>3. Spent(taken.known, m, S)
  BY <1>1, <1>2 DEF Spent, take_node
<1>4. ASSUME m = l, taken.ok, NEW a \in S
      PROVE  a.key < taken.ratchets[a.type].secret
  <2>1. l \in Up[m] \cap DOMAIN k BY <1>2, <1>4, TreeAssumption
  <2> QED BY <1>1, <1>2, <2>1 DEF Spent
<1> QED BY <1>3, <1>4

\* Putting advanced ratchets of leaf l back.
LEMMA PutBack ==
    ASSUME NEW known, NEW l \in Leaf, KnownSecrets(known), AtMostOne(known),
           Up[l] \cap DOMAIN known = {},
           NEW rs, DOMAIN rs = KeyType, rs = [t \in KeyType |-> rs[t]],
           \A t \in KeyType : SecretKeyRatchet(rs[t])
    PROVE  /\ KnownSecrets(set_node(known, l, Ratchets(rs)))
           /\ AtMostOne(set_node(known, l, Ratchets(rs)))
           /\ \A m \in Leaf : \A S :
                Spent(known, m, S) /\ (m = l => \A a \in S : a.key < rs[a.type].secret)
                => Spent(set_node(known, l, Ratchets(rs)), m, S)
<1> DEFINE k == set_node(known, l, Ratchets(rs))
<1>1. /\ DOMAIN k = DOMAIN known \cup {l}
      /\ k[l] = Ratchets(rs)
      /\ \A x \in DOMAIN known : x # l => k[x] = known[x]
      /\ k = [x \in DOMAIN k |-> k[x]]
  BY DEF set_node
<1>2. Ratchets(rs).kind = "Ratchet" /\ Ratchets(rs).ratchets = rs BY DEF Ratchets
<1>3. SecretTreeNode(Ratchets(rs)) BY <1>2 DEF SecretTreeNode
<1> HIDE DEF k
<1>4. l \in Node /\ \A m \in Leaf : l \in Up[m] => m = l BY TreeAssumption
<1>5. KnownSecrets(k) BY <1>1, <1>3, <1>4 DEF KnownSecrets
<1>6. AtMostOne(k)
  <2> SUFFICES ASSUME NEW m \in Leaf, NEW p \in Up[m] \cap DOMAIN k, NEW q \in Up[m] \cap DOMAIN k
               PROVE  p = q
    BY DEF AtMostOne
  <2>1. CASE m = l BY <1>1, <2>1
  <2>2. CASE m # l BY <1>1, <1>4, <2>2 DEF AtMostOne
  <2> QED BY <2>1, <2>2
<1>7. ASSUME NEW m \in Leaf, NEW S, Spent(known, m, S),
             m = l => \A a \in S : a.key < rs[a.type].secret
      PROVE  Spent(k, m, S)
  <2>1. CASE m = l BY <1>1, <1>2, <1>7, <2>1 DEF Spent
  <2>2. CASE m # l BY <1>1, <1>4, <1>7, <2>2 DEF Spent
  <2> QED BY <2>1, <2>2
<1> QED BY <1>5, <1>6, <1>7 DEF k

-----------------------------------------------------------------------------
(* The ratchets *)

\* A generation stays one when it wraps.
LEMMA ModGeneration ==
    ASSUME NEW x \in Nat PROVE x % U32 \in Generation
BY RatchetAssumption DEF Generation

\* next_message_key of a ratchet moves it one step forward.
LEMMA RatchetStepFacts ==
    ASSUME NEW r, SecretKeyRatchet(r)
    PROVE  /\ SecretKeyRatchet(RatchetStep(r))
           /\ RatchetStep(r).secret = r.secret + 1
           /\ RatchetKey(r) \in MessageKeyData
<1>1. /\ r.secret \in Nat /\ r.generation \in Generation /\ r.generation \in Nat
  BY RatchetAssumption DEF SecretKeyRatchet, Generation
<1>2. RatchetStep(r) = [secret |-> r.secret + 1, generation |-> (r.generation + 1) % U32,
                        history |-> r.history]
  BY DEF RatchetStep
<1>3. (r.generation + 1) % U32 \in Generation BY <1>1, ModGeneration
<1>4. RatchetKey(r) \in MessageKeyData BY <1>1 DEF RatchetKey, MessageKeyData
<1>5. r.secret + 1 \in Nat BY <1>1
<1>6. SecretKeyRatchet([secret |-> r.secret + 1, generation |-> (r.generation + 1) % U32,
                        history |-> r.history])
  BY <1>3, <1>5 DEF SecretKeyRatchet
<1> QED BY <1>2, <1>4, <1>6

\* get_message_key never moves a ratchet back, whether or not it succeeds.
LEMMA GetMessageKeyFacts ==
    ASSUME NEW r, SecretKeyRatchet(r), NEW g \in Generation
    PROVE  /\ SecretKeyRatchet(GetMessageKey(r, g).ratchet)
           /\ GetMessageKey(r, g).ratchet.secret >= r.secret
<1>1. /\ r.secret \in Nat /\ r.generation \in Generation /\ r.generation \in Nat /\ g \in Nat
  BY RatchetAssumption DEF SecretKeyRatchet, Generation
<1>2. CASE g < r.generation
  <2>1. FromHistory(r, g).ratchet =
          [secret |-> r.secret, generation |-> r.generation,
           history |-> [x \in DOMAIN r.history \ {g} |-> r.history[x]]]
    BY DEF FromHistory, SecretKeyRatchet
  <2>2. SecretKeyRatchet(FromHistory(r, g).ratchet)
    BY <2>1 DEF SecretKeyRatchet
  <2> QED BY <1>1, <1>2, <2>1, <2>2 DEF GetMessageKey
<1>3. CASE ~(g < r.generation) /\ g > MaxGenerationAllowed(r)
  BY <1>1, <1>3 DEF GetMessageKey
<1>4. CASE ~(g < r.generation) /\ ~(g > MaxGenerationAllowed(r))
  <2> DEFINE skipped == r.generation .. g - 1
             last    == r.secret + (g - r.generation)
             new(x)  == [key |-> r.secret + (x - r.generation), generation |-> x]
             h       == [x \in DOMAIN r.history \cup skipped |->
                            IF x \in skipped THEN new(x) ELSE r.history[x]]
  <2>1. SkipTo(r, g).ratchet = [secret |-> last + 1, generation |-> (g + 1) % U32, history |-> h]
    BY DEF SkipTo
  <2>2. last + 1 \in Nat /\ last + 1 >= r.secret /\ (g + 1) % U32 \in Generation
    BY <1>1, <1>4, ModGeneration
  <2>3. skipped \subseteq Generation BY <1>1, RatchetAssumption DEF Generation
  <2>4. \A x \in skipped : new(x) \in MessageKeyData /\ new(x).generation = x
    <3> SUFFICES ASSUME NEW x \in skipped PROVE new(x) \in MessageKeyData /\ new(x).generation = x
      OBVIOUS
    <3>1. x \in Generation /\ r.secret + (x - r.generation) \in Nat
      BY <1>1, RatchetAssumption DEF Generation
    <3> QED BY <3>1 DEF MessageKeyData
  <2>5. \A x \in DOMAIN r.history : r.history[x] \in MessageKeyData /\ r.history[x].generation = x
    BY DEF SecretKeyRatchet
  <2>6. /\ DOMAIN h = DOMAIN r.history \cup skipped
        /\ DOMAIN h \subseteq Generation
        /\ h \in [DOMAIN h -> MessageKeyData]
        /\ \A x \in DOMAIN h : h[x].generation = x
    <3>0. DOMAIN r.history \subseteq Generation BY DEF SecretKeyRatchet
    <3> HIDE DEF new, skipped
    <3> QED BY <2>3, <2>4, <2>5, <3>0
  <2> HIDE DEF h, last, skipped
  <2>7. SecretKeyRatchet(SkipTo(r, g).ratchet)
    BY <2>1, <2>2, <2>6 DEF SecretKeyRatchet
  <2> QED BY <1>1, <1>4, <2>1, <2>2, <2>7 DEF GetMessageKey
<1> QED BY <1>2, <1>3, <1>4

\* SecretTree::next_message_key gives a key beyond all spent ones, and spends it.
LEMMA NextMessageKeyFacts ==
    ASSUME NEW known, NEW m \in Leaf, NEW t \in KeyType, KnownSecrets(known), AtMostOne(known)
    PROVE  LET res == NextMessageKey(known, m, t)
           IN  /\ KnownSecrets(res.known) /\ AtMostOne(res.known)
               /\ res.data \in MessageKeyData
               /\ \A S : Spent(known, m, S) /\ (\A a \in S : a.key \in Nat /\ a.type \in KeyType) =>
                    /\ Spent(res.known, m, S)
                    /\ res.ok =>
                         /\ \A a \in S : a.type = t => a.key < res.data.key
                         /\ \A a : a.key = res.data.key /\ a.type = t => Spent(res.known, m, {a})
<1> DEFINE taken == TakeLeafRatchet(known, m)
           r     == taken.ratchets[t]
           rs    == [taken.ratchets EXCEPT ![t] = RatchetStep(r)]
           res   == NextMessageKey(known, m, t)
<1>1. /\ KnownSecrets(taken.known) /\ AtMostOne(taken.known)
      /\ DOMAIN taken.ratchets = KeyType
      /\ \A u \in KeyType : SecretKeyRatchet(taken.ratchets[u])
      /\ taken.ok => Up[m] \cap DOMAIN taken.known = {}
  BY TakeLeafRatchetFacts
<1>2. /\ (res.ok <=> taken.ok) /\ res.data = RatchetKey(r)
      /\ taken.ok => res.known = set_node(taken.known, m, Ratchets(rs))
      /\ ~taken.ok => res.known = taken.known
  BY DEF NextMessageKey, NextKey, KeyOutcome
<1>3. \A S : Spent(known, m, S) =>
        /\ Spent(taken.known, m, S)
        /\ taken.ok => \A a \in S : a.key < taken.ratchets[a.type].secret
  BY TakeLeafRatchetSpent
<1>4. SecretKeyRatchet(r) BY <1>1
<1>5. /\ SecretKeyRatchet(RatchetStep(r)) /\ RatchetStep(r).secret = r.secret + 1
      /\ RatchetKey(r) \in MessageKeyData /\ RatchetKey(r).key = r.secret /\ r.secret \in Nat
  BY <1>4, RatchetStepFacts DEF SecretKeyRatchet, RatchetKey
<1> HIDE DEF taken, res
<1>6. /\ DOMAIN rs = KeyType /\ rs = [u \in KeyType |-> rs[u]]
      /\ \A u \in KeyType : SecretKeyRatchet(rs[u])
      /\ rs[t].secret = r.secret + 1
      /\ \A u \in KeyType : /\ taken.ratchets[u].secret \in Nat /\ rs[u].secret \in Nat
                            /\ rs[u].secret >= taken.ratchets[u].secret
  <2>1. rs = [u \in KeyType |-> IF u = t THEN RatchetStep(r) ELSE taken.ratchets[u]] BY <1>1
  <2>2. \A u \in KeyType : taken.ratchets[u].secret \in Nat BY <1>1 DEF SecretKeyRatchet
  <2> HIDE DEF rs
  <2> QED BY <1>1, <1>5, <2>1, <2>2
<1> HIDE DEF rs, r
<1>7. CASE ~taken.ok
  BY <1>1, <1>2, <1>3, <1>5, <1>7 DEF res
<1>8. CASE taken.ok
  <2>1. /\ KnownSecrets(res.known) /\ AtMostOne(res.known)
        /\ \A S : Spent(taken.known, m, S) /\ (\A a \in S : a.key < rs[a.type].secret)
                  => Spent(res.known, m, S)
    BY <1>1, <1>2, <1>6, <1>8, PutBack
  <2>2. ASSUME NEW S, Spent(known, m, S), \A a \in S : a.key \in Nat /\ a.type \in KeyType
        PROVE  Spent(res.known, m, S) /\ \A a \in S : a.type = t => a.key < res.data.key
    <3>1. \A a \in S : a.key < taken.ratchets[a.type].secret BY <1>3, <1>8, <2>2
    <3>2. ASSUME NEW a \in S PROVE a.key < rs[a.type].secret
      <4>1. a.key \in Nat /\ a.type \in KeyType BY <2>2
      <4>2. a.key < taken.ratchets[a.type].secret BY <3>1
      <4> QED BY <1>6, <4>1, <4>2
    <3>3. \A a \in S : a.type = t => a.key < r.secret BY <3>1 DEF r
    <3> QED BY <1>2, <1>3, <1>5, <2>1, <2>2, <3>2, <3>3
  <2>3. ASSUME NEW a, a.key = res.data.key, a.type = t PROVE Spent(res.known, m, {a})
    <3>1. Spent(taken.known, m, {a}) BY <1>1, <1>8 DEF Spent
    <3>2. a.key < rs[a.type].secret BY <1>2, <1>5, <1>6, <2>3
    <3>3. \A b \in {a} : b.key < rs[b.type].secret BY <3>2
    <3> QED BY <2>1, <3>1, <3>3
  <2> QED BY <1>2, <1>5, <2>1, <2>2, <2>3 DEF res
<1> QED BY <1>7, <1>8

\* SecretTree::message_key_generation for one leaf brings back no key of another.
LEMMA MessageKeyGenerationFacts ==
    ASSUME NEW known, NEW l \in Leaf, NEW t \in KeyType, NEW g \in Generation,
           KnownSecrets(known), AtMostOne(known)
    PROVE  LET res == MessageKeyGeneration(known, l, t, g)
           IN  /\ KnownSecrets(res.known) /\ AtMostOne(res.known)
               /\ \A m \in Leaf \ {l} : \A S : Spent(known, m, S) => Spent(res.known, m, S)
<1> DEFINE taken == TakeLeafRatchet(known, l)
           got   == GetMessageKey(taken.ratchets[t], g)
           rs    == [taken.ratchets EXCEPT ![t] = got.ratchet]
           res   == MessageKeyGeneration(known, l, t, g)
<1>1. /\ KnownSecrets(taken.known) /\ AtMostOne(taken.known)
      /\ DOMAIN taken.ratchets = KeyType
      /\ \A u \in KeyType : SecretKeyRatchet(taken.ratchets[u])
      /\ taken.ok => Up[l] \cap DOMAIN taken.known = {}
  BY TakeLeafRatchetFacts
<1>2. /\ taken.ok /\ got.ok => res.known = set_node(taken.known, l, Ratchets(rs))
      /\ ~(taken.ok /\ got.ok) => res.known = taken.known
  BY DEF MessageKeyGeneration, KeyOfGeneration, KeyOutcome
<1>3. \A m \in Leaf : \A S : Spent(known, m, S) => Spent(taken.known, m, S)
  BY TakeLeafRatchetSpent
<1>4. SecretKeyRatchet(got.ratchet) BY <1>1, GetMessageKeyFacts
<1> HIDE DEF taken, got, res
<1>5. /\ DOMAIN rs = KeyType /\ rs = [u \in KeyType |-> rs[u]]
      /\ \A u \in KeyType : SecretKeyRatchet(rs[u])
  BY <1>1, <1>4
<1> HIDE DEF rs
<1>6. CASE taken.ok /\ got.ok
  BY <1>1, <1>2, <1>3, <1>5, <1>6, PutBack DEF res
<1>7. CASE ~(taken.ok /\ got.ok)
  BY <1>1, <1>2, <1>3, <1>7 DEF res
<1> QED BY <1>6, <1>7

-----------------------------------------------------------------------------
(* Reading a tree back from storage gives the tree that was written *)

\* A ratchet is decoded as it was encoded: the generation of each skipped key is in it.
LEMMA RatchetRoundTrip ==
    ASSUME NEW r, SecretKeyRatchet(r)
    PROVE  DecodeRatchet(EncodeRatchet(r)) = r
<1> DEFINE items == {r.history[g] : g \in DOMAIN r.history}
           h == [g \in {i.generation : i \in items} |-> CHOOSE i \in items : i.generation = g]
<1>1. \A g \in DOMAIN r.history : r.history[g].generation = g BY DEF SecretKeyRatchet
<1>2. {i.generation : i \in items} = DOMAIN r.history BY <1>1
<1>3. ASSUME NEW g \in DOMAIN r.history PROVE (CHOOSE i \in items : i.generation = g) = r.history[g]
  <2>1. r.history[g] \in items /\ r.history[g].generation = g BY <1>1
  <2>2. \A i \in items : i.generation = g => i = r.history[g] BY <1>1
  <2> QED BY <2>1, <2>2
<1>4. r.history = [g \in DOMAIN r.history |-> r.history[g]] BY DEF SecretKeyRatchet
<1>5. h = r.history BY <1>2, <1>3, <1>4
<1>6. DecodeRatchet(EncodeRatchet(r)) = [secret |-> r.secret, generation |-> r.generation, history |-> h]
  BY DEF DecodeRatchet, EncodeRatchet
<1> HIDE DEF h
<1>7. r = [secret |-> r.secret, generation |-> r.generation, history |-> r.history]
  BY DEF SecretKeyRatchet
<1> QED BY <1>5, <1>6, <1>7

\* What is stored and loaded again is the same tree (MlsEncode, MlsDecode for
\* SecretKeyRatchet: every history value carries the generation that keys it).
LEMMA TreeRoundTrip ==
    ASSUME NEW known, KnownSecrets(known)
    PROVE  DecodeTree(EncodeTree(known)) = known
<1> DEFINE e == EncodeTree(known)
           d == DecodeTree(EncodeTree(known))
<1>1. DOMAIN e = DOMAIN known BY DEF EncodeTree
<1>2. DOMAIN d = DOMAIN known BY <1>1 DEF DecodeTree
<1>3. ASSUME NEW x \in DOMAIN known PROVE d[x] = known[x]
  <2>1. CASE known[x].kind = "Secret"
    <3>1. e[x] = Secret BY <2>1 DEF EncodeTree
    <3>2. d[x] = Secret BY <1>1, <3>1 DEF DecodeTree, Secret
    <3>3. known[x] = Secret
      <4>1. known[x] = Secret \/ known[x] = Ratchets(known[x].ratchets)
        BY DEF KnownSecrets, SecretTreeNode
      <4>2. \A rs : Ratchets(rs).kind = "Ratchet" BY DEF Ratchets
      <4> QED BY <2>1, <4>1, <4>2
    <3> QED BY <3>2, <3>3
  <2>2. CASE known[x].kind # "Secret"
    <3> DEFINE rs == known[x].ratchets
               es == [t \in KeyType |-> EncodeRatchet(rs[t])]
               ds == [t \in KeyType |-> DecodeRatchet(es[t])]
    <3>1. /\ known[x] = Ratchets(rs)
          /\ rs = [t \in KeyType |-> rs[t]]
          /\ \A t \in KeyType : SecretKeyRatchet(rs[t])
      BY <2>2 DEF KnownSecrets, SecretTreeNode, Secret
    <3>2. e[x] = Ratchets(es) BY <2>2 DEF EncodeTree
    <3>3. e[x].kind = "Ratchet" /\ e[x].ratchets = es BY <3>2 DEF Ratchets
    <3>4. d[x] = Ratchets([t \in KeyType |-> DecodeRatchet(e[x].ratchets[t])])
      BY <1>1, <3>3 DEF DecodeTree
    <3>5. d[x] = Ratchets(ds) BY <3>3, <3>4
    <3>6. \A t \in KeyType : ds[t] = rs[t] BY <3>1, RatchetRoundTrip
    <3>7. ds = rs BY <3>1, <3>6
    <3> QED BY <3>1, <3>5, <3>7
  <2> QED BY <2>1, <2>2
<1>4. known = [x \in DOMAIN known |-> known[x]] /\ d = [x \in DOMAIN d |-> d[x]]
  BY DEF KnownSecrets, DecodeTree
<1> QED BY <1>2, <1>3, <1>4

-----------------------------------------------------------------------------
(* The inductive invariant *)

\* Messages of m that left the device or may still leave it, and those that
\* may leave it even after a restart.
Durable(m) == {a \in net : a.sender = m} \cup ready[m]

Mine(m) == Durable(m) \cup fresh[m]

Distinct(S) == \A a, b \in S : (a.type = b.type /\ a.key = b.key) => a = b

MemberInv(m) ==
    /\ AtMostOne(tree[m])
    /\ Spent(tree[m], m, Mine(m))
    /\ AtMostOne(DecodeTree(disk[m].tree))
    /\ Spent(DecodeTree(disk[m].tree), m, Durable(m))
    /\ \A a \in Mine(m) : a.sender = m
    /\ Distinct(Mine(m))

IInv == TypeOK /\ \A m \in Member : MemberInv(m)

\* Members are leaves.
LEMMA MemberIsLeaf == \A m \in Member : m \in Leaf
BY MemberAssumption

\* SecretTree::new satisfies the invariant: only the root is known.
LEMMA NewTreeFacts ==
    KnownSecrets(NewSecretTree) /\ AtMostOne(NewSecretTree)
<1>1. DOMAIN NewSecretTree = {Root} /\ NewSecretTree[Root] = Secret
      /\ NewSecretTree = [x \in DOMAIN NewSecretTree |-> NewSecretTree[x]]
  BY DEF NewSecretTree
<1>2. Secret.kind # "Ratchet" /\ SecretTreeNode(Secret) BY DEF Secret, SecretTreeNode
<1> QED BY <1>1, <1>2, TreeAssumption DEF KnownSecrets, AtMostOne

\* What a member made are messages.
LEMMA MineTyped ==
    ASSUME TypeOK, NEW m \in Member
    PROVE  Mine(m) \subseteq Message
BY DEF TypeOK, Mine, Durable

\* The invariant holds of new trees.
LEMMA InitIInv == Init => IInv
<1> SUFFICES ASSUME Init PROVE IInv OBVIOUS
<1>1. \A m \in Member : DecodeTree(disk[m].tree) = NewSecretTree
  BY NewTreeFacts, TreeRoundTrip DEF Init
<1>2. TypeOK BY <1>1, NewTreeFacts, MemberAssumption DEF Init, TypeOK
<1>3. \A m \in Member : Mine(m) = {} /\ Durable(m) = {} BY DEF Init, Mine, Durable
<1>4. ASSUME NEW m \in Member PROVE MemberInv(m)
  <2>1. tree[m] = NewSecretTree BY DEF Init
  <2> QED BY <1>1, <1>3, <2>1, NewTreeFacts DEF MemberInv, Spent, Distinct
<1> QED BY <1>2, <1>4 DEF IInv

\* MemberInv of a member whose variables and messages a step does not touch.
LEMMA Untouched ==
    ASSUME NEW m \in Member, MemberInv(m),
           tree'[m] = tree[m], disk'[m] = disk[m],
           Mine(m)' = Mine(m), Durable(m)' = Durable(m)
    PROVE  MemberInv(m)'
BY DEF MemberInv

\* CiphertextProcessor::seal keeps the invariant.
LEMMA SealStep ==
    ASSUME IInv, NEW m \in Member, NEW t \in KeyType, Seal(m, t)
    PROVE  IInv'
<1> DEFINE res == NextMessageKey(tree[m], m, t)
           new == [id |-> sealed + 1, sender |-> m, type |-> t,
                   generation |-> res.data.generation, key |-> res.data.key]
           S   == Mine(m)
<1>1. m \in Leaf /\ KnownSecrets(tree[m]) /\ AtMostOne(tree[m]) /\ Spent(tree[m], m, S)
      /\ (\A a \in S : a.sender = m) /\ Distinct(S)
  BY MemberIsLeaf DEF IInv, TypeOK, MemberInv
<1>2. \A a \in S : a.key \in Nat /\ a.type \in KeyType
  BY MineTyped DEF IInv, Message
<1>3. /\ KnownSecrets(res.known) /\ AtMostOne(res.known) /\ res.data \in MessageKeyData
      /\ Spent(res.known, m, S)
      /\ res.ok => \A a \in S : a.type = t => a.key < res.data.key
      /\ res.ok => \A a : a.key = res.data.key /\ a.type = t => Spent(res.known, m, {a})
  BY <1>1, <1>2, NextMessageKeyFacts
<1>4. /\ tree' = [tree EXCEPT ![m] = res.known]
      /\ UNCHANGED <<ready, net, acc, disk>>
      /\ sealed < MaxMessages
      /\ \/ /\ res.ok /\ fresh' = [fresh EXCEPT ![m] = @ \cup {new}]
            /\ sealed' = sealed + 1 /\ UNCHANGED failed
         \/ /\ ~res.ok /\ failed' = [failed EXCEPT ![m] = @ \cup {m}]
            /\ UNCHANGED <<fresh, sealed>>
  BY DEF Seal
<1>5. /\ res.data.key \in Nat /\ res.data.generation \in Generation
  BY <1>3 DEF MessageKeyData
<1> HIDE DEF res
<1>6. /\ sealed \in 0 .. MaxMessages /\ MaxMessages \in Nat
      /\ sealed + 1 \in 1 .. MaxMessages /\ sealed + 1 \in 0 .. MaxMessages
  BY <1>4, MemberAssumption DEF IInv, TypeOK
<1>7. new \in Message /\ new.key = res.data.key /\ new.type = t /\ new.sender = m
  BY <1>5, <1>6 DEF Message
<1> HIDE DEF new
<1>8. TypeOK'
  <2>1. DOMAIN tree' = Member /\ DOMAIN disk' = Member BY <1>4 DEF IInv, TypeOK
  <2>2. \A x \in Member : KnownSecrets(tree'[x]) BY <1>3, <1>4 DEF IInv, TypeOK
  <2>3. \A x \in Member : /\ KnownSecrets(DecodeTree(disk'[x].tree))
                          /\ disk'[x].acc \subseteq Message /\ disk'[x].failed \subseteq Leaf
    BY <1>4 DEF IInv, TypeOK
  <2>4. fresh' \in [Member -> SUBSET Message] BY <1>4, <1>7 DEF IInv, TypeOK
  <2>5. failed' \in [Member -> SUBSET Leaf] BY <1>1, <1>4 DEF IInv, TypeOK
  <2>6. sealed' \in 0 .. MaxMessages BY <1>4, <1>6
  <2>7. ready' \in [Member -> SUBSET Message] /\ net' \subseteq Message
        /\ acc' \in [Member -> SUBSET Message]
    BY <1>4 DEF IInv, TypeOK
  <2> QED BY <2>1, <2>2, <2>3, <2>4, <2>5, <2>6, <2>7 DEF TypeOK
<1>9. ASSUME NEW x \in Member PROVE MemberInv(x)'
  <2>1. MemberInv(x) /\ disk'[x] = disk[x] /\ Durable(x)' = Durable(x)
    BY <1>4 DEF IInv, Durable
  <2>2. CASE x # m
    <3>1. tree'[x] = tree[x] /\ fresh'[x] = fresh[x] BY <1>4, <2>2 DEF IInv, TypeOK
    <3>2. Mine(x)' = Mine(x) BY <2>1, <3>1 DEF Mine
    <3> QED BY <2>1, <3>1, <3>2, Untouched
  <2>3. CASE x = m /\ ~res.ok
    <3>1. tree'[x] = res.known /\ fresh' = fresh BY <1>4, <2>3 DEF IInv, TypeOK
    <3>2. Mine(x)' = Mine(x) BY <2>1, <3>1 DEF Mine
    <3> QED BY <1>3, <2>1, <2>3, <3>1, <3>2 DEF MemberInv
  <2>4. CASE x = m /\ res.ok
    <3>1. tree'[x] = res.known /\ fresh'[x] = fresh[x] \cup {new}
      BY <1>4, <2>4 DEF IInv, TypeOK
    <3>2. Mine(x)' = S \cup {new} BY <2>1, <2>4, <3>1 DEF Mine
    <3>3. Spent(res.known, m, S \cup {new})
      <4>1. Spent(res.known, m, {new}) BY <1>3, <1>7, <2>4
      <4> QED BY <1>3, <4>1 DEF Spent
    <3>4. Distinct(S \cup {new})
      <4>1. \A a \in S : a.type = t => a.key # res.data.key
        BY <1>2, <1>3, <1>5, <2>4
      <4> QED BY <1>1, <1>7, <4>1 DEF Distinct
    <3>5. \A a \in S \cup {new} : a.sender = m BY <1>1, <1>7
    <3> QED BY <1>3, <2>1, <2>4, <3>1, <3>2, <3>3, <3>4, <3>5 DEF MemberInv
  <2> QED BY <2>2, <2>3, <2>4
<1> QED BY <1>8, <1>9 DEF IInv

\* CiphertextProcessor::open keeps the invariant, of the opener and of the others.
LEMMA OpenStep ==
    ASSUME IInv, NEW m \in Member, NEW msg \in net, Open(m, msg)
    PROVE  IInv'
<1> DEFINE res == MessageKeyGeneration(tree[m], msg.sender, msg.type, msg.generation)
<1>1. /\ msg \in Message /\ msg.sender \in Leaf /\ msg.type \in KeyType
      /\ msg.generation \in Generation /\ msg.sender # m /\ m \in Leaf
  BY MemberIsLeaf DEF IInv, TypeOK, Message, Open
<1>2. KnownSecrets(tree[m]) /\ MemberInv(m) BY DEF IInv, TypeOK
<1>3. /\ KnownSecrets(res.known) /\ AtMostOne(res.known)
      /\ Spent(res.known, m, Mine(m))
  BY <1>1, <1>2, MessageKeyGenerationFacts DEF MemberInv
<1>4. /\ tree' = [tree EXCEPT ![m] = res.known]
      /\ \/ /\ acc' = [acc EXCEPT ![m] = @ \cup {x \in {msg} : x.key = res.data.key}]
            /\ UNCHANGED failed
         \/ /\ failed' = [failed EXCEPT ![m] = @ \cup {msg.sender}]
            /\ UNCHANGED acc
      /\ UNCHANGED <<fresh, ready, net, sealed, disk>>
  BY DEF Open
<1> HIDE DEF res
<1>5. TypeOK'
  <2>1. DOMAIN tree' = Member /\ \A x \in Member : KnownSecrets(tree'[x])
    BY <1>3, <1>4 DEF IInv, TypeOK
  <2>2. acc' \in [Member -> SUBSET Message] BY <1>1, <1>4 DEF IInv, TypeOK
  <2>3. failed' \in [Member -> SUBSET Leaf] BY <1>1, <1>4 DEF IInv, TypeOK
  <2> QED BY <1>4, <2>1, <2>2, <2>3 DEF IInv, TypeOK
<1>6. ASSUME NEW x \in Member PROVE MemberInv(x)'
  <2>1. /\ MemberInv(x) /\ disk'[x] = disk[x]
        /\ Durable(x)' = Durable(x) /\ Mine(x)' = Mine(x)
    BY <1>4 DEF IInv, Durable, Mine
  <2>2. CASE x # m
    <3>1. tree'[x] = tree[x] BY <1>4, <2>2 DEF IInv, TypeOK
    <3> QED BY <2>1, <3>1, Untouched
  <2>3. CASE x = m
    <3>1. tree'[x] = res.known BY <1>4, <2>3 DEF IInv, TypeOK
    <3> QED BY <1>3, <2>1, <2>3, <3>1 DEF MemberInv
  <2> QED BY <2>2, <2>3
<1> QED BY <1>5, <1>6 DEF IInv

\* Sending what is ready keeps the invariant: it was spent on disk already.
LEMMA SendStep ==
    ASSUME IInv, NEW m \in Member, Send(m)
    PROVE  IInv'
<1>1. PICK msg \in ready[m] :
        /\ ready' = [ready EXCEPT ![m] = @ \ {msg}]
        /\ net' = net \cup {msg}
  BY DEF Send
<1>2. UNCHANGED <<tree, fresh, sealed, acc, failed, disk>> BY DEF Send
<1>3. msg \in Message /\ msg.sender = m
  BY DEF IInv, TypeOK, MemberInv, Mine, Durable
<1>4. TypeOK' BY <1>1, <1>2, <1>3 DEF IInv, TypeOK
<1>5. ASSUME NEW x \in Member PROVE MemberInv(x)'
  <2>1. Durable(x)' = Durable(x)
    <3>1. CASE x = m BY <1>1, <1>3, <3>1 DEF Durable, IInv, TypeOK
    <3>2. CASE x # m BY <1>1, <1>3, <3>2 DEF Durable, IInv, TypeOK
    <3> QED BY <3>1, <3>2
  <2>2. Mine(x)' = Mine(x) BY <1>2, <2>1 DEF Mine
  <2> QED BY <1>2, <2>1, <2>2, Untouched DEF IInv
<1> QED BY <1>4, <1>5 DEF IInv

\* write_to_storage keeps the invariant: what becomes ready is spent on disk.
LEMMA WriteStep ==
    ASSUME IInv, NEW m \in Member, Write(m)
    PROVE  IInv'
<1>1. /\ disk' = [disk EXCEPT ![m] = Stored(m)]
      /\ ready' = [ready EXCEPT ![m] = @ \cup fresh[m]]
      /\ fresh' = [fresh EXCEPT ![m] = {}]
      /\ UNCHANGED <<tree, net, sealed, acc, failed>>
  BY DEF Write
<1>2. DecodeTree(Stored(m).tree) = tree[m]
  BY TreeRoundTrip DEF Stored, IInv, TypeOK
<1>3. \A x \in Member : disk'[x] = IF x = m THEN Stored(m) ELSE disk[x]
  BY <1>1 DEF IInv, TypeOK
<1>4. TypeOK'
  <2>1. \A x \in Member : /\ KnownSecrets(DecodeTree(disk'[x].tree))
                          /\ disk'[x].acc \subseteq Message /\ disk'[x].failed \subseteq Leaf
    <3>1. /\ KnownSecrets(tree[m]) /\ acc[m] \subseteq Message /\ failed[m] \subseteq Leaf
          /\ Stored(m).acc = acc[m] /\ Stored(m).failed = failed[m]
      BY DEF Stored, IInv, TypeOK
    <3>2. ASSUME NEW x \in Member, x # m
          PROVE  /\ KnownSecrets(DecodeTree(disk'[x].tree))
                 /\ disk'[x].acc \subseteq Message /\ disk'[x].failed \subseteq Leaf
      <4>1. disk'[x] = disk[x]
        BY <1>3, <3>2
      <4> QED BY <4>1 DEF IInv, TypeOK
    <3>3. disk'[m] = Stored(m)
      BY <1>3
    <3> QED BY <1>2, <3>1, <3>2, <3>3
  <2> QED BY <1>1, <2>1 DEF IInv, TypeOK
<1>5. ASSUME NEW x \in Member PROVE MemberInv(x)'
  <2>1. CASE x # m
    <3>1. disk'[x] = disk[x] /\ ready'[x] = ready[x] /\ fresh'[x] = fresh[x]
      BY <1>1, <1>3, <2>1 DEF IInv, TypeOK
    <3>2. Durable(x)' = Durable(x) /\ Mine(x)' = Mine(x) BY <1>1, <3>1 DEF Durable, Mine
    <3> QED BY <1>1, <3>1, <3>2, Untouched DEF IInv
  <2>2. CASE x = m
    <3>1. ready'[x] = ready[x] \cup fresh[x] /\ fresh'[x] = {}
      BY <1>1, <2>2 DEF IInv, TypeOK
    <3>2. Mine(x)' = Mine(x) /\ Durable(x)' = Mine(x) BY <1>1, <3>1 DEF Durable, Mine
    <3>3. DecodeTree(disk'[x].tree) = tree[x] BY <1>2, <1>3, <2>2
    <3> QED BY <1>1, <3>2, <3>3 DEF IInv, MemberInv
  <2> QED BY <2>1, <2>2
<1> QED BY <1>4, <1>5 DEF IInv

\* A restart keeps the invariant: what is forgotten had not left the device.
LEMMA ReloadStep ==
    ASSUME IInv, NEW m \in Member, Reload(m)
    PROVE  IInv'
<1>1. /\ tree' = [tree EXCEPT ![m] = DecodeTree(disk[m].tree)]
      /\ acc' = [acc EXCEPT ![m] = disk[m].acc]
      /\ failed' = [failed EXCEPT ![m] = disk[m].failed]
      /\ fresh' = [fresh EXCEPT ![m] = {}]
      /\ UNCHANGED <<ready, net, sealed, disk>>
  BY DEF Reload
<1>2. TypeOK' BY <1>1 DEF IInv, TypeOK
<1>3. ASSUME NEW x \in Member PROVE MemberInv(x)'
  <2>1. Durable(x)' = Durable(x) BY <1>1 DEF Durable
  <2>2. CASE x # m
    <3>1. tree'[x] = tree[x] /\ fresh'[x] = fresh[x] BY <1>1, <2>2 DEF IInv, TypeOK
    <3>2. Mine(x)' = Mine(x) BY <2>1, <3>1 DEF Mine
    <3> QED BY <1>1, <2>1, <3>1, <3>2, Untouched DEF IInv
  <2>3. CASE x = m
    <3>1. tree'[x] = DecodeTree(disk[x].tree) /\ fresh'[x] = {}
      BY <1>1, <2>3 DEF IInv, TypeOK
    <3>2. Mine(x)' = Durable(x) BY <2>1, <3>1 DEF Mine
    <3>3. Durable(x) \subseteq Mine(x) BY DEF Mine
    <3> QED BY <1>1, <2>1, <3>1, <3>2, <3>3 DEF IInv, MemberInv, Distinct
  <2> QED BY <2>2, <2>3
<1> QED BY <1>2, <1>3 DEF IInv

\* Every step keeps the invariant.
LEMMA NextIInv == IInv /\ [Next]_vars => IInv'
<1> SUFFICES ASSUME IInv, [Next]_vars PROVE IInv' OBVIOUS
<1>1. ASSUME NEW m \in Member, NEW t \in KeyType, Seal(m, t) PROVE IInv' BY <1>1, SealStep
<1>2. ASSUME NEW m \in Member, Send(m) PROVE IInv' BY <1>2, SendStep
<1>3. ASSUME NEW m \in Member, NEW msg \in net, Open(m, msg) PROVE IInv' BY <1>3, OpenStep
<1>4. ASSUME NEW m \in Member, Write(m) PROVE IInv' BY <1>4, WriteStep
<1>5. ASSUME NEW m \in Member, Reload(m) PROVE IInv' BY <1>5, ReloadStep
<1>6. CASE UNCHANGED vars
  <2>1. TypeOK' BY <1>6 DEF vars, IInv, TypeOK
  <2>2. \A x \in Member : MemberInv(x)'
    BY <1>6, Untouched DEF vars, IInv, Mine, Durable
  <2> QED BY <2>1, <2>2 DEF IInv
<1> QED BY <1>1, <1>2, <1>3, <1>4, <1>5, <1>6 DEF Next

\* The variables of MessageProtection keep their types; in particular only a
\* leaf ever holds ratchets, and a stored tree can always be read back.
THEOREM TypeCorrect == Spec => []TypeOK
<1>1. IInv => TypeOK BY DEF IInv
<1> QED BY <1>1, InitIInv, NextIInv, PTL DEF Spec

\* No two messages that left a device are encrypted with the same key:
\* next_message_key and take_leaf_ratchet never make a used key derivable
\* again, whatever messages arrive in between and wherever the member restarts.
THEOREM KeyUse == Spec => []KeysNeverReused
<1>1. IInv => KeysNeverReused
  <2> SUFFICES ASSUME IInv, NEW a \in net, NEW b \in net,
                      a.sender = b.sender, a.type = b.type, a.key = b.key
               PROVE  a = b
    BY DEF KeysNeverReused
  <2>1. a.sender \in Member BY DEF IInv, TypeOK, Message
  <2>2. a \in Mine(a.sender) /\ b \in Mine(a.sender) BY DEF Mine, Durable
  <2> QED BY <2>1, <2>2 DEF IInv, MemberInv, Distinct
<1> QED BY <1>1, InitIInv, NextIInv, PTL DEF Spec
=============================================================================
