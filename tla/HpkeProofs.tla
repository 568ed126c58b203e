----------------------------- MODULE HpkeProofs -----------------------------
(***************************************************************************)
(* Theorems about Hpke, for all suites, keys, additional data and messages *)
(* and for every end of the range of sequence numbers.                     *)
(***************************************************************************)
EXTENDS Hpke, TLAPS

\* The ciphertext of the i-th message.
Message(i) == [key |-> sender.key, nonce |-> <<sender.base, i - 1>>,
               aad |-> sealed[i][1], data |-> sealed[i][2]]

\* What a Context is made from.
Derived(ctx) ==
    \E x \in Setup : /\ ctx.key = LabeledExpand(x, "key")
                     /\ ctx.base = LabeledExpand(x, "base_nonce")
                     /\ ctx.exporter = LabeledExpand(x, "exp")

Secret(label) == {LabeledExpand(x, label) : x \in Setup}

Context == [aead : BOOLEAN, key : Secret("key"), base : Secret("base_nonce"),
            exporter : Secret("exp"), seq : Nat]

TypeOK ==
    /\ sender \in Context /\ receiver \in Context
    /\ sealed \in Seq(Aad \X Data) /\ opened \in Seq(Aad \X Data)

\* The inductive invariant: sequence numbers count the messages, and what is on
\* the wire are the messages that were sealed, each under its own number.
IInv ==
    /\ TypeOK
    /\ Derived(sender) /\ Derived(receiver)
    /\ sender.seq = Len(sealed) /\ receiver.seq = Len(opened)
    /\ \A c \in wire : \E i \in 1 .. Len(sealed) : c = Message(i)
    /\ OpenedInOrder
    /\ opened # <<>> => receiver.key = sender.key

\* A label and a key give away what they were derived from (key_schedule).
LEMMA ExpandInjective ==
    ASSUME NEW x \in Setup, NEW y \in Setup, NEW l,
           LabeledExpand(x, l) = LabeledExpand(y, l)
    PROVE  x = y
<1>1. x.suite = y.suite /\ x.shared = y.shared /\ x.info = y.info
  BY DEF LabeledExpand
<1>2. BaseMode(x) = BaseMode(y) /\ IdOf(x) = IdOf(y) /\ ValueOf(x) = ValueOf(y)
  BY DEF LabeledExpand
<1>3. x.psk \in Psk /\ y.psk \in Psk
  BY DEF Setup
<1>4. x.psk = y.psk
  <2>1. CASE x.psk = <<>>
    BY <1>2, <2>1 DEF BaseMode
  <2>2. CASE x.psk # <<>>
    <3>1. y.psk # <<>>
      BY <1>2, <2>2 DEF BaseMode
    <3>2. PICK i \in PskId, v \in PskValue : x.psk = <<[id |-> i, value |-> v]>>
      BY <1>3, <2>2 DEF Psk
    <3>3. PICK j \in PskId, w \in PskValue : y.psk = <<[id |-> j, value |-> w]>>
      BY <1>3, <3>1 DEF Psk
    <3>4. IdOf(x) = <<i>> /\ IdOf(y) = <<j>> /\ ValueOf(x) = <<v>> /\ ValueOf(y) = <<w>>
      BY <2>2, <3>1, <3>2, <3>3 DEF IdOf, ValueOf
    <3>5. <<i>> = <<j>> /\ <<v>> = <<w>>
      BY <1>2, <3>4
    <3>6. i = j /\ v = w
      BY <3>5
    <3> QED BY <3>2, <3>3, <3>6
  <2> QED BY <2>1, <2>2
<1> QED BY <1>1, <1>4 DEF Setup

\* Two contexts agree on the key exactly if they were set up with the same
\* suite, KEM secret, info and PSK, and then they agree on everything: an info or
\* a PSK that differs is noticed with the first message (key_schedule).
THEOREM KeyAgreement ==
    ASSUME NEW x \in Setup, NEW y \in Setup
    PROVE  /\ HpkeKeySchedule(x).key = HpkeKeySchedule(y).key <=> x = y
           /\ HpkeKeySchedule(x).exporter = HpkeKeySchedule(y).exporter <=> x = y
BY ExpandInjective DEF HpkeKeySchedule

\* The invariant holds of two new contexts.
LEMMA IInvInit == Init => IInv
<1> SUFFICES ASSUME Init PROVE IInv
  OBVIOUS
<1>1. PICK x \in Setup, y \in Setup : sender = HpkeKeySchedule(x) /\ receiver = HpkeKeySchedule(y)
  BY DEF Init
<1>2. wire = {} /\ sealed = <<>> /\ opened = <<>>
  BY DEF Init
<1>3. TypeOK
  BY <1>1, <1>2 DEF TypeOK, Context, HpkeKeySchedule, Secret
<1>4. Derived(sender) /\ Derived(receiver)
  BY <1>1 DEF Derived, HpkeKeySchedule
<1> QED BY <1>1, <1>2, <1>3, <1>4 DEF IInv, OpenedInOrder, HpkeKeySchedule

\* increment_seq changes the sequence number only.
LEMMA Incremented ==
    ASSUME NEW ctx \in Context
    PROVE  /\ IncrementSeq(ctx) \in Context /\ IncrementSeq(ctx).seq = ctx.seq + 1
           /\ IncrementSeq(ctx).key = ctx.key /\ IncrementSeq(ctx).base = ctx.base
           /\ IncrementSeq(ctx).exporter = ctx.exporter
BY DEF Context, IncrementSeq

\* ContextS::seal keeps the invariant.
LEMMA SealStep ==
    ASSUME IInv, NEW aad \in Aad, NEW data \in Data, Seal(aad, data)
    PROVE  IInv'
<1> USE DEF IInv, TypeOK
<1>1. /\ sender' = IncrementSeq(sender) /\ receiver' = receiver
      /\ sealed' = Append(sealed, <<aad, data>>) /\ opened' = opened
      /\ wire' = wire \cup {AeadSeal(sender, aad, data)}
  BY DEF Seal
<1>2. /\ sender'.key = sender.key /\ sender'.base = sender.base /\ sender'.exporter = sender.exporter
      /\ sender'.seq = sender.seq + 1 /\ sender' \in Context
  BY <1>1, Incremented
<1>3. /\ sealed' \in Seq(Aad \X Data) /\ Len(sealed') = Len(sealed) + 1
      /\ \A i \in 1 .. Len(sealed) : sealed'[i] = sealed[i]
      /\ sealed'[Len(sealed) + 1] = <<aad, data>>
  BY <1>1
<1>4. TypeOK'
  BY <1>1, <1>2, <1>3
<1>5. Derived(sender)' /\ Derived(receiver)'
  BY <1>1, <1>2 DEF Derived
<1>6. \A i \in 1 .. Len(sealed) : Message(i)' = Message(i)
  BY <1>2, <1>3 DEF Message
<1>7. AeadSeal(sender, aad, data) = Message(Len(sealed))'
  <2>1. Len(sealed') - 1 = sender.seq
    BY <1>3
  <2> QED BY <1>2, <1>3, <2>1 DEF AeadSeal, ComputeNonce, Message
<1>8. (\A c \in wire : \E i \in 1 .. Len(sealed) : c = Message(i))'
  <2> SUFFICES ASSUME NEW c \in wire' PROVE \E i \in 1 .. Len(sealed') : c = Message(i)'
    OBVIOUS
  <2>1. CASE c \in wire
    BY <1>3, <1>6, <2>1
  <2>2. CASE c = AeadSeal(sender, aad, data)
    BY <1>3, <1>7, <2>2
  <2> QED BY <1>1, <2>1, <2>2
<1>9. OpenedInOrder'
  BY <1>1, <1>3 DEF OpenedInOrder
<1> QED BY <1>1, <1>2, <1>3, <1>4, <1>5, <1>8, <1>9

\* ContextR::open keeps the invariant: what opens is the next message.
LEMMA OpenStep ==
    ASSUME IInv, NEW aad \in Aad, NEW ct \in wire, Open(aad, ct)
    PROVE  IInv'
<1> USE DEF IInv, TypeOK
<1>1. /\ receiver' = IncrementSeq(receiver) /\ sender' = sender
      /\ opened' = Append(opened, <<aad, ct.data>>) /\ sealed' = sealed /\ wire' = wire
  BY DEF Open
<1>2. /\ receiver'.key = receiver.key /\ receiver'.base = receiver.base
      /\ receiver'.exporter = receiver.exporter
      /\ receiver'.seq = receiver.seq + 1 /\ receiver' \in Context
  BY <1>1, Incremented
<1>3. PICK i \in 1 .. Len(sealed) : ct = Message(i)
  OBVIOUS
<1>4. ct.key = receiver.key /\ ct.nonce = <<receiver.base, receiver.seq>> /\ ct.aad = aad
  BY DEF Open, AeadOpens, ComputeNonce
<1>5. receiver.key = sender.key /\ i - 1 = receiver.seq
  BY <1>3, <1>4 DEF Message
<1>6. i = Len(opened) + 1
  BY <1>5
<1>7. sealed[i] \in Aad \X Data /\ sealed[i] = <<aad, ct.data>>
  <2>1. sealed[i] \in Aad \X Data
    OBVIOUS
  <2>2. sealed[i][1] = aad /\ sealed[i][2] = ct.data
    BY <1>3, <1>4 DEF Message
  <2> QED BY <2>1, <2>2
<1>8. /\ opened' \in Seq(Aad \X Data) /\ Len(opened') = Len(opened) + 1
      /\ \A j \in 1 .. Len(opened) : opened'[j] = opened[j]
      /\ opened'[Len(opened) + 1] = <<aad, ct.data>>
  BY <1>1, <1>7
<1>9. TypeOK'
  BY <1>1, <1>2, <1>8
<1>10. Derived(sender)' /\ Derived(receiver)'
  BY <1>1, <1>2 DEF Derived
<1>11. (\A c \in wire : \E j \in 1 .. Len(sealed) : c = Message(j))'
  BY <1>1, Zenon DEF Message
<1>12. OpenedInOrder'
  <2>1. Len(opened') <= Len(sealed')
    BY <1>1, <1>6, <1>8
  <2>2. ASSUME NEW j \in 1 .. Len(opened') PROVE opened'[j] = sealed'[j]
    <3>1. CASE j \in 1 .. Len(opened)
      BY <1>1, <1>8, <3>1 DEF OpenedInOrder
    <3>2. CASE j = Len(opened) + 1
      BY <1>1, <1>6, <1>7, <1>8, <3>2
    <3> QED BY <1>8, <3>1, <3>2
  <2> QED BY <2>1, <2>2 DEF OpenedInOrder
<1> QED BY <1>1, <1>2, <1>5, <1>8, <1>9, <1>10, <1>11, <1>12

\* The invariant holds in every state.
LEMMA IInvAlways == Spec => []IInv
<1>1. IInv /\ [Next]_vars => IInv'
  <2> SUFFICES ASSUME IInv, [Next]_vars PROVE IInv'
    OBVIOUS
  <2>1. ASSUME NEW aad \in Aad, NEW data \in Data, Seal(aad, data) PROVE IInv'
    BY <2>1, SealStep
  <2>2. ASSUME NEW aad \in Aad, NEW ct \in wire, Open(aad, ct) PROVE IInv'
    BY <2>2, OpenStep
  <2>3. CASE UNCHANGED vars
    BY <2>3 DEF vars, IInv, TypeOK, Derived, Message, OpenedInOrder
  <2> QED BY <2>1, <2>2, <2>3 DEF Next
<1> QED BY <1>1, IInvInit, PTL DEF Spec

\* No two ciphertexts that ContextS::seal returned have the same key and nonce,
\* wherever the range of sequence numbers ends.
THEOREM NonceUse == Spec => []NonceUsedOnce
<1>1. IInv => NonceUsedOnce
  <2> SUFFICES ASSUME IInv, NEW c \in wire, NEW d \in wire, c.nonce = d.nonce PROVE c = d
    BY DEF NonceUsedOnce
  <2>1. PICK i \in 1 .. Len(sealed) : c = Message(i)
    BY DEF IInv
  <2>2. PICK j \in 1 .. Len(sealed) : d = Message(j)
    BY DEF IInv
  <2>3. i - 1 = j - 1 /\ i \in Int /\ j \in Int
    BY <2>1, <2>2 DEF Message, IInv, TypeOK
  <2> QED BY <2>1, <2>2, <2>3
<1> QED BY <1>1, IInvAlways, PTL

\* Over a network that loses, repeats and reorders, the receiver opens an initial
\* part of what was sealed (ContextR::open).
THEOREM InOrder == Spec => []OpenedInOrder
<1>1. IInv => OpenedInOrder
  BY DEF IInv
<1> QED BY <1>1, IInvAlways, PTL

\* A receiver that opened a message was set up as the sender was, and has its
\* exporter secret (setup_sender, setup_receiver, key_schedule).
THEOREM Agreement == Spec => []OpenedMeansAgreed
<1>1. IInv => OpenedMeansAgreed
  <2> SUFFICES ASSUME IInv, opened # <<>>, NEW x \in Setup, NEW y \in Setup,
                      sender.key = LabeledExpand(x, "key"), receiver.key = LabeledExpand(y, "key")
               PROVE  x = y /\ sender.exporter = receiver.exporter
    BY DEF OpenedMeansAgreed
  <2>1. sender.key = receiver.key
    BY DEF IInv
  <2>2. x = y
    BY <2>1, ExpandInjective
  <2>3. PICK u \in Setup : sender.key = LabeledExpand(u, "key") /\ sender.exporter = LabeledExpand(u, "exp")
    BY DEF IInv, Derived
  <2>4. PICK v \in Setup : receiver.key = LabeledExpand(v, "key") /\ receiver.exporter = LabeledExpand(v, "exp")
    BY DEF IInv, Derived
  <2>5. u = v
    BY <2>1, <2>3, <2>4, ExpandInjective
  <2> QED BY <2>2, <2>3, <2>4, <2>5
<1> QED BY <1>1, IInvAlways, PTL
=============================================================================
