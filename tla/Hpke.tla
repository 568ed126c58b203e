-------------------------------- MODULE Hpke --------------------------------
(***************************************************************************)
(* Hybrid public key encryption (mls-rs-crypto-hpke/src/hpke.rs and        *)
(* context.rs), which encrypts path secrets and Welcomes and derives the   *)
(* init secret of an external commit: a sender's and a receiver's context, *)
(* set up apart from each other, with a network in between that loses,     *)
(* repeats and reorders.  Contexts are not cloned.                         *)
(*                                                                         *)
(* Key derivation is symbolic: what is derived is the tuple of its inputs. *)
(* The sequence number is added bit by bit (XOR) to the last bytes of a    *)
(* nonce that has at least as many: a nonce is the pair of the base nonce  *)
(* and the number.                                                         *)
(***************************************************************************)
EXTENDS Integers, Sequences

CONSTANTS Suite,        \* Hpke: KEM, KDF and AEAD
          ExportOnly,   \* the suites without an AEAD
          Shared,       \* what encap and decap return
          Info,
          PskId, PskValue,
          ShortValue,   \* values of fewer than 32 bytes
          Aad, Data,
          MaxSeq        \* u64::MAX

VARIABLES sender, receiver,   \* Context
          wire,               \* ciphertexts that seal has returned
          sealed, opened      \* what was sealed and opened, in order (history)

vars == <<sender, receiver, wire, sealed, opened>>

\* The arguments of setup_sender and setup_receiver, and the secret of the KEM;
\* psk is empty or has one element.
Psk == {<<>>} \cup {<<[id |-> i, value |-> v]>> : i \in PskId, v \in PskValue}

Setup == [suite : Suite, shared : Shared, info : Info, psk : Psk]

CheckPsk(x) == x.psk = <<>> \/ x.psk[1].value \notin ShortValue

BaseMode(x) == IF x.psk = <<>> THEN "Base" ELSE "Psk"

\* psk.unwrap_or_default(): without a PSK, id and value have no bytes.
IdOf(x) == IF x.psk = <<>> THEN <<>> ELSE <<x.psk[1].id>>

ValueOf(x) == IF x.psk = <<>> THEN <<>> ELSE <<x.psk[1].value>>

LabeledExpand(x, label) ==
    LET secret  == <<x.suite, "secret", x.shared, ValueOf(x)>>
        context == <<BaseMode(x), IdOf(x), x.info>>
    IN  <<x.suite, label, secret, context>>

\* key_schedule; an EncryptionContext begins with the sequence number 0.
HpkeKeySchedule(x) ==
    [aead |-> x.suite \notin ExportOnly, key |-> LabeledExpand(x, "key"),
     base |-> LabeledExpand(x, "base_nonce"), exporter |-> LabeledExpand(x, "exp"), seq |-> 0]

ComputeNonce(ctx) == <<ctx.base, ctx.seq>>

\* AeadType::seal and open: opening fails unless key, nonce and aad are those of
\* the sealing.
AeadSeal(ctx, aad, data) == [key |-> ctx.key, nonce |-> ComputeNonce(ctx), aad |-> aad, data |-> data]

AeadOpens(ctx, aad, ct) == ct.key = ctx.key /\ ct.nonce = ComputeNonce(ctx) /\ ct.aad = aad

\* increment_seq fails at the end of the range, and the result of the operation
\* is then not returned.
CanIncrement(ctx) == ctx.seq < MaxSeq

IncrementSeq(ctx) == [ctx EXCEPT !.seq = @ + 1]

\* setup_sender and setup_receiver; each side has arguments of its own, and the
\* receiver's secret is another one if it was given another kem_output.
Init ==
    /\ \E x \in Setup, y \in Setup : /\ CheckPsk(x) /\ CheckPsk(y)
                                     /\ sender = HpkeKeySchedule(x)
                                     /\ receiver = HpkeKeySchedule(y)
    /\ wire = {} /\ sealed = <<>> /\ opened = <<>>

\* ContextS::seal
Seal(aad, data) ==
    /\ sender.aead /\ CanIncrement(sender)
    /\ wire' = wire \cup {AeadSeal(sender, aad, data)}
    /\ sealed' = Append(sealed, <<aad, data>>)
    /\ sender' = IncrementSeq(sender)
    /\ UNCHANGED <<receiver, opened>>

\* ContextR::open, of any ciphertext that was sealed and with any aad; where it
\* fails the context stays as it is.
Open(aad, ct) ==
    /\ receiver.aead /\ CanIncrement(receiver)
    /\ AeadOpens(receiver, aad, ct)
    /\ opened' = Append(opened, <<aad, ct.data>>)
    /\ receiver' = IncrementSeq(receiver)
    /\ UNCHANGED <<sender, wire, sealed>>

Next ==
    \/ \E aad \in Aad, data \in Data : Seal(aad, data)
    \/ \E aad \in Aad, ct \in wire : Open(aad, ct)

Spec == Init /\ [][Next]_vars

-----------------------------------------------------------------------------
(* Properties                                                              *)

\* No two ciphertexts that seal returned have the same key and nonce, also when
\* the sequence numbers are used up (compute_nonce, increment_seq).
NonceUsedOnce ==
    \A c, d \in wire : c.key = d.key /\ c.nonce = d.nonce => c = d

\* Whatever happens to the ciphertexts on their way, the receiver has opened an
\* initial part of what was sealed, in the same order and with the same
\* additional data; the next one is lost until it arrives (open, increment_seq).
OpenedInOrder ==
    /\ Len(opened) <= Len(sealed)
    /\ \A i \in 1 .. Len(opened) : opened[i] = sealed[i]

\* A receiver that opened anything was set up with the sender's suite, KEM
\* secret, info and PSK, and has its exporter secret (key_schedule).
OpenedMeansAgreed ==
    opened # <<>> =>
        \A x, y \in Setup :
            sender.key = LabeledExpand(x, "key") /\ receiver.key = LabeledExpand(y, "key") =>
                x = y /\ sender.exporter = receiver.exporter
=============================================================================
