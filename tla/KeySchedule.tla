----------------------------- MODULE KeySchedule -----------------------------
(***************************************************************************)
(* The secrets of an epoch (mls-rs/src/group/key_schedule.rs) and what     *)
(* pre-shared keys add to them (mls-rs/src/psk/secret.rs).  A key          *)
(* derivation is the tuple of its inputs: equal outputs have equal inputs. *)
(* A KeySchedule is its init secret and the epoch secret that the others   *)
(* are derived from; the two are apart in the schedule with which an       *)
(* external commit begins, which has nothing but an init secret.           *)
(***************************************************************************)
EXTENDS Integers, Sequences, SequencesExt

\* An empty vector of bytes.
Nothing == <<>>

DeriveSecret(secret, label) == <<label, secret>>

FromEpochSecret(secret) == [init |-> DeriveSecret(secret, "init"), epoch |-> secret]

NewKeySchedule(init) == [init |-> init, epoch |-> Nothing]

\* Randomness is named by what it was drawn for.
FromRandomEpochSecret(id) == FromEpochSecret(<<"random", id>>)

JoinerSecret(schedule, commitSecret, context) ==
    <<"joiner", schedule.init, commitSecret, context>>

PreEpochSecret(pskSecret, joiner) == <<"member", pskSecret, joiner>>

FromJoiner(joiner, context, pskSecret) ==
    FromEpochSecret(<<"epoch", PreEpochSecret(pskSecret, joiner), context>>)

FromKeySchedule(last, commitSecret, context, pskSecret) ==
    FromJoiner(JoinerSecret(last, commitSecret, context), context, pskSecret)

\* The key under which a Welcome seals its GroupInfo.
WelcomeSecret(joiner, pskSecret) == DeriveSecret(PreEpochSecret(pskSecret, joiner), "welcome")

ResumptionSecret(schedule) ==
    IF schedule.epoch = Nothing THEN Nothing ELSE DeriveSecret(schedule.epoch, "resumption")

\* Computed over the confirmed transcript hash.
ConfirmationTag(schedule, transcript) == <<DeriveSecret(schedule.epoch, "confirm"), transcript>>

\* The public key that a GroupInfo shows, and its secret: a key pair is derived
\* from the external secret.
ExternalKeyPair(schedule) == DeriveSecret(schedule.epoch, "external")

\* HPKE: both sides export the same secret.
ExternalInitSecret(keyPair, kemOutput) == <<"exported", keyPair, kemOutput>>

DeriveForExternal(schedule, kemOutput) ==
    NewKeySchedule(ExternalInitSecret(ExternalKeyPair(schedule), kemOutput))

-----------------------------------------------------------------------------
(* Pre-shared keys: an input is [id, psk], an id has a nonce.              *)

\* PskSecret::calculate
PskSecret(inputs) ==
    FoldLeftDomain(LAMBDA secret, i : <<inputs[i], i, Len(inputs), secret>>, Nothing, inputs)
=============================================================================
