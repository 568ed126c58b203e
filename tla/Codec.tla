------------------------------- MODULE Codec -------------------------------
(***************************************************************************)
(* The variable-length integers and the length-prefixed collections of the *)
(* wire format (mls-rs-codec/src/varint.rs and iter.rs).  Every message,   *)
(* every stored state and every hash input is built from these: an integer *)
(* with two encodings, or a collection whose end depends on the reader,    *)
(* would let two members disagree on what was signed.                      *)
(*                                                                         *)
(* A reader is a sequence of bytes; decoding says how many it consumed.    *)
(***************************************************************************)
EXTENDS Integers, Sequences, TLAPS

Byte == 0 .. 255

\* VarInt::MAX
MaxVarInt == 64 * 256 * 256 * 256 - 1

VarInt == {n \in Nat : n <= MaxVarInt}

\* count_bytes_to_encode_int: up to 6, up to 14 and up to 30 bits.
CountBytes(n) == IF n < 64 THEN 1 ELSE IF n < 64 * 256 THEN 2 ELSE 4

\* VarInt::mls_encode: the last bytes of the big-endian form, the two highest
\* bits, which are free, telling how many.
EncodeVarInt(n) ==
    CASE CountBytes(n) = 1 -> <<n>>
      [] CountBytes(n) = 2 -> <<64 + n \div 256, n % 256>>
      [] CountBytes(n) = 4 -> <<128 + n \div (256 * 256 * 256), (n \div (256 * 256)) % 256,
                                (n \div 256) % 256, n % 256>>

\* The bytes that the prefix announces, read into one number.
Announced(r) ==
    CASE r[1] \div 64 = 0 -> 1
      [] r[1] \div 64 = 1 -> 2
      [] r[1] \div 64 = 2 -> 4

ReadBytes(r, count) ==
    CASE count = 1 -> r[1] % 64
      [] count = 2 -> (r[1] % 64) * 256 + r[2]
      [] count = 4 -> (((r[1] % 64) * 256 + r[2]) * 256 + r[3]) * 256 + r[4]

\* VarInt::mls_decode: an unknown prefix, the end of the data and an encoding
\* that is longer than necessary are errors.
Decodable(r) ==
    /\ r # <<>> /\ r[1] \div 64 < 3
    /\ Len(r) >= Announced(r)
    /\ CountBytes(ReadBytes(r, Announced(r))) = Announced(r)

DecodeVarInt(r) == [n |-> ReadBytes(r, Announced(r)), used |-> Announced(r)]

\* mls_decode_split_on_collection: the collection is the part of the reader
\* from the byte first up to the byte last.
Splittable(r) ==
    Decodable(r) /\ DecodeVarInt(r).n <= Len(r) - DecodeVarInt(r).used

SplitOnCollection(r) ==
    [first |-> DecodeVarInt(r).used + 1, last |-> DecodeVarInt(r).used + DecodeVarInt(r).n]

StartsWith(r, s) == Len(s) <= Len(r) /\ \A i \in 1 .. Len(s) : r[i] = s[i]

-----------------------------------------------------------------------------
\* count_bytes_to_encode_int, one range of numbers at a time.
LEMMA CountCases == ASSUME NEW n \in VarInt
                    PROVE  /\ n < 64 => CountBytes(n) = 1
                           /\ n >= 64 /\ n < 64 * 256 => CountBytes(n) = 2
                           /\ n >= 64 * 256 => CountBytes(n) = 4
BY DEF CountBytes, VarInt

\* mls_encode gives bytes, and as many as mls_encoded_len announces.
LEMMA EncodeType == ASSUME NEW n \in VarInt
                    PROVE  EncodeVarInt(n) \in Seq(Byte) /\ Len(EncodeVarInt(n)) = CountBytes(n)
<1>1. CASE n < 64
  <2>1. n \in Byte
    BY <1>1 DEF VarInt, Byte
  <2> QED BY <1>1, <2>1, CountCases DEF EncodeVarInt
<1>2. CASE n >= 64 /\ n < 64 * 256
  <2>1. 64 + n \div 256 \in Byte /\ n % 256 \in Byte
    BY <1>2 DEF VarInt, Byte
  <2> QED BY <1>2, <2>1, CountCases DEF EncodeVarInt
<1>3. CASE n >= 64 * 256
  <2>1. /\ 128 + n \div (256 * 256 * 256) \in Byte /\ (n \div (256 * 256)) % 256 \in Byte
        /\ (n \div 256) % 256 \in Byte /\ n % 256 \in Byte
    BY <1>3 DEF VarInt, MaxVarInt, Byte
  <2> QED BY <1>3, <2>1, CountCases DEF EncodeVarInt
<1> QED BY <1>1, <1>2, <1>3 DEF VarInt, MaxVarInt

\* Round trip: from a reader that starts with the encoding of n, mls_decode
\* gets n and consumes exactly that encoding, whatever follows.
THEOREM VarIntRoundTrip ==
    ASSUME NEW n \in VarInt, NEW r \in Seq(Byte), StartsWith(r, EncodeVarInt(n))
    PROVE  Decodable(r) /\ DecodeVarInt(r) = [n |-> n, used |-> CountBytes(n)]
<1>1. CASE n < 64
  <2>1. EncodeVarInt(n) = <<n>> /\ CountBytes(n) = 1
    BY <1>1 DEF EncodeVarInt, CountBytes, VarInt, MaxVarInt
  <2>2. Len(r) >= 1 /\ r[1] = n
    BY <2>1 DEF StartsWith
  <2>3. r[1] \div 64 = 0 /\ r[1] % 64 = n
    BY <1>1, <2>2 DEF VarInt, MaxVarInt
  <2> QED BY <2>1, <2>2, <2>3 DEF Decodable, DecodeVarInt, Announced, ReadBytes
<1>2. CASE n >= 64 /\ n < 64 * 256
  <2>1. EncodeVarInt(n) = <<64 + n \div 256, n % 256>> /\ CountBytes(n) = 2
    BY <1>2 DEF EncodeVarInt, CountBytes, VarInt, MaxVarInt
  <2>2. Len(r) >= 2 /\ r[1] = 64 + n \div 256 /\ r[2] = n % 256
    BY <2>1 DEF StartsWith
  <2>3. r[1] \div 64 = 1 /\ (r[1] % 64) * 256 + r[2] = n
    BY <1>2, <2>2 DEF VarInt, MaxVarInt
  <2> QED BY <2>1, <2>2, <2>3 DEF Decodable, DecodeVarInt, Announced, ReadBytes
<1>3. CASE n >= 64 * 256
  <2>1. /\ EncodeVarInt(n) = <<128 + n \div (256 * 256 * 256), (n \div (256 * 256)) % 256,
                               (n \div 256) % 256, n % 256>>
        /\ CountBytes(n) = 4
    BY <1>3, CountCases DEF EncodeVarInt
  <2>2. /\ Len(r) >= 4
        /\ r[1] = 128 + n \div (256 * 256 * 256) /\ r[2] = (n \div (256 * 256)) % 256
        /\ r[3] = (n \div 256) % 256 /\ r[4] = n % 256
    BY <2>1 DEF StartsWith
  <2>3. r[1] \div 64 = 2 /\ r[1] % 64 = n \div (256 * 256 * 256)
    BY <2>2 DEF VarInt, MaxVarInt
  <2>4. (((n \div (256 * 256 * 256)) * 256 + ((n \div (256 * 256)) % 256)) * 256 + ((n \div 256) % 256)) * 256
            + (n % 256) = n
    BY DEF VarInt, MaxVarInt
  <2> QED BY <2>1, <2>2, <2>3, <2>4 DEF Decodable, DecodeVarInt, Announced, ReadBytes
<1> QED BY <1>1, <1>2, <1>3 DEF VarInt, MaxVarInt

\* What u8::mls_decode returns is a number below 256.
LEMMA ByteIsSmall == ASSUME NEW b \in Byte PROVE b \in Nat /\ b < 256
BY DEF Byte

\* The two highest bits of a byte, and the rest.
LEMMA ByteSplit == ASSUME NEW b \in Nat, b < 256
                   PROVE  /\ b \div 64 \in {0, 1, 2, 3}
                          /\ b % 64 \in Nat /\ b % 64 < 64
                          /\ b = (b \div 64) * 64 + (b % 64)
OBVIOUS

\* One encoding only: whatever mls_decode accepts starts with the encoding of
\* the number that it returns.
THEOREM VarIntCanonical ==
    ASSUME NEW r \in Seq(Byte), Decodable(r)
    PROVE  /\ DecodeVarInt(r).n \in VarInt
           /\ StartsWith(r, EncodeVarInt(DecodeVarInt(r).n))
           /\ DecodeVarInt(r).used = Len(EncodeVarInt(DecodeVarInt(r).n))
<1>0. \A i \in 1 .. Len(r) : r[i] \in Nat /\ r[i] < 256
  BY ByteIsSmall
<1>n. PICK n : n = ReadBytes(r, Announced(r))
  OBVIOUS
<1>d. DecodeVarInt(r).n = n /\ DecodeVarInt(r).used = Announced(r)
  BY <1>n DEF DecodeVarInt
<1>1. Len(r) >= 1 /\ r[1] \div 64 < 3 /\ CountBytes(n) = Announced(r) /\ Len(r) >= Announced(r)
  BY <1>n DEF Decodable
<1>b. PICK b \in Nat : b = r[1] /\ b < 256
  BY <1>0, <1>1
<1>q. PICK q \in {0, 1, 2} : q = r[1] \div 64
  BY <1>b, <1>1, ByteSplit
<1>x. PICK x \in Nat : x = r[1] % 64 /\ x < 64 /\ b = q * 64 + x
  BY <1>b, <1>q, ByteSplit
<1>3. CASE q = 0
  <2>1. Announced(r) = 1
    BY <1>q, <1>3 DEF Announced
  <2>2. n = r[1]
    BY <1>n, <1>x, <1>b, <1>3, <2>1 DEF ReadBytes
  <2>3. n \in VarInt
    BY <1>b, <2>2 DEF VarInt, MaxVarInt
  <2>4. EncodeVarInt(n) = <<r[1]>>
    BY <1>1, <2>1, <2>2 DEF EncodeVarInt
  <2> QED BY <1>1, <1>d, <2>1, <2>3, <2>4 DEF StartsWith
<1>4. CASE q = 1
  <2>1. Announced(r) = 2
    BY <1>q, <1>4 DEF Announced
  <2>2. PICK y \in Nat : y = r[2] /\ y < 256
    BY <1>0, <1>1, <2>1
  <2>3. n = x * 256 + y
    BY <1>n, <1>x, <2>1, <2>2 DEF ReadBytes
  <2>4. n \in VarInt /\ n \div 256 = x /\ n % 256 = y
    <3>1. x < 64 /\ y < 256
      BY <1>x, <2>2
    <3> QED BY <3>1, <2>3 DEF VarInt, MaxVarInt
  <2>5. 64 + x = r[1]
    BY <1>b, <1>x, <1>4
  <2>6. EncodeVarInt(n) = <<r[1], r[2]>>
    BY <1>1, <2>1, <2>2, <2>4, <2>5 DEF EncodeVarInt
  <2> QED BY <1>1, <1>d, <2>1, <2>4, <2>6 DEF StartsWith
<1>5. CASE q = 2
  <2>1. Announced(r) = 4
    BY <1>q, <1>5 DEF Announced
  <2>2. PICK y \in Nat, z \in Nat, u \in Nat :
            /\ y = r[2] /\ z = r[3] /\ u = r[4]
            /\ y < 256 /\ z < 256 /\ u < 256
    <3>1. \A i \in {2, 3, 4} : r[i] \in Nat /\ r[i] < 256
      BY <1>0, <1>1, <2>1
    <3> QED BY <3>1, Zenon
  <2>3. n = ((x * 256 + y) * 256 + z) * 256 + u
    BY <1>n, <1>x, <2>1, <2>2 DEF ReadBytes
  <2>4. /\ n \in VarInt
        /\ n \div (256 * 256 * 256) = x /\ (n \div (256 * 256)) % 256 = y
        /\ (n \div 256) % 256 = z /\ n % 256 = u
    <3>1. x < 64 /\ y < 256 /\ z < 256 /\ u < 256
      BY <1>x, <2>2
    <3> QED BY <3>1, <2>3 DEF VarInt, MaxVarInt
  <2>5. 128 + x = r[1]
    BY <1>b, <1>x, <1>5
  <2>6. EncodeVarInt(n) = <<r[1], r[2], r[3], r[4]>>
    BY <1>1, <2>1, <2>2, <2>4, <2>5 DEF EncodeVarInt
  <2>7. Len(EncodeVarInt(n)) = 4 /\ \A i \in 1 .. 4 : EncodeVarInt(n)[i] = r[i]
    BY <2>6
  <2> QED BY <1>1, <1>d, <2>1, <2>4, <2>7 DEF StartsWith
<1> QED BY <1>3, <1>4, <1>5

\* A collection of length len, written behind its VarInt, is split off again at
\* its own end: what follows it in the reader never becomes part of it.
THEOREM CollectionSplit ==
    ASSUME NEW len \in VarInt, NEW r \in Seq(Byte),
           StartsWith(r, EncodeVarInt(len)), Len(r) >= Len(EncodeVarInt(len)) + len
    PROVE  /\ Splittable(r)
           /\ SplitOnCollection(r) = [first |-> Len(EncodeVarInt(len)) + 1,
                                      last |-> Len(EncodeVarInt(len)) + len]
<1>1. Decodable(r) /\ DecodeVarInt(r) = [n |-> len, used |-> CountBytes(len)]
  BY VarIntRoundTrip
<1>2. Len(EncodeVarInt(len)) = CountBytes(len) /\ CountBytes(len) \in Nat
  BY EncodeType DEF CountBytes
<1> QED BY <1>1, <1>2 DEF Splittable, SplitOnCollection, VarInt
=============================================================================
