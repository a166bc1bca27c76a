-------------------------------- MODULE Ssz --------------------------------
(***************************************************************************)
(* The byte codecs and Merkle roots of the consensus containers: what      *)
(* crates/ssz, crates/types/src/bitfields.rs and the Encode / Decode /     *)
(* HashTreeRoot impls of crates/protocol do.  A container is described by  *)
(* the list of its fields' types; every hand-written impl of the crates    *)
(* follows the one scheme of Encode, Decode and HashTreeRoot below, and    *)
(* its type records the field order and limits the impl is written with.   *)
(*                                                                         *)
(* A byte has ByteBits bits (8 in the code) and the widths are constants,  *)
(* so that the instances checked stay small; SHA-256 is a free pairing.    *)
(***************************************************************************)
EXTENDS Integers, Sequences, SequencesExt

CONSTANTS
    ByteBits,               \* bits of a byte
    U64Len,                 \* bytes of a u64
    OffsetLen,              \* BYTES_PER_LENGTH_OFFSET
    Bytes32Len,             \* bytes of a root, and of a Merkle chunk
    PublicKeyLen,
    SignatureLen,
    MaxAttestations,
    HistoricalRootsLimit,
    ValidatorRegistryLimit,
    MaxRequestBlocks

ASSUME SszAssumption ==
    /\ {ByteBits, U64Len, OffsetLen, PublicKeyLen, SignatureLen} \subseteq Nat \ {0}
    /\ U64Len <= Bytes32Len
    /\ {MaxAttestations, HistoricalRootsLimit, ValidatorRegistryLimit,
        MaxRequestBlocks} \subseteq Nat \ {0}

Base == 2 ^ ByteBits

----------------------------------------------------------------------------
(* Outcomes of a decode: a value, an error, or a panic of the process.     *)

Ok(v) == [tag |-> "ok", v |-> v]

Err == [tag |-> "err", v |-> <<>>]

Panic == [tag |-> "panic", v |-> <<>>]

\* The values of a sequence of outcomes, or its first failure (`?` in order).
All(results) ==
    LET bad == SelectInSeq(results, LAMBDA r : r.tag # "ok")
    IN  IF bad # 0 THEN results[bad]
        ELSE Ok([i \in DOMAIN results |-> results[i].v])

\* bytes[from..to]: a slice outside the buffer is a panic.
Slice(bytes, from, to) ==
    IF from <= to /\ to <= Len(bytes) THEN Ok(SubSeq(bytes, from + 1, to)) ELSE Panic

ToLeBytes(n, width) == [i \in 1..width |-> (n \div Base ^ (i - 1)) % Base]

FromLeBytes(bytes) == FoldRight(LAMBDA b, acc : b + Base * acc, bytes, 0)

----------------------------------------------------------------------------
(* Types.                                                                  *)

U64 == [kind |-> "u64"]

ByteVector(n) == [kind |-> "bytes", len |-> n]

List(t, max) == [kind |-> "list", of |-> t, max |-> max]

Bitlist(limit) == [kind |-> "bits", max |-> limit]

Container(fields) == [kind |-> "container", fields |-> fields]

Bytes32 == ByteVector(Bytes32Len)

Checkpoint == Container(<<Bytes32, U64>>)

AttestationData == Container(<<U64, Checkpoint, Checkpoint, Checkpoint>>)

Attestation == Container(<<U64, AttestationData>>)

SignedAttestation == Container(<<Attestation, ByteVector(SignatureLen)>>)

BlockHeader == Container(<<U64, U64, Bytes32, Bytes32, Bytes32>>)

BlockBody == Container(<<List(Attestation, MaxAttestations)>>)

Block == Container(<<U64, U64, Bytes32, Bytes32, BlockBody>>)

BlockSignatures == List(ByteVector(SignatureLen), MaxAttestations)

BlockWithAttestation == Container(<<Block, Attestation>>)

SignedBlockWithAttestation == Container(<<BlockWithAttestation, BlockSignatures>>)

ProtocolConfig == Container(<<U64>>)

Validator == Container(<<ByteVector(PublicKeyLen), U64>>)

State ==
    Container(<<ProtocolConfig, U64, BlockHeader, Checkpoint, Checkpoint,
                List(Bytes32, HistoricalRootsLimit),
                Bitlist(HistoricalRootsLimit),
                List(Validator, ValidatorRegistryLimit),
                List(Bytes32, HistoricalRootsLimit),
                Bitlist(HistoricalRootsLimit * ValidatorRegistryLimit)>>)

Status == Container(<<Checkpoint, Checkpoint>>)

BlocksByRootRequest == List(Bytes32, MaxRequestBlocks)

BlocksByRootResponse == List(SignedBlockWithAttestation, MaxRequestBlocks)

RECURSIVE IsFixed(_)
IsFixed(t) ==
    CASE t.kind \in {"u64", "bytes"} -> TRUE
      [] t.kind \in {"list", "bits"} -> FALSE
      [] t.kind = "container" -> \A i \in DOMAIN t.fields : IsFixed(t.fields[i])

\* Bytes a field takes in the fixed part: itself, or the offset of its payload.
RECURSIVE Width(_)
Width(t) ==
    CASE t.kind = "u64" -> U64Len
      [] t.kind = "bytes" -> t.len
      [] IsFixed(t) -> FoldLeft(LAMBDA n, f : n + Width(f), 0, t.fields)
      [] OTHER -> OffsetLen

\* Length of the fixed part before field i (of all of it for i = Len + 1).
Start(fields, i) == FoldLeft(LAMBDA n, f : n + Width(f), 0, SubSeq(fields, 1, i - 1))

----------------------------------------------------------------------------
(* Encoding.                                                               *)

\* seq[from..from + n - 1], filled up with zeros (or what `zero` is) at its end.
Window(seq, from, n, zero) ==
    [i \in 1..n |-> IF from + i - 1 <= Len(seq) THEN seq[from + i - 1] ELSE zero]

\* The byte whose bits, least significant first, are bits[from..].
PackByte(bits, from) ==
    FoldRight(LAMBDA b, acc : b + 2 * acc, Window(bits, from, ByteBits, 0), 0)

\* Bitlist::as_bytes: the bits and a delimiter above the last one.
BitlistBytes(bits) ==
    [i \in 1..(Len(bits) \div ByteBits + 1) |->
        PackByte(bits \o <<1>>, (i - 1) * ByteBits + 1)]

\* write_offset saturates at the largest offset.
WriteOffset(n) ==
    ToLeBytes(IF n < Base ^ OffsetLen THEN n ELSE Base ^ OffsetLen - 1, OffsetLen)

\* encode_variable_element_list: an offset per item, then the items.  The panic
\* on an offset beyond its width needs a list of that many bytes.
EncodeVariableElementList(items) ==
    FlattenSeq([i \in DOMAIN items |->
        WriteOffset(Len(items) * OffsetLen + Len(FlattenSeq(SubSeq(items, 1, i - 1))))])
    \o FlattenSeq(items)

RECURSIVE Encode(_, _)
Encode(t, v) ==
    CASE t.kind = "u64" -> ToLeBytes(v, U64Len)
      [] t.kind = "bytes" -> v
      [] t.kind = "bits" -> BitlistBytes(v)
      [] t.kind = "list" ->
            LET items == [i \in DOMAIN v |-> Encode(t.of, v[i])]
            IN  IF IsFixed(t.of) THEN FlattenSeq(items) ELSE EncodeVariableElementList(items)
      [] t.kind = "container" ->
            LET F == t.fields
                tail == [i \in DOMAIN F |-> IF IsFixed(F[i]) THEN <<>> ELSE Encode(F[i], v[i])]
                offset(i) == Start(F, Len(F) + 1)
                             + Len(FlattenSeq(SubSeq(tail, 1, i - 1)))
            IN  FlattenSeq([i \in DOMAIN F |-> IF IsFixed(F[i]) THEN Encode(F[i], v[i])
                                               ELSE WriteOffset(offset(i))])
                \o FlattenSeq(tail)

----------------------------------------------------------------------------
(* Decoding.                                                               *)

HighestBit(byte) == CHOOSE k \in 0..(ByteBits - 1) : 2 ^ k <= byte /\ byte < 2 ^ (k + 1)

\* Bitlist::from_bytes
BitlistFromBytes(limit, bytes) ==
    IF bytes = <<>> \/ bytes[Len(bytes)] = 0 THEN Err
    ELSE LET length == (Len(bytes) - 1) * ByteBits + HighestBit(bytes[Len(bytes)])
             bit(i) == (bytes[(i - 1) \div ByteBits + 1] \div 2 ^ ((i - 1) % ByteBits)) % 2
         IN  IF length > limit THEN Err ELSE Ok([i \in 1..length |-> bit(i)])

\* MUTANT of OffsetsValid: the first offset is not checked.
OffsetsOrdered(offsets, part, length) ==
    /\ \A k \in 2..Len(offsets) : offsets[k - 1] <= offsets[k]
    /\ offsets[Len(offsets)] <= length

\* MUTANT of OffsetsValid: the last offset is not checked.
OffsetsUnbounded(offsets, part, length) ==
    /\ offsets[1] = part
    /\ \A k \in 2..Len(offsets) : offsets[k - 1] <= offsets[k]

\* The checks on the offsets of a variable container, or of a list of variable
\* items, before they are used.
OffsetsValid(offsets, part, length) ==
    /\ offsets[1] = part
    /\ \A k \in 2..Len(offsets) : offsets[k - 1] <= offsets[k]
    /\ offsets[Len(offsets)] <= length

\* A fixed container has one length; a variable one has at least its fixed part.
LengthValid(t, length, part) == IF IsFixed(t) THEN length = part ELSE length >= part

\* The checks of the list decoders on the length of a list.
CountValid(t, length) ==
    /\ length % Width(t.of) = 0
    /\ length \div Width(t.of) <= t.max

\* What decode_variable_element_list asks of the first offset, which tells the
\* number of items.
FirstOffsetValid(t, first, length) ==
    /\ first # 0 /\ first % OffsetLen = 0 /\ first <= length
    /\ first \div OffsetLen <= t.max

RECURSIVE Decode(_, _)

DecodeFixedElementList(t, bytes) ==
    LET w == Width(t.of)
        item(i) == Decode(t.of, SubSeq(bytes, (i - 1) * w + 1, i * w))
    IN  IF CountValid(t, Len(bytes)) THEN All([i \in 1..(Len(bytes) \div w) |-> item(i)]) ELSE Err

DecodeVariableElementList(t, bytes) ==
    LET offset(i) == FromLeBytes(SubSeq(bytes, (i - 1) * OffsetLen + 1, i * OffsetLen))
        count == offset(1) \div OffsetLen
        offsets == [i \in 1..count |-> offset(i)]
        item(i) == LET slice == Slice(bytes, offsets[i],
                                      IF i < count THEN offsets[i + 1] ELSE Len(bytes))
                   IN  IF slice.tag = "ok" THEN Decode(t.of, slice.v) ELSE slice
    IN  IF bytes = <<>> THEN Ok(<<>>)
        ELSE IF Len(bytes) < OffsetLen \/ ~FirstOffsetValid(t, offset(1), Len(bytes)) THEN Err
        ELSE IF ~OffsetsValid(offsets, offset(1), Len(bytes)) THEN Err
        ELSE All([i \in 1..count |-> item(i)])

Decode(t, bytes) ==
    CASE t.kind = "u64" -> IF Len(bytes) = U64Len THEN Ok(FromLeBytes(bytes)) ELSE Err
      [] t.kind = "bytes" -> Ok(bytes)
      [] t.kind = "bits" -> BitlistFromBytes(t.max, bytes)
      [] t.kind = "list" ->
            IF IsFixed(t.of) THEN DecodeFixedElementList(t, bytes)
            ELSE DecodeVariableElementList(t, bytes)
      [] t.kind = "container" ->
            LET F == t.fields
                part == Start(F, Len(F) + 1)
                vars == SelectSeq([i \in DOMAIN F |-> i], LAMBDA i : ~IsFixed(F[i]))
                inline(i) == Slice(bytes, Start(F, i), Start(F, i + 1))
                offsets == [k \in DOMAIN vars |-> FromLeBytes(inline(vars[k]).v)]
                payload(i) ==
                    LET k == SelectInSeq(vars, LAMBDA x : x = i)
                    IN  Slice(bytes, offsets[k],
                              IF k < Len(vars) THEN offsets[k + 1] ELSE Len(bytes))
                field(i) ==
                    LET slice == IF IsFixed(F[i]) THEN inline(i) ELSE payload(i)
                    IN  IF slice.tag = "ok" THEN Decode(F[i], slice.v) ELSE slice
            IN  IF ~LengthValid(t, Len(bytes), part) THEN Err
                ELSE IF vars # <<>> /\ ~OffsetsValid(offsets, part, Len(bytes)) THEN Err
                ELSE All([i \in DOMAIN F |-> field(i)])

----------------------------------------------------------------------------
(* Merkle roots.                                                           *)

\* SHA-256 of two nodes: distinct pairs have distinct hashes.
HashPair(left, right) == <<"hash", left, right>>

ZeroHash == [i \in 1..Bytes32Len |-> 0]

CeilDiv(a, b) == (a + b - 1) \div b

Pack(bytes) ==
    [i \in 1..CeilDiv(Len(bytes), Bytes32Len) |->
        Window(bytes, (i - 1) * Bytes32Len + 1, Bytes32Len, 0)]

U64Chunk(n) == Window(ToLeBytes(n, U64Len), 1, Bytes32Len, 0)

RECURSIVE PowerOfTwoCeil(_)
PowerOfTwoCeil(x) == IF x <= 1 THEN 1 ELSE 2 * PowerOfTwoCeil(CeilDiv(x, 2))

RECURSIVE ZeroTreeRoot(_)
ZeroTreeRoot(width) ==
    IF width <= 1 THEN ZeroHash
    ELSE HashPair(ZeroTreeRoot(width \div 2), ZeroTreeRoot(width \div 2))

\* merkleize_partial: hash the level pairwise until one node is left.
RECURSIVE MerkleizePartial(_, _)
MerkleizePartial(chunks, width) ==
    LET level == Window(chunks, 1, width, ZeroHash)
    IN  IF width <= 1 THEN level[1]
        ELSE MerkleizePartial([i \in 1..(width \div 2) |->
                                   HashPair(level[2 * i - 1], level[2 * i])], width \div 2)

RECURSIVE ExtendWithZeroSiblings(_, _, _, _)
ExtendWithZeroSiblings(root, sibling, width, to) ==
    IF width >= to THEN root
    ELSE ExtendWithZeroSiblings(HashPair(root, sibling), HashPair(sibling, sibling),
                                2 * width, to)

Merkleize(chunks) ==
    IF chunks = <<>> THEN ZeroHash
    ELSE MerkleizePartial(chunks, PowerOfTwoCeil(Len(chunks)))

\* MUTANT of MerkleizeWithLimit: the tree of the chunks there are.
MerkleizeNoLimit(chunks, limit) == Merkleize(chunks)

\* merkleize_with_limit(..).unwrap_or(ZERO_HASH), as both its callers use it.
MerkleizeWithLimit(chunks, limit) ==
    LET n == Len(chunks)
        width == PowerOfTwoCeil(n)
    IN  IF n = 0 THEN ZeroTreeRoot(PowerOfTwoCeil(limit))
        ELSE IF n > limit THEN ZeroHash
        ELSE ExtendWithZeroSiblings(MerkleizePartial(chunks, width), ZeroTreeRoot(width),
                                    width, PowerOfTwoCeil(limit))

MixInLength(root, n) == HashPair(root, U64Chunk(n))

\* The data bytes of a bitlist, without the delimiter.
BitlistData(bits) ==
    [i \in 1..CeilDiv(Len(bits), ByteBits) |-> PackByte(bits, (i - 1) * ByteBits + 1)]

BitlistChunkLimit(limit) == CeilDiv(limit, ByteBits * Bytes32Len)

BitlistHashTreeRoot(limit, bits) ==
    MixInLength(MerkleizeWithLimit(Pack(BitlistData(bits)), BitlistChunkLimit(limit)),
                Len(bits))

RECURSIVE HashTreeRoot(_, _)
HashTreeRoot(t, v) ==
    CASE t.kind = "u64" -> U64Chunk(v)
      [] t.kind = "bytes" -> Merkleize(Pack(v))
      [] t.kind = "bits" -> BitlistHashTreeRoot(t.max, v)
      [] t.kind = "list" ->
            MixInLength(MerkleizeWithLimit([i \in DOMAIN v |-> HashTreeRoot(t.of, v[i])],
                                           t.max), Len(v))
      [] t.kind = "container" ->
            Merkleize([i \in DOMAIN v |-> HashTreeRoot(t.fields[i], v[i])])

----------------------------------------------------------------------------
(* What the roots should be: the complete binary tree over all leaves the  *)
(* type has room for, the unused ones zero, with no shortcut taken.        *)

RECURSIVE Tree(_, _, _)
Tree(leaves, first, width) ==
    IF width = 1 THEN IF first <= Len(leaves) THEN leaves[first] ELSE ZeroHash
    ELSE HashPair(Tree(leaves, first, width \div 2),
                  Tree(leaves, first + width \div 2, width \div 2))

RECURSIVE TreeRoot(_, _)
TreeRoot(t, v) ==
    LET fields == [i \in DOMAIN v |->
                      TreeRoot(IF t.kind = "list" THEN t.of ELSE t.fields[i], v[i])]
    IN  CASE t.kind = "u64" -> U64Chunk(v)
          [] t.kind = "bytes" -> Tree(Pack(v), 1, PowerOfTwoCeil(Len(Pack(v))))
          [] t.kind = "bits" -> HashPair(Tree(Pack(BitlistData(v)), 1,
                                              PowerOfTwoCeil(BitlistChunkLimit(t.max))),
                                         U64Chunk(Len(v)))
          [] t.kind = "list" -> HashPair(Tree(fields, 1, PowerOfTwoCeil(t.max)),
                                         U64Chunk(Len(v)))
          [] t.kind = "container" -> Tree(fields, 1, PowerOfTwoCeil(Len(fields)))
=============================================================================
