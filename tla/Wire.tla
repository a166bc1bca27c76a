-------------------------------- MODULE Wire --------------------------------
(***************************************************************************)
(* How a message gets from one writer to one reader as bytes:              *)
(*   - over a request / response stream: the codec of                      *)
(*     runtime/src/p2p/host/behaviour/codec.rs on the frames of            *)
(*     networking/src/frames.rs (length prefix, then Snappy chunks);       *)
(*   - over gossip: networking/src/codecs.rs, and the cache of             *)
(*     decompressed payloads of p2p/host/behaviour.rs that the router of   *)
(*     p2p/gossip/handler.rs takes them from;                              *)
(*   - through the tables of storage/src/redb_store.rs;                    *)
(*   - as one SSZ value: BlocksByRootResponse of networking/messages.rs.   *)
(*                                                                         *)
(* The writer is this code, or (msg.own = FALSE) another one whose bytes   *)
(* differ somewhere.  A chunk is one token of the stream, and a stream     *)
(* may end after any token or inside a chunk.                              *)
(***************************************************************************)
EXTENDS Ssz

CONSTANTS
    Samples,                \* path -> the values written to it
    Published,              \* a block this node publishes itself
    MaxStream,              \* MAX_RPC_STREAM_BYTES
    MaxDecoded,             \* MAX_DECODED_PAYLOAD_BYTES, MAX_SNAPPY_DECOMPRESSED
    MaxBlock,               \* bytes FrameEncoder puts into one chunk
    MaxIterations,          \* MAX_SNAPPY_CHUNK_ITERATIONS
    UvarintMaxLen,
    CacheCap                \* DECOMPRESSED_CACHE_CAP

VARIABLES
    phase,                  \* where the exchange stands
    msg,                    \* what was written: path, values, payloads, own
    stream,                 \* the tokens of the substream
    intact,                 \* the stream arrives as it was sent
    rd,                     \* the locals of the frame reader
    cache,                  \* DECOMPRESSED_CACHE
    out                     \* what the reader returned

vars == <<phase, msg, stream, intact, rd, cache, out>>

Streams == {"status", "request", "response"}

Topics == {"block", "vote"}

Tables == {"blocks", "states", "head"}

Whole == {"bundle"}

ASSUME WireAssumption ==
    /\ DOMAIN Samples = Streams \cup Topics \cup Tables \cup Whole
    /\ Published \in Samples["block"]
    /\ {MaxStream, MaxDecoded, MaxBlock, MaxIterations, UvarintMaxLen, CacheCap}
          \subseteq Nat \ {0}

TypeOf(path) ==
    CASE path = "status" -> Status
      [] path = "request" -> BlocksByRootRequest
      [] path \in {"response", "block", "blocks"} -> SignedBlockWithAttestation
      [] path = "vote" -> SignedAttestation
      [] path = "states" -> State
      [] path = "head" -> Status          \* SSZ(head) ++ SSZ(finalized)
      [] path = "bundle" -> BlocksByRootResponse

IdentifierLen == 6          \* "sNaPpY"

ChecksumLen == 4

HeaderLen == 4

Byte(b) == [tag |-> "byte", byte |-> b]

\* `sound`: the identifier's magic, or the data's checksum, is right.
Chunk(type, len, data) ==
    [tag |-> "chunk", type |-> type, len |-> len, data |-> data, sound |-> TRUE]

Torn == [tag |-> "torn"]

Fresh == [pos |-> 1, remaining |-> 0, seen |-> FALSE, decoded |-> <<>>,
           iterations |-> 0, frames |-> <<>>]

Nothing == [path |-> "none", values |-> <<>>, payloads |-> <<>>, own |-> TRUE]

Init ==
    /\ phase = "idle"
    /\ msg = Nothing
    /\ stream = <<>>
    /\ intact = TRUE
    /\ rd = Fresh
    /\ cache = <<>>
    /\ out = Ok(<<>>)

----------------------------------------------------------------------------
(* Writing.                                                                *)

\* A response is one frame per block, of at most MaxRequestBlocks blocks.
Bodies(path) ==
    IF path = "response" THEN BoundedSeq(Samples[path], MaxRequestBlocks)
    ELSE {<<v>> : v \in Samples[path]}

Write(path, values) ==
    /\ phase = "idle"
    /\ msg' = [path |-> path, values |-> values, own |-> TRUE,
               payloads |-> [i \in DOMAIN values |-> Encode(TypeOf(path), values[i])]]
    /\ phase' = "written"
    /\ UNCHANGED <<stream, intact, rd, cache, out>>

\* Bytes another writer may have in place of these.
Variants(bytes) ==
    {[bytes EXCEPT ![i] = b] : i \in DOMAIN bytes, b \in 0..(Base - 1)}
    \cup {SubSeq(bytes, 1, n) : n \in 0..(Len(bytes) - 1)}
    \cup {bytes \o [i \in 1..n |-> b] : n \in 1..(Width(Attestation)), b \in 0..1}

\* The writer is another one: its last payload differs, or it sends a frame more.
WrittenElsewhere ==
    /\ phase = "written" /\ msg.own /\ msg.payloads # <<>>
    /\ LET last == msg.payloads[Len(msg.payloads)]
           more == IF msg.path \in Streams THEN {Append(msg.payloads, last)} ELSE {}
       IN  \E payloads \in {Append(Front(msg.payloads), v) : v \in Variants(last)} \cup more :
              msg' = [msg EXCEPT !.payloads = payloads, !.own = FALSE]
    /\ UNCHANGED <<phase, stream, intact, rd, cache, out>>

\* 0x80: a byte of a length prefix from here on says that another follows.
Half == Base \div 2

RECURSIVE Uvarint(_)
Uvarint(n) ==
    IF n >= Half THEN <<Byte(Half + (n % Half))>> \o Uvarint(n \div Half) ELSE <<Byte(n)>>

\* The chunks FrameEncoder makes of a payload; a compressed one is shorter.
DataChunks(bytes, compressed) ==
    [i \in 1..CeilDiv(Len(bytes), MaxBlock) |->
        LET data == SubSeq(bytes, (i - 1) * MaxBlock + 1,
                           IF i * MaxBlock < Len(bytes) THEN i * MaxBlock ELSE Len(bytes))
        IN  IF compressed THEN Chunk("compressed", ChecksumLen + Len(data) - 1, data)
            ELSE Chunk("uncompressed", ChecksumLen + Len(data), data)]

Identifier == Chunk("identifier", IdentifierLen, <<>>)

\* write_req_resp_frame; nothing follows the prefix of an empty payload.
Frame(bytes, preamble, compressed) ==
    Uvarint(Len(bytes))
    \o (IF bytes = <<>> THEN <<>> ELSE preamble \o DataChunks(bytes, compressed))

Frames(preamble, compressed) ==
    FlattenSeq([i \in DOMAIN msg.payloads |-> Frame(msg.payloads[i], preamble, compressed)])

\* write_request, write_response, write_framed.
SendStream ==
    /\ phase = "written" /\ msg.path \in Streams
    /\ \E compressed \in BOOLEAN : stream' = Frames(<<Identifier>>, compressed)
    /\ phase' = "open"
    /\ UNCHANGED <<msg, intact, rd, cache, out>>

\* Another writer frames the payloads: no identifier or two, chunks to skip, or
\* a length prefix above the cap or too long.
SendElsewhere ==
    /\ phase = "written" /\ msg.path \in Streams /\ msg.own
    /\ LET padding(n) == [i \in 1..n |-> Chunk("padding", 1, <<>>)]
           preambles == {<<>>, <<Identifier, Identifier>>,
                         <<Identifier, Chunk("reserved", 0, <<>>)>>}
                        \cup {<<Identifier>> \o padding(n) : n \in 1..MaxIterations}
           prefixes == {Uvarint(MaxStream + 1), Uvarint(2 * Half ^ (UvarintMaxLen - 1)),
                        Uvarint(Half ^ UvarintMaxLen)}
       IN  stream' \in {Frames(p, FALSE) : p \in preambles}
                       \cup {p \o Frames(<<Identifier>>, FALSE) : p \in prefixes}
    /\ msg' = [msg EXCEPT !.own = FALSE]
    /\ phase' = "open"
    /\ UNCHANGED <<intact, rd, cache, out>>

\* The stream ends early, between two tokens or inside one, or a chunk is damaged.
Damage ==
    /\ phase = "open" /\ intact /\ msg.own
    /\ \E k \in DOMAIN stream :
          stream' \in {SubSeq(stream, 1, k - 1)}
                      \cup (IF stream[k].tag = "chunk"
                            THEN {SubSeq(stream, 1, k - 1) \o <<Torn>>,
                                  [stream EXCEPT ![k].sound = FALSE]} ELSE {})
    /\ intact' = FALSE
    /\ UNCHANGED <<phase, msg, rd, cache, out>>

----------------------------------------------------------------------------
(* Reading a stream.                                                       *)

Finish(result) ==
    /\ out' = result
    /\ phase' = "done"
    /\ UNCHANGED <<msg, stream, intact, cache>>

WireLen(tokens) ==
    FoldLeft(LAMBDA n, t : n + (IF t.tag = "chunk" THEN HeaderLen + t.len ELSE 1),
             0, tokens)

\* read_to_end: the whole stream, up to its cap.
ReadToEnd ==
    /\ phase = "open"
    /\ IF WireLen(stream) > MaxStream
       THEN Finish(Err) /\ UNCHANGED rd
       ELSE phase' = "prefix" /\ UNCHANGED <<msg, stream, intact, rd, cache, out>>

\* read_uvarint_or_eof: bytes read, and the value, an error or the end.
ReadUvarint(tokens, pos) ==
    LET more(i) == pos + i <= Len(tokens) /\ tokens[pos + i].byte >= Half
        k == CHOOSE i \in 0..UvarintMaxLen :
                 (i = UvarintMaxLen \/ ~more(i)) /\ \A j \in 0..(i - 1) : more(j)
        digit(i) == tokens[pos + i].byte % Half
        value == FoldRight(LAMBDA d, acc : d + Half * acc,
                           [i \in 1..(k + 1) |-> digit(i - 1)], 0)
    IN  CASE k = UvarintMaxLen -> Err
          [] k < UvarintMaxLen /\ pos + k > Len(tokens) ->
                IF k = 0 THEN [tag |-> "eof", v |-> 0] ELSE Err
          [] OTHER ->
                IF k = UvarintMaxLen - 1 /\ tokens[pos + k].byte > 1 THEN Err
                ELSE Ok([length |-> value, pos |-> pos + k + 1])

\* decode_single_frame, decode_blocks_by_root_response: what the frames amount to.
Collect(frames) ==
    IF \/ msg.path # "response" /\ Len(frames) # 1
       \/ msg.path = "response" /\ Len(frames) > MaxRequestBlocks
    THEN Err ELSE Ok(frames)

\* The loop head of decode_frames: the length prefix of the next frame.
ReadPrefix ==
    /\ phase = "prefix"
    /\ LET prefix == ReadUvarint(stream, rd.pos)
       IN  \/ /\ prefix.tag = "err"
              /\ Finish(Err) /\ UNCHANGED rd
           \/ /\ prefix.tag = "eof"
              /\ Finish(Collect(rd.frames)) /\ UNCHANGED rd
           \/ /\ prefix.tag = "ok" /\ prefix.v.length > MaxStream
              /\ Finish(Err) /\ UNCHANGED rd
           \/ /\ prefix.tag = "ok" /\ prefix.v.length <= MaxStream
              /\ rd' = [Fresh EXCEPT !.pos = prefix.v.pos, !.frames = rd.frames,
                                      !.remaining = prefix.v.length]
              /\ phase' = "chunks"
              /\ UNCHANGED <<msg, stream, intact, cache, out>>

\* MUTANT of ReadBudget: the checksum is forgotten.
ReadBudgetBare(remaining) == remaining

\* read_budget: what a chunk may hold when `remaining` bytes are owed.
ReadBudget(remaining) == remaining + ChecksumLen

\* One iteration of read_snappy_frame_exact's loop; FALSE is one of its errors.
ChunkAccepted(token) ==
    /\ rd.iterations < MaxIterations
    /\ token.tag = "chunk"
    /\ token.len <= ReadBudget(rd.remaining)
    /\ CASE token.type = "identifier" -> ~rd.seen /\ token.sound
         [] token.type \in {"compressed", "uncompressed"} ->
                rd.seen /\ token.sound /\ Len(token.data) <= rd.remaining
         [] token.type = "reserved" -> FALSE
         [] token.type = "padding" -> TRUE

ReadChunk ==
    /\ phase = "chunks" /\ rd.remaining > 0
    /\ IF rd.pos > Len(stream) \/ ~ChunkAccepted(stream[rd.pos])
       THEN Finish(Err) /\ UNCHANGED rd
       ELSE /\ rd' = [rd EXCEPT !.pos = @ + 1, !.iterations = @ + 1,
                                !.seen = @ \/ stream[rd.pos].type = "identifier",
                                !.decoded = @ \o stream[rd.pos].data,
                                !.remaining = @ - Len(stream[rd.pos].data)]
            /\ UNCHANGED <<phase, msg, stream, intact, cache, out>>

\* The loop body of decode_frames: decode the payload and go on.
PushFrame ==
    /\ phase = "chunks" /\ rd.remaining = 0
    /\ LET frame == Decode(TypeOf(msg.path), rd.decoded)
       IN  IF frame.tag # "ok"
           THEN Finish(frame) /\ UNCHANGED rd
           ELSE /\ rd' = [rd EXCEPT !.frames = Append(@, frame.v)]
                /\ phase' = "prefix"
                /\ UNCHANGED <<msg, stream, intact, cache, out>>

----------------------------------------------------------------------------
(* Gossip.                                                                 *)

\* The id commits to the topic and the data.
Id(topic, bytes) == <<topic, bytes>>

\* gossipsub_message_id: remember a payload that decompresses, evict the oldest.
Remember(topic, bytes) ==
    IF Len(bytes) > MaxDecoded THEN cache
    ELSE Append(IF Len(cache) >= CacheCap THEN Tail(cache) ELSE cache,
                [id |-> Id(topic, bytes), bytes |-> bytes])

ReceiveGossip ==
    /\ phase = "written" /\ msg.path \in Topics
    /\ cache' = Remember(msg.path, msg.payloads[1])
    /\ phase' = "routing"
    /\ UNCHANGED <<msg, stream, intact, rd, out>>

\* The node publishes a block; its id is computed and never routed.
PublishOwn ==
    /\ phase = "routing"
    /\ cache' = Remember("block", Encode(SignedBlockWithAttestation, Published))
    /\ UNCHANGED <<phase, msg, stream, intact, rd, out>>

\* decode_gossip
DecodeGossip(type, bytes) == IF Len(bytes) > MaxDecoded THEN Err ELSE Decode(type, bytes)

Single(result) == IF result.tag = "ok" THEN Ok(<<result.v>>) ELSE result

\* route_gossipsub_message, forward: the cached payload if there is one.  The
\* admission slot and the channel behind it are P2pService's.
Route ==
    /\ phase = "routing"
    /\ LET bytes == msg.payloads[1]
           hit == SelectInSeq(cache, LAMBDA e : e.id = Id(msg.path, bytes))
       IN  /\ cache' = IF hit = 0 THEN cache ELSE RemoveAt(cache, hit)
           /\ out' = Single(IF hit = 0 THEN DecodeGossip(TypeOf(msg.path), bytes)
                            ELSE Decode(TypeOf(msg.path), cache[hit].bytes))
    /\ phase' = "done"
    /\ UNCHANGED <<msg, stream, intact, rd>>

----------------------------------------------------------------------------
(* Tables.                                                                 *)

\* decode_head re-validates finalized.slot <= head.slot.
HeadOrdered(v) == v[2][2] <= v[1][2]

\* load_block, load_state, load_head of what save_* put there, and from_ssz_bytes
\* of what ssz_append wrote.
Load ==
    /\ phase = "written" /\ msg.path \in Tables \cup Whole
    /\ LET value == Decode(TypeOf(msg.path), msg.payloads[1])
       IN  Finish(IF value.tag = "ok" /\ msg.path = "head" /\ ~HeadOrdered(value.v)
                  THEN Err ELSE Single(value))
    /\ UNCHANGED rd

\* The next exchange; the codecs keep nothing but the cache.
Again ==
    /\ phase = "done"
    /\ phase' = "idle" /\ msg' = Nothing /\ stream' = <<>> /\ intact' = TRUE
    /\ rd' = Fresh /\ out' = Ok(<<>>)
    /\ UNCHANGED cache

Next ==
    \/ \E path \in DOMAIN Samples : \E values \in Bodies(path) : Write(path, values)
    \/ WrittenElsewhere
    \/ SendStream
    \/ SendElsewhere
    \/ Damage
    \/ ReadToEnd
    \/ ReadPrefix
    \/ ReadChunk
    \/ PushFrame
    \/ ReceiveGossip
    \/ PublishOwn
    \/ Route
    \/ Load
    \/ Again

Spec == Init /\ [][Next]_vars

----------------------------------------------------------------------------
(* Properties.                                                             *)

\* What the code's own limits let through.
Fits ==
    CASE msg.path \in Streams -> WireLen(stream) <= MaxStream
      [] msg.path \in Topics -> Len(msg.payloads[1]) <= MaxDecoded
      [] OTHER -> TRUE

\* Every message this code writes is read back as it was, whatever chunks it
\* was cut into, whether a gossip payload comes from the cache or not, and
\* frame after frame: the reader stops exactly at the end of each one
\* (write_req_resp_frame / read_req_resp_frame, encode_gossip / forward,
\* save_* / load_*).
ReadsBack ==
    phase = "done" /\ msg.own /\ intact /\ Fits => out = Ok(msg.values)

\* Bytes are accepted only in the one form the encoder gives the value: what
\* a reader accepts re-encodes to the payloads it was sent, and a stream that
\* ended early yields its first frames, never others (the decoders' length,
\* offset, count and delimiter checks, and the checksums).
AcceptsOnlyCanonical ==
    LET back == [i \in DOMAIN out.v |-> Encode(TypeOf(msg.path), out.v[i])]
    IN  phase = "done" /\ out.tag = "ok" =>
            /\ IsPrefix(back, msg.payloads)
            /\ intact => back = msg.payloads

\* No input makes a decoder index outside its buffer ("the panic is
\* unreachable from a network-supplied buffer", protocol/src/internal.rs:96).
NoPanic == out.tag # "panic"

\* A root is that of the complete tree over every leaf the type has room for,
\* whatever zero subtrees merkleize_with_limit skips, and names one value: of two
\* different values of a type, lists that differ only in trailing zeros included,
\* no two have the same root (mix_in_length).  The two BlocksByRoot lists have
\* no root in the code.
RootIsExact ==
    LET type == TypeOf(msg.path)
    IN  phase = "done" /\ out.tag = "ok" /\ msg.path \notin {"request", "bundle"} =>
            \A i \in DOMAIN out.v :
                LET root == HashTreeRoot(type, out.v[i])
                IN  /\ root = TreeRoot(type, out.v[i])
                    /\ \A w \in Samples[msg.path] :
                          HashTreeRoot(type, w) = root => w = out.v[i]
=============================================================================
