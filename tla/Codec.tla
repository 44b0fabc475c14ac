------------------------------- MODULE Codec -------------------------------
(***************************************************************************)
(* What SimpleBitswap makes of the messages of other nodes: the encoders,  *)
(* decoders and prefixToCID of src/src/bitswap-codec.ts.                   *)
(*                                                                         *)
(* A remote node has something to say: wantlists, blocks, and other things *)
(* of the bitswap protocol.  It says it in fields, the way this program    *)
(* encodes or the way other protobuf encoders do, and this node decodes    *)
(* one field of the message after the other and then computes the CIDs of  *)
(* the blocks.  A field is a record of number, wire type and value; how    *)
(* numbers and lengths become bytes is the subject of Framing.             *)
(***************************************************************************)
EXTENDS Naturals, Sequences, SequencesExt, FiniteSetsExt

CONSTANTS
  Cids,       \* records of version, codec and multihash [alg, digest]
  Data,       \* contents of blocks
  NoData,     \* the content of the empty block
  Entries,    \* entries of wantlists, records of cid, cancel and type
  MaxEntries, \* bound: entries of one wantlist
  MaxParts    \* bound: parts of one message

\* The digest of some data, as good as the data themselves.
Sha256(data) == [alg |-> "sha2-256", digest |-> data]

Wantlists == [kind : {"wantlist"}, entries : BoundedSeq(Entries, MaxEntries)]
Blocks    == [kind : {"block"}, cid : Cids, data : Data]
\* Fields this program does not read: the blocks of bitswap 1.0.0, which have only
\* data, block presences, both length-delimited, and pending bytes, a varint.
OldBlocks == [kind : {"oldBlock"}, data : Data]
Others    == OldBlocks \cup [kind : {"presences", "pendingBytes"}]
Parts     == Wantlists \cup Blocks \cup Others

\* What no field of a message holds.
Missing == [kind |-> "missing"]

\* A CIDv0 is always of codec dag-pb; entries may name anything as their CID.
ASSUME CodecAssumption ==
  /\ \A cid \in Cids :
       /\ cid = [version |-> cid.version, codec |-> cid.codec, hash |-> cid.hash]
       /\ cid.version = 0 => cid.codec = "dag-pb"
  /\ \A e \in Entries : e.cancel \in BOOLEAN /\ e.type \in {"block", "have"}
  /\ Missing \notin Data
  /\ MaxEntries \in Nat /\ MaxParts \in Nat

VARIABLES
  said,       \* what the remote has to say, a sequence of Parts
  message,    \* the fields it sends
  offset,     \* fields decodeMessage has read
  wantBlocks, \* decoded.wantBlocks
  blocks,     \* decoded.blocks
  received,   \* CIDs and data of blocks _handleMessage looks up
  phase       \* "decode", "blocks", "done"

vars == <<said, message, offset, wantBlocks, blocks, received, phase>>

-----------------------------------------------------------------------------
(* Encoding.                                                               *)

VarintField(fieldNum, value) == [num |-> fieldNum, wire |-> 0, value |-> value]
LenField(fieldNum, value)    == [num |-> fieldNum, wire |-> 2, value |-> value]

Prefix(cid) == [version |-> cid.version, codec |-> cid.codec, alg |-> cid.hash.alg]

EncodeWantBlock(cid) ==
  LET entry == << LenField(1, cid), VarintField(2, 1),
                  VarintField(4, 0), VarintField(5, 1) >>
  IN  << LenField(1, << LenField(1, entry), VarintField(2, 0) >>) >>

EncodeBlock(cid, data) ==
  << LenField(3, << LenField(1, Prefix(cid)), LenField(2, data) >>) >>

\* Another encoder: fields of default value are written or left out.
Flag(fieldNum, set, explicit) ==
  IF set THEN << VarintField(fieldNum, 1) >>
  ELSE IF explicit THEN << VarintField(fieldNum, 0) >> ELSE << >>

ForeignEntry(e, explicit) ==
  << LenField(1, e.cid), VarintField(2, 1) >>
    \o Flag(3, e.cancel, explicit) \o Flag(4, e.type = "have", explicit)

ForeignPart(part, explicit) ==
  CASE part.kind = "wantlist" ->
         LenField(1, [i \in DOMAIN part.entries |->
                        LenField(1, ForeignEntry(part.entries[i], explicit))]
                     \o Flag(2, FALSE, explicit))
    [] part.kind = "block" ->
         LenField(3, << LenField(1, Prefix(part.cid)) >>
                     \o IF part.data # NoData \/ explicit
                        THEN << LenField(2, part.data) >> ELSE << >>)
    [] part.kind = "oldBlock" -> LenField(2, part.data)
    [] part.kind = "presences" -> LenField(4, << >>)
    [] part.kind = "pendingBytes" -> VarintField(5, 1)

ForeignMessage(parts, explicit) ==
  [i \in DOMAIN parts |-> ForeignPart(parts[i], explicit)]

-----------------------------------------------------------------------------
(* Decoding.                                                               *)

\* A field that occurs more than once has its last value.
LastOf(fields, wire, num, default) ==
  LET at == {i \in DOMAIN fields : fields[i].wire = wire /\ fields[i].num = num}
  IN  IF at = {} THEN default ELSE fields[Max(at)].value

IsCid(bytes) == bytes \in Cids

\* Mutant: cancelled entries are wants.
WantEntryUncancelled(fields) ==
  LET cidBytes == LastOf(fields, 2, 1, Missing)
      wantType == LastOf(fields, 0, 4, 0)
  IN  IF IsCid(cidBytes) /\ wantType = 0 THEN << cidBytes >> ELSE << >>

\* decodeWantEntry, and what decodeWantlist makes of its result.
DecodeWantEntry(fields) ==
  LET cidBytes == LastOf(fields, 2, 1, Missing)
      cancel   == LastOf(fields, 0, 3, 0) # 0
      wantType == LastOf(fields, 0, 4, 0)
  IN  IF IsCid(cidBytes) /\ ~cancel /\ wantType = 0 THEN << cidBytes >> ELSE << >>

DecodeWantlist(fields) ==
  FlattenSeq([i \in DOMAIN fields |->
                IF fields[i].wire = 2 /\ fields[i].num = 1
                THEN DecodeWantEntry(fields[i].value) ELSE << >>])

DecodePayloadBlock(fields) ==
  LET prefix == LastOf(fields, 2, 1, Missing)
      data   == LastOf(fields, 2, 2, Missing)
  IN  IF prefix # Missing /\ data # Missing
      THEN << [prefix |-> prefix, data |-> data] >> ELSE << >>

\* Mutant: every CID is made a CIDv1.
PrefixToCidV1(block) ==
  IF block.prefix.alg # "sha2-256" THEN << >>
  ELSE << [version |-> 1, codec |-> block.prefix.codec, hash |-> Sha256(block.data)] >>

\* Only sha2-256 is supported; a CIDv0 is always of codec dag-pb.
PrefixToCid(block) ==
  IF block.prefix.alg # "sha2-256" THEN << >>
  ELSE << [version |-> block.prefix.version,
           codec |-> IF block.prefix.version = 0 THEN "dag-pb" ELSE block.prefix.codec,
           hash |-> Sha256(block.data)] >>

-----------------------------------------------------------------------------
Init ==
  /\ said \in BoundedSeq(Parts, MaxParts)
  /\ message \in {ForeignMessage(said, explicit) : explicit \in BOOLEAN}
  /\ offset = 0
  /\ wantBlocks = << >>
  /\ blocks = << >>
  /\ received = << >>
  /\ phase = "decode"

\* The remote runs this program.
InitOwn ==
  /\ \/ \E cid \in Cids :
          /\ said = << [kind |-> "wantlist",
                        entries |-> << [cid |-> cid, cancel |-> FALSE, type |-> "block"] >>] >>
          /\ message = EncodeWantBlock(cid)
     \/ \E part \in Blocks :
          /\ said = << part >>
          /\ message = EncodeBlock(part.cid, part.data)
  /\ offset = 0
  /\ wantBlocks = << >>
  /\ blocks = << >>
  /\ received = << >>
  /\ phase = "decode"

\* One round of the loop of decodeMessage over a length-delimited field.
DecodeField ==
  /\ phase = "decode"
  /\ offset < Len(message)
  /\ LET field == message[offset + 1]
     IN  /\ field.wire = 2
         /\ wantBlocks' = IF field.num = 1 THEN wantBlocks \o DecodeWantlist(field.value)
                                           ELSE wantBlocks
         /\ blocks' = IF field.num = 3 THEN blocks \o DecodePayloadBlock(field.value)
                                       ELSE blocks
  /\ offset' = offset + 1
  /\ UNCHANGED <<said, message, received, phase>>

\* The loop ends with the message, or at a field of any other wire type.
DecodeEnds ==
  /\ phase = "decode"
  /\ offset < Len(message) => message[offset + 1].wire # 2
  /\ phase' = "blocks"
  /\ UNCHANGED <<said, message, offset, wantBlocks, blocks, received>>

\* _handleMessage awaits the CID of the next block and looks it up, or skips it.
NextBlock ==
  /\ phase = "blocks"
  /\ blocks # << >>
  /\ LET block == Head(blocks)
         cid == PrefixToCid(block)
     IN  received' = IF cid = << >> THEN received
                     ELSE Append(received, [cid |-> cid[1], data |-> block.data])
  /\ blocks' = Tail(blocks)
  /\ UNCHANGED <<said, message, offset, wantBlocks, phase>>

BlocksEnd ==
  /\ phase = "blocks"
  /\ blocks = << >>
  /\ phase' = "done"
  /\ UNCHANGED <<said, message, offset, wantBlocks, blocks, received>>

Next == DecodeField \/ DecodeEnds \/ NextBlock \/ BlocksEnd

Spec == (Init \/ InitOwn) /\ [][Next]_vars

-----------------------------------------------------------------------------
(* Properties.                                                             *)

\* A varint field of the message stands before something this node cares for:
\* decodeMessage leaves its loop there.
CutShort ==
  \E i, j \in DOMAIN said : i < j /\ said[i].kind = "pendingBytes"
                                  /\ said[j].kind \in {"wantlist", "block"}

\* What the remote asks this node to send: the CIDs of valid entries for blocks
\* that are not cancellations, in order.
WantOf(e) ==
  IF IsCid(e.cid) /\ ~e.cancel /\ e.type = "block" THEN << e.cid >> ELSE << >>

WantsOf(part) ==
  IF part.kind # "wantlist" THEN << >>
  ELSE FlattenSeq([i \in DOMAIN part.entries |-> WantOf(part.entries[i])])

Wanted == FlattenSeq([i \in DOMAIN said |-> WantsOf(said[i])])

\* However wants are spread over wantlists and whichever encoder wrote them, the
\* wants decoded are the wants meant, in order; a message that mixes them with
\* cancellations, have-queries, invalid CIDs or foreign fields changes nothing.
WantsUnderstood ==
  phase = "done" /\ ~CutShort => wantBlocks = Wanted

\* A block whose data are the ones its CID names is looked up under this very
\* CID, of either version, so a want for it is found.  Exceptions are hashes other
\* than sha2-256, an empty block whose data field was left out, and every block in
\* the form of bitswap 1.0.0: the node speaks that version too, but its decoder has
\* no case for the field.  Nothing else is looked up, and whatever CID the sender
\* gave data, not under a wrong one.
BlocksArrive ==
  LET honest(part) == part.kind = "block" /\ part.cid.hash = Sha256(part.data)
      got(part) == [cid |-> part.cid, data |-> part.data]
  IN  phase = "done" /\ ~CutShort =>
        /\ \A i \in DOMAIN said : honest(said[i]) /\ said[i].data # NoData
             => got(said[i]) \in ToSet(received)
        /\ \A r \in ToSet(received) :
             r.cid \in Cids => \E i \in DOMAIN said :
               /\ said[i].kind = "block"
               /\ said[i].data = r.data
               /\ r.cid.hash = Sha256(r.data)
=============================================================================
