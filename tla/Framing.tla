------------------------------ MODULE Framing ------------------------------
(***************************************************************************)
(* How a read loop cuts the bytes of a stream into messages: the buffer of *)
(* SimpleBitswap._readLoop (src/src/bitswap.ts) and the varint length      *)
(* prefixes of src/src/bitswap-codec.ts.  The transport delivers the       *)
(* bytes a peer sent in chunks of any size, each one a Uint8Array or a     *)
(* Uint8ArrayList.                                                         *)
(*                                                                         *)
(* Bytes are numbers below 2 * Radix and a varint digit is a number below  *)
(* Radix, 128 in the code; a small Radix gives small messages prefixes of  *)
(* several bytes.  The code's 32-bit arithmetic differs from the one here  *)
(* only for lengths that no message of MaxMessages below 2^31 bytes has.   *)
(* Buffer positions count from 1, as TLA+ sequences do.                    *)
(***************************************************************************)
EXTENDS Naturals, Sequences, SequencesExt, FiniteSetsExt

CONSTANTS
  Radix,       \* values of one varint digit
  Payloads,    \* messages a peer may send
  MaxMessages, \* bound: messages on the stream
  MaxArrays    \* bound: arrays in a Uint8ArrayList

Bytes == 0 .. 2 * Radix - 1

ASSUME FramingAssumption ==
  /\ Radix \in Nat /\ Radix >= 2
  /\ Payloads \subseteq Seq(Bytes)
  /\ MaxMessages \in Nat
  /\ MaxArrays \in Nat

VARIABLES
  sent,       \* the messages the remote sends on this stream
  wire,       \* their bytes not delivered yet
  buffer,     \* bytes received and not parsed
  offset,     \* position of the parser in the buffer
  phase,      \* "await" a chunk, "parse" the buffer, "trim" it
  handled,    \* the messages given to _handleMessage
  straddled,  \* history: a chunk ended in the middle of a message, after a
              \* complete one
  listed      \* history: a chunk came as a Uint8ArrayList

vars == <<sent, wire, buffer, offset, phase, handled, straddled, listed>>

-----------------------------------------------------------------------------
(* The codec.                                                              *)

\* appendVarint to an empty buffer: least significant digit first, every byte
\* but the last marked.
EncodeVarint[n \in Nat] ==
  IF n < Radix THEN <<n>>
  ELSE <<Radix + (n % Radix)>> \o EncodeVarint[n \div Radix]

EncodeWithLengthPrefix(msg) == EncodeVarint[Len(msg)] \o msg

\* Mutant: the missing byte is not counted.
VarintLengthPresent(buf, at) ==
  1 + Min({i \in at..Len(buf) : buf[i] < Radix} \cup {Len(buf)}) - at

\* How many bytes readVarint reads.  A read past the end of the buffer gives
\* undefined, which ends the varint as an unmarked zero byte would.
VarintLength(buf, at) ==
  1 + Min({i \in at..Len(buf) : buf[i] < Radix} \cup {Len(buf) + 1}) - at

\* What it reads: the digits from the end back to the first one.
VarintValue(buf, at) ==
  LET value[i \in 1 .. Len(buf) + 1] ==
        IF i > Len(buf) THEN 0
        ELSE IF buf[i] < Radix THEN buf[i]
        ELSE (buf[i] % Radix) + Radix * value[i + 1]
  IN  value[at]

-----------------------------------------------------------------------------
Init ==
  /\ sent \in BoundedSeq(Payloads, MaxMessages)
  /\ wire = FlattenSeq([i \in DOMAIN sent |-> EncodeWithLengthPrefix(sent[i])])
  /\ buffer = <<>>
  /\ offset = 1
  /\ phase = "await"
  /\ handled = <<>>
  /\ straddled = FALSE
  /\ listed = FALSE

\* The n bytes of a chunk leave the wire, and what they were converted to is
\* added to the buffer.
Receive(n, chunkBytes) ==
  /\ phase = "await"
  /\ buffer' = buffer \o chunkBytes
  /\ wire' = SubSeq(wire, n + 1, Len(wire))
  /\ offset' = 1
  /\ phase' = "parse"
  /\ UNCHANGED <<sent, handled, straddled>>

\* The for-await gets a Uint8Array of n bytes: it is taken as it is.
Chunk(n) == Receive(n, SubSeq(wire, 1, n)) /\ UNCHANGED listed

\* The ways n bytes fill a list of arrays, empty ones included: where each ends.
Lists(n) ==
  UNION {{ends \in [1..k -> 0..n] :
            /\ ends[k] = n
            /\ \A i \in 2..k : ends[i - 1] <= ends[i]} : k \in 1..MaxArrays}

ArraysOf(ends) ==
  [i \in DOMAIN ends |-> SubSeq(wire, IF i = 1 THEN 1 ELSE ends[i - 1] + 1, ends[i])]

\* Spreading a list gives its arrays, and each is converted to one number: the
\* byte of an array that has just one, and no number, stored as 0, for any other.
SpreadList(arrays) ==
  [i \in DOMAIN arrays |-> IF Len(arrays[i]) = 1 THEN arrays[i][1] ELSE 0]

\* The for-await gets a Uint8ArrayList of n bytes: it is spread and converted.
ListChunk(n) ==
  /\ \E ends \in Lists(n) : Receive(n, SpreadList(ArraysOf(ends)))
  /\ listed' = TRUE

\* Mutant: a message that ends with the buffer counts as incomplete.
IncompleteAtEnd ==
  offset + VarintLength(buffer, offset) + VarintValue(buffer, offset) > Len(buffer)

\* One round of the while loop.  An incomplete message ends the loop, after the
\* buffer was cut at the offset; the offset stays as it is.
Incomplete ==
  offset + VarintLength(buffer, offset) + VarintValue(buffer, offset) > Len(buffer) + 1

StopAtIncomplete ==
  /\ phase = "parse"
  /\ offset <= Len(buffer)
  /\ Incomplete
  /\ buffer' = SubSeq(buffer, offset, Len(buffer))
  /\ phase' = "trim"
  /\ straddled' = (straddled \/ offset > 1)
  /\ UNCHANGED <<sent, wire, offset, handled, listed>>

\* Mutant: the offset moves one byte past the message.
HandleAndSkip ==
  /\ phase = "parse"
  /\ offset <= Len(buffer)
  /\ ~Incomplete
  /\ LET from == offset + VarintLength(buffer, offset)
         to == from + VarintValue(buffer, offset)
     IN  /\ handled' = Append(handled, SubSeq(buffer, from, to - 1))
         /\ offset' = to + 1
  /\ UNCHANGED <<sent, wire, buffer, phase, straddled, listed>>

HandleMessage ==
  /\ phase = "parse"
  /\ offset <= Len(buffer)
  /\ ~Incomplete
  /\ LET from == offset + VarintLength(buffer, offset)
         to == from + VarintValue(buffer, offset)
     IN  /\ handled' = Append(handled, SubSeq(buffer, from, to - 1))
         /\ offset' = to
  /\ UNCHANGED <<sent, wire, buffer, phase, straddled, listed>>

\* "Keep only unparsed bytes": after either end of the loop.
Trim ==
  /\ phase = "trim" \/ (phase = "parse" /\ offset > Len(buffer))
  /\ buffer' = IF offset <= Len(buffer) THEN SubSeq(buffer, offset, Len(buffer)) ELSE <<>>
  /\ phase' = "await"
  /\ UNCHANGED <<sent, wire, offset, handled, straddled, listed>>

ReadLoop == StopAtIncomplete \/ HandleMessage \/ Trim

Deliver == \E n \in 1..Len(wire) : Chunk(n) \/ ListChunk(n)

Next == Deliver \/ ReadLoop

Spec == Init /\ [][Next]_vars

\* The transport delivers what was sent, and the loop body does not await.
Fairness == WF_vars(ReadLoop) /\ WF_vars(Deliver)

FairSpec == Spec /\ Fairness

-----------------------------------------------------------------------------
(* Properties.                                                             *)

TypeOK ==
  /\ sent \in Seq(Seq(Bytes))
  /\ wire \in Seq(Bytes)
  /\ buffer \in Seq(Bytes)
  /\ offset \in Nat \ {0}
  /\ phase = "parse" => offset <= Len(buffer) + 1
  /\ phase \in {"await", "parse", "trim"}
  /\ handled \in Seq(Seq(Bytes))
  /\ straddled \in BOOLEAN
  /\ listed \in BOOLEAN

\* What the read loop does not survive: a chunk that ends in the middle of a
\* message after a complete one, whose beginning is cut off the buffer twice, and
\* a chunk that is a list, whose bytes the conversion does not keep.
Damaged == straddled \/ listed

\* The messages handled are the messages sent, in order and cut where they were
\* cut, also when a chunk ends within a length prefix - as long as the stream is
\* not damaged.
MessagesInOrder == ~Damaged => IsPrefix(handled, sent)

\* The loop works off every chunk, whatever bytes the conversion made of it, and
\* in the end every message of an undamaged stream is handled.
ReaderCatchesUp ==
  <>[](wire = <<>> /\ phase = "await" /\ (Damaged \/ handled = sent))

\* Documented: chunked messages "are buffered and reassembled correctly".  Even
\* where every chunk is an array, the second cut of the buffer breaks it: see the
\* run that checks it.
ChunkedMessagesSurvive ==
  ~listed /\ wire = <<>> /\ phase = "await" => handled = sent
=============================================================================
