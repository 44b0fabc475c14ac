---------------------------- MODULE CodecProofs ----------------------------
(***************************************************************************)
(* Proofs about Codec: what this node makes of a message is what the       *)
(* remote meant, whoever encoded it.                                       *)
(***************************************************************************)
EXTENDS Codec, Integers, SequenceTheorems, TLAPS

\* The facts about flattened sequences, proved where the framing is.
Lists == INSTANCE FramingProofs WITH
  Radix <- 2, Payloads <- {}, MaxMessages <- 0, MaxArrays <- 0, sent <- << >>,
  wire <- << >>, buffer <- << >>, offset <- 1, phase <- "await", handled <- << >>,
  straddled <- FALSE, listed <- FALSE

LEMMA FlattenAppend ==
  ASSUME NEW A, NEW s \in Seq(Seq(A)), NEW e \in Seq(A)
  PROVE  /\ FlattenSeq(s) \in Seq(A)
         /\ FlattenSeq(Append(s, e)) = FlattenSeq(s) \o e
  <1>1. Lists!FramingAssumption
    BY DEF Lists!FramingAssumption
  <1>2. \A x : Lists!FlattenSeq(x) = FlattenSeq(x)
    BY DEF Lists!FlattenSeq, FlattenSeq
  <1> QED
    BY <1>1, <1>2, Lists!FlattenAppend

-----------------------------------------------------------------------------
(* Sequences of sequences.                                                 *)

\* The flattening of one more sequence.
LEMMA FlattenNext ==
  ASSUME NEW A, NEW n \in Nat, NEW w \in [1 .. n -> Seq(A)], NEW k \in 0 .. n
  PROVE  LET part(j) == [i \in 1 .. j |-> w[i]]
         IN  /\ FlattenSeq(part(0)) = << >>
             /\ FlattenSeq(part(k)) \in Seq(A)
             /\ k < n => FlattenSeq(part(k + 1)) = FlattenSeq(part(k)) \o w[k + 1]
  <1> DEFINE part(j) == [i \in 1 .. j |-> w[i]]
  <1>1. FlattenSeq(part(0)) = << >>
    <2>1. part(0) = << >>
      OBVIOUS
    <2> QED
      BY <2>1 DEF FlattenSeq
  <1>2. part(k) \in Seq(Seq(A))
    OBVIOUS
  <1>3. FlattenSeq(part(k)) \in Seq(A)
    <2>1. << >> \in Seq(A)
      OBVIOUS
    <2> QED
      BY <1>2, <2>1, FlattenAppend
  <1>4. ASSUME k < n
        PROVE  FlattenSeq(part(k + 1)) = FlattenSeq(part(k)) \o w[k + 1]
    <2>1. part(k + 1) = Append(part(k), w[k + 1])
      BY <1>4
    <2>2. w[k + 1] \in Seq(A)
      BY <1>4
    <2> HIDE DEF part
    <2> QED
      BY <1>2, <2>1, <2>2, FlattenAppend
  <1> QED
    BY <1>1, <1>3, <1>4

\* Of the n sequences in w all but the first k are empty.
EmptyBeyond(A, n, w, k) ==
  /\ n \in Nat /\ k \in 0 .. n
  /\ w \in [1 .. n -> Seq(A)]
  /\ \A i \in k + 1 .. n : w[i] = << >>

\* Empty sequences at the end add nothing.
LEMMA FlattenRest ==
  ASSUME NEW A, NEW n, NEW w, NEW k, EmptyBeyond(A, n, w, k)
  PROVE  FlattenSeq(w) = FlattenSeq([i \in 1 .. k |-> w[i]])
  <1> USE DEF EmptyBeyond
  <1> DEFINE part(j) == [i \in 1 .. j |-> w[i]]
             Good == {d \in Nat : k + d <= n => FlattenSeq(part(k + d)) = FlattenSeq(part(k))}
  <1>1. ASSUME NEW d \in Nat, \A c \in Nat : c < d => c \in Good, k + d <= n
        PROVE  FlattenSeq(part(k + d)) = FlattenSeq(part(k))
    <2>1. CASE d = 0
      BY <2>1
    <2>2. CASE d # 0
      <3> DEFINE j == k + (d - 1)
      <3>1. /\ j \in 0 .. n /\ j < n /\ j + 1 = k + d /\ w[j + 1] = << >>
        BY <2>2, <1>1
      <3>4. FlattenSeq(part(j)) = FlattenSeq(part(k))
        <4>1. d - 1 \in Nat /\ d - 1 < d
          BY <2>2
        <4>2. d - 1 \in Good
          BY <1>1, <4>1
        <4> HIDE DEF part
        <4> QED
          BY <4>1, <4>2, <3>1
      <3> HIDE DEF j
      <3>2. /\ FlattenSeq(part(j)) \in Seq(A)
            /\ FlattenSeq(part(j + 1)) = FlattenSeq(part(j)) \o w[j + 1]
        BY <3>1, FlattenNext, ZenonT(20)
      <3>3. \A s \in Seq(A) : s \o << >> = s
        OBVIOUS
      <3> HIDE DEF part
      <3> QED
        BY <3>1, <3>2, <3>3, <3>4
    <2> QED
      BY <2>1, <2>2
  <1>2. Good = Nat
    <2>1. Good \in SUBSET Nat
      OBVIOUS
    <2>2. \A d \in Nat : (\A c \in Nat : c < d => c \in Good) => d \in Good
      BY <1>1
    <2>3. Lists!FramingAssumption
      BY DEF Lists!FramingAssumption
    <2> HIDE DEF Good
    <2> QED
      BY <2>1, <2>2, <2>3, Lists!Induction
  <1>3. n - k \in Nat /\ k + (n - k) = n
    OBVIOUS
  <1>4. FlattenSeq(part(n)) = FlattenSeq(part(k))
    <2> HIDE DEF part
    <2>1. n - k \in Good
      BY <1>2, <1>3
    <2> QED
      BY <2>1, <1>3
  <1>5. part(n) = w
    OBVIOUS
  <1> QED
    BY <1>4, <1>5

-----------------------------------------------------------------------------
(* What decoding makes of the fields that were encoded.                    *)

\* The field LastOf reads, or that there is none.
IsLast(fields, n, wire, num, at) ==
  /\ DOMAIN fields = 1 .. n
  /\ at \in 1 .. n /\ fields[at].wire = wire /\ fields[at].num = num
  /\ \A i \in 1 .. n : i > at => ~(fields[i].wire = wire /\ fields[i].num = num)

IsNone(fields, wire, num) ==
  \A i \in DOMAIN fields : ~(fields[i].wire = wire /\ fields[i].num = num)

LEMMA LastIs ==
  ASSUME NEW fields, NEW n \in Nat, NEW wire, NEW num, NEW default, NEW at,
         IsLast(fields, n, wire, num, at)
  PROVE  LastOf(fields, wire, num, default) = fields[at].value
  <1> DEFINE S == {i \in DOMAIN fields : fields[i].wire = wire /\ fields[i].num = num}
  <1>1. at \in S /\ S \subseteq 1 .. n /\ \A i \in S : at >= i
    BY DEF IsLast
  <1> HIDE DEF S
  <1>2. Max(S) = at
    <2>1. \A i \in S : (\A j \in S : i >= j) => i = at
      BY <1>1
    <2> QED
      BY <1>1, <2>1 DEF Max
  <1>3. S # {}
    BY <1>1
  <1> QED
    BY <1>2, <1>3 DEF LastOf, S

LEMMA LastIsNot ==
  ASSUME NEW fields, NEW wire, NEW num, NEW default, IsNone(fields, wire, num)
  PROVE  LastOf(fields, wire, num, default) = default
  BY DEF LastOf, IsNone

\* Entries and parts of any message, this program's own included.
IsEntry(e) == e.cancel \in BOOLEAN /\ e.type \in {"block", "have"}

IsPart(part) ==
  \/ /\ part.kind = "wantlist"
     /\ \E n \in Nat : DOMAIN part.entries = 1 .. n
     /\ \A i \in DOMAIN part.entries : IsEntry(part.entries[i])
  \/ part \in Blocks
  \/ part \in Others

LEMMA WantTypes ==
  ASSUME NEW fields
  PROVE  DecodeWantEntry(fields) \in Seq(Cids) /\ WantOf(fields) \in Seq(Cids)
  <1>1. \A x : IsCid(x) => << x >> \in Seq(Cids)
    BY DEF IsCid
  <1>2. << >> \in Seq(Cids)
    OBVIOUS
  <1> HIDE DEF IsCid
  <1> QED
    BY <1>1, <1>2 DEF DecodeWantEntry, WantOf

\* A short tuple and what is joined to it.
LEMMA Joined ==
  ASSUME NEW p, NEW q, NEW x, NEW y
  PROVE  /\ << p, q >> \o << x >> \o << >> = << p, q, x >>
         /\ << p, q >> \o << >> \o << x >> = << p, q, x >>
         /\ << p, q >> \o << x >> \o << y >> = << p, q, x, y >>
  <1>1. << p, q >> \o << >> = << p, q >>
    OBVIOUS
  <1>2. << p, q >> \o << x >> = << p, q, x >>
    <2> DEFINE S == {p, q, x}
               s == << p, q >> \o << x >>
               u == << p, q, x >>
    <2>1. << p, q >> \in Seq(S) /\ << x >> \in Seq(S) /\ u \in Seq(S)
      OBVIOUS
    <2>2. /\ s \in Seq(S) /\ Len(s) = Len(u)
          /\ \A i \in 1 .. Len(s) : s[i] = u[i]
      BY <2>1
    <2> QED
      BY <2>1, <2>2, SeqEqual
  <1>3. << p, q, x >> \o << >> = << p, q, x >>
    OBVIOUS
  <1>4. << p, q, x >> \o << y >> = << p, q, x, y >>
    <2> DEFINE S == {p, q, x, y}
               s == << p, q, x >> \o << y >>
               u == << p, q, x, y >>
    <2>1. << p, q, x >> \in Seq(S) /\ << y >> \in Seq(S) /\ u \in Seq(S)
      OBVIOUS
    <2>2. /\ s \in Seq(S) /\ Len(s) = Len(u)
          /\ \A i \in 1 .. Len(s) : s[i] = u[i]
      BY <2>1
    <2> QED
      BY <2>1, <2>2, SeqEqual
  <1> QED
    BY <1>1, <1>2, <1>3, <1>4

\* A wantlist entry is decoded as the want it is, whether fields of default value
\* are written or left out.
LEMMA EntryUnderstood ==
  ASSUME NEW e, IsEntry(e), NEW explicit \in BOOLEAN
  PROVE  DecodeWantEntry(ForeignEntry(e, explicit)) = WantOf(e)
  <1> DEFINE f == ForeignEntry(e, explicit)
             Reads(cidBytes, cancel, wantType) ==
               /\ LastOf(f, 2, 1, Missing) = cidBytes
               /\ LastOf(f, 0, 3, 0) = cancel
               /\ LastOf(f, 0, 4, 0) = wantType
             a == Flag(3, e.cancel, explicit)
             b == Flag(4, e.type = "have", explicit)
             first == LenField(1, e.cid)
             second == VarintField(2, 1)
  <1>1. first.wire = 2 /\ first.num = 1 /\ first.value = e.cid /\ second.wire = 0 /\ second.num = 2
    BY DEF LenField, VarintField
  <1>2. f = << first, second >> \o a \o b
    BY DEF ForeignEntry
  <1>3. \/ a = << >> /\ ~e.cancel
        \/ \E x : /\ a = << x >> /\ x.wire = 0 /\ x.num = 3
                  /\ x.value = IF e.cancel THEN 1 ELSE 0
    BY DEF Flag, VarintField, IsEntry
  <1>4. \/ b = << >> /\ e.type = "block"
        \/ \E y : /\ b = << y >> /\ y.wire = 0 /\ y.num = 4
                  /\ y.value = IF e.type = "have" THEN 1 ELSE 0
    BY DEF Flag, VarintField, IsEntry
  <1> HIDE DEF first, second, a, b, f
  <1>5. Reads(e.cid, IF e.cancel THEN 1 ELSE 0, IF e.type = "have" THEN 1 ELSE 0)
    <2> DEFINE cancel == IF e.cancel THEN 1 ELSE 0
               wantType == IF e.type = "have" THEN 1 ELSE 0
    <2>1. CASE a = << >> /\ ~e.cancel /\ b = << >> /\ e.type = "block"
      <3>1. f = << first, second >>
        BY <1>2, <2>1
      <3>2. DOMAIN f = 1 .. 2 /\ f[1] = first /\ f[2] = second
        BY <3>1
      <3>3. LastOf(f, 2, 1, Missing) = e.cid
        <4>1. IsLast(f, 2, 2, 1, 1)
          BY <1>1, <3>2 DEF IsLast
        <4> QED
          BY <4>1, <1>1, <3>2, LastIs
      <3>4. LastOf(f, 0, 3, 0) = 0
        <4>1. IsNone(f, 0, 3)
          BY <1>1, <3>2 DEF IsNone
        <4> QED
          BY <4>1, <1>1, <3>2, LastIsNot
      <3>5. LastOf(f, 0, 4, 0) = 0
        <4>1. IsNone(f, 0, 4)
          BY <1>1, <3>2 DEF IsNone
        <4> QED
          BY <4>1, <1>1, <3>2, LastIsNot
      <3> QED
        BY <2>1, <3>3, <3>4, <3>5
    <2>2. ASSUME NEW x, a = << x >>, x.wire = 0, x.num = 3, x.value = cancel,
                 b = << >>, e.type = "block"
          PROVE  Reads(e.cid, cancel, wantType)
      <3>1. f = << first, second, x >>
        BY <1>2, <2>2, Joined
      <3>2. DOMAIN f = 1 .. 3 /\ f[1] = first /\ f[2] = second /\ f[3] = x
        BY <3>1
      <3>3. LastOf(f, 2, 1, Missing) = e.cid
        <4>1. IsLast(f, 3, 2, 1, 1)
          BY <1>1, <2>2, <3>2 DEF IsLast
        <4> QED
          BY <4>1, <1>1, <2>2, <3>2, LastIs
      <3>4. LastOf(f, 0, 3, 0) = cancel
        <4>1. IsLast(f, 3, 0, 3, 3)
          BY <1>1, <2>2, <3>2 DEF IsLast
        <4> QED
          BY <4>1, <1>1, <2>2, <3>2, LastIs
      <3>5. LastOf(f, 0, 4, 0) = 0
        <4>1. IsNone(f, 0, 4)
          BY <1>1, <2>2, <3>2 DEF IsNone
        <4> QED
          BY <4>1, <1>1, <2>2, <3>2, LastIsNot
      <3> QED
        BY <2>2, <3>3, <3>4, <3>5
    <2>3. ASSUME a = << >>, ~e.cancel,
                 NEW y, b = << y >>, y.wire = 0, y.num = 4, y.value = wantType
          PROVE  Reads(e.cid, cancel, wantType)
      <3>1. f = << first, second, y >>
        BY <1>2, <2>3, Joined
      <3>2. DOMAIN f = 1 .. 3 /\ f[1] = first /\ f[2] = second /\ f[3] = y
        BY <3>1
      <3>3. LastOf(f, 2, 1, Missing) = e.cid
        <4>1. IsLast(f, 3, 2, 1, 1)
          BY <1>1, <2>3, <3>2 DEF IsLast
        <4> QED
          BY <4>1, <1>1, <2>3, <3>2, LastIs
      <3>4. LastOf(f, 0, 3, 0) = 0
        <4>1. IsNone(f, 0, 3)
          BY <1>1, <2>3, <3>2 DEF IsNone
        <4> QED
          BY <4>1, <1>1, <2>3, <3>2, LastIsNot
      <3>5. LastOf(f, 0, 4, 0) = wantType
        <4>1. IsLast(f, 3, 0, 4, 3)
          BY <1>1, <2>3, <3>2 DEF IsLast
        <4> QED
          BY <4>1, <1>1, <2>3, <3>2, LastIs
      <3> QED
        BY <2>3, <3>3, <3>4, <3>5
    <2>4. ASSUME NEW x, a = << x >>, x.wire = 0, x.num = 3, x.value = cancel,
                 NEW y, b = << y >>, y.wire = 0, y.num = 4, y.value = wantType
          PROVE  Reads(e.cid, cancel, wantType)
      <3>1. f = << first, second, x, y >>
        BY <1>2, <2>4, Joined
      <3>2. DOMAIN f = 1 .. 4 /\ f[1] = first /\ f[2] = second /\ f[3] = x /\ f[4] = y
        BY <3>1
      <3>3. LastOf(f, 2, 1, Missing) = e.cid
        <4>1. IsLast(f, 4, 2, 1, 1)
          BY <1>1, <2>4, <3>2 DEF IsLast
        <4> QED
          BY <4>1, <1>1, <2>4, <3>2, LastIs
      <3>4. LastOf(f, 0, 3, 0) = cancel
        <4>1. IsLast(f, 4, 0, 3, 3)
          BY <1>1, <2>4, <3>2 DEF IsLast
        <4> QED
          BY <4>1, <1>1, <2>4, <3>2, LastIs
      <3>5. LastOf(f, 0, 4, 0) = wantType
        <4>1. IsLast(f, 4, 0, 4, 4)
          BY <1>1, <2>4, <3>2 DEF IsLast
        <4> QED
          BY <4>1, <1>1, <2>4, <3>2, LastIs
      <3> QED
        BY <3>3, <3>4, <3>5
    <2> HIDE DEF Reads
    <2> QED
      BY <1>3, <1>4, <2>1, <2>2, <2>3, <2>4
  <1>6. (IF e.cancel THEN 1 ELSE 0) # 0 <=> e.cancel
    BY DEF IsEntry
  <1>7. (IF e.type = "have" THEN 1 ELSE 0) = 0 <=> e.type = "block"
    BY DEF IsEntry
  <1> QED
    BY <1>5, <1>6, <1>7 DEF DecodeWantEntry, WantOf, f

\* A wantlist is decoded as the wants of its entries; a varint field after them
\* is passed over.
LEMMA WantlistUnderstood ==
  ASSUME NEW fields, NEW m \in Nat, DOMAIN fields = 1 .. m,
         NEW entries, NEW n \in 0 .. m,
         \A i \in 1 .. n : /\ fields[i].wire = 2 /\ fields[i].num = 1
                           /\ DecodeWantEntry(fields[i].value) = WantOf(entries[i]),
         \A i \in n + 1 .. m : fields[i].wire = 0
  PROVE  /\ DecodeWantlist(fields) = FlattenSeq([i \in 1 .. n |-> WantOf(entries[i])])
         /\ DecodeWantlist(fields) \in Seq(Cids)
  <1> DEFINE w == [i \in 1 .. m |-> IF fields[i].wire = 2 /\ fields[i].num = 1
                                    THEN DecodeWantEntry(fields[i].value) ELSE << >>]
  <1>1. << >> \in Seq(Cids)
    OBVIOUS
  <1>2. w \in [1 .. m -> Seq(Cids)]
    BY <1>1, WantTypes
  <1>3. \A i \in n + 1 .. m : w[i] = << >>
    OBVIOUS
  <1>4. \A i \in 1 .. n : w[i] = WantOf(entries[i])
    OBVIOUS
  <1>5. DecodeWantlist(fields) = FlattenSeq(w)
    BY DEF DecodeWantlist
  <1>6. [i \in 1 .. n |-> w[i]] = [i \in 1 .. n |-> WantOf(entries[i])]
    BY <1>4
  <1> HIDE DEF w
  <1>7. FlattenSeq(w) = FlattenSeq([i \in 1 .. n |-> w[i]])
    <2>1. EmptyBeyond(Cids, m, w, n)
      BY <1>2, <1>3 DEF EmptyBeyond
    <2> QED
      BY <2>1, FlattenRest
  <1>8. FlattenSeq([i \in 1 .. n |-> w[i]]) \in Seq(Cids)
    BY <1>2, FlattenNext
  <1> QED
    BY <1>5, <1>6, <1>7, <1>8

\* The block this node reads from a field.
PayloadOf(part) == [prefix |-> Prefix(part.cid), data |-> part.data]

LEMMA BlockUnderstood ==
  ASSUME NEW part \in Blocks, NEW fields, NEW n \in {1, 2}, DOMAIN fields = 1 .. n,
         fields[1] = LenField(1, Prefix(part.cid)),
         n = 2 => fields[2] = LenField(2, part.data)
  PROVE  DecodePayloadBlock(fields) = IF n = 2 THEN << PayloadOf(part) >> ELSE << >>
  <1> USE DEF LenField
  <1>1. LastOf(fields, 2, 1, Missing) = Prefix(part.cid)
    <2>1. IsLast(fields, n, 2, 1, 1)
      BY DEF IsLast
    <2> QED
      BY <2>1, LastIs
  <1>2. LastOf(fields, 2, 2, Missing) = IF n = 2 THEN part.data ELSE Missing
    <2>1. CASE n = 2
      <3>1. IsLast(fields, n, 2, 2, 2)
        BY <2>1 DEF IsLast
      <3> QED
        BY <2>1, <3>1, LastIs
    <2>2. CASE n = 1
      <3>1. IsNone(fields, 2, 2)
        BY <2>2 DEF IsNone
      <3> QED
        BY <2>2, <3>1, LastIsNot
    <2> QED
      BY <2>1, <2>2
  <1>3. Prefix(part.cid) # Missing
    <2>1. "kind" \in DOMAIN Missing /\ "kind" \notin DOMAIN Prefix(part.cid)
      BY DEF Missing, Prefix
    <2> QED
      BY <2>1
  <1>4. part.data # Missing
    BY CodecAssumption DEF Blocks
  <1> QED
    BY <1>1, <1>2, <1>3, <1>4 DEF DecodePayloadBlock, PayloadOf

\* What a field of a message must be for this node to make of it what was said.
Means(field, part) ==
  /\ field.wire = 2 <=> part.kind # "pendingBytes"
  /\ field.num = 1 <=> part.kind = "wantlist"
  /\ field.num = 3 <=> part.kind = "block"
  /\ part.kind = "wantlist" => DecodeWantlist(field.value) = WantsOf(part)
  /\ part.kind = "block" =>
       /\ DecodePayloadBlock(field.value) \in {<< >>, << PayloadOf(part) >>}
       /\ part.data # NoData => DecodePayloadBlock(field.value) = << PayloadOf(part) >>

LEMMA ForeignMeans ==
  ASSUME NEW part, IsPart(part), NEW explicit \in BOOLEAN
  PROVE  Means(ForeignPart(part, explicit), part) /\ WantsOf(part) \in Seq(Cids)
  <1> DEFINE field == ForeignPart(part, explicit)
  <1>1. CASE part.kind = "wantlist"
    <2>1. PICK n \in Nat : DOMAIN part.entries = 1 .. n
      BY <1>1 DEF IsPart, Blocks, Others, OldBlocks
    <2>2. \A i \in 1 .. n : IsEntry(part.entries[i])
      BY <1>1, <2>1 DEF IsPart, Blocks, Others, OldBlocks
    <2> DEFINE g == [i \in 1 .. n |-> LenField(1, ForeignEntry(part.entries[i], explicit))]
               flag == Flag(2, FALSE, explicit)
               fields == g \o flag
               S == {g[i] : i \in 1 .. n} \cup {VarintField(2, 0)}
    <2>3. field = LenField(1, fields)
      BY <1>1, <2>1 DEF ForeignPart
    <2>4. g \in Seq(S) /\ Len(g) = n
      OBVIOUS
    <2>5. flag \in Seq(S) /\ Len(flag) \in {0, 1} /\ (Len(flag) = 1 => flag[1] = VarintField(2, 0))
      <3>1. flag = << >> \/ flag = << VarintField(2, 0) >>
        BY DEF Flag
      <3>2. VarintField(2, 0) \in S
        OBVIOUS
      <3> HIDE DEF flag, S
      <3>3. CASE flag = << >>
        BY <3>3
      <3>4. CASE flag = << VarintField(2, 0) >>
        BY <3>2, <3>4
      <3> QED
        BY <3>1, <3>3, <3>4
    <2>6. \A i \in 1 .. n : /\ g[i].wire = 2 /\ g[i].num = 1
                            /\ DecodeWantEntry(g[i].value) = WantOf(part.entries[i])
      BY <2>2, EntryUnderstood DEF LenField
    <2>7. VarintField(2, 0).wire = 0
      BY DEF VarintField
    <2> HIDE DEF g, flag, S
    <2> DEFINE m == n + Len(flag)
    <2>8. /\ fields \in Seq(S) /\ Len(fields) = m
          /\ \A i \in 1 .. m : fields[i] = IF i <= n THEN g[i] ELSE flag[i - n]
      BY <2>4, <2>5, ConcatProperties
    <2>9. m \in Nat /\ n \in 0 .. m /\ DOMAIN fields = 1 .. m
      BY <2>5, <2>8
    <2>10. \A i \in n + 1 .. m : fields[i].wire = 0
      <3>1. \A i \in n + 1 .. m : i - n = 1 /\ Len(flag) = 1
        <4>1. Len(flag) = 0 \/ Len(flag) = 1
          BY <2>5
        <4>2. CASE Len(flag) = 0
          <5>1. m = n
            BY <4>2 DEF m
          <5> QED
            BY <5>1
        <4>3. CASE Len(flag) = 1
          <5>1. m = n + 1
            BY <4>3 DEF m
          <5> QED
            BY <4>3, <5>1
        <4> QED
          BY <4>1, <4>2, <4>3
      <3>2. \A i \in n + 1 .. m : i \in 1 .. m /\ ~(i <= n)
        BY <2>9
      <3> QED
        BY <2>5, <2>7, <2>8, <3>1, <3>2
    <2>11. \A i \in 1 .. n : /\ fields[i].wire = 2 /\ fields[i].num = 1
                             /\ DecodeWantEntry(fields[i].value) = WantOf(part.entries[i])
      BY <2>6, <2>8, <2>9
    <2> HIDE DEF fields, m
    <2>12. DecodeWantlist(fields) = WantsOf(part) /\ WantsOf(part) \in Seq(Cids)
      <3>1. WantsOf(part) = FlattenSeq([i \in 1 .. n |-> WantOf(part.entries[i])])
        BY <1>1, <2>1 DEF WantsOf
      <3> QED
        <4> DEFINE entries == part.entries
        <4>1. \A i \in 1 .. n : /\ fields[i].wire = 2 /\ fields[i].num = 1
                                /\ DecodeWantEntry(fields[i].value) = WantOf(entries[i])
          BY <2>11
        <4>2. WantsOf(part) = FlattenSeq([i \in 1 .. n |-> WantOf(entries[i])])
          BY <3>1
        <4> HIDE DEF entries
        <4>3. /\ DecodeWantlist(fields) = FlattenSeq([i \in 1 .. n |-> WantOf(entries[i])])
              /\ DecodeWantlist(fields) \in Seq(Cids)
          BY <2>9, <2>10, <4>1, WantlistUnderstood
        <4> QED
          BY <4>2, <4>3
    <2> QED
      BY <1>1, <2>3, <2>12 DEF Means, LenField
  <1>2. CASE part \in Blocks
    <2> DEFINE whole == part.data # NoData \/ explicit
               fields == << LenField(1, Prefix(part.cid)) >>
                           \o IF whole THEN << LenField(2, part.data) >> ELSE << >>
    <2>1. part.kind = "block"
      BY <1>2 DEF Blocks
    <2>2. field = LenField(3, fields)
      BY <2>1 DEF ForeignPart
    <2>3. /\ DOMAIN fields = 1 .. IF whole THEN 2 ELSE 1
          /\ fields[1] = LenField(1, Prefix(part.cid))
          /\ whole => fields[2] = LenField(2, part.data)
      OBVIOUS
    <2> HIDE DEF fields
    <2>4. DecodePayloadBlock(fields) = IF whole THEN << PayloadOf(part) >> ELSE << >>
      <3>1. CASE whole
        BY <1>2, <2>3, <3>1, BlockUnderstood
      <3>2. CASE ~whole
        BY <1>2, <2>3, <3>2, BlockUnderstood
      <3> QED
        BY <3>1, <3>2
    <2>5. << >> \in Seq(Cids)
      OBVIOUS
    <2> QED
      BY <2>1, <2>2, <2>4, <2>5 DEF Means, LenField, WantsOf
  <1>3. CASE part \in Others
    <2>1. << >> \in Seq(Cids)
      OBVIOUS
    <2>2. WantsOf(part) = << >>
      BY <1>3 DEF Others, OldBlocks, WantsOf
    <2>3. CASE part.kind = "presences"
      <3>1. field = LenField(4, << >>)
        BY <2>3 DEF ForeignPart
      <3> HIDE DEF field
      <3>2. Means(field, part)
        BY <2>3, <3>1 DEF Means, LenField
      <3> QED
        BY <2>1, <2>2, <3>2 DEF field
    <2>4. CASE part.kind = "pendingBytes"
      <3>1. field = VarintField(5, 1)
        BY <2>4 DEF ForeignPart
      <3> HIDE DEF field
      <3>2. Means(field, part)
        BY <2>4, <3>1 DEF Means, VarintField
      <3> QED
        BY <2>1, <2>2, <3>2 DEF field
    <2>5. CASE part.kind = "oldBlock"
      <3>1. field = LenField(2, part.data)
        BY <2>5 DEF ForeignPart
      <3> HIDE DEF field
      <3>2. Means(field, part)
        BY <2>5, <3>1 DEF Means, LenField
      <3> QED
        BY <2>1, <2>2, <3>2 DEF field
    <2> QED
      BY <1>3, <2>1, <2>2, <2>3, <2>4, <2>5 DEF Others, OldBlocks
  <1> QED
    BY <1>1, <1>2, <1>3 DEF IsPart

LEMMA OwnWantMeans ==
  ASSUME NEW cid \in Cids, NEW part,
         part = [kind |-> "wantlist",
                 entries |-> << [cid |-> cid, cancel |-> FALSE, type |-> "block"] >>]
  PROVE  Means(EncodeWantBlock(cid)[1], part) /\ WantsOf(part) \in Seq(Cids)
  <1> DEFINE entry == << LenField(1, cid), VarintField(2, 1),
                         VarintField(4, 0), VarintField(5, 1) >>
             fields == << LenField(1, entry), VarintField(2, 0) >>
             entries == part.entries
  <1>1. EncodeWantBlock(cid)[1] = LenField(1, fields)
    BY DEF EncodeWantBlock
  <1>2. /\ entries[1] = [cid |-> cid, cancel |-> FALSE, type |-> "block"]
        /\ DOMAIN entries = 1 .. 1
    OBVIOUS
  <1>3. /\ DOMAIN entry = 1 .. 4
        /\ entry[1] = LenField(1, cid) /\ entry[2] = VarintField(2, 1)
        /\ entry[3] = VarintField(4, 0) /\ entry[4] = VarintField(5, 1)
    OBVIOUS
  <1>4. /\ DOMAIN fields = 1 .. 2
        /\ fields[1] = LenField(1, entry) /\ fields[2] = VarintField(2, 0)
    OBVIOUS
  <1> HIDE DEF entry, entries, fields
  <1>5. DecodeWantEntry(entry) = << cid >>
    <2>1. LastOf(entry, 2, 1, Missing) = cid
      <3>1. IsLast(entry, 4, 2, 1, 1)
        BY <1>3 DEF IsLast, LenField, VarintField
      <3> QED
        BY <1>3, <3>1, LastIs DEF LenField
    <2>2. LastOf(entry, 0, 4, 0) = 0
      <3>1. IsLast(entry, 4, 0, 4, 3)
        BY <1>3 DEF IsLast, LenField, VarintField
      <3> QED
        BY <1>3, <3>1, LastIs DEF VarintField
    <2>3. LastOf(entry, 0, 3, 0) = 0
      <3>1. IsNone(entry, 0, 3)
        BY <1>3 DEF IsNone, LenField, VarintField
      <3> QED
        BY <3>1, LastIsNot
    <2> QED
      BY <2>1, <2>2, <2>3 DEF DecodeWantEntry, IsCid
  <1>6. WantOf(entries[1]) = << cid >>
    BY <1>2 DEF WantOf, IsCid
  <1>7. \A i \in 1 .. 1 : /\ fields[i].wire = 2 /\ fields[i].num = 1
                          /\ DecodeWantEntry(fields[i].value) = WantOf(entries[i])
    BY <1>4, <1>5, <1>6 DEF LenField
  <1>8. \A i \in 1 + 1 .. 2 : fields[i].wire = 0
    BY <1>4 DEF VarintField
  <1>9. /\ DecodeWantlist(fields) = FlattenSeq([i \in 1 .. 1 |-> WantOf(entries[i])])
        /\ DecodeWantlist(fields) \in Seq(Cids)
    <2> DEFINE n == 1
               m == 2
    <2>1. m \in Nat /\ n \in 0 .. m /\ DOMAIN fields = 1 .. m
      BY <1>4
    <2>2. \A i \in 1 .. n : /\ fields[i].wire = 2 /\ fields[i].num = 1
                            /\ DecodeWantEntry(fields[i].value) = WantOf(entries[i])
      BY <1>7
    <2>3. \A i \in n + 1 .. m : fields[i].wire = 0
      BY <1>8
    <2> HIDE DEF n, m
    <2>4. /\ DecodeWantlist(fields) = FlattenSeq([i \in 1 .. n |-> WantOf(entries[i])])
          /\ DecodeWantlist(fields) \in Seq(Cids)
      BY <2>1, <2>2, <2>3, WantlistUnderstood
    <2> QED
      BY <2>4 DEF n
  <1>10. WantsOf(part) = FlattenSeq([i \in 1 .. 1 |-> WantOf(entries[i])])
    BY <1>2 DEF WantsOf, entries
  <1> QED
    BY <1>1, <1>9, <1>10 DEF Means, LenField

LEMMA OwnBlockMeans ==
  ASSUME NEW part \in Blocks
  PROVE  Means(EncodeBlock(part.cid, part.data)[1], part) /\ WantsOf(part) \in Seq(Cids)
  <1> DEFINE fields == << LenField(1, Prefix(part.cid)), LenField(2, part.data) >>
  <1>1. EncodeBlock(part.cid, part.data)[1] = LenField(3, fields)
    BY DEF EncodeBlock
  <1>2. /\ DOMAIN fields = 1 .. 2
        /\ fields[1] = LenField(1, Prefix(part.cid)) /\ fields[2] = LenField(2, part.data)
    OBVIOUS
  <1> HIDE DEF fields
  <1>3. DecodePayloadBlock(fields) = << PayloadOf(part) >>
    BY <1>2, BlockUnderstood
  <1>4. WantsOf(part) = << >> /\ << >> \in Seq(Cids) /\ part.kind = "block"
    BY DEF Blocks, WantsOf
  <1> QED
    BY <1>1, <1>3, <1>4 DEF Means, LenField

-----------------------------------------------------------------------------
(* The invariant.                                                          *)

\* Every field means its part of what was said.
FieldsMeanParts ==
  /\ Len(message) \in Nat /\ Len(said) = Len(message)
  /\ DOMAIN said = 1 .. Len(message) /\ DOMAIN message = 1 .. Len(message)
  /\ \A i \in DOMAIN said :
       /\ Means(message[i], said[i])
       /\ WantsOf(said[i]) \in Seq(Cids)
       /\ said[i].kind = "block" => said[i] \in Blocks

\* The fields read are no varints and the wants decoded are theirs; the loop has
\* ended with the message or at a varint.
WantsSoFar ==
  /\ phase \in {"decode", "blocks", "done"}
  /\ offset \in 0 .. Len(message)
  /\ \A i \in 1 .. offset : said[i].kind # "pendingBytes"
  /\ phase # "decode" /\ offset < Len(message) => said[offset + 1].kind = "pendingBytes"
  /\ wantBlocks = FlattenSeq([i \in 1 .. offset |-> WantsOf(said[i])])

BlocksSaid == {i \in DOMAIN said : said[i].kind = "block"}
Honest(part) == part.kind = "block" /\ part.cid.hash = Sha256(part.data)
Got(part) == [cid |-> part.cid, data |-> part.data]

\* What can be looked up for a block: whatever its CID is, its hash is right.
LookedUp == {r \in [cid : UNION {ToSet(PrefixToCid(PayloadOf(said[i]))) : i \in BlocksSaid},
                    data : {said[i].data : i \in BlocksSaid}] :
               r.cid.hash = Sha256(r.data)}

\* Every block read waits for its CID or was looked up, and nothing else does.
BlocksSoFar ==
  /\ blocks \in Seq({PayloadOf(said[i]) : i \in BlocksSaid})
  /\ received \in Seq(LookedUp)
  /\ phase = "done" => blocks = << >>
  /\ \A i \in 1 .. offset : Honest(said[i]) /\ said[i].data # NoData =>
       \/ \E j \in 1 .. Len(blocks) : blocks[j] = PayloadOf(said[i])
       \/ \E j \in 1 .. Len(received) : received[j] = Got(said[i])

IInv == FieldsMeanParts /\ WantsSoFar /\ BlocksSoFar

LEMMA CidOfBlock ==
  ASSUME NEW part \in Blocks
  PROVE  LET cid == PrefixToCid(PayloadOf(part))
         IN  /\ cid # << >> => cid[1] \in ToSet(cid) /\ cid[1].hash = Sha256(part.data)
             /\ Honest(part) => cid # << >> /\ cid[1] = part.cid
  <1> DEFINE cid == PrefixToCid(PayloadOf(part))
  <1>1. part.cid \in Cids
    BY DEF Blocks
  <1>2. cid # << >> => cid[1] \in ToSet(cid) /\ cid[1].hash = Sha256(part.data)
    BY DEF PrefixToCid, PayloadOf, ToSet
  <1>3. ASSUME Honest(part)
        PROVE  cid # << >> /\ cid[1] = part.cid
    <2> DEFINE c == part.cid
    <2>1. /\ c = [version |-> c.version, codec |-> c.codec, hash |-> c.hash]
          /\ c.version = 0 => c.codec = "dag-pb"
      BY <1>1, CodecAssumption
    <2>2. c.hash = Sha256(part.data) /\ c.hash.alg = "sha2-256"
      BY <1>3 DEF Honest, Sha256
    <2>3. cid = << [version |-> c.version,
                    codec |-> IF c.version = 0 THEN "dag-pb" ELSE c.codec,
                    hash |-> Sha256(part.data)] >>
      BY <2>2 DEF PrefixToCid, PayloadOf, Prefix
    <2> QED
      BY <2>1, <2>2, <2>3
  <1> QED
    BY <1>2, <1>3

LEMMA InitInv == Init \/ InitOwn => IInv
  <1>1. ASSUME FieldsMeanParts, offset = 0, wantBlocks = << >>, blocks = << >>,
               received = << >>, phase = "decode"
        PROVE  IInv
    <2>1. FlattenSeq([i \in 1 .. 0 |-> WantsOf(said[i])]) = << >>
      BY DEF FlattenSeq
    <2>2. WantsSoFar
      BY <1>1, <2>1 DEF WantsSoFar, FieldsMeanParts
    <2>3. BlocksSoFar
      BY <1>1 DEF BlocksSoFar
    <2> QED
      BY <1>1, <2>2, <2>3 DEF IInv
  <1>2. ASSUME Init PROVE FieldsMeanParts
    <2>1. PICK n \in 0 .. MaxParts : said \in [1 .. n -> Parts]
      BY <1>2 DEF Init, BoundedSeq, SeqOf
    <2>2. PICK explicit \in BOOLEAN : message = ForeignMessage(said, explicit)
      BY <1>2 DEF Init
    <2>3. n \in Nat
      BY <2>1, CodecAssumption
    <2>4. /\ Len(message) = n /\ Len(said) = n
          /\ DOMAIN said = 1 .. n /\ DOMAIN message = 1 .. n
      BY <2>1, <2>2, <2>3 DEF ForeignMessage
    <2>5. \A part \in Parts : IsPart(part)
      <3>1. ASSUME NEW part \in Wantlists PROVE IsPart(part)
        <4>1. PICK k \in 0 .. MaxEntries : part.entries \in [1 .. k -> Entries]
          BY DEF Wantlists, BoundedSeq, SeqOf
        <4>2. k \in Nat /\ DOMAIN part.entries = 1 .. k
          BY <4>1, CodecAssumption
        <4>3. \A i \in 1 .. k : IsEntry(part.entries[i])
          BY <4>1, CodecAssumption DEF IsEntry
        <4> QED
          BY <4>2, <4>3 DEF IsPart, Wantlists
      <3> QED
        BY <3>1 DEF Parts, IsPart
    <2>6. ASSUME NEW i \in 1 .. n
          PROVE  /\ Means(message[i], said[i]) /\ WantsOf(said[i]) \in Seq(Cids)
                 /\ said[i].kind = "block" => said[i] \in Blocks
      <3>1. said[i] \in Parts /\ message[i] = ForeignPart(said[i], explicit)
        BY <2>1, <2>2, <2>4 DEF ForeignMessage
      <3>2. Means(message[i], said[i]) /\ WantsOf(said[i]) \in Seq(Cids)
        BY <2>5, <3>1, ForeignMeans
      <3> QED
        BY <3>1, <3>2 DEF Parts, Wantlists, Others, OldBlocks
    <2> QED
      BY <2>3, <2>4, <2>6 DEF FieldsMeanParts
  <1>3. ASSUME InitOwn PROVE FieldsMeanParts
    <2>1. ASSUME NEW part, NEW field, said = << part >>, message = << field >>,
                 Means(field, part), WantsOf(part) \in Seq(Cids),
                 part.kind = "block" => part \in Blocks
          PROVE  FieldsMeanParts
      BY <2>1 DEF FieldsMeanParts
    <2>2. ASSUME NEW cid \in Cids, message = EncodeWantBlock(cid),
                 said = << [kind |-> "wantlist",
                            entries |-> << [cid |-> cid, cancel |-> FALSE, type |-> "block"] >>] >>
          PROVE  FieldsMeanParts
      <3> DEFINE part == [kind |-> "wantlist",
                          entries |-> << [cid |-> cid, cancel |-> FALSE, type |-> "block"] >>]
                 field == EncodeWantBlock(cid)[1]
      <3>1. message = << field >> /\ said = << part >>
        BY <2>2 DEF EncodeWantBlock
      <3>2. Means(field, part) /\ WantsOf(part) \in Seq(Cids)
        BY OwnWantMeans
      <3>3. part.kind # "block"
        OBVIOUS
      <3> HIDE DEF part, field
      <3> QED
        BY <2>1, <3>1, <3>2, <3>3
    <2>3. ASSUME NEW part \in Blocks, said = << part >>,
                 message = EncodeBlock(part.cid, part.data)
          PROVE  FieldsMeanParts
      <3> DEFINE field == EncodeBlock(part.cid, part.data)[1]
      <3>1. message = << field >>
        BY <2>3 DEF EncodeBlock
      <3>2. Means(field, part) /\ WantsOf(part) \in Seq(Cids)
        BY OwnBlockMeans
      <3> HIDE DEF field
      <3> QED
        BY <2>1, <2>3, <3>1, <3>2
    <2> QED
      BY <1>3, <2>2, <2>3 DEF InitOwn
  <1> QED
    BY <1>1, <1>2, <1>3 DEF Init, InitOwn

-----------------------------------------------------------------------------
(* The steps.                                                              *)

\* The wants of one field more.
LEMMA DecodeWants ==
  ASSUME IInv, DecodeField
  PROVE  wantBlocks' = FlattenSeq([i \in 1 .. offset + 1 |-> WantsOf(said[i])])
  <1> DEFINE n == Len(message)
             w == [i \in 1 .. n |-> WantsOf(said[i])]
             field == message[offset + 1]
             part == said[offset + 1]
  <1>1. /\ n \in Nat /\ offset \in 0 .. n /\ offset < n
        /\ DOMAIN said = 1 .. n
    BY DEF IInv, FieldsMeanParts, WantsSoFar, DecodeField
  <1>2. w \in [1 .. n -> Seq(Cids)]
    BY <1>1 DEF IInv, FieldsMeanParts
  <1>3. /\ [i \in 1 .. offset |-> w[i]] = [i \in 1 .. offset |-> WantsOf(said[i])]
        /\ [i \in 1 .. offset + 1 |-> w[i]] = [i \in 1 .. offset + 1 |-> WantsOf(said[i])]
        /\ w[offset + 1] = WantsOf(part)
    BY <1>1
  <1>4. Means(field, part)
    <2>1. offset + 1 \in DOMAIN said
      BY <1>1
    <2> QED
      BY <2>1 DEF IInv, FieldsMeanParts
  <1>5. /\ wantBlocks = FlattenSeq([i \in 1 .. offset |-> w[i]])
        /\ wantBlocks' = IF field.num = 1 THEN wantBlocks \o DecodeWantlist(field.value)
                                          ELSE wantBlocks
    BY <1>3 DEF IInv, WantsSoFar, DecodeField
  <1> HIDE DEF n, w, field, part
  <1>6. /\ wantBlocks \in Seq(Cids)
        /\ FlattenSeq([i \in 1 .. offset + 1 |-> w[i]]) = wantBlocks \o w[offset + 1]
    <2> DEFINE t == [i \in 1 .. offset |-> w[i]]
               e == w[offset + 1]
    <2>1. t \in Seq(Seq(Cids)) /\ e \in Seq(Cids)
      BY <1>1, <1>2
    <2>2. [i \in 1 .. offset + 1 |-> w[i]] = Append(t, e)
      BY <1>1
    <2> HIDE DEF t, e
    <2>3. FlattenSeq(t) \in Seq(Cids) /\ FlattenSeq(Append(t, e)) = FlattenSeq(t) \o e
      BY <2>1, FlattenAppend
    <2> QED
      BY <1>5, <2>2, <2>3 DEF t, e
  <1>7. wantBlocks' = wantBlocks \o WantsOf(part)
    <2>1. CASE part.kind = "wantlist"
      BY <1>4, <1>5, <2>1 DEF Means
    <2>2. CASE part.kind # "wantlist"
      <3>1. WantsOf(part) = << >> /\ wantBlocks' = wantBlocks
        BY <1>4, <1>5, <2>2 DEF Means, WantsOf
      <3>2. wantBlocks \o << >> = wantBlocks
        BY <1>6
      <3> QED
        BY <3>1, <3>2
    <2> QED
      BY <2>1, <2>2
  <1> QED
    BY <1>3, <1>6, <1>7

LEMMA DecodeFieldKeeps ==
  ASSUME IInv, DecodeField
  PROVE  IInv'
  <1> DEFINE n == Len(message)
             field == message[offset + 1]
             part == said[offset + 1]
             more == IF field.num = 3 THEN DecodePayloadBlock(field.value) ELSE << >>
             Waits == {PayloadOf(said[i]) : i \in BlocksSaid}
  <1>1. /\ n \in Nat /\ offset \in 0 .. n /\ offset < n
        /\ DOMAIN said = 1 .. n /\ offset + 1 \in 1 .. n
    BY DEF IInv, FieldsMeanParts, WantsSoFar, DecodeField
  <1>2. /\ UNCHANGED <<said, message, received, phase>>
        /\ offset' = offset + 1 /\ phase = "decode"
    BY DEF DecodeField
  <1>3. Means(field, part)
    BY <1>1 DEF IInv, FieldsMeanParts
  <1>4. FieldsMeanParts'
    BY <1>2 DEF IInv, FieldsMeanParts
  <1>5. WantsSoFar'
    <2>1. part.kind # "pendingBytes"
      BY <1>3 DEF DecodeField, Means
    <2>2. \A i \in 1 .. offset + 1 : said[i].kind # "pendingBytes"
      <3>1. \A i \in 1 .. offset : said[i].kind # "pendingBytes"
        BY DEF IInv, WantsSoFar
      <3>2. \A i \in 1 .. offset + 1 : i \in 1 .. offset \/ i = offset + 1
        BY <1>1
      <3> QED
        BY <2>1, <3>1, <3>2
    <2>3. offset + 1 \in 0 .. Len(message)
      BY <1>1
    <2>4. wantBlocks' = FlattenSeq([i \in 1 .. offset + 1 |-> WantsOf(said[i])])
      BY DecodeWants
    <2> QED
      BY <1>2, <2>2, <2>3, <2>4 DEF WantsSoFar
  <1>6. BlocksSoFar'
    <2>1. blocks' = blocks \o more /\ blocks \in Seq(Waits)
      <3>1. blocks \in Seq(Waits)
        BY DEF IInv, BlocksSoFar
      <3>2. blocks \o << >> = blocks
        BY <3>1
      <3> QED
        BY <3>1, <3>2 DEF DecodeField
    <2>2. /\ more \in Seq(Waits)
          /\ Honest(part) /\ part.data # NoData => more = << PayloadOf(part) >>
      <3>1. CASE part.kind = "block"
        <4>1. PayloadOf(part) \in Waits
          BY <1>1, <3>1 DEF BlocksSaid
        <4>2. /\ more \in {<< >>, << PayloadOf(part) >>}
              /\ part.data # NoData => more = << PayloadOf(part) >>
          BY <1>3, <3>1 DEF Means
        <4> HIDE DEF Waits, more
        <4>3. << >> \in Seq(Waits) /\ << PayloadOf(part) >> \in Seq(Waits)
          BY <4>1
        <4>4. more \in Seq(Waits)
          BY <4>2, <4>3
        <4> QED
          BY <4>2, <4>4
      <3>2. CASE part.kind # "block"
        BY <1>3, <3>2 DEF Means, Honest
      <3> QED
        BY <3>1, <3>2
    <2> HIDE DEF more, Waits
    <2>3. /\ blocks' \in Seq(Waits)
          /\ Len(blocks') = Len(blocks) + Len(more)
          /\ \A j \in 1 .. Len(blocks) : blocks'[j] = blocks[j]
          /\ \A j \in 1 .. Len(more) : blocks'[Len(blocks) + j] = more[j]
      <3>1. Len(blocks) \in Nat /\ Len(more) \in Nat
        BY <2>1, <2>2
      <3> QED
        BY <2>1, <2>2, <3>1, ConcatProperties
    <2>4. ASSUME NEW i \in 1 .. offset + 1, Honest(said[i]), said[i].data # NoData
          PROVE  \/ \E j \in 1 .. Len(blocks') : blocks'[j] = PayloadOf(said[i])
                 \/ \E j \in 1 .. Len(received) : received[j] = Got(said[i])
      <3>1. Len(blocks) \in Nat /\ Len(more) \in Nat
        BY <2>1, <2>2
      <3>2. CASE i \in 1 .. offset
        <4>1. \/ \E j \in 1 .. Len(blocks) : blocks[j] = PayloadOf(said[i])
              \/ \E j \in 1 .. Len(received) : received[j] = Got(said[i])
          BY <2>4, <3>2 DEF IInv, BlocksSoFar
        <4>2. \A j \in 1 .. Len(blocks) : j \in 1 .. Len(blocks')
          BY <2>3, <3>1
        <4> QED
          BY <2>3, <4>1, <4>2
      <3>3. CASE i = offset + 1
        <4>1. more = << PayloadOf(said[i]) >>
          BY <2>2, <2>4, <3>3
        <4>2. Len(more) = 1 /\ more[1] = PayloadOf(said[i])
          BY <4>1
        <4>3. Len(blocks) + 1 \in 1 .. Len(blocks') /\ blocks'[Len(blocks) + 1] = more[1]
          BY <2>3, <3>1, <4>2
        <4> QED
          BY <4>2, <4>3
      <3> QED
        BY <1>1, <3>2, <3>3
    <2>5. blocks' \in Seq({PayloadOf(said[i]) : i \in BlocksSaid})
      BY <2>3 DEF Waits
    <2>6. BlocksSaid' = BlocksSaid /\ LookedUp' = LookedUp
      BY <1>2 DEF BlocksSaid, LookedUp
    <2>7. received \in Seq(LookedUp)
      BY DEF IInv, BlocksSoFar
    <2> QED
      BY <1>2, <2>4, <2>5, <2>6, <2>7 DEF BlocksSoFar
  <1> QED
    BY <1>4, <1>5, <1>6 DEF IInv

LEMMA DecodeEndsKeeps ==
  ASSUME IInv, DecodeEnds
  PROVE  IInv'
  <1>1. /\ UNCHANGED <<said, message, offset, wantBlocks, blocks, received>>
        /\ phase = "decode" /\ phase' = "blocks"
    BY DEF DecodeEnds
  <1>2. FieldsMeanParts'
    BY <1>1 DEF IInv, FieldsMeanParts
  <1>3. WantsSoFar'
    <2>1. ASSUME offset < Len(message)
          PROVE  said[offset + 1].kind = "pendingBytes"
      <3>1. offset + 1 \in DOMAIN said
        BY <2>1 DEF IInv, FieldsMeanParts, WantsSoFar
      <3>2. Means(message[offset + 1], said[offset + 1])
        BY <3>1 DEF IInv, FieldsMeanParts
      <3> QED
        BY <2>1, <3>2 DEF DecodeEnds, Means
    <2> QED
      BY <1>1, <2>1 DEF IInv, WantsSoFar
  <1>4. BlocksSoFar'
    BY <1>1 DEF IInv, BlocksSoFar, BlocksSaid, LookedUp
  <1> QED
    BY <1>2, <1>3, <1>4 DEF IInv

LEMMA NextBlockKeeps ==
  ASSUME IInv, NextBlock
  PROVE  IInv'
  <1> DEFINE block == Head(blocks)
             cid == PrefixToCid(block)
             found == [cid |-> cid[1], data |-> block.data]
             Waits == {PayloadOf(said[i]) : i \in BlocksSaid}
  <1>1. /\ UNCHANGED <<said, message, offset, wantBlocks, phase>>
        /\ phase = "blocks" /\ blocks # << >>
        /\ blocks' = Tail(blocks)
        /\ received' = IF cid = << >> THEN received ELSE Append(received, found)
    BY DEF NextBlock
  <1>2. FieldsMeanParts' /\ WantsSoFar'
    BY <1>1 DEF IInv, FieldsMeanParts, WantsSoFar
  <1>3. BlocksSoFar'
    <2>1. blocks \in Seq(Waits) /\ received \in Seq(LookedUp)
      BY DEF IInv, BlocksSoFar
    <2>2. /\ blocks' \in Seq(Waits)
          /\ Len(blocks) \in Nat /\ Len(blocks') = Len(blocks) - 1 /\ blocks[1] = block
          /\ \A j \in 1 .. Len(blocks) : j # 1 => j - 1 \in 1 .. Len(blocks') /\ blocks'[j - 1] = blocks[j]
      <3> HIDE DEF Waits
      <3> QED
        BY <1>1, <2>1
    <2>3. PICK k \in BlocksSaid : block = PayloadOf(said[k])
      <3>1. blocks[1] \in Waits
        <4> HIDE DEF Waits
        <4> QED
          BY <1>1, <2>1
      <3> QED
        BY <2>2, <3>1
    <2>4. said[k] \in Blocks
      BY <2>3 DEF BlocksSaid, IInv, FieldsMeanParts
    <2>5. cid # << >> => found \in LookedUp
      <3>1. block.data = said[k].data
        BY <2>3 DEF PayloadOf
      <3>2. cid # << >> => cid[1] \in ToSet(PrefixToCid(PayloadOf(said[k])))
                            /\ cid[1].hash = Sha256(said[k].data)
        BY <2>3, <2>4, CidOfBlock
      <3> HIDE DEF cid, block
      <3>3. cid # << >> => cid[1] \in UNION {ToSet(PrefixToCid(PayloadOf(said[i]))) : i \in BlocksSaid}
        BY <2>3, <3>2
      <3>4. block.data \in {said[i].data : i \in BlocksSaid}
        BY <2>3, <3>1
      <3> QED
        BY <3>1, <3>2, <3>3, <3>4 DEF LookedUp
    <2>6. /\ received' \in Seq(LookedUp)
          /\ Len(received) \in Nat /\ Len(received') \in Nat /\ Len(received) <= Len(received')
          /\ \A j \in 1 .. Len(received) : received'[j] = received[j]
          /\ cid # << >> => /\ Len(received') = Len(received) + 1
                            /\ received'[Len(received')] = found
      <3> HIDE DEF cid, found
      <3>1. CASE cid = << >>
        BY <1>1, <2>1, <3>1
      <3>2. CASE cid # << >>
        <4> HIDE DEF LookedUp
        <4> QED
          BY <1>1, <2>1, <2>5, <3>2, AppendProperties
      <3> QED
        BY <3>1, <3>2
    <2>7. ASSUME NEW i \in 1 .. offset, Honest(said[i]), said[i].data # NoData
          PROVE  \/ \E j \in 1 .. Len(blocks') : blocks'[j] = PayloadOf(said[i])
                 \/ \E j \in 1 .. Len(received') : received'[j] = Got(said[i])
      <3>1. \/ \E j \in 1 .. Len(blocks) : blocks[j] = PayloadOf(said[i])
            \/ \E j \in 1 .. Len(received) : received[j] = Got(said[i])
        BY <2>7 DEF IInv, BlocksSoFar
      <3>2. ASSUME NEW j \in 1 .. Len(received), received[j] = Got(said[i])
            PROVE  j \in 1 .. Len(received') /\ received'[j] = Got(said[i])
        BY <2>6, <3>2
      <3>3. ASSUME NEW j \in 1 .. Len(blocks), blocks[j] = PayloadOf(said[i]), j # 1
            PROVE  j - 1 \in 1 .. Len(blocks') /\ blocks'[j - 1] = PayloadOf(said[i])
        BY <2>2, <3>3
      <3>4. ASSUME block = PayloadOf(said[i])
            PROVE  /\ Len(received') \in 1 .. Len(received')
                   /\ received'[Len(received')] = Got(said[i])
        <4>1. said[i] \in Blocks
          BY <2>7 DEF IInv, FieldsMeanParts, WantsSoFar, Honest
        <4>2. cid # << >> /\ cid[1] = said[i].cid
          BY <2>7, <3>4, <4>1, CidOfBlock
        <4>3. found = Got(said[i])
          BY <3>4, <4>2 DEF Got, PayloadOf
        <4> HIDE DEF cid, found
        <4> QED
          BY <2>6, <4>2, <4>3
      <3> HIDE DEF block
      <3> QED
        BY <2>2, <3>1, <3>2, <3>3, <3>4
    <2>8. BlocksSaid' = BlocksSaid /\ LookedUp' = LookedUp
      BY <1>1 DEF BlocksSaid, LookedUp
    <2> QED
      BY <1>1, <2>2, <2>6, <2>7, <2>8 DEF BlocksSoFar
  <1> QED
    BY <1>2, <1>3 DEF IInv

LEMMA BlocksEndKeeps ==
  ASSUME IInv, BlocksEnd
  PROVE  IInv'
  BY DEF IInv, BlocksEnd, FieldsMeanParts, WantsSoFar, BlocksSoFar, BlocksSaid, LookedUp

-----------------------------------------------------------------------------
(* The theorems.                                                           *)

\* Every field of the message means its part of what was said, the fields read so
\* far have left exactly the wants they mean, and every block read is waiting for
\* its CID or was looked up, whatever cids, data, entries and bounds there are.
THEOREM Invariance == Spec => []IInv
  <1>1. IInv /\ [Next]_vars => IInv'
    <2> SUFFICES ASSUME IInv, [Next]_vars PROVE IInv'
      OBVIOUS
    <2>1. CASE UNCHANGED vars
      BY <2>1 DEF vars, IInv, FieldsMeanParts, WantsSoFar, BlocksSoFar, BlocksSaid, LookedUp
    <2> QED
      BY <2>1, DecodeFieldKeeps, DecodeEndsKeeps, NextBlockKeeps, BlocksEndKeeps DEF Next
  <1> QED
    BY <1>1, InitInv, PTL DEF Spec

\* Where the loop of decodeMessage has ended, what it left unread means nothing to
\* this node, unless a varint field cut the message short.
LEMMA NothingLeftOut ==
  ASSUME IInv, phase = "done", ~CutShort, NEW i \in DOMAIN said, ~(i \in 1 .. offset)
  PROVE  said[i].kind \notin {"wantlist", "block"}
  <1>1. /\ Len(message) \in Nat /\ DOMAIN said = 1 .. Len(message)
        /\ offset \in 0 .. Len(message) /\ offset < i /\ i \in 1 .. Len(message)
    BY DEF IInv, FieldsMeanParts, WantsSoFar
  <1>2. said[offset + 1].kind = "pendingBytes" /\ offset + 1 \in DOMAIN said
    BY <1>1 DEF IInv, WantsSoFar
  <1>3. CASE i = offset + 1
    BY <1>2, <1>3
  <1>4. CASE offset + 1 < i
    BY <1>2, <1>4 DEF CutShort
  <1> QED
    BY <1>1, <1>3, <1>4

\* WantsUnderstood holds for every set of CIDs and entries and for messages of any
\* length: the wants decodeMessage finds are the wants meant, in order.
THEOREM WantsAreUnderstood == Spec => []WantsUnderstood
  <1>1. IInv => WantsUnderstood
    <2> SUFFICES ASSUME IInv, phase = "done", ~CutShort PROVE wantBlocks = Wanted
      BY DEF WantsUnderstood
    <2> DEFINE n == Len(message)
               w == [i \in DOMAIN said |-> WantsOf(said[i])]
               k == offset
    <2>1. n \in Nat /\ k \in 0 .. n /\ DOMAIN said = 1 .. n
      BY DEF IInv, FieldsMeanParts, WantsSoFar
    <2>2. w \in [1 .. n -> Seq(Cids)]
      BY <2>1 DEF IInv, FieldsMeanParts
    <2>3. \A i \in k + 1 .. n : w[i] = << >>
      <3> SUFFICES ASSUME NEW i \in k + 1 .. n PROVE w[i] = << >>
        OBVIOUS
      <3>1. i \in DOMAIN said /\ ~(i \in 1 .. offset)
        BY <2>1
      <3>2. said[i].kind # "wantlist"
        BY <3>1, NothingLeftOut
      <3> QED
        BY <3>1, <3>2 DEF WantsOf
    <2>4. [i \in 1 .. k |-> w[i]] = [i \in 1 .. k |-> WantsOf(said[i])]
      BY <2>1
    <2>5. Wanted = FlattenSeq(w) /\ wantBlocks = FlattenSeq([i \in 1 .. k |-> WantsOf(said[i])])
      BY DEF Wanted, IInv, WantsSoFar
    <2> HIDE DEF n, w, k
    <2>6. FlattenSeq(w) = FlattenSeq([i \in 1 .. k |-> w[i]])
      <3>1. EmptyBeyond(Cids, n, w, k)
        BY <2>1, <2>2, <2>3 DEF EmptyBeyond
      <3> QED
        BY <3>1, FlattenRest
    <2> QED
      BY <2>4, <2>5, <2>6
  <1> QED
    BY <1>1, Invariance, PTL

\* BlocksArrive holds for every set of CIDs and data and for messages of any length:
\* a block is looked up under the CID of its data, and under no wrong one.
THEOREM BlocksDoArrive == Spec => []BlocksArrive
  <1>1. IInv => BlocksArrive
    <2> SUFFICES ASSUME IInv, phase = "done", ~CutShort
                 PROVE  /\ \A i \in DOMAIN said : Honest(said[i]) /\ said[i].data # NoData
                              => Got(said[i]) \in ToSet(received)
                        /\ \A r \in ToSet(received) :
                             r.cid \in Cids => \E i \in DOMAIN said :
                               /\ said[i].kind = "block"
                               /\ said[i].data = r.data
                               /\ r.cid.hash = Sha256(r.data)
      BY DEF BlocksArrive, Honest, Got
    <2>1. blocks = << >> /\ received \in Seq(LookedUp)
      BY DEF IInv, BlocksSoFar
    <2>2. ASSUME NEW i \in DOMAIN said, Honest(said[i]), said[i].data # NoData
          PROVE  Got(said[i]) \in ToSet(received)
      <3>1. i \in 1 .. offset
        BY <2>2, NothingLeftOut DEF Honest
      <3>2. \E j \in 1 .. Len(received) : received[j] = Got(said[i])
        BY <2>1, <2>2, <3>1 DEF IInv, BlocksSoFar
      <3>3. DOMAIN received = 1 .. Len(received)
        BY <2>1
      <3> QED
        BY <3>2, <3>3 DEF ToSet
    <2>3. ASSUME NEW r \in ToSet(received)
          PROVE  \E i \in DOMAIN said :
                   /\ said[i].kind = "block"
                   /\ said[i].data = r.data
                   /\ r.cid.hash = Sha256(r.data)
      <3>1. r \in LookedUp
        <4> HIDE DEF LookedUp
        <4> QED
          BY <2>1, <2>3 DEF ToSet
      <3>2. r.data \in {said[i].data : i \in BlocksSaid} /\ r.cid.hash = Sha256(r.data)
        BY <3>1 DEF LookedUp
      <3> QED
        BY <3>2 DEF BlocksSaid
    <2> QED
      BY <2>2, <2>3
  <1> QED
    BY <1>1, Invariance, PTL
=============================================================================
