---------------------------- MODULE EngineCodecs ----------------------------
(***************************************************************************)
(* The two codecs with which engines recode what passes through them.      *)
(*                                                                         *)
(* The chaos framing (engines/chaos/chaos_protocol.py): both ends derive   *)
(* the shape of the wire from the clock, a receiver whose window does not  *)
(* fit a record tries the window before, and the bytes of a record arrive  *)
(* in pieces.  One stream, from one session to another, on one clock.      *)
(*                                                                         *)
(* A seed is what the code takes from the digest of its window: the draw of*)
(* the shape, the length of the padding and the place of the control frame.*)
(* Lengths are in bytes; the bytes of the padding and of a payload stand   *)
(* for values that no header has.  Left out: the record header (the pieces *)
(* of a record know where they belong, so that there is nothing to         *)
(* resynchronise), the size caps, the statistics.                          *)
(*                                                                         *)
(* The erasure codec of the FEC engine (engines/engines/fec.py): parity    *)
(* block i of a group is the exclusive or of the data blocks whose index is*)
(* i modulo the number of parity blocks; blocks are lost on the way. A     *)
(* block is its length and the set of its one bits, so that the zeros it is*)
(* padded with change the length only.                                     *)
(***************************************************************************)
EXTENDS Integers, Sequences, FiniteSets, FiniteSetsExt

CONSTANTS
  Seeds,      \* [draw, length, offset]
  Sizes,      \* sizes of payloads, below 126
  MaxBucket,  \* bound: the last window
  MaxRecords, \* bound: records in the stream
  Blocks,     \* [len, bits]
  DataBlocks  \* data blocks of a group

(* The control frame fits into the padding, and a payload into a length of *)
(* the ws frame that is one byte.                                          *)
ASSUME CodecAssumption ==
  /\ Seeds \subseteq [draw : 0..3, length : Nat, offset : Nat]
  /\ \A s \in Seeds : s.offset + 4 <= s.length
  /\ Sizes \subseteq 0..125 /\ MaxBucket \in Nat /\ MaxRecords \in Nat
  /\ Blocks \subseteq [len : Nat, bits : SUBSET (Nat \ {0})] /\ DataBlocks \in Nat

VARIABLES
  seedOf,   \* the seed of each window: what the shared secret decides
  bucket,   \* the window of now
  sent,     \* history: the records sent, [size, at]
  wire,     \* pieces of records under way
  buffer,   \* the receiving session's buffer, in pieces
  results,  \* what decode has returned for each record: [size, at], "error" as -1
  group,    \* what encode_group made, and of how many parity blocks
  received  \* what arrived of it

chaosVars == <<seedOf, bucket, sent, wire, buffer, results>>
fecVars   == <<group, received>>

FRAMES  == 4
Filler  == 77
Data    == 88
Magic   == 225
Bytes(n, x) == [i \in 1..n |-> x]

-----------------------------------------------------------------------------
(* The schedule.  The window two back decides with the last one whether a  *)
(* shape has stayed for too long.                                          *)
Frame(b) ==
  IF seedOf[b].draw = seedOf[b - 1].draw /\ seedOf[b].draw = seedOf[b - 2].draw
  THEN (seedOf[b].draw + 1 + b) % FRAMES
  ELSE seedOf[b].draw

-----------------------------------------------------------------------------
(* The codecs.  A decoder gives the size of the payload, or -1 for an      *)
(* error.                                                                  *)
Header(frame, n) ==
  CASE frame = 0 -> <<0, 0, n, 0, 0, 0, 0, 0, 1>>   \* http2: length, type, flags, stream
    [] frame = 1 -> <<130, n>>                      \* ws: FIN and opcode, length
    [] frame = 2 -> <<0, 0, 0, 0, n>>               \* grpc: flag, length
    [] frame = 3 -> <<64, 0, n>>                    \* quic: type, length

Framed(frame, n) == Header(frame, n) \o Bytes(n, Data)

Length(frame, f) ==
  CASE frame = 0 -> f[1] * 65536 + f[2] * 256 + f[3]
    [] frame = 1 -> f[2]
    [] frame = 2 -> f[4] * 256 + f[5]
    [] frame = 3 -> f[2] * 256 + f[3]

HeaderFits(frame, f) ==
  /\ Len(f) >= Len(Header(frame, 0))
  /\ \/ frame = 0 /\ f[4] = 0
     \/ frame = 1 /\ f[1] = 130
     \/ frame = 2 /\ f[1] = 0 /\ f[2] = 0 /\ f[3] = 0
     \/ frame = 3 /\ f[1] = 64

Unframed(frame, f) ==
  IF HeaderFits(frame, f) /\ Len(f) - Len(Header(frame, 0)) >= Length(frame, f)
  THEN Length(frame, f)
  ELSE -1

-----------------------------------------------------------------------------
(* A record: padding with the control frame in it, and the framed payload. *)
Control(b) == <<Magic, 23, Frame(b), 200 + Frame(b)>>

EncodePacket(n, b) ==
  LET s == seedOf[b]
  IN Bytes(s.offset, Filler) \o Control(b) \o Bytes(s.length - s.offset - 4, Filler)
     \o Framed(Frame(b), n)

DecodePacket(r, b) ==
  LET s == seedOf[b]
  IN IF s.length + 1 <= Len(r) /\ SubSeq(r, s.offset + 1, s.offset + 4) = Control(b)
     THEN Unframed(Frame(b), SubSeq(r, s.length + 1, Len(r)))
     ELSE -1

(* Mutant of Decoded: no second try.                                       *)
DecodedOnce(r) == DecodePacket(r, bucket)

(* The window of now, then the one before.                                 *)
Decoded(r) ==
  IF DecodePacket(r, bucket) # -1 THEN DecodePacket(r, bucket) ELSE DecodePacket(r, bucket - 1)

-----------------------------------------------------------------------------
ChaosInit ==
  /\ seedOf \in [-2..MaxBucket -> Seeds]
  /\ bucket = 0 /\ sent = <<>> /\ wire = <<>> /\ buffer = <<>> /\ results = <<>>

ChaosTick ==
  /\ bucket < MaxBucket
  /\ bucket' = bucket + 1
  /\ UNCHANGED <<seedOf, sent, wire, buffer, results>>

(* A record goes out in two pieces.                                        *)
Encode(n) ==
  /\ Len(sent) < MaxRecords
  /\ sent' = Append(sent, [size |-> n, at |-> bucket])
  /\ wire' = wire \o <<EncodePacket(n, bucket), <<>>>>
  /\ UNCHANGED <<seedOf, bucket, buffer, results>>

(* Received bytes go behind the buffer; one record is taken from it, when  *)
(* it is whole, and what follows waits for the next bytes.  An error ends  *)
(* the connection.                                                         *)
Receive(k) ==
  LET all == buffer \o SubSeq(wire, 1, k)
  IN /\ k \in 1..Len(wire)
     /\ \A i \in 1..Len(results) : results[i].size # -1
     /\ wire' = SubSeq(wire, k + 1, Len(wire))
     /\ IF Len(all) < 2
        THEN buffer' = all /\ UNCHANGED results
        ELSE /\ buffer' = SubSeq(all, 3, Len(all))
             /\ results' = Append(results, [size |-> Decoded(all[1]), at |-> bucket])
     /\ UNCHANGED <<seedOf, bucket, sent>>

-----------------------------------------------------------------------------
ChaosTypeOK ==
  /\ bucket \in 0..MaxBucket
  /\ Len(results) <= Len(sent) /\ Len(sent) <= MaxRecords
  /\ Len(wire) + Len(buffer) + 2 * Len(results) = 2 * Len(sent)

(* Windows whose control frames are alike although the padding is not.     *)
Alike(a, b) ==
  /\ Frame(a) = Frame(b) /\ seedOf[a].offset = seedOf[b].offset
  /\ seedOf[a].length # seedOf[b].length

(* "a record encoded right before a switch still decodes": records come out*)
(* in the order in which they went in, each as what it was, if it is read  *)
(* in its window or in the next, whatever the pieces it came in; the       *)
(* exception is a window that takes the record for one of its own.         *)
RecordsDecode ==
  \A i \in 1..Len(results) :
    (results[i].at - sent[i].at <= 1 /\ ~Alike(results[i].at, sent[i].at))
      => results[i].size = sent[i].size

(* "Decoders additionally retry with the PREVIOUS window's parameters so a *)
(* record encoded right before a switch still decodes": without exception. *)
BoundaryDecodes ==
  \A i \in 1..Len(results) :
    results[i].at - sent[i].at <= 1 => results[i].size = sent[i].size

-----------------------------------------------------------------------------
(* Parity groups.                                                          *)
Lost == [len |-> 0, bits |-> {0}]   \* None
LongestOf(bs) == Max({b.len : b \in bs})
Padded(b, n) == [b EXCEPT !.len = n]

(* The bits that an odd number of the blocks have.                         *)
XorOf(bs, is) ==
  {b \in UNION {bs[i].bits : i \in is} : Cardinality({i \in is : b \in bs[i].bits}) % 2 = 1}

(* Mutant of ClassOf: the classes are runs of neighbours.                  *)
ClassOfRuns(i, k, n) == {j \in 1..n : (j * k) \div n = (i * k) \div n}

(* The data blocks that share the parity block of block i.                 *)
ClassOf(i, k, n) == {j \in 1..n : (j - 1) % k = (i - 1) % k}
ParityOf(i, k, n) == n + 1 + ((i - 1) % k)

(* encode_group.                                                           *)
Encoded(data, k) ==
  LET size == LongestOf({data[i] : i \in DOMAIN data}) IN
  data \o [p \in 1..k |-> [len  |-> size,
                           bits |-> XorOf(data, {j \in DOMAIN data : (j - 1) % k = p - 1})]]

(* decode_group: the lost blocks in their order, each from its parity and  *)
(* the others of its class, the recovered ones among them; <<>> for None.  *)
(* max() of a group of which nothing arrived raises: <<Lost>> is that.     *)
Recovered(blocks, k) ==
  LET n      == Len(blocks) - k
      size   == LongestOf({blocks[i] : i \in DOMAIN blocks} \ {Lost})
      Lift(b) == IF b = Lost THEN b ELSE Padded(b, size)
      Step(i, out) ==
        LET others == ClassOf(i, k, n) \ {i}
            parity == blocks[ParityOf(i, k, n)]
        IN CASE out = <<>> -> out
             [] out # <<>> /\ out[i] # Lost -> out
             [] OTHER ->
                  IF parity = Lost \/ \E j \in others : out[j] = Lost THEN <<>>
                  ELSE [out EXCEPT ![i] =
                          [len  |-> size,
                           bits |-> XorOf(Append(out, parity), others \cup {n + 1})]]
      Fold[i \in 0..n] == IF i = 0 THEN [j \in 1..n |-> Lift(blocks[j])] ELSE Step(i, Fold[i - 1])
  IN CASE \A i \in DOMAIN blocks : blocks[i] = Lost -> <<Lost>>
       [] \A i \in 1..n : blocks[i] # Lost -> SubSeq(blocks, 1, n)
       [] OTHER -> Fold[n]

FecInit ==
  /\ group \in UNION {[data : [1..n -> Blocks], parity : 1..n] : n \in 1..DataBlocks}
  /\ received = Encoded(group.data, group.parity)

LoseBlock(i) ==
  /\ received[i] # Lost
  /\ received' = [received EXCEPT ![i] = Lost]
  /\ UNCHANGED group

-----------------------------------------------------------------------------
(* fec.py: "a single lost data block is always recoverable from its        *)
(* group's parity when only one block is missing", and "Returns recovered  *)
(* blocks or None when recovery is not possible": whatever is lost, a group*)
(* is recovered when each of its classes with a loss lost one block of     *)
(* itself and its parity, and then to what was sent, padded with zeros;    *)
(* and nothing is returned for any other, but of which all was lost.       *)
FecHolds ==
  LET k == group.parity  n == Len(group.data)
      size == LongestOf({group.data[i] : i \in 1..n})
      lost == {i \in 1..n : received[i] = Lost}
      possible == \A i \in lost : /\ ClassOf(i, k, n) \cap lost = {i}
                                  /\ received[ParityOf(i, k, n)] # Lost
  IN Recovered(received, k) =
       CASE \A i \in DOMAIN received : received[i] = Lost -> <<Lost>>
         [] lost = {} -> group.data
         [] lost # {} /\ possible -> [i \in 1..n |-> Padded(group.data[i], size)]
         [] OTHER -> <<>>
=============================================================================
