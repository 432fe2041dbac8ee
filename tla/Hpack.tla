-------------------------------- MODULE Hpack --------------------------------
(* Header compression of HTTP/2 (src/src/http2/hpack.cpp): the hpack_decoder with
   the dynamic table that lives as long as the connection, and the hpack_encoder.

   The peer that writes the request headers is the encoder RFC 7541 describes: it
   keeps a table of its own and may write every field in any representation.  The
   two tables never travel, so they have to stay equal by doing the same evictions.
   Blocks are real bytes, integers have their real prefixes, and the numbers of the
   tables are the real ones; a string is a sequence of character codes, taken from
   the few characters of Codes.  An entry of the static table stands for itself. *)
EXTENDS Integers, Sequences, SequencesExt

CONSTANTS
  Codes,        \* character -> its bits in huffman_table
  Names, Values,\* the strings the peer writes: [str, huffman]
  Limit,        \* max_dynamic_table_size_ at first
  SizeUpdates,  \* the sizes the peer may change to, at most Limit
  BlockLength,  \* instructions in a block
  Responses     \* header lists for hpack_encoder::encode

VARIABLES
  peer,         \* the peer's [table, max]
  decoder,      \* ours: dynamic_table_, max_dynamic_table_size_, dynamic_table_size_
  block,        \* the header block the peer has written so far
  fieldsSent,   \* the fields in it
  instructions, \* the number of instructions in it
  decoded,      \* decode() took the last block, and got out what was put in
  raised        \* the peer has raised the size of its table again

hpackVars == <<peer, decoder, block, fieldsSent, instructions, decoded, raised>>

StaticSize == 61
StaticEntry(i) == [name |-> <<1000 + i>>, value |-> <<2000 + i>>]

(***************************************************************************)
(* Integers and strings                                                    *)
(***************************************************************************)
RECURSIVE Sevens(_)
Sevens(v) == IF v >= 128 THEN <<(v % 128) + 128>> \o Sevens(v \div 128) ELSE <<v>>

\* hpack_encoder::write_integer.
WriteInteger(v, bits, pattern) ==
  LET mask == 2^bits - 1
  IN  IF v < mask THEN <<pattern + v>> ELSE <<pattern + mask>> \o Sevens(v - mask)

\* A position in a block, with what was read before it.
Fail == [ok |-> FALSE, value |-> 0, pos |-> 0]
Got(v, pos) == [ok |-> TRUE, value |-> v, pos |-> pos]

RECURSIVE Weighted(_)
Weighted(bytes) ==
  IF bytes = <<>> THEN 0 ELSE (Head(bytes) % 128) + 128 * Weighted(Tail(bytes))

\* hpack_decoder::read_integer; the byte before pos holds the prefix.  Its bound
\* on the length is that of a 64-bit integer.
FitsPrefix(v, mask) == v < mask
ReadInteger(d, pos, bits) ==
  LET prefix == d[pos - 1] % 2^bits
      ends == {i \in pos..Len(d) : d[i] < 128}
      last == Min(ends)
  IN  IF FitsPrefix(prefix, 2^bits - 1) THEN Got(prefix, pos)
      ELSE IF ends = {} \/ last - pos > 9 THEN Fail
      ELSE Got(prefix + Weighted(SubSeq(d, pos, last)), last + 1)

RECURSIVE ByteOf(_)
ByteOf(bits) == IF bits = <<>> THEN 0 ELSE 2 * ByteOf(Front(bits)) + Last(bits)

\* huffman_tree::decode: down the tree to the next symbol, or to the padding.
RECURSIVE HuffmanWalk(_, _)
HuffmanWalk(bits, out) ==
  LET next == {c \in DOMAIN Codes : IsPrefix(Codes[c], bits)}
  IN  IF next # {}
        THEN LET c == CHOOSE c \in next : TRUE
             IN  HuffmanWalk(SubSeq(bits, Len(Codes[c]) + 1, Len(bits)), Append(out, c))
      ELSE IF Len(bits) < 8 /\ \A i \in DOMAIN bits : bits[i] = 1 THEN Got(out, 0)
      ELSE Fail
HuffmanDecode(bytes) ==
  HuffmanWalk([i \in 1..(8 * Len(bytes)) |->
                 (bytes[(i + 7) \div 8] \div 2^((8 * Len(bytes) - i) % 8)) % 2], <<>>)

\* hpack_encoder::write_string: the codes, filled up with ones to whole bytes.
PadBit == 1
HuffmanEncode(str) ==
  LET bits == FlattenSeq([i \in DOMAIN str |-> Codes[str[i]]])
      count == (Len(bits) + 7) \div 8
      padded == bits \o [i \in 1..(8 * count - Len(bits)) |-> PadBit]
  IN  [i \in 1..count |-> ByteOf(SubSeq(padded, 8 * i - 7, 8 * i))]

WriteString(str) ==
  LET bytes == HuffmanEncode(str) IN WriteInteger(Len(bytes), 7, 128) \o bytes

RawString(str) == WriteInteger(Len(str), 7, 0) \o str

\* hpack_decoder::read_string.
ReadString(d, pos) ==
  IF pos > Len(d) THEN Fail
  ELSE LET length == ReadInteger(d, pos + 1, 7)
           bytes == SubSeq(d, length.pos, length.pos + length.value - 1)
           str == HuffmanDecode(bytes)
       IN  IF ~length.ok \/ length.value > Len(d) - length.pos + 1 THEN Fail
           ELSE IF d[pos] < 128 THEN Got(bytes, length.pos + length.value)
           ELSE IF str.ok THEN Got(str.value, length.pos + length.value) ELSE Fail

(***************************************************************************)
(* The dynamic table                                                       *)
(***************************************************************************)
EntrySize(e) == Len(e.name) + Len(e.value) + 32
RECURSIVE TableSize(_)
TableSize(t) == IF t = <<>> THEN 0 ELSE EntrySize(Head(t)) + TableSize(Tail(t))

\* hpack_decoder::evict_to_fit, on the oldest entries.
FullOver(c) == c.size >= c.max
Over(c) == c.size > c.max
RECURSIVE EvictToFit(_)
EvictToFit(c) ==
  IF Over(c) /\ c.table # <<>>
    THEN EvictToFit([c EXCEPT !.size = @ - EntrySize(Last(c.table)),
                              !.table = Front(@)])
    ELSE c

\* hpack_decoder::add_to_dynamic_table.
AddToTable(c, e) ==
  EvictToFit([c EXCEPT !.table = <<e>> \o @, !.size = @ + EntrySize(e)])

Resized(c, max) == EvictToFit([c EXCEPT !.max = max])

\* hpack_decoder::lookup_indexed; <<>> is its nullptr.
LookupIndexed(table, i) ==
  CASE i = 0 -> <<>>
    [] i \in 1..StaticSize -> <<StaticEntry(i)>>
    [] i > StaticSize -> IF i - StaticSize \in DOMAIN table THEN <<table[i - StaticSize]>> ELSE <<>>

(***************************************************************************)
(* hpack_decoder::decode                                                   *)
(***************************************************************************)
\* The state of the loop: the decoder, the fields so far, the position.
Broken(s) == [s EXCEPT !.ok = FALSE]

\* A literal: the name by index or in place, then the value.
Literal(d, s, bits, add) ==
  LET index == ReadInteger(d, s.pos + 1, bits)
      entry == LookupIndexed(s.c.table, index.value)
      name == IF index.value = 0 THEN ReadString(d, index.pos)
              ELSE IF entry = <<>> THEN Fail ELSE Got(entry[1].name, index.pos)
      value == ReadString(d, name.pos)
      field == [name |-> name.value, value |-> value.value]
  IN  IF ~index.ok \/ ~name.ok \/ ~value.ok THEN Broken(s)
      ELSE [s EXCEPT !.pos = value.pos, !.fields = Append(@, field),
                     !.c = IF add THEN AddToTable(@, field) ELSE @]

Indexed(d, s) ==
  LET index == ReadInteger(d, s.pos + 1, 7)
      entry == LookupIndexed(s.c.table, index.value)
  IN  IF ~index.ok \/ entry = <<>> THEN Broken(s)
      ELSE [s EXCEPT !.pos = index.pos, !.fields = Append(@, entry[1])]

\* read_size_update: never above the size that is in force now.
ReadSizeUpdate(d, s) ==
  LET size == ReadInteger(d, s.pos + 1, 5)
  IN  IF ~size.ok \/ size.value > s.c.max THEN Broken(s)
      ELSE [s EXCEPT !.pos = size.pos, !.c = Resized(@, size.value)]

RECURSIVE DecodeFrom(_, _)
DecodeFrom(d, s) ==
  IF ~s.ok \/ s.pos > Len(d) THEN s
  ELSE DecodeFrom(d, CASE d[s.pos] >= 128 -> Indexed(d, s)
                       [] d[s.pos] \in 64..127 -> Literal(d, s, 6, TRUE)
                       [] d[s.pos] \in 32..63 -> ReadSizeUpdate(d, s)
                       [] OTHER -> Literal(d, s, 4, FALSE))
Decode(d, c) == DecodeFrom(d, [ok |-> TRUE, pos |-> 1, fields |-> <<>>, c |-> c])

\* hpack_encoder::encode: literals without indexing, with literal names.
Encode(list) ==
  FlattenSeq([i \in DOMAIN list |->
                <<0>> \o WriteString(list[i].name) \o WriteString(list[i].value)])

(***************************************************************************)
(* The connection                                                          *)
(***************************************************************************)
Fresh == [table |-> <<>>, max |-> Limit, size |-> 0]

\* The peer keeps the newest entries that fit, by the definition of the RFC.
SelectFitting(t, max) ==
  SubSeq(t, 1, Max({n \in 0..Len(t) : TableSize(SubSeq(t, 1, n)) <= max}))

Emit(bytes, fields, c) ==
  /\ decoded.ok
  /\ instructions < BlockLength
  /\ instructions' = instructions + 1
  /\ block' = block \o bytes
  /\ fieldsSent' = fieldsSent \o fields
  /\ peer' = c
  /\ UNCHANGED <<decoder, decoded>>

Indices == {StaticSize} \cup {StaticSize + i : i \in DOMAIN peer.table}
Field(i) == LookupIndexed(peer.table, i)[1]
TextOf(t) == IF t.huffman THEN WriteString(t.str) ELSE RawString(t.str)

\* The peer's choices of a representation.  A literal takes its name from Names or
\* from an entry of a table.
EmitIndexed(i) == Emit(WriteInteger(i, 7, 128), <<Field(i)>>, peer) /\ UNCHANGED raised

EmitLiteral(i, name, value, add) ==
  LET field == [name |-> IF i = 0 THEN name.str ELSE Field(i).name, value |-> value.str]
      start == IF add THEN WriteInteger(i, 6, 64)
               ELSE WriteInteger(i, 4, IF value.huffman THEN 0 ELSE 16)
  IN  /\ Emit(start \o (IF i = 0 THEN TextOf(name) ELSE <<>>) \o TextOf(value), <<field>>,
              IF add THEN [peer EXCEPT !.table = SelectFitting(<<field>> \o @, peer.max)]
              ELSE peer)
      /\ UNCHANGED raised

EmitSizeUpdate(n) ==
  /\ Emit(WriteInteger(n, 5, 32), <<>>,
          [table |-> SelectFitting(peer.table, n), max |-> n])
  /\ raised' = (raised \/ n > peer.max)

\* finish_header_block decodes a block when it is complete.  After a failure the stream is
\* answered with 400 and the connection goes on, with the decoder as the failure left it.
Deliver ==
  LET r == Decode(block, decoder)
  IN  /\ instructions > 0
      /\ decoder' = r.c
      /\ decoded' = [ok |-> r.ok, intact |-> r.fields = fieldsSent]
      /\ block' = <<>>
      /\ fieldsSent' = <<>>
      /\ instructions' = 0
      /\ UNCHANGED <<peer, raised>>

\* A response, as a decoder such as ours reads it.
Answer(list) ==
  LET r == Decode(Encode(list), decoder)
  IN  /\ instructions = 0
      /\ decoded.ok
      /\ decoded' = [ok |-> r.ok, intact |-> r.fields = list /\ r.c = decoder]
      /\ UNCHANGED <<peer, decoder, block, fieldsSent, instructions, raised>>

HpackInit ==
  /\ peer = [table |-> <<>>, max |-> Limit]
  /\ decoder = Fresh
  /\ block = <<>>
  /\ fieldsSent = <<>>
  /\ instructions = 0
  /\ decoded = [ok |-> TRUE, intact |-> TRUE]
  /\ raised = FALSE

HpackNext ==
  \/ \E i \in Indices : EmitIndexed(i)
  \/ \E i \in Indices \cup {0}, name \in Names, value \in Values, add \in BOOLEAN :
       EmitLiteral(i, name, value, add)
  \/ \E n \in SizeUpdates : EmitSizeUpdate(n)
  \/ Deliver
  \/ \E list \in Responses : Answer(list)

(***************************************************************************)
(* Properties                                                              *)
(***************************************************************************)
\* Every block decodes to the fields it was written from, in every representation
\* and at every boundary of an integer prefix, over any history of blocks; what
\* hpack_encoder writes is read back, Huffman padding included; and between two
\* blocks the decoder's dynamic table is the peer's, entry for entry, although
\* neither tells the other what it evicted, with dynamic_table_size_ the sum of its
\* entries.  The exception is a peer that lowers its table and raises it again
\* within the limit of the settings: read_size_update compares with the lowered
\* size and ends the connection.
HeadersArrive ==
  ~raised =>
    /\ decoded.ok /\ decoded.intact
    /\ instructions = 0 => /\ decoder.table = peer.table /\ decoder.max = peer.max
                           /\ decoder.size = TableSize(decoder.table) /\ decoder.size <= decoder.max
==============================================================================
