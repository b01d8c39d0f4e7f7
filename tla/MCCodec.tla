------------------------------- MODULE MCCodec -------------------------------
(***************************************************************************)
(* Checks of the codec: a peer hands pgdog messages, one per step, and the *)
(* decoder's result is kept.                                               *)
(*   Transmit(m) : m is written by the encoder of its type and read back   *)
(*                 by the decoder the message's tag selects.               *)
(*   Receive(b)  : a peer sends frame b: a backend's DataRow framed as     *)
(*                 specification 3 prescribes (length -1 for NULL), or a   *)
(*                 client's Parse or Password frame.                       *)
(*   Compare(a, b): two shards' RowDescriptions are compared.             *)
(*   ReadInt(f, v): a backend sends integer v in a column described by f   *)
(*                 (int2, int4 or int8; text or binary format), and        *)
(*                 DataRow::get_int reads it as the field says.            *)
(* Bytes of strings and column values are drawn from a small alphabet; the *)
(* integers include negative values so that the sign survives only if the *)
(* widths are right.                                                       *)
(***************************************************************************)
EXTENDS Codec

CONSTANTS
    Null,         \* a NULL column sent by a backend
    ServerRows,   \* DataRows backends send, as column lists with Null
    ClientFrames, \* frames clients send
    DescPairs     \* pairs of RowDescriptions two shards can return

VARIABLES
    last,    \* which step ran last
    input,   \* its input
    output   \* the decoder's result, or equivalent's answer

vars == <<last, input, output>>

Strs     == {<<>>, <<97>>, <<0>>}
Names    == {<<97>>, <<98>>}
Field(n, oid, size, fmt) ==
    [name |-> n, table_oid |-> 0, column |-> 1, type_oid |-> oid,
     type_size |-> size, type_modifier |-> -1, format |-> fmt]
Fields   == {Field(n, oid, size, fmt) :
                n \in Names, oid \in {23, 25}, size \in {-1, 4}, fmt \in {0, 1}}

UpTo2(S) == {<<>>} \cup {<<x>> : x \in S} \cup {<<x, y>> : x, y \in S}

Messages ==
    {[type |-> "D", columns |-> cs] : cs \in UpTo2(Strs)}
    \cup {[type |-> "T", fields |-> fs] : fs \in UpTo2(Fields)}
    \cup {[type |-> "S", name |-> n, value |-> v] : n \in Names, v \in {<<>>, <<97>>}}
    \cup {[type |-> "P", name |-> n, query |-> q, types |-> ts] :
            n \in {<<>>, <<97>>}, q \in Names, ts \in {<<>>, <<23>>, <<-1>>}}
    \cup {[type |-> "SASLInitialResponse", name |-> n, response |-> r] :
            n \in Names, r \in {<<>>, <<97>>, <<97, 98>>}}
    \cup {[type |-> "SASLResponse", response |-> r] :
            r \in {<<>>, <<97>>, <<97, 98>>}}

\* RowDescriptions of up to two text/integer fields, compared in pairs.
Descs         == UpTo2({Field(n, oid, -1, 0) : n \in Names, oid \in {23, 25}})
SameCountPairs == {p \in Descs \X Descs : Len(p[1]) = Len(p[2])}
AllPairs      == Descs \X Descs

\* Backend rows: values only, or with NULL columns.
ValueRows == UpTo2(Strs)
NullRows  == UpTo2(Strs \cup {Null})

\* The encoder of each message type.
Encode(m) ==
    CASE m.type = "D" -> EncodeDataRow(m.columns)
      [] m.type = "T" -> EncodeRowDescription(m.fields)
      [] m.type = "S" -> EncodeParameterStatus(m.name, m.value)
      [] m.type = "P" -> EncodeParse(m.name, m.query, m.types)
      [] OTHER        -> EncodePassword(m)

\* The decoder the tag byte selects.
Decode(b) ==
    CASE b[1] = TagD -> DecodeDataRow(b)
      [] b[1] = TagT -> DecodeRowDescription(b)
      [] b[1] = TagS -> DecodeParameterStatus(b)
      [] b[1] = TagP -> DecodeParse(b)
      [] OTHER       -> DecodePassword(b)

\* A DataRow as specification 3 frames it: i16 count, then per column an
\* i32 length (-1 for NULL) and the bytes.
SpecDataRow(cs) ==
    Frame(TagD, I16Bytes(Len(cs))
                \o FoldLeft(LAMBDA acc, c : acc \o (IF c = Null THEN I32Bytes(-1)
                                                    ELSE I32Bytes(Len(c)) \o c),
                            <<>>, cs))

\* Integer columns: the three integer types in both formats, and values
\* that cross a digit count, a byte and the sign.
IntFields == {Field(<<97>>, oid, 4, fmt) : oid \in {20, 21, 23}, fmt \in {0, 1}}
IntValues == {-300, -1, 0, 9, 10, 256}

\* How a backend sends v of f's type: text is the decimal digits, binary
\* is big-endian two's complement of the type's width.
IntColumn(f, v) ==
    IF IsTextEncoding(f) THEN DecimalBytes(v)
    ELSE CASE DataType(f) = "SmallInt" -> I16Bytes(v)
           [] DataType(f) = "Integer"  -> I32Bytes(v)
           [] OTHER -> (IF v < 0 THEN <<255, 255, 255, 255>> ELSE <<0, 0, 0, 0>>)
                       \o I32Bytes(v)

\* Client frames that are cut short or carry a negative count: a Parse
\* whose parameter count is -1, a Parse that announces one type and ends,
\* and a SASLInitialResponse that ends two bytes into its length.
MalformedClientFrames ==
    { Frame(TagP, CString(<<97>>) \o CString(<<97>>) \o I16Bytes(-1)),
      Frame(TagP, CString(<<97>>) \o CString(<<97>>) \o I16Bytes(1)),
      Frame(Tagp, CString(<<97>>) \o <<0, 1>>) }

PeerFrames == {SpecDataRow(cs) : cs \in ServerRows} \cup ClientFrames

-----------------------------------------------------------------------------
Init ==
    /\ last = "none"
    /\ input = "none"
    /\ output = "none"

Transmit(m) ==
    /\ last' = "transmit"
    /\ input' = m
    /\ output' = Decode(Encode(m))

Receive(b) ==
    /\ last' = "receive"
    /\ input' = b
    /\ output' = Decode(b)

Compare(p) ==
    /\ last' = "compare"
    /\ input' = p
    /\ output' = Equivalent(p[1], p[2])

ReadInt(f, v) ==
    /\ last' = "readint"
    /\ input' = [field |-> f, value |-> v]
    /\ output' = IF IsInt(f) THEN GetInt(IntColumn(f, v), IsTextEncoding(f))
                 ELSE NoInt

Next ==
    \/ \E m \in Messages : Transmit(m)
    \/ \E f \in IntFields, v \in IntValues : ReadInt(f, v)
    \/ \E p \in DescPairs : Compare(p)

ReceiveNext == \E b \in PeerFrames : Receive(b)

-----------------------------------------------------------------------------
\* Every message pgdog encodes decodes to itself (specification, testable
\* property 6): the i16/i32 widths and signs, the NUL-terminated strings
\* and the order of the fields of each to_bytes agree with its from_bytes.
RoundTrip == last = "transmit" => output = Ok(input)

\* Whatever frame a peer sends, its decoder returns a message or an error
\* and does not panic: a framing error is a ProtocolError that lower
\* layers return (specification 7), and a NULL column is length -1
\* (specification 3). About DataRow::from_bytes, which SortBuffer::add runs
\* on every row of a cross-shard result, and Parse::from_bytes and
\* Password::from_bytes on what clients send.
PeerFramesDecode == last = "receive" => output.res \in {"ok", "error"}

\* Two RowDescriptions are equivalent exactly when they have the same
\* number of fields with the same names and type OIDs, position by
\* position (specification 4.7: a shard whose description differs fails
\* the query). About RowDescription::equivalent.
EquivalentMatchesSpec ==
    last = "compare" =>
        output = (/\ Len(input[1]) = Len(input[2])
                  /\ \A i \in 1..Len(input[1]) :
                        /\ input[1][i].name = input[2][i].name
                        /\ input[1][i].type_oid = input[2][i].type_oid)

\* An integer column reads back as the value the backend sent, whatever
\* its type width and format: DataRow::get_int parses text and reads
\* binary by width, after Field::data_type and is_text_encoding classify
\* the field. About the column values the cross-shard sort compares.
IntColumnsRead == last = "readint" => output = input.value

=============================================================================
