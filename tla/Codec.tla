------------------------------- MODULE Codec -------------------------------
(***************************************************************************)
(* net/messages: encoding and decoding of the PostgreSQL wire messages     *)
(* pgdog inspects: DataRow, RowDescription, ParameterStatus, Parse and the *)
(* SASL Password messages.                                                 *)
(*                                                                         *)
(* Bytes are integers 0..255, a frame a sequence of them. Fixed-width      *)
(* integers keep their width: i16 and i32 are written big-endian in two's  *)
(* complement and read back with their sign. A decoder returns             *)
(*   [res |-> "ok", msg |-> m], [res |-> "error"] (UnexpectedMessage), or  *)
(*   [res |-> "panic"] (a Buf::get_* past the end of the buffer).          *)
(*                                                                         *)
(* Payload (net/messages/payload.rs) and c_string_buf (net/mod.rs) are not *)
(* among the sources; their framing is taken from specification 3:         *)
(* [tag][length:i32 including itself][payload], strings NUL-terminated.    *)
(***************************************************************************)
EXTENDS Integers, Sequences, SequencesExt

\* Message tags, as bytes.
TagD == 68    \* 'D' DataRow
TagT == 84    \* 'T' RowDescription
TagS == 83    \* 'S' ParameterStatus
TagP == 80    \* 'P' Parse
Tagp == 112   \* 'p' Password

Ok(m)  == [res |-> "ok", msg |-> m]
Err    == [res |-> "error"]
Panic  == [res |-> "panic"]

\* Option::None of an integer read from a column.
NoInt  == "none"

-----------------------------------------------------------------------------
(* Fixed-width integers (BufMut::put_i16/put_i32, Buf::get_i16/get_i32).   *)

I16Bytes(x) == LET u == x % 65536 IN <<u \div 256, u % 256>>

I32Bytes(x) ==
    LET lo == x % 65536
        hi == (x \div 65536) % 65536
    IN  <<hi \div 256, hi % 256, lo \div 256, lo % 256>>

\* Mutant: the i16 is read without its sign.
GetI16Unsigned(b) == b[1] * 256 + b[2]

GetI16(b) ==
    LET u == b[1] * 256 + b[2]
    IN  IF u >= 32768 THEN u - 65536 ELSE u

GetI32(b) ==
    LET hi == b[1] * 256 + b[2]
        lo == b[3] * 256 + b[4]
    IN  IF hi >= 32768 THEN (hi - 65536) * 65536 + lo ELSE hi * 65536 + lo

Drop(b, k) == SubSeq(b, k + 1, Len(b))

-----------------------------------------------------------------------------
(* Payload and c_string_buf (specification 3).                             *)

\* Payload::named(tag) ... freeze(): tag, then the length of everything
\* after the tag.
Frame(tag, payload) == <<tag>> \o I32Bytes(Len(payload) + 4) \o payload

\* Payload::put_string: the bytes, then NUL.
CString(s) == s \o <<0>>

\* c_string_buf: the bytes up to the first NUL, which is consumed; all of
\* the buffer when there is none.
CStringBuf(b) ==
    LET k == SelectInSeq(b, LAMBDA x : x = 0)
    IN  IF k = 0 THEN [str |-> b, rest |-> <<>>]
        ELSE [str |-> SubSeq(b, 1, k - 1), rest |-> Drop(b, k)]

\* The code! macro and the skipped length: the payload after the header,
\* or the tag found.
Body(b) == Drop(b, 5)

-----------------------------------------------------------------------------
(* data_row.rs                                                             *)

\* DataRow::to_bytes: column count as i16, then [len:i32][bytes] each.
EncodeDataRow(cols) ==
    Frame(TagD, I16Bytes(Len(cols))
                \o FoldLeft(LAMBDA acc, c : acc \o I32Bytes(Len(c)) \o c,
                            <<>>, cols))

\* The column loop of DataRow::from_bytes: `get_i32() as usize` bytes per
\* column. A negative length cast to usize is at least 2^63, beyond any
\* buffer, so the byte loop reads past the end.
RECURSIVE DecodeColumns(_, _)
DecodeColumns(b, n) ==
    IF n <= 0 THEN [ok |-> TRUE, cols |-> <<>>]
    ELSE IF Len(b) < 4 THEN [ok |-> FALSE]
    ELSE LET len == GetI32(b)
         IN  IF len < 0 \/ len > Len(b) - 4 THEN [ok |-> FALSE]
             ELSE LET rest == DecodeColumns(Drop(b, 4 + len), n - 1)
                  IN  IF rest.ok
                      THEN [ok |-> TRUE,
                            cols |-> <<SubSeq(b, 5, 4 + len)>> \o rest.cols]
                      ELSE rest

\* DataRow::from_bytes; `0..get_i16()` is empty for a negative count.
DecodeDataRow(b) ==
    IF b[1] # TagD THEN Err
    ELSE LET p == Body(b)
             d == DecodeColumns(Drop(p, 2), GetI16(p))
         IN  IF Len(p) < 2 \/ ~d.ok THEN Panic
             ELSE Ok([type |-> "D", columns |-> d.cols])

\* ToDataRowColumn for i64 and usize: to_string, the decimal digits with a
\* leading '-' for a negative value.
RECURSIVE Digits(_)
Digits(n) == IF n < 10 THEN <<48 + n>> ELSE Digits(n \div 10) \o <<48 + (n % 10)>>

DecimalBytes(v) == IF v < 0 THEN <<45>> \o Digits(-v) ELSE Digits(v)

\* str::parse::<i64> on the column's bytes: an optional sign, then one or
\* more decimal digits and nothing else; None otherwise. (Values stay in
\* the range the model's columns use, far inside i64.)
ParseInt(b) ==
    LET sign == IF b # <<>> /\ b[1] \in {43, 45} THEN 1 ELSE 0
        ds   == Drop(b, sign)
        val  == FoldLeft(LAMBDA acc, d : acc * 10 + (d - 48), 0, ds)
    IN  IF ds = <<>> \/ \E i \in 1..Len(ds) : ds[i] \notin 48..57 THEN NoInt
        ELSE IF sign = 1 /\ b[1] = 45 THEN -val ELSE val

\* Buf::get_i64 on 8 bytes; the model's values fit in 32 bits, so the high
\* half is the sign extension of the low half.
GetI64(b) == GetI32(Drop(b, 4))

\* Mutant: a binary column is read as i32 whatever its width.
GetIntAnyWidth(col, text) ==
    IF text THEN ParseInt(col)
    ELSE IF Len(col) >= 4 THEN GetI32(col) ELSE NoInt

\* DataRow::get_int: a text column is parsed, a binary one read by width
\* (2, 4 or 8 bytes), any other width is None.
GetInt(col, text) ==
    IF text THEN ParseInt(col)
    ELSE CASE Len(col) = 2 -> GetI16(col)
           [] Len(col) = 4 -> GetI32(col)
           [] Len(col) = 8 -> GetI64(col)
           [] OTHER        -> NoInt

-----------------------------------------------------------------------------
(* row_description.rs                                                      *)

\* One Field, as RowDescription::to_bytes writes it.
FieldBytes(f) ==
    CString(f.name) \o I32Bytes(f.table_oid) \o I16Bytes(f.column)
    \o I32Bytes(f.type_oid) \o I16Bytes(f.type_size)
    \o I32Bytes(f.type_modifier) \o I16Bytes(f.format)

EncodeRowDescription(fields) ==
    Frame(TagT, I16Bytes(Len(fields))
                \o FoldLeft(LAMBDA acc, f : acc \o FieldBytes(f), <<>>, fields))

\* The field loop of RowDescription::from_bytes: a name, then 18 bytes of
\* fixed-width attributes.
RECURSIVE DecodeFields(_, _)
DecodeFields(b, n) ==
    IF n <= 0 THEN [ok |-> TRUE, fields |-> <<>>]
    ELSE LET nm == CStringBuf(b)
             a  == nm.rest
         IN  IF Len(a) < 18 THEN [ok |-> FALSE]
             ELSE LET f == [name |-> nm.str, table_oid |-> GetI32(a),
                            column |-> GetI16(Drop(a, 4)),
                            type_oid |-> GetI32(Drop(a, 6)),
                            type_size |-> GetI16(Drop(a, 10)),
                            type_modifier |-> GetI32(Drop(a, 12)),
                            format |-> GetI16(Drop(a, 16))]
                      rest == DecodeFields(Drop(a, 18), n - 1)
                  IN  IF rest.ok
                      THEN [ok |-> TRUE, fields |-> <<f>> \o rest.fields]
                      ELSE rest

DecodeRowDescription(b) ==
    IF b[1] # TagT THEN Err
    ELSE LET p == Body(b)
             d == DecodeFields(Drop(p, 2), GetI16(p))
         IN  IF Len(p) < 2 \/ ~d.ok THEN Panic
             ELSE Ok([type |-> "T", fields |-> d.fields])

\* Field::is_text_encoding: format code 0.
IsTextEncoding(f) == f.format = 0

\* Field::data_type: the type OIDs pgdog knows; any other is Other(oid).
DataType(f) ==
    CASE f.type_oid = 16   -> "Bool"
      [] f.type_oid = 20   -> "Bigint"
      [] f.type_oid = 23   -> "Integer"
      [] f.type_oid = 21   -> "SmallInt"
      [] f.type_oid \in {25, 1043} -> "Text"
      [] f.type_oid = 700  -> "Real"
      [] f.type_oid = 701  -> "DoublePrecision"
      [] f.type_oid = 1114 -> "Timestamp"
      [] f.type_oid = 1184 -> "TimestampTz"
      [] f.type_oid = 1186 -> "Interval"
      [] OTHER             -> "Other"

\* Field::is_int.
IsInt(f) == DataType(f) \in {"Bigint", "Integer", "SmallInt"}

\* RowDescription::equivalent: the fields the two lists have in common by
\* position (zip) agree on name and type OID.
Equivalent(a, b) ==
    \A i \in 1..Min({Len(a), Len(b)}) :
        a[i].name = b[i].name /\ a[i].type_oid = b[i].type_oid

-----------------------------------------------------------------------------
(* parameter_status.rs, parse.rs, auth/password.rs                         *)

EncodeParameterStatus(name, value) ==
    Frame(TagS, CString(name) \o CString(value))

DecodeParameterStatus(b) ==
    IF b[1] # TagS THEN Err
    ELSE LET n == CStringBuf(Body(b))
             v == CStringBuf(n.rest)
         IN  Ok([type |-> "S", name |-> n.str, value |-> v.str])

EncodeParse(name, query, types) ==
    Frame(TagP, CString(name) \o CString(query) \o I16Bytes(Len(types))
                \o FoldLeft(LAMBDA acc, t : acc \o I32Bytes(t), <<>>, types))

\* Parse::from_bytes: `get_i16() as usize` parameter types; a negative count
\* cast to usize is at least 2^48, beyond any buffer.
DecodeParse(b) ==
    IF b[1] # TagP THEN Err
    ELSE LET n   == CStringBuf(Body(b))
             q   == CStringBuf(n.rest)
             r   == q.rest
             cnt == IF Len(r) < 2 THEN -1 ELSE GetI16(r)
         IN  IF cnt < 0 \/ Len(r) < 2 + 4 * cnt THEN Panic
             ELSE Ok([type |-> "P", name |-> n.str, query |-> q.str,
                      types |-> [i \in 1..cnt |-> GetI32(Drop(r, 2 + 4 * (i - 1)))]])

\* Password::to_bytes: SASLInitialResponse writes the mechanism name, the
\* response length and the raw response; SASLResponse the raw response.
EncodePassword(m) ==
    IF m.type = "SASLInitialResponse"
    THEN Frame(Tagp, CString(m.name) \o I32Bytes(Len(m.response)) \o m.response)
    ELSE Frame(Tagp, m.response)

\* Password::from_bytes: bytes left after the first string make it an
\* initial response; a negative length means no response.
DecodePassword(b) ==
    IF b[1] # Tagp THEN Err
    ELSE LET c == CStringBuf(Body(b))
         IN  IF c.rest = <<>>
             THEN Ok([type |-> "SASLResponse", response |-> c.str])
             ELSE IF Len(c.rest) < 4 THEN Panic
             ELSE Ok([type |-> "SASLInitialResponse", name |-> c.str,
                      response |-> IF GetI32(c.rest) >= 0
                                   THEN CStringBuf(Drop(c.rest, 4)).str
                                   ELSE <<>>])

=============================================================================
