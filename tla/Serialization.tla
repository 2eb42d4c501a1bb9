---------------------------- MODULE Serialization ----------------------------
(***************************************************************************)
(* The bytes of a log entry: how a producer writes them                    *)
(* (include/malc/impl/serialization.h, c++11_std_types.hpp), how it counts *)
(* them beforehand, and how the consumer reads them back                   *)
(* (src/malc/serialization.c).                                             *)
(*                                                                         *)
(* An argument is <<type, parts>>. The parts of an integer are its value;  *)
(* of a string or memory that is copied, its length and its bytes; of one  *)
(* passed by reference, its length and its pointer; of a reference         *)
(* destructor, its function and context; of an object, its table and bytes *)
(* with a flag before them when it has one. Integers keep their digits in  *)
(* base ByteValues; any other value is a name, cut in as many bytes as it  *)
(* takes. Objects with a context are left out.                             *)
(***************************************************************************)
EXTENDS Lists, FiniteSets, SequencesExt

CONSTANTS
  ByteValues,  \* values of a byte, 256 in the code
  PtrBytes,    \* MALC_PTR_BYTE_COUNT
  ObjSizeof,   \* the obj_sizeof of each malc_obj_table
  Sites        \* for each malc_const_entry, its sev, format and types

Width == [i8 |-> 1, u8 |-> 1, i16 |-> 2, u16 |-> 2, i32 |-> 4, u32 |-> 4,
          i64 |-> 8, u64 |-> 8, float |-> 4, double |-> 8]

IntTypes == {"i8", "u8", "i16", "u16", "i32", "u32", "i64", "u64"}

\* malc_builtin_compress_count
CompressedTypes(compression) ==
  IF compression THEN {"i32", "u32", "i64", "u64"} ELSE {}

CeilDiv(a, b) == (a + b - 1) \div b

-----------------------------------------------------------------------------
(* Bytes.                                                                   *)

\* How many values n bytes have.
Power[n \in 0..8] == IF n = 0 THEN 1 ELSE ByteValues * Power[n - 1]

\* The n bytes of an integer, the least significant first, in two's complement.
Digits(v, n) ==
  [i \in 1..n |-> <<"digit", (v \div Power[i - 1]) % ByteValues>>]

\* The n bytes of a value that is only copied.
Parts(v, n) == [i \in 1..n |-> <<"part", v, i>>]

\* What bytes hold, read as an unsigned integer or as a value. Bytes that were
\* not written as such hold nothing the program means.
Unsigned(bytes) ==
  IF \A i \in DOMAIN bytes : bytes[i][1] = "digit"
  THEN Total([i \in DOMAIN bytes |-> bytes[i][2] * Power[i - 1]])
  ELSE 0

Whole(bytes) ==
  IF bytes = <<>> THEN "nothing"
  ELSE IF \A i \in DOMAIN bytes : /\ bytes[i][1] = "part"
                                  /\ bytes[i] = <<"part", bytes[1][2], i>>
       THEN bytes[1][2]
       ELSE "garbage"

-----------------------------------------------------------------------------
(* Compressed integers: the bytes above the highest one in use are not      *)
(* written, and a nibble says how many are and if they were complemented.   *)

Complement(v) == -v - 1

Magnitude(v) == IF v < 0 THEN Complement(v) ELSE v

ByteCount(v) ==
  CHOOSE n \in 1..8 : /\ Magnitude(v) < Power[n]
                      /\ n = 1 \/ Magnitude(v) >= Power[n - 1]

FormatNibble(v) == [negative |-> v < 0, size |-> ByteCount(v) - 1]

NoNibble == [negative |-> FALSE, size |-> 0]

HeaderSize(compression, types, has_timestamp) ==
  LET compressed == {i \in DOMAIN types : types[i] \in CompressedTypes(compression)}
      timestamp == IF has_timestamp THEN 1 ELSE 0
  IN IF compression THEN CeilDiv(Cardinality(compressed) + timestamp, 2) ELSE 0

\* Two nibbles share a byte.
Header(n, ints) ==
  LET nibble(k) == IF k <= Len(ints) THEN FormatNibble(ints[k]) ELSE NoNibble
  IN [i \in 1..n |-> <<"nibbles", nibble(2 * i - 1), nibble(2 * i)>>]

-----------------------------------------------------------------------------
(* The producer.                                                            *)

\* malc_size_*, after malc_transform_*
SizeOf(compression, arg) ==
  LET t == arg[1]
      v == arg[2]
  IN CASE t \in CompressedTypes(compression) -> ByteCount(v[1])
       [] t \in DOMAIN Width \ CompressedTypes(compression) -> Width[t]
       [] t \in {"ptr", "lit"} -> PtrBytes
       [] t \in {"strcp", "memcp"} -> Width["u16"] + v[1]
       [] t \in {"strref", "memref"} -> PtrBytes + Width["u16"]
       [] t = "refdtor" -> PtrBytes + PtrBytes
       [] t = "obj" -> PtrBytes + ObjSizeof[v[1]]
       [] t = "obj_flag" -> PtrBytes + ObjSizeof[v[2]] + Width["u8"]

\* malc_serialize_*
Field(compression, arg) ==
  LET t == arg[1]
      v == arg[2]
  IN CASE t \in CompressedTypes(compression) ->
            Digits(Magnitude(v[1]), ByteCount(v[1]))
       [] t \in IntTypes \ CompressedTypes(compression) -> Digits(v[1], Width[t])
       [] t \in {"float", "double"} -> Parts(v[1], Width[t])
       [] t \in {"ptr", "lit"} -> Parts(v[1], PtrBytes)
       [] t \in {"strcp", "memcp"} -> Digits(v[1], 2) \o Parts(v[2], v[1])
       [] t \in {"strref", "memref"} -> Digits(v[1], 2) \o Parts(v[2], PtrBytes)
       [] t = "refdtor" -> Parts(v[1], PtrBytes) \o Parts(v[2], PtrBytes)
       [] t = "obj" -> Parts(v[1], PtrBytes) \o Parts(v[2], ObjSizeof[v[1]])
       [] t = "obj_flag" ->
            Digits(v[1], 1) \o Parts(v[2], PtrBytes)
                            \o Parts(v[3], ObjSizeof[v[2]])

Types(args) == [i \in DOMAIN args |-> args[i][1]]

\* Parts of the size: the arguments, and the timestamp when there is one.
PayloadSize(compression, args) ==
  Total([i \in DOMAIN args |-> SizeOf(compression, args[i])])

TimestampField(call) == <<"u64", <<call.time>>>>

TimestampSize(compression, call, has_timestamp) ==
  IF has_timestamp THEN SizeOf(compression, TimestampField(call)) ELSE 0

\* Mutant of LogEntrySize: the nibbles of the compressed integers are not counted.
LogEntrySizeHeaderless(compression, call, has_timestamp) ==
  PayloadSize(compression, call.args) + PtrBytes
    + TimestampSize(compression, call, has_timestamp)

\* serializer_init and serializer_log_entry_size
LogEntrySize(compression, call, has_timestamp) ==
  PayloadSize(compression, call.args)
    + HeaderSize(compression, Types(call.args), has_timestamp) + PtrBytes
    + TimestampSize(compression, call, has_timestamp)

\* serializer_prepare_external_serializer, then each argument
Serialize(compression, call, has_timestamp) ==
  LET internal == IF has_timestamp THEN <<TimestampField(call)>> ELSE <<>>
      fields == internal \o call.args
      compressed == Select(fields, {i \in DOMAIN fields :
                                      fields[i][1] \in CompressedTypes(compression)})
      ints == [i \in DOMAIN compressed |-> compressed[i][2][1]]
  IN Parts(call.site, PtrBytes)
       \o Header(HeaderSize(compression, Types(call.args), has_timestamp), ints)
       \o FlattenSeq([i \in DOMAIN fields |-> Field(compression, fields[i])])

-----------------------------------------------------------------------------
(* The consumer. A deserializer ds goes over mem, up to end; value holds    *)
(* the parts of the argument being read.                                    *)

Reset(compression, mem, end) ==
  [compression |-> compression, mem |-> mem, end |-> end, pos |-> 0, ok |-> TRUE,
   hdr |-> 0, idx |-> 0, value |-> <<>>,
   site |-> "nothing", time |-> 0, args |-> <<>>, refs |-> <<>>, refdtor |-> <<>>]

\* Memory that was not written holds anything.
Byte(ds, i) == IF i <= Len(ds.mem) THEN ds.mem[i] ELSE <<"unwritten">>

NextBytes(ds, n) == [i \in 1..n |-> Byte(ds, ds.pos + i)]

\* The check against mem_end, then n bytes that hold a value.
Read(ds, n, value) ==
  IF ds.ok /\ ds.pos + n <= ds.end
  THEN [ds EXCEPT !.pos = @ + n, !.value = Append(@, value)]
  ELSE [ds EXCEPT !.ok = FALSE]

ReadInt(ds, n) == Read(ds, n, Unsigned(NextBytes(ds, n)))

ReadWhole(ds, n) == Read(ds, n, Whole(NextBytes(ds, n)))

\* Mutant of DecodeCompressed: a negative value stays complemented.
DecodeCompressedPositive(ds, width) ==
  LET pair == Byte(ds, ds.hdr + ds.idx \div 2 + 1)
      nibble == IF pair[1] = "nibbles" THEN pair[(ds.idx % 2) + 2] ELSE NoNibble
      size == nibble.size + 1
  IN IF size > width THEN [ds EXCEPT !.ok = FALSE]
     ELSE ReadInt([ds EXCEPT !.idx = @ + 1], size)

\* decode_compressed_32 and decode_compressed_64
DecodeCompressed(ds, width) ==
  LET pair == Byte(ds, ds.hdr + ds.idx \div 2 + 1)
      nibble == IF pair[1] = "nibbles" THEN pair[(ds.idx % 2) + 2] ELSE NoNibble
      size == nibble.size + 1
      v == Unsigned(NextBytes(ds, size))
  IN IF size > width THEN [ds EXCEPT !.ok = FALSE]
     ELSE Read([ds EXCEPT !.idx = @ + 1], size,
               IF nibble.negative THEN Power[width] - 1 - v ELSE v)

DecodeInt(ds, t) ==
  IF t \in CompressedTypes(ds.compression)
  THEN DecodeCompressed(ds, Width[t])
  ELSE ReadInt(ds, Width[t])

DecodePtr(ds) == ReadWhole(ds, PtrBytes)

\* decode_strcp and decode_memcp
DecodeCopied(ds) ==
  LET len == DecodeInt(ds, "u16")
  IN IF len.ok THEN ReadWhole(len, len.value[1]) ELSE len

DecodeObj(ds) ==
  LET table == DecodePtr(ds)
      t == Last(table.value)
  IN IF table.ok
     THEN ReadWhole(table, IF t \in DOMAIN ObjSizeof THEN ObjSizeof[t] ELSE 0)
     ELSE table

Decode(ds, t) ==
  CASE t \in IntTypes -> DecodeInt(ds, t)
    [] t \in {"float", "double"} -> ReadWhole(ds, Width[t])
    [] t \in {"ptr", "lit"} -> DecodePtr(ds)
    [] t \in {"strcp", "memcp"} -> DecodeCopied(ds)
    [] t \in {"strref", "memref"} -> DecodePtr(DecodeInt(ds, "u16"))
    [] t = "refdtor" -> DecodePtr(DecodePtr(ds))
    [] t = "obj" -> DecodeObj(ds)
    [] t = "obj_flag" -> DecodeObj(DecodeInt(ds, "u8"))

\* One turn of the loop over the types: a reference is also kept apart, and the
\* destructor is no argument.
DecodeArg(ds, t) ==
  LET d == Decode([ds EXCEPT !.value = <<>>], t)
  IN IF ~ds.ok THEN ds
     ELSE IF ~d.ok THEN d
     ELSE CASE t = "refdtor" -> [d EXCEPT !.refdtor = d.value]
            [] t \in {"strref", "memref"} ->
                 [d EXCEPT !.refs = Append(@, d.value),
                           !.args = Append(@, <<t, d.value>>)]
            [] OTHER -> [d EXCEPT !.args = Append(@, <<t, d.value>>)]

\* deserializer_execute. Without a timestamp the time is that of the consumer: 0
\* stands for it.
Deserialize(compression, mem, end, has_timestamp) ==
  LET entry == DecodePtr(Reset(compression, mem, end))
      site == entry.value[1]
      types == Sites[site].types
      header == [entry EXCEPT
        !.site = site, !.hdr = entry.pos, !.value = <<>>,
        !.pos = @ + HeaderSize(compression, types, has_timestamp)]
      stamp == DecodeInt(header, "u64")
      start == IF ~has_timestamp THEN header
               ELSE IF stamp.ok THEN [stamp EXCEPT !.time = stamp.value[1]]
               ELSE stamp
      read[n \in 0..Len(types)] ==
        IF n = 0 THEN start ELSE DecodeArg(read[n - 1], types[n])
  IN IF ~entry.ok THEN entry
     ELSE IF site \notin DOMAIN Sites THEN [entry EXCEPT !.ok = FALSE]
     ELSE read[Len(types)]
=============================================================================
