------------------------------- MODULE Codec -------------------------------
(***************************************************************************)
(* The generated codec of router.thrift: what a message is written as, and *)
(* what a reader makes of any JSON text, valid or not.                     *)
(*                                                                         *)
(* A JSON text is a tree, <<tag, content>>: spelling, escapes, white space *)
(* and indentation are gone, and so is a refusal's offset.  Reading is by  *)
(* schema: <<unknown, fields>>, where unknown tells what a member of no    *)
(* field of the record comes to (router.thrift's unknown_fields).  A field *)
(* is <<key, kind, required>>, a kind <<tag, argument>>, and the first     *)
(* refusal met from the left is the one returned; a missing field is seen  *)
(* only after the last one read.  Writers and readers are generated apart  *)
(* from each other, and are given apart here: a writer decides what is     *)
(* left out, a reader what may be.                                         *)
(***************************************************************************)
EXTENDS Dates, Sequences, FiniteSets, FiniteSetsExt

CONSTANTS
  BadText,     \* the strings that are not UTF-8
  Int32Max,    \* 2^31 - 1 in the code
  Int64Max,    \* 2^63 - 1
  DepthLimit,  \* depthLimit, 64
  Nil          \* a pointer that points to nothing

Ok(v)      == <<"ok", v>>
Refused(w) == <<"refused", w>>

\* JSON texts.  An odd number is one no integer is spelled as (1.5, 1e3), a
\* time a string that has the form of a time stamp, read as a date of Dates.
Text(w)    == <<"text", w>>
Number(n)  == <<"number", n>>
Odd        == <<"odd", 0>>
Bool(b)    == <<"bool", b>>
Time(t)    == <<"time", t>>
Null       == <<"null", 0>>
Array(ts)  == <<"array", ts>>
Object(ms) == <<"object", ms>>
Junk       == <<"junk", 0>>   \* bytes that no value begins with

-----------------------------------------------------------------------------
(* The reader *)

readText(t) ==
  IF t[1] \notin {"text", "time"} THEN Refused("wrong_type")
  ELSE IF t[1] = "text" /\ t[2] \in BadText THEN Refused("bad_string")
  ELSE Ok(t[2])

readTimestamp(t) ==
  IF readText(t)[1] = "refused" THEN readText(t)
  ELSE IF t[1] = "time" /\ wideTimestamp(t[2]) THEN Ok(t[2])
  ELSE Refused("bad_timestamp")

readInteger(t, greatest) ==
  IF t[1] \notin {"number", "odd"} THEN Refused("wrong_type")
  ELSE IF t[1] = "odd" \/ t[2] \notin -(greatest + 1) .. greatest
    THEN Refused("number_spelling")
  ELSE Ok(t[2])

readBoolean(t) == IF t[1] = "bool" THEN Ok(t[2]) ELSE Refused("wrong_type")

\* The values read, or the first refusal among them.
InOrder(reads) ==
  LET refusals == {i \in DOMAIN reads : reads[i][1] = "refused"}
  IN IF refusals = {} THEN Ok([i \in DOMAIN reads |-> reads[i][2]])
     ELSE reads[Min(refusals)]

\* One level in: decodeList, strList and skipContainer of an array.
readElements(t, depth, Element(_)) ==
  IF t[1] # "array" THEN Refused("wrong_type")
  ELSE IF depth = DepthLimit THEN Refused("depth_exceeded")
  ELSE InOrder([i \in DOMAIN t[2] |-> Element(t[2][i])])

Again(ms, i) == \E j \in 1..(i - 1) : ms[j][1] = ms[i][1]

\* An opaque value is walked, and kept as it is spelled.
RECURSIVE skipValue(_, _)
skipMember(ms, i, depth) ==
  IF ms[i][1] \in BadText THEN Refused("bad_string")
  ELSE IF Again(ms, i) THEN Refused("duplicate_key")
  ELSE skipValue(ms[i][2], depth)

Kept(t, parts) == IF parts[1] = "refused" THEN parts ELSE Ok(t)

skipContainer(t, depth) ==
  IF depth = DepthLimit THEN Refused("depth_exceeded")
  ELSE Kept(t, InOrder([i \in DOMAIN t[2] |->
         IF t[1] = "array" THEN skipValue(t[2][i], depth + 1)
                           ELSE skipMember(t[2], i, depth + 1)]))

skipValue(t, depth) ==
  CASE t[1] = "junk" -> Refused("malformed")
    [] t[1] = "text" /\ t[2] \in BadText -> Refused("bad_string")
    [] t[1] \in {"array", "object"} -> skipContainer(t, depth)
    [] OTHER -> Ok(t)

\* Kinds of field.
AText      == <<"text", "">>
ABool      == <<"bool", "">>
AnInt64    == <<"int64", "">>
AnInt32    == <<"int32", "">>
ATime      == <<"time", "">>
Texts      == <<"texts", "">>
AnyValue   == <<"raw", "">>
AWord      == <<"word", "">>          \* an open vocabulary behind a pointer
OneOf(ws)  == <<"member", ws>>        \* a closed vocabulary
A(schema)      == <<"record", schema>>
ListOf(schema) == <<"records", schema>>

Needs(key, kind) == <<key, kind, TRUE>>
May(key, kind)   == <<key, kind, FALSE>>

\* Schemas.
Refuse(fields) == <<"refuse", fields>>
Grant(fields)  == <<"grant", fields>>
Keys(schema)   == {f[1] : f \in Range(schema[2])}

\* What a field not read holds.
Zero(kind) ==
  CASE kind[1] = "bool" -> FALSE
    [] kind[1] \in {"int32", "int64"} -> 0
    [] kind[1] \in {"texts", "records"} -> <<>>
    [] kind[1] \in {"record", "word", "raw"} -> Nil
    [] OTHER -> ""

FieldOf(schema, key) == CHOOSE f \in Range(schema[2]) : f[1] = key

\* Every generated record reader: the fields in any order, each once, and all
\* that are required.  An unknown member, however often it is there, is walked
\* and dropped by the reader of a record that grants it.
RECURSIVE readRecord(_, _, _)
read(kind, t, depth) ==
  CASE kind[1] \in {"text", "word"} -> readText(t)
    [] kind[1] = "bool"    -> readBoolean(t)
    [] kind[1] = "int64"   -> readInteger(t, Int64Max)
    [] kind[1] = "int32"   -> readInteger(t, Int32Max)
    [] kind[1] = "time"    -> readTimestamp(t)
    [] kind[1] = "raw"     -> skipValue(t, depth)
    [] kind[1] = "member"  -> IF /\ readText(t)[1] = "ok"
                                 /\ readText(t)[2] \notin kind[2]
                              THEN Refused("bad_enum") ELSE readText(t)
    [] kind[1] = "texts"   -> readElements(t, depth, readText)
    [] kind[1] = "record"  -> readRecord(kind[2], t, depth)
    [] kind[1] = "records" -> readElements(t, depth,
                                LAMBDA e : readRecord(kind[2], e, depth + 1))

\* Mutant: every record refuses what it does not know.
readMemberStrict(schema, ms, i, depth) ==
  IF ms[i][1] \in BadText THEN Refused("bad_string")
  ELSE IF ms[i][1] \notin Keys(schema) THEN Refused("unknown_field")
  ELSE IF Again(ms, i) THEN Refused("duplicate_field")
  ELSE read(FieldOf(schema, ms[i][1])[2], ms[i][2], depth)

readMember(schema, ms, i, depth) ==
  IF ms[i][1] \in BadText THEN Refused("bad_string")
  ELSE IF ms[i][1] \notin Keys(schema)
    THEN IF schema[1] = "refuse" THEN Refused("unknown_field")
         ELSE skipValue(ms[i][2], depth)
  ELSE IF Again(ms, i) THEN Refused("duplicate_field")
  ELSE read(FieldOf(schema, ms[i][1])[2], ms[i][2], depth)

\* The record whose members ms were read as "in".
Record(schema, ms, in) ==
  LET seen == {ms[i][1] : i \in DOMAIN ms}
  IN IF in[1] = "refused" THEN in
     ELSE IF \E f \in Range(schema[2]) : f[3] /\ f[1] \notin seen
       THEN Refused("missing_field")
     ELSE Ok([key \in Keys(schema) |->
            IF key \in seen
            THEN in[2][CHOOSE i \in DOMAIN ms : ms[i][1] = key]
            ELSE Zero(FieldOf(schema, key)[2])])

readRecord(schema, t, depth) ==
  IF t[1] # "object" THEN Refused("wrong_type")
  ELSE IF depth = DepthLimit THEN Refused("depth_exceeded")
  ELSE Record(schema, t[2],
         InOrder([i \in DOMAIN t[2] |-> readMember(schema, t[2], i, depth + 1)]))

\* A whole text, of which nothing may be left after the value.
Ended(r, trailing) == IF r[1] = "ok" /\ trailing THEN Refused("trailing_bytes") ELSE r

readAll(kind, text, depth) == Ended(read(kind, text.value, depth), text.trailing)
=============================================================================
