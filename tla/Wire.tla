-------------------------------- MODULE Wire --------------------------------
(***************************************************************************)
(* The codec of the frames: binding/wire/codec.go and wire.go on the Go    *)
(* side, src/wire.ts on the worker's.  The same fields are written by both *)
(* halves, by wire.ts into a buffer of its own that it grows and patches,  *)
(* and a frame of either half is read by both, field by field, whole or    *)
(* damaged: cut short, or with one byte replaced.                          *)
(*                                                                         *)
(* A byte has Base values (256 in the code), so a u32 has Base^4 and an    *)
(* i64 Base^8.  A float is its 64-bit pattern.  A string is a sequence of  *)
(* characters, each the sequence of its UTF-8 bytes, one to four of them.  *)
(***************************************************************************)
EXTENDS Integers, Sequences, FiniteSetsExt

CONSTANTS
    Base,       \* values of a byte
    Null,       \* an absent string, a NULL
    Bom,        \* the character U+FEFF, three bytes
    Hint,       \* FrameWriter's hint for the size of the payload
    Inputs,     \* the fields a frame is made of: [t |-> type, v |-> value]
    MaxFields,  \* bound: fields of a frame after its count
    Spoils      \* bytes a damaged frame may have in the place of its own

Byte == 0..(Base - 1)
Char == UNION {[1..n -> Byte] : n \in 1..4}

(* A number of 1, 2, 4 or 8 bytes has Size(n) values.                      *)
Size2 == Base * Base
Size4 == Size2 * Size2
Size8 == Size4 * Size4
Size(n) == CASE n = 1 -> Base [] n = 2 -> Size2 [] n = 4 -> Size4 [] n = 8 -> Size8

Version == 1
HeaderSize == 8
Absent == Size4 - 1                         \* absentLen, ABSENT
Width == [u8 |-> 1, u16 |-> 2, u32 |-> 4, i32 |-> 4, i64 |-> 8, f64 |-> 8]
TagNull == 0  TagInt == 1  TagReal == 2  TagText == 3  TagBlob == 4

(* Little-endian, two's complement; and back.                              *)
LE2(v) == <<v % Base, (v \div Base) % Base>>
LE4(v) == LE2(v) \o LE2(v \div Size2)
LE8(v) == LE4(v) \o LE4(v \div Size4)
LE(n, v) ==
    CASE n = 1 -> <<v % Base>> [] n = 2 -> LE2(v) [] n = 4 -> LE4(v) [] n = 8 -> LE8(v)
Word2(s, i) == s[i] + Base * s[i + 1]
Word4(s, i) == Word2(s, i) + Size2 * Word2(s, i + 2)
Word8(s, i) == Word4(s, i) + Size4 * Word4(s, i + 4)
UInt(s) ==
    CASE Len(s) = 0 -> 0
      [] Len(s) = 1 -> s[1]
      [] Len(s) = 2 -> Word2(s, 1)
      [] Len(s) = 4 -> Word4(s, 1)
      [] Len(s) = 8 -> Word8(s, 1)
Unsigned(t, s) == UInt(s)
Number(t, s) ==
    LET u == UInt(s)
    IN  IF t \in {"i32", "i64"} /\ u >= Size(Width[t]) \div 2
        THEN u - Size(Width[t]) ELSE u

(* The bytes of the first n characters; and their UTF-16 code units, of    *)
(* which a character of four bytes has a surrogate pair.                   *)
Prefix(chars) ==
    LET enc[n \in 0..Len(chars)] == IF n = 0 THEN <<>> ELSE enc[n - 1] \o chars[n] IN enc
Counted(chars) ==
    LET count[n \in 0..Len(chars)] ==
            IF n = 0 THEN 0 ELSE count[n - 1] + (IF Len(chars[n]) = 4 THEN 2 ELSE 1)
    IN  count
Utf8(chars) == Prefix(chars)[Len(chars)]
Units(chars) == Counted(chars)[Len(chars)]

(* What a field of each type may be: a length is below that of an absent   *)
(* string.                                                                 *)
Unsigneds(n) == 0..(Size(n) - 1)
Signeds(n) == (Size(n) \div 2 - Size(n))..(Size(n) \div 2 - 1)
IsBytes(v) == v \in Seq(Byte) /\ Len(v) < Absent
IsString(v) == v \in Seq(Char) /\ Len(Utf8(v)) < Absent
IsField(f) ==
    \/ f.t \in {"u8", "u16", "u32", "f64"} /\ f.v \in Unsigneds(Width[f.t])
    \/ f.t \in {"i32", "i64"} /\ f.v \in Signeds(Width[f.t])
    \/ f.t = "int" /\ f.v \in Signeds(8)
    \/ f.t = "real" /\ f.v \in Unsigneds(8)
    \/ f.t = "bool" /\ f.v \in BOOLEAN
    \/ f.t \in {"bytes", "blob"} /\ IsBytes(f.v)
    \/ f.t \in {"str", "text"} /\ IsString(f.v)
    \/ f.t = "nstr" /\ (f.v = Null \/ IsString(f.v))
    \/ f.t = "null" /\ f.v = Null

ASSUME BaseAssumption == Base \in Nat /\ Base > 5
ASSUME BoundAssumption == Hint \in Nat \ {0} /\ MaxFields \in 0..(Size4 - 1)
ASSUME SpoilsAssumption == Spoils \subseteq Byte
ASSUME InputsAssumption == \A f \in Inputs : IsField(f)
ASSUME NullAssumption == Null \notin Seq(Byte) /\ Null \notin Seq(Char)

-----------------------------------------------------------------------------
(* Writer, codec.go: the buffer simply grows.                              *)

GoBytes(s) == LE(4, Len(s)) \o s

GoField(f) ==
    CASE f.t \in DOMAIN Width -> LE(Width[f.t], f.v)
      [] f.t = "bool"         -> <<IF f.v THEN 1 ELSE 0>>
      [] f.t = "bytes"        -> GoBytes(f.v)
      [] f.t = "str"          -> GoBytes(Utf8(f.v))
      [] f.t = "nstr"         -> IF f.v = Null THEN LE(4, Absent) ELSE GoBytes(Utf8(f.v))
      [] f.t = "null"         -> <<TagNull>>
      [] f.t = "int"          -> <<TagInt>> \o LE(8, f.v)
      [] f.t = "real"         -> <<TagReal>> \o LE(8, f.v)
      [] f.t = "text"         -> <<TagText>> \o GoBytes(Utf8(f.v))
      [] f.t = "blob"         -> <<TagBlob>> \o GoBytes(f.v)

GoHeader(op, flags, id) == <<Version, op>> \o LE(2, flags) \o LE(4, id)

(* The count of the rows comes first, and what was appended of them.       *)
GoFrame(op, flags, id, count, b) == GoHeader(op, flags, id) \o LE(4, count) \o b

-----------------------------------------------------------------------------
(* FrameWriter, wire.ts: buf is the backing buffer, n its used length.  A  *)
(* write past the end of buf throws, or, by encodeInto, stops early.       *)

Zeros(n) == [j \in 1..n |-> 0]
NewWriter(op, id) ==
    [buf |-> GoHeader(op, 0, id) \o Zeros(Hint), n |-> HeaderSize, threw |-> FALSE]

(* Doubled until it fits.                                                  *)
Doubled(need) == LET cap[c \in Nat] == IF need <= c THEN c ELSE cap[2 * c] IN cap
Grow(w, need) ==
    LET cap == Doubled(w.n + need)[Len(w.buf)]
    IN  [w EXCEPT !.buf = @ \o Zeros(cap - Len(w.buf))]

Poke(w, at, s) ==
    IF at + Len(s) > Len(w.buf) THEN [w EXCEPT !.threw = TRUE]
    ELSE [w EXCEPT !.buf = [j \in DOMAIN w.buf |->
                            IF j \in (at + 1)..(at + Len(s)) THEN s[j - at] ELSE w.buf[j]]]
Put(w, s) ==
    LET p == Poke(w, w.n, s) IN IF p.threw THEN p ELSE [p EXCEPT !.n = @ + Len(s)]
PutFixed(w, s) == Put(Grow(w, Len(s)), s)

PutBytes(w, s) ==
    LET h == PutFixed(w, LE(4, Len(s)))
    IN  Put(Grow(h, Len(s)), s)

ReserveUnits(chars) == 4 + Units(chars)
Reserve(chars) == 4 + 3 * Units(chars)

(* encodeInto writes the whole characters that fit.                        *)
PutStr(w, chars) ==
    LET g == Grow(w, Reserve(chars))
        room == Len(g.buf) - (g.n + 4)
        fit == Max({j \in 0..Len(chars) : Len(Prefix(chars)[j]) <= room} \cup {0})
    IN  Put(g, GoBytes(Prefix(chars)[fit]))

PutField(w, f) ==
    CASE f.t \in DOMAIN Width -> PutFixed(w, LE(Width[f.t], f.v))
      [] f.t = "bool"         -> PutFixed(w, <<IF f.v THEN 1 ELSE 0>>)
      [] f.t = "bytes"        -> PutBytes(w, f.v)
      [] f.t = "str"          -> PutStr(w, f.v)
      [] f.t = "nstr"         -> IF f.v = Null THEN PutFixed(w, LE(4, Absent)) ELSE PutStr(w, f.v)
      [] f.t = "null"         -> PutFixed(w, <<TagNull>>)
      [] f.t = "int"          -> PutFixed(PutFixed(w, <<TagInt>>), LE(8, f.v))
      [] f.t = "real"         -> PutFixed(PutFixed(w, <<TagReal>>), LE(8, f.v))
      [] f.t = "text"         -> PutStr(PutFixed(w, <<TagText>>), f.v)
      [] f.t = "blob"         -> PutBytes(PutFixed(w, <<TagBlob>>), f.v)

SetFlags(w, flags) == Poke(w, 2, LE(2, flags))
PatchU32(w, at, v) == Poke(w, at, LE(4, v))

-----------------------------------------------------------------------------
(* Reader, codec.go: r.i bytes are behind it, r.v is what it read last.    *)
(* The first failure is sticky, and what is read after it is zero.         *)

GoFail(r, why) == [r EXCEPT !.err = why, !.v = <<>>]

Take(b, r, n) ==
    IF r.err # "none" THEN [r EXCEPT !.v = <<>>]
    ELSE IF Len(b) - r.i < n THEN GoFail(r, "short")
    ELSE [r EXCEPT !.i = @ + n, !.v = SubSeq(b, r.i + 1, r.i + n)]

GoNum(b, r, t) ==
    LET s == Take(b, r, Width[t]) IN [s EXCEPT !.v = Number(t, @)]

Bytes(b, r) ==
    LET n == GoNum(b, r, "u32")
    IN  IF n.err # "none" THEN [n EXCEPT !.v = <<>>]
        ELSE IF n.v = Absent THEN GoFail(n, "absent")
        ELSE Take(b, n, n.v)

NullString(b, r) ==
    LET n == GoNum(b, r, "u32")
    IN  IF n.err # "none" \/ n.v = Absent THEN [n EXCEPT !.v = Null]
        ELSE Take(b, n, n.v)

AnyTag(b, r) == GoNum(b, r, "u8")
GoTag(b, r) ==
    LET t == GoNum(b, r, "u8")
    IN  IF t.err = "none" /\ t.v > TagBlob THEN [t EXCEPT !.err = "tag"] ELSE t

(* A tag and the value that follows it, as decodeValue takes them.         *)
GoValue(b, r) ==
    LET t == GoTag(b, r)
    IN  CASE t.v = TagInt             -> GoNum(b, t, "i64")
          [] t.v = TagReal            -> GoNum(b, t, "f64")
          [] t.v \in {TagText, TagBlob} -> Bytes(b, t)
          [] OTHER                    -> [t EXCEPT !.v = Null]

Values == {"null", "int", "real", "text", "blob"}

GoRead(b, r, t) ==
    CASE t \in DOMAIN Width   -> GoNum(b, r, t)
      [] t = "bool"           -> LET n == GoNum(b, r, "u8") IN [n EXCEPT !.v = @ # 0]
      [] t \in {"bytes", "str"} -> Bytes(b, r)
      [] t = "nstr"           -> NullString(b, r)
      [] t \in Values         -> GoValue(b, r)

NewReader == [i |-> 0, err |-> "none", v |-> <<>>]

HeaderOf(b) == [flags |-> UInt(SubSeq(b, 3, 4)), id |-> UInt(SubSeq(b, 5, 8))]
ReadHeader(b) ==
    IF Len(b) < HeaderSize THEN GoFail(NewReader, "short")
    ELSE IF b[1] # Version THEN GoFail(NewReader, "version")
    ELSE [NewReader EXCEPT !.i = HeaderSize, !.v = HeaderOf(b)]

-----------------------------------------------------------------------------
(* FrameReader, wire.ts: what cannot be read throws, and its caller reads  *)
(* no further.                                                             *)

Threw(r) == [r EXCEPT !.err = "threw", !.v = <<>>]

NeedLate(b, r, n) ==
    IF r.err # "none" THEN r
    ELSE IF Len(b) - r.i < n THEN [Threw(r) EXCEPT !.i = @ + n]
    ELSE [r EXCEPT !.i = @ + n, !.v = SubSeq(b, r.i + 1, r.i + n)]
Need(b, r, n) ==
    IF r.err # "none" \/ Len(b) - r.i < n THEN Threw(r)
    ELSE [r EXCEPT !.i = @ + n, !.v = SubSeq(b, r.i + 1, r.i + n)]

JsNum(b, r, t) ==
    LET s == Need(b, r, Width[t])
    IN  IF s.err = "none" THEN [s EXCEPT !.v = Number(t, @)] ELSE s

JsBytes(b, r) ==
    LET n == JsNum(b, r, "u32")
    IN  IF n.err = "none" /\ n.v = Absent THEN Threw(n)
        ELSE IF n.err = "none" THEN Need(b, n, n.v) ELSE n

(* TextDecoder takes a leading U+FEFF for a byte order mark, not for text. *)
Decode(s) == IF Len(s) >= 3 /\ SubSeq(s, 1, 3) = Bom THEN SubSeq(s, 4, Len(s)) ELSE s
JsStr(r) == IF r.err = "none" THEN [r EXCEPT !.v = Decode(@)] ELSE r

JsNstr(b, r) ==
    LET n == JsNum(b, r, "u32")
    IN  IF n.err # "none" THEN n
        ELSE IF n.v = Absent THEN [n EXCEPT !.v = Null]
        ELSE JsStr(Need(b, n, n.v))

(* A tag and the value that follows it, as readArgs and bindArgs take them *)
JsValue(b, r) ==
    LET t == JsNum(b, r, "u8")
    IN  IF t.err # "none" \/ t.v > TagBlob THEN Threw(t)
        ELSE CASE t.v = TagInt  -> JsNum(b, t, "i64")
               [] t.v = TagReal -> JsNum(b, t, "f64")
               [] t.v \in {TagText, TagBlob} -> JsBytes(b, t)
               [] t.v = TagNull -> [t EXCEPT !.v = Null]

JsRead(b, r, t) ==
    CASE t \in DOMAIN Width -> JsNum(b, r, t)
      [] t = "bool"  -> LET n == JsNum(b, r, "u8")
                        IN  IF n.err = "none" THEN [n EXCEPT !.v = @ # 0] ELSE n
      [] t = "bytes" -> JsBytes(b, r)
      [] t = "str"   -> JsStr(JsBytes(b, r))
      [] t = "nstr"  -> JsNstr(b, r)
      [] t \in Values -> JsValue(b, r)

JsHeader(b) ==
    IF Len(b) < HeaderSize \/ b[1] # Version THEN Threw(NewReader)
    ELSE [NewReader EXCEPT !.i = HeaderSize, !.v = HeaderOf(b)]

-----------------------------------------------------------------------------
(* A frame of counted rows, as runQuery fills it: the count is reserved    *)
(* before them, and patched with the flags when the batch is full.         *)

VARIABLES
    phase,      \* "write", "full", "sent", "read" or "refused" by its header
    fields,     \* what was written after the count
    flags,      \* the flags of the header
    gs,         \* what the Go Writer has appended of them
    ts,         \* the FrameWriter
    frame,      \* the bytes posted
    damage,     \* what happened to them: "none", "cut" or "spoilt"
    got,        \* fields read of the payload, the count included
    go, js      \* the two readers

vars == <<phase, fields, flags, gs, ts, frame, damage, got, go, js>>

Rows == 5  \* an opcode and a request id; both fit a byte of the instance
Id == Base + 2
Detached == [buf |-> <<>>, n |-> 0, threw |-> FALSE]
Payload == <<[t |-> "u32", v |-> Len(fields)]>> \o fields

Init ==
    /\ phase = "write" /\ fields = <<>> /\ flags = 0
    /\ gs = <<>> /\ ts = PutFixed(NewWriter(Rows, Id), LE(4, 0))
    /\ frame = <<>> /\ damage = "none"
    /\ got = 0 /\ go = NewReader /\ js = NewReader

Write(f) ==
    /\ phase = "write" /\ Len(fields) < MaxFields
    /\ fields' = Append(fields, f)
    /\ gs' = gs \o GoField(f)
    /\ ts' = PutField(ts, f)
    /\ UNCHANGED <<phase, flags, frame, damage, got, go, js>>

Flush(fl) ==
    /\ phase = "write" /\ phase' = "full"
    /\ flags' = fl
    /\ ts' = PatchU32(SetFlags(ts, fl), HeaderSize, Len(fields))
    /\ UNCHANGED <<fields, gs, frame, damage, got, go, js>>

Appended == GoFrame(Rows, flags, Id, Len(fields), gs)
Written == {SubSeq(ts.buf, 1, ts.n), Appended}

Cut(b) == {SubSeq(b, 1, n) : n \in 0..(Len(b) - 1)}
Spoil(b) == {[b EXCEPT ![j] = x] : j \in DOMAIN b, x \in Spoils} \ {b}

Post ==
    /\ phase = "full" /\ phase' = "sent"
    /\ \E b \in Written :
          \/ damage' = "none" /\ frame' = b
          \/ damage' = "cut" /\ frame' \in Cut(b)
          \/ damage' = "spoilt" /\ frame' \in Spoil(b)
    /\ ts' = Detached
    /\ UNCHANGED <<fields, flags, gs, got, go, js>>

Open ==
    /\ phase = "sent"
    /\ go' = ReadHeader(frame) /\ js' = JsHeader(frame)
    /\ phase' = IF go'.err = "none" THEN "read" ELSE "refused"
    /\ UNCHANGED <<fields, flags, gs, ts, frame, damage, got>>

Read ==
    /\ phase = "read" /\ got < Len(Payload)
    /\ got' = got + 1
    /\ go' = GoRead(frame, go, Payload[got'].t)
    /\ js' = IF js.err = "none" THEN JsRead(frame, js, Payload[got'].t) ELSE js
    /\ UNCHANGED <<phase, fields, flags, gs, ts, frame, damage>>

Next ==
    \/ \E f \in Inputs : Write(f)
    \/ \E fl \in {0, 1, 2, 3} : Flush(fl)
    \/ Post
    \/ Open
    \/ Read

Spec == Init /\ [][Next]_vars

-----------------------------------------------------------------------------

Reader(r) ==
    /\ r.i \in 0..Len(frame)
    /\ r.err \in {"none", "short", "version", "absent", "tag", "threw"}

(* Types.  A writer stays inside its buffer and a reader inside its frame, *)
(* whatever the lengths in the frame say.                                  *)
TypeOK ==
    /\ phase \in {"write", "full", "sent", "read", "refused"}
    /\ Len(fields) <= MaxFields /\ flags \in 0..3
    /\ ts.n \in 0..Len(ts.buf)
    /\ gs \in Seq(Byte) /\ frame \in Seq(Byte)
    /\ got \in 0..Len(Payload)
    /\ Reader(go) /\ Reader(js)

(* The worker's writer, which grows, reserves and patches, writes the very *)
(* bytes the Go writer appends for the same fields.                        *)
WrittenAlike ==
    /\ ~ts.threw
    /\ phase = "full" => SubSeq(ts.buf, 1, ts.n) = Appended

Meant(f) ==
    CASE f.t \in {"str", "text"} -> Utf8(f.v)
      [] f.t = "nstr" -> IF f.v = Null THEN Null ELSE Utf8(f.v)
      [] f.t = "null" -> Null
      [] OTHER        -> f.v
Heard(f) == IF f.t \in {"str", "nstr"} /\ Meant(f) # Null THEN Decode(Meant(f)) ELSE Meant(f)

(* What one half wrote both halves read, field by field and to the end of  *)
(* the frame; only a leading byte order mark is lost on the worker.        *)
ReadBack ==
    (damage = "none" /\ phase = "read") =>
       /\ go.err = "none" /\ js.err = "none"
       /\ go.v = IF got = 0 THEN [flags |-> flags, id |-> Id] ELSE Meant(Payload[got])
       /\ js.v = IF got = 0 THEN [flags |-> flags, id |-> Id] ELSE Heard(Payload[got])
       /\ got = Len(Payload) => go.i = Len(frame) /\ js.i = Len(frame)

(* A damaged frame fails in both halves at the same field, and what they   *)
(* read before it is the same; one that was cut never passes for whole.    *)
DamageSeenAlike ==
    /\ (go.err = "none") = (js.err = "none")
    /\ go.err = "none" => go.i = js.i /\ (go.v = js.v \/ Decode(go.v) = js.v)
    /\ (damage = "cut" /\ phase = "read" /\ got = Len(Payload)) => go.err # "none"
=============================================================================
