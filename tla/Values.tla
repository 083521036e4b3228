------------------------------- MODULE Values -------------------------------
(***************************************************************************)
(* What becomes of a Go value that one statement binds and another scans   *)
(* from a column: driver/conn.go (CheckNamedValue), convert.go, timefmt.go *)
(* and decltype.go.  The state is a column that one connection writes; any *)
(* other may read it.                                                      *)
(*                                                                         *)
(* The clock is scaled: a minute has Minute seconds, a day Day minutes,    *)
(* and Kilo stands for each factor 1000 between a second and a nanosecond, *)
(* which is the tick.  A text is a sequence: the number of its day, its    *)
(* minute and its second stand for the digits of each, which have a fixed  *)
(* width, and everything else is the code of its byte.                     *)
(***************************************************************************)
EXTENDS Integers, Sequences, FiniteSets

CONSTANTS
    Minute, Day, Kilo,  \* 60, 1440 and 1000 in the code
    Guess,              \* 1e12: an integer beyond it is taken for milliseconds
    MaxInt,             \* the largest int64
    Instants,           \* ticks since the epoch
    Others,             \* driver.Values that are no time: [t, v]
    DeclTypes,          \* declared types: [word, length, upper]
    Configs,            \* of connections: [loc, text, int]
    MaxCells            \* bound: values bound one after another

(* A second within a minute is no code of a zone.                          *)
ASSUME ClockAssumption ==
    /\ {Minute, Day, Kilo} \subseteq Nat \ {0, 1} /\ Minute <= 60
    /\ MaxInt \in Nat /\ Instants \subseteq Int

Nano == Kilo * Kilo * Kilo
(* A time zone, with one change of offset; UTC has none.                   *)
UTC == [before |-> 0, at |-> 0, after |-> 0]
ASSUME ConfigsAssumption ==
    \A c \in Configs : /\ c.loc \in [before : Int, at : Int, after : Int]
                      /\ c.text \in {"offset", "utc", "datetime"}
                      /\ c.int \in {"none", "unix", "milli", "micro", "nano"}
(* What is no time: an integer's value is a number, a bool's a truth value.*)
ASSUME OthersAssumption ==
    \A x \in Others :
        /\ x = [t |-> x.t, v |-> x.v]
        /\ x.t \in {"nil", "nilbytes", "bytes", "bool", "int", "uint64", "real", "string"}
        /\ x.t = "bool" => x.v \in BOOLEAN
        /\ x.t \in {"int", "uint64"} => x.v \in Int

T == 84  Space == 32  Z == 90  Plus == 43  Minus == 45  Dot == 46  Zero == 48

(* The offset of loc, in seconds east of UTC, at second s.                 *)
Offset(loc, s) == IF s < loc.at THEN loc.before ELSE loc.after

-----------------------------------------------------------------------------
(* formatTimeString.                                                       *)

Digits(f) == <<Zero + (f \div (Kilo * Kilo)), Zero + ((f \div Kilo) % Kilo), Zero + (f % Kilo)>>
(* The layout .999999999, which drops trailing zeros, and .000000000.      *)
Shortest(f) ==
    LET n == CHOOSE j \in 0..3 :
                /\ \A i \in (j + 1)..3 : Digits(f)[i] = Zero
                /\ j > 0 => Digits(f)[j] # Zero
    IN  IF n = 0 THEN <<>> ELSE <<Dot>> \o SubSeq(Digits(f), 1, n)
Fraction(f) == <<Dot>> \o Digits(f)

Clock(w) == <<w \div (Minute * Day), T, (w \div Minute) % Day, w % Minute>>

(* Z07:00 prints whole minutes, rounded towards zero.                      *)
Zone(off) ==
    IF off = 0 THEN <<Z>>
    ELSE IF off <= -Minute THEN <<Minus, (-off) \div Minute>>
    ELSE <<Plus, (IF off < 0 THEN -off ELSE off) \div Minute>>

Naive == <<>>
Literal == <<Z>>

FormatTime(t, cfg) ==
    LET s == t \div Nano
        off == Offset(cfg.loc, s)
    IN  CASE cfg.text = "utc"      -> Clock(s) \o Fraction(t % Nano) \o Literal
          [] cfg.text = "datetime" -> Clock(s + off)
          [] cfg.text = "offset"   -> Clock(s + off) \o Fraction(t % Nano) \o Zone(off)

-----------------------------------------------------------------------------
(* parseTimeString.                                                        *)

Zoned(s) == Len(s) >= 6 /\ s[Len(s) - 1] \in {Plus, Minus}
Untimed(s) == IF Zoned(s) THEN SubSeq(s, 1, Len(s) - 2) ELSE s

(* The layouts: both separators, a fraction of any width, an offset or     *)
(* none, no seconds, no time of day.                                       *)
Layout(s) ==
    LET b == Untimed(s)
    IN  \/ Len(s) = 1
        \/ Len(s) = 3 /\ s[2] \in {T, Space}
        \/ /\ Len(b) >= 4 /\ b[2] \in {T, Space}
           /\ Len(b) > 4 => b[5] = Dot /\ \A j \in 6..Len(b) : b[j] - Zero \in 0..(Kilo - 1)

WallClock(s) ==
    s[1] * Day * Minute + (IF Len(s) > 2 THEN s[3] * Minute ELSE 0)
                        + (IF Len(s) > 3 THEN s[4] ELSE 0)
Group(s, j) == IF Len(Untimed(s)) >= j THEN s[j] - Zero ELSE 0
Ticks(s) == Group(s, 6) * (Kilo * Kilo) + Group(s, 7) * Kilo + Group(s, 8)

(* time.Date: a wall clock that a change of offset makes ambiguous, or     *)
(* skips, is read with either offset.                                      *)
InLocation(w, loc) ==
    LET both == {w - loc.before, w - loc.after}
        right == {s \in both : s + Offset(loc, s) = w}
    IN  IF right = {} THEN both ELSE right

(* The instants a text may be read as; none where no layout matches.  A    *)
(* trailing Z is stripped, and the rest read as UTC; the minutes of an     *)
(* offset are no Z.                                                        *)
ParseTime(text, loc) ==
    LET hadZ == text # <<>> /\ ~Zoned(text) /\ text[Len(text)] = Z
        s == IF hadZ THEN SubSeq(text, 1, Len(text) - 1) ELSE text
        sign == IF s[Len(s) - 1] = Plus THEN 1 ELSE -1
        seconds == IF Zoned(s) THEN {WallClock(s) - sign * s[Len(s)] * Minute}
                   ELSE InLocation(WallClock(s), IF hadZ THEN UTC ELSE loc)
    IN  IF ~Layout(s) THEN {} ELSE {x * Nano + Ticks(s) : x \in seconds}

-----------------------------------------------------------------------------
(* integerFromTime, timeFromInteger.                                       *)

PerSecond == [none |-> 1, unix |-> 1, milli |-> Kilo, micro |-> (Kilo * Kilo), nano |-> Nano]

Int64(v) == ((v + MaxInt + 1) % (2 * (MaxInt + 1))) - (MaxInt + 1)
IntegerFromTime(t, f) == Int64(t \div (Nano \div PerSecond[f]))

TimeFromInteger(v, f) ==
    IF f # "none" THEN v * (Nano \div PerSecond[f])
    ELSE IF v > Guess \/ v < -Guess THEN v * (Nano \div Kilo) ELSE v * Nano

-----------------------------------------------------------------------------
(* normalizeDeclType, classifyDeclType.  A declared type is its word, with *)
(* or without a length, in any case and with any space around it.          *)

Normalize(decl) == decl.word

Class(norm) ==
    CASE norm \in {"DATE", "DATETIME", "TIMESTAMP"} -> "time"
      [] norm = "BOOLEAN"                           -> "bool"
      [] OTHER                                      -> "other"

-----------------------------------------------------------------------------
(* CheckNamedValue, encodeValue, decodeValue.  The tag and the value that  *)
(* goes with it are what the column stores: its affinity leaves them.      *)

Accepted(x) == ~(x.t = "uint64" /\ x.v > MaxInt)
CheckNamedValue(x) == IF x.t = "uint64" THEN [t |-> "int", v |-> x.v] ELSE x

(* A []byte that is nil is NULL, one that is empty is an empty blob.       *)
NilBytes == [t |-> "nilbytes", v |-> 0]

EncodeTime(t, cfg) ==
    IF cfg.int # "none" THEN [tag |-> "int", v |-> IntegerFromTime(t, cfg.int)]
    ELSE [tag |-> "text", v |-> FormatTime(t, cfg)]

EncodeValue(x, cfg) ==
    CASE x.t = "nil" \/ x = NilBytes -> [tag |-> "null", v |-> 0]
      [] x.t = "int"    -> [tag |-> "int", v |-> x.v]
      [] x.t = "bool"   -> [tag |-> "int", v |-> IF x.v THEN 1 ELSE 0]
      [] x.t = "real"   -> [tag |-> "real", v |-> x.v]
      [] x.t = "string" -> [tag |-> "text", v |-> x.v]
      [] x.t = "time"   -> EncodeTime(x.v, cfg)
      [] OTHER          -> [tag |-> "blob", v |-> x.v]

NonZero(v) == v # 0

DecodeInt(v, class, cfg) ==
    CASE class = "time" -> [t |-> "time", v |-> TimeFromInteger(v, cfg.int)]
      [] class = "bool" -> [t |-> "bool", v |-> NonZero(v)]
      [] OTHER          -> [t |-> "int", v |-> v]

(* A text in a time column that is no time stays the string it is.         *)
DecodeText(s, class, cfg) ==
    LET times == IF class = "time" THEN ParseTime(s, cfg.loc) ELSE {}
    IN  IF times = {} THEN {[t |-> "string", v |-> s]}
        ELSE {[t |-> "time", v |-> t] : t \in times}

DecodeValue(w, class, cfg) ==
    CASE w.tag = "null" -> {[t |-> "nil", v |-> 0]}
      [] w.tag = "int"  -> {DecodeInt(w.v, class, cfg)}
      [] w.tag = "text" -> DecodeText(w.v, class, cfg)
      [] w.tag = "real" -> {[t |-> "real", v |-> w.v]}
      [] w.tag = "blob" -> {[t |-> "bytes", v |-> w.v]}

-----------------------------------------------------------------------------
(* A column, the values one connection binds into it one after another,    *)
(* and what each stores.                                                   *)

VARIABLES
    decl,       \* the declared type of the column
    writer,     \* the Config of the connection
    column      \* the cells: [x |-> value bound, w |-> what is stored]

columnVars == <<decl, writer, column>>

Bindable == Others \cup [t : {"time"}, v : Instants]

Undeclared == [word |-> "none", length |-> FALSE, upper |-> TRUE]
Default == [loc |-> UTC, text |-> "offset", int |-> "none"]
ColumnInit == decl = Undeclared /\ writer = Default /\ column = <<>>

Declare(d, cfg) ==
    /\ decl' = d /\ writer' = cfg
    /\ UNCHANGED column

Insert(x) ==
    /\ decl # Undeclared /\ Len(column) < MaxCells
    /\ Accepted(x)
    /\ column' = Append(column, [x |-> x, w |-> EncodeValue(CheckNamedValue(x), writer)])
    /\ UNCHANGED <<decl, writer>>

ColumnNext ==
    \/ decl = Undeclared /\ \E d \in DeclTypes, cfg \in Configs : Declare(d, cfg)
    \/ \E x \in Bindable : Insert(x)

-----------------------------------------------------------------------------

Floor(t, unit) == (t \div unit) * unit

(* A second of local time that occurs twice has no text of its own.        *)
Ambiguous(t, loc) ==
    LET s == t \div Nano IN Cardinality(InLocation(s + Offset(loc, s), loc)) > 1

(* The instant that another connection's reader makes of t, or none where  *)
(* none is promised: it counts in other units, it reads a text that names  *)
(* no zone in a zone of its own or at an ambiguous time, the offset had    *)
(* seconds, or no int64 holds the nanoseconds.                             *)
Kept(t, reader) ==
    LET unit == Nano \div PerSecond[writer.int]
    IN  CASE writer.int # "none" ->
               IF reader.int = writer.int /\ (t \div unit) \in (-MaxInt - 1)..MaxInt
               THEN {Floor(t, unit)} ELSE {}
          [] writer.int = "none" /\ writer.text = "utc" -> {t}
          [] writer.int = "none" /\ writer.text = "offset" ->
               IF Offset(writer.loc, t \div Nano) % Minute = 0 THEN {t} ELSE {}
          [] writer.int = "none" /\ writer.text = "datetime" ->
               IF reader.loc = writer.loc /\ ~Ambiguous(t, writer.loc) THEN {Floor(t, Nano)} ELSE {}

(* A time bound through the driver and scanned from a column declared      *)
(* DATE, DATETIME or TIMESTAMP is the same instant, to the precision of    *)
(* what was stored, for every reader whose configuration can tell; any     *)
(* other value is itself, save that all a nil []byte can become is NULL,   *)
(* and that in a BOOLEAN column, and only there, an integer is TRUE unless *)
(* it is 0.                                                                *)
ValuesReadBack ==
    column # <<>> =>
    LET cell == column[Len(column)]
        class == Class(Normalize(decl))
        kind == cell.x.t
    IN  \A reader \in Configs :
        LET back == DecodeValue(cell.w, class, reader)
        IN  CASE kind = "time" /\ class = "time" ->
                   Kept(cell.x.v, reader) = {} \/ back = [t : {"time"}, v : Kept(cell.x.v, reader)]
              [] kind = "nil" \/ cell.x = NilBytes -> back = {[t |-> "nil", v |-> 0]}
              [] kind = "bool" /\ class = "bool" -> back = {cell.x}
              [] kind \in {"int", "uint64"} /\ class # "time" ->
                   back = {IF class = "bool" THEN [t |-> "bool", v |-> cell.x.v # 0]
                                             ELSE [t |-> "int", v |-> cell.x.v]}
              [] kind \in {"bytes", "real"} \/ (kind = "string" /\ class # "time") ->
                   back = {cell.x}
              [] OTHER -> class = "time" \/ \A y \in back : y.t # "time"

(* The byte order of two texts, as SQLite compares them.                   *)
Before(a, b) ==
    \E j \in 1..Len(b) :
       /\ j <= Len(a) + 1 /\ \A i \in 1..(j - 1) : a[i] = b[i]
       /\ j <= Len(a) => a[j] < b[j]

(* The texts of two times in a column sort as the instants do, so that a   *)
(* cursor over it advances: in UTC always, and with an offset where both   *)
(* instants have the same one, whatever their fractions.                   *)
TimesSort ==
    \A i, j \in DOMAIN column :
       LET t == column[i].x.v  u == column[j].x.v
       IN  (/\ column[i].x.t = "time" /\ column[j].x.t = "time" /\ writer.int = "none"
            /\ t < u
            /\ \/ writer.text = "utc"
               \/ /\ writer.text = "offset"
                  /\ Offset(writer.loc, t \div Nano) = Offset(writer.loc, u \div Nano))
           => Before(column[i].w.v, column[j].w.v)
=============================================================================
