--------------------------------- MODULE Dsn ---------------------------------
(***************************************************************************)
(* What a data source name means (driver/dsn.go): the configuration of a   *)
(* connector, the file its connections open, and the BEGIN of their        *)
(* transactions; and, external, which database SQLite opens for that file. *)
(*                                                                         *)
(* A DSN is [uri, name, query]: whether it begins with file:, what comes   *)
(* then up to a ?, and the parameters after it, a function from names to   *)
(* values.  The name ":memory:" is written out, "" is the empty one, and   *)
(* of other names only a leading / matters.                                *)
(***************************************************************************)
EXTENDS Functions

CONSTANTS
    DSNs,       \* the DSNs given to sql.Open or Driver.Open
    Zones,      \* the names time.LoadLocation knows
    Slashed     \* the names that begin with /

ASSUME DSNsAssumption == \A d \in DSNs : d.uri \in BOOLEAN
ASSUME SlashedAssumption == Slashed \cap {":memory:", ""} = {}

Name(dsn) == [uri |-> dsn.uri, name |-> dsn.name]
Bare == [uri |-> FALSE, name |-> ":memory:"]
InUri == [uri |-> TRUE, name |-> ":memory:"]

Get(q, key) == IF key \in DOMAIN q THEN q[key] ELSE ""

(* External: which database a handle is given for a file.  Without a name  *)
(* it gets one of its own, as it does in memory, and from memdb for a name *)
(* that does not begin with /; a text that is no URI has no parameters.    *)
Unnamed(file) ==
    /\ file.name \in {":memory:", ""}
    /\ file.uri \/ file.query = <<>>
Private(file, vfs) ==
    \/ Unnamed(file)
    \/ file.uri /\ Get(file.query, "mode") = "memory"
    \/ vfs = "memdb" /\ file.name \notin Slashed
DatabaseOf(file, vfs, handle) ==
    IF Private(file, vfs) THEN <<handle, file>> ELSE <<0, file>>

-----------------------------------------------------------------------------
(* Driver parameters.                                                      *)

DriverParams == {"_loc", "_timezone", "_time_format", "_time_integer_format",
                 "_fk", "_foreign_keys", "_txlock", "_busy_timeout", "_unknown"}
Truths == {"1", "t", "T", "TRUE", "true", "True"}
Falsehoods == {"0", "f", "F", "FALSE", "false", "False"}

(* The field of Config that a parameter sets; none sets "rejected".        *)
Field(key) ==
    CASE key \in {"_loc", "_timezone"} -> "Loc"
      [] key = "_time_format" -> "TimeFormat"
      [] key = "_time_integer_format" -> "IntegerTime"
      [] key \in {"_fk", "_foreign_keys"} -> "ForeignKeys"
      [] key = "_txlock" -> "TxLock"
      [] OTHER -> "rejected"

Legal(field) ==
    CASE field = "Loc" -> Zones \cup {"auto"}
      [] field = "TimeFormat" -> {"offset", "utc", "datetime"}
      [] field = "IntegerTime" -> {"unix", "unix_milli", "unix_micro", "unix_nano"}
      [] field = "ForeignKeys" -> Truths \cup Falsehoods
      [] field = "TxLock" -> {"immediate", "deferred", "exclusive"}
      [] OTHER -> {}

Accepted(q) == \A key \in DOMAIN q \cap DriverParams : q[key] \in Legal(Field(key))

(* The values a field may get: of two parameters that set the same field   *)
(* the one that the iteration over the map meets last wins.                *)
Settings(q, field, default) ==
    LET given == {q[key] : key \in {k \in DOMAIN q \cap DriverParams : Field(k) = field}}
    IN  IF given = {} THEN {default} ELSE given

-----------------------------------------------------------------------------
(* ParseDSN.                                                               *)

(* A plain path keeps its question mark, and has no parameters.            *)
TakesQuery(dsn) == dsn.uri \/ dsn.name \in {":memory:", ""}
Parameters(dsn) == IF TakesQuery(dsn) THEN dsn.query ELSE <<>>

(* Memory that nobody named.                                               *)
BareOnly(dsn) == Name(dsn) = Bare
IsMemory(dsn) == Name(dsn) \in {Bare, InUri} \/ Get(Parameters(dsn), "mode") = "memory"

(* What is left of the text once the driver's parameters are taken out.    *)
Empty == [uri |-> FALSE, name |-> "", query |-> <<>>]
Stripped(dsn) ==
    LET q == dsn.query
    IN  [uri |-> dsn.uri, name |-> dsn.name,
         query |-> IF TakesQuery(dsn) THEN Restrict(q, DOMAIN q \ DriverParams) ELSE q]

(* The configurations that ParseDSN may return; none if it fails.          *)
ParseDSN(dsn) ==
    LET q == Parameters(dsn)
        vfs == Get(q, "vfs")
        anonymous == vfs # "memdb" /\ IsMemory(dsn)
    IN  IF ~Accepted(q) \/ Get(q, "cache") # "" THEN {}
        ELSE [Filename : {IF anonymous THEN Empty ELSE Stripped(dsn)},
              VFS : {IF anonymous THEN "memdb" ELSE vfs},
              Memory : {anonymous \/ vfs = "memdb"},
              Persistent : {vfs # "memdb" /\ ~anonymous /\ dsn.name # ""},
              anonymousMemory : {anonymous},
              Loc : Settings(q, "Loc", "UTC"),
              TimeFormat : Settings(q, "TimeFormat", "offset"),
              IntegerTime : Settings(q, "IntegerTime", "none"),
              ForeignKeys : {(v \in Truths) : v \in Settings(q, "ForeignKeys", "true")},
              TxLock : Settings(q, "TxLock", "immediate")]

(* An anonymous database has the name of its connector.                    *)
FilenameFor(cfg, id) ==
    IF cfg.anonymousMemory THEN [uri |-> TRUE, name |-> id, query |-> <<>>]
                           ELSE cfg.Filename

Lazily(cfg) == IF cfg.TxLock = "exclusive" THEN "BEGIN EXCLUSIVE" ELSE "BEGIN DEFERRED"
TxBeginStatement(cfg) ==
    IF cfg.TxLock = "deferred" THEN "BEGIN DEFERRED"
    ELSE IF cfg.TxLock = "exclusive" THEN "BEGIN EXCLUSIVE" ELSE "BEGIN IMMEDIATE"
=============================================================================
