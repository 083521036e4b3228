------------------------------- MODULE MCCodec -------------------------------
(***************************************************************************)
(* One instance for TLC of the three components that carry values between  *)
(* Go and SQLite: the frames of Wire, the columns of Values, the calls of  *)
(* Script.  They share no state; a behaviour is one of one of them.        *)
(***************************************************************************)
EXTENDS Wire, Values, Script

CodecInit == Init /\ ColumnInit /\ ScriptInit
CodecNext ==
    \/ ColumnInit /\ ScriptInit /\ Next /\ UNCHANGED <<columnVars, scriptVars>>
    \/ Init /\ ScriptInit /\ ColumnNext /\ UNCHANGED <<vars, scriptVars>>
    \/ Init /\ ColumnInit /\ ScriptNext /\ UNCHANGED <<vars, columnVars>>
CodecSpec == CodecInit /\ [][CodecNext]_<<vars, columnVars, scriptVars>>

(* Frames: a byte of eight values, so that a length and an i64 fit TLC's   *)
(* integers, and fields at the edges of their types.                       *)
MCBom == <<7, 6, 5>>
MCThree == <<6, 1, 2>>
MCFour == <<7, 1, 2, 3>>

MCInputs ==
    [t : {"u8"}, v : {7}] \cup [t : {"bool"}, v : BOOLEAN] \cup [t : {"u16"}, v : {63}]
    \cup [t : {"u32"}, v : {8^4 - 1}] \cup [t : {"i32"}, v : {-1, -(8^4 \div 2)}]
    \cup [t : {"i64"}, v : {-2, 8^8 \div 2 - 1}] \cup [t : {"f64"}, v : {8^8 - 1}]
    \cup [t : {"bytes"}, v : {<<>>, <<0, 7>>}]
    \cup [t : {"str"}, v : {<<>>, <<MCBom, <<1>>>>, <<MCThree, MCThree, MCThree>>, <<MCFour>>}]
    \cup [t : {"nstr"}, v : {Null, <<>>, <<MCBom>>}]
    \cup [t : {"null"}, v : {Null}] \cup [t : {"int"}, v : {-1}] \cup [t : {"real"}, v : {5}]
    \cup [t : {"text"}, v : {<<>>, <<MCBom>>}] \cup [t : {"blob"}, v : {<<>>, <<7, 0>>}]

(* Columns: minutes of four seconds, days of three minutes, ten ticks for  *)
(* every factor 1000; zones with a whole offset, with seconds in it, with  *)
(* an hour that occurs twice and one that is skipped.                      *)
Cfg(loc, text, int) == [loc |-> loc, text |-> text, int |-> int]
MCEast == [before |-> 4, at |-> 0, after |-> 4]
MCLmt == [before |-> -5, at |-> 6, after |-> -4]
MCFold == [before |-> 8, at |-> 20, after |-> 4]
MCGap == [before |-> 0, at |-> 13, after |-> 4]
MCConfigs ==
   {Cfg(l, t, "none") : l \in {UTC, MCEast, MCLmt, MCFold, MCGap},
                        t \in {"offset", "utc", "datetime"}}
   \cup {Cfg(UTC, "utc", i) : i \in {"unix", "milli", "micro", "nano"}}
MCDecl == {[word |-> "DATETIME", length |-> FALSE, upper |-> TRUE],
 [word |-> "BOOLEAN", length |-> FALSE, upper |-> FALSE],
 [word |-> "VARCHAR", length |-> TRUE, upper |-> TRUE]}
MCInstants == {-30000, -1, 0, 10, 100, 150, 5500, 18000, 20000, 23001, 99999}
MCOthers ==
  {[t |-> "nil", v |-> 0], NilBytes, [t |-> "bytes", v |-> <<>>],
   [t |-> "bool", v |-> TRUE], [t |-> "bool", v |-> FALSE],
   [t |-> "int", v |-> -1], [t |-> "int", v |-> 0], [t |-> "int", v |-> 7],
   [t |-> "uint64", v |-> 7], [t |-> "uint64", v |-> 40001], [t |-> "real", v |-> 2],
   [t |-> "string", v |-> <<>>], [t |-> "string", v |-> <<5, 7>>]}

(* Calls: scripts of up to two statements, one that SQLite refuses.        *)
Param(name, sigil) == [name |-> name, sigil |-> sigil]
MCHole == Param("?", 1)
MCA == Param("a", 1)
MCParams == {<<>>, <<MCHole>>, <<MCA>>, <<MCHole, MCHole>>, <<MCHole, MCA>>, <<MCA, MCHole>>,
             <<MCA, Param("b", 1)>>, <<Param("a", 2), MCA>>}
MCStatements ==
    [params : MCParams, works : {TRUE}] \cup {[params |-> <<MCHole>>, works |-> FALSE]}
MCScripts == UNION {[1..n -> MCStatements] : n \in 0..2}
MCArgLists == UNION {[1..n -> {"?", "a", "b", "c"}] : n \in 0..4}
=============================================================================
