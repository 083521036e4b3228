-------------------------------- MODULE MCConn --------------------------------
(* Instances of Conn for TLC: which contexts end while their calls wait.   *)
EXTENDS Conn

(* With shared memory not those of BeginTx, without it not those of Rows;  *)
(* the two runs that expect a violation show why.                          *)
MCSparing == [c \in BOOLEAN |-> IF c THEN {"reset", "exec", "first", "rows"}
                                     ELSE Calls]
MCAnywhere == [c \in BOOLEAN |-> Calls \cup {"rows"}]
=============================================================================
