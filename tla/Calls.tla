-------------------------------- MODULE Calls --------------------------------
(***************************************************************************)
(* What the driver and the database worker promise together to a caller of *)
(* ExecContext or QueryContext, without a word about frames, credits,      *)
(* aborts, channels or threads:                                            *)
(*   - statements on one database are executed one at a time and in the    *)
(*     order the calls were made;                                          *)
(*   - rows are handed out only of a statement that has started, and never *)
(*     more of them than it returns;                                       *)
(*   - "eof" is said only when every row was read, and "ok" only when the  *)
(*     statement has been executed to its end.                             *)
(* A caller may leave a call at any time, with an error or by closing it;  *)
(* what becomes of the statement is then nobody's business but the         *)
(* worker's, except that the next one waits for it.                        *)
(***************************************************************************)
EXTENDS Integers

CONSTANTS
    Id, Db,
    Sizes     \* the numbers of rows a statement may return

VARIABLES
    db,       \* the database of each call, 0 before it is made
    call,     \* "none", "waiting", "holding" (Rows) or "over"
    result,   \* what the caller was told at the end
    read,     \* rows handed out
    served,   \* the statement: "todo", "active" or "served"
    size      \* rows it returns

vars == <<db, call, result, read, served, size>>

Init ==
    /\ db = [r \in Id |-> 0]
    /\ call = [r \in Id |-> "none"]
    /\ result = [r \in Id |-> "none"]
    /\ read = [r \in Id |-> 0]
    /\ served = [r \in Id |-> "todo"]
    /\ size = [r \in Id |-> 0]

Make(r, d) ==
    /\ call[r] = "none"
    /\ \A q \in Id : q < r => call[q] # "none"
    /\ db' = [db EXCEPT ![r] = d]
    /\ call' = [call EXCEPT ![r] = "waiting"]
    /\ UNCHANGED <<result, read, served, size>>

(* It is the turn of r on its database.                                    *)
Turn(r) ==
    /\ call[r] # "none" /\ served[r] = "todo"
    /\ \A q \in Id : q < r /\ db[q] = db[r] => served[q] = "served"

Serve(r, n) ==
    /\ Turn(r)
    /\ served' = [served EXCEPT ![r] = "active"]
    /\ size' = [size EXCEPT ![r] = n]
    /\ UNCHANGED <<db, call, result, read>>

Refuse(r) ==
    /\ Turn(r)
    /\ served' = [served EXCEPT ![r] = "served"]
    /\ UNCHANGED <<db, call, result, read, size>>

Served(r) ==
    /\ served[r] = "active"
    /\ served' = [served EXCEPT ![r] = "served"]
    /\ UNCHANGED <<db, call, result, read, size>>

Hold(r) ==
    /\ call[r] = "waiting" /\ served[r] # "todo"
    /\ call' = [call EXCEPT ![r] = "holding"]
    /\ UNCHANGED <<db, result, read, served, size>>

Read(r) ==
    /\ call[r] = "holding" /\ read[r] < size[r]
    /\ read' = [read EXCEPT ![r] = @ + 1]
    /\ UNCHANGED <<db, call, result, served, size>>

End(r, res) ==
    /\ call[r] \in {"waiting", "holding"}
    /\ res = "eof" => call[r] = "holding" /\ read[r] = size[r]
    /\ res = "ok" => call[r] = "waiting" /\ served[r] = "served"
    /\ call' = [call EXCEPT ![r] = "over"]
    /\ result' = [result EXCEPT ![r] = res]
    /\ UNCHANGED <<db, read, served, size>>

Next ==
    \E r \in Id :
        \/ \E d \in Db : Make(r, d)
        \/ \E n \in Sizes : Serve(r, n)
        \/ Refuse(r) \/ Served(r) \/ Hold(r) \/ Read(r)
        \/ \E res \in {"ok", "eof", "error", "closed"} : End(r, res)

Spec == Init /\ [][Next]_vars
=============================================================================
