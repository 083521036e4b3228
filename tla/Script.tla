------------------------------- MODULE Script -------------------------------
(***************************************************************************)
(* How the arguments of a call reach the parameters of its statements on   *)
(* the worker (worker/index.ts): EXEC runs a script, whose statements take *)
(* the arguments one after another; EXEC_STMT, QUERY and QUERY_STMT run    *)
(* one statement, which takes them all.  The arguments were numbered from  *)
(* 1 by database/sql and written in that order (argsWriter, driver/conn.go)*)
(* so an argument is its name, and its value is its number; 0 is the NULL  *)
(* of a parameter that nothing was bound to.                               *)
(*                                                                         *)
(* A statement is its parameters, numbered from 1, with their names, and   *)
(* whether SQLite can execute it.                                          *)
(***************************************************************************)
EXTENDS Integers, Sequences, FiniteSetsExt

CONSTANTS
    Names,      \* of parameters and of arguments
    Anonymous,  \* the name of a ?, and of an argument that is not Named
    Scripts,    \* sequences of statements
    ArgLists    \* sequences of names

(* A name that is not Anonymous has a sigil, ':', '@' or '$' in this       *)
(* order, and SQLite makes one parameter of all that are spelled the same. *)
Params == [name : Names, sigil : 1..3]
Statements ==
    {stmt \in [params : Seq(Params), works : BOOLEAN] :
        \A i, j \in DOMAIN stmt.params :
            stmt.params[i] = stmt.params[j] /\ i # j => stmt.params[i].name = Anonymous}

ASSUME CallsAssumption == Scripts \subseteq Seq(Statements) /\ ArgLists \subseteq Seq(Names)

VARIABLES
    op,         \* "exec", or "one" for a statement of its own
    script, args,
    at,         \* runExec's at: arguments consumed
    ran,        \* for each statement executed, its parameters' values
    outcome     \* "none", "running", or what is answered: "ok" or "error"

scriptVars == <<op, script, args, at, ran, outcome>>

ScriptInit ==
    /\ op = "exec" /\ script = <<>> /\ args = <<>>
    /\ at = 0 /\ ran = <<>> /\ outcome = "none"

(* A request is taken from the wire.                                       *)
Request(s, a) ==
    /\ outcome' = "running"
    /\ script' = s /\ args' = a
    /\ op' \in {"exec", "one"} /\ (op' = "one" => Len(s) = 1)
    /\ UNCHANGED <<at, ran>>

(* The arguments have no sigil: where parameters differ in nothing else,   *)
(* paramIndex finds the one whose sigil it tries first.                    *)
First(params, i) ==
    \A j \in DOMAIN params :
        params[j].name = params[i].name => params[i].sigil <= params[j].sigil

(* paramIndex: the parameter that has this name, 0 if there is none.       *)
ParamIndex(stmt, name) ==
    LET found == {i \in DOMAIN stmt.params :
                     stmt.params[i].name = name /\ First(stmt.params, i)}
    IN  IF found = {} THEN 0 ELSE CHOOSE i \in found : TRUE

Failed == <<-1>>

(* The parameter that argument n is bound to, by its name or, as the k-th  *)
(* of those that are bound, by its place.                                  *)
Target(stmt, n, k) == IF args[n] = Anonymous THEN k ELSE ParamIndex(stmt, args[n])

(* bindDecoded: count arguments after the first from are bound one after   *)
(* another, so that the last one for a parameter stays, and one for no     *)
(* parameter, which SQLite or the worker refuses, fails the statement.     *)
BindDecoded(stmt, from, count) ==
    LET for(i) == {k \in 1..count : Target(stmt, from + k, k) = i}
    IN  IF \E k \in 1..count : Target(stmt, from + k, k) \notin DOMAIN stmt.params
        THEN Failed
        ELSE [i \in DOMAIN stmt.params |-> IF for(i) = {} THEN 0 ELSE from + Max(for(i))]

BindAll(stmt) == BindDecoded(stmt, 0, Len(args))
(* bindArgs: all the arguments, and too few of them are refused, except    *)
(* where one of them is named.                                             *)
BindArgs(stmt) ==
    LET bound == BindAll(stmt)
        positional == Cardinality({k \in DOMAIN args : args[k] = Anonymous})
    IN  IF positional = Len(args) /\ Len(args) < Len(stmt.params) THEN Failed ELSE bound

Answer(how) == outcome' = how

(* The next statement of the script, in forEachStatement.                  *)
Needs(stmt) == Len(stmt.params)
Statement ==
    LET stmt == script[Len(ran) + 1]
        bound == BindDecoded(stmt, at, Needs(stmt))
    IN  /\ op = "exec" /\ outcome = "running" /\ Len(ran) < Len(script)
        /\ IF at + Needs(stmt) > Len(args) \/ bound = Failed \/ ~stmt.works
           THEN Answer("error") /\ UNCHANGED <<at, ran>>
           ELSE /\ at' = at + Needs(stmt)
                /\ ran' = Append(ran, bound)
                /\ UNCHANGED outcome
        /\ UNCHANGED <<op, script, args>>

(* The end of the script: one without statements answers whatever the      *)
(* arguments; in any other none may be left.                               *)
End ==
    /\ op = "exec" /\ outcome = "running" /\ Len(ran) = Len(script)
    /\ Answer(IF script # <<>> /\ at < Len(args) THEN "error" ELSE "ok")
    /\ UNCHANGED <<op, script, args, at, ran>>

One ==
    LET stmt == script[1]
        bound == BindArgs(stmt)
    IN  /\ op = "one" /\ outcome = "running"
        /\ IF bound = Failed \/ ~stmt.works
           THEN Answer("error") /\ UNCHANGED ran
           ELSE Answer("ok") /\ ran' = <<bound>>
        /\ UNCHANGED <<op, script, args, at>>

ScriptNext ==
    \/ outcome = "none" /\ \E s \in Scripts, a \in ArgLists : Request(s, a)
    \/ Statement \/ End \/ One

-----------------------------------------------------------------------------

Positional(slice) == \A n \in slice : args[n] = Anonymous
Named(slice) == \A m, n \in slice : args[m] # Anonymous /\ (m # n => args[m] # args[n])

(* What a statement must see in its parameters when its share of the       *)
(* arguments is the ones after from up to to.                              *)
Meets(params, bound, from, to) ==
    LET mine == (from + 1)..to
    IN  /\ Positional(mine) => /\ to - from = Len(params)
                               /\ bound = [i \in DOMAIN params |-> from + i]
        /\ Named(mine) => \A i \in DOMAIN params :
              IF First(params, i) /\ \E n \in mine : args[n] = params[i].name
              THEN bound[i] \in mine /\ args[bound[i]] = params[i].name
              ELSE bound[i] = 0 /\ op = "one"

(* The arguments cut into shares, one after another: of a script each as   *)
(* long as the parameters of its statement, of a single statement all.     *)
Cuts == [1..(Len(ran) + 1) -> 0..Len(args)]
Consecutive(cut) ==
    /\ cut[1] = 0
    /\ \A j \in DOMAIN ran : cut[j + 1] = cut[j] + (IF op = "one" THEN Len(args)
                                                    ELSE Len(script[j].params))

(* Every statement that ran, also those before one that failed, had its    *)
(* own share of the arguments in its parameters, each in its place or      *)
(* under its name, and none was NULL for want of an argument; a call that  *)
(* succeeded ran all its statements and used all its arguments.  (Two      *)
(* arguments of one name, or named and positional ones for the same        *)
(* statement, may meet in one parameter: nothing is claimed of those.)     *)
ScriptBinds ==
    \E cut \in Cuts :
        /\ Consecutive(cut)
        /\ \A j \in DOMAIN ran : Meets(script[j].params, ran[j], cut[j], cut[j + 1])
        /\ outcome = "ok" => /\ Len(ran) = Len(script)
                             /\ script # <<>> => cut[Len(ran) + 1] = Len(args)
=============================================================================
