-------------------------------- MODULE Tree --------------------------------
(***************************************************************************)
(* Syntax trees (src/parser/ast.py): what the parser builds, the checker   *)
(* and the warnings walk over and the lowering consumes.                   *)
(*                                                                         *)
(* Expressions                          Statements                         *)
(*   <<"int", n>>  <<"char", c>> ...      <<"expr", e>>                    *)
(*   <<"var", x>>  <<"idx", var, e>>      <<"if", e, then, else>>          *)
(*   <<"=", target, e>>                   <<"while", e, body>>             *)
(*   <<"bin", OP, l, r>>                  <<"for", init, cond, inc, body>> *)
(*   <<"un", OP, e, postfix>>             <<"break">>  <<"continue">>      *)
(*   <<"call", var, args>>                <<"return", e>>                  *)
(*                                        <<"switch", e, cases>>           *)
(*   Absent where the source has None     <<"block", decls, stmts>>        *)
(* A case is <<value, stmts>>, its value Absent for default; a declaration *)
(* is <<name, size, init, type, const>>, its size 0 where the source has   *)
(* None; a function is [name, ret, params, ptypes, body].  OP is the IR    *)
(* name of the operator.                                                   *)
(***************************************************************************)
EXTENDS Integers, Sequences

Absent == <<"absent">>

\* The kinds of literals; the value of a string is the place it is kept at.
Literals == {"int", "bool", "char", "float", "string", "uint32"}

=============================================================================
