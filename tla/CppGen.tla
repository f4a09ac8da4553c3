------------------------------- MODULE CppGen -------------------------------
(***************************************************************************)
(* The C++ transpiler (src/backend/cpp_transpile.py): declarations, then   *)
(* a statement for each IR instruction.                                    *)
(*                                                                         *)
(* A statement is a tuple that begins with its form:                       *)
(*   <<"label", l>>  <<"goto", l>>  <<"if", x, l>>  <<"if not", x, l>>     *)
(*   <<"=", x, e>>  <<"[]=", v, i, x>>  <<"resize", v, n>>  <<"scanf", x>> *)
(*   <<"print", kind, x>>  <<"exit", x>>  <<"do", e>>  <<"return", e>>     *)
(* with x a variable, v a vector and e an expression:                      *)
(*   <<"num", n>>  <<"str", s>>  <<"id", x>>  <<"[]", v, i>>               *)
(*   <<"call", f, args>>  <<op, x>>  <<op, x, y>>  <<"void">> no value     *)
(* Names are the C++ identifiers.  The generator is [out, kinds, pend].    *)
(***************************************************************************)
EXTENDS IR, FiniteSets

Keywords ==
  {"alignas", "alignof", "and", "and_eq", "asm", "auto", "bitand", "bitor", "bool", "break",
   "case", "catch", "char", "char8_t", "char16_t", "char32_t", "class", "compl", "concept",
   "const", "consteval", "constexpr", "constinit", "continue", "co_await", "co_return",
   "co_yield", "decltype", "default", "delete", "do", "double", "dynamic_cast", "else",
   "enum", "explicit", "export", "extern", "false", "float", "for", "friend", "goto", "if",
   "inline", "int", "long", "mutable", "namespace", "new", "noexcept", "not", "not_eq",
   "nullptr", "operator", "or", "or_eq", "private", "protected", "public", "register",
   "reinterpret_cast", "requires", "return", "short", "signed", "sizeof", "static",
   "static_assert", "static_cast", "struct", "switch", "template", "this", "thread_local",
   "throw", "true", "try", "typedef", "typeid", "typename", "union", "unsigned", "using",
   "virtual", "void", "volatile", "wchar_t", "while", "xor", "xor_eq"}

Digit == <<"0", "1", "2", "3", "4", "5", "6", "7", "8", "9">>
Text[n \in Nat] == IF n < 10 THEN Digit[n + 1] ELSE Text[n \div 10] \o Digit[(n % 10) + 1]

\* Mutant: a name is taken as it is.
CidPlain(o) ==
  CASE o[1] = "%" -> "_t" \o Text[o[2]]
    [] o[1] = "L" -> "L" \o Text[o[2]]
    [] OTHER -> o[2]

\* _cid.
Cid(o) ==
  CASE o[1] = "%" -> "_t" \o Text[o[2]]
    [] o[1] = "L" -> "L" \o Text[o[2]]
    [] OTHER -> IF o[2] \in Keywords THEN "_" \o o[2] ELSE o[2]

-----------------------------------------------------------------------------
(***************************************************************************)
(* _scan_function: what a function must declare.                           *)
(***************************************************************************)
Arrays(fn) ==
  {fn.code[i].args[1] : i \in {k \in DOMAIN fn.code : fn.code[k].op \in {"ALLOC_ARRAY", "STORE_ARR"}}}
    \cup {fn.code[i].args[2] : i \in {k \in DOMAIN fn.code : fn.code[k].op = "LOAD_ARR"}}

Scalars(fn) ==
  LET of(op, n) == {fn.code[i].args[n] : i \in {k \in DOMAIN fn.code : fn.code[k].op = op}}
  IN  {o \in of("STORE", 1) \cup of("LOAD", 2) : ~IsTemp(o)}

Declared(fn) ==
  [vectors |-> Arrays(fn),
   ints    |-> (Scalars(fn) \ (Arrays(fn) \cup fn.params)) \cup TempsOf(fn.code)]

\* _strip_unreachable_jmp_after_ret: the instructions left out.
Stripped(code) ==
  {i \in DOMAIN code : i > 1 /\ code[i].op = "JMP" /\ code[i - 1].op = "RET"}

-----------------------------------------------------------------------------
KindOf(g, x)       == IF x \in DOMAIN g.kinds THEN g.kinds[x] ELSE "int"
Kinded(g, x, k)    == [g EXCEPT !.kinds = Put(@, x, k)]
Ln(g, s)         == [g EXCEPT !.out = Append(@, s)]
Gets(g, x, k, e)   == Kinded(Ln(g, <<"=", Cid(x), e>>), x, k)

SameKind(g, a)     == KindOf(g, a[2])

Prints(g, names) ==
  LET after[k \in 0..Len(names)] ==
        IF k = 0 THEN g
        ELSE Ln(after[k - 1], <<"print", KindOf(g, names[k]), Cid(names[k])>>)
  IN  after[Len(names)]

\* Mutant: the arguments are taken in the order of a stack.
TakenLast(pend, n) == [k \in 1..n |-> pend[Len(pend) + 1 - k]]
Taken(pend, n)     == SubSeq(pend, 1, n)

CallStmt(g, a) ==
  LET n == a[3][2]
      call == <<"call", Cid(a[2]), Taken(g.pend, n)>>
      rest == [g EXCEPT !.pend = SubSeq(@, n + 1, Len(@))]
  IN  IF a[1] = None THEN Ln(rest, <<"do", call>>) ELSE Gets(rest, a[1], "int", call)

ReturnStmt(g, fn, r) ==
  LET void == fn.ret = "void" /\ fn.name # <<"f", "main">>
  IN  Ln(g, <<"return", CASE void -> <<"void">>
                            [] ~void /\ r = None -> <<"num", 0>>
                            [] OTHER -> <<"id", Cid(r)>>>>)

\* Mutant: the condition is not turned round.
Whenever(g, x, l) == Ln(g, <<"if", x, l>>)
Unless(g, x, l)   == Ln(g, <<"if not", x, l>>)

\* _emit_ins.
Emit(g, fn, ins) ==
  LET o == ins.op  a == ins.args  c(k) == Cid(a[k])
  IN CASE o = "LABEL" -> Ln(g, <<"label", c(1)>>)
       [] o = "JMP" -> Ln(g, <<"goto", c(1)>>)
       [] o = "JMP_IF" -> Ln(g, <<"if", c(1), c(2)>>)
       [] o = "JMP_IF_NOT" -> Unless(g, c(1), c(2))
       [] o = "CONST" ->
            Gets(g, a[1], a[2][1], CASE a[2][1] = "float"  -> <<"num", 0>>
                                     [] a[2][1] = "string" -> <<"str", a[2][2]>>
                                     [] OTHER -> <<"num", a[2][2]>>)
       [] o \in {"LOAD", "STORE"} -> Gets(g, a[1], KindOf(g, a[2]), <<"id", c(2)>>)
       [] o = "ALLOC_ARRAY" -> Ln(g, <<"resize", c(1), a[2][2]>>)
       [] o = "LOAD_ARR" -> Ln(g, <<"=", c(1), <<"[]", c(2), c(3)>>>>)
       [] o = "STORE_ARR" -> Ln(g, <<"[]=", c(1), c(2), c(3)>>)
       [] o \in {"ADD", "SUB", "MUL", "DIV"} -> Gets(g, a[1], SameKind(g, a), <<o, c(2), c(3)>>)
       [] o = "MOD" -> Gets(g, a[1], "int", <<o, c(2), c(3)>>)
       [] o \in {"NEG", "INC", "DEC"} -> Gets(g, a[1], SameKind(g, a), <<o, c(2)>>)
       [] o \in {"LT", "LE", "GT", "GE", "EQ", "NE", "AND", "OR"} ->
            Gets(g, a[1], "bool", <<o, c(2), c(3)>>)
       [] o = "NOT" -> Gets(g, a[1], "bool", <<o, c(2)>>)
       [] o = "PRINT" -> Prints(g, a)
       [] o = "READ_INT" -> Kinded(Ln(g, <<"scanf", c(1)>>), a[1], "int")
       [] o = "EXIT" -> Ln(g, <<"exit", c(1)>>)
       [] o = "PARAM" -> [g EXCEPT !.pend = Append(@, c(1))]
       [] o = "CALL" -> CallStmt(g, a)
       [] o = "RET" -> ReturnStmt(g, fn, a[1])
       [] OTHER -> g

\* _ret_ctype, _func_params and _emit_func.  marks tells where the statements
\* of each instruction begin.
EmitFunc(fn) ==
  LET left(g, i) == IF i \in Stripped(fn.code) THEN g ELSE Emit(g, fn, fn.code[i])
      turn(w) == [g |-> left(w.g, w.next), marks |-> Append(w.marks, Len(w.g.out) + 1),
                  next |-> w.next + 1]
      start == [out |-> <<>>, pend |-> <<>>, kinds |-> [p \in fn.params |-> "int"]]
      done == Iterate(turn, [g |-> start, marks |-> <<>>, next |-> 1], Len(fn.code))
      decl == Declared(fn)
  IN  [name |-> Cid(fn.name), of |-> fn.name,
       void |-> fn.ret = "void" /\ fn.name # <<"f", "main">>,
       params |-> [k \in DOMAIN fn.formals |-> Cid(fn.formals[k])],
       \* with what each is the name of: two may have the same
       vectors |-> {<<v, Cid(v)>> : v \in decl.vectors},
       ints    |-> {<<x, Cid(x)>> : x \in decl.ints},
       body |-> done.g.out, marks |-> Append(done.marks, Len(done.g.out) + 1)]

Generate(prog) == [k \in DOMAIN prog |-> EmitFunc(prog[k])]

=============================================================================
