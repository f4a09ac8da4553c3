---------------------------- MODULE IRValidator ----------------------------
(***************************************************************************)
(* The IR validator (src/ir/ir_validator.py).  A function is               *)
(* [name, ret, params, code].  Validation walks the instructions in list   *)
(* order, not along paths: a name is "defined" once an earlier instruction *)
(* of the list defines it.  The outcome is the first error, <<kind, what>>, *)
(* or Valid.  The loop's state s has the names defined so far, pc the      *)
(* PARAMs since the last CALL, the error raised, and the next instruction. *)
(***************************************************************************)
EXTENDS IR

Builtins == {<<"f", g>> : g \in {"print", "readInt", "exit"}}
Valid == <<"ok", None>>

LabelsOf(p) == {p[i].args[1] : i \in {i \in DOMAIN p : p[i].op = "LABEL"}}

RepeatedLabel(p) ==
  \E i, j \in DOMAIN p : i < j /\ p[i].op = "LABEL" /\ p[i] = p[j]

UndefinedIn(defined, ins) == {u \in Used(ins) : u \notin defined}

\* The error raised at one instruction, or Valid.
CheckInstruction(fn, known, s, ins) ==
  LET o == ins.op  a == ins.args
      jumps(l) == l \in LabelsOf(fn.code)
      missing == UndefinedIn(s.defined, ins)
      blame   == CHOOSE u \in missing : TRUE
  IN CASE o \in {"JMP_IF", "JMP_IF_NOT"} /\ ~jumps(a[2]) -> <<"label", a[2]>>
       [] o = "JMP" /\ ~jumps(a[1]) -> <<"label", a[1]>>
       [] o = "CALL" /\ s.pc # a[3][2] -> <<"arity", a[2]>>
       [] o = "CALL" /\ s.pc = a[3][2] /\ a[2] \notin known \cup Builtins ->
            <<"callee", a[2]>>
       [] o = "RET" /\ fn.ret = "void" /\ a[1] # None -> <<"return", a[1]>>
       [] o = "RET" /\ fn.ret # "void" /\ a[1] = None -> <<"return", None>>
       [] OTHER -> IF missing # {} THEN <<"undefined", blame>> ELSE Valid

Check(fn, known, s) ==
  LET ins == fn.code[s.next]
      error == CheckInstruction(fn, known, s, ins)
  IN  IF s.error # Valid \/ s.next > Len(fn.code) THEN s
      ELSE [defined |-> s.defined \cup Defined(ins),
            pc    |-> CASE ins.op = "PARAM" -> s.pc + 1
                        [] ins.op = "CALL"  -> 0
                        [] OTHER -> s.pc,
            error |-> error,
            next  |-> s.next + 1]

ValidateFunction(fn, known) ==
  LET start   == [defined |-> fn.params, pc |-> 0, error |-> Valid, next |-> 1]
      turn(s) == Check(fn, known, s)
  IN  IF RepeatedLabel(fn.code) THEN <<"duplicate label", None>>
      ELSE Iterate(turn, start, Len(fn.code)).error

\* validate(program): the first function with an error decides.
Validate(prog) ==
  LET known == {prog[f].name : f \in DOMAIN prog}
      of(f) == ValidateFunction(prog[f], known)
      wrong == {f \in DOMAIN prog : of(f) # Valid}
  IN  IF wrong = {} THEN Valid
      ELSE of(CHOOSE f \in wrong : \A g \in wrong : f <= g)

=============================================================================
