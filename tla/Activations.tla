---------------------------- MODULE Activations ----------------------------
(***************************************************************************)
(* A whole IR program at work: what a backend's output must do.  Each call *)
(* has an activation, [fn, pc, mem, kind, args]: its function, the next    *)
(* instruction, its own frame, the kind of the value in each slot (the     *)
(* type it has in the source) and the arguments given since the last call. *)
(* A configuration is [stack, out, used, st]; st is "run", "halt" or, for  *)
(* what no backend is held to, "undef" or "fell" as in IRMachine.          *)
(* What is shown goes out by the device that suits the kind of the value.  *)
(***************************************************************************)
EXTENDS IRMachine

FunctionOf(prog, f) == prog[CHOOSE i \in DOMAIN prog : prog[i].name = f]

Activation(fn, args) ==
  LET slots == Names(fn.code, fn.params)
      at(n) == CHOOSE k \in DOMAIN fn.formals : fn.formals[k] = n
  IN  [fn |-> fn.name, pc |-> 1, args |-> <<>>,
       mem  |-> [n \in slots |-> IF n \in fn.params THEN args[at(n)][1] ELSE Undef],
       kind |-> [n \in slots |-> IF n \in fn.params THEN args[at(n)][2] ELSE "int"]]

Boot(prog, inputs) ==
  LET main == FunctionOf(prog, <<"f", "main">>)
      args == [k \in DOMAIN main.formals |-> <<inputs[1], "int">>]
  IN  [stack |-> <<Activation(main, args)>>, out |-> <<>>, used |-> 0, st |-> "run"]

Top(a)        == a.stack[Len(a.stack)]
Current(prog, a) == FunctionOf(prog, Top(a).fn).code[Top(a).pc]
WithTop(a, t) == [a EXCEPT !.stack[Len(a.stack)] = t]
Stop(a, how)  == [a EXCEPT !.st = how]

\* What is shown, and as what: each backend has a device for each kind.
Written(kind, v) == <<IF kind \in {"char", "string"} THEN kind ELSE "int", v>>

\* The kinds after an instruction, as the source's typing rules have them.
KindAfter(t, ins) ==
  LET o == ins.op  a == ins.args
      is(k) == [t.kind EXCEPT ![a[1]] = k]
  IN CASE o = "CONST" -> is(a[2][1])
       [] o \in {"LOAD", "STORE", "NEG", "INC", "DEC",
                 "ADD", "SUB", "MUL", "DIV", "MOD"} -> is(t.kind[a[2]])
       [] o = "LOAD_ARR"  -> is(t.kind[Cell(a[2], t.mem[a[3]])])
       [] o = "STORE_ARR" -> [t.kind EXCEPT ![Cell(a[1], t.mem[a[2]])] = t.kind[a[3]]]
       [] o \in {"LT", "LE", "GT", "GE", "EQ", "NE", "AND", "OR", "NOT"} -> is("bool")
       [] o = "READ_INT"  -> is("int")
       [] OTHER -> t.kind

Enter(prog, a, ins) ==
  LET t == Top(a)
  IN  [WithTop(a, [t EXCEPT !.args = <<>>]) EXCEPT
         !.stack = Append(@, Activation(FunctionOf(prog, ins.args[2]), t.args))]

\* A return pops the activation; the caller goes on after its CALL.
Leave(prog, a, ins) ==
  LET r      == ins.args[1]
      answer == IF r = None THEN <<0, "int">> ELSE <<Top(a).mem[r], Top(a).kind[r]>>
      below  == [a EXCEPT !.stack = SubSeq(@, 1, Len(@) - 1)]
      t      == Top(below)
      dest   == Current(prog, below).args[1]
      after  == [t EXCEPT !.pc = @ + 1]
  IN  IF Len(a.stack) = 1 THEN Stop(a, "halt")
      ELSE WithTop(below, IF dest = None THEN after
                          ELSE [after EXCEPT !.mem[dest] = answer[1],
                                             !.kind[dest] = answer[2]])

Branch(prog, t, ins) ==
  LET p == FunctionOf(prog, t.fn).code
      a == ins.args
      taken == CASE ins.op = "JMP" -> TRUE
                 [] ins.op = "JMP_IF" -> t.mem[a[1]] # 0
                 [] ins.op = "JMP_IF_NOT" -> t.mem[a[1]] = 0
      to == IF ins.op = "JMP" THEN a[1] ELSE a[2]
  IN  [t EXCEPT !.pc = IF taken THEN LabelAt(p, to) ELSE @ + 1]

Does(prog, a, ins, inputs) ==
  LET t == Top(a)
      in == NextInput(a, inputs)
      passed == Append(t.args, <<t.mem[ins.args[1]], t.kind[ins.args[1]]>>)
      next == [t EXCEPT !.pc = @ + 1]
      shown[k \in 0..Len(ins.args)] ==
        IF k = 0 THEN a.out
        ELSE Append(shown[k - 1], Written(t.kind[ins.args[k]], t.mem[ins.args[k]]))
  IN CASE ins.op = "CALL" -> Enter(prog, a, ins)
       [] ins.op = "RET"  -> Leave(prog, a, ins)
       [] ins.op = "EXIT" ->
            Stop([a EXCEPT !.out = Append(@, <<"exit", t.mem[ins.args[1]]>>)], "halt")
       [] ins.op \in Branches -> WithTop(a, Branch(prog, t, ins))
       [] ins.op = "PARAM" -> WithTop(a, [next EXCEPT !.args = passed])
       [] ins.op = "PRINT" -> [WithTop(a, next) EXCEPT !.out = shown[Len(ins.args)]]
       [] OTHER -> [WithTop(a, [next EXCEPT !.mem = Effect(t.mem, ins, in),
                                            !.kind = KindAfter(t, ins)])
                     EXCEPT !.used = IF ins.op = "READ_INT" THEN @ + 1 ELSE @]

Perform1(prog, a, inputs) ==
  LET t == Top(a)
  IN  IF t.pc > Len(FunctionOf(prog, t.fn).code) THEN Stop(a, "fell")
      ELSE IF Stuck(t.mem, Current(prog, a)) THEN Stop(a, "undef")
      ELSE Does(prog, a, Current(prog, a), inputs)

=============================================================================
