------------------------------ MODULE Compiler ------------------------------
(***************************************************************************)
(* The compiler of src/src/compiler/compiler.c: syntax tree to bytecode.   *)
(*                                                                         *)
(* The syntax tree (src/src/parser/ast.h) is made of records:              *)
(*                                                                         *)
(*   program   a sequence of lists                                         *)
(*   list      [bg, pipes, conns]     conns[i] joins pipes[i], pipes[i+1]  *)
(*   pipe      [negated, cmds]                                             *)
(*   command   [ct |-> "simple" | "if" | "for" | "while" | "case" | ...]   *)
(*   word      a sequence of parts [wp |-> "lit" | "var" | "special" |     *)
(*             "cmdsub", q |-> quoted]                                     *)
(*                                                                         *)
(* Left out: arrays, parameter expansion with an operator, arithmetic,     *)
(* tilde, globbing and lib::import.  Each of them compiles to straight     *)
(* line code between the parts of a word or in front of the program, and   *)
(* takes no part in control flow, frames or redirections.                  *)
(***************************************************************************)
EXTENDS Bytecode

CONSTANT
    MAX_LOOP_DEPTH      \* nesting of loops the compiler accepts

ASSUME LoopDepthAssumption == MAX_LOOP_DEPTH \in Nat \ {0}

-----------------------------------------------------------------------------
(* The state of the compiler (compiler_t).                                 *)

compiler_init ==
    [code   |-> <<>>,       \* image->code
     loops  |-> <<>>,       \* loop_stack
     funcs  |-> <<>>,       \* func_table
     locals |-> {},         \* names declared with "local" in the function
     errors |-> 0]          \* error_count

\* Index of the instruction emitted next (code_size).
Here(cc) == Len(cc.code) + 1

Emit(cc, ins) == [cc EXCEPT !.code = Append(@, ins)]

EmitOp(cc, op) == Emit(cc, [op |-> op])

compiler_error(cc) == [cc EXCEPT !.errors = @ + 1]

\* A jump is emitted without its target; its index is Here(cc) before.
emit_jump(cc, op) == Emit(cc, [op |-> op, to |-> 1])

patch_jump_to(cc, pos, target) == [cc EXCEPT !.code[pos].to = target]

patch_jump(cc, pos) == patch_jump_to(cc, pos, Here(cc))

PatchAll(cc, positions) == FoldLeft(patch_jump, cc, positions)

push_loop(cc, target, iter) ==
    IF Len(cc.loops) >= MAX_LOOP_DEPTH THEN compiler_error(cc)
    ELSE [cc EXCEPT !.loops = Append(@,
            [continue_target |-> target, has_iterator |-> iter,
             break_patches |-> <<>>])]

\* All breaks of the innermost loop lead to the next instruction.
pop_loop(cc) ==
    IF cc.loops = <<>> THEN cc
    ELSE [PatchAll(cc, Last(cc.loops).break_patches) EXCEPT !.loops = Front(@)]

-----------------------------------------------------------------------------
(* Words.                                                                  *)

is_literal_word(w) == Len(w) = 1 /\ w[1].wp = "lit"

literal_value(w) == w[1].a

IsLiteral(w, name) == is_literal_word(w) /\ literal_value(w) = name

is_quoted_at(w) ==
    Len(w) = 1 /\ w[1].wp = "special" /\ w[1].which = "@" /\ w[1].q

word_needs_split(w) ==
    \E i \in DOMAIN w : w[i].wp \in {"var", "special", "cmdsub"} /\ ~w[i].q

RECURSIVE compile_program(_, _)
RECURSIVE compile_command(_, _)
RECURSIVE compile_cond_expr(_, _)
RECURSIVE LocalsOfCommand(_)

\* Mutant: the segment of a child has no HALT behind it.
Segment_NoHalt(cc, body) == patch_jump(body, Here(cc))

\* A piece of code that only a forked process runs: a jump over it, the code,
\* HALT.  Its first instruction is Here(cc) + 1; body is what compiling the
\* piece makes of SegmentStart(cc).
SegmentStart(cc) == emit_jump(cc, "JMP")

Segment(cc, body) == patch_jump(EmitOp(body, "HALT"), Here(cc))

SegmentOp(cc, op, body) ==
    Emit(Segment(cc, body), [op |-> op, to |-> Here(cc) + 1])

compile_part(cc, u) ==
    CASE u.wp = "lit"     -> Emit(cc, [op |-> "PUSH_CONST", a |-> u.a])
      [] u.wp = "special" -> Emit(cc, [op |-> "GET_SPECIAL", which |-> u.which])
      [] u.wp = "var"     -> Emit(cc, [op   |-> IF u.name \in cc.locals
                                                THEN "GET_LOCAL" ELSE "GET_VAR",
                                       name |-> u.name])
      [] u.wp = "cmdsub"  -> SegmentOp(cc, "CMD_SUBST",
                                       compile_program(SegmentStart(cc), u.body))

compile_word(cc, w) ==
    LET c == FoldLeft(compile_part, cc, w)
    IN  CASE Len(w) > 1 -> Emit(c, [op |-> "CONCAT", n |-> Len(w)])
          [] Len(w) = 0 -> Emit(c, [op |-> "PUSH_CONST", a |-> ""])
          [] OTHER      -> c

\* One word of a command leaves its fields and their number on the stack.
CompileGroup(cc, w) ==
    IF is_quoted_at(w) THEN EmitOp(cc, "EXPAND_ARGS")
    ELSE LET c == compile_word(cc, w)
         IN  IF word_needs_split(w) THEN EmitOp(c, "SPLIT_FIELDS")
             ELSE Emit(c, [op |-> "PUSH_INT", n |-> 1])

CompileGroups(cc, words) ==
    EmitOp(Emit(FoldLeft(CompileGroup, cc, words),
                [op |-> "PUSH_INT", n |-> Len(words)]),
           "COLLECT_WORDS")

-----------------------------------------------------------------------------
(* Simple commands.                                                        *)

CompileRedir(cc, rd) ==
    IF rd.rt = "close" THEN Emit(cc, [op |-> "REDIR_CLOSE", fd |-> rd.fd])
    ELSE LET c == compile_word(cc, rd.target)
         IN  CASE rd.rt \in {"in", "out", "append"} ->
                    Emit(c, [op |-> "REDIR_OPEN", fd |-> rd.fd, rt |-> rd.rt])
               [] rd.rt = "dup"  -> Emit(c, [op |-> "REDIR_DUP", fd |-> rd.fd])
               [] rd.rt = "here" -> Emit(c, [op |-> "REDIR_HERE", fd |-> rd.fd])

compile_redirs_open(cc, redirs) ==
    FoldLeft(CompileRedir, EmitOp(cc, "REDIR_SAVE"), redirs)

\* break [n] and continue [n] are jumps.  The iterators of the for loops left
\* behind are popped, the one of the target loop stays.
CompileBreakContinue(cc, words) ==
    LET depth   == Len(cc.loops)
        d       == IF Len(words) >= 2 /\ is_literal_word(words[2])
                   THEN AtomNumber(literal_value(words[2])) ELSE 1
        target  == IF d > depth THEN 1 ELSE depth - d + 1
        left    == {i \in target + 1 .. depth : cc.loops[i].has_iterator}
        popped  == FoldLeft(LAMBDA c, i : EmitOp(c, "POP"), cc,
                            [i \in 1 .. Cardinality(left) |-> i])
        jumped  == emit_jump(popped, "JMP")
    IN  IF d < 1 \/ depth = 0 THEN compiler_error(cc)
        ELSE IF literal_value(words[1]) = "break"
        THEN [jumped EXCEPT !.loops[target].break_patches =
                                Append(@, Here(popped))]
        ELSE patch_jump_to(jumped, Here(popped),
                           cc.loops[target].continue_target)

CompileAssign(cc, asg, temp) ==
    LET c == compile_word(cc, asg.value)
    IN  IF temp
        THEN EmitOp(Emit(c, [op |-> "SET_LOCAL", name |-> asg.name]), "EXPORT")
        ELSE Emit(c, [op   |-> IF asg.name \in cc.locals
                               THEN "SET_LOCAL" ELSE "SET_VAR",
                      name |-> asg.name])

\* The instruction that runs the collected words: a builtin, a function whose
\* definition was compiled before, or a name looked up when it runs.
ExecIns(cc, words) ==
    LET lit  == is_literal_word(words[1])
        name == literal_value(words[1])
        f    == SelectInSeq(cc.funcs, LAMBDA e : e.name = name)
    IN  CASE lit /\ name \in Builtins -> [op |-> "EXEC_BUILTIN", name |-> name]
          [] lit /\ name \notin Builtins /\ f # 0 -> [op |-> "EXEC_FUNC", f |-> f]
          [] OTHER -> [op |-> "EXEC_SIMPLE"]

CompileExec(cc, cmd, temp) ==
    LET run  == CompileGroups(compile_redirs_open(cc, cmd.redirs), cmd.words)
        done == Emit(run, ExecIns(cc, cmd.words))
        left == IF temp THEN EmitOp(done, "POP_SCOPE") ELSE done
    IN  IF Len(cmd.words) = 1 /\ IsLiteral(cmd.words[1], "exec")
        THEN left       \* redirections of exec without arguments stay
        ELSE EmitOp(left, "REDIR_RESTORE")

compile_simple(cc, cmd) ==
    LET jump  == cmd.words # <<>> /\ \/ IsLiteral(cmd.words[1], "break")
                                     \/ IsLiteral(cmd.words[1], "continue")
        temp  == cmd.assigns # <<>> /\ cmd.words # <<>>
        scope == IF temp THEN EmitOp(cc, "PUSH_SCOPE") ELSE cc
        set   == FoldLeft(LAMBDA c, a : CompileAssign(c, a, temp),
                          scope, cmd.assigns)
    IN  CASE jump -> CompileBreakContinue(cc, cmd.words)
          [] ~jump /\ cmd.words = <<>> -> set
          [] OTHER -> CompileExec(set, cmd, temp)

-----------------------------------------------------------------------------
(* Compound commands.                                                      *)

\* Around code whose failing commands do not end the shell.
Suppress(cc) == EmitOp(cc, "ERREXIT_PUSH")

Unsuppress(cc) == EmitOp(cc, "ERREXIT_POP")

CompileCondition(cc, cond) == Unsuppress(compile_program(Suppress(cc), cond))

\* Mutant: no branch taken leaves the status of the last condition.
compile_if_KeepsStatus(cc, cmd) ==
    LET Clause(acc, ic) ==
            LET cond == CompileCondition(acc.cc, ic.cond)
                body == compile_program(emit_jump(cond, "JMP_FALSE"), ic.body)
            IN  IF ic.cond = <<>>
                THEN [acc EXCEPT !.cc = compile_program(acc.cc, ic.body)]
                ELSE [cc   |-> patch_jump(emit_jump(body, "JMP"), Here(cond)),
                      ends |-> Append(acc.ends, Here(body))]
        all     == FoldLeft(Clause, [cc |-> cc, ends |-> <<>>], cmd.clauses)
    IN  PatchAll(all.cc, all.ends)

compile_if(cc, cmd) ==
    LET Clause(acc, ic) ==
            LET cond == CompileCondition(acc.cc, ic.cond)
                body == compile_program(emit_jump(cond, "JMP_FALSE"), ic.body)
            IN  IF ic.cond = <<>>
                THEN [acc EXCEPT !.cc = compile_program(acc.cc, ic.body)]
                ELSE [cc   |-> patch_jump(emit_jump(body, "JMP"), Here(cond)),
                      ends |-> Append(acc.ends, Here(body))]
        all     == FoldLeft(Clause, [cc |-> cc, ends |-> <<>>], cmd.clauses)
        hasElse == \E i \in DOMAIN cmd.clauses : cmd.clauses[i].cond = <<>>
    IN  PatchAll(IF hasElse THEN all.cc ELSE EmitOp(all.cc, "STATUS_ZERO"), all.ends)

compile_for(cc, cmd) ==
    LET init == EmitOp(IF cmd.words = <<>> THEN EmitOp(cc, "EXPAND_ARGS")
                       ELSE CompileGroups(cc, cmd.words), "INIT_ITER")
        top  == Here(init)
        next == EmitOp(EmitOp(init, "GET_NEXT_ITER"), "DUP")
        set  == Emit(emit_jump(next, "JMP_NONE"),
                     [op |-> "SET_VAR", name |-> cmd.var])
        body == compile_program(push_loop(set, top, TRUE), cmd.body)
        back == pop_loop(patch_jump_to(emit_jump(body, "JMP"), Here(body), top))
        exit == EmitOp(patch_jump(emit_jump(back, "JMP"), Here(next)), "POP")
    IN  EmitOp(patch_jump(exit, Here(back)), "POP")

\* The condition is compiled twice: before the first round and at the end of
\* the body.  Where "continue" leads is only written into the loop once the
\* body has been compiled.
compile_while_until(cc, cmd) ==
    LET leave == IF cmd.until THEN "JMP_TRUE" ELSE "JMP_FALSE"
        again == IF cmd.until THEN "JMP_FALSE" ELSE "JMP_TRUE"
        first == CompileCondition(cc, cmd.cond)
        loop  == push_loop(emit_jump(first, leave), 1, FALSE)
        start == Here(loop)
        body  == compile_program(loop, cmd.body)
        check == CompileCondition(body, cmd.cond)
        back  == patch_jump_to(emit_jump(check, again), Here(check), start)
        fixed == [back EXCEPT !.loops[Len(back.loops)].continue_target = Here(body)]
        out   == pop_loop(fixed)
        zero  == EmitOp(patch_jump(emit_jump(out, "JMP"), Here(first)), "STATUS_ZERO")
    IN  patch_jump(zero, Here(out))

compile_case(cc, cmd) ==
    LET Pattern(acc, pat) ==
            LET c == EmitOp(compile_word(compile_word(acc.cc, cmd.subject), pat),
                            "PATTERN_MATCH")
            IN  [cc |-> emit_jump(c, "JMP_TRUE"), hits |-> Append(acc.hits, Here(c))]
        Item(acc, ci) ==
            LET pats == FoldLeft(Pattern, [cc |-> acc.cc, hits |-> <<>>], ci.pats)
                skip == emit_jump(pats.cc, "JMP")
                body == compile_program(PatchAll(skip, pats.hits), ci.body)
                brk  == ci.term = "break"
                done == IF brk THEN emit_jump(body, "JMP") ELSE body
            IN  [cc   |-> patch_jump(done, Here(pats.cc)),
                 ends |-> IF brk THEN Append(acc.ends, Here(body)) ELSE acc.ends]
        all  == FoldLeft(Item, [cc |-> cc, ends |-> <<>>], cmd.items)
        zero == EmitOp(all.cc, "STATUS_ZERO")
    IN  patch_jump(PatchAll(emit_jump(zero, "JMP"), all.ends), Here(zero))

compile_group(cc, cmd) == compile_program(cc, cmd.body)

LocalsOfProgram(prog) ==
    UNION {UNION {UNION {LocalsOfCommand(prog[i].pipes[j].cmds[k]) :
                           k \in DOMAIN prog[i].pipes[j].cmds} :
                    j \in DOMAIN prog[i].pipes} : i \in DOMAIN prog}

\* collect_locals_cmd: the names declared with "local", not looking into
\* subshells and nested functions.
LocalsOfCommand(cmd) ==
    CASE cmd.ct = "simple" ->
            IF cmd.words # <<>> /\ IsLiteral(cmd.words[1], "local")
            THEN {literal_value(cmd.words[i]) : i \in
                    {j \in 2..Len(cmd.words) : is_literal_word(cmd.words[j])}}
            ELSE {}
      [] cmd.ct = "if" ->
            UNION {LocalsOfProgram(cmd.clauses[i].cond) \cup
                   LocalsOfProgram(cmd.clauses[i].body) : i \in DOMAIN cmd.clauses}
      [] cmd.ct \in {"for", "group"} -> LocalsOfProgram(cmd.body)
      [] cmd.ct = "while" ->
            LocalsOfProgram(cmd.cond) \cup LocalsOfProgram(cmd.body)
      [] cmd.ct = "case" ->
            UNION {LocalsOfProgram(cmd.items[i].body) : i \in DOMAIN cmd.items}
      [] OTHER -> {}

\* The body lies inline behind a jump.  The loop stack is not set aside.
compile_funcdef(cc, cmd) ==
    LET entry == Here(cc) + 1
        known == [emit_jump(cc, "JMP") EXCEPT
                    !.funcs  = Append(@, [name |-> cmd.name, offset |-> entry]),
                    !.locals = LocalsOfCommand(cmd.cmd)]
        body  == EmitOp(compile_command(known, cmd.cmd), "RET")
    IN  patch_jump([body EXCEPT !.locals = cc.locals], Here(cc))

compile_cond_expr(cc, d) ==
    CASE d.e = "str" -> EmitOp(compile_word(cc, d.word), "TEST_UNARY")
      [] d.e = "eq"  -> EmitOp(compile_word(compile_word(cc, d.word), d.pat),
                               "TEST_BINARY")
      [] d.e = "not" -> EmitOp(compile_cond_expr(cc, d.left), "NEGATE_STATUS")
      [] d.e \in {"and", "or"} ->
            LET left == compile_cond_expr(cc, d.left)
                jump == emit_jump(left, IF d.e = "and" THEN "JMP_FALSE"
                                        ELSE "JMP_TRUE")
            IN  patch_jump(compile_cond_expr(jump, d.right), Here(left))

CompileByType(cc, cmd) ==
    CASE cmd.ct = "simple"   -> compile_simple(cc, cmd)
      [] cmd.ct = "if"       -> compile_if(cc, cmd)
      [] cmd.ct = "for"      -> compile_for(cc, cmd)
      [] cmd.ct = "while"    -> compile_while_until(cc, cmd)
      [] cmd.ct = "case"     -> compile_case(cc, cmd)
      [] cmd.ct = "group"    -> compile_group(cc, cmd)
      [] cmd.ct = "funcdef"  -> compile_funcdef(cc, cmd)
      [] cmd.ct = "bracket"  -> compile_cond_expr(cc, cmd.expr)
      [] cmd.ct = "subshell" ->
            SegmentOp(cc, "SUBSHELL", compile_program(SegmentStart(cc), cmd.body))

compile_command(cc, cmd) ==
    IF cc.errors > 0 THEN cc        \* the image is thrown away
    ELSE IF cmd.ct = "simple" \/ cmd.redirs = <<>> THEN CompileByType(cc, cmd)
    ELSE EmitOp(CompileByType(compile_redirs_open(cc, cmd.redirs), cmd),
                "REDIR_RESTORE")

-----------------------------------------------------------------------------
(* Pipelines, lists and programs.                                          *)

\* Mutant: "!" before one command leaves errexit suppressed.
compile_and_or_NoPop(cc, pl) ==
    LET Member(acc, cmd) ==
            [cc  |-> Segment(acc.cc, compile_command(SegmentStart(acc.cc), cmd)),
             off |-> Append(acc.off, Here(acc.cc) + 1)]
        all == FoldLeft(Member, [cc |-> cc, off |-> <<>>], pl.cmds)
    IN  CASE Len(pl.cmds) = 1 /\ ~pl.negated -> compile_command(cc, pl.cmds[1])
          [] Len(pl.cmds) = 1 /\ pl.negated ->
                EmitOp(compile_command(Suppress(cc), pl.cmds[1]), "NEGATE_STATUS")
          [] OTHER -> Emit(all.cc, [op |-> "PIPELINE", offsets |-> all.off,
                                    negate |-> pl.negated])

compile_and_or(cc, pl) ==
    LET Member(acc, cmd) ==
            [cc  |-> Segment(acc.cc, compile_command(SegmentStart(acc.cc), cmd)),
             off |-> Append(acc.off, Here(acc.cc) + 1)]
        all == FoldLeft(Member, [cc |-> cc, off |-> <<>>], pl.cmds)
    IN  CASE Len(pl.cmds) = 1 /\ ~pl.negated -> compile_command(cc, pl.cmds[1])
          [] Len(pl.cmds) = 1 /\ pl.negated ->
                EmitOp(Unsuppress(compile_command(Suppress(cc), pl.cmds[1])),
                       "NEGATE_STATUS")
          [] OTHER -> Emit(all.cc, [op |-> "PIPELINE", offsets |-> all.off,
                                    negate |-> pl.negated])

compile_sh_list(cc, ao) ==
    LET n == Len(ao.pipes)
        One(c, i) == IF i = n THEN compile_and_or(c, ao.pipes[i])
                     ELSE Unsuppress(compile_and_or(Suppress(c), ao.pipes[i]))
        Step(c, i) == patch_jump(One(emit_jump(c, IF ao.conns[i - 1] = "and"
                                                  THEN "JMP_FALSE"
                                                  ELSE "JMP_TRUE"), i), Here(c))
    IN  FoldLeft(LAMBDA c, i : IF i = 1 THEN One(c, 1) ELSE Step(c, i),
                 cc, [i \in 1..n |-> i])

compile_program(cc, program) ==
    FoldLeft(LAMBDA c, ao : IF c.errors > 0 THEN c
                            ELSE IF ao.bg
                            THEN SegmentOp(c, "BACKGROUND",
                                           compile_sh_list(SegmentStart(c), ao))
                            ELSE compile_sh_list(c, ao),
             cc, program)

\* The image, or no image when the program has an error.
compile(program) ==
    LET cc == EmitOp(compile_program(compiler_init, program), "HALT")
    IN  [ok |-> cc.errors = 0, code |-> cc.code, funcs |-> cc.funcs]
=============================================================================
