-------------------------------- MODULE Shell --------------------------------
(***************************************************************************)
(* What a program means, told without code, stacks and frames: the state   *)
(* after a command as a function of the state before it.  Jumps out of a   *)
(* command (break, continue, return, exit) are part of the state (ctl);    *)
(* whatever a command sets up for its body (scopes, parameters,            *)
(* descriptors, the context in which errexit is ignored) is an argument    *)
(* and hence gone when the command is left, on whichever way.              *)
(*                                                                         *)
(* The rules are those of the POSIX shell that the README claims, except   *)
(* that a while loop that has run its body ends with the status of its     *)
(* condition, as a comment in compile_while_until says.                    *)
(***************************************************************************)
EXTENDS Vm, Compiler

CONSTANTS
    Programs,       \* the syntax trees behind Images
    Meanings        \* what each of them means

RECURSIVE RunProgram(_, _, _)
RECURSIVE RunCommand(_, _, _)
RECURSIVE RunIf(_, _, _)
RECURSIVE RunFor(_, _, _, _)
RECURSIVE RunWhile(_, _, _, _)
RECURSIVE RunTest(_, _)

Go(r) == r.ctl = "go"

Then(r, F(_)) == IF Go(r) THEN F(r) ELSE r

Leave(r, ctl, n) == [r EXCEPT !.ctl = ctl, !.n = n]

\* set -e: a command that failed ends the shell, unless its status is tested.
Check(r, tested) ==
    IF Go(r) /\ r.errexit /\ ~tested /\ r.st # 0 THEN Leave(r, "exit", 0) ELSE r

\* What is left of a child process: its files and its status.
FromChild(r, c) == [r EXCEPT !.out = c.out, !.world = c.world, !.st = c.st % 256]

-----------------------------------------------------------------------------
(* Words.                                                                  *)

GetVar(r, name) ==
    LET i == AtomNumber(name)
    IN  CASE i = 0 -> environ_get(r.env, name)
          [] i \in DOMAIN r.args -> r.args[i]
          [] OTHER -> <<>>

ExpandPart(acc, u) ==
    LET r == acc.r
        o == IF "captured" \in DOMAIN r.out THEN r.out["captured"] ELSE <<>>
        c == RunProgram([r EXCEPT !.fds[1] = "captured",
                                  !.out = ("captured" :> <<>>) @@ @], u.body, FALSE)
    IN  CASE u.wp = "lit" -> [acc EXCEPT !.s = @ \o Text(u.a)]
          [] u.wp = "var" -> [acc EXCEPT !.s = @ \o GetVar(r, u.name)]
          [] u.wp = "special" ->
                [acc EXCEPT !.s = @ \o CASE u.which = "?" -> <<ToString(r.st)>>
                                         [] u.which = "#" -> <<ToString(Len(r.args))>>
                                         [] u.which = "@" -> Join(r.args, " ")]
          [] u.wp = "cmdsub" ->
                [r |-> [FromChild(r, c) EXCEPT !.out = ("captured" :> o) @@ @],
                 s |-> acc.s \o Captured(c.out["captured"])]

ExpandWord(r, w) == FoldLeft(ExpandPart, [r |-> r, s |-> <<>>], w)

ExpandWords(r, words) ==
    LET Add(acc, w) ==
            LET x == ExpandWord(acc.r, w)
            IN  IF is_quoted_at(w) THEN [acc EXCEPT !.f = @ \o acc.r.args]
                ELSE [r |-> x.r,
                      f |-> acc.f \o (IF word_needs_split(w) THEN Fields(x.s)
                                      ELSE <<x.s>>)]
    IN  FoldLeft(Add, [r |-> r, f |-> <<>>], words)

-----------------------------------------------------------------------------
(* Simple commands.                                                        *)

Redirect(r, rd) ==
    LET x    == ExpandWord(r, rd.target)
        file == x.s[1]
    IN  CASE rd.rt = "close" -> [r EXCEPT !.fds[rd.fd] = "closed"]
          [] rd.rt = "here"  -> [r EXCEPT !.fds[rd.fd] = "here"]
          [] rd.rt = "dup"   -> [x.r EXCEPT !.fds[rd.fd] = x.r.fds[Integer(x.s)]]
          [] rd.rt = "out"   -> [x.r EXCEPT !.fds[rd.fd] = file,
                                            !.out = (file :> <<>>) @@ @]
          [] rd.rt = "append" -> [x.r EXCEPT !.fds[rd.fd] = file,
                                             !.out = @ @@ (file :> <<>>)]
          [] rd.rt = "in"    -> [x.r EXCEPT !.fds[rd.fd] = file]

Redirected(r, redirs) == FoldLeft(Redirect, r, redirs)

Assigned(r, asg, Set(_, _, _)) ==
    LET x == ExpandWord(r, asg.value)
    IN  [x.r EXCEPT !.env = Set(@, asg.name, x.s)]

\* A call: new parameters and a new scope, both gone afterwards.
CallFunction(r, argv, tested) ==
    LET s == RunCommand([r EXCEPT !.args = Tail(argv),
                                  !.env = <<environ_new>> \o @],
                        r.funcs[argv[1][1]], tested)
        back == [s EXCEPT !.args = r.args, !.env = Tail(@)]
    IN  IF back.ctl = "return" THEN Leave(back, "go", 0) ELSE back

RunBuiltinIn(r, name, args) ==
    CASE name \in {"true", ":", "exec"} -> [r EXCEPT !.st = 0]
      [] name = "false"  -> [r EXCEPT !.st = 1]
      [] name = "echo"   ->
            [r EXCEPT !.st = 0,
                      !.out = IF r.fds[1] = "closed" THEN @
                              ELSE [@ EXCEPT ![r.fds[1]] = Append(@, Join(args, " "))]]
      [] name \in {"exit", "return"} -> Leave([r EXCEPT !.st = Code1(args)], name, 0)
      [] name = "set" /\ args[1] # <<"--">> ->
            [r EXCEPT !.st = 0, !.errexit = (args[1] = <<"-e">>)]
      [] name = "set" /\ args[1] = <<"--">> -> [r EXCEPT !.st = 0, !.args = Tail(args)]
      [] name = "shift"  -> IF r.args = <<>> THEN [r EXCEPT !.st = 1]
                            ELSE [r EXCEPT !.st = 0, !.args = Tail(@)]
      [] name = "local"  ->
            [r EXCEPT !.st = 0, !.env = FoldLeft(
                LAMBDA e, a : environ_set(e, a[1], <<>>), @, args)]

RunExternal(r, c) ==
    IF c \notin DOMAIN Script THEN [r EXCEPT !.st = 127]
    ELSE LET k == r.world[c] + 1
         IN  [r EXCEPT !.world[c] = k,
                       !.st = Script[c][IF k > Len(Script[c]) THEN Len(Script[c]) ELSE k]]

RunWords(r, argv, tested) ==
    LET name == argv[1][1]
    IN  CASE argv = <<>> -> r
          [] argv # <<>> /\ name \in DOMAIN r.funcs -> CallFunction(r, argv, tested)
          [] argv # <<>> /\ name \notin DOMAIN r.funcs /\ name \in Builtins ->
                RunBuiltinIn(r, name, Tail(argv))
          [] OTHER -> RunExternal(r, name)

RunSimple(r, cmd, tested) ==
    LET words == cmd.words
        jump  == words # <<>> /\ \/ IsLiteral(words[1], "break")
                                 \/ IsLiteral(words[1], "continue")
        n     == IF Len(words) > 1 THEN AtomNumber(literal_value(words[2])) ELSE 1
        set   == FoldLeft(LAMBDA s, a : Assigned(s, a, environ_assign),
                          [r EXCEPT !.st = 0], cmd.assigns)
        temp  == IF cmd.assigns = <<>> THEN r
                 ELSE FoldLeft(LAMBDA s, a : Assigned(s, a, environ_set),
                               [r EXCEPT !.env = <<environ_new>> \o @],
                               cmd.assigns)
        x     == ExpandWords(Redirected(temp, cmd.redirs), words)
        ran   == RunWords(x.r, x.f, tested)
        fds   == IF Len(words) = 1 /\ IsLiteral(words[1], "exec")
                 THEN ran.fds ELSE r.fds
        env   == IF cmd.assigns = <<>> THEN ran.env ELSE Tail(ran.env)
    IN  CASE jump -> Leave([r EXCEPT !.st = 0], literal_value(words[1]), n)
          [] ~jump /\ words = <<>> -> Check(set, tested)
          [] OTHER -> Check([ran EXCEPT !.fds = fds, !.env = env], tested)

-----------------------------------------------------------------------------
(* Compound commands.                                                      *)

RunIf(r, clauses, tested) ==
    LET ic   == Head(clauses)
        cond == RunProgram(r, ic.cond, TRUE)
    IN  IF clauses = <<>> THEN [r EXCEPT !.st = 0]
        ELSE IF ic.cond = <<>> THEN RunProgram(r, ic.body, tested)
        ELSE IF ~Go(cond) THEN cond
        ELSE IF cond.st = 0 THEN RunProgram(cond, ic.body, tested)
        ELSE RunIf(cond, Tail(clauses), tested)

\* After the body of a loop: does the loop go on?  break and continue with a
\* count are for the loops around this one.
LoopGoesOn(r) == Go(r) \/ (r.ctl = "continue" /\ r.n = 1)

AfterLoop(r) ==
    CASE r.ctl \in {"break", "continue"} /\ r.n = 1 -> Leave(r, "go", 0)
      [] r.ctl \in {"break", "continue"} /\ r.n > 1 -> Leave(r, r.ctl, r.n - 1)
      [] OTHER -> r

RunFor(r, cmd, fields, tested) ==
    LET s == RunProgram([r EXCEPT !.env = environ_assign(@, cmd.var, Head(fields))],
                        cmd.body, tested)
    IN  IF fields = <<>> THEN r
        ELSE IF LoopGoesOn(s)
        THEN RunFor(Leave(s, "go", 0), cmd, Tail(fields), tested)
        ELSE AfterLoop(s)

RunWhile(r, cmd, tested, entered) ==
    LET cond == RunProgram(r, cmd.cond, TRUE)
        body == RunProgram(cond, cmd.body, tested)
    IN  IF ~Go(cond) THEN cond
        ELSE IF (cond.st = 0) = cmd.until
        THEN [cond EXCEPT !.st = IF entered THEN @ ELSE 0]
        ELSE IF LoopGoesOn(body) THEN RunWhile(Leave(body, "go", 0), cmd, tested, TRUE)
        ELSE AfterLoop(body)

\* The first item with a pattern that matches; its body ends the command.
RunCase(r, cmd, tested) ==
    LET subject == ExpandWord(r, cmd.subject).s
        Hit(ci) == \E i \in DOMAIN ci.pats : ExpandWord(r, ci.pats[i]).s = subject
        k       == SelectInSeq(cmd.items, Hit)
    IN  IF k = 0 THEN [r EXCEPT !.st = 0]
        ELSE RunProgram(r, cmd.items[k].body, tested)

RunTest(r, d) ==
    CASE d.e = "str" -> ExpandWord(r, d.word).s # <<>>
      [] d.e = "eq"  -> ExpandWord(r, d.word).s = ExpandWord(r, d.pat).s
      [] d.e = "not" -> ~RunTest(r, d.left)
      [] d.e = "and" -> RunTest(r, d.left) /\ RunTest(r, d.right)
      [] d.e = "or"  -> RunTest(r, d.left) \/ RunTest(r, d.right)

RunSubshell(r, cmd, tested) ==
    Check(FromChild(r, RunProgram(r, cmd.body, tested)), tested)

RunForWords(r, cmd, tested) ==
    LET x == ExpandWords(r, cmd.words)
        f == IF cmd.words = <<>> THEN r.args ELSE x.f
    IN  RunFor(IF f = <<>> THEN [x.r EXCEPT !.st = 0] ELSE x.r, cmd, f, tested)

RunCompound(r, cmd, tested) ==
    CASE cmd.ct = "if"       -> RunIf(r, cmd.clauses, tested)
      [] cmd.ct = "for"      -> RunForWords(r, cmd, tested)
      [] cmd.ct = "while"    -> RunWhile(r, cmd, tested, FALSE)
      [] cmd.ct = "case"     -> RunCase(r, cmd, tested)
      [] cmd.ct = "group"    -> RunProgram(r, cmd.body, tested)
      [] cmd.ct = "subshell" -> RunSubshell(r, cmd, tested)
      [] cmd.ct = "funcdef"  -> [r EXCEPT !.funcs = (cmd.name :> cmd.cmd) @@ @]
      [] cmd.ct = "bracket"  -> [r EXCEPT !.st = IF RunTest(r, cmd.expr) THEN 0 ELSE 1]

RunCommand(r, cmd, tested) ==
    IF cmd.ct = "simple" THEN RunSimple(r, cmd, tested)
    ELSE [RunCompound(Redirected(r, cmd.redirs), cmd, tested) EXCEPT !.fds = r.fds]

-----------------------------------------------------------------------------
(* Pipelines, lists and programs.                                          *)

Negated(r) == [r EXCEPT !.st = IF @ = 0 THEN 1 ELSE 0]

RunPipe(r, pl, tested) ==
    LET n == Len(pl.cmds)
        Member(acc, i) ==
            FromChild(acc, RunCommand([acc EXCEPT !.fds = IF i = n THEN r.fds
                                                          ELSE [r.fds EXCEPT ![1] = "sink"],
                                                  !.out = @ @@ ("sink" :> <<>>)],
                                      pl.cmds[i], tested))
        one == RunCommand(r, pl.cmds[1], tested \/ pl.negated)
        all == FoldLeft(Member, r, [i \in 1..n |-> i])
    IN  CASE n = 1 /\ ~pl.negated -> one
          [] n = 1 /\ pl.negated  -> Then(one, Negated)
          [] n > 1 /\ ~pl.negated -> Check(all, tested)
          [] n > 1 /\ pl.negated  -> Negated(all)

\* Only the last pipeline of an and-or list is subject to errexit.
RunList(r, l, tested) ==
    LET n == Len(l.pipes)
        Step(s, i) ==
            IF ~Go(s) \/ (i > 1 /\ (l.conns[i - 1] = "and") # (s.st = 0)) THEN s
            ELSE RunPipe(s, l.pipes[i], tested \/ i < n)
    IN  FoldLeft(Step, r, [i \in 1..n |-> i])

RunBackground(r, l) ==
    [FromChild(r, RunList([r EXCEPT !.errexit = FALSE, !.fds[0] = "null"], l, FALSE))
       EXCEPT !.st = 0]

RunProgram(r, program, tested) ==
    FoldLeft(LAMBDA s, l : IF ~Go(s) THEN s
                           ELSE IF l.bg THEN RunBackground(s, l)
                           ELSE RunList(s, l, tested),
             r, program)

\* The files that belong to the program, not to a pipe.
Files == {"tty", "a.out", "b.out"}

Content(o) == [f \in Files |-> IF f \in DOMAIN o THEN o[f] ELSE <<>>]

\* The files, the external runs and the exit status of a program.
Meaning(program) ==
    LET r == RunProgram([out |-> [f \in {"tty", "stderr"} |-> <<>>],
                         world |-> [c \in DOMAIN Script |-> 0],
                         env |-> <<environ_new>>, args |-> <<>>,
                         fds |-> (0 :> "stdin" @@ 1 :> "tty" @@ 2 :> "stderr" @@
                                  3 :> "closed"),
                         funcs |-> [f \in {} |-> <<>>], st |-> 0, errexit |-> FALSE,
                         ctl |-> "go", n |-> 0], program, FALSE)
    IN  [files |-> Content(r.out), world |-> r.world, status |-> r.st]

ASSUME ProgramsAssumption ==
    LET ps == Programs
    IN  /\ Images = [p \in DOMAIN ps |-> compile(ps[p])]
        /\ Meanings = [p \in DOMAIN ps |-> Meaning(ps[p])]

\* (A definition, so that TLC evaluates the constant once.)
Expected == Meanings

-----------------------------------------------------------------------------
(* Properties.                                                             *)

\* Once every process has ended, the files, the runs of external commands and
\* the exit status are the ones the program means: compiling a program and
\* running its code (compile, vm_run) amounts to running it by the rules of
\* the shell, whatever the order in which its processes take their steps.
ShellSemantics ==
    AllDone => [files |-> Content(out), world |-> world,
                status |-> procs[1].last] = Expected[prog]
=============================================================================
