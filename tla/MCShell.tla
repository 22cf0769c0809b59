------------------------------ MODULE MCShell -------------------------------
(***************************************************************************)
(* Programs for the runs of Shell.  A program is named by what it is put   *)
(* together from: <<mode, outer, inner, leaf>> is the leaf command inside  *)
(* the inner construct inside the outer one.  Constructs print a mark      *)
(* after their body (mode "mark"), or the status it left (mode "status");  *)
(* mode "set -e" is mode "mark" under set -e.                              *)
(***************************************************************************)
EXTENDS Shell

-----------------------------------------------------------------------------
(* Syntax trees.                                                           *)

Lit(a) == <<[wp |-> "lit", a |-> a, q |-> FALSE]>>

Var(x) == <<[wp |-> "var", name |-> x, q |-> FALSE]>>

QVar(x) == <<[wp |-> "var", name |-> x, q |-> TRUE]>>

Special(s, q) == <<[wp |-> "special", which |-> s, q |-> q]>>

CmdSub(body) == <<[wp |-> "cmdsub", body |-> body, q |-> FALSE]>>

Words(atoms) == [i \in DOMAIN atoms |-> Lit(atoms[i])]

Cmd(words) == [ct |-> "simple", assigns |-> <<>>, words |-> words, redirs |-> <<>>]

Simple(atoms) == Cmd(Words(atoms))

Assign(x, w) == [Cmd(<<>>) EXCEPT !.assigns = <<[name |-> x, value |-> w]>>]

Temp(x, a, cmd) == [cmd EXCEPT !.assigns = <<[name |-> x, value |-> Lit(a)]>>]

Redir(cmd, fd, rt, a) ==
    [cmd EXCEPT !.redirs = Append(@, [fd |-> fd, rt |-> rt, target |-> Lit(a)])]

If(cond, yes, no) ==
    [ct |-> "if", redirs |-> <<>>,
     clauses |-> <<[cond |-> cond, body |-> yes]>> \o
                 (IF no = <<>> THEN <<>> ELSE <<[cond |-> <<>>, body |-> no]>>)]

For(x, words, body) ==
    [ct |-> "for", redirs |-> <<>>, var |-> x, words |-> words, body |-> body]

While(until, cond, body) ==
    [ct |-> "while", redirs |-> <<>>, until |-> until, cond |-> cond, body |-> body]

Item(atoms, body, term) == [pats |-> Words(atoms), body |-> body, term |-> term]

Case(subject, items) ==
    [ct |-> "case", redirs |-> <<>>, subject |-> subject, items |-> items]

Group(body) == [ct |-> "group", redirs |-> <<>>, body |-> body]

Subshell(body) == [ct |-> "subshell", redirs |-> <<>>, body |-> body]

FuncDef(f, body) ==
    [ct |-> "funcdef", redirs |-> <<>>, name |-> f, cmd |-> Group(body)]

Bracket(expr) == [ct |-> "bracket", redirs |-> <<>>, expr |-> expr]

Eq(w, a) == [e |-> "eq", word |-> w, pat |-> Lit(a)]

Pipe(cmds) == [negated |-> FALSE, cmds |-> cmds]

Not(pipe) == [pipe EXCEPT !.negated = TRUE]

AndOr(pipes, conns) == <<[bg |-> FALSE, pipes |-> pipes, conns |-> conns]>>

One(cmd) == AndOr(<<Pipe(<<cmd>>)>>, <<>>)

Background(cmd) == <<[One(cmd)[1] EXCEPT !.bg = TRUE]>>

\* Commands one after another.
Do(cmds) == FlattenSeq([i \in DOMAIN cmds |-> One(cmds[i])])

Echo(a) == Simple(<<"echo", a>>)

EchoWord(w) == Cmd(<<Lit("echo"), w>>)

-----------------------------------------------------------------------------
(* Leaves and constructs.                                                  *)

\* External commands: cmd fails the first time, w and u end loops.
Statuses ==
    [cmd |-> <<1, 0, 2>>, w |-> <<0, 0, 1, 0, 1>>, u |-> <<1, 0, 1, 1, 0>>,
     ok |-> <<0>>]

LeafBody(leaf) ==
    CASE leaf = "echo"       -> One(Echo("x"))
      [] leaf = "cmd"        -> One(Simple(<<"cmd">>))
      [] leaf = "false"      -> One(Simple(<<"false">>))
      [] leaf = "nope"       -> One(Simple(<<"nope">>))
      [] leaf = "break"      -> One(Simple(<<"break">>))
      [] leaf = "break 2"    -> One(Simple(<<"break", "2">>))
      [] leaf = "continue"   -> One(Simple(<<"continue">>))
      [] leaf = "continue 2" -> One(Simple(<<"continue", "2">>))
      [] leaf = "return"     -> One(Simple(<<"return", "4">>))
      [] leaf = "exit"       -> One(Simple(<<"exit", "3">>))
      [] leaf = "if cmd"     -> One(If(One(Simple(<<"cmd">>)), One(Echo("y")), <<>>))
      [] leaf = "assign"     -> Do(<<Assign("V", Lit("1")), EchoWord(QVar("V"))>>)
      [] leaf = "temp"       ->
            Do(<<Temp("V", "2", Simple(<<"ok">>)), EchoWord(Var("V") \o Lit("."))>>)
      [] leaf = "empty"      -> One(Cmd(<<Var("E")>>))
      [] leaf = "set --"     ->
            Do(<<Simple(<<"set", "--", "q">>), EchoWord(Special("@", TRUE))>>)
      [] leaf = "shift"      ->
            Do(<<Simple(<<"shift">>), Cmd(<<Lit("echo"), Special("#", FALSE),
                                            Special("@", FALSE)>>)>>)
      [] leaf = "> b.out"    -> One(Redir(Echo("x"), 1, "out", "b.out"))
      [] leaf = ">> b.out"   -> One(Redir(Echo("x"), 1, "append", "b.out"))
      [] leaf = "2>&1"       ->
            One(Redir(Redir(Redir(Echo("x"), 2, "dup", "1"), 1, "out", "b.out"),
                      1, "dup", "2"))
      [] leaf = ">&-"        -> One(Redir(Echo("x"), 1, "close", ""))
      [] leaf = "[["         ->
            One(Bracket([e |-> "or",
                         left  |-> [e |-> "and", left |-> Eq(QVar("V"), "1"),
                                    right |-> [e |-> "str", word |-> QVar("V")]],
                         right |-> [e |-> "not", left |-> Eq(QVar("V"), "")]]))

\* The body in a construct at depth d, followed by after.
Wrap(ctx, d, body, after) ==
    LET n == ToString(d)
        f == "f" \o n
        g == Group(body)
        call == Simple(<<f, "a", "b">>)
        def  == One(FuncDef(f, body))
        set  == One(Simple(<<":">>))
    IN  (CASE ctx = "none"     -> body
           [] ctx = "then"     -> One(If(One(Simple(<<"true">>)), body, <<>>))
           [] ctx = "else"     -> One(If(One(Simple(<<"false">>)), One(Echo("no")), body))
           [] ctx = "cond"     -> One(If(body, One(Echo("yes")), One(Echo("no"))))
           [] ctx = "for"      -> One(For("i" \o n, Words(<<"1", "2">>),
                                          One(EchoWord(Var("i" \o n))) \o body))
           [] ctx = "while"    -> One(While(FALSE, One(Simple(<<"w">>)), body))
           [] ctx = "until"    -> One(While(TRUE, One(Simple(<<"u">>)), body))
           [] ctx = "case"     -> One(Case(Lit("k"),
                                           <<Item(<<"j">>, One(Echo("no")), "break"),
                                             Item(<<"l", "k">>, body, "break")>>))
           [] ctx = "group"    -> One(g)
           [] ctx = "{ } > a.out"  -> One(Redir(g, 1, "out", "a.out"))
           [] ctx = "{ } >> a.out" -> One(Redir(g, 1, "append", "a.out"))
           [] ctx = "call"     -> def \o set \o One(call)
           [] ctx = "V=t call" -> def \o set \o One(Temp("V", "t", call))
           [] ctx = "call > b.out" -> def \o set \o One(Redir(call, 1, "out", "b.out"))
           [] ctx = "( )"      -> One(Subshell(body))
           [] ctx = "$( )"     -> One(EchoWord(Lit("[") \o CmdSub(body) \o Lit("]")))
           [] ctx = "| ok"     -> AndOr(<<Pipe(<<g, Simple(<<"ok">>)>>)>>, <<>>)
           [] ctx = "ok |"     -> AndOr(<<Pipe(<<Simple(<<"ok">>), g>>)>>, <<>>)
           [] ctx = "! ok |"   -> AndOr(<<Not(Pipe(<<Simple(<<"ok">>), g>>))>>, <<>>)
           [] ctx = "!"        -> AndOr(<<Not(Pipe(<<g>>))>>, <<>>)
           [] ctx = "&& ||"    -> AndOr(<<Pipe(<<g>>), Pipe(<<Echo("and")>>),
                                          Pipe(<<Echo("or")>>)>>, <<"and", "or">>)
           [] ctx = "true &&"  -> AndOr(<<Pipe(<<Simple(<<"true">>)>>), Pipe(<<g>>)>>,
                                        <<"and">>)
           [] ctx = "&"        -> Background(Redir(g, 1, "out", "a.out"))) \o after

-----------------------------------------------------------------------------
(* Which combinations are run.  The ones left out are those in which the   *)
(* program is known to leave the rules (see README).                       *)

Loops == <<"for", "while", "until">>

Calls == <<"call", "V=t call", "call > b.out">>

Through == <<"none", "then", "else", "case", "group", "true &&">>

Tested == <<"cond", "!", "&& ||">>

ToA == <<"{ } > a.out", "{ } >> a.out", "&">>

Constructs ==
    Loops \o Calls \o Through \o Tested \o ToA \o
    <<"( )", "$( )", "| ok", "ok |", "! ok |">>

In(x, seq) == \E i \in DOMAIN seq : seq[i] = x

\* The loops a jump can leave, innermost first, and whether return is possible
\* without a scope, a redirection or a tested command being left with it.
Inside(b, ctx) ==
    CASE In(ctx, Loops)   -> [b EXCEPT !.loops = <<ctx>> \o @]
      [] In(ctx, Through) -> b
      [] In(ctx, Calls)   -> [loops |-> <<>>, ret |-> TRUE]
      [] OTHER           -> [loops |-> <<>>, ret |-> FALSE]

CanJump(outer, inner, leaf) ==
    LET b == Inside(Inside([loops |-> <<>>, ret |-> FALSE], outer), inner)
    IN  CASE leaf = "break"      -> b.loops # <<>>
          [] leaf = "break 2"    -> Len(b.loops) = 2
          [] leaf = "continue"   -> b.loops # <<>> /\ b.loops[1] = "for"
          [] leaf = "continue 2" -> Len(b.loops) = 2 /\ b.loops[2] = "for"
          [] leaf = "return"     -> b.ret
          [] OTHER               -> TRUE

Jumps == <<"break", "break 2", "continue", "continue 2">>

ToB == <<"> b.out", ">> b.out", "2>&1">>

Leaves ==
    Jumps \o ToB \o
    <<"echo", "cmd", "false", "nope", "return", "exit", "if cmd", "assign", "temp",
      "empty", "set --", "shift", ">&-", "[[">>

Modes == <<"mark", "status", "set -e">>

Allowed(mode, outer, inner, leaf) ==
    LET both == {outer, inner}
    IN  /\ CanJump(outer, inner, leaf)
        /\ inner # "&"
        /\ ~(In(outer, ToA) /\ In(inner, ToA))
        /\ "call > b.out" \in both => ~In(leaf, ToB) /\ outer # inner
        /\ leaf = "return" => \A c \in both : ~In(c, ToA) /\ c # "call > b.out"
        /\ mode = "status" => ~In(leaf, Jumps)
        /\ leaf = "empty" => /\ mode = "mark"
                             /\ \A c \in both : In(c, Through) /\ c # "else"
        /\ mode = "set -e" =>
             /\ "! ok |" \notin both
             /\ leaf # "[["
             /\ ~(In(outer, Tested) /\ inner = "$( )")

\* All names <<mode, outer, inner, leaf>>, one after another.
AllNames ==
    LET m == Len(Modes)  c == Len(Constructs)  l == Len(Leaves)
        At4(i) == <<Modes[(i % m) + 1], Constructs[((i \div m) % c) + 1],
                    Constructs[((i \div (m * c)) % c) + 1],
                    Leaves[((i \div (m * c * c)) % l) + 1]>>
    IN  [i \in 1 .. m * c * c * l |-> At4(i)]

Program(n) ==
    LET After(d) == IF n[1] = "status" THEN One(EchoWord(Special("?", TRUE)))
                    ELSE One(Echo("after" \o ToString(d)))
    IN  (IF n[1] = "set -e" THEN One(Simple(<<"set", "-e">>)) ELSE <<>>)
        \o Wrap(n[2], 1, Wrap(n[3], 2, LeafBody(n[4]), After(2)), After(1))
        \o One(Echo("end"))

\* Constructs whose code has the shape of another one's.
Variants == {"until", "{ } >> a.out", "group", "! ok |"}

\* Every leaf in every construct, and the leaves that jump or fail in every
\* construct inside every construct, variants excepted.
Nested(n) ==
    /\ Allowed(n[1], n[2], n[3], n[4])
    /\ n[2] = "none" => n[3] = "none"
    /\ n[3] # "none" => /\ {n[2], n[3]} \cap Variants = {}
                        /\ In(n[4], Jumps \o <<"cmd", "return", "exit">>)
                        /\ n[1] = "status" => n[4] = "cmd"
                        /\ n[2] = "&" => n[1] = "mark"

Select(Test(_)) ==
    LET names == SelectSeq(AllNames, Test)
    IN  [i \in DOMAIN names |-> Program(names[i])] \o <<>>

NestedPrograms == Select(Nested)

-----------------------------------------------------------------------------
(* Programs for what the grammar above does not reach.                     *)

\* A function with a local variable calls itself until no parameter is left.
Recursion ==
    Do(<<FuncDef("f", Do(<<Simple(<<"local", "L">>), Assign("L", Special("#", TRUE)),
                           Assign("G", Var("L"))>>)
              \o AndOr(<<Pipe(<<Simple(<<"shift">>)>>),
                         Pipe(<<Cmd(<<Lit("f"), Special("@", TRUE)>>)>>)>>, <<"and">>)
              \o Do(<<Cmd(<<Lit("echo"), Var("L"), Var("G")>>)>>)),
         Simple(<<"f", "a", "b">>), Cmd(<<Lit("echo"), Var("L"), Var("G")>>)>>)

\* Names found out when they run: a function, a builtin, nothing.
Dynamic ==
    Do(<<FuncDef("f", Do(<<Cmd(<<Lit("echo"), Var("1")>>), Simple(<<"return", "5">>)>>)),
         Assign("F", Lit("f")), Assign("B", Lit("echo")),
         Cmd(<<Var("F"), Lit("a")>>), Cmd(<<Var("B"), Special("?", TRUE)>>),
         Cmd(<<Var("E")>>)>>)

\* Redirections of input, here-documents and the ones exec makes for good.
Redirections ==
    Do(<<Redir(Echo("x"), 1, "out", "b.out"),
         Redir(Redir(Simple(<<"ok">>), 0, "in", "b.out"), 3, "dup", "1"),
         Redir(Simple(<<"ok">>), 0, "here", "text"),
         Redir(Simple(<<"exec">>), 1, "append", "a.out"),
         Redir(Echo("y"), 1, "append", "b.out"), Echo("z")>>)

\* Loops over parameters, fields and nothing; nested substitutions.
Fielding ==
    Do(<<Simple(<<"set", "--", "a", "b">>), For("i", <<>>, One(EchoWord(Var("i")))),
         For("i", <<CmdSub(Do(<<Echo("c"), EchoWord(CmdSub(One(Simple(<<"echo", "d", "e">>))))>>))>>,
             Do(<<EchoWord(QVar("i") \o Lit(";")), Assign("S", Var("S") \o Var("i"))>>)),
         For("i", <<Var("E")>>, One(Echo("no"))),
         EchoWord(QVar("S"))>>)

\* elif, and a case that matches nothing.
Branching ==
    LET two == If(One(Simple(<<"cmd">>)), One(Echo("1")), <<>>)
        more == [two EXCEPT !.clauses = @ \o
                   <<[cond |-> One(Simple(<<"cmd">>)), body |-> One(Echo("2"))],
                     [cond |-> <<>>, body |-> One(Echo("3"))]>>]
    IN  Do(<<more, more, Simple(<<"false">>),
             Case(Var("E"), <<Item(<<"a">>, One(Echo("no")), "break")>>),
             EchoWord(Special("?", TRUE))>>)

\* A background list beside a subshell that fails.
Parallel ==
    Background(Redir(Simple(<<"echo", "1">>), 1, "out", "a.out"))
    \o Do(<<Subshell(Do(<<Redir(Echo("2"), 1, "out", "b.out"), Simple(<<"exit", "6">>)>>)),
            EchoWord(Special("?", TRUE))>>)

\* A pipeline of three: the status is the last member's.
ThreeMembers ==
    AndOr(<<Pipe(<<Echo("1"), Simple(<<"ok">>), Subshell(One(Simple(<<"exit", "6">>)))>>)>>,
          <<>>)
    \o One(EchoWord(Special("?", TRUE)))

ShellPrograms ==
    NestedPrograms \o
    <<Recursion, Dynamic, Redirections, Fielding, Branching, Parallel, ThreeMembers>>

-----------------------------------------------------------------------------
(* Programs of the runs that find a disagreement.                          *)

\* f() { return 0; }; f > a.out; echo b
ReturnPrograms ==
    <<Do(<<FuncDef("f", One(Simple(<<"return", "0">>))),
           Redir(Simple(<<"f">>), 1, "out", "a.out"), Echo("b")>>)>>

-----------------------------------------------------------------------------
(* Constants that follow from the programs.  (Concatenations, so that TLC  *)
(* compiles and runs each of them once.)                                   *)

Compiled == LET ps == Programs IN [p \in DOMAIN ps |-> compile(ps[p])] \o <<>>

Understood == LET ps == Programs IN [p \in DOMAIN ps |-> Meaning(ps[p])] \o <<>>
=============================================================================
