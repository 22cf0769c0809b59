------------------------------ MODULE MCFormat ------------------------------
(***************************************************************************)
(* Scripts for TLC: every context inside every context around a few        *)
(* commands, in four styles; and texts that are one lexeme away from a     *)
(* script.                                                                 *)
(***************************************************************************)
EXTENDS Writing

MCIoNumber == ("#0" :> 0) @@ ("#1" :> 1) @@ ("#2" :> 2)

MCSingleQuoted == ("$x" :> "'$x'") @@ ("E" :> "'E'")

MCDoubleQuoted == ("$x" :> "\"$x\"") @@ ("E" :> "\"E\"") @@ ("if" :> "\"if\"")

MCBodies == <<<<"one", "\n", "E", "fi", "\n">>, <<"two", "\n">>>>

W(text) == Word(text, FALSE, text \notin Expanding)

Simple(words) == [NoWords EXCEPT !.words = words]

A == Simple(<<W("a")>>)

B == Simple(<<W("b")>>)

Rd(type, fd, target) ==
    [type |-> type, fd |-> fd, target |-> target, expand |-> FALSE, document |-> 0]

\* The n-th here-document of a script.
Here(type, n, target) ==
    [Rd(type, 0, target) EXCEPT !.expand = ~target.quoted, !.document = n]

Doc(n) == [Simple(<<W("cat")>>) EXCEPT !.redirs = <<Here("<<", n, W(IF n = 1 THEN "E" ELSE "F"))>>]

Pl(commands) == [commands |-> commands, negated |-> FALSE]

Ao(pipelines, connectors) ==
    [pipelines |-> pipelines, connectors |-> connectors, background |-> FALSE]

One(cmd) == Ao(<<Pl(<<cmd>>)>>, <<>>)

Group(lists) == [ct |-> "group", body |-> lists, redirs |-> <<>>]

Bracket(expr) == [ct |-> "bracket", expr |-> expr, redirs |-> <<>>]

Str(text) == [ce |-> "string", word |-> W(text)]

Bin(op, l, r) == [ce |-> "binary", op |-> op, left |-> W(l), right |-> W(r)]

Tests ==
    {Str("a"), [ce |-> "unary", op |-> "-n", arg |-> W("if")], Bin("=~", "a", "|"),
     Joined("or", Joined("and", Str("a"), [ce |-> "not", child |-> Bin("==", "a", "b")]),
            Joined("and", Bin("=~", "a", "("), Str("!=")))}

Commands ==
    {A, Simple(<<W("a"), W("if"), W("x=1"), W("}"), W("!")>>),
     Simple(<<Word("if", TRUE, TRUE), Word("$x", TRUE, FALSE), W("$x"), Word("$x", TRUE, TRUE)>>),
     [NoWords EXCEPT !.assigns = <<W("x=1"), W("y=")>>],
     [A EXCEPT !.assigns = <<W("x=1")>>, !.words = <<W("a"), W("fi")>>],
     [NoWords EXCEPT !.arrays = <<[name |-> "y=", elements |-> <<W("a"), W("do")>>]>>],
     [A EXCEPT !.redirs = <<Rd(">", 1, W("f")), Rd(">&", 2, W("1")), Rd("close", 0, W("-"))>>],
     [NoWords EXCEPT !.redirs = <<Rd(">", 2, W("f"))>>],
     Doc(1),
     [Doc(1) EXCEPT !.redirs = <<Here("<<-", 1, Word("E", TRUE, TRUE)), Rd(">>", 1, W("f"))>>],
     [Doc(1) EXCEPT !.redirs = <<Here("<<", 1, W("E")), Here("<<", 2, W("F"))>>]}
    \cup {Bracket(t) : t \in Tests}

Loop(type, condition, body) ==
    [ct |-> type, condition |-> condition, body |-> body, redirs |-> <<>>]

For(words, body) ==
    [ct |-> "for", varname |-> "i", words |-> words, body |-> body, redirs |-> <<>>]

If(clauses) == [ct |-> "if", clauses |-> clauses, redirs |-> <<>>]

Case(items) == [ct |-> "case", subject |-> W("x"), items |-> items, redirs |-> <<>>]

Item(patterns, body, terminator) ==
    [patterns |-> patterns, body |-> body, terminator |-> terminator]

\* Commands with a list in one of their places.
Around(l) ==
    {Group(l), [Group(l) EXCEPT !.ct = "subshell"], [Group(l) EXCEPT !.redirs = <<Rd("<>", 2, W("f"))>>],
     Loop("while", l, <<One(A)>>), Loop("until", <<One(A)>>, l),
     For(<<W("a"), W("x=1")>>, l), For(<<>>, l),
     If(<<Clause(l, <<One(A)>>)>>), If(<<Clause(<<One(A)>>, l), Clause(<<>>, <<One(B)>>)>>),
     If(<<Clause(<<One(A)>>, <<One(A)>>), Clause(l, <<One(B)>>)>>),
     If(<<Clause(<<One(A)>>, <<One(A)>>), Clause(<<One(A)>>, <<One(A)>>), Clause(<<>>, l)>>),
     Case(<<Item(<<W("a"), W("if")>>, l, ";&"), Item(<<W("*")>>, <<>>, ";|")>>),
     Case(<<Item(<<W("a")>>, <<>>, ";;"), Item(<<W("b")>>, l, ";;")>>),
     [ct |-> "funcdef", name |-> "g", body |-> Group(l), redirs |-> <<>>]}

\* Lists with a command in one of their places.
Joins(c) ==
    {<<One(c)>>, <<One(c), One(A)>>, <<One(A), One(c)>>,
     <<Ao(<<Pl(<<c, B>>)>>, <<>>)>>, <<Ao(<<Pl(<<B, c>>)>>, <<>>)>>,
     <<Ao(<<Pl(<<c>>), Pl(<<A, B>>), Pl(<<B>>)>>, <<"&&", "||">>)>>,
     <<Ao(<<Pl(<<A>>), Pl(<<c>>)>>, <<"||">>)>>,
     <<[One(c) EXCEPT !.background = TRUE], One(A)>>,
     <<Ao(<<[commands |-> <<c>>, negated |-> TRUE]>>, <<>>)>>}

\* Two here-documents, one behind the other and one around the other.
TwoDocs ==
    {<<Ao(<<Pl(<<Doc(1), Doc(2)>>)>>, <<>>)>>, <<Ao(<<Pl(<<Doc(1)>>), Pl(<<Doc(2)>>)>>, <<"&&">>)>>,
     <<One(Doc(1)), One(Doc(2))>>}
    \cup {<<One([c EXCEPT !.redirs = <<Here("<<", 2, W("F"))>>])>> :
            c \in {d \in Around(<<One(Doc(1))>>) : d.ct # "funcdef"}}
    \cup {<<Ao(<<Pl(<<Doc(1), c>>)>>, <<>>)>> : c \in Around(<<One(Doc(2))>>)}

MCTrees ==
    UNION {Joins(c) : c \in Commands}
    \cup {<<One(d)>> : d \in UNION {Around(<<One(c)>>) : c \in Commands}}
    \cup UNION {Joins(c) : c \in UNION {Around(l) : l \in Joins(Doc(1)) \cup Joins(A)}}
    \cup {<<One(c)>> : c \in UNION {Around(<<One(d)>>) :
                d \in UNION {Around(<<One(e)>>) : e \in {Doc(1), A}}}}
    \cup TwoDocs \cup {<<One(c)>> : c \in UNION {Around(l) : l \in TwoDocs}}

MCStyles == [lines : BOOLEAN, parentheses : BOOLEAN]

Plain == [lines |-> FALSE, parentheses |-> FALSE]

\* Texts one lexeme away from a script.
Inserted == {"a", "x=1", ";", "\n", "&", "|", "&&", "!", "{", "}", "(", ")", "if", "then", "else",
             "elif", "fi", "do", "done", "case", "in", "esac", "while", "for", ";;", ">", "<<",
             "[[", "]]", "==", "function"}

Disturbed(text) ==
    {RemoveAt(text, i) : i \in 1 .. Len(text) - 1}
    \cup {ReplaceAt(text, i, l) : i \in 1 .. Len(text) - 1, l \in Inserted}
    \cup {InsertAt(text, i, l) : i \in DOMAIN text, l \in Inserted}

Sentences ==
    {Written(<<One(c)>>, Plain, MCBodies) :
        c \in Around(<<One(A)>>) \cup {Bracket(t) : t \in Tests} \cup {Doc(1)}}
    \cup {Written(l, Plain, MCBodies) : l \in Joins(A)}

MCTexts == UNION {Disturbed(s) : s \in Sentences}
=============================================================================
