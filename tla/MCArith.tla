------------------------------- MODULE MCArith -------------------------------
(***************************************************************************)
(* Expressions for TLC: every operator inside every operator, on both      *)
(* sides, with x, a constant and y as operands, and side effects in every  *)
(* place in which they may or may not happen.                              *)
(***************************************************************************)
EXTENDS ArithMeaning

X == [k |-> "var", x |-> "x"]

Y == [k |-> "var", x |-> "y"]

Un(op, a) == [k |-> "un", op |-> op, a |-> a]

Bin(op, a, b) == [k |-> "bin", op |-> op, a |-> a, b |-> b]

Cond(c, a, b) == [k |-> "cond", c |-> c, a |-> a, b |-> b]

Set(op, a) == [k |-> "set", op |-> op, x |-> "x", a |-> a]

UnaryOps == {"-", "+", "!", "~"}

BinaryOps == {<<",">>} \cup UNION {{o.chars : o \in l} : l \in Range(Levels)}

LogicalOps == {<<"&", "&">>, <<"|", "|">>}

Steps == [k : {"pre", "post"}, by : {1, -1}, x : {"x"}]

\* Two operators.
Pairs ==
    {Bin(o, Bin(p, X, Num(2)), Y) : o \in BinaryOps, p \in BinaryOps}
    \cup {Bin(o, X, Bin(p, Num(2), Y)) : o \in BinaryOps, p \in BinaryOps}
    \cup {Un(u, Bin(o, X, Y)) : u \in UnaryOps, o \in BinaryOps}
    \cup {Bin(o, Un(u, X), Un(v, Y)) : o \in BinaryOps, u \in UnaryOps, v \in UnaryOps}
    \cup {Cond(X, Bin(o, X, Y), Bin(o, Y, X)) : o \in BinaryOps}
    \cup {Bin(o, Cond(X, Y, Num(1)), Cond(Y, X, Num(2))) : o \in BinaryOps}
    \cup {Cond(X, Cond(Y, Num(1), Num(2)), Cond(Y, X, Num(3)))}

\* A step or an assignment beside an operator.
Effects ==
    {Bin(o, s, X) : o \in BinaryOps, s \in Steps}
    \cup {Bin(o, Y, s) : o \in BinaryOps, s \in Steps}
    \cup {Un(u, s) : u \in UnaryOps, s \in Steps}
    \cup {Set(o, Bin(p, X, Y)) : o \in CompoundOps \cup {<<>>}, p \in BinaryOps}
    \cup {Bin(p, Set(o, Y), X) : o \in CompoundOps \cup {<<>>}, p \in BinaryOps}
    \cup {Set(o, Set(<<>>, Y)) : o \in CompoundOps \cup {<<>>}}

\* Effects and divisions that happen only when the left side does not decide.
Guarded ==
    {Bin(l, X, Bin(o, s, Bin(d, Num(1), Y))) :
        l \in LogicalOps, o \in BinaryOps, s \in Steps, d \in {<<"/">>, <<"%">>}}
    \cup {Bin(l, X, Set(o, Y)) : l \in LogicalOps, o \in CompoundOps \cup {<<>>}}
    \cup {Cond(X, s, Set(o, Y)) : s \in Steps, o \in CompoundOps \cup {<<>>}}
    \cup {Bin(l, Bin(m, X, s), s) : l \in LogicalOps, m \in LogicalOps, s \in Steps}

Number(n) == IF n < 0 THEN Neg(Num(-n)) ELSE Num(n)

\* Values of x and y: integers, nothing, an expression.
Variables ==
    {("x" :> Number(m) @@ "y" :> Number(n)) : m \in INT_MIN + 1 .. INT_MAX,
                                              n \in {-1, 0, INT_MAX}}
    \cup {"x" :> Num(2), "y" :> Bin(<<"+">>, Num(1), Num(1))}
    \cup {"x" :> Bin(<<",">>, Num(0), Y) @@ "y" :> Num(2)}

\* Variables that never come to a value.
Cyclic == {"x" :> Y @@ "y" :> Bin(<<"*">>, X, Num(2))}

ArithCases ==
    LET trees == Pairs \cup Effects \cup Guarded
    IN  [tree : trees, vars : Variables, spaced : {FALSE}]
        \cup [tree : trees, vars : {"x" :> Num(3) @@ "y" :> Num(1)}, spaced : {TRUE}]
        \cup [tree : Effects, vars : Cyclic, spaced : {FALSE}]
=============================================================================
