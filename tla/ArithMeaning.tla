---------------------------- MODULE ArithMeaning ----------------------------
(***************************************************************************)
(* Arithmetic expansion, by the rules of C that POSIX refers to: what an   *)
(* expression tree means, how it is written, and the claim that evaluating *)
(* what is written (OP_EXPAND_ARITH in vm.c) gives what is meant.          *)
(*                                                                         *)
(* The variables of a case hold trees, because the value of a variable is  *)
(* an expression of its own.  Trees:                                       *)
(*                                                                         *)
(*   [k |-> "num", n]     [k |-> "var", x]      [k |-> "un", op, a]        *)
(*   [k |-> "bin", op, a, b]   (the comma too)  [k |-> "cond", c, a, b]    *)
(*   [k |-> "set", op, x, a]   (op <<>> is =)   [k |-> "pre", by, x] "post"*)
(***************************************************************************)
EXTENDS Arith, FiniteSetsExt

CONSTANT
    Cases       \* set of [tree, vars, spaced]

VARIABLES
    case,       \* the expression and the variables
    result      \* its result, or NotYet

vars == <<case, result>>

-----------------------------------------------------------------------------
(* Writing a tree: parentheses where precedence asks for them, and blanks  *)
(* everywhere (spaced) or only where two operators would run together.     *)

Num(n) == [k |-> "num", n |-> n]

Neg(a) == [k |-> "un", op |-> "-", a |-> a]

Precedence(t) ==
    CASE t.k = "bin" /\ t.op = <<",">> -> 1
      [] t.k = "set"                   -> 2
      [] t.k = "cond"                  -> 3
      [] t.k = "bin" /\ t.op # <<",">> ->
            3 + SelectInSeq(Levels, LAMBDA l : \E o \in l : o.chars = t.op)
      [] t.k \in {"un", "pre"}         -> 14
      [] t.k \in {"num", "var", "post"} -> 15

Glue(l, r, spaced) ==
    IF spaced \/ (Last(l) = Head(r) /\ Head(r) \in {"+", "-"})
    THEN l \o <<" ">> \o r ELSE l \o r

RECURSIVE Written(_, _, _)
Written(t, least, spaced) ==
    LET p       == Precedence(t)
        W(a, m) == Written(a, m, spaced)
        G(l, r) == Glue(l, r, spaced)
        twice   == IF t.by = 1 THEN <<"+", "+">> ELSE <<"-", "-">>
        plain   == CASE t.k = "num"  -> <<ToString(t.n)>>
                     [] t.k = "var"  -> <<t.x>>
                     [] t.k = "un"   -> G(<<t.op>>, W(t.a, 14))
                     [] t.k = "pre"  -> G(twice, <<t.x>>)
                     [] t.k = "post" -> G(<<t.x>>, twice)
                     [] t.k = "bin"  -> G(G(W(t.a, p), t.op), W(t.b, p + 1))
                     [] t.k = "set"  -> G(G(<<t.x>>, t.op \o <<"=">>), W(t.a, 2))
                     [] t.k = "cond" -> G(G(G(G(W(t.c, 4), <<"?">>), W(t.a, 2)), <<":">>),
                                          W(t.b, 3))
    IN  IF p < least THEN <<"(">> \o plain \o <<")">> ELSE plain

-----------------------------------------------------------------------------
(* Values, defined without the operations of the evaluator.                *)

Ints == INT_MIN .. INT_MAX

\* The integer of WIDTH bits that is n modulo 2^WIDTH.
Wrapped(n) == CHOOSE m \in Ints : (m - n) % 2 ^ WIDTH = 0

Places == 0 .. WIDTH - 1

BitSet(n) == {i \in Places : ((n + 2 ^ WIDTH) \div 2 ^ i) % 2 = 1}

FromBits(S) == Wrapped(MapThenSumSet(LAMBDA i : 2 ^ i, S))

\* a = q * b + r with r smaller than b and of the sign of a.
Divided(a, b) ==
    CHOOSE d \in [q : -(2 ^ WIDTH) .. 2 ^ WIDTH, r : Ints] :
        /\ a = d.q * b + d.r
        /\ Magnitude(d.r) < Magnitude(b)
        /\ d.r * a >= 0

Truth(b) == IF b THEN 1 ELSE 0

Combined(op, a, b) ==
    CASE op = <<"+">> -> Wrapped(a + b)
      [] op = <<"-">> -> Wrapped(a - b)
      [] op = <<"*">> -> Wrapped(a * b)
      [] op = <<"/">> -> Wrapped(Divided(a, b).q)
      [] op = <<"%">> -> Divided(a, b).r
      [] op = <<"&">> -> FromBits(BitSet(a) \cap BitSet(b))
      [] op = <<"|">> -> FromBits(BitSet(a) \cup BitSet(b))
      [] op = <<"^">> -> FromBits((BitSet(a) \cup BitSet(b)) \ (BitSet(a) \cap BitSet(b)))
      [] op = <<"<", "<">> -> FromBits({i \in Places : i - b \in BitSet(a)})
      [] op = <<">", ">">> ->
            FromBits({i \in Places : Min({i + b, WIDTH - 1}) \in BitSet(a)})
      [] op = <<"<">> -> Truth(a < b)
      [] op = <<">">> -> Truth(a > b)
      [] op = <<"<", "=">> -> Truth(a < b \/ a = b)
      [] op = <<">", "=">> -> Truth(a > b \/ a = b)
      [] op = <<"=", "=">> -> Truth(a = b)
      [] op = <<"!", "=">> -> Truth(a # b)
      [] op = <<",">> -> b

-----------------------------------------------------------------------------
(* What a tree means: a state r with the variables, the value v, and how   *)
(* it went: "ok", "error", or "open" where nothing is promised (a shift    *)
(* out of range; a variable that holds INT_MIN, see README).               *)

Stop(r, how) == [r EXCEPT !.how = how]

Store(r, x, n) ==
    [r EXCEPT !.v = n, !.vars = (x :> IF n < 0 THEN Neg(Num(-n)) ELSE Num(n)) @@ @]

\* Both operands have been evaluated.
Operate(r, op, a, b) ==
    IF op \in {<<"/">>, <<"%">>} /\ b = 0 THEN Stop(r, "error")
    ELSE IF op \in {<<"<", "<">>, <<">", ">">>} /\ b \notin Places THEN Stop(r, "open")
    ELSE [r EXCEPT !.v = Combined(op, a, b)]

RECURSIVE Mean(_, _, _)

\* The value of a variable, depth expressions deep.
Lookup(r, x, depth) ==
    IF depth >= ARITH_MAX_DEPTH THEN Stop(r, "error")
    ELSE IF x \notin DOMAIN r.vars THEN [r EXCEPT !.v = 0]
    ELSE IF r.vars[x] = Neg(Num(-INT_MIN)) THEN Stop(r, "open")
    ELSE Mean(r.vars[x], r, depth + 1)

Logical(t, r, depth) ==
    LET left  == Mean(t.a, r, depth)
        right == Mean(t.b, left, depth)
    IN  IF left.how # "ok" THEN left
        ELSE IF (left.v # 0) = (t.op = <<"|", "|">>) THEN [left EXCEPT !.v = Truth(@ # 0)]
        ELSE [right EXCEPT !.v = Truth(@ # 0)]

Unary(op, n) ==
    CASE op = "-" -> Wrapped(-n)
      [] op = "+" -> n
      [] op = "!" -> Truth(n = 0)
      [] op = "~" -> FromBits(Places \ BitSet(n))

Mean(t, r, depth) ==
    LET a    == Mean(t.a, r, depth)
        b    == Mean(t.b, a, depth)
        c    == Mean(t.c, r, depth)
        x    == Lookup(r, t.x, depth)
        set  == Mean(t.a, IF t.op = <<>> THEN r ELSE x, depth)
        both == Operate(set, t.op, x.v, set.v)
    IN  CASE r.how # "ok" -> r
          [] r.how = "ok" /\ t.k = "num" -> [r EXCEPT !.v = t.n]
          [] r.how = "ok" /\ t.k = "var" -> x
          [] r.how = "ok" /\ t.k = "un" -> [a EXCEPT !.v = Unary(t.op, @)]
          [] r.how = "ok" /\ t.k = "pre" ->
                IF x.how # "ok" THEN x ELSE Store(x, t.x, Wrapped(x.v + t.by))
          [] r.how = "ok" /\ t.k = "post" ->
                IF x.how # "ok" THEN x
                ELSE [Store(x, t.x, Wrapped(x.v + t.by)) EXCEPT !.v = x.v]
          [] r.how = "ok" /\ t.k = "set" ->
                IF set.how # "ok" THEN set
                ELSE IF t.op = <<>> THEN Store(set, t.x, set.v)
                ELSE IF both.how # "ok" THEN both ELSE Store(both, t.x, both.v)
          [] r.how = "ok" /\ t.k = "cond" ->
                IF c.how # "ok" THEN c
                ELSE Mean(IF c.v # 0 THEN t.a ELSE t.b, c, depth)
          [] r.how = "ok" /\ t.k = "bin" ->
                IF t.op \in {<<"&", "&">>, <<"|", "|">>} THEN Logical(t, r, depth)
                ELSE IF a.how # "ok" \/ b.how # "ok" THEN b
                ELSE Operate(b, t.op, a.v, b.v)

Texts(trees) == [x \in DOMAIN trees |-> Written(trees[x], 1, FALSE)]

\* The texts of the variables, the value pushed, and how it went.
Meant(c) ==
    LET r == Mean(c.tree, [vars |-> c.vars, v |-> 0, how |-> "ok"], 0)
    IN  [env |-> Texts(r.vars), pushed |-> Printed(r.v), how |-> r.how]

-----------------------------------------------------------------------------
(* The instruction.                                                        *)

\* The environment afterwards, the value pushed, and vm->laststatus, which is 1
\* when vm->halted is set.  (It is 0 before.)
Effect(r) ==
    [env |-> r.env, pushed |-> Printed(r.val), laststatus |-> IF Ok(r) THEN 0 ELSE 1]

Expansion(c) ==
    Effect(arith_eval(Written(c.tree, 1, c.spaced) \o <<")">>, Texts(c.vars)))

NotYet == [laststatus |-> 0]

Init == case \in Cases /\ result = NotYet

OP_EXPAND_ARITH ==
    /\ result = NotYet
    /\ result' = Expansion(case)
    /\ UNCHANGED case

Finished == result # NotYet /\ UNCHANGED vars

Next == OP_EXPAND_ARITH \/ Finished

Spec == Init /\ [][Next]_vars

-----------------------------------------------------------------------------
(* Properties.                                                             *)

\* An expression is parsed with the precedence and the associativity of C, its
\* parts are evaluated from left to right and only when they are needed, the
\* variables are left as it says, and the shell halts exactly when an evaluated
\* part divides by zero or never comes to an end (arith_eval, OP_EXPAND_ARITH).
EvaluatesAsMeant ==
    LET m == Meant(case)
    IN  result # NotYet =>
          /\ m.how = "ok" => result = [env |-> m.env, pushed |-> m.pushed, laststatus |-> 0]
          /\ m.how = "error" => result.laststatus = 1
=============================================================================
