-------------------------------- MODULE Arith --------------------------------
(***************************************************************************)
(* The evaluator of src/src/vm/arith.c for $(( )): it parses and evaluates *)
(* in one pass.  A part that is not to be evaluated (the right side of     *)
(* "0 &&") is parsed with noexec set.                                      *)
(*                                                                         *)
(* An expression is a sequence of atoms: a numeral, a name, a blank, or    *)
(* one character of an operator, because the parser looks one or two       *)
(* characters ahead ("+" is an operator unless "+" or "=" follows).  The   *)
(* state of the parser (arith_state_t) has a field val, the value that the *)
(* C function returns.                                                     *)
(*                                                                         *)
(* Integers have WIDTH bits, 64 in the code.  Additions of signed integers *)
(* that overflow (x++, x += y) are undefined in C; the build wraps.        *)
(***************************************************************************)
EXTENDS Integers, Sequences, SequencesExt, TLC

LOCAL Bits == INSTANCE Bitwise

CONSTANTS
    WIDTH,              \* bits of an integer
    ARITH_MAX_DEPTH,    \* variables whose values are expressions with variables
    Names               \* the variables

ASSUME ArithAssumption ==
    /\ WIDTH \in 2..16
    /\ ARITH_MAX_DEPTH \in Nat \ {0}

INT_MIN == -(2 ^ (WIDTH - 1))

INT_MAX == 2 ^ (WIDTH - 1) - 1

\* Conversions between signed and unsigned integers.
Unsigned(n) == n % 2 ^ WIDTH

Signed(n) == LET u == Unsigned(n) IN IF u > INT_MAX THEN u - 2 ^ WIDTH ELSE u

-----------------------------------------------------------------------------
(* Text.                                                                   *)

Numerals == {ToString(n) : n \in 0 .. 2 ^ WIDTH}

\* strtoll, which stops at the largest integer.
strtoll(a) ==
    LET n == CHOOSE n \in 0 .. 2 ^ WIDTH : ToString(n) = a
    IN  IF n > INT_MAX THEN INT_MAX ELSE n

\* An integer as snprintf writes it.
Printed(n) == IF n < 0 THEN <<"-", ToString(-n)>> ELSE <<ToString(n)>>

Start(text, env, depth, noexec) ==
    [text |-> text, pos |-> 1, env |-> env, err |-> "ARITH_OK", depth |-> depth,
     noexec |-> noexec, val |-> 0]

\* The atom k places ahead, "" behind the end.
Peek(s, k) == IF s.pos + k <= Len(s.text) THEN s.text[s.pos + k] ELSE ""

Skip(s, k) == [s EXCEPT !.pos = @ + k]

RECURSIVE skip_ws(_)
skip_ws(s) == IF Peek(s, 0) = " " THEN skip_ws(Skip(s, 1)) ELSE s

Ok(s) == s.err = "ARITH_OK"

Fail(s, err) == [s EXCEPT !.err = err]

Value(s, n) == [s EXCEPT !.val = n]

set_var(s, name, n) ==
    IF s.noexec THEN Value(s, n)
    ELSE [s EXCEPT !.val = n, !.env = (name :> Printed(n)) @@ @]

-----------------------------------------------------------------------------
(* Operators.  Each level of precedence has a function of its own in the   *)
(* code; here it is the set of its tests, of which at most one succeeds:   *)
(* the characters of an operator, and the ones that may not follow.        *)

Test(chars, but) == [chars |-> chars, but |-> but]

parse_log_or == {Test(<<"|", "|">>, {})}

parse_log_and == {Test(<<"&", "&">>, {})}

parse_bit_or == {Test(<<"|">>, {"|", "="})}

parse_bit_xor == {Test(<<"^">>, {"="})}

parse_bit_and == {Test(<<"&">>, {"&", "="})}

parse_eq == {Test(<<"=", "=">>, {}), Test(<<"!", "=">>, {})}

parse_rel ==
    {Test(<<"<", "=">>, {}), Test(<<">", "=">>, {}), Test(<<"<">>, {"<", "="}),
     Test(<<">">>, {">", "="})}

parse_shift == {Test(<<"<", "<">>, {"="}), Test(<<">", ">">>, {"="})}

parse_add == {Test(<<"+">>, {"+", "="}), Test(<<"-">>, {"-", "="})}

parse_mul == {Test(<<"*">>, {"="}), Test(<<"/">>, {"="}), Test(<<"%">>, {"="})}

Levels ==
    <<parse_log_or, parse_log_and, parse_bit_or, parse_bit_xor, parse_bit_and,
      parse_eq, parse_rel, parse_shift, parse_add, parse_mul>>

Tests ==
    UNION {{[level |-> k, chars |-> t.chars, but |-> t.but] : t \in Levels[k]} :
           k \in DOMAIN Levels}

Holds(b) == IF b THEN 1 ELSE 0

Magnitude(n) == IF n < 0 THEN -n ELSE n

\* Division of C: towards zero.
Quotient(a, b) ==
    IF a = INT_MIN /\ b = -1 THEN INT_MIN
    ELSE LET q == Magnitude(a) \div Magnitude(b)
         IN  IF (a < 0) = (b < 0) THEN q ELSE -q

Remainder(a, b) ==
    IF a = INT_MIN /\ b = -1 THEN 0
    ELSE LET r == Magnitude(a) % Magnitude(b) IN IF a < 0 THEN -r ELSE r

\* The value of an operator; b is not 0 for a division.
Apply(op, a, b) ==
    LET ua == Unsigned(a)
        ub == Unsigned(b)
    IN  CASE op = <<"|", "|">> -> Holds(a # 0 \/ b # 0)
          [] op = <<"&", "&">> -> Holds(a # 0 /\ b # 0)
          [] op = <<"|">>      -> Signed(Bits!|(ua, ub))
          [] op = <<"^">>      -> Signed(Bits!^^(ua, ub))
          [] op = <<"&">>      -> Signed(Bits!&(ua, ub))
          [] op = <<"=", "=">> -> Holds(a = b)
          [] op = <<"!", "=">> -> Holds(a # b)
          [] op = <<"<", "=">> -> Holds(a <= b)
          [] op = <<">", "=">> -> Holds(a >= b)
          [] op = <<"<">>      -> Holds(a < b)
          [] op = <<">">>      -> Holds(a > b)
          [] op = <<"<", "<">> -> IF b \in 0 .. WIDTH - 1 THEN Signed(ua * 2 ^ b) ELSE 0
          [] op = <<">", ">">> -> IF b \in 0 .. WIDTH - 1 THEN a \div 2 ^ b ELSE 0
          [] op = <<"+">>      -> Signed(a + b)
          [] op = <<"-">>      -> Signed(a - b)
          [] op = <<"*">>      -> Signed(a * b)
          [] op = <<"/">>      -> Quotient(a, b)
          [] op = <<"%">>      -> Remainder(a, b)

\* x <<= b and x >>= b shift by 0 when b is out of range.
ApplyAssign(op, a, b) ==
    IF op \in {<<"<", "<">>, <<">", ">">>} /\ b \notin 0 .. WIDTH - 1
    THEN a ELSE Apply(op, a, b)

Divides(op) == op \in {<<"/">>, <<"%">>}

DivideByZero(s) ==
    Value(IF s.noexec THEN s ELSE Fail(s, "ARITH_ERR_DIV_ZERO"), 0)

-----------------------------------------------------------------------------
(* The parser.                                                             *)

RECURSIVE parse_expr(_)
RECURSIVE parse_assign(_)
RECURSIVE parse_unary(_)
RECURSIVE Operand(_, _)
RECURSIVE Rest(_, _, _)

\* The value of a variable is the value of the expression in it.
resolve_var(s, name) ==
    LET text == IF name \in DOMAIN s.env THEN s.env[name] ELSE <<>>
        sub  == parse_expr(Start(text, s.env, s.depth + 1, s.noexec))
    IN  IF s.depth >= ARITH_MAX_DEPTH THEN Value(Fail(s, "ARITH_ERR_DEPTH"), 0)
        ELSE IF text = <<>> THEN Value(s, 0)
        ELSE [s EXCEPT !.val = sub.val, !.env = sub.env,
                       !.err = IF Ok(sub) THEN @ ELSE sub.err]

Matches(s, chars) == \A i \in DOMAIN chars : Peek(s, i - 1) = chars[i]

\* name++ and name--: the old value is the result.
PostStep(s, name, by) ==
    LET r == resolve_var(Skip(s, 2), name)
    IN  Value(set_var(r, name, Signed(r.val + by)), r.val)

\* name = rhs.
Assign(s, name) ==
    LET rhs == parse_assign(Skip(s, 1)) IN set_var(rhs, name, rhs.val)

\* name op= rhs.
CompoundAssign(s, name, op) ==
    LET lhs == resolve_var(Skip(s, Len(op) + 1), name)
        rhs == parse_assign(lhs)
    IN  IF Divides(op) /\ rhs.val = 0 THEN DivideByZero(rhs)
        ELSE set_var(rhs, name, ApplyAssign(op, lhs.val, rhs.val))

CompoundOps ==
    {<<c>> : c \in {"+", "-", "*", "/", "%", "&", "^", "|"}}
    \cup {<<"<", "<">>, <<">", ">">>}

parse_variable(s0) ==
    LET name == Peek(s0, 0)
        s    == skip_ws(Skip(s0, 1))
        ops  == {op \in CompoundOps : Matches(s, op \o <<"=">>)}
    IN  CASE Matches(s, <<"+", "+">>) -> PostStep(s, name, 1)
          [] Matches(s, <<"-", "-">>) -> PostStep(s, name, -1)
          [] Peek(s, 0) = "=" /\ Peek(s, 1) # "=" -> Assign(s, name)
          [] ops # {} -> CompoundAssign(s, name, CHOOSE op \in ops : TRUE)
          [] OTHER -> resolve_var(s, name)

Closed(s) == IF Peek(s, 0) = ")" THEN Skip(s, 1) ELSE Fail(s, "ARITH_ERR_SYNTAX")

parse_primary(s) ==
    CASE Peek(s, 0) = "(" -> Closed(skip_ws(parse_expr(Skip(s, 1))))
      [] Peek(s, 0) \in Numerals -> Value(Skip(s, 1), strtoll(Peek(s, 0)))
      [] Peek(s, 0) \in Names -> parse_variable(s)
      [] Peek(s, 0) = "" -> Value(s, 0)
      [] OTHER -> Value(Fail(s, "ARITH_ERR_SYNTAX"), 0)

\* ++name and --name.
PreStep(s0, by) ==
    LET s    == skip_ws(Skip(s0, 2))
        name == Peek(s, 0)
        r    == resolve_var(Skip(s, 1), name)
    IN  IF name \notin Names THEN Value(Fail(s, "ARITH_ERR_SYNTAX"), 0)
        ELSE set_var(r, name, Signed(r.val + by))

parse_unary(s0) ==
    LET s       == skip_ws(s0)
        operand == parse_unary(Skip(s, 1))
        v       == operand.val
    IN  CASE ~Ok(s) -> Value(s, 0)
          [] Ok(s) /\ Peek(s, 0) = "+" /\ Peek(s, 1) \notin {"+", "="} -> operand
          [] Ok(s) /\ Peek(s, 0) = "-" /\ Peek(s, 1) \notin {"-", "="} ->
                Value(operand, Signed(-v))
          [] Ok(s) /\ Peek(s, 0) = "!" -> Value(operand, Holds(v = 0))
          [] Ok(s) /\ Peek(s, 0) = "~" -> Value(operand, -v - 1)
          [] Ok(s) /\ Matches(s, <<"+", "+">>) -> PreStep(s, 1)
          [] Ok(s) /\ Matches(s, <<"-", "-">>) -> PreStep(s, -1)
          [] OTHER -> parse_primary(s)

\* Mutant: the right side of || is always evaluated.
Decided_And(op, n) == op = <<"&", "&">> /\ n = 0

\* The right side of && and || when the left side decides.
Decided(op, n) ==
    (op = <<"&", "&">> /\ n = 0) \/ (op = <<"|", "|">> /\ n # 0)

\* The operator at the position, of a level among least..most, if any.
Found(s, least, most) ==
    {t \in Tests : /\ t.level \in least..most
                   /\ Matches(s, t.chars)
                   /\ Peek(s, Len(t.chars)) \notin t.but}

\* The loops of the levels least..most, the innermost (the largest) first.  What
\* follows the right side of an operator was no operator of a deeper level, so
\* only that level and those around it go on; a division by zero leaves its loop.
Continue(s, t, right, least) ==
    IF Divides(t.chars) /\ right.val = 0
    THEN Rest(DivideByZero(right), least, t.level - 1)
    ELSE Rest(Value(right, Apply(t.chars, s.val, right.val)), least, t.level)

Binary(s, t, least) ==
    LET right == Operand([Skip(s, Len(t.chars)) EXCEPT
                            !.noexec = @ \/ Decided(t.chars, s.val)], t.level + 1)
    IN  Continue(s, t, [right EXCEPT !.noexec = s.noexec], least)

Rest(s0, least, most) ==
    LET s     == skip_ws(s0)
        found == Found(s, least, most)
    IN  IF ~Ok(s) \/ found = {} THEN s
        ELSE Binary(s, CHOOSE t \in found : TRUE, least)

\* An operand of a level: the loops of the deeper ones.
Operand(s, least) == Rest(parse_unary(s), least, Len(Levels))

\* Parse without evaluating.
Unevaluated(s) ==
    [parse_assign([s EXCEPT !.noexec = TRUE]) EXCEPT !.noexec = s.noexec]

\* The rest of a ternary, from its colon, when the part before the colon is the
\* value and when the part behind it is.
Then(yes) ==
    IF Peek(yes, 0) = ":" THEN Value(Unevaluated(Skip(yes, 1)), yes.val)
    ELSE Fail(yes, "ARITH_ERR_SYNTAX")

Else(no) ==
    IF Peek(no, 0) = ":" THEN parse_assign(Skip(no, 1))
    ELSE Value(Fail(no, "ARITH_ERR_SYNTAX"), 0)

Ternary(cond) ==
    IF ~Ok(cond) \/ Peek(cond, 0) # "?" THEN cond
    ELSE IF cond.val # 0 THEN Then(skip_ws(parse_assign(Skip(cond, 1))))
    ELSE Else(skip_ws(Unevaluated(Skip(cond, 1))))

parse_ternary(s) == Ternary(skip_ws(Operand(s, 1)))

parse_assign(s) == parse_ternary(s)

RECURSIVE Commas(_)
Commas(s0) ==
    LET s == skip_ws(s0)
    IN  IF Ok(s) /\ Peek(s, 0) = "," THEN Commas(parse_assign(Skip(s, 1))) ELSE s

parse_expr(s) == Commas(parse_assign(s))

\* The lexer leaves the first of the two parentheses that close $(( )).
Finish(r) ==
    LET end == skip_ws(IF Peek(r, 0) = ")" THEN Skip(r, 1) ELSE r)
    IN  IF ~Ok(end) THEN Value(end, 0)
        ELSE IF Peek(end, 0) # "" THEN Value(Fail(end, "ARITH_ERR_SYNTAX"), 0) ELSE end

arith_eval(text, env) ==
    LET begin == skip_ws(Start(text, env, 0, FALSE))
    IN  IF Peek(begin, 0) = ")" /\ Peek(begin, 1) = ""
        THEN begin ELSE Finish(skip_ws(parse_expr(begin)))
=============================================================================
