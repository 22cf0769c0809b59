------------------------------- MODULE Parser -------------------------------
(***************************************************************************)
(* The parser of src/src/parser/parser.c and what it uses of lexer.c.      *)
(*                                                                         *)
(* A source is a sequence of lexemes: operators, newlines, words.  What a  *)
(* word becomes depends on the state of the lexer at the moment it is      *)
(* read, which may be one token ahead of the parser.  A digit directly     *)
(* before < or > is a lexeme of its own (IoNumber).  The characters inside *)
(* a word are left out: SingleQuoted and DoubleQuoted give the lexemes of  *)
(* a text in quotes, and a text in Expanding has an expansion.             *)
(*                                                                         *)
(* Trees are records, with the field names of ast.h where there is one:    *)
(*   list      [pipelines, connectors, background]                         *)
(*   pipeline  [commands, negated]                                         *)
(*   command   [ct |-> "simple" | "if" | ..., redirs |-> ...]              *)
(* A sequence of lists stands for the list linked by next, and the empty   *)
(* one for NULL.  A parsing operator takes the parser p and returns a      *)
(* record of the parser afterwards and the node n, which may be NULL.      *)
(***************************************************************************)
EXTENDS Integers, Sequences, SequencesExt, TLC

CONSTANTS
    NULL,
    IoNumber,               \* lexemes for descriptors, and their numbers
    Assignments,            \* lexemes that are assignments
    SingleQuoted,           \* texts and their lexemes in single quotes
    DoubleQuoted,           \* texts and their lexemes in double quotes
    Expanding,              \* texts in which $ is
    MAX_PENDING_HEREDOCS    \* here-documents of one line, 8 in the code

ASSUME PendingAssumption == MAX_PENDING_HEREDOCS \in Nat \ {0}

-----------------------------------------------------------------------------
(* Tokens.                                                                 *)

RedirOps == {"<", ">", "<<", ">>", "<&", ">&", "<>", ">|", "<<<", "<<-"}

HereOps == {"<<", "<<-"}

RegexChars == {"|", "||", "(", ")"}

Operators == {"\n", ";", "&", "&&", ";;", ";&", ";|"} \cup RegexChars \cup RedirOps

Reserved ==
    {"if", "then", "else", "elif", "fi", "do", "done", "case", "esac", "while",
     "until", "for", "in", "function", "!", "[[", "]]", "{", "}"}

NoToken == [type |-> "none", value |-> ""]

\* The text of a lexeme and whether it is quoted, and whether an expansion in
\* it is one (not in single quotes).
Word(text, quoted, literal) == [text |-> text, quoted |-> quoted, literal |-> literal]

parse_word_units(l) ==
    LET In(q) == {t \in DOMAIN q : q[t] = l}
        Text(q) == CHOOSE t \in In(q) : TRUE
    IN  CASE In(SingleQuoted) # {} -> Word(Text(SingleQuoted), TRUE, TRUE)
          [] In(DoubleQuoted) # {} -> Word(Text(DoubleQuoted), TRUE,
                                           Text(DoubleQuoted) \notin Expanding)
          [] OTHER -> Word(l, FALSE, l \notin Expanding)

lexer_read_token(p) ==
    LET Token(type, value) == [type |-> type, value |-> value]
        l == p.source[p.pos]
    IN  CASE p.pos > Len(p.source)                 -> Token("EOF", "")
          [] p.pos <= Len(p.source) /\ l \in Operators
                /\ ~(p.regex_mode /\ l \in RegexChars) -> Token(l, "")
          [] p.pos <= Len(p.source) /\ l \in DOMAIN IoNumber -> Token("IO_NUMBER", l)
          [] p.pos <= Len(p.source) /\ l \in Reserved /\ p.recognize_reserved -> Token(l, l)
          [] p.pos <= Len(p.source) /\ l \in Assignments -> Token("ASSIGNMENT", l)
          [] OTHER -> Token("WORD", l)

parser_init(source) ==
    [source |-> source, pos |-> 1, lookahead |-> NoToken,
     recognize_reserved |-> TRUE, regex_mode |-> FALSE,
     pending_heredocs |-> <<>>,     \* delimiters and numbers of documents
     documents |-> 0,               \* here-documents met so far
     bodies |-> <<>>,               \* of the documents that were read
     error_count |-> 0]

parser_error(p) == [p EXCEPT !.error_count = @ + 1]

\* The token is read under the flags of this moment, and kept.
peek(p) ==
    IF p.lookahead # NoToken THEN p
    ELSE [p EXCEPT !.lookahead = lexer_read_token(p), !.pos = @ + 1]

\* Of a parser whose next token has been peeked at.
Type(p) == p.lookahead.type

Value(p) == p.lookahead.value

consume(p) == [peek(p) EXCEPT !.lookahead = NoToken]

expect(p, type) == IF Type(peek(p)) = type THEN consume(p) ELSE parser_error(consume(p))

\* expect returned true.
Met(p, type) == Type(peek(p)) = type

token_is_word(p) == Type(p) \in {"WORD", "ASSIGNMENT"}

is_command_start(p) ==
    Type(p) \in {"WORD", "ASSIGNMENT", "IO_NUMBER", "!", "(", "{", "if", "for",
                 "while", "until", "case", "function", "[["}

is_word_token(p) == Type(p) \in Reserved

is_redir_op(p) == Type(p) \in RedirOps

-----------------------------------------------------------------------------
(* Here-documents.                                                         *)

\* The end of the line that starts at pos.
LineEnd(source, pos) ==
    SelectInSubSeq(source, pos, Len(source), LAMBDA l : l = "\n")

RECURSIVE ReadBody(_, _, _)

\* Lines up to the delimiter, or up to the end, which is an error.
ReadBody(p, delimiter, body) ==
    LET end  == IF LineEnd(p.source, p.pos) = 0 THEN Len(p.source) + 1
                ELSE LineEnd(p.source, p.pos)
        line == SubSeq(p.source, p.pos, end - 1)
        rest == [p EXCEPT !.pos = end + 1]
    IN  CASE p.pos > Len(p.source) -> [p |-> parser_error(p), body |-> body]
          [] p.pos <= Len(p.source) /\ line = <<delimiter>> -> [p |-> rest, body |-> body]
          [] OTHER -> ReadBody(rest, delimiter, body \o line \o <<"\n">>)

\* Mutant: the documents are read last one first.
drain_heredocs_Backwards(p) ==
    LET Read(q, ph) == LET r == ReadBody(q, ph.delimiter, <<>>)
                       IN  [r.p EXCEPT !.bodies = @ @@ (ph.document :> r.body)]
    IN  [FoldRight(LAMBDA ph, q : Read(q, ph), p.pending_heredocs, p)
         EXCEPT !.pending_heredocs = <<>>]

drain_heredocs(p) ==
    LET Read(q, ph) == LET r == ReadBody(q, ph.delimiter, <<>>)
                       IN  [r.p EXCEPT !.bodies = @ @@ (ph.document :> r.body)]
    IN  [FoldLeft(Read, p, p.pending_heredocs) EXCEPT !.pending_heredocs = <<>>]

\* After a newline; a node of a document may be gone once there is an error.
Drain(p) ==
    IF p.pending_heredocs # <<>> /\ p.error_count = 0 THEN drain_heredocs(p) ELSE p

RECURSIVE skip_newlines(_)

skip_newlines(p) ==
    IF Type(peek(p)) = "\n" THEN skip_newlines(Drain(consume(peek(p)))) ELSE peek(p)

-----------------------------------------------------------------------------
(* Redirections.                                                           *)

Result(p, n) == [p |-> p, n |-> n]

Failed(p) == Result(parser_error(p), NULL)

DefaultFd(type) == IF type \in {"<", "<&", "<<", "<<-", "<<<", "<>"} THEN 0 ELSE 1

\* The delimiter is p's next token.
QueueHeredoc(p, rd) ==
    IF Len(p.pending_heredocs) < MAX_PENDING_HEREDOCS
    THEN Result([consume(p) EXCEPT
                    !.documents = @ + 1,
                    !.pending_heredocs = Append(@, [delimiter |-> rd.target.text,
                                                    document  |-> p.documents + 1])],
                [rd EXCEPT !.expand = ~rd.target.quoted, !.document = p.documents + 1])
    ELSE Result(parser_error(consume(p)), rd)

\* The operator has been read, and its word peeked at.
RedirTarget(p, type, fd) ==
    LET rd == [type |-> type, fd |-> fd, target |-> parse_word_units(Value(p)),
               expand |-> FALSE, document |-> 0]
    IN  CASE ~token_is_word(p) -> Failed(consume(p))
          [] token_is_word(p) /\ type \in HereOps -> QueueHeredoc(p, rd)
          [] token_is_word(p) /\ type \in {"<&", ">&"} /\ Value(p) = "-" ->
                Result(consume(p), [rd EXCEPT !.type = "close"])
          [] OTHER -> Result(consume(p), rd)

\* fd is -1 when there was no number.
parse_redirection(p, fd) ==
    RedirTarget(peek(consume(p)), Type(p), IF fd >= 0 THEN fd ELSE DefaultFd(Type(p)))

RECURSIVE parse_redirections(_, _)

AfterRedirection(r, redirs) ==
    IF r.n = NULL THEN Result(peek(r.p), redirs)
    ELSE parse_redirections(peek(r.p), Append(redirs, r.n))

\* An IO_NUMBER has been read.
AfterNumber(p, fd, redirs) ==
    IF is_redir_op(p) THEN AfterRedirection(parse_redirection(p, fd), redirs)
    ELSE Result(parser_error(p), redirs)

parse_redirections(p, redirs) ==
    CASE Type(p) = "IO_NUMBER" ->
            AfterNumber(peek(consume(p)), IoNumber[Value(p)], redirs)
      [] is_redir_op(p) -> AfterRedirection(parse_redirection(p, -1), redirs)
      [] OTHER -> Result(p, redirs)

\* The redirections behind a compound command.
WithRedirs(p, cmd) ==
    LET r == parse_redirections(peek(p), <<>>) IN Result(r.p, [cmd EXCEPT !.redirs = r.n])

-----------------------------------------------------------------------------
(* Simple commands, and functions written name().                          *)

RECURSIVE parse_list(_)
RECURSIVE parse_command(_)
RECURSIVE SimpleLoop(_, _)
RECURSIVE ArrayElements(_, _)

NoWords == [ct |-> "simple", assigns |-> <<>>, words |-> <<>>, arrays |-> <<>>,
            redirs |-> <<>>]

\* Everything up to the closing parenthesis; only words are kept.
ArrayElements(p, elements) ==
    CASE Type(p) \in {")", "EOF"} -> Result(p, elements)
      [] Type(p) \in Operators \ {")"} \/ Type(p) = "IO_NUMBER" ->
            ArrayElements(peek(consume(p)), elements)
      [] OTHER -> ArrayElements(peek(consume(p)), Append(elements, parse_word_units(Value(p))))

\* p's next token is the parenthesis behind "name=".
ArrayAssignment(p, name, cmd) ==
    LET r == ArrayElements(peek(consume(p)), <<>>)
    IN  SimpleLoop(peek(IF Type(r.p) = ")" THEN consume(r.p) ELSE r.p),
                   [cmd EXCEPT !.arrays = Append(@, [name |-> name, elements |-> r.n])])

AfterAssignment(p, name, cmd) ==
    IF Type(p) = "(" THEN ArrayAssignment(p, name, cmd)
    ELSE SimpleLoop(p, [cmd EXCEPT !.assigns = Append(@, parse_word_units(name))])

FunctionBody(r, name, redirs) ==
    IF r.n = NULL THEN Failed(r.p)
    ELSE Result(r.p, [ct |-> "funcdef", name |-> name, body |-> r.n, redirs |-> redirs])

\* p's next token is the parenthesis behind the name.
FunctionParens(p, name, redirs) ==
    LET q == consume(p)
    IN  IF ~Met(q, ")") THEN Result(expect(q, ")"), NULL)
        ELSE FunctionBody(parse_command(skip_newlines(expect(q, ")"))), name, redirs)

\* From the second token on the flag is off; the token that follows the first
\* word has been peeked at before.
AddWord(p, word, cmd) ==
    SimpleLoop(peek([p EXCEPT !.recognize_reserved = FALSE]),
               [cmd EXCEPT !.words = Append(@, word)])

AfterFirstWord(p, name, cmd) ==
    IF Type(p) = "(" THEN FunctionParens(p, name, cmd.redirs)
    ELSE AddWord(p, parse_word_units(name), cmd)

EndOfSimple(p, cmd) == Result(p, IF cmd = NoWords THEN NULL ELSE cmd)

SimpleLoop(p, cmd) ==
    CASE is_redir_op(p) \/ Type(p) = "IO_NUMBER" ->
            LET r == parse_redirections(p, cmd.redirs)
            IN  SimpleLoop(r.p, [cmd EXCEPT !.redirs = r.n])
      [] Type(p) = "ASSIGNMENT" /\ cmd.words = <<>> ->
            AfterAssignment(peek(consume(p)), Value(p), cmd)
      [] Type(p) = "WORD" /\ cmd.words = <<>> /\ cmd.assigns = <<>> ->
            AfterFirstWord(peek(consume(p)), Value(p), cmd)
      [] \/ Type(p) = "WORD" /\ (cmd.words # <<>> \/ cmd.assigns # <<>>)
         \/ Type(p) = "ASSIGNMENT" /\ cmd.words # <<>>
         \/ is_word_token(p) /\ cmd.words # <<>> ->
            AddWord(consume(p), parse_word_units(Value(p)), cmd)
      [] OTHER -> EndOfSimple([p EXCEPT !.recognize_reserved = TRUE], cmd)

parse_simple_command(p) == SimpleLoop(p, NoWords)

-----------------------------------------------------------------------------
(* Compound commands.                                                      *)

Clause(condition, body) == [condition |-> condition, body |-> body]

RECURSIVE IfClause(_, _)

IfDone(p, clauses) ==
    IF ~Met(p, "fi") THEN Result(expect(p, "fi"), NULL)
    ELSE WithRedirs(expect(p, "fi"), [ct |-> "if", clauses |-> clauses, redirs |-> <<>>])

\* An else is a clause without a condition.
ElseClause(r, clauses) == IfDone(r.p, Append(clauses, Clause(<<>>, r.n)))

AfterBody(p, clauses) ==
    CASE Type(p) = "elif" -> IfClause(consume(p), clauses)
      [] Type(p) = "else" -> ElseClause(parse_list(consume(p)), clauses)
      [] OTHER            -> IfDone(p, clauses)

ThenBody(r, condition, clauses) ==
    AfterBody(peek(r.p), Append(clauses, Clause(condition, r.n)))

AfterCondition(r, clauses) ==
    IF ~Met(r.p, "then") THEN Result(expect(r.p, "then"), NULL)
    ELSE ThenBody(parse_list(expect(r.p, "then")), r.n, clauses)

IfClause(p, clauses) == AfterCondition(parse_list(p), clauses)

parse_if(p) == IfClause(consume(p), <<>>)

LoopDone(r, cmd) ==
    IF ~Met(r.p, "done") THEN Result(expect(r.p, "done"), NULL)
    ELSE WithRedirs(expect(r.p, "done"), [cmd EXCEPT !.body = r.n])

DoBody(p, cmd) ==
    IF ~Met(p, "do") THEN Result(expect(p, "do"), NULL)
    ELSE LoopDone(parse_list(expect(p, "do")), cmd)

WhileBody(r, type) ==
    DoBody(r.p, [ct |-> type, condition |-> r.n, body |-> <<>>, redirs |-> <<>>])

parse_while_until(p) == WhileBody(parse_list(consume(p)), Type(p))

RECURSIVE ForWords(_, _)

\* The newline behind the words is not one after which here-documents are read.
ForWords(p, cmd) ==
    CASE token_is_word(p) ->
            ForWords(peek(consume(p)), [cmd EXCEPT !.words = Append(@, parse_word_units(Value(p)))])
      [] Type(p) \in {";", "\n"} -> DoBody(skip_newlines(consume(p)), cmd)
      [] OTHER -> DoBody(p, cmd)

ForName(p, cmd) ==
    CASE Type(p) = "in" -> ForWords(peek(consume(p)), cmd)
      [] Type(p) = ";"  -> DoBody(skip_newlines(consume(p)), cmd)
      [] OTHER          -> DoBody(p, cmd)

ForClause(p) ==
    IF Type(p) # "WORD" THEN Failed(consume(p))
    ELSE ForName(skip_newlines(consume(p)),
                 [ct |-> "for", varname |-> Value(p), words |-> <<>>, body |-> <<>>,
                  redirs |-> <<>>])

parse_for(p) == ForClause(peek(consume(p)))

RECURSIVE CaseItems(_, _)
RECURSIVE Patterns(_, _)

Terminators == {";;", ";&", ";|"}

\* A body need not be ended by a terminator.
CaseBody(r, patterns, cmd) ==
    CaseItems(skip_newlines(IF Type(peek(r.p)) \in Terminators THEN consume(peek(r.p)) ELSE r.p),
              [cmd EXCEPT !.items = Append(@,
                [patterns   |-> patterns, body |-> r.n,
                 terminator |-> IF Type(peek(r.p)) \in Terminators THEN Type(peek(r.p)) ELSE ";;"])])

AfterPatterns(r, cmd) ==
    CASE r.n = NULL -> r
      [] r.n # NULL /\ ~Met(r.p, ")") -> Result(expect(r.p, ")"), NULL)
      [] OTHER -> CaseBody(parse_list(expect(r.p, ")")), r.n, cmd)

\* Any token with a text is a pattern, a number before < or > too.
Patterns(p, patterns) ==
    CASE Value(p) = "" -> Failed(consume(p))
      [] Value(p) # "" /\ Type(peek(consume(p))) = "|" ->
            Patterns(peek(consume(peek(consume(p)))), Append(patterns, parse_word_units(Value(p))))
      [] OTHER -> Result(peek(consume(p)), Append(patterns, parse_word_units(Value(p))))

CaseItems(p, cmd) ==
    CASE Type(p) = "esac" -> WithRedirs(consume(p), cmd)
      [] Type(p) = "EOF"  -> Result(expect(p, "esac"), NULL)
      [] OTHER -> AfterPatterns(Patterns(IF Type(p) = "(" THEN peek(consume(p)) ELSE p, <<>>), cmd)

CaseIn(p, cmd) ==
    IF ~Met(p, "in") THEN Result(expect(p, "in"), NULL)
    ELSE CaseItems(skip_newlines(expect(p, "in")), cmd)

CaseSubject(p) ==
    IF ~token_is_word(p) THEN Failed(consume(p))
    ELSE CaseIn(skip_newlines(consume(p)),
                [ct |-> "case", subject |-> parse_word_units(Value(p)), items |-> <<>>,
                 redirs |-> <<>>])

parse_case(p) == CaseSubject(peek(consume(p)))

GroupDone(r, type, closing) ==
    IF ~Met(r.p, closing) THEN Result(expect(r.p, closing), NULL)
    ELSE WithRedirs(expect(r.p, closing), [ct |-> type, body |-> r.n, redirs |-> <<>>])

parse_brace_group(p) == GroupDone(parse_list(consume(p)), "group", "}")

parse_subshell(p) == GroupDone(parse_list(consume(p)), "subshell", ")")

\* After "function name".  What is not ) is an error, but the body is parsed.
FunctionClause(p, name) ==
    FunctionBody(parse_command(skip_newlines(IF Type(p) = "(" THEN expect(consume(p), ")")
                                             ELSE p)),
                 name, <<>>)

FunctionName(p) ==
    IF Type(p) # "WORD" THEN Failed(consume(p))
    ELSE FunctionClause(peek(consume(p)), Value(p))

parse_funcdef(p) == FunctionName(peek(consume(p)))

-----------------------------------------------------------------------------
(* [[ ]].  Inside, the flag for reserved words is off.  A parenthesis has   *)
(* no text, so that the branch of parse_cond_expr_primary for "(" and the   *)
(* one for "!" followed by "=" are never taken.                             *)

UnaryTests == {"-f", "-d", "-e", "-r", "-w", "-x", "-s", "-L", "-n", "-z", "-b", "-c",
               "-p", "-h", "-S", "-g", "-u", "-k", "-O", "-G", "-N", "-t"}

BinaryTests == {"==", "!=", "<", ">", "-eq", "-ne", "-lt", "-gt", "-le", "-ge", "=~", "=",
                "-nt", "-ot", "-ef"}

Joined(op, left, right) == [ce |-> op, left |-> left, right |-> right]

\* The word of the next token: NULL for an operator.
WordOf(p) ==
    IF Type(p) \in Operators \cup {"EOF", "IO_NUMBER"} THEN NULL
    ELSE parse_word_units(Value(p))

UnaryTest(p, op) == Result(consume(p), [ce |-> "unary", op |-> op, arg |-> WordOf(p)])

\* The operand on the right is read in regex mode after =~.
BinaryTest(p, op, left) ==
    Result([consume(p) EXCEPT !.regex_mode = FALSE],
           [ce |-> "binary", op |-> op, left |-> left, right |-> WordOf(p)])

AfterOperand(p, left) ==
    IF Value(p) \in BinaryTests
    THEN BinaryTest(peek([consume(p) EXCEPT !.regex_mode = (Value(p) = "=~")]), Value(p), left)
    ELSE Result(p, [ce |-> "string", word |-> left])

parse_cond_expr_primary(p) ==
    CASE Value(p) = "]]" \/ Type(p) = "EOF" -> Result(p, NULL)
      [] Value(p) \in UnaryTests -> UnaryTest(peek(consume(p)), Value(p))
      [] OTHER -> AfterOperand(peek(consume(p)), WordOf(p))

RECURSIVE parse_cond_expr_not(_)

Negation(r) == IF r.n = NULL THEN Failed(r.p) ELSE Result(r.p, [ce |-> "not", child |-> r.n])

parse_cond_expr_not(p) ==
    IF Value(p) = "!" THEN Negation(parse_cond_expr_not(peek(consume(p))))
    ELSE parse_cond_expr_primary(p)

RECURSIVE AndRest(_)

AndJoin(left, r) ==
    IF r.n = NULL THEN Failed(r.p) ELSE AndRest(Result(r.p, Joined("and", left, r.n)))

AndRest(r) ==
    IF r.n # NULL /\ Type(peek(r.p)) = "&&"
    THEN AndJoin(r.n, parse_cond_expr_not(peek(consume(peek(r.p))))) ELSE r

parse_cond_expr_and(p) == AndRest(parse_cond_expr_not(p))

RECURSIVE OrRest(_)

OrJoin(left, r) ==
    IF r.n = NULL THEN Failed(r.p) ELSE OrRest(Result(r.p, Joined("or", left, r.n)))

OrRest(r) ==
    IF r.n # NULL /\ Type(peek(r.p)) = "||"
    THEN OrJoin(r.n, parse_cond_expr_and(peek(consume(peek(r.p))))) ELSE r

parse_cond_expr_or(p) == OrRest(parse_cond_expr_and(p))

BracketDone(p, expr) ==
    IF Value(p) # "]]" THEN Failed(consume(p))
    ELSE WithRedirs(consume(p), [ct |-> "bracket", expr |-> expr, redirs |-> <<>>])

\* The closing ]] has been peeked at under the other flag, and counts by its text.
AfterExpr(r, saved) == BracketDone(peek([r.p EXCEPT !.recognize_reserved = saved]), r.n)

parse_bracket(p) ==
    AfterExpr(parse_cond_expr_or(peek([consume(p) EXCEPT !.recognize_reserved = FALSE])),
              p.recognize_reserved)

-----------------------------------------------------------------------------
(* Commands, pipelines, lists.                                             *)

parse_command(p) ==
    CASE Type(p) = "if"                   -> parse_if(p)
      [] Type(p) = "for"                  -> parse_for(p)
      [] Type(p) \in {"while", "until"}   -> parse_while_until(p)
      [] Type(p) = "case"                 -> parse_case(p)
      [] Type(p) = "{"                    -> parse_brace_group(p)
      [] Type(p) = "("                    -> parse_subshell(p)
      [] Type(p) = "function"             -> parse_funcdef(p)
      [] Type(p) = "[["                   -> parse_bracket(p)
      [] OTHER                            -> parse_simple_command(p)

RECURSIVE PipeRest(_, _)

PipeJoin(r, pl) ==
    IF r.n = NULL THEN Result(parser_error(r.p), pl)
    ELSE PipeRest(peek(r.p), [pl EXCEPT !.commands = Append(@, r.n)])

PipeRest(p, pl) ==
    IF Type(p) = "|" THEN PipeJoin(parse_command(skip_newlines(consume(p))), pl)
    ELSE Result(p, pl)

Pipeline(r, negated) ==
    IF r.n = NULL THEN r
    ELSE PipeRest(peek(r.p), [commands |-> <<r.n>>, negated |-> negated])

parse_and_or(p) ==
    Pipeline(parse_command(IF Type(p) = "!" THEN peek(consume(p)) ELSE p), Type(p) = "!")

RECURSIVE ListRest(_, _)

ListJoin(r, op, ao) ==
    IF r.n = NULL THEN Result(parser_error(r.p), ao)
    ELSE ListRest(peek(r.p), [ao EXCEPT !.pipelines  = Append(@, r.n),
                                        !.connectors = Append(@, op)])

ListRest(p, ao) ==
    IF Type(p) \in {"&&", "||"}
    THEN ListJoin(parse_and_or(skip_newlines(consume(p))), Type(p), ao)
    ELSE Result(p, ao)

FirstPipeline(r) ==
    IF r.n = NULL THEN r
    ELSE ListRest(peek(r.p), [pipelines |-> <<r.n>>, connectors |-> <<>>, background |-> FALSE])

parse_sh_list(p) == FirstPipeline(parse_and_or(p))

RECURSIVE Lists(_, _)

\* The bodies of here-documents follow the newline that ends the line.
AfterSeparator(p) == skip_newlines(IF Type(p) = "\n" THEN Drain(consume(p)) ELSE consume(p))

AfterList(p, ao, lists) ==
    IF Type(p) \in {";", "&", "\n"}
    THEN Lists(AfterSeparator(p), Append(lists, [ao EXCEPT !.background = (Type(p) = "&")]))
    ELSE Result(p, Append(lists, ao))

ListParsed(r, lists) ==
    IF r.n = NULL THEN Result(peek(r.p), lists) ELSE AfterList(peek(r.p), r.n, lists)

Lists(p, lists) ==
    IF is_command_start(p) THEN ListParsed(parse_sh_list(p), lists) ELSE Result(p, lists)

parse_list(p) == Lists(skip_newlines(p), <<>>)

\* Mutant: what is behind the last list is not an error.
Parsed_NoEof(p, tree) == [errors |-> p.error_count, tree |-> tree, bodies |-> p.bodies]

\* The errors there were, the tree, and the bodies of the here-documents.
Parsed(p, tree) ==
    [errors |-> p.error_count + (IF Type(p) = "EOF" THEN 0 ELSE 1),
     tree   |-> tree,
     bodies |-> p.bodies]

AfterProgram(r) == Parsed(peek(Drain(r.p)), r.n)

parser_parse(source) == AfterProgram(parse_list(parser_init(source)))
=============================================================================
