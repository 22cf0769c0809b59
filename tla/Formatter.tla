------------------------------ MODULE Formatter ------------------------------
(***************************************************************************)
(* "opsh format" (src/src/format/format.c): the tree of a source is        *)
(* written out again, and the result replaces the file (-w), is compared   *)
(* with it (-l, -d) or printed.                                            *)
(*                                                                         *)
(* The output is a sequence of lexemes, as the source is for the parser.   *)
(* Left out: indentation, comments and line numbers, and what is inside a  *)
(* word other than its quotes.                                             *)
(***************************************************************************)
EXTENDS Parser, FiniteSetsExt

CONSTANT MAX_PENDING_HEREDOC_FMT    \* here-documents of one pipeline, 8 in the code

VARIABLES
    script,         \* what the file was made from
    file,           \* its content
    parsed,         \* the tree, the errors and the bodies of format_source
    original,       \* parsed, of the file before it was rewritten
    formatted,      \* what format_source returns
    rc,             \* what process_file returns
    pc              \* "parse", "format", "finish", "end"

vars == <<script, file, parsed, original, formatted, rc, pc>>

ASSUME FmtAssumption == MAX_PENDING_HEREDOC_FMT \in Nat \ {0}

-----------------------------------------------------------------------------
(* What a function of the formatter writes is a sequence of records: a     *)
(* lexeme, and the number and the delimiter of the here-document that it   *)
(* puts into pending_heredocs.  The pseudo-lexeme "flush" stands where     *)
(* flush_heredocs is called, and pending_heredocs is what has been put     *)
(* there since the last one.                                               *)

emit(ls) == [i \in DOMAIN ls |-> [lexeme |-> ls[i], document |-> 0, delimiter |-> ""]]

emit_newline == emit(<<"\n">>)

\* f(1) \o f(2) ... \o f(n), with s between them.
Sep(n, s, f(_)) == FlattenSeq([i \in 1 .. n |-> (IF i = 1 THEN <<>> ELSE s) \o f(i)])

\* A quoted word, single quotes or double, is written in double quotes.
format_word(w) ==
    CASE w = NULL -> <<>>
      [] w # NULL /\ w.quoted -> <<DoubleQuoted[w.text]>>
      [] OTHER -> <<w.text>>

format_words(words) == FlattenSeq([i \in DOMAIN words |-> format_word(words[i])])

Number(fd) == CHOOSE l \in DOMAIN IoNumber : IoNumber[l] = fd

\* The default descriptor is not written.
PrintedFd(r) ==
    IF r.type = "close" \/ r.fd # DefaultFd(r.type) THEN <<Number(r.fd)>> ELSE <<>>

format_redir(r) ==
    emit(PrintedFd(r) \o (IF r.type = "close" THEN <<IF r.fd = 0 THEN "<&" ELSE ">&", "-">>
                          ELSE <<r.type>> \o format_word(r.target)))
    \o (IF r.type \in HereOps
        THEN <<[lexeme |-> "", document |-> r.document, delimiter |-> r.target.text]>>
        ELSE <<>>)

format_redirs(redirs) == FlattenSeq([i \in DOMAIN redirs |-> format_redir(redirs[i])])

-----------------------------------------------------------------------------
(* Commands.                                                               *)

RECURSIVE format_cond_expr(_)
RECURSIVE format_command(_)

format_cond_expr(d) ==
    CASE d = NULL -> <<>>
      [] d # NULL /\ d.ce = "and" ->
            format_cond_expr(d.left) \o <<"&&">> \o format_cond_expr(d.right)
      [] d # NULL /\ d.ce = "or" ->
            format_cond_expr(d.left) \o <<"||">> \o format_cond_expr(d.right)
      [] d # NULL /\ d.ce = "not" -> <<"!">> \o format_cond_expr(d.child)
      [] d # NULL /\ d.ce = "unary" -> <<d.op>> \o format_word(d.arg)
      [] d # NULL /\ d.ce = "binary" -> format_word(d.left) \o <<d.op>> \o format_word(d.right)
      [] d # NULL /\ d.ce = "string" -> format_word(d.word)

\* Mutant: the bodies are left for later.
format_and_or_NoFlush(pl) ==
    emit(IF pl.negated THEN <<"!">> ELSE <<>>)
    \o Sep(Len(pl.commands), emit(<<"|">>), LAMBDA i : format_command(pl.commands[i]))

\* The here-documents that are pending are written behind each pipeline.
format_and_or(pl) ==
    emit(IF pl.negated THEN <<"!">> ELSE <<>>)
    \o Sep(Len(pl.commands), emit(<<"|">>), LAMBDA i : format_command(pl.commands[i]))
    \o emit(<<"flush">>)

\* One list; what follows it is not written.
format_sh_list(ao) ==
    Sep(Len(ao.pipelines), <<>>,
        LAMBDA i : emit(IF i = 1 THEN <<>> ELSE <<ao.connectors[i - 1]>>)
                   \o format_and_or(ao.pipelines[i]))
    \o emit(IF ao.background THEN <<"&">> ELSE <<>>)

\* The first list of a condition.
Condition(lists) == IF lists = <<>> THEN <<>> ELSE format_sh_list(lists[1])

format_body(lists) ==
    Sep(Len(lists), <<>>, LAMBDA i : format_sh_list(lists[i]) \o emit_newline)

\* Arrays are not written.
format_simple_command(cmd) == emit(format_words(cmd.assigns) \o format_words(cmd.words))

\* A clause without a condition is an else, wherever it is; only the first
\* clause with a condition is an if.
IfHead(clauses, i) ==
    IF clauses[i].condition = <<>> THEN emit(<<"else", "\n">>)
    ELSE emit(IF \A j \in 1 .. i - 1 : clauses[j].condition = <<>> THEN <<"if">> ELSE <<"elif">>)
         \o Condition(clauses[i].condition) \o emit(<<";", "then", "\n">>)

format_if_command(cmd) ==
    Sep(Len(cmd.clauses), <<>>,
        LAMBDA i : IfHead(cmd.clauses, i) \o format_body(cmd.clauses[i].body))
    \o emit(<<"fi">>)

format_for_command(cmd) ==
    emit(<<"for", cmd.varname>> \o (IF cmd.words = <<>> THEN <<>> ELSE <<"in">>)
         \o format_words(cmd.words) \o <<";", "do", "\n">>)
    \o format_body(cmd.body) \o emit(<<"done">>)

format_while_command(cmd) ==
    emit(<<cmd.ct>>) \o Condition(cmd.condition) \o emit(<<";", "do", "\n">>)
    \o format_body(cmd.body) \o emit(<<"done">>)

CaseItem(ci) ==
    emit(<<"(">> \o Sep(Len(ci.patterns), <<"|">>, LAMBDA i : format_word(ci.patterns[i]))
         \o <<")", "\n">>)
    \o format_body(ci.body) \o emit(<<ci.terminator, "\n">>)

format_case_command(cmd) ==
    emit(<<"case">> \o format_word(cmd.subject) \o <<"in", "\n">>)
    \o Sep(Len(cmd.items), <<>>, LAMBDA i : CaseItem(cmd.items[i])) \o emit(<<"esac">>)

format_funcdef(cmd) == emit(<<cmd.name, "(", ")">>) \o format_command(cmd.body)

format_group(cmd) == emit(<<"{", "\n">>) \o format_body(cmd.body) \o emit(<<"}">>)

format_subshell(cmd) == emit(<<"(", "\n">>) \o format_body(cmd.body) \o emit(<<")">>)

format_bracket(cmd) == emit(<<"[[">> \o format_cond_expr(cmd.expr) \o <<"]]">>)

\* Every kind of command ends with its redirections.
format_command(cmd) ==
    (CASE cmd.ct = "simple"   -> format_simple_command(cmd)
       [] cmd.ct = "group"    -> format_group(cmd)
       [] cmd.ct = "subshell" -> format_subshell(cmd)
       [] cmd.ct = "if"       -> format_if_command(cmd)
       [] cmd.ct = "for"      -> format_for_command(cmd)
       [] cmd.ct \in {"while", "until"} -> format_while_command(cmd)
       [] cmd.ct = "case"     -> format_case_command(cmd)
       [] cmd.ct = "funcdef"  -> format_funcdef(cmd)
       [] cmd.ct = "bracket"  -> format_bracket(cmd))
    \o format_redirs(cmd.redirs)

-----------------------------------------------------------------------------
(* Here-documents.                                                         *)

\* The documents put into the queue since the last flush, in their order; one
\* without a body, or beyond the length of the queue, is not put there.
pending_heredocs(t, i, bodies) ==
    LET due == SetToSortSeq({j \in 1 .. i - 1 :
                    /\ t[j].document \in DOMAIN bodies
                    /\ \A k \in j .. i - 1 : t[k].lexeme # "flush"}, <)
    IN  SubSeq(due, 1, IF Len(due) < MAX_PENDING_HEREDOC_FMT THEN Len(due)
                       ELSE MAX_PENDING_HEREDOC_FMT)

format_heredoc_body(ph, bodies) == <<"\n">> \o bodies[ph.document] \o <<ph.delimiter>>

\* Each body follows a newline; behind the last delimiter there is none.
flush_heredocs(t, pending, bodies) ==
    FlattenSeq([n \in 1 .. Len(pending) |-> format_heredoc_body(t[pending[n]], bodies)])

Output(t, i, bodies) ==
    CASE t[i].lexeme = "flush"   -> flush_heredocs(t, pending_heredocs(t, i, bodies), bodies)
      [] t[i].lexeme = ""        -> <<>>
      [] OTHER                   -> <<t[i].lexeme>>

AsText(t, bodies) == FlattenSeq([i \in DOMAIN t |-> Output(t, i, bodies)])

format_ast(r) == AsText(format_body(r.tree), r.bodies)

-----------------------------------------------------------------------------
(* format_main on one file.                                                *)

NotYet == [errors |-> 0, tree |-> <<>>, bodies |-> <<>>]

\* s.text is the content of the file.
Start(s) ==
    /\ script = s
    /\ file = s.text
    /\ parsed = NotYet
    /\ original = NULL
    /\ formatted = <<>>
    /\ rc = 0
    /\ pc = "parse"

ParseSource ==
    /\ pc = "parse"
    /\ parsed' = parser_parse(file)
    /\ IF parsed'.errors > 0 THEN rc' = 2 /\ pc' = "end"
       ELSE pc' = "format" /\ UNCHANGED rc
    /\ UNCHANGED <<script, file, original, formatted>>

FormatSource ==
    /\ pc = "format"
    /\ formatted' = format_ast(parsed)
    /\ pc' = "finish"
    /\ UNCHANGED <<script, file, parsed, original, rc>>

\* The layout may differ where the lexemes do not, except in a file that has
\* been written by the formatter.
changed == IF formatted # file THEN {TRUE} ELSE {FALSE, original = NULL}

Finish == pc = "finish" /\ pc' = "end" /\ UNCHANGED <<script, parsed, original, formatted>>

ExitCode(c) == IF c THEN 1 ELSE 0

\* -l and -d leave the file alone.
ListOnly == Finish /\ \E c \in changed : rc' = ExitCode(c) /\ UNCHANGED file

\* -w.
WriteInplace == Finish /\ \E c \in changed : rc' = ExitCode(c) /\ file' = formatted

\* The file cannot be opened for -w, or no temporary file be made for -d.
CannotWrite == Finish /\ TRUE \in changed /\ rc' = 2 /\ UNCHANGED file

ToStdout == Finish /\ rc' = 0 /\ UNCHANGED file

\* One more "opsh format", on the file that has been written.
Again ==
    /\ pc = "end"
    /\ file # script.text
    /\ original = NULL
    /\ original' = parsed
    /\ parsed' = NotYet
    /\ pc' = "parse"
    /\ rc' = 0
    /\ UNCHANGED <<script, file, formatted>>

Next == ParseSource \/ FormatSource \/ ListOnly \/ WriteInplace \/ CannotWrite \/ ToStdout \/ Again
=============================================================================
