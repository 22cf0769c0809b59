------------------------------- MODULE Writing -------------------------------
(***************************************************************************)
(* How a tree is written as a script, independently of the code, and what  *)
(* the parser and the formatter promise about it.                          *)
(*                                                                         *)
(* A style says whether commands stand on lines of their own, with a       *)
(* newline wherever the grammar allows one, or on one line, and whether a  *)
(* pattern has an opening parenthesis.  The bodies of here-documents       *)
(* follow the next newline.                                                *)
(***************************************************************************)
EXTENDS Formatter, FiniteSets

CONSTANTS
    Trees,      \* programs
    Styles,     \* ways to write them
    Bodies,     \* of the here-documents in them, by number
    Texts       \* sequences of lexemes that need not be programs

-----------------------------------------------------------------------------
(* A text is written as a sequence of records: a lexeme, and the number    *)
(* and the delimiter of the here-document that it starts.                  *)

Newline == emit(<<"\n">>)

\* A newline that must not stand where a here-document waits.
SoftNewline == emit(<<"soft">>)

\* A newline may stand here.
Break(style) == IF style.lines THEN Newline ELSE <<>>

\* A newline or a semicolon must stand here.
Separator(style) == IF style.lines THEN Newline ELSE emit(<<";">>)

WordText(w) ==
    CASE w = NULL -> <<>>
      [] w # NULL /\ w.quoted /\ w.literal /\ w.text \in DOMAIN SingleQuoted ->
            <<SingleQuoted[w.text]>>
      [] w # NULL /\ w.quoted /\ ~(w.literal /\ w.text \in DOMAIN SingleQuoted) ->
            <<DoubleQuoted[w.text]>>
      [] OTHER -> <<w.text>>

WordTexts(words) == FlattenSeq([i \in DOMAIN words |-> WordText(words[i])])

WriteRedir(r) ==
    LET number == {l \in DOMAIN IoNumber : IoNumber[l] = r.fd}
    IN  emit(IF r.type # "close" /\ r.fd = DefaultFd(r.type) THEN <<>>
                ELSE <<CHOOSE l \in number : TRUE>>)
        \o emit(IF r.type = "close" THEN <<">&">> ELSE <<r.type>>)
        \o <<[lexeme |-> WordText(r.target)[1], document |-> r.document,
              delimiter |-> r.target.text]>>

RECURSIVE WriteCommand(_, _)
RECURSIVE WriteTest(_)

WritePipeline(pl, style) ==
    emit(IF pl.negated THEN <<"!">> ELSE <<>>)
    \o Sep(Len(pl.commands), emit(<<"|">>) \o Break(style),
           LAMBDA i : WriteCommand(pl.commands[i], style))

Connected(ao, i, style) ==
    IF i = 1 THEN <<>> ELSE emit(<<ao.connectors[i - 1]>>) \o Break(style)

WriteList(ao, style) ==
    Sep(Len(ao.pipelines), <<>>,
        LAMBDA i : Connected(ao, i, style) \o WritePipeline(ao.pipelines[i], style))

\* Each list is ended by its separator.
WriteLists(lists, style) ==
    Sep(Len(lists), <<>>,
        LAMBDA i : WriteList(lists[i], style)
                   \o (IF lists[i].background THEN emit(<<"&">>) \o Break(style)
                       ELSE Separator(style)))

\* A list between two words of a compound command.
Within(opening, lists, closing, style) ==
    emit(opening) \o Break(style) \o WriteLists(lists, style) \o emit(closing)

WriteTest(e) ==
    CASE e = NULL -> <<>>
      [] e # NULL /\ e.ce \in {"and", "or"} ->
            WriteTest(e.left) \o (IF e.ce = "and" THEN <<"&&">> ELSE <<"||">>)
                              \o WriteTest(e.right)
      [] e # NULL /\ e.ce = "not" -> <<"!">> \o WriteTest(e.child)
      [] e # NULL /\ e.ce = "unary" -> <<e.op>> \o WordText(e.arg)
      [] e # NULL /\ e.ce = "binary" -> WordText(e.left) \o <<e.op>> \o WordText(e.right)
      [] e # NULL /\ e.ce = "string" -> WordText(e.word)

WriteClause(clauses, i, style) ==
    IF i > 1 /\ clauses[i].condition = <<>> THEN Within(<<"else">>, clauses[i].body, <<>>, style)
    ELSE Within(IF i = 1 THEN <<"if">> ELSE <<"elif">>, clauses[i].condition, <<>>, style)
         \o Within(<<"then">>, clauses[i].body, <<>>, style)

\* After the words of a for loop a newline does not bring the here-documents
\* that wait.
WriteFor(cmd, style) ==
    emit(<<"for", cmd.varname>> \o (IF cmd.words = <<>> THEN <<>> ELSE <<"in">>)
            \o WordTexts(cmd.words))
    \o (IF style.lines THEN SoftNewline ELSE emit(<<";">>))
    \o Within(<<"do">>, cmd.body, <<"done">>, style)

WriteItem(ci, style) ==
    Within((IF style.parentheses THEN <<"(">> ELSE <<>>)
           \o Sep(Len(ci.patterns), <<"|">>, LAMBDA i : WordText(ci.patterns[i])) \o <<")">>,
           ci.body, <<ci.terminator>>, style)
    \o Break(style)

WriteSimple(cmd) ==
    emit(WordTexts(cmd.assigns)
            \o FlattenSeq([i \in DOMAIN cmd.arrays |->
                 <<cmd.arrays[i].name, "(">> \o WordTexts(cmd.arrays[i].elements) \o <<")">>])
            \o WordTexts(cmd.words))

WriteCompound(cmd, style) ==
    CASE cmd.ct = "simple"   -> WriteSimple(cmd)
      [] cmd.ct = "group"    -> Within(<<"{">>, cmd.body, <<"}">>, style)
      [] cmd.ct = "subshell" -> Within(<<"(">>, cmd.body, <<")">>, style)
      [] cmd.ct \in {"while", "until"} ->
            Within(<<cmd.ct>>, cmd.condition, <<>>, style)
            \o Within(<<"do">>, cmd.body, <<"done">>, style)
      [] cmd.ct = "for"      -> WriteFor(cmd, style)
      [] cmd.ct = "if"       ->
            Sep(Len(cmd.clauses), <<>>, LAMBDA i : WriteClause(cmd.clauses, i, style))
            \o emit(<<"fi">>)
      [] cmd.ct = "case"     ->
            emit(<<"case">> \o WordText(cmd.subject) \o <<"in">>) \o Break(style)
            \o Sep(Len(cmd.items), <<>>, LAMBDA i : WriteItem(cmd.items[i], style))
            \o emit(<<"esac">>)
      [] cmd.ct = "funcdef"  ->
            emit(<<cmd.name, "(", ")">>) \o Break(style) \o WriteCommand(cmd.body, style)
      [] cmd.ct = "bracket"  -> emit(<<"[[">> \o WriteTest(cmd.expr) \o <<"]]">>)

WriteCommand(cmd, style) ==
    WriteCompound(cmd, style)
    \o Sep(Len(cmd.redirs), <<>>, LAMBDA i : WriteRedir(cmd.redirs[i]))

\* The here-documents started after the last newline before position i.
Due(t, i) ==
    {j \in 1 .. i - 1 : t[j].document # 0 /\ \A k \in j .. i - 1 : t[k].lexeme # "\n"}

BodyTexts(t, due, bodies) ==
    FlattenSeq([n \in 1 .. Len(due) |->
        bodies[t[due[n]].document] \o <<t[due[n]].delimiter, "\n">>])

\* A newline with the bodies that follow it, any other lexeme as it is.
Placed(t, i, bodies) ==
    CASE t[i].lexeme = "soft" -> IF Due(t, i) = {} THEN <<"\n">> ELSE <<";">>
      [] t[i].lexeme = "\n"   -> <<"\n">> \o BodyTexts(t, SetToSortSeq(Due(t, i), <), bodies)
      [] OTHER                -> <<t[i].lexeme>>

WithBodies(t, bodies) == FlattenSeq([i \in DOMAIN t |-> Placed(t, i, bodies)])

\* The program, ended by a newline.
Written(tree, style, bodies) ==
    WithBodies(WriteLists(tree, style) \o (IF style.lines THEN <<>> ELSE Newline), bodies)

Init ==
    \/ \E tree \in Trees, style \in Styles :
            Start([text |-> Written(tree, style, Bodies), tree |-> tree])
    \/ \E text \in Texts : Start([text |-> text, tree |-> NULL])

Spec == Init /\ [][Next]_vars

-----------------------------------------------------------------------------
(* Trees that the formatter writes faithfully.  What it gets wrong: it      *)
(* writes the first list of a condition only, no arrays, a here-document    *)
(* before && || & or "; then" and before the lines of a compound command    *)
(* later in the pipeline, single quotes around $ as double quotes, and a    *)
(* command that is nothing but redirections without their default number.   *)

RECURSIVE KeptCommand(_)
RECURSIVE Waiting(_)

\* A body waits for the end of the pipeline.
Waiting(cmd) ==
    \/ \E i \in DOMAIN cmd.redirs : cmd.redirs[i].type \in HereOps
    \/ cmd.ct = "funcdef" /\ Waiting(cmd.body)

KeptWord(w) == w = NULL \/ ~(w.quoted /\ w.literal /\ w.text \in Expanding)

KeptWords(words) == \A i \in DOMAIN words : KeptWord(words[i])

KeptPipeline(pl, last) ==
    /\ \A i \in DOMAIN pl.commands : KeptCommand(pl.commands[i])
    /\ \A i \in DOMAIN pl.commands : Waiting(pl.commands[i]) =>
            /\ last
            /\ \A j \in i + 1 .. Len(pl.commands) : pl.commands[j].ct \in {"simple", "bracket"}

KeptList(ao, statement) ==
    \A i \in DOMAIN ao.pipelines :
        KeptPipeline(ao.pipelines[i],
                     statement /\ ~ao.background /\ i = Len(ao.pipelines))

Kept(lists) == \A i \in DOMAIN lists : KeptList(lists[i], TRUE)

KeptCondition(lists) ==
    Len(lists) = 1 /\ ~lists[1].background /\ KeptList(lists[1], FALSE)

RECURSIVE KeptTest(_)

KeptTest(e) ==
    CASE e = NULL -> FALSE
      [] e # NULL /\ e.ce \in {"and", "or"} -> KeptTest(e.left) /\ KeptTest(e.right)
      [] e # NULL /\ e.ce = "not" -> KeptTest(e.child)
      [] e # NULL /\ e.ce = "unary" -> e.arg # NULL /\ KeptWord(e.arg)
      [] e # NULL /\ e.ce = "binary" ->
            e.left # NULL /\ e.right # NULL /\ KeptWords(<<e.left, e.right>>)
      [] e # NULL /\ e.ce = "string" -> e.word # NULL /\ KeptWord(e.word)

KeptClause(clauses, i) ==
    /\ \/ KeptCondition(clauses[i].condition)
       \/ clauses[i].condition = <<>> /\ i > 1 /\ i = Len(clauses)
    /\ Kept(clauses[i].body)

KeptCommand(cmd) ==
    /\ KeptWords([i \in DOMAIN cmd.redirs |-> cmd.redirs[i].target])
    /\ CASE cmd.ct = "simple" -> /\ cmd.arrays = <<>>
                                 /\ cmd.words \o cmd.assigns # <<>>
                                 /\ KeptWords(cmd.words \o cmd.assigns)
         [] cmd.ct \in {"group", "subshell"} -> Kept(cmd.body)
         [] cmd.ct \in {"while", "until"} -> KeptCondition(cmd.condition) /\ Kept(cmd.body)
         [] cmd.ct = "for" -> KeptWords(cmd.words) /\ Kept(cmd.body)
         [] cmd.ct = "if" -> \A i \in DOMAIN cmd.clauses : KeptClause(cmd.clauses, i)
         [] cmd.ct = "case" -> /\ KeptWord(cmd.subject)
                               /\ \A i \in DOMAIN cmd.items : /\ KeptWords(cmd.items[i].patterns)
                                                              /\ Kept(cmd.items[i].body)
         [] cmd.ct = "funcdef" -> cmd.redirs = <<>> /\ KeptCommand(cmd.body)
         [] cmd.ct = "bracket" -> KeptTest(cmd.expr)

-----------------------------------------------------------------------------
(* Properties.                                                             *)

Read == pc \in {"format", "end"} /\ original = NULL

\* Every program, however it is written, is accepted, and the tree is the one
\* that was written: lists, pipelines and conditions nest as they should, words
\* that look like reserved words are words where they are arguments, and every
\* here-document has its own body, wherever the newline comes (parser_parse,
\* drain_heredocs).
ParsesAsWritten ==
    Read /\ script.tree # NULL =>
        /\ parsed.errors = 0
        /\ parsed.tree = script.tree
        /\ \A n \in DOMAIN parsed.bodies : parsed.bodies[n] = Bodies[n]

\* What "opsh format -w" writes is the same program: it is parsed to the same
\* tree with the same here-documents, and formatting it again changes nothing
\* (format_ast; "verify idempotency of a given source", test_format.c).
FormatKeeps ==
    original # NULL /\ Kept(original.tree) =>
        /\ parsed # NotYet => /\ parsed.errors = 0
                              /\ parsed.tree = original.tree
                              /\ parsed.bodies = original.bodies
        /\ pc = "end" => rc # 1

\* How often a lexeme occurs.
Times(l, text) == Cardinality({i \in DOMAIN text : text[i] = l})

Optional == {"\n", ";", ";;", "(", ")", "in", "function"}

\* What the parser does lose: a ! with no command behind it, and operators that
\* stand where [[ ]] has its words.
Losable(text) == {"!"} \cup (IF "[[" \in Range(text) THEN Operators ELSE {})

\* The parser drops nothing else of a text that it accepts, and adds nothing:
\* whatever is not optional is in the tree as often as in the text, whichever
\* token is missing, misplaced or one too many (expect, is_command_start,
\* parser_parse).
NothingLost ==
    Read /\ script.tree = NULL /\ parsed.errors = 0 =>
        LET again == Written(parsed.tree, [lines |-> TRUE, parentheses |-> TRUE], parsed.bodies)
        IN  \A l \in (Range(script.text) \cup Range(again))
                     \ (Optional \cup Losable(script.text)) :
                Times(l, script.text) = Times(l, again)
=============================================================================
