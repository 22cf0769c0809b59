------------------------------- MODULE Scopes -------------------------------
(***************************************************************************)
(* What the variables of the shell promise, told without hash tables: a    *)
(* scope is a function from names to variables, and an operation works on  *)
(* the variable that is visible, the one of the innermost scope that has   *)
(* the name.                                                               *)
(*                                                                         *)
(* scopes[1] is the global scope.  The others belong to function calls and *)
(* to commands with prefix assignments (x=1 cmd), whose scope is there     *)
(* until the command has ended.                                            *)
(***************************************************************************)
EXTENDS VariableTypes, Sequences

VARIABLES
    scopes,         \* the innermost scope is the last one
    armed,          \* a prefix scope is set up and its command has not started
    got,            \* the value that was read last
    child           \* the environment of the last program that was executed

vars == <<scopes, armed, got, child>>

Scope == [vars : [Names -> Variable \cup {NULL}], is_temporary : BOOLEAN]

EmptyScope(temporary) ==
    [vars |-> [n \in Names |-> NULL], is_temporary |-> temporary]

Depth == Len(scopes)

Has(i, n) == scopes[i].vars[n] # NULL

\* The scope of the variable that is visible, 0 when there is none.
Where(n) ==
    IF \E i \in 1..Depth : Has(i, n)
    THEN CHOOSE i \in 1..Depth : Has(i, n) /\ \A j \in i + 1 .. Depth : ~Has(j, n)
    ELSE 0

Frozen(n) == Where(n) # 0 /\ scopes[Where(n)].vars[n].readonly

Put(i, n, x) == [scopes EXCEPT ![i].vars[n] = x]

\* A value for the variable of scope i, which is made when there is none.
Write(i, n, v) ==
    Put(i, n, IF Has(i, n) THEN [scopes[i].vars[n] EXCEPT !.value = v] ELSE Fresh(v))

Init ==
    /\ scopes = <<EmptyScope(FALSE)>>
    /\ armed = FALSE
    /\ got = String("")
    /\ child = Host

-----------------------------------------------------------------------------
\* A statement can start.
Statement == ~scopes[Depth].is_temporary

\* A simple command can start, the one after prefix assignments included.
Command == (Statement \/ armed) /\ armed' = FALSE

Read(n) ==
    /\ got' = IF Where(n) = 0 THEN String("") ELSE scopes[Where(n)].vars[n].value
    /\ UNCHANGED <<scopes, armed, child>>

\* name=value and name=(value): refused when the variable is readonly.
Assign(n, v) ==
    /\ Statement
    /\ scopes' = IF Frozen(n) THEN scopes
                 ELSE Write(IF Where(n) = 0 THEN 1 ELSE Where(n), n, v)
    /\ UNCHANGED <<armed, got, child>>

\* name=value in a function that declares the name local somewhere.
AssignLocal(n, v) ==
    /\ Statement
    /\ Depth > 1
    /\ scopes' = IF Frozen(n) THEN scopes ELSE Write(Depth, n, v)
    /\ UNCHANGED <<armed, got, child>>

\* ${name:=value}, and ${name=value} without colon: a missing variable, with
\* colon an empty one, too, is made in the innermost scope, be it that of the
\* prefix assignments.  A readonly one stays empty; the value is read anyway.
Missing(n, colon) ==
    Where(n) = 0 \/ (colon /\ scopes[Where(n)].vars[n].value = String(""))

AssignDefault(n, v, colon) ==
    /\ Statement \/ armed
    /\ scopes' = IF Missing(n, colon) /\ ~Frozen(n) THEN Write(Depth, n, v) ELSE scopes
    /\ got' = IF Missing(n, colon) THEN v ELSE value_to_string(scopes[Where(n)].vars[n].value)
    /\ UNCHANGED <<armed, child>>

\* name[0]=value: written in place, into a readonly array, too.
Element(n, t) ==
    IF Frozen(n) /\ ~scopes[Where(n)].vars[n].value.array THEN scopes
    ELSE Write(IF Where(n) = 0 THEN 1 ELSE Where(n), n, Array(t))

AssignElement(n, t) ==
    /\ Statement
    /\ scopes' = Element(n, t)
    /\ UNCHANGED <<armed, got, child>>

\* name=value before a command.  A name that is visible and readonly keeps
\* its value, but is exported all the same, and stays so.
Prefix(n, v) ==
    /\ Statement
    /\ scopes' = IF Frozen(n)
                 THEN Append(Put(Where(n), n,
                                 [scopes[Where(n)].vars[n] EXCEPT !.export = TRUE]),
                             EmptyScope(TRUE))
                 ELSE Append(scopes,
                             [EmptyScope(TRUE) EXCEPT
                                 !.vars[n] = [Fresh(v) EXCEPT !.export = TRUE]])
    /\ armed' = TRUE
    /\ UNCHANGED <<got, child>>

\* name=(value) before a command: the array is not exported.
PrefixArray(n, t) ==
    /\ Statement
    /\ scopes' = Append(scopes, IF Frozen(n) THEN EmptyScope(TRUE)
                                ELSE [EmptyScope(TRUE) EXCEPT !.vars[n] = Fresh(Array(t))])
    /\ armed' = TRUE
    /\ UNCHANGED <<got, child>>

\* name[0]=value before a command: not kept in the scope of the command.
PrefixElement(n, t) ==
    /\ Statement
    /\ scopes' = Append(Element(n, t), EmptyScope(TRUE))
    /\ armed' = TRUE
    /\ UNCHANGED <<got, child>>

PopScope ==
    /\ scopes[Depth].is_temporary
    /\ ~armed
    /\ scopes' = SubSeq(scopes, 1, Depth - 1)
    /\ UNCHANGED <<armed, got, child>>

Call ==
    /\ Command
    /\ scopes' = Append(scopes, EmptyScope(FALSE))
    /\ UNCHANGED <<got, child>>

Return ==
    /\ Statement
    /\ Depth > 1
    /\ scopes' = SubSeq(scopes, 1, Depth - 1)
    /\ UNCHANGED <<armed, got, child>>

-----------------------------------------------------------------------------
\* export name: nothing happens when there is no such variable.
Export(n) ==
    /\ Command
    /\ scopes' = IF Where(n) = 0 THEN scopes
                 ELSE Put(Where(n), n, [scopes[Where(n)].vars[n] EXCEPT !.export = TRUE])
    /\ UNCHANGED <<got, child>>

\* export name=value
ExportValue(n, v) ==
    LET i == IF Where(n) = 0 THEN 1 ELSE Where(n)
        x == IF Has(i, n) THEN scopes[i].vars[n] ELSE Fresh(v)
    IN  /\ Command
        /\ scopes' = Put(i, n, [x EXCEPT !.value = IF Frozen(n) THEN @ ELSE v, !.export = TRUE])
        /\ UNCHANGED <<got, child>>

Unset(n) ==
    /\ Command
    /\ scopes' = IF Where(n) = 0 \/ Frozen(n) THEN scopes ELSE Put(Where(n), n, NULL)
    /\ UNCHANGED <<got, child>>

\* readonly name: the visible variable, or a new one of the innermost scope.
Readonly(n) ==
    /\ Command
    /\ scopes' = IF Where(n) = 0 THEN Put(Depth, n, [Fresh(String("")) EXCEPT !.readonly = TRUE])
                 ELSE Put(Where(n), n, [scopes[Where(n)].vars[n] EXCEPT !.readonly = TRUE])
    /\ UNCHANGED <<got, child>>

\* readonly name=value: always a variable of the innermost scope.
ReadonlyValue(n, v) ==
    LET x == IF Has(Depth, n) THEN scopes[Depth].vars[n] ELSE Fresh(v)
    IN  /\ Command
        /\ scopes' = IF Frozen(n) THEN scopes
                     ELSE Put(Depth, n, [x EXCEPT !.value = v, !.readonly = TRUE])
        /\ UNCHANGED <<got, child>>

\* local name=value: a variable of the innermost scope, readonly or not.
Local(n, v) ==
    /\ Command
    /\ scopes' = Write(Depth, n, v)
    /\ UNCHANGED <<got, child>>

\* The environment of a program: of each name the innermost variable that is
\* exported, if it is a string; the shell's own environment otherwise.
Environment(n) ==
    LET Exported == {i \in 1..Depth : Has(i, n) /\ scopes[i].vars[n].export}
        i        == CHOOSE j \in Exported : \A k \in Exported : k <= j
    IN  IF Exported # {} /\ ~scopes[i].vars[n].value.array
        THEN scopes[i].vars[n].value.text ELSE Host[n]

Execute ==
    /\ Command
    /\ child' = [n \in Names |-> Environment(n)]
    /\ UNCHANGED <<scopes, got>>

-----------------------------------------------------------------------------
\* The steps that set a readonly variable, whatever its flag says.
Override ==
    \E n \in Names, t \in Texts :
        Local(n, String(t)) \/ AssignElement(n, t) \/ PrefixElement(n, t)

\* The steps that leave a scope.
Exit == PopScope \/ Return

Other ==
    \/ \E n \in Names, t \in Texts :
        \/ Assign(n, String(t))
        \/ Assign(n, Array(t))
        \/ AssignLocal(n, String(t))
        \/ Prefix(n, String(t))
        \/ PrefixArray(n, t)
        \/ ExportValue(n, String(t))
        \/ ReadonlyValue(n, String(t))
        \/ \E colon \in BOOLEAN : AssignDefault(n, String(t), colon)
    \/ \E n \in Names : Export(n) \/ Unset(n) \/ Readonly(n) \/ Read(n)
    \/ Call
    \/ Execute

Next == Override \/ Exit \/ Other

Spec == Init /\ [][Next]_vars

-----------------------------------------------------------------------------
TypeOK ==
    /\ scopes \in Seq(Scope)
    /\ Depth >= 1
    /\ ~scopes[1].is_temporary
    /\ armed \in BOOLEAN
    /\ armed => scopes[Depth].is_temporary
    /\ got \in Value
    /\ child \in [Names -> Texts \cup {NULL}]

\* A variable hides those of the same name in the scopes around it: no step
\* of the shell touches a hidden variable, neither its value nor its flags.
\* (The walks of environ_assign, environ_export and environ_unset stop at the
\* first scope that has the name, also when they are refused there.)
HidesOuter ==
    [][\A n \in Names : \A j \in 1..Depth : \A i \in 1 .. j - 1 :
          Has(i, n) /\ Has(j, n) => scopes'[i].vars[n] = scopes[i].vars[n]]_vars

\* readonly is kept: but for local and for an element of an array, no step
\* gives a readonly variable another value or takes the flag away, and while
\* one is visible no other variable of that name comes to hide it.  (The check
\* of environ_set_flags looks at the scopes around the one it writes to.)
ReadonlyKept ==
    [][\/ Override
       \/ /\ \A n \in Names : \A i \in 1..Depth :
                Has(i, n) /\ scopes[i].vars[n].readonly /\ i <= Depth'
                => /\ Has(i, n)'
                   /\ scopes'[i].vars[n].value = scopes[i].vars[n].value
                   /\ scopes'[i].vars[n].readonly
          /\ Exit \/ \A n \in Names : Frozen(n) => Where(n)' = Where(n)]_vars

=============================================================================
