------------------------------- MODULE Environ -------------------------------
(***************************************************************************)
(* The variables of the shell as the code keeps them (exec/variable.c, the *)
(* opcodes and builtins that call it): a chain of scopes, each with a hash *)
(* table of variables.                                                     *)
(*                                                                         *)
(* env[1] is the global scope, the last one is vm->env.  A scope other     *)
(* than the global one is that of a function call or, when it is           *)
(* temporary, that of a command with prefix assignments.                   *)
(***************************************************************************)
EXTENDS HashTable, SequencesExt

CONSTANT
    Workloads       \* names, operations and depth of a script, a bound

ASSUME WorkloadAssumption ==
    \A w \in Workloads : /\ w.names \subseteq Names /\ w.texts \subseteq Texts
                         /\ w.depth \in Nat \ {0}

VARIABLES
    env,            \* the chain of scopes
    view,           \* what env holds: auxiliary, only the refinement reads it
    armed,          \* between the prefix assignments and their command
    got,            \* the value that was read last
    child,          \* the C environment of the last program that was executed
    work            \* the workload, fixed for a behaviour

vars == <<env, view, armed, got, child, work>>

variable_new(v, readonly) == [Fresh(v) EXCEPT !.readonly = readonly]

environ_new(temporary) == [vars |-> ht_init, is_temporary |-> temporary]

Innermost == Len(env)

In(e, i, n) == ht_get(e[i].vars, n)

\* The scope in which environ_get finds the name, 0 for NULL.
environ_get(e, n) == SelectLastInSeq(e, LAMBDA scope : ht_get(scope.vars, n) # NULL)

\* Assignments through a pointer to the variable: the table stays as it is.
Change(e, i, n, var) == [e EXCEPT ![i].vars.entries[Probe(e[i].vars, n)].value = var]

Add(e, i, n, var) == [e EXCEPT ![i].vars = ht_set(@, n, var)]

SetValue(e, i, n, v) == Change(e, i, n, [In(e, i, n) EXCEPT !.value = v])

check_readonly(e, n) ==
    LET i == environ_get(e, n) IN i # 0 /\ In(e, i, n).readonly

\* Mutant: only the scope itself is checked, not the ones around it.
environ_set_flags_OwnScope(e, i, n, v, readonly) ==
    LET existing == In(e, i, n)
    IN  CASE existing # NULL /\ existing.readonly -> e
          [] existing # NULL /\ ~existing.readonly ->
                Change(e, i, n, [existing EXCEPT !.value = v, !.readonly = readonly])
          [] OTHER -> Add(e, i, n, variable_new(v, readonly))

environ_set_flags(e, i, n, v, readonly) ==
    LET existing == In(e, i, n)
    IN  CASE existing # NULL /\ existing.readonly -> e
          [] existing # NULL /\ ~existing.readonly ->
                Change(e, i, n, [existing EXCEPT !.value = v, !.readonly = readonly])
          [] existing = NULL /\ check_readonly(SubSeq(e, 1, i - 1), n) -> e
          [] OTHER -> Add(e, i, n, variable_new(v, readonly))

environ_set(e, i, n, v) == environ_set_flags(e, i, n, v, FALSE)

\* Mutant: the walk starts at the global scope.
environ_assign_Outermost(e, n, v) ==
    LET i == SelectInSeq(e, LAMBDA scope : ht_get(scope.vars, n) # NULL)
    IN  CASE i # 0 /\ In(e, i, n).readonly -> e
          [] i # 0 /\ ~In(e, i, n).readonly -> SetValue(e, i, n, v)
          [] OTHER -> environ_set(e, 1, n, v)

environ_assign(e, n, v) ==
    LET i == environ_get(e, n)
    IN  CASE i # 0 /\ In(e, i, n).readonly -> e
          [] i # 0 /\ ~In(e, i, n).readonly -> SetValue(e, i, n, v)
          [] OTHER -> environ_set(e, 1, n, v)

environ_set_local(e, n, v) ==
    IF In(e, Len(e), n) # NULL THEN SetValue(e, Len(e), n, v)
    ELSE Add(e, Len(e), n, variable_new(v, FALSE))

environ_export(e, n) ==
    LET i == environ_get(e, n)
    IN  IF i = 0 THEN e ELSE Change(e, i, n, [In(e, i, n) EXCEPT !.export = TRUE])

environ_unset(e, n) ==
    LET i == environ_get(e, n)
    IN  IF check_readonly(e, n) \/ i = 0 THEN e
        ELSE [e EXCEPT ![i].vars = ht_remove(@, n)]

\* export_var_cb for every variable, from the innermost scope out: the first
\* one of a name that is exported is seen; only strings are set.
environ_export_to_c(e) ==
    [n \in Names |->
        LET i == SelectLastInSeq(e, LAMBDA scope :
                    \E x \in Entries(scope.vars) : x.key = n /\ x.value.export)
        IN  IF i # 0 /\ ~In(e, i, n).value.array THEN In(e, i, n).value.text ELSE Host[n]]

\* What the tables hold, taken from their slots and not through ht_get.
Contents(scope) ==
    [vars |-> [n \in Names |->
                IF \E x \in Entries(scope.vars) : x.key = n
                THEN (CHOOSE x \in Entries(scope.vars) : x.key = n).value
                ELSE NULL],
     is_temporary |-> scope.is_temporary]

View(e) == [i \in DOMAIN e |-> Contents(e[i])]

Init ==
    /\ env = <<environ_new(FALSE)>>
    /\ view = View(env)
    /\ armed = FALSE
    /\ got = String("")
    /\ child = Host
    /\ work \in Workloads

-----------------------------------------------------------------------------
(* Statements.                                                             *)

May(op) == op \in work.ops

Statement == ~env[Innermost].is_temporary

Command == (Statement \/ armed) /\ armed' = FALSE

Only(e) == env' = e /\ view' = View(e) /\ UNCHANGED <<got, child, work>>

Depth == Innermost < work.depth

OP_GET_VAR(n) ==
    LET i == environ_get(env, n)
    IN  /\ May("read")
        /\ got' = IF i = 0 THEN String("") ELSE In(env, i, n).value
        /\ UNCHANGED <<env, view, armed, child, work>>

\* ${n:=word} and, without colon, ${n=word}, in a word of any command: the
\* variable is one of the innermost scope, which may be that of the prefix
\* assignments; the word is the value also when the assignment is refused.
OP_EXPAND_PARAM(n, word, colon) ==
    LET i         == environ_get(env, n)
        condition == i # 0 /\ ~(colon /\ In(env, i, n).value = String(""))
        e         == IF condition THEN env ELSE environ_set(env, Innermost, n, word)
    IN  /\ May("expand")
        /\ Statement \/ armed
        /\ env' = e
        /\ view' = View(e)
        /\ got' = IF condition THEN value_to_string(In(env, i, n).value) ELSE word
        /\ UNCHANGED <<armed, child, work>>

OP_SET_VAR(n, v) ==
    /\ May("assign")
    /\ Statement
    /\ Only(environ_assign(env, n, v))
    /\ UNCHANGED armed

OP_SET_LOCAL(n, v) ==
    /\ May("local")
    /\ Statement
    /\ Innermost > 1
    /\ Only(environ_set(env, Innermost, n, v))
    /\ UNCHANGED armed

\* The element is stored into the array there is, or a new array is assigned.
SetArray(e, n, t) ==
    LET i == environ_get(e, n)
    IN  IF i # 0 /\ In(e, i, n).value.array THEN SetValue(e, i, n, Array(t))
        ELSE environ_assign(e, n, Array(t))

OP_SET_ARRAY(n, t) ==
    /\ May("array")
    /\ Statement
    /\ Only(SetArray(env, n, t))
    /\ UNCHANGED armed

SetArrayBulk(e, n, t) ==
    IF e[Len(e)].is_temporary THEN environ_set(e, Len(e), n, Array(t))
    ELSE environ_assign(e, n, Array(t))

OP_SET_ARRAY_BULK(n, t) ==
    /\ May("array")
    /\ Statement
    /\ Only(SetArrayBulk(env, n, t))
    /\ UNCHANGED armed

OP_PUSH_SCOPE == Append(env, environ_new(TRUE))

\* The assignments before a command word, in a scope pushed for them.
PrefixAssign(n, v) ==
    /\ May("prefix")
    /\ Statement
    /\ Depth
    /\ Only(environ_export(environ_set(OP_PUSH_SCOPE, Innermost + 1, n, v), n))
    /\ armed' = TRUE

PrefixArray(n, t) ==
    /\ May("prefix") /\ May("array")
    /\ Statement
    /\ Depth
    /\ Only(SetArrayBulk(OP_PUSH_SCOPE, n, t))
    /\ armed' = TRUE

PrefixElement(n, t) ==
    /\ May("prefix") /\ May("array")
    /\ Statement
    /\ Depth
    /\ Only(SetArray(OP_PUSH_SCOPE, n, t))
    /\ armed' = TRUE

\* Mutant: the scope is popped before the command.
OP_POP_SCOPE_Early ==
    /\ env[Innermost].is_temporary
    /\ Only(Front(env))
    /\ UNCHANGED armed

OP_POP_SCOPE ==
    /\ env[Innermost].is_temporary
    /\ ~armed
    /\ Only(Front(env))
    /\ UNCHANGED armed

OP_EXEC_FUNC ==
    /\ May("call")
    /\ Command
    /\ Depth
    /\ Only(Append(env, environ_new(FALSE)))

OP_RET ==
    /\ Statement
    /\ Innermost > 1
    /\ Only(Front(env))
    /\ UNCHANGED armed

-----------------------------------------------------------------------------
(* Builtins and programs.                                                  *)

builtin_export(n) ==
    /\ May("export")
    /\ Command
    /\ Only(environ_export(env, n))

builtin_export_value(n, v) ==
    /\ May("export")
    /\ Command
    /\ Only(environ_export(environ_assign(env, n, v), n))

builtin_unset(n) ==
    /\ May("unset")
    /\ Command
    /\ Only(environ_unset(env, n))

builtin_readonly(n) ==
    LET i == environ_get(env, n)
    IN  /\ May("readonly")
        /\ Command
        /\ Only(IF i = 0 THEN environ_set_flags(env, Innermost, n, String(""), TRUE)
                ELSE Change(env, i, n, [In(env, i, n) EXCEPT !.readonly = TRUE]))

builtin_readonly_value(n, v) ==
    /\ May("readonly")
    /\ Command
    /\ Only(environ_set_flags(env, Innermost, n, v, TRUE))

builtin_local(n, v) ==
    /\ May("local")
    /\ Command
    /\ Only(environ_set_local(env, n, v))

OP_EXEC_SIMPLE ==
    /\ May("execute")
    /\ Command
    /\ child' = environ_export_to_c(env)
    /\ UNCHANGED <<env, view, got, work>>

Next ==
    \/ \E n \in work.names, t \in work.texts :
        \/ OP_SET_VAR(n, String(t))
        \/ OP_SET_LOCAL(n, String(t))
        \/ OP_SET_ARRAY(n, t)
        \/ OP_SET_ARRAY_BULK(n, t)
        \/ PrefixAssign(n, String(t))
        \/ PrefixArray(n, t)
        \/ PrefixElement(n, t)
        \/ builtin_export_value(n, String(t))
        \/ builtin_readonly_value(n, String(t))
        \/ builtin_local(n, String(t))
        \/ \E colon \in BOOLEAN : OP_EXPAND_PARAM(n, String(t), colon)
    \/ \E n \in work.names : builtin_export(n) \/ builtin_unset(n) \/ builtin_readonly(n)
                               \/ OP_GET_VAR(n)
    \/ OP_POP_SCOPE
    \/ OP_EXEC_FUNC
    \/ OP_RET
    \/ OP_EXEC_SIMPLE

Spec == Init /\ [][Next]_vars

-----------------------------------------------------------------------------
(* Properties.                                                             *)

Abstract == INSTANCE Scopes WITH scopes <- view

\* The scopes are those of the code, no more of them than the workload allows.
TypeOK ==
    /\ Abstract!TypeOK
    /\ work \in Workloads
    /\ Innermost <= work.depth
    /\ \A i \in DOMAIN env : \A x \in Entries(env[i].vars) : x.key \in work.names

\* The tables work: count is the number of entries, one slot at least is empty
\* (the loops of ht_get and ht_remove end), no key has two entries, and every
\* entry is found: no empty slot lies between its natural slot and its own.
TablesSound ==
    \A k \in DOMAIN env :
        LET t        == env[k].vars
            Occupied == {i \in Slots(t) : t.entries[i] # NULL}
        IN  /\ DOMAIN t.entries = Slots(t)
            /\ t.count = Cardinality(Occupied)
            /\ t.count < t.capacity
            /\ \A i \in Occupied :
                /\ Probe(t, t.entries[i].key) = i
                /\ \A j \in Occupied : t.entries[i].key = t.entries[j].key => i = j

\* The chain of hash tables implements the scopes of module Scopes: whatever
\* collisions, resizings and shifts there are, every operation does what it
\* does on functions from names to variables.
Implements == Abstract!Spec

HidesOuter == Abstract!HidesOuter

ReadonlyKept == Abstract!ReadonlyKept

=============================================================================
