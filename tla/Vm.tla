--------------------------------- MODULE Vm ---------------------------------
(***************************************************************************)
(* The virtual machine of src/src/vm/vm.c running a compiled program: one  *)
(* action per instruction, in the shell process and in the processes it    *)
(* forks for subshells, command substitutions, pipelines and background    *)
(* lists.  A forked process is a copy of the whole machine that goes on at *)
(* the segment compiled for it; nothing is reset but its instruction       *)
(* pointer and the descriptors it gets.                                    *)
(*                                                                         *)
(* The world outside is small.  An external command c returns the status   *)
(* Script[c][k] when it runs for the k-th time.  What is written to a      *)
(* descriptor is kept, line by line, under the name of the file behind it. *)
(* Text is a sequence of atoms, with " " and "\n" as atoms of their own.   *)
(*                                                                         *)
(* Signals, traps, eval and source, events, set -u and set -x, and forks   *)
(* that fail are not part of this module.  A vm_pop from an empty stack is *)
(* an abort() in the code; here the process is stuck.                      *)
(***************************************************************************)
EXTENDS Bytecode

CONSTANTS
    Images,                 \* the compiled programs, one of which is run
    Script,                 \* external command -> statuses of its runs
    VM_CALL_STACK_MAX,      \* call frames
    VM_REDIR_STACK_MAX      \* redirection frames

ASSUME VmAssumption ==
    /\ VM_CALL_STACK_MAX \in Nat \ {0}
    /\ VM_REDIR_STACK_MAX \in Nat \ {0}
    /\ \A c \in DOMAIN Script : Script[c] \in Seq(0..255) /\ Script[c] # <<>>

VARIABLES
    prog,       \* the index of the image
    procs,      \* the machines, the shell first, then in the order of fork
    out,        \* file -> lines written to it
    world       \* external command -> how often it has run

vars == <<prog, procs, out, world>>

\* (A definition, so that TLC evaluates the constant once.)
Loaded == Images

\* The compiler makes code that the machine can run.
ASSUME CodeAssumption ==
    \A i \in DOMAIN Loaded :
      \A img \in {Loaded[i]} : \A lv \in {Levels(img)} : img.ok => WellFormed(img, lv)

Code == Loaded[prog].code

Funcs == Loaded[prog].funcs

-----------------------------------------------------------------------------
(* Values and scopes.  A scope maps names to texts, env[1] is innermost.   *)

Str(s) == [k |-> "str", s |-> s]

Num(n) == [k |-> "int", n |-> n]

VNone == [k |-> "none"]

Text(a) == IF a = "" THEN <<>> ELSE <<a>>

\* value_to_integer of a string.
Integer(s) == IF Len(s) = 1 THEN AtomNumber(s[1]) ELSE 0

environ_new == [x \in {} |-> <<>>]

\* The innermost scope that has the name, 0 when none has.
ScopeOf(env, name) == SelectInSeq(env, LAMBDA e : name \in DOMAIN e)

environ_get(env, name) ==
    LET i == ScopeOf(env, name) IN IF i = 0 THEN <<>> ELSE env[i][name]

SetIn(env, i, name, s) == [env EXCEPT ![i] = (name :> s) @@ @]

environ_set(env, name, s) == SetIn(env, 1, name, s)

environ_assign(env, name, s) ==
    LET i == ScopeOf(env, name)
    IN  SetIn(env, IF i = 0 THEN Len(env) ELSE i, name, s)

\* Each of the names goes where it is found.
Unset(env, names) ==
    [i \in DOMAIN env |->
       [x \in {y \in DOMAIN env[i] : y \in names => ScopeOf(env, y) # i} |-> env[i][x]]]

environ_unset(env, name) == Unset(env, {name})

\* Bind $1 .. $n and $# in the innermost scope (vm_set_args).
vm_set_args(env, args) ==
    LET bound == [x \in {ToString(i) : i \in DOMAIN args} |-> args[AtomNumber(x)]]
    IN  [env EXCEPT ![1] = ("#" :> <<ToString(Len(args))>>) @@ bound @@ @]

ArgCount(env) == Integer(environ_get(env, "#"))

PositionalArgs(env) ==
    [i \in 1..ArgCount(env) |-> environ_get(env, ToString(i))]

\* Texts put together with a separator between them.
Join(texts, sep) ==
    FoldLeft(LAMBDA acc, i : IF i = 1 THEN texts[1] ELSE acc \o <<sep>> \o texts[i],
             <<>>, [i \in DOMAIN texts |-> i])

\* The maximal runs of atoms between blanks (default IFS).
Fields(s) ==
    LET Add(acc, a) == IF a \in {" ", "\n"} THEN [acc EXCEPT !.open = FALSE]
                       ELSE IF acc.open
                       THEN [acc EXCEPT !.f[Len(acc.f)] = Append(@, a)]
                       ELSE [f |-> Append(acc.f, <<a>>), open |-> TRUE]
    IN  FoldLeft(Add, [f |-> <<>>, open |-> FALSE], s).f

\* What a command substitution makes of the lines of its child: trailing
\* newlines are cut off.
Captured(lines) ==
    LET full == {i \in DOMAIN lines : lines[i] # <<>>}
        n    == IF full = {} THEN 0 ELSE CHOOSE i \in full : \A j \in full : j <= i
    IN  Join(SubSeq(lines, 1, n), "\n")

-----------------------------------------------------------------------------
(* The machine.                                                            *)

NoWait == [op |-> "", kids |-> <<>>, negate |-> FALSE]

vm_init ==
    [ip |-> 1, stack |-> <<>>, calls |-> <<>>, redirs |-> <<>>,
     env |-> <<environ_new>>, last |-> 0, errexit |-> FALSE,
     suppressed |-> 0, halted |-> FALSE,
     fds |-> (0 :> "stdin" @@ 1 :> "tty" @@ 2 :> "stderr" @@ 3 :> "closed"),
     wait |-> NoWait,
     seg |-> [from |-> 1, to |-> Len(Code), calls |-> 0]]

Init ==
    /\ prog \in DOMAIN Loaded
    /\ Loaded[prog].ok
    /\ procs = <<vm_init>>
    /\ out = [f \in {"tty", "stderr"} |-> <<>>]
    /\ world = [c \in DOMAIN Script |-> 0]

Push(v, x) == [v EXCEPT !.stack = Append(@, x)]

PushAll(v, xs) == [v EXCEPT !.stack = @ \o xs]

Pop(v, n) == [v EXCEPT !.stack = SubSeq(@, 1, Len(@) - n)]

Top(v, n) == v.stack[Len(v.stack) - n]

vm_exit(v, status) == [v EXCEPT !.last = status, !.halted = TRUE]

\* The end of the dispatch loop: errexit.
Errexit(op, v) ==
    IF /\ v.errexit /\ v.suppressed = 0 /\ v.last # 0
       /\ op \in {"EXEC_SIMPLE", "EXEC_BUILTIN", "EXEC_FUNC", "PIPELINE", "SUBSHELL"}
    THEN vm_exit(v, v.last) ELSE v

Running(p) == ~procs[p].halted /\ procs[p].wait.op = ""

Ins(p) == Code[procs[p].ip]

\* The machine p fetches an instruction op that takes n operands.
At(p, op, n) ==
    /\ procs[p].ip <= Len(Code)
    /\ Ins(p).op = op
    /\ Running(p)
    /\ Len(procs[p].stack) >= n

Fetched(p) == [procs[p] EXCEPT !.ip = @ + 1]

Put(p, v) == procs' = [procs EXCEPT ![p] = Errexit(Ins(p).op, v)]

\* The instruction changes nothing but the machine itself.
Only(p, v) == Put(p, v) /\ UNCHANGED <<prog, out, world>>

-----------------------------------------------------------------------------
(* Operands, words and variables.                                          *)

OP_PUSH_CONST(p) ==
    At(p, "PUSH_CONST", 0) /\ Only(p, Push(Fetched(p), Str(Text(Ins(p).a))))

OP_PUSH_INT(p) ==
    At(p, "PUSH_INT", 0) /\ Only(p, Push(Fetched(p), Num(Ins(p).n)))

OP_POP(p) == At(p, "POP", 1) /\ Only(p, Pop(Fetched(p), 1))

OP_DUP(p) == At(p, "DUP", 1) /\ Only(p, Push(Fetched(p), Top(procs[p], 0)))

OP_CONCAT(p) ==
    LET n     == Ins(p).n
        parts == [i \in 1..n |-> Top(procs[p], n - i).s]
    IN  /\ At(p, "CONCAT", n)
        /\ Only(p, Push(Pop(Fetched(p), n), Str(FlattenSeq(parts))))

OP_GET_SPECIAL(p) ==
    LET v == procs[p]
        s == CASE Ins(p).which = "?" -> <<ToString(v.last)>>
               [] Ins(p).which = "#" -> <<ToString(ArgCount(v.env))>>
               [] Ins(p).which = "@" -> Join(PositionalArgs(v.env), " ")
    IN  At(p, "GET_SPECIAL", 0) /\ Only(p, Push(Fetched(p), Str(s)))

\* A group of fields on the stack: the fields and their number.
PushGroup(v, fields) ==
    Push(PushAll(v, [i \in DOMAIN fields |-> Str(fields[i])]), Num(Len(fields)))

OP_SPLIT_FIELDS(p) ==
    /\ At(p, "SPLIT_FIELDS", 1)
    /\ Only(p, PushGroup(Pop(Fetched(p), 1), Fields(Top(procs[p], 0).s)))

OP_EXPAND_ARGS(p) ==
    /\ At(p, "EXPAND_ARGS", 0)
    /\ Only(p, PushGroup(Fetched(p), PositionalArgs(procs[p].env)))

\* The topmost n groups of a stack become one, in their order.
Collected(stack, n) ==
    LET taken[i \in 0..n] ==
            LET from == taken[i - 1]
                top  == Len(from.rest)
                c    == from.rest[top].n
            IN  IF i = 0 THEN [rest |-> stack, values |-> <<>>]
                ELSE [rest   |-> SubSeq(from.rest, 1, top - c - 1),
                      values |-> SubSeq(from.rest, top - c, top - 1) \o from.values]
        all == taken[n]
    IN  all.rest \o Append(all.values, Num(Len(all.values)))

OP_COLLECT_WORDS(p) ==
    /\ At(p, "COLLECT_WORDS", 1)
    /\ Only(p, [Pop(Fetched(p), 1) EXCEPT !.stack = Collected(@, Top(procs[p], 0).n)])

OP_GET_VAR(p) ==
    /\ At(p, "GET_VAR", 0)
    /\ Only(p, Push(Fetched(p), Str(environ_get(procs[p].env, Ins(p).name))))

\* The innermost scope first, then the whole chain: the same value.
OP_GET_LOCAL(p) ==
    /\ At(p, "GET_LOCAL", 0)
    /\ Only(p, Push(Fetched(p), Str(environ_get(procs[p].env, Ins(p).name))))

OP_SET_VAR(p) ==
    /\ At(p, "SET_VAR", 1)
    /\ Only(p, [Pop(Fetched(p), 1) EXCEPT
                  !.env = environ_assign(@, Ins(p).name, Top(procs[p], 0).s)])

OP_SET_LOCAL(p) ==
    /\ At(p, "SET_LOCAL", 1)
    /\ Only(p, [Pop(Fetched(p), 1) EXCEPT
                  !.env = environ_set(@, Ins(p).name, Top(procs[p], 0).s)])

OP_PUSH_SCOPE(p) ==
    /\ At(p, "PUSH_SCOPE", 0)
    /\ Only(p, [Fetched(p) EXCEPT !.env = <<environ_new>> \o @])

OP_POP_SCOPE(p) ==
    /\ At(p, "POP_SCOPE", 0)
    /\ Only(p, IF Len(procs[p].env) = 1 THEN [Fetched(p) EXCEPT !.last = 1, !.halted = TRUE]
               ELSE [Fetched(p) EXCEPT !.env = Tail(@)])

\* The export flag is only read by external commands.
OP_EXPORT(p) == At(p, "EXPORT", 0) /\ Only(p, Fetched(p))

-----------------------------------------------------------------------------
(* Jumps, loops and tests.                                                 *)

vm_jump(v, to) == [v EXCEPT !.ip = to]

OP_JMP(p) == At(p, "JMP", 0) /\ Only(p, vm_jump(procs[p], Ins(p).to))

OP_JMP_TRUE(p) ==
    /\ At(p, "JMP_TRUE", 0)
    /\ Only(p, IF procs[p].last = 0 THEN vm_jump(procs[p], Ins(p).to)
               ELSE Fetched(p))

OP_JMP_FALSE(p) ==
    /\ At(p, "JMP_FALSE", 0)
    /\ Only(p, IF procs[p].last # 0 THEN vm_jump(procs[p], Ins(p).to)
               ELSE Fetched(p))

OP_JMP_NONE(p) ==
    /\ At(p, "JMP_NONE", 1)
    /\ Only(p, IF Top(procs[p], 0) = VNone
               THEN vm_jump(Pop(procs[p], 1), Ins(p).to)
               ELSE Pop(Fetched(p), 1))

\* The group on the stack becomes an iterator.
OP_INIT_ITER(p) ==
    LET n == Top(procs[p], 0).n
        e == [i \in 1..n |-> Top(procs[p], n + 1 - i)]
    IN  /\ At(p, "INIT_ITER", 1)
        /\ Len(procs[p].stack) >= n + 1
        /\ Only(p, Push(Pop(Fetched(p), n + 1), [k |-> "iter", elems |-> e]))

OP_GET_NEXT_ITER(p) ==
    LET it == Top(procs[p], 0)
        v  == Fetched(p)
    IN  /\ At(p, "GET_NEXT_ITER", 1)
        /\ it.k = "iter"
        /\ Only(p, IF it.elems = <<>> THEN Push(v, VNone)
                   ELSE Push(Push(Pop(v, 1), [it EXCEPT !.elems = Tail(@)]),
                             Head(it.elems)))

Status(v, ok) == [v EXCEPT !.last = IF ok THEN 0 ELSE 1]

OP_TEST_UNARY(p) ==
    /\ At(p, "TEST_UNARY", 1)
    /\ Only(p, Status(Pop(Fetched(p), 1), Top(procs[p], 0).s # <<>>))

\* Patterns of the model have no special characters: fnmatch is equality.
Matches(v) == Top(v, 1).s = Top(v, 0).s

OP_TEST_BINARY(p) ==
    /\ At(p, "TEST_BINARY", 2)
    /\ Only(p, Status(Pop(Fetched(p), 2), Matches(procs[p])))

OP_PATTERN_MATCH(p) ==
    /\ At(p, "PATTERN_MATCH", 2)
    /\ Only(p, Status(Pop(Fetched(p), 2), Matches(procs[p])))

OP_NEGATE_STATUS(p) ==
    At(p, "NEGATE_STATUS", 0) /\ Only(p, Status(Fetched(p), procs[p].last # 0))

OP_STATUS_ZERO(p) ==
    At(p, "STATUS_ZERO", 0) /\ Only(p, Status(Fetched(p), TRUE))

OP_ERREXIT_PUSH(p) ==
    At(p, "ERREXIT_PUSH", 0) /\ Only(p, [Fetched(p) EXCEPT !.suppressed = @ + 1])

OP_ERREXIT_POP(p) ==
    /\ At(p, "ERREXIT_POP", 0)
    /\ Only(p, [Fetched(p) EXCEPT !.suppressed = IF @ > 0 THEN @ - 1 ELSE 0])

OP_HALT(p) ==
    At(p, "HALT", 0) /\ Only(p, vm_exit(Fetched(p), procs[p].last))

-----------------------------------------------------------------------------
(* Commands.                                                               *)

\* The argument count is on top of the stack, the arguments below it.
Argc(v) == Top(v, 0).n

Argv(v) == [i \in 1..Argc(v) |-> Top(v, Argc(v) + 1 - i).s]

Called(p) == Pop(Fetched(p), Argc(procs[p]) + 1)

AtCommand(p, op) == At(p, op, 1) /\ Len(procs[p].stack) > Argc(procs[p])

\* Push a call frame and a scope with the parameters, go to the body.
CallFunc(v, f, argv) ==
    IF Len(v.calls) >= VM_CALL_STACK_MAX
    THEN [v EXCEPT !.last = 1, !.halted = TRUE]
    ELSE [v EXCEPT !.calls = Append(@, [return_ip        |-> v.ip,
                                        saved_env        |-> Len(v.env),
                                        saved_stack_base |-> Len(v.stack)]),
                   !.env   = vm_set_args(<<environ_new>> \o @, Tail(argv)),
                   !.ip    = Funcs[f].offset]

\* Mutant: the operand stack is not unwound.
ReturnFrom_KeepsStack(v) ==
    [v EXCEPT !.calls = Front(@), !.env = Tail(@), !.ip = Last(v.calls).return_ip]

\* Mutant: the scope of a prefix assignment is dropped, too.
ReturnFrom_DropsPrefix(v) ==
    [ReturnFrom_KeepsStack(v) EXCEPT !.env = Tail(@)]

\* Mutant: the scope of the call stays.
ReturnFrom_KeepsScope(v) ==
    LET frame == Last(v.calls)
    IN  [v EXCEPT !.calls = Front(@), !.ip = frame.return_ip,
                  !.stack = SubSeq(@, 1, frame.saved_stack_base)]

\* Unwind the call frame: the operand stack goes back to its base, and the
\* innermost scope is dropped, whichever it is.
ReturnFrom(v) ==
    LET frame == Last(v.calls)
        base  == frame.saved_stack_base
    IN  [v EXCEPT !.calls = Front(@),
                  !.stack = IF Len(@) > base THEN SubSeq(@, 1, base) ELSE @,
                  !.env   = Tail(@),
                  !.ip    = frame.return_ip]

OP_RET(p) ==
    /\ At(p, "RET", 0)
    /\ Only(p, IF procs[p].calls = <<>> THEN [Fetched(p) EXCEPT !.halted = TRUE]
               ELSE ReturnFrom(Fetched(p)))

UnsetArgs(env, from) == Unset(env, {ToString(i) : i \in from .. ArgCount(env)})

\* Options up to "--", parameters behind it; other words are skipped.
builtin_set(v, args) ==
    LET dash  == SelectInSeq(args, LAMBDA a : a = <<"--">>)
        opts  == {i \in DOMAIN args : /\ dash = 0 \/ i < dash
                                      /\ args[i] \in {<<"-e">>, <<"+e">>}}
        flags == IF opts = {} THEN v
                 ELSE [v EXCEPT !.errexit = (args[Max(opts)] = <<"-e">>)]
        given == SubSeq(args, dash + 1, Len(args))
    IN  IF dash = 0 THEN flags
        ELSE [flags EXCEPT !.env = environ_assign(vm_set_args(UnsetArgs(@, 1), given),
                                                  "OPTIND", <<"1">>)]

\* $1 .. move down by one, the last one is unset where it is found.
builtin_shift(v) ==
    LET n    == ArgCount(v.env)
        down == vm_set_args(v.env, Tail(PositionalArgs(v.env)))
        env  == environ_unset(down, ToString(n))
    IN  IF n = 0 THEN [v EXCEPT !.last = 1] ELSE [v EXCEPT !.env = env, !.last = 0]

builtin_local(v, args) ==
    [v EXCEPT !.env[1] = [x \in {args[i][1] : i \in DOMAIN args} |-> <<>>] @@ @]

\* exit and return take their status from the first argument.
Code1(args) == IF args = <<>> THEN 0 ELSE Integer(args[1])

builtin_return(v, code) ==
    LET w == [v EXCEPT !.last = code]
    IN  IF v.calls = <<>> THEN [w EXCEPT !.halted = TRUE] ELSE ReturnFrom(w)

\* The machine after the builtin and the special cases of EXEC_BUILTIN.
Builtin(v, name, args) ==
    LET done == [v EXCEPT !.last = 0]
    IN  CASE name \in {"echo", "true", ":", "exec"} -> done
          [] name = "false"  -> [v EXCEPT !.last = 1]
          [] name = "exit"   -> vm_exit(v, Code1(args))
          [] name = "return" -> builtin_return(v, Code1(args))
          [] name = "set"    -> builtin_set(done, args)
          [] name = "local"  -> builtin_local(done, args)
          [] name = "shift"  -> builtin_shift(v)

Written(file, line) ==
    CASE file = "closed"      -> out
      [] file \in DOMAIN out  -> [out EXCEPT ![file] = Append(@, line)]
      [] OTHER                -> (file :> <<line>>) @@ out

RunBuiltin(p, name, args) ==
    /\ Put(p, Builtin(Called(p), name, args))
    /\ out' = IF name = "echo"
              THEN Written(procs[p].fds[1], Join(args, " ")) ELSE out
    /\ UNCHANGED <<prog, world>>

OP_EXEC_BUILTIN(p) ==
    /\ AtCommand(p, "EXEC_BUILTIN")
    /\ RunBuiltin(p, Ins(p).name, Tail(Argv(procs[p])))

OP_EXEC_FUNC(p) ==
    /\ AtCommand(p, "EXEC_FUNC")
    /\ Only(p, CallFunc(Called(p), Ins(p).f, Argv(procs[p])))

\* The k-th run of an external command; 127 when there is none.
External(p, c) ==
    LET k == world[c] + 1
        s == Script[c][IF k > Len(Script[c]) THEN Len(Script[c]) ELSE k]
    IN  IF c \in DOMAIN Script
        THEN /\ Put(p, [Called(p) EXCEPT !.last = s])
             /\ world' = [world EXCEPT ![c] = k]
             /\ UNCHANGED <<prog, out>>
        ELSE Only(p, [Called(p) EXCEPT !.last = 127])

\* A name resolved when it runs: function, builtin, program.
OP_EXEC_SIMPLE(p) ==
    /\ AtCommand(p, "EXEC_SIMPLE")
    /\ LET argv == Argv(procs[p])
           name == argv[1]
           f    == SelectInSeq(Funcs, LAMBDA e : <<e.name>> = name)
           bi   == Len(name) = 1 /\ name[1] \in Builtins
       IN  \/ argv = <<>> /\ Only(p, Called(p))
           \/ argv # <<>> /\ f # 0 /\ Only(p, CallFunc(Called(p), f, argv))
           \/ argv # <<>> /\ f = 0 /\ bi /\ RunBuiltin(p, name[1], Tail(argv))
           \/ argv # <<>> /\ f = 0 /\ ~bi /\ External(p, name[1])

-----------------------------------------------------------------------------
(* Redirections.                                                           *)

OP_REDIR_SAVE(p) ==
    /\ At(p, "REDIR_SAVE", 0)
    /\ Only(p, IF Len(procs[p].redirs) >= VM_REDIR_STACK_MAX
               THEN [Fetched(p) EXCEPT !.last = 1, !.halted = TRUE]
               ELSE [Fetched(p) EXCEPT !.redirs = Append(@, <<>>)])

\* Put the descriptors of the topmost frame back, the last one first.
OP_REDIR_RESTORE(p) ==
    LET frame == Last(procs[p].redirs)
        old   == FoldLeft(LAMBDA fds, e : [fds EXCEPT ![e.fd] = e.saved],
                          procs[p].fds, Reverse(frame))
    IN  /\ At(p, "REDIR_RESTORE", 0)
        /\ Only(p, IF procs[p].redirs = <<>> THEN Fetched(p)
                   ELSE [Fetched(p) EXCEPT !.redirs = Front(@), !.fds = old])

\* Note the file behind fd in the topmost frame.  A closed descriptor is only
\* noted by REDIR_CLOSE and REDIR_HERE (closed = TRUE).
SaveFd(v, fd, closed) ==
    LET n == Len(v.redirs)
    IN  IF n = 0 \/ (v.fds[fd] = "closed" /\ ~closed) THEN v
        ELSE IF Len(v.redirs[n]) >= 16 THEN v
        ELSE [v EXCEPT !.redirs[n] = Append(@, [fd |-> fd, saved |-> v.fds[fd]])]

\* A file that cannot be opened sets the status; the command still runs.
OP_REDIR_OPEN(p) ==
    LET name == Top(procs[p], 0).s
        file == name[1]
        fd   == Ins(p).fd
        v    == Pop(Fetched(p), 1)
        ok   == name # <<>> /\ (Ins(p).rt = "in" => file \in DOMAIN out)
    IN  /\ At(p, "REDIR_OPEN", 1)
        /\ Put(p, IF ok THEN [SaveFd(v, fd, FALSE) EXCEPT !.fds[fd] = file]
                  ELSE [v EXCEPT !.last = 1])
        /\ out' = CASE ok /\ Ins(p).rt = "out" -> (file :> <<>>) @@ out
                    [] ok /\ Ins(p).rt = "append" -> out @@ (file :> <<>>)
                    [] OTHER -> out
        /\ UNCHANGED <<prog, world>>

OP_REDIR_DUP(p) ==
    LET from == procs[p].fds[Integer(Top(procs[p], 0).s)]
        fd   == Ins(p).fd
        v    == SaveFd(Pop(Fetched(p), 1), fd, FALSE)
    IN  /\ At(p, "REDIR_DUP", 1)
        /\ Only(p, IF from = "closed" THEN v ELSE [v EXCEPT !.fds[fd] = from])

OP_REDIR_CLOSE(p) ==
    /\ At(p, "REDIR_CLOSE", 0)
    /\ Only(p, [SaveFd(Fetched(p), Ins(p).fd, TRUE) EXCEPT !.fds[Ins(p).fd] = "closed"])

OP_REDIR_HERE(p) ==
    /\ At(p, "REDIR_HERE", 1)
    /\ Only(p, [SaveFd(Pop(Fetched(p), 1), Ins(p).fd, TRUE) EXCEPT
                  !.fds[Ins(p).fd] = "here"])

-----------------------------------------------------------------------------
(* Processes.                                                              *)

\* The copy of the machine that runs the segment at index off.
Child(v, off, fds) ==
    [v EXCEPT !.ip = off, !.fds = fds,
              !.seg = [from |-> off, to |-> Code[off - 1].to - 1,
                       calls |-> Len(v.calls)]]

PipeName(k) == "pipe" \o ToString(k)

\* The machine p forks a child for every offset and waits for all of them.
ForkAndWait(p, offsets, fds, negate) ==
    LET n    == Len(procs)
        kids == [i \in DOMAIN offsets |-> Child(Fetched(p), offsets[i], fds[i])]
        wait == [op |-> Ins(p).op, kids |-> [i \in DOMAIN offsets |-> n + i],
                 negate |-> negate]
    IN  procs' = [procs EXCEPT ![p] = [Fetched(p) EXCEPT !.wait = wait]] \o kids

OP_CMD_SUBST(p) ==
    LET pipe == PipeName(Len(procs) + 1)
    IN  /\ At(p, "CMD_SUBST", 0)
        /\ ForkAndWait(p, <<Ins(p).to>>,
                       <<[procs[p].fds EXCEPT ![1] = pipe]>>, FALSE)
        /\ out' = (pipe :> <<>>) @@ out
        /\ UNCHANGED <<prog, world>>

OP_SUBSHELL(p) ==
    /\ At(p, "SUBSHELL", 0)
    /\ ForkAndWait(p, <<Ins(p).to>>, <<procs[p].fds>>, FALSE)
    /\ UNCHANGED <<prog, out, world>>

\* Member i reads from the pipe of member i - 1 and writes to its own, the
\* last one writes where the shell does.
OP_PIPELINE(p) ==
    LET n    == Len(procs)
        offs == Ins(p).offsets
        fds  == [i \in DOMAIN offs |->
                   [procs[p].fds EXCEPT
                      ![0] = IF i = 1 THEN @ ELSE PipeName(n + i - 1),
                      ![1] = IF i = Len(offs) THEN @ ELSE PipeName(n + i)]]
    IN  /\ At(p, "PIPELINE", 0)
        /\ ForkAndWait(p, offs, fds, Ins(p).negate)
        /\ UNCHANGED <<prog, out, world>>

\* A background list: errexit is off, standard input is empty, nobody waits.
OP_BACKGROUND(p) ==
    LET fds == [procs[p].fds EXCEPT ![0] = "null"]
        kid == [Child(procs[p], Ins(p).to, fds) EXCEPT !.errexit = FALSE]
    IN  /\ At(p, "BACKGROUND", 0)
        /\ procs' = [procs EXCEPT ![p] = [Fetched(p) EXCEPT !.last = 0]] \o <<kid>>
        /\ UNCHANGED <<prog, out, world>>

Finished(p) == procs[p].halted \/ procs[p].ip > Len(Code)

\* The parent collects the status of the last child (and its output).
Collect(p, op) ==
    LET wait == procs[p].wait
        last == Last(wait.kids)
        st   == procs[last].last % 256
        v    == [procs[p] EXCEPT
                   !.wait = NoWait,
                   !.last = IF wait.negate THEN (IF st = 0 THEN 1 ELSE 0) ELSE st]
        w    == IF op = "CMD_SUBST"
                THEN Push(v, Str(Captured(out[PipeName(last)]))) ELSE v
    IN  /\ wait.op = op
        /\ \A i \in DOMAIN wait.kids : Finished(wait.kids[i])
        /\ procs' = [procs EXCEPT ![p] = Errexit(op, w)]
        /\ UNCHANGED <<prog, out, world>>

-----------------------------------------------------------------------------

Exec(p) ==
    \/ OP_PUSH_CONST(p) \/ OP_PUSH_INT(p) \/ OP_POP(p) \/ OP_DUP(p)
    \/ OP_CONCAT(p) \/ OP_GET_SPECIAL(p) \/ OP_SPLIT_FIELDS(p)
    \/ OP_EXPAND_ARGS(p) \/ OP_COLLECT_WORDS(p)
    \/ OP_GET_VAR(p) \/ OP_GET_LOCAL(p) \/ OP_SET_VAR(p) \/ OP_SET_LOCAL(p)
    \/ OP_PUSH_SCOPE(p) \/ OP_POP_SCOPE(p) \/ OP_EXPORT(p)
    \/ OP_JMP(p) \/ OP_JMP_TRUE(p) \/ OP_JMP_FALSE(p) \/ OP_JMP_NONE(p)
    \/ OP_INIT_ITER(p) \/ OP_GET_NEXT_ITER(p)
    \/ OP_TEST_UNARY(p) \/ OP_TEST_BINARY(p) \/ OP_PATTERN_MATCH(p)
    \/ OP_NEGATE_STATUS(p) \/ OP_STATUS_ZERO(p)
    \/ OP_ERREXIT_PUSH(p) \/ OP_ERREXIT_POP(p) \/ OP_HALT(p)
    \/ OP_EXEC_BUILTIN(p) \/ OP_EXEC_FUNC(p) \/ OP_EXEC_SIMPLE(p) \/ OP_RET(p)
    \/ OP_REDIR_SAVE(p) \/ OP_REDIR_RESTORE(p) \/ OP_REDIR_OPEN(p)
    \/ OP_REDIR_DUP(p) \/ OP_REDIR_CLOSE(p) \/ OP_REDIR_HERE(p)
    \/ OP_CMD_SUBST(p) \/ OP_SUBSHELL(p) \/ OP_PIPELINE(p) \/ OP_BACKGROUND(p)
    \/ Collect(p, "CMD_SUBST") \/ Collect(p, "SUBSHELL") \/ Collect(p, "PIPELINE")

AllDone == \A p \in DOMAIN procs : Finished(p)

\* Nothing is left to run.
Done == AllDone /\ UNCHANGED vars

Next == (\E p \in DOMAIN procs : Exec(p)) \/ Done

Spec == Init /\ [][Next]_vars

-----------------------------------------------------------------------------
(* Properties.                                                             *)

\* The machines, frames and files have their types; a process that waits has
\* children, all of them forked after it (vm_t in vm.h).
TypeOK ==
    /\ prog \in DOMAIN Loaded
    /\ \A p \in DOMAIN procs :
         LET v == procs[p]
         IN  /\ v.ip \in 1 .. Len(Code) + 1
             /\ v.last \in 0..255 /\ v.suppressed \in Nat
             /\ v.errexit \in BOOLEAN /\ v.halted \in BOOLEAN
             /\ Len(v.env) >= 1
             /\ Len(v.calls) <= VM_CALL_STACK_MAX
             /\ Len(v.redirs) <= VM_REDIR_STACK_MAX
             /\ v.wait.op # "" => /\ v.wait.kids # <<>>
                                  /\ \A i \in DOMAIN v.wait.kids :
                                       v.wait.kids[i] \in p + 1 .. Len(procs)

\* The programs whose code is regular.
RegularPrograms ==
    {i \in DOMAIN Loaded :
       \A img \in {Loaded[i]} : \A lv \in {Levels(img)} : img.ok => Regular(img, lv)}

\* A name found at run time turns out to be that of return.
ReturnsByName(p) ==
    /\ AtCommand(p, "EXEC_SIMPLE")
    /\ Argv(procs[p]) # <<>>
    /\ LET name == Argv(procs[p])[1] IN Len(name) = 1 /\ name[1] = "return"

\* The code of the program pairs up everything it sets up, also on the paths that
\* it never takes: scopes with POP_SCOPE, ERREXIT_PUSH with ERREXIT_POP, bodies
\* with RET, segments with HALT (compile_and_or, compile_simple, compile_while_until);
\* and return stands, also by name, where it leaves nothing but the function.
CodeRegular ==
    /\ prog \in RegularPrograms
    /\ \A p \in DOMAIN procs :
         ReturnsByName(p) => MayReturn(Loaded[prog], Levels(Loaded[prog]), procs[p].ip)

\* A forked process runs the code of its segment, or of a function called from
\* there, and never gets to what follows the segment in its parent's code
\* (OP_SUBSHELL, OP_CMD_SUBST, OP_PIPELINE, OP_BACKGROUND and the HALT the
\* compiler puts behind a segment).
ChildInSegment ==
    \A p \in DOMAIN procs :
        LET v == procs[p]
        IN  \/ Len(v.calls) > v.seg.calls
            \/ v.ip \in v.seg.from .. v.seg.to + 1

\* The shell has run its code to the end.
AtEnd == procs[1].halted /\ procs[1].ip = Len(Code) + 1

\* When the shell reaches the end of its code, every way out of the constructs
\* it went through has put back the frames and contexts they set up: no call
\* frame is left, no scope, and errexit is not suppressed any more (OP_RET,
\* builtin_return, OP_POP_SCOPE, OP_ERREXIT_POP).
FramesBack ==
    AtEnd => /\ procs[1].calls = <<>>
             /\ Len(procs[1].env) = 1
             /\ procs[1].suppressed = 0

\* At the end no operand (an iterator, an argument, a group of fields) is left on
\* the stack either, although break and return leave loops by a jump
\* (compile_for, CompileBreakContinue, OP_RET).
Balanced == AtEnd => procs[1].stack = <<>>

\* When the shell reaches the end of its code, in a program without exec, every
\* redirection frame is popped and every descriptor is what it was: "REDIR_RESTORE
\* pops the frame and restores all FDs in reverse order" (ARCH.md).
DescriptorsRestored ==
    AtEnd => procs[1].redirs = <<>> /\ procs[1].fds = vm_init.fds
=============================================================================
