------------------------------ MODULE VmProofs ------------------------------
(***************************************************************************)
(* The machine of Vm keeps its type in any well-formed code, and in        *)
(* regular code every child stays in its segment and every frame, scope    *)
(* and suppression of errexit is put back when the shell is done.          *)
(*                                                                         *)
(* The levels of the code (Bytecode) carry the argument: each machine has  *)
(* open what the levels of its instruction and of the instructions its     *)
(* frames return to add up to.  What a step does to operands, values and   *)
(* descriptors does not matter; Like says so, and Effect lists what is     *)
(* left of a step then.                                                    *)
(***************************************************************************)
EXTENDS Vm, TLAPS, SequenceTheorems, WellFoundedInduction

-----------------------------------------------------------------------------
(* Sequences of anything.                                                  *)

IsSeq(s) == s \in Seq({s[i] : i \in DOMAIN s})

LEMMA SeqIntro ==
    ASSUME NEW S, NEW s \in Seq(S)
    PROVE  IsSeq(s)
<1>1. Len(s) \in Nat /\ DOMAIN s = 1..Len(s) /\ s = [i \in 1..Len(s) |-> s[i]]
  OBVIOUS
<1> QED BY <1>1 DEF IsSeq

LEMMA SeqFacts ==
    ASSUME NEW s, IsSeq(s)
    PROVE  Len(s) \in Nat /\ DOMAIN s = 1..Len(s)
BY DEF IsSeq

\* A function on 1 .. n is a sequence.
LEMMA FunIsSeq ==
    ASSUME NEW s, NEW n \in Nat, DOMAIN s = 1..n, s = [i \in DOMAIN s |-> s[i]]
    PROVE  IsSeq(s) /\ Len(s) = n
<1> DEFINE S == {s[i] : i \in DOMAIN s}
<1>1. s \in [1..n -> S]
  OBVIOUS
<1>2. s \in Seq(S)
  BY <1>1
<1> QED BY <1>2 DEF IsSeq

LEMMA SeqExcept ==
    ASSUME NEW s, IsSeq(s), NEW k, NEW x
    PROVE  IsSeq([s EXCEPT ![k] = x]) /\ Len([s EXCEPT ![k] = x]) = Len(s)
<1> DEFINE t == [s EXCEPT ![k] = x]
<1>1. Len(s) \in Nat /\ DOMAIN s = 1..Len(s)
  BY SeqFacts
<1>2. DOMAIN t = 1..Len(s) /\ t = [i \in DOMAIN t |-> t[i]]
  BY <1>1
<1> HIDE DEF t
<1>3. IsSeq(t) /\ Len(t) = Len(s)
  BY <1>1, <1>2, FunIsSeq
<1> QED BY <1>3 DEF t

LEMMA SeqAppend ==
    ASSUME NEW s, IsSeq(s), NEW x
    PROVE  /\ IsSeq(Append(s, x)) /\ Len(Append(s, x)) = Len(s) + 1
           /\ \A i \in 1..Len(s) : Append(s, x)[i] = s[i]
           /\ Append(s, x)[Len(s) + 1] = x
<1> DEFINE S == {s[i] : i \in DOMAIN s} \cup {x}
<1>1. s \in Seq(S) /\ x \in S
  BY DEF IsSeq
<1> HIDE DEF S
<1>2. Append(s, x) \in Seq(S)
  BY <1>1
<1>3. IsSeq(Append(s, x))
  BY <1>2, SeqIntro
<1>4. /\ Len(Append(s, x)) = Len(s) + 1
      /\ \A i \in 1..Len(s) : Append(s, x)[i] = s[i]
  BY <1>1
<1>5. Append(s, x)[Len(s) + 1] = x
  BY <1>1
<1> QED BY <1>3, <1>4, <1>5

LEMMA SeqCat ==
    ASSUME NEW s, IsSeq(s), NEW t, IsSeq(t)
    PROVE  /\ IsSeq(s \o t) /\ Len(s \o t) = Len(s) + Len(t)
           /\ \A i \in 1..Len(s) : (s \o t)[i] = s[i]
           /\ \A i \in 1..Len(t) : (s \o t)[Len(s) + i] = t[i]
<1> DEFINE S == {s[i] : i \in DOMAIN s} \cup {t[i] : i \in DOMAIN t}
<1>1. s \in Seq(S) /\ t \in Seq(S)
  BY DEF IsSeq
<1> HIDE DEF S
<1>2. s \o t \in Seq(S)
  BY <1>1
<1>3. IsSeq(s \o t)
  BY <1>2, SeqIntro
<1>4. Len(s \o t) = Len(s) + Len(t)
  BY <1>1
<1>5. \A i \in 1..Len(s) : (s \o t)[i] = s[i]
  BY <1>1
<1>6. \A i \in 1..Len(t) : (s \o t)[Len(s) + i] = t[i]
  BY <1>1
<1> QED BY <1>3, <1>4, <1>5, <1>6

LEMMA SeqOne ==
    ASSUME NEW x
    PROVE  IsSeq(<<x>>) /\ Len(<<x>>) = 1 /\ <<x>>[1] = x
BY <<x>> \in Seq({x}), SeqIntro

LEMMA SeqTail ==
    ASSUME NEW s, IsSeq(s), Len(s) > 0
    PROVE  IsSeq(Tail(s)) /\ Len(Tail(s)) = Len(s) - 1
<1> DEFINE S == {s[i] : i \in DOMAIN s}
<1>1. s \in Seq(S) /\ s # <<>>
  BY DEF IsSeq
<1> HIDE DEF S
<1>2. Tail(s) \in Seq(S) /\ Len(Tail(s)) = Len(s) - 1
  BY <1>1
<1> QED BY <1>2, SeqIntro

LEMMA SeqFront ==
    ASSUME NEW s, IsSeq(s), Len(s) > 0
    PROVE  /\ IsSeq(Front(s)) /\ Len(Front(s)) = Len(s) - 1
           /\ \A i \in 1..Len(s) - 1 : Front(s)[i] = s[i]
           /\ Last(s) = s[Len(s)]
<1> DEFINE S == {s[i] : i \in DOMAIN s}
<1>1. s \in Seq(S) /\ Len(s) \in Nat
  BY DEF IsSeq
<1> HIDE DEF S
<1>2. SubSeq(s, 1, Len(s) - 1) \in Seq(S)
  BY <1>1
<1>3. Len(SubSeq(s, 1, Len(s) - 1)) = Len(s) - 1
  <2>1. PICK n \in Nat : Len(s) = n + 1
    BY <1>1
  <2>2. \A i \in 1..n : s[i] \in S
    BY <1>1, <2>1
  <2>3. Len(SubSeq(s, 1, n)) = IF 1 <= n THEN n - 1 + 1 ELSE 0
    BY <2>2, SubSeqProperties
  <2>4. Len(SubSeq(s, 1, n)) = n
    BY <2>3
  <2> QED BY <2>1, <2>4
<1>4. \A i \in 1..Len(s) - 1 : SubSeq(s, 1, Len(s) - 1)[i] = s[i]
  BY <1>1
<1>5. IsSeq(Front(s))
  BY <1>2, SeqIntro DEF Front
<1> QED BY <1>3, <1>4, <1>5 DEF Front, Last

-----------------------------------------------------------------------------
(* What a step does to operands, values, descriptors and the status.       *)

MachineFields ==
    {"ip", "stack", "calls", "redirs", "env", "last", "errexit", "suppressed",
     "halted", "fds", "wait", "seg"}

Machine(v) ==
    /\ DOMAIN v = MachineFields
    /\ v.last \in 0..255 /\ v.suppressed \in Nat
    /\ v.errexit \in BOOLEAN /\ v.halted \in BOOLEAN
    /\ IsSeq(v.env) /\ IsSeq(v.calls) /\ IsSeq(v.redirs)
    /\ Len(v.calls) <= VM_CALL_STACK_MAX
    /\ Len(v.redirs) <= VM_REDIR_STACK_MAX

\* w is v, with the same number of scopes, but for operands, the values of
\* variables, descriptors and status; and it may have ended.
Like(v, w) ==
    /\ Machine(w)
    /\ w.ip = v.ip /\ w.calls = v.calls /\ w.wait = v.wait /\ w.seg = v.seg
    /\ w.suppressed = v.suppressed
    /\ Len(w.env) = Len(v.env)

LEMMA LikeThrough ==
    ASSUME NEW u, NEW v, NEW w, Like(u, v), Like(v, w)
    PROVE  Like(u, w)
BY DEF Like

LEMMA LikeStack ==
    ASSUME NEW v, Machine(v), NEW x
    PROVE  Like(v, [v EXCEPT !.stack = x])
BY DEF Like, Machine, MachineFields

LEMMA LikePush ==
    ASSUME NEW v, Machine(v), NEW x
    PROVE  Like(v, Push(v, x)) /\ Like(v, PushAll(v, x)) /\ Like(v, Pop(v, x))
BY LikeStack DEF Push, PushAll, Pop

LEMMA LikeLast ==
    ASSUME NEW v, Machine(v), NEW x \in 0..255
    PROVE  Like(v, [v EXCEPT !.last = x])
BY DEF Like, Machine, MachineFields

LEMMA LikeOnlyLast ==
    ASSUME NEW v, Machine(v)
    PROVE  Like(v, [v EXCEPT !.last = 0]) /\ Like(v, [v EXCEPT !.last = 1])
<1>1. 0 \in 0..255 /\ 1 \in 0..255
  OBVIOUS
<1> QED BY <1>1, LikeLast

LEMMA LikeStatus ==
    ASSUME NEW v, Machine(v), NEW ok
    PROVE  Like(v, Status(v, ok))
<1>1. (IF ok THEN 0 ELSE 1) \in 0..255
  OBVIOUS
<1> QED BY <1>1, LikeLast DEF Status

LEMMA LikeHalted ==
    ASSUME NEW v, Machine(v), NEW x \in 0..255
    PROVE  /\ Like(v, [v EXCEPT !.halted = TRUE])
           /\ Like(v, [v EXCEPT !.last = x, !.halted = TRUE])
           /\ Like(v, vm_exit(v, x))
BY DEF Like, Machine, MachineFields, vm_exit

LEMMA LikeFlag ==
    ASSUME NEW v, Machine(v), NEW b \in BOOLEAN
    PROVE  Like(v, [v EXCEPT !.errexit = b])
BY DEF Like, Machine, MachineFields

LEMMA LikeEnv ==
    ASSUME NEW v, Machine(v), NEW e, IsSeq(e), Len(e) = Len(v.env)
    PROVE  Like(v, [v EXCEPT !.env = e])
BY DEF Like, Machine, MachineFields

LEMMA LikeFds ==
    ASSUME NEW v, Machine(v), NEW f
    PROVE  Like(v, [v EXCEPT !.fds = f])
BY DEF Like, Machine, MachineFields

LEMMA LikeRedirs ==
    ASSUME NEW v, Machine(v), NEW r, IsSeq(r), Len(r) <= VM_REDIR_STACK_MAX
    PROVE  Like(v, [v EXCEPT !.redirs = r])
BY DEF Like, Machine, MachineFields

LEMMA LikeErrexit ==
    ASSUME NEW v, Machine(v), NEW op
    PROVE  Like(v, Errexit(op, v))
<1>1. Like(v, v) /\ v.last \in 0..255
  BY DEF Like, Machine
<1>2. Like(v, vm_exit(v, v.last))
  BY <1>1, LikeHalted
<1> QED BY <1>1, <1>2 DEF Errexit

-----------------------------------------------------------------------------
(* Scopes: none is lost or added by reading and writing variables.         *)

SameScopes(e, f) == IsSeq(f) /\ Len(f) = Len(e)

LEMMA SetInScopes ==
    ASSUME NEW e, IsSeq(e), NEW i, NEW name, NEW s
    PROVE  SameScopes(e, SetIn(e, i, name, s))
BY SeqExcept DEF SetIn, SameScopes

LEMMA AssignScopes ==
    ASSUME NEW e, IsSeq(e), NEW name, NEW s
    PROVE  /\ SameScopes(e, environ_assign(e, name, s))
           /\ SameScopes(e, environ_set(e, name, s))
BY SetInScopes DEF environ_assign, environ_set

LEMMA UnsetScopes ==
    ASSUME NEW e, IsSeq(e), NEW names
    PROVE  SameScopes(e, Unset(e, names))
<1> DEFINE f == Unset(e, names)
<1>1. Len(e) \in Nat /\ DOMAIN e = 1..Len(e)
  BY SeqFacts
<1>2. DOMAIN f = 1..Len(e) /\ f = [i \in DOMAIN f |-> f[i]]
  BY <1>1 DEF Unset
<1> HIDE DEF f
<1>3. IsSeq(f) /\ Len(f) = Len(e)
  BY <1>1, <1>2, FunIsSeq
<1> QED BY <1>3 DEF SameScopes, f

LEMMA ArgsScopes ==
    ASSUME NEW e, IsSeq(e), NEW args
    PROVE  SameScopes(e, vm_set_args(e, args))
BY SeqExcept DEF vm_set_args, SameScopes

-----------------------------------------------------------------------------
(* Descriptors and builtins.                                               *)

LEMMA LikeSaveFd ==
    ASSUME NEW v, Machine(v), NEW fd, NEW closed
    PROVE  Like(v, SaveFd(v, fd, closed))
<1> DEFINE n == Len(v.redirs)
           e == [fd |-> fd, saved |-> v.fds[fd]]
           r == [v.redirs EXCEPT ![n] = Append(@, e)]
<1>1. IsSeq(r) /\ Len(r) = Len(v.redirs)
  BY SeqExcept DEF Machine
<1>2. Like(v, [v EXCEPT !.redirs = r])
  BY <1>1, LikeRedirs DEF Machine
<1>3. [v EXCEPT !.redirs = r] = [v EXCEPT !.redirs[n] = Append(@, e)]
  OBVIOUS
<1>4. Like(v, v)
  BY DEF Like
<1> QED BY <1>2, <1>3, <1>4 DEF SaveFd

LEMMA LikeSet ==
    ASSUME NEW v, Machine(v), NEW args
    PROVE  Like(v, builtin_set(v, args))
<1> DEFINE dash  == SelectInSeq(args, LAMBDA a : a = <<"--">>)
           opts  == {i \in DOMAIN args : /\ dash = 0 \/ i < dash
                                         /\ args[i] \in {<<"-e">>, <<"+e">>}}
           flags == IF opts = {} THEN v
                    ELSE [v EXCEPT !.errexit = (args[Max(opts)] = <<"-e">>)]
           given == SubSeq(args, dash + 1, Len(args))
           env   == environ_assign(vm_set_args(UnsetArgs(flags.env, 1), given),
                                   "OPTIND", <<"1">>)
<1>1. Like(v, v) /\ Like(v, [v EXCEPT !.errexit = (args[Max(opts)] = <<"-e">>)])
  BY LikeFlag DEF Like
<1>2. Like(v, flags)
  BY <1>1
<1>3. builtin_set(v, args) = IF dash = 0 THEN flags ELSE [flags EXCEPT !.env = env]
  BY DEF builtin_set
<1> HIDE DEF flags, dash, given
<1>4. SameScopes(flags.env, env)
  <2>1. IsSeq(flags.env)
    BY <1>2 DEF Like, Machine
  <2>2. SameScopes(flags.env, UnsetArgs(flags.env, 1))
    BY <2>1, UnsetScopes DEF UnsetArgs
  <2>3. SameScopes(UnsetArgs(flags.env, 1), vm_set_args(UnsetArgs(flags.env, 1), given))
    BY <2>2, ArgsScopes DEF SameScopes
  <2>4. SameScopes(vm_set_args(UnsetArgs(flags.env, 1), given), env)
    BY <2>3, AssignScopes DEF SameScopes
  <2> QED BY <2>2, <2>3, <2>4 DEF SameScopes
<1>5. Like(flags, [flags EXCEPT !.env = env])
  BY <1>2, <1>4, LikeEnv DEF Like, SameScopes
<1> QED BY <1>2, <1>3, <1>5, LikeThrough

LEMMA LikeShift ==
    ASSUME NEW v, Machine(v)
    PROVE  Like(v, builtin_shift(v))
<1> DEFINE down == vm_set_args(v.env, Tail(PositionalArgs(v.env)))
           env  == environ_unset(down, ToString(ArgCount(v.env)))
<1>1. SameScopes(v.env, down)
  BY ArgsScopes DEF Machine
<1>2. SameScopes(v.env, env)
  BY <1>1, UnsetScopes DEF environ_unset, SameScopes
<1> HIDE DEF env
<1>3. Like(v, [v EXCEPT !.env = env]) /\ Like(v, [v EXCEPT !.last = 1])
  <2>1. Like(v, [v EXCEPT !.env = env])
    BY <1>2, LikeEnv DEF SameScopes
  <2> QED BY <2>1, LikeOnlyLast
<1>4. Like([v EXCEPT !.env = env], [[v EXCEPT !.env = env] EXCEPT !.last = 0])
  <2>1. Machine([v EXCEPT !.env = env])
    BY <1>3 DEF Like
  <2> QED BY <2>1, LikeOnlyLast
<1>5. [[v EXCEPT !.env = env] EXCEPT !.last = 0] = [v EXCEPT !.env = env, !.last = 0]
  OBVIOUS
<1>6. Like(v, [v EXCEPT !.env = env, !.last = 0])
  BY <1>3, <1>4, <1>5, LikeThrough
<1> QED BY <1>3, <1>6 DEF builtin_shift, env

LEMMA LikeLocal ==
    ASSUME NEW v, Machine(v), NEW args
    PROVE  Like(v, builtin_local(v, args))
<1> DEFINE new == [x \in {args[i][1] : i \in DOMAIN args} |-> <<>>]
           e   == [v.env EXCEPT ![1] = new @@ @]
<1>1. IsSeq(e) /\ Len(e) = Len(v.env)
  BY SeqExcept DEF Machine
<1>2. Like(v, [v EXCEPT !.env = e])
  BY <1>1, LikeEnv
<1>3. [v EXCEPT !.env = e] = [v EXCEPT !.env[1] = new @@ @]
  OBVIOUS
<1> QED BY <1>2, <1>3 DEF builtin_local

\* An exit status is a byte.
LEMMA StatusOf ==
    ASSUME NEW args
    PROVE  Code1(args) \in 0..255
<1>1. \A a : AtomNumber(a) \in 0..255
  <2> TAKE a
  <2> DEFINE N == {n \in 0..255 : ToString(n) = a}
  <2>1. CASE N = {}
    <3>1. AtomNumber(a) = 0
      BY <2>1 DEF AtomNumber
    <3>2. 0 \in 0..255
      OBVIOUS
    <3> QED BY <3>1, <3>2
  <2>2. CASE N # {}
    <3>1. (CHOOSE n \in N : TRUE) \in N
      BY <2>2
    <3>2. AtomNumber(a) = CHOOSE n \in N : TRUE
      BY <2>2 DEF AtomNumber
    <3>3. \A n \in N : n \in 0..255
      OBVIOUS
    <3> HIDE DEF N
    <3> QED BY <3>1, <3>2, <3>3
  <2> QED BY <2>1, <2>2
<1> QED BY <1>1 DEF Code1, Integer

\* Every builtin but return goes on behind its instruction.
LEMMA LikeBuiltin ==
    ASSUME NEW v, Machine(v), NEW name \in Builtins \ {"return"}, NEW args
    PROVE  Like(v, Builtin(v, name, args))
<1> DEFINE done == [v EXCEPT !.last = 0]
<1>1. Like(v, done) /\ Like(v, [v EXCEPT !.last = 1]) /\ Like(v, vm_exit(v, Code1(args)))
  <2>1. Like(v, vm_exit(v, Code1(args)))
    BY LikeHalted, StatusOf
  <2> QED BY <2>1, LikeOnlyLast
<1>2. Like(v, builtin_set(done, args)) /\ Like(v, builtin_local(done, args))
  <2>1. Machine(done)
    BY <1>1 DEF Like
  <2> HIDE DEF done
  <2> QED BY <1>1, <2>1, LikeSet, LikeLocal, LikeThrough
<1>3. Like(v, builtin_shift(v))
  BY LikeShift
<1> QED BY <1>1, <1>2, <1>3 DEF Builtin, Builtins

-----------------------------------------------------------------------------
(* What is left of a step: where a machine v goes from its instruction,    *)
(* and what becomes of its frames, scopes and contexts.                    *)

LevelOps == {"PUSH_SCOPE", "POP_SCOPE", "ERREXIT_PUSH", "ERREXIT_POP"}

\* On to the next instruction or to the target of a jump.
Flows(img, v, w) ==
    LET ins == img.code[v.ip]
    IN  /\ ins.op \notin LevelOps
        /\ \E t : /\ t \in Targets(ins) \/ (Falls(ins) /\ t = v.ip + 1)
                  /\ Like([v EXCEPT !.ip = t], w)

\* A scope or a context is opened or closed.
Turns(img, v, w) ==
    LET op == img.code[v.ip].op
        u  == [v EXCEPT !.ip = @ + 1]
    IN  \/ op = "PUSH_SCOPE" /\ Like([u EXCEPT !.env = <<environ_new>> \o @], w)
        \/ op = "POP_SCOPE" /\ Len(v.env) = 1 /\ w.halted /\ Like(u, w)
        \/ op = "POP_SCOPE" /\ Len(v.env) # 1 /\ Like([u EXCEPT !.env = Tail(@)], w)
        \/ op = "ERREXIT_PUSH" /\ Like([u EXCEPT !.suppressed = @ + 1], w)
        \/ op = "ERREXIT_POP"
           /\ Like([u EXCEPT !.suppressed = IF @ > 0 THEN @ - 1 ELSE 0], w)

\* The machine ends.
Ends(img, v, w) ==
    LET op == img.code[v.ip].op
    IN  /\ op = "HALT" \/ (op = "RET" /\ v.calls = <<>>)
        /\ w.halted
        /\ Like([v EXCEPT !.ip = @ + 1], w)

\* A function is called: a frame and a scope more.
Calls(img, v, w) ==
    /\ img.code[v.ip].op \in {"EXEC_FUNC", "EXEC_SIMPLE"}
    /\ Machine(w) /\ w.wait = v.wait /\ w.seg = v.seg /\ w.suppressed = v.suppressed
    /\ w.ip \in FunctionStarts(img)
    /\ \E frame : /\ w.calls = Append(v.calls, frame)
                  /\ frame.return_ip = v.ip + 1
                  /\ frame.saved_env = Len(v.env)
    /\ Len(w.env) = Len(v.env) + 1

\* What a return does to a machine, wherever it stands.
Returned(v, w) ==
    /\ Machine(w) /\ w.wait = v.wait /\ w.seg = v.seg /\ w.suppressed = v.suppressed
    /\ w.ip = Last(v.calls).return_ip
    /\ w.calls = Front(v.calls)
    /\ Len(w.env) = Len(v.env) - 1

\* The innermost call returns (named: by EXEC_SIMPLE).
Returns(img, v, w, named) ==
    LET ins == img.code[v.ip]
    IN  /\ \/ ins.op = "RET"
           \/ ins.op = "EXEC_BUILTIN" /\ ins.name = "return"
           \/ ins.op = "EXEC_SIMPLE" /\ named
        /\ v.calls # <<>>
        /\ Returned(v, w)

Effect(img, v, w, named) ==
    \/ Flows(img, v, w) \/ Turns(img, v, w) \/ Ends(img, v, w)
    \/ Calls(img, v, w) \/ Returns(img, v, w, named)

\* Machine p alone takes a step.
Stepped(p) ==
    \E w : /\ procs' = [procs EXCEPT ![p] = w]
           /\ Effect(Loaded[prog], procs[p], w, ReturnsByName(p))

LEMMA FetchedMachine ==
    ASSUME NEW p, Machine(procs[p])
    PROVE  Machine(Fetched(p)) /\ Like(Fetched(p), Fetched(p))
BY DEF Fetched, Machine, MachineFields, Like

LEMMA PlainStep ==
    ASSUME NEW p, NEW op, op \notin {"HALT", "RET", "JMP"} \cup LevelOps,
           NEW n, At(p, op, n), NEW u, Like(Fetched(p), u), Put(p, u)
    PROVE  Stepped(p)
<1> DEFINE w == Errexit(Ins(p).op, u)
<1>1. Like(Fetched(p), w)
  BY LikeErrexit, LikeThrough DEF Like
<1>2. Fetched(p) = [procs[p] EXCEPT !.ip = procs[p].ip + 1]
  BY DEF Fetched
<1>3. Ins(p).op = op /\ Falls(Ins(p)) /\ Ins(p) = Loaded[prog].code[procs[p].ip]
  BY DEF At, Falls, Ins, Code
<1>4. procs' = [procs EXCEPT ![p] = w]
  BY DEF Put
<1> HIDE DEF w
<1>5. Flows(Loaded[prog], procs[p], w)
  BY <1>1, <1>2, <1>3 DEF Flows
<1> QED BY <1>4, <1>5 DEF Stepped, Effect

LEMMA OperandSteps ==
    ASSUME NEW p, Machine(procs[p]),
           \/ OP_PUSH_CONST(p) \/ OP_PUSH_INT(p) \/ OP_POP(p) \/ OP_DUP(p)
           \/ OP_CONCAT(p) \/ OP_GET_SPECIAL(p) \/ OP_SPLIT_FIELDS(p)
           \/ OP_EXPAND_ARGS(p) \/ OP_COLLECT_WORDS(p)
           \/ OP_GET_VAR(p) \/ OP_GET_LOCAL(p) \/ OP_EXPORT(p)
    PROVE  Stepped(p)
<1> DEFINE f == Fetched(p)
<1>1. Machine(f) /\ Like(f, f)
  BY FetchedMachine
<1> HIDE DEF f
<1>2. \A x : Like(f, Push(f, x)) /\ Like(f, Pop(f, x))
  BY <1>1, LikePush
<1>3. \A x, y : Like(f, Push(Pop(f, x), y))
  BY <1>2, LikePush, LikeThrough DEF Like
<1>4. \A x : Like(f, PushGroup(f, x))
  BY <1>1, LikePush, LikeThrough DEF Like, PushGroup
<1>5. \A x, y : Like(f, PushGroup(Pop(f, x), y))
  BY <1>2, LikePush, LikeThrough DEF Like, PushGroup
<1>6. CASE OP_PUSH_CONST(p)
  BY <1>2, <1>6, PlainStep DEF OP_PUSH_CONST, Only, LevelOps, f
<1>7. CASE OP_PUSH_INT(p)
  BY <1>2, <1>7, PlainStep DEF OP_PUSH_INT, Only, LevelOps, f
<1>8. CASE OP_POP(p)
  BY <1>2, <1>8, PlainStep DEF OP_POP, Only, LevelOps, f
<1>9. CASE OP_DUP(p)
  BY <1>2, <1>9, PlainStep DEF OP_DUP, Only, LevelOps, f
<1>10. CASE OP_CONCAT(p)
  BY <1>3, <1>10, PlainStep DEF OP_CONCAT, Only, LevelOps, f
<1>11. CASE OP_GET_SPECIAL(p)
  BY <1>2, <1>11, PlainStep DEF OP_GET_SPECIAL, Only, LevelOps, f
<1>12. CASE OP_SPLIT_FIELDS(p)
  BY <1>5, <1>12, PlainStep DEF OP_SPLIT_FIELDS, Only, LevelOps, f
<1>13. CASE OP_EXPAND_ARGS(p)
  BY <1>4, <1>13, PlainStep DEF OP_EXPAND_ARGS, Only, LevelOps, f
<1>14. CASE OP_COLLECT_WORDS(p)
  <2>1. \A x, y : Like(f, [Pop(f, x) EXCEPT !.stack = y])
    <3> TAKE x, y
    <3>1. Machine(Pop(f, x))
      BY <1>2 DEF Like
    <3>2. Like(Pop(f, x), [Pop(f, x) EXCEPT !.stack = y])
      BY <3>1, LikeStack
    <3> QED BY <1>2, <3>2, LikeThrough
  <2> QED BY <2>1, <1>14, PlainStep DEF OP_COLLECT_WORDS, Only, LevelOps, f
<1>15. CASE OP_GET_VAR(p)
  BY <1>2, <1>15, PlainStep DEF OP_GET_VAR, Only, LevelOps, f
<1>16. CASE OP_GET_LOCAL(p)
  BY <1>2, <1>16, PlainStep DEF OP_GET_LOCAL, Only, LevelOps, f
<1>17. CASE OP_EXPORT(p)
  BY <1>1, <1>17, PlainStep DEF OP_EXPORT, Only, LevelOps, f
<1> QED BY <1>6, <1>7, <1>8, <1>9, <1>10, <1>11, <1>12, <1>13, <1>14, <1>15, <1>16, <1>17

LEMMA JumpStep ==
    ASSUME NEW p,
           NEW op \in {"JMP", "JMP_TRUE", "JMP_FALSE", "JMP_NONE"}, NEW n, At(p, op, n),
           NEW u, Like([procs[p] EXCEPT !.ip = Ins(p).to], u), Put(p, u)
    PROVE  Stepped(p)
<1> DEFINE w == Errexit(Ins(p).op, u)
<1>1. Like([procs[p] EXCEPT !.ip = Ins(p).to], w)
  BY LikeErrexit, LikeThrough DEF Like
<1>2. /\ Ins(p).op \notin LevelOps /\ Ins(p).to \in Targets(Ins(p))
      /\ Ins(p) = Loaded[prog].code[procs[p].ip]
  BY DEF At, Targets, Ins, Code, LevelOps
<1>3. procs' = [procs EXCEPT ![p] = w]
  BY DEF Put
<1> HIDE DEF w
<1>4. Flows(Loaded[prog], procs[p], w)
  BY <1>1, <1>2 DEF Flows
<1> QED BY <1>3, <1>4 DEF Stepped, Effect

LEMMA JumpSteps ==
    ASSUME NEW p, Machine(procs[p]),
           OP_JMP(p) \/ OP_JMP_TRUE(p) \/ OP_JMP_FALSE(p) \/ OP_JMP_NONE(p)
    PROVE  Stepped(p)
<1> DEFINE v == procs[p]
           f == Fetched(p)
           j == [procs[p] EXCEPT !.ip = Ins(p).to]
<1>1. Machine(f) /\ Like(f, f)
  BY FetchedMachine
<1>2. Machine(j) /\ Like(j, j) /\ vm_jump(v, Ins(p).to) = j
  BY DEF Machine, MachineFields, Like, vm_jump
<1>3. Like(f, Pop(f, 1))
  BY <1>1, LikePush
<1>4. Like(j, vm_jump(Pop(v, 1), Ins(p).to))
  BY DEF Machine, MachineFields, Like, vm_jump, Pop
<1> HIDE DEF f, j
<1>5. CASE OP_JMP(p)
  BY <1>2, <1>5, JumpStep DEF OP_JMP, Only, j
<1>6. CASE OP_JMP_TRUE(p)
  <2>1. At(p, "JMP_TRUE", 0) /\ (Put(p, j) \/ Put(p, f))
    BY <1>2, <1>6 DEF OP_JMP_TRUE, Only, f
  <2>2. CASE Put(p, j)
    BY <1>2, <2>1, <2>2, JumpStep DEF j
  <2>3. CASE Put(p, f)
    BY <1>1, <2>1, <2>3, PlainStep DEF LevelOps, f
  <2> QED BY <2>1, <2>2, <2>3
<1>7. CASE OP_JMP_FALSE(p)
  <2>1. At(p, "JMP_FALSE", 0) /\ (Put(p, j) \/ Put(p, f))
    BY <1>2, <1>7 DEF OP_JMP_FALSE, Only, f
  <2>2. CASE Put(p, j)
    BY <1>2, <2>1, <2>2, JumpStep DEF j
  <2>3. CASE Put(p, f)
    BY <1>1, <2>1, <2>3, PlainStep DEF LevelOps, f
  <2> QED BY <2>1, <2>2, <2>3
<1>8. CASE OP_JMP_NONE(p)
  <2>1. /\ At(p, "JMP_NONE", 1)
        /\ Put(p, vm_jump(Pop(v, 1), Ins(p).to)) \/ Put(p, Pop(f, 1))
    BY <1>8 DEF OP_JMP_NONE, Only, f
  <2>2. CASE Put(p, vm_jump(Pop(v, 1), Ins(p).to))
    BY <1>4, <2>1, <2>2, JumpStep DEF j
  <2>3. CASE Put(p, Pop(f, 1))
    BY <1>3, <2>1, <2>3, PlainStep DEF LevelOps, f
  <2> QED BY <2>1, <2>2, <2>3
<1> QED BY <1>5, <1>6, <1>7, <1>8

LEMMA ValueSteps ==
    ASSUME NEW p, Machine(procs[p]),
           \/ OP_SET_VAR(p) \/ OP_SET_LOCAL(p) \/ OP_INIT_ITER(p) \/ OP_GET_NEXT_ITER(p)
           \/ OP_TEST_UNARY(p) \/ OP_TEST_BINARY(p) \/ OP_PATTERN_MATCH(p)
           \/ OP_NEGATE_STATUS(p) \/ OP_STATUS_ZERO(p)
    PROVE  Stepped(p)
<1> DEFINE f == Fetched(p)
<1>1. Machine(f) /\ Like(f, f)
  BY FetchedMachine
<1> HIDE DEF f
<1>2. \A x : Machine(Pop(f, x)) /\ Like(f, Pop(f, x)) /\ Like(f, Push(f, x))
  BY <1>1, LikePush DEF Like
<1>3. \A x, y : Machine(Push(Pop(f, x), y)) /\ Like(f, Push(Pop(f, x), y))
  BY <1>2, LikePush, LikeThrough DEF Like
<1>4. \A x, y, z : Like(f, Push(Push(Pop(f, x), y), z))
  BY <1>3, LikePush, LikeThrough
<1>5. \A x, ok : Like(f, Status(Pop(f, x), ok)) /\ Like(f, Status(f, ok))
  BY <1>1, <1>2, LikeStatus, LikeThrough
<1>6. \A x, name, s :
        /\ Like(f, [Pop(f, x) EXCEPT !.env = environ_assign(@, name, s)])
        /\ Like(f, [Pop(f, x) EXCEPT !.env = environ_set(@, name, s)])
  <2> TAKE x, name, s
  <2> DEFINE g == Pop(f, x)
  <2>1. Machine(g) /\ Like(f, g)
    BY <1>2
  <2> HIDE DEF g
  <2>2. /\ SameScopes(g.env, environ_assign(g.env, name, s))
        /\ SameScopes(g.env, environ_set(g.env, name, s))
    BY <2>1, AssignScopes DEF Machine
  <2>3. Like(g, [g EXCEPT !.env = environ_assign(g.env, name, s)])
    BY <2>1, <2>2, LikeEnv DEF SameScopes
  <2>4. Like(g, [g EXCEPT !.env = environ_set(g.env, name, s)])
    BY <2>1, <2>2, LikeEnv DEF SameScopes
  <2>5. /\ Like(f, [g EXCEPT !.env = environ_assign(g.env, name, s)])
        /\ Like(f, [g EXCEPT !.env = environ_set(g.env, name, s)])
    BY <2>1, <2>3, <2>4, LikeThrough
  <2> QED BY <2>5 DEF g
<1>7. CASE OP_SET_VAR(p)
  BY <1>6, <1>7, PlainStep DEF OP_SET_VAR, Only, LevelOps, f
<1>8. CASE OP_SET_LOCAL(p)
  BY <1>6, <1>8, PlainStep DEF OP_SET_LOCAL, Only, LevelOps, f
<1>9. CASE OP_INIT_ITER(p)
  BY <1>3, <1>9, PlainStep DEF OP_INIT_ITER, Only, LevelOps, f
<1>10. CASE OP_GET_NEXT_ITER(p)
  <2> DEFINE it == Top(procs[p], 0)
             u  == IF it.elems = <<>> THEN Push(f, VNone)
                   ELSE Push(Push(Pop(f, 1), [it EXCEPT !.elems = Tail(@)]),
                             Head(it.elems))
  <2>1. At(p, "GET_NEXT_ITER", 1) /\ Put(p, u)
    BY <1>10 DEF OP_GET_NEXT_ITER, Only, f
  <2>2. Like(f, u)
    BY <1>2, <1>4
  <2> HIDE DEF u
  <2> QED BY <2>1, <2>2, PlainStep DEF LevelOps, f
<1>11. CASE OP_TEST_UNARY(p)
  BY <1>5, <1>11, PlainStep DEF OP_TEST_UNARY, Only, LevelOps, f
<1>12. CASE OP_TEST_BINARY(p)
  BY <1>5, <1>12, PlainStep DEF OP_TEST_BINARY, Only, LevelOps, f
<1>13. CASE OP_PATTERN_MATCH(p)
  BY <1>5, <1>13, PlainStep DEF OP_PATTERN_MATCH, Only, LevelOps, f
<1>14. CASE OP_NEGATE_STATUS(p)
  BY <1>5, <1>14, PlainStep DEF OP_NEGATE_STATUS, Only, LevelOps, f
<1>15. CASE OP_STATUS_ZERO(p)
  BY <1>5, <1>15, PlainStep DEF OP_STATUS_ZERO, Only, LevelOps, f
<1> QED BY <1>7, <1>8, <1>9, <1>10, <1>11, <1>12, <1>13, <1>14, <1>15

LEMMA RedirSteps ==
    ASSUME NEW p, Machine(procs[p]),
           \/ OP_REDIR_SAVE(p) \/ OP_REDIR_RESTORE(p) \/ OP_REDIR_OPEN(p)
           \/ OP_REDIR_DUP(p) \/ OP_REDIR_CLOSE(p) \/ OP_REDIR_HERE(p)
    PROVE  Stepped(p)
<1> DEFINE f == Fetched(p)
<1>1. Machine(f) /\ Like(f, f) /\ f.redirs = procs[p].redirs
  BY FetchedMachine DEF Fetched, Machine, MachineFields
<1> HIDE DEF f
<1>2. \A x : Machine(Pop(f, x)) /\ Like(f, Pop(f, x))
  BY <1>1, LikePush DEF Like
<1>3. \A u, fd, closed, k, file :
        Machine(u) /\ Like(f, u)
          => /\ Like(f, SaveFd(u, fd, closed))
             /\ Like(f, [SaveFd(u, fd, closed) EXCEPT !.fds[k] = file])
  <2> TAKE u, fd, closed, k, file
  <2> HAVE Machine(u) /\ Like(f, u)
  <2> DEFINE g == SaveFd(u, fd, closed)
  <2>1. Like(u, g)
    BY LikeSaveFd
  <2> HIDE DEF g
  <2>2. Like(g, [g EXCEPT !.fds = [g.fds EXCEPT ![k] = file]])
    BY <2>1, LikeFds DEF Like
  <2>3. [g EXCEPT !.fds = [g.fds EXCEPT ![k] = file]] = [g EXCEPT !.fds[k] = file]
    OBVIOUS
  <2>4. Like(f, g) /\ Like(f, [g EXCEPT !.fds[k] = file])
    BY <2>1, <2>2, <2>3, LikeThrough
  <2> QED BY <2>4 DEF g
<1>4. CASE OP_REDIR_SAVE(p)
  <2> DEFINE u == IF Len(procs[p].redirs) >= VM_REDIR_STACK_MAX
                  THEN [f EXCEPT !.last = 1, !.halted = TRUE]
                  ELSE [f EXCEPT !.redirs = Append(@, <<>>)]
  <2>1. At(p, "REDIR_SAVE", 0) /\ Put(p, u)
    BY <1>4 DEF OP_REDIR_SAVE, Only, f
  <2>2. Like(f, [f EXCEPT !.last = 1, !.halted = TRUE])
    <3>1. 1 \in 0..255
      OBVIOUS
    <3> QED BY <1>1, <3>1, LikeHalted
  <2>3. CASE Len(f.redirs) < VM_REDIR_STACK_MAX
    <3>1. /\ IsSeq(Append(f.redirs, <<>>)) /\ Len(f.redirs) \in Nat
          /\ Len(Append(f.redirs, <<>>)) = Len(f.redirs) + 1
      BY <1>1, SeqAppend, SeqFacts DEF Machine
    <3>2. Len(f.redirs) + 1 <= VM_REDIR_STACK_MAX
      BY <2>3, <3>1, VmAssumption
    <3>3. Like(f, [f EXCEPT !.redirs = Append(f.redirs, <<>>)])
      BY <1>1, <3>1, <3>2, LikeRedirs
    <3>4. Like(f, u)
      BY <2>2, <3>3
    <3> HIDE DEF u
    <3> QED BY <2>1, <3>4, PlainStep DEF LevelOps, f
  <2>4. CASE ~(Len(f.redirs) < VM_REDIR_STACK_MAX)
    <3>1. Len(f.redirs) \in Nat
      BY <1>1, SeqFacts DEF Machine
    <3>2. Len(procs[p].redirs) >= VM_REDIR_STACK_MAX
      BY <1>1, <2>4, <3>1, VmAssumption
    <3>3. Like(f, u)
      BY <2>2, <3>2
    <3> HIDE DEF u
    <3> QED BY <2>1, <3>3, PlainStep DEF LevelOps, f
  <2> QED BY <2>3, <2>4
<1>5. CASE OP_REDIR_RESTORE(p)
  <2> DEFINE frame == Last(procs[p].redirs)
             old == FoldLeft(LAMBDA fds, e : [fds EXCEPT ![e.fd] = e.saved],
                             procs[p].fds, Reverse(frame))
             u == IF procs[p].redirs = <<>> THEN f
                  ELSE [f EXCEPT !.redirs = Front(@), !.fds = old]
  <2>1. At(p, "REDIR_RESTORE", 0) /\ Put(p, u)
    BY <1>5 DEF OP_REDIR_RESTORE, Only, f
  <2> HIDE DEF old
  <2>2. CASE procs[p].redirs = <<>>
    <3>1. Like(f, u)
      BY <1>1, <2>2
    <3> HIDE DEF u
    <3> QED BY <2>1, <3>1, PlainStep DEF LevelOps, f
  <2>3. CASE procs[p].redirs # <<>>
    <3>1. IsSeq(f.redirs) /\ Len(f.redirs) > 0 /\ Len(f.redirs) <= VM_REDIR_STACK_MAX
      BY <1>1, <2>3 DEF Machine, IsSeq
    <3>2. IsSeq(Front(f.redirs)) /\ Len(Front(f.redirs)) <= VM_REDIR_STACK_MAX
      BY <3>1, SeqFront, SeqFacts, VmAssumption
    <3> DEFINE g == [f EXCEPT !.redirs = Front(f.redirs)]
    <3>3. Like(f, g)
      BY <1>1, <3>2, LikeRedirs
    <3>4. Like(g, [g EXCEPT !.fds = old])
      BY <3>3, LikeFds DEF Like
    <3>5. Like(f, [g EXCEPT !.fds = old])
      BY <3>3, <3>4, LikeThrough
    <3>6. [g EXCEPT !.fds = old] = u
      BY <2>3
    <3>7. Like(f, u)
      BY <3>5, <3>6
    <3> HIDE DEF u
    <3> QED BY <2>1, <3>7, PlainStep DEF LevelOps, f
  <2> QED BY <2>2, <2>3
<1>6. CASE OP_REDIR_OPEN(p)
  <2> DEFINE name == Top(procs[p], 0).s
             ok == name # <<>> /\ (Ins(p).rt = "in" => name[1] \in DOMAIN out)
             g == Pop(f, 1)
             u == IF ok THEN [SaveFd(g, Ins(p).fd, FALSE) EXCEPT !.fds[Ins(p).fd] = name[1]]
                  ELSE [g EXCEPT !.last = 1]
  <2>1. At(p, "REDIR_OPEN", 1) /\ Put(p, u)
    BY <1>6 DEF OP_REDIR_OPEN, f
  <2>2. Machine(g) /\ Like(f, g)
    BY <1>2
  <2> HIDE DEF g, name
  <2>3. Like(f, [g EXCEPT !.last = 1])
    BY <2>2, LikeOnlyLast, LikeThrough
  <2>4. Like(f, [SaveFd(g, Ins(p).fd, FALSE) EXCEPT !.fds[Ins(p).fd] = name[1]])
    BY <1>3, <2>2
  <2>5. Like(f, u)
    BY <2>3, <2>4
  <2> HIDE DEF u
  <2> QED BY <2>1, <2>5, PlainStep DEF LevelOps, f
<1>7. CASE OP_REDIR_DUP(p)
  <2> DEFINE from == procs[p].fds[Integer(Top(procs[p], 0).s)]
             g == SaveFd(Pop(f, 1), Ins(p).fd, FALSE)
             u == IF from = "closed" THEN g ELSE [g EXCEPT !.fds[Ins(p).fd] = from]
  <2>1. At(p, "REDIR_DUP", 1) /\ Put(p, u)
    BY <1>7 DEF OP_REDIR_DUP, Only, f
  <2> HIDE DEF from
  <2>2. Like(f, g) /\ Like(f, [g EXCEPT !.fds[Ins(p).fd] = from])
    BY <1>2, <1>3
  <2>3. Like(f, u)
    BY <2>2
  <2> HIDE DEF u
  <2> QED BY <2>1, <2>3, PlainStep DEF LevelOps, f
<1>8. CASE OP_REDIR_CLOSE(p)
  BY <1>1, <1>3, <1>8, PlainStep DEF OP_REDIR_CLOSE, Only, LevelOps, f
<1>9. CASE OP_REDIR_HERE(p)
  BY <1>2, <1>3, <1>9, PlainStep DEF OP_REDIR_HERE, Only, LevelOps, f
<1> QED BY <1>4, <1>5, <1>6, <1>7, <1>8, <1>9

\* A fetched machine differs from the one it was in nothing but ip.
LEMMA FetchedIs ==
    ASSUME NEW p, Machine(procs[p])
    PROVE  LET v == procs[p]
               f == Fetched(p)
           IN  /\ f.ip = v.ip + 1 /\ f.calls = v.calls /\ f.wait = v.wait /\ f.seg = v.seg
               /\ f.suppressed = v.suppressed /\ f.env = v.env /\ f.last = v.last
BY DEF Fetched, Machine, MachineFields

LEMMA TurnSteps ==
    ASSUME NEW p, Machine(procs[p]), Len(procs[p].env) >= 1,
           \/ OP_PUSH_SCOPE(p) \/ OP_POP_SCOPE(p)
           \/ OP_ERREXIT_PUSH(p) \/ OP_ERREXIT_POP(p)
    PROVE  Stepped(p)
<1> DEFINE v == procs[p]
           f == Fetched(p)
           op == Ins(p).op
<1>1. Machine(f) /\ f.env = v.env /\ f.suppressed = v.suppressed /\ f = [v EXCEPT !.ip = @ + 1]
  BY FetchedMachine, FetchedIs DEF Fetched
<1>2. op = Loaded[prog].code[v.ip].op
  BY DEF Ins, Code
<1>3. ASSUME NEW u, Put(p, u), Turns(Loaded[prog], v, Errexit(op, u))
      PROVE  Stepped(p)
  BY <1>3 DEF Put, Stepped, Effect
<1>4. IsSeq(v.env) /\ Len(v.env) \in Nat
  BY SeqFacts DEF Machine
<1>5. \A u : Machine(u) => Like(u, Errexit(op, u))
  BY LikeErrexit
<1> HIDE DEF f, op
<1>6. CASE OP_PUSH_SCOPE(p)
  <2> DEFINE u == [f EXCEPT !.env = <<environ_new>> \o @]
  <2>1. Put(p, u) /\ op = "PUSH_SCOPE"
    BY <1>6 DEF OP_PUSH_SCOPE, Only, At, f, op
  <2>2. IsSeq(<<environ_new>> \o f.env)
    BY <1>1, <1>4, SeqCat, SeqOne
  <2>3. Machine(u)
    BY <1>1, <2>2 DEF Machine, MachineFields
  <2>4. Like(u, Errexit(op, u))
    BY <1>5, <2>3
  <2>5. Turns(Loaded[prog], v, Errexit(op, u))
    BY <1>1, <1>2, <2>1, <2>4 DEF Turns
  <2> HIDE DEF u
  <2> QED BY <1>3, <2>1, <2>5
<1>7. CASE OP_POP_SCOPE(p) /\ Len(v.env) = 1
  <2> DEFINE u == [f EXCEPT !.last = 1, !.halted = TRUE]
  <2>1. Put(p, u) /\ op = "POP_SCOPE"
    BY <1>7 DEF OP_POP_SCOPE, Only, At, f, op
  <2>2. Like(f, u) /\ u.halted
    <3>1. 1 \in 0..255
      OBVIOUS
    <3> QED BY <1>1, <3>1, LikeHalted DEF Machine, MachineFields
  <2>3. Machine(u)
    BY <2>2 DEF Like
  <2>4. Like(f, Errexit(op, u))
    BY <1>5, <2>2, <2>3, LikeThrough
  <2>5. Errexit(op, u).halted
    <3> HIDE DEF u
    <3>1. vm_exit(u, u.last).halted
      BY <2>3 DEF vm_exit, Machine, MachineFields
    <3> QED BY <2>2, <3>1 DEF Errexit
  <2>6. Turns(Loaded[prog], v, Errexit(op, u))
    BY <1>1, <1>2, <1>7, <2>1, <2>4, <2>5 DEF Turns
  <2> HIDE DEF u
  <2> QED BY <1>3, <2>1, <2>6
<1>8. CASE OP_POP_SCOPE(p) /\ Len(v.env) # 1
  <2> DEFINE u == [f EXCEPT !.env = Tail(@)]
  <2>1. Put(p, u) /\ op = "POP_SCOPE"
    BY <1>8 DEF OP_POP_SCOPE, Only, At, f, op
  <2>2. IsSeq(Tail(f.env))
    BY <1>1, <1>4, SeqTail
  <2>3. Machine(u)
    BY <1>1, <2>2 DEF Machine, MachineFields
  <2>4. Like(u, Errexit(op, u))
    BY <1>5, <2>3
  <2>5. Turns(Loaded[prog], v, Errexit(op, u))
    BY <1>1, <1>2, <1>8, <2>1, <2>4 DEF Turns
  <2> HIDE DEF u
  <2> QED BY <1>3, <2>1, <2>5
<1>9. CASE OP_ERREXIT_PUSH(p)
  <2> DEFINE u == [f EXCEPT !.suppressed = @ + 1]
  <2>1. Put(p, u) /\ op = "ERREXIT_PUSH"
    BY <1>9 DEF OP_ERREXIT_PUSH, Only, At, f, op
  <2>2. Machine(u)
    BY <1>1 DEF Machine, MachineFields
  <2>3. Like(u, Errexit(op, u))
    BY <1>5, <2>2
  <2>4. Turns(Loaded[prog], v, Errexit(op, u))
    BY <1>1, <1>2, <2>1, <2>3 DEF Turns
  <2> HIDE DEF u
  <2> QED BY <1>3, <2>1, <2>4
<1>10. CASE OP_ERREXIT_POP(p)
  <2> DEFINE u == [f EXCEPT !.suppressed = IF @ > 0 THEN @ - 1 ELSE 0]
  <2>1. Put(p, u) /\ op = "ERREXIT_POP"
    BY <1>10 DEF OP_ERREXIT_POP, Only, At, f, op
  <2>2. Machine(u)
    BY <1>1 DEF Machine, MachineFields
  <2>3. Like(u, Errexit(op, u))
    BY <1>5, <2>2
  <2>4. Turns(Loaded[prog], v, Errexit(op, u))
    BY <1>1, <1>2, <2>1, <2>3 DEF Turns
  <2> HIDE DEF u
  <2> QED BY <1>3, <2>1, <2>4
<1> QED BY <1>6, <1>7, <1>8, <1>9, <1>10

LEMMA ReturnedFrom ==
    ASSUME NEW v, Machine(v), v.calls # <<>>, Len(v.env) >= 1
    PROVE  Returned(v, ReturnFrom(v))
<1>1. IsSeq(v.calls) /\ Len(v.calls) \in Nat /\ Len(v.calls) > 0
  BY SeqFacts DEF Machine, IsSeq
<1>2. IsSeq(Front(v.calls)) /\ Len(Front(v.calls)) = Len(v.calls) - 1
  BY <1>1, SeqFront
<1>3. IsSeq(Tail(v.env)) /\ Len(Tail(v.env)) = Len(v.env) - 1
  BY SeqTail, SeqFacts DEF Machine
<1>4. Len(Front(v.calls)) <= VM_CALL_STACK_MAX
  BY <1>1, <1>2, VmAssumption DEF Machine
<1> DEFINE w == ReturnFrom(v)
<1>5. /\ DOMAIN w = DOMAIN v /\ w.calls = Front(v.calls) /\ w.env = Tail(v.env)
      /\ w.ip = Last(v.calls).return_ip /\ w.last = v.last /\ w.suppressed = v.suppressed
      /\ w.errexit = v.errexit /\ w.halted = v.halted /\ w.redirs = v.redirs
      /\ w.wait = v.wait /\ w.seg = v.seg
  BY DEF ReturnFrom, Machine, MachineFields
<1> HIDE DEF w
<1>6. Machine(w)
  BY <1>2, <1>3, <1>4, <1>5 DEF Machine
<1>7. Returned(v, w)
  BY <1>3, <1>5, <1>6 DEF Returned
<1> QED BY <1>7 DEF w

LEMMA ReturnedLike ==
    ASSUME NEW u, NEW v, NEW w, NEW x, Like(u, v), Returned(v, w), Like(w, x)
    PROVE  Returned(u, x)
BY DEF Returned, Like

LEMMA EndSteps ==
    ASSUME NEW p, Machine(procs[p]), Len(procs[p].env) >= 1, OP_HALT(p) \/ OP_RET(p)
    PROVE  Stepped(p)
<1> DEFINE v == procs[p]
           f == Fetched(p)
           op == Ins(p).op
<1>1. /\ Machine(f) /\ f.env = v.env /\ f.calls = v.calls /\ f.last = v.last
      /\ f = [v EXCEPT !.ip = @ + 1]
  BY FetchedMachine, FetchedIs DEF Fetched
<1>2. op = Loaded[prog].code[v.ip].op
  BY DEF Ins, Code
<1>3. ASSUME NEW u, Put(p, u), op = "HALT" \/ (op = "RET" /\ v.calls = <<>>),
             Like(f, u), u.halted
      PROVE  Stepped(p)
  <2>1. Like(u, Errexit(op, u)) /\ Machine(u)
    BY <1>3, LikeErrexit DEF Like
  <2>2. Errexit(op, u).halted
    <3>1. vm_exit(u, u.last).halted
      BY <2>1 DEF vm_exit, Machine, MachineFields
    <3> QED BY <1>3, <3>1 DEF Errexit
  <2>3. Like(f, Errexit(op, u))
    BY <1>3, <2>1, LikeThrough
  <2>4. Ends(Loaded[prog], v, Errexit(op, u))
    BY <1>1, <1>2, <1>3, <2>2, <2>3 DEF Ends
  <2> QED BY <1>3, <2>4 DEF Put, Stepped, Effect
<1> HIDE DEF f, op
<1>4. CASE OP_HALT(p)
  <2> DEFINE u == vm_exit(f, v.last)
  <2>1. Put(p, u) /\ op = "HALT"
    BY <1>4 DEF OP_HALT, Only, At, f, op
  <2>2. Like(f, u) /\ u.halted
    BY <1>1, LikeHalted DEF Machine, MachineFields, vm_exit
  <2> HIDE DEF u
  <2> QED BY <1>3, <2>1, <2>2
<1>5. CASE OP_RET(p) /\ v.calls = <<>>
  <2> DEFINE u == [f EXCEPT !.halted = TRUE]
  <2>1. Put(p, u) /\ op = "RET"
    BY <1>5 DEF OP_RET, Only, At, f, op
  <2>2. Like(f, u) /\ u.halted
    <3>1. 0 \in 0..255
      OBVIOUS
    <3> QED BY <1>1, <3>1, LikeHalted DEF Machine, MachineFields
  <2> HIDE DEF u
  <2> QED BY <1>3, <1>5, <2>1, <2>2
<1>6. CASE OP_RET(p) /\ v.calls # <<>>
  <2> DEFINE u == ReturnFrom(f)
  <2>1. Put(p, u) /\ op = "RET"
    BY <1>6 DEF OP_RET, Only, At, f, op
  <2>2. Returned(f, u)
    BY <1>1, <1>6, ReturnedFrom
  <2>3. Like(u, Errexit(op, u))
    BY <2>2, LikeErrexit DEF Returned
  <2> HIDE DEF u
  <2>4. Returned(f, Errexit(op, u))
    BY <2>2, <2>3 DEF Returned, Like
  <2>5. Returned(v, Errexit(op, u))
    BY <2>4, FetchedIs DEF Returned, f
  <2>6. Returns(Loaded[prog], v, Errexit(op, u), ReturnsByName(p))
    BY <1>2, <1>6, <2>1, <2>5 DEF Returns
  <2> QED BY <2>1, <2>6 DEF Put, Stepped, Effect, op
<1> QED BY <1>4, <1>5, <1>6

\* What SelectInSeq finds is in the sequence.
LEMMA MinIn ==
    ASSUME NEW S, S \subseteq Nat, S # {}
    PROVE  Min(S) \in S
<1>1. \A a, b \in Nat : a < b => <<a, b>> \in OpToRel(<, Nat)
    BY DEF OpToRel
<1>2. PICK k \in S : \A l \in S : <<l, k>> \notin OpToRel(<, Nat)
    BY WFMin, NatLessThanWellFounded
<1>3. \A l \in S : ~(l < k)
  BY <1>1, <1>2
<1>4. \A l \in S : k <= l
  BY <1>3
<1> QED BY <1>4 DEF Min

LEMMA CalledLike ==
    ASSUME NEW p, Machine(procs[p])
    PROVE  Machine(Called(p)) /\ Like(Fetched(p), Called(p))
BY FetchedMachine, LikePush DEF Called, Like

LEMMA BuiltinStep ==
    ASSUME NEW p, Machine(procs[p]), Len(procs[p].env) >= 1,
           NEW op \in {"EXEC_BUILTIN", "EXEC_SIMPLE"}, At(p, op, 1),
           NEW name \in Builtins, NEW args,
           Put(p, Builtin(Called(p), name, args)),
           name = "return" => \/ op = "EXEC_BUILTIN" /\ Ins(p).name = "return"
                              \/ op = "EXEC_SIMPLE" /\ ReturnsByName(p)
    PROVE  Stepped(p)
<1> DEFINE v == procs[p]
           f == Fetched(p)
           g == Called(p)
<1>1. Machine(g) /\ Like(f, g)
  BY CalledLike
<1>2. CASE name # "return"
  <2>1. Like(f, Builtin(g, name, args))
    BY <1>1, <1>2, LikeBuiltin, LikeThrough
  <2> QED BY <2>1, PlainStep DEF LevelOps
<1>3. CASE name = "return"
  <2> DEFINE w == [g EXCEPT !.last = Code1(args)]
             u == IF g.calls = <<>> THEN [w EXCEPT !.halted = TRUE] ELSE ReturnFrom(w)
  <2>1. Put(p, u)
    BY <1>3 DEF Builtin, builtin_return
  <2>2. Machine(w) /\ Like(f, w) /\ w.calls = g.calls
    <3> HIDE DEF f, g
    <3>1. Like(g, w)
      BY <1>1, LikeLast, StatusOf
    <3> QED BY <1>1, <3>1, LikeThrough DEF Like
  <2> HIDE DEF w
  <2>3. CASE g.calls = <<>>
    <3>1. Like(w, [w EXCEPT !.halted = TRUE])
      <4>1. 0 \in 0..255
        OBVIOUS
      <4> QED BY <2>2, <4>1, LikeHalted
    <3>2. Like(f, u)
      BY <2>2, <2>3, <3>1, LikeThrough
    <3> HIDE DEF u
    <3> QED BY <2>1, <3>2, PlainStep DEF LevelOps
  <2>4. CASE g.calls # <<>>
    <3>1. f.calls = v.calls /\ f.env = v.env
      BY FetchedIs
    <3>2. w.calls # <<>> /\ Len(w.env) >= 1 /\ v.calls # <<>>
      <4> HIDE DEF f, g
      <4> QED BY <1>1, <2>2, <2>4, <3>1 DEF Like
    <3>3. Returned(w, ReturnFrom(w))
      BY <2>2, <3>2, ReturnedFrom
    <3>4. u = ReturnFrom(w)
      BY <2>4
    <3> HIDE DEF u
    <3>5. Like(u, Errexit(Ins(p).op, u))
      BY <3>3, <3>4, LikeErrexit DEF Returned
    <3>6. Returned(f, Errexit(Ins(p).op, u))
      BY <2>2, <3>3, <3>4, <3>5, ReturnedLike
    <3>7. Returned(v, Errexit(Ins(p).op, u))
      BY <3>6, FetchedIs DEF Returned
    <3>8. Ins(p) = Loaded[prog].code[v.ip] /\ Ins(p).op = op
      BY DEF Ins, Code, At
    <3> HIDE DEF f, g
    <3>9. Returns(Loaded[prog], v, Errexit(Ins(p).op, u), ReturnsByName(p))
      BY <1>3, <3>2, <3>7, <3>8 DEF Returns
    <3> QED BY <2>1, <3>9 DEF Put, Stepped, Effect
  <2> QED BY <2>3, <2>4
<1> QED BY <1>2, <1>3

LEMMA CallStep ==
    ASSUME NEW p, Machine(procs[p]), Len(procs[p].env) >= 1,
           NEW op \in {"EXEC_FUNC", "EXEC_SIMPLE"}, At(p, op, 1),
           NEW f \in DOMAIN Funcs, NEW argv, Put(p, CallFunc(Called(p), f, argv))
    PROVE  Stepped(p)
<1> DEFINE v == procs[p]
           g == Called(p)
           u == CallFunc(g, f, argv)
<1>1. Machine(g) /\ Like(Fetched(p), g)
  BY CalledLike
<1>2. /\ g.ip = v.ip + 1 /\ g.calls = v.calls /\ g.wait = v.wait /\ g.seg = v.seg
      /\ g.suppressed = v.suppressed /\ Len(g.env) = Len(v.env)
  BY <1>1, FetchedIs DEF Like
<1>3. Len(g.calls) \in Nat
  BY <1>1, SeqFacts DEF Machine
<1>4. CASE Len(g.calls) >= VM_CALL_STACK_MAX
  <2> HIDE DEF g
  <2>1. Like(g, u)
    <3>1. 1 \in 0..255
      OBVIOUS
    <3> QED BY <1>1, <1>4, <3>1, LikeHalted DEF CallFunc
  <2>2. Like(Fetched(p), u)
    BY <1>1, <2>1, LikeThrough
  <2> HIDE DEF u
  <2> QED BY <2>2, PlainStep DEF LevelOps, u, g
<1>5. CASE ~(Len(g.calls) >= VM_CALL_STACK_MAX)
  <2> DEFINE frame == [return_ip |-> g.ip, saved_env |-> Len(g.env),
                       saved_stack_base |-> Len(g.stack)]
             calls == Append(g.calls, frame)
             env == vm_set_args(<<environ_new>> \o g.env, Tail(argv))
  <2> HIDE DEF g
  <2>1. u = [g EXCEPT !.calls = calls, !.env = env, !.ip = Funcs[f].offset]
    BY <1>5 DEF CallFunc
  <2>2. IsSeq(calls) /\ Len(calls) <= VM_CALL_STACK_MAX
    <3>1. IsSeq(calls) /\ Len(calls) = Len(g.calls) + 1
      BY <1>1, SeqAppend DEF Machine
    <3> QED BY <1>3, <1>5, <3>1, VmAssumption
  <2>3. IsSeq(env) /\ Len(env) = Len(g.env) + 1
    <3>1. IsSeq(g.env) /\ Len(g.env) \in Nat
      BY <1>1, SeqFacts DEF Machine
    <3>2. /\ IsSeq(<<environ_new>> \o g.env)
          /\ Len(<<environ_new>> \o g.env) = Len(g.env) + 1
      BY <3>1, SeqCat, SeqOne
    <3> QED BY <3>2, ArgsScopes DEF SameScopes
  <2> HIDE DEF env, calls
  <2>4. /\ DOMAIN u = MachineFields /\ u.calls = calls /\ u.env = env
        /\ u.ip = Funcs[f].offset /\ u.last = g.last /\ u.suppressed = g.suppressed
        /\ u.errexit = g.errexit /\ u.halted = g.halted /\ u.redirs = g.redirs
        /\ u.wait = g.wait /\ u.seg = g.seg
    BY <1>1, <2>1 DEF Machine, MachineFields
  <2>5. Machine(u)
    BY <1>1, <2>2, <2>3, <2>4 DEF Machine
  <2> HIDE DEF u
  <2> DEFINE w == Errexit(Ins(p).op, u)
  <2>6. Like(u, w)
    BY <2>5, LikeErrexit
  <2>7. procs' = [procs EXCEPT ![p] = w]
    BY DEF Put, u, g
  <2> HIDE DEF w
  <2>8. Loaded[prog].code[v.ip].op = op
    BY DEF At, Ins, Code
  <2>9. w.ip \in FunctionStarts(Loaded[prog])
    BY <2>4, <2>6 DEF FunctionStarts, Funcs, Like
  <2>10. w.calls = Append(v.calls, frame) /\ frame.return_ip = v.ip + 1
         /\ frame.saved_env = Len(v.env)
    BY <1>2, <2>4, <2>6 DEF Like, calls
  <2> HIDE DEF frame
  <2>11. Calls(Loaded[prog], v, w)
    <3>1. Machine(w) /\ w.wait = v.wait /\ w.seg = v.seg /\ w.suppressed = v.suppressed
          /\ Len(w.env) = Len(v.env) + 1
      BY <1>2, <2>3, <2>4, <2>6 DEF Like
    <3> QED BY <2>8, <2>9, <2>10, <3>1 DEF Calls
  <2> QED BY <2>7, <2>11 DEF Stepped, Effect
<1> QED BY <1>4, <1>5

LEMMA ExternalStep ==
    ASSUME NEW p, Machine(procs[p]), At(p, "EXEC_SIMPLE", 1), NEW c,
           world \in [DOMAIN Script -> Nat], External(p, c)
    PROVE  Stepped(p) /\ world' \in [DOMAIN Script -> Nat] /\ prog' = prog
<1> DEFINE g == Called(p)
           k == world[c] + 1
           s == Script[c][IF k > Len(Script[c]) THEN Len(Script[c]) ELSE k]
<1>1. Machine(g) /\ Like(Fetched(p), g)
  BY CalledLike
<1>2. CASE c \in DOMAIN Script
  <2>1. /\ Put(p, [g EXCEPT !.last = s]) /\ world' = [world EXCEPT ![c] = k]
        /\ prog' = prog
    BY <1>2 DEF External
  <2>2. k \in Nat /\ k >= 1
    BY <1>2
  <2>3. s \in 0..255
    <3>1. Script[c] \in Seq(0..255) /\ Script[c] # <<>>
      BY <1>2, VmAssumption
    <3>2. Len(Script[c]) \in Nat /\ Len(Script[c]) >= 1
      BY <3>1
    <3> DEFINE j == IF k > Len(Script[c]) THEN Len(Script[c]) ELSE k
    <3>3. j \in 1..Len(Script[c])
      BY <2>2, <3>2
    <3>4. s = Script[c][j]
      OBVIOUS
    <3> HIDE DEF j, s
    <3>5. Script[c][j] \in 0..255
      BY <3>1, <3>3, ElementOfSeq
    <3> QED BY <3>4, <3>5
  <2> HIDE DEF s, g
  <2>4. Like(Fetched(p), [g EXCEPT !.last = s])
    BY <1>1, <2>3, LikeLast, LikeThrough
  <2>5. Stepped(p)
    BY <2>1, <2>4, PlainStep DEF LevelOps
  <2> QED BY <2>1, <2>2, <2>5
<1>3. CASE c \notin DOMAIN Script
  <2>1. Put(p, [g EXCEPT !.last = 127]) /\ UNCHANGED <<prog, world>>
    BY <1>3 DEF External, Only
  <2>2. 127 \in 0..255
    OBVIOUS
  <2> HIDE DEF g
  <2>3. Like(Fetched(p), [g EXCEPT !.last = 127])
    BY <1>1, <2>2, LikeLast, LikeThrough
  <2> QED BY <2>1, <2>3, PlainStep DEF LevelOps
<1> QED BY <1>2, <1>3

LEMMA CommandSteps ==
    ASSUME NEW p, Machine(procs[p]), Len(procs[p].env) >= 1,
           NEW lv, WellFormed(Loaded[prog], lv), procs[p].ip \in 1..Len(Code),
           world \in [DOMAIN Script -> Nat],
           OP_EXEC_BUILTIN(p) \/ OP_EXEC_FUNC(p) \/ OP_EXEC_SIMPLE(p)
    PROVE  Stepped(p) /\ world' \in [DOMAIN Script -> Nat] /\ prog' = prog
<1>1. /\ Ins(p).op = "EXEC_FUNC" => Ins(p).f \in DOMAIN Funcs
      /\ Ins(p).op = "EXEC_BUILTIN" => Ins(p).name \in Builtins
      /\ DOMAIN Funcs = 1..Len(Funcs)
  BY DEF WellFormed, Ins, Code, Funcs
<1>2. CASE OP_EXEC_BUILTIN(p)
  <2>1. At(p, "EXEC_BUILTIN", 1) /\ RunBuiltin(p, Ins(p).name, Tail(Argv(procs[p])))
    BY <1>2 DEF OP_EXEC_BUILTIN, AtCommand
  <2>2. Ins(p).name \in Builtins
    BY <1>1, <2>1 DEF At
  <2>3. Put(p, Builtin(Called(p), Ins(p).name, Tail(Argv(procs[p]))))
        /\ UNCHANGED <<prog, world>>
    BY <2>1 DEF RunBuiltin
  <2>4. Stepped(p)
    BY <2>1, <2>2, <2>3, BuiltinStep
  <2> QED BY <2>3, <2>4
<1>3. CASE OP_EXEC_FUNC(p)
  <2>1. /\ At(p, "EXEC_FUNC", 1) /\ Put(p, CallFunc(Called(p), Ins(p).f, Argv(procs[p])))
        /\ UNCHANGED <<prog, world>>
    BY <1>3 DEF OP_EXEC_FUNC, AtCommand, Only
  <2>2. Ins(p).f \in DOMAIN Funcs
    BY <1>1, <2>1 DEF At
  <2>3. Stepped(p)
    BY <2>1, <2>2, CallStep
  <2> QED BY <2>1, <2>3
<1>4. CASE OP_EXEC_SIMPLE(p)
  <2> DEFINE argv == Argv(procs[p])
             name == argv[1]
             f    == SelectInSeq(Funcs, LAMBDA e : <<e.name>> = name)
             bi   == Len(name) = 1 /\ name[1] \in Builtins
  <2>1. /\ AtCommand(p, "EXEC_SIMPLE")
        /\ \/ argv = <<>> /\ Only(p, Called(p))
           \/ argv # <<>> /\ f # 0 /\ Only(p, CallFunc(Called(p), f, argv))
           \/ argv # <<>> /\ f = 0 /\ bi /\ RunBuiltin(p, name[1], Tail(argv))
           \/ argv # <<>> /\ f = 0 /\ ~bi /\ External(p, name[1])
    BY <1>4 DEF OP_EXEC_SIMPLE
  <2>2. At(p, "EXEC_SIMPLE", 1)
    BY <2>1 DEF AtCommand
  <2>3. f # 0 => f \in DOMAIN Funcs
    <3> DEFINE I == {i \in 1..Len(Funcs) : <<Funcs[i].name>> = name}
    <3>1. f = IF I # {} THEN Min(I) ELSE 0
      BY DEF SelectInSeq
    <3>2. I \subseteq Nat /\ I \subseteq DOMAIN Funcs
      BY <1>1
    <3> HIDE DEF I, f
    <3> QED BY <3>1, <3>2, MinIn
  <2> HIDE DEF f
  <2>4. CASE Only(p, Called(p))
    <3>1. Stepped(p)
      BY <2>2, <2>4, CalledLike, PlainStep DEF Only, LevelOps
    <3> QED BY <2>4, <3>1 DEF Only
  <2>5. CASE f # 0 /\ Only(p, CallFunc(Called(p), f, argv))
    <3>1. Put(p, CallFunc(Called(p), f, argv)) /\ UNCHANGED <<prog, world>>
      BY <2>5 DEF Only
    <3>2. Stepped(p)
      BY <2>2, <2>3, <2>5, <3>1, CallStep
    <3> QED BY <3>1, <3>2
  <2>6. CASE argv # <<>> /\ bi /\ RunBuiltin(p, name[1], Tail(argv))
    <3>1. Put(p, Builtin(Called(p), name[1], Tail(argv))) /\ UNCHANGED <<prog, world>>
      BY <2>6 DEF RunBuiltin
    <3>2. name[1] = "return" => ReturnsByName(p)
      BY <2>1, <2>6 DEF ReturnsByName
    <3>3. name[1] \in Builtins
      BY <2>6
    <3> HIDE DEF name, argv
    <3>4. Stepped(p)
      BY <2>2, <3>1, <3>2, <3>3, BuiltinStep
    <3> QED BY <3>1, <3>4
  <2>7. CASE External(p, name[1])
    BY <2>2, <2>7, ExternalStep
  <2> QED BY <2>1, <2>4, <2>5, <2>6, <2>7
<1> QED BY <1>2, <1>3, <1>4

-----------------------------------------------------------------------------
(* What holds of a machine in well-formed code: its frames and scopes.     *)

\* The arithmetic of scopes, on numbers that the provers need not look into.
LEMMA AtLeastAsMany ==
    ASSUME NEW a \in Int, NEW b \in Int, NEW c \in Int, NEW d \in Int,
           a >= b + c, d <= c
    PROVE  a >= b + d
OBVIOUS

LEMMA AtLeastOneMore ==
    ASSUME NEW a \in Int, NEW b \in Int, NEW c \in Int, NEW d \in Int,
           a >= b + c, d <= c + 1
    PROVE  a + 1 >= b + d
OBVIOUS

LEMMA AtLeastOneLess ==
    ASSUME NEW a \in Int, NEW b \in Int, NEW c \in Int, NEW d \in Int,
           a >= b + c, d <= c - 1
    PROVE  a - 1 >= b + d
OBVIOUS

\* The scopes below the k-th frame and the one of its own.
Floor(calls, k) == IF k = 1 THEN 1 ELSE calls[k - 1].saved_env + 1

FramesSafe(n, lv, calls) ==
    \A k \in 1..Len(calls) :
        /\ calls[k].return_ip \in 1..n
        /\ calls[k].saved_env \in Nat
        /\ calls[k].saved_env >= Floor(calls, k) + lv[calls[k].return_ip].scopes

\* A machine that runs has at least the scopes open that its level says.
Safe(img, lv, v) ==
    LET n == Len(img.code)
    IN  /\ Machine(v)
        /\ v.ip \in 1..n + 1
        /\ Len(v.env) >= 1
        /\ FramesSafe(n, lv, v.calls)
        /\ ~v.halted => /\ v.ip \in 1..n
                        /\ Len(v.env) >= Floor(v.calls, Len(v.calls) + 1) + lv[v.ip].scopes

LEMMA FloorNat ==
    ASSUME NEW n, NEW lv, NEW calls, IsSeq(calls), FramesSafe(n, lv, calls),
           NEW k \in 1..Len(calls) + 1
    PROVE  Floor(calls, k) \in Nat /\ Floor(calls, k) >= 1
<1>1. Len(calls) \in Nat
  BY SeqFacts
<1>2. CASE k = 1
  BY <1>2 DEF Floor
<1>3. CASE k # 1
  <2>1. k - 1 \in 1..Len(calls)
    BY <1>1, <1>3
  <2>2. calls[k - 1].saved_env \in Nat
    BY <2>1 DEF FramesSafe
  <2> QED BY <1>3, <2>2 DEF Floor
<1> QED BY <1>2, <1>3

\* What is known of an instruction and its level.
LEMMA CodeFacts ==
    ASSUME NEW img, NEW lv, WellFormed(img, lv), NEW i \in 1..Len(img.code)
    PROVE  LET ins == img.code[i]  n == Len(img.code)
           IN  /\ n \in Nat \ {0} /\ lv[i].scopes \in Nat
               /\ Falls(ins) => i + 1 \in 1..n /\ lv[i + 1].scopes \in Nat
                                /\ lv[i + 1].scopes <= LevelAfter(lv[i], ins.op).scopes
               /\ \A t \in Targets(ins) : t \in 1..n /\ lv[t].scopes \in Nat
                                          /\ lv[t].scopes <= lv[i].scopes
               /\ \A s \in Segments(ins) : s \in 2..n /\ lv[s].scopes = 0
               /\ \A s \in FunctionStarts(img) : s \in 2..n /\ lv[s].scopes = 0
<1> DEFINE n == Len(img.code)
           ins == img.code[i]
<1>1. n \in Nat \ {0} /\ img.code[n].op = "HALT"
  BY DEF WellFormed
<1>2. \A j \in 1..n : lv[j].scopes \in Nat
  BY DEF WellFormed
<1>3. Falls(ins) => i + 1 \in 1..n
  BY <1>1 DEF Falls
<1>4. /\ Falls(ins) => lv[i + 1].scopes <= LevelAfter(lv[i], ins.op).scopes
      /\ \A t \in Targets(ins) : t \in 1..n /\ lv[t].scopes <= lv[i].scopes
      /\ \A s \in Segments(ins) : s \in 2..n /\ lv[s].scopes = 0
      /\ \A s \in FunctionStarts(img) : s \in 2..n /\ lv[s].scopes = 0
  BY DEF WellFormed
<1> HIDE DEF ins
<1> QED BY <1>1, <1>2, <1>3, <1>4 DEF ins

LEMMA LevelAfterIs ==
    ASSUME NEW l, NEW op, l.scopes \in Nat
    PROVE  /\ op \notin LevelOps => LevelAfter(l, op).scopes = l.scopes
           /\ op = "PUSH_SCOPE" => LevelAfter(l, op).scopes = l.scopes + 1
           /\ op = "POP_SCOPE" => LevelAfter(l, op).scopes = l.scopes - 1
           /\ op \in {"ERREXIT_PUSH", "ERREXIT_POP"} => LevelAfter(l, op).scopes = l.scopes
BY DEF LevelAfter, Change, LevelOps

\* A machine u with the frames of v, at t, where no more scopes are open.
LEMMA SafeAt ==
    ASSUME NEW img, NEW lv, NEW v, NEW w, NEW t \in 1..Len(img.code),
           Len(img.code) \in Nat,
           Safe(img, lv, v), Machine(w), w.ip = t, w.calls = v.calls,
           Len(w.env) >= Floor(v.calls, Len(v.calls) + 1) + lv[t].scopes,
           lv[t].scopes \in Nat
    PROVE  Safe(img, lv, w)
<1>1. Len(v.calls) \in Nat /\ Len(w.env) \in Nat /\ IsSeq(v.calls)
  BY SeqFacts DEF Safe, Machine
<1>2. Floor(v.calls, Len(v.calls) + 1) \in Nat /\ Floor(v.calls, Len(v.calls) + 1) >= 1
  <2>1. Len(v.calls) + 1 \in 1..Len(v.calls) + 1
    BY <1>1
  <2> QED BY <1>1, <2>1, FloorNat DEF Safe
<1>3. Len(w.env) >= 1
  BY <1>1, <1>2
<1> QED BY <1>3 DEF Safe

LEMMA SafeFlows ==
    ASSUME NEW img, NEW lv, WellFormed(img, lv), NEW v, NEW w,
           Safe(img, lv, v), ~v.halted, Flows(img, v, w)
    PROVE  Safe(img, lv, w)
<1> DEFINE ins == img.code[v.ip]
<1>1. v.ip \in 1..Len(img.code)
  BY DEF Safe
<1>2. PICK t : /\ t \in Targets(ins) \/ (Falls(ins) /\ t = v.ip + 1)
               /\ Like([v EXCEPT !.ip = t], w)
  BY DEF Flows
<1>3. /\ t \in 1..Len(img.code) /\ lv[t].scopes \in Nat /\ lv[v.ip].scopes \in Nat
      /\ lv[t].scopes <= lv[v.ip].scopes /\ Len(img.code) \in Nat
  BY <1>1, <1>2, CodeFacts, LevelAfterIs DEF Flows
<1>4. Machine(w) /\ w.ip = t /\ w.calls = v.calls /\ Len(w.env) = Len(v.env)
  BY <1>2 DEF Like, Safe, Machine, MachineFields
<1>5. Len(v.env) \in Nat /\ Floor(v.calls, Len(v.calls) + 1) \in Nat
  <2>1. Len(v.calls) + 1 \in 1..Len(v.calls) + 1 /\ Len(v.env) \in Nat /\ IsSeq(v.calls)
    BY SeqFacts DEF Safe, Machine
  <2> QED BY <2>1, FloorNat DEF Safe
<1>6. Len(w.env) >= Floor(v.calls, Len(v.calls) + 1) + lv[t].scopes
  BY <1>3, <1>4, <1>5 DEF Safe
<1> QED BY <1>3, <1>4, <1>6, SafeAt

\* The effect of a turn on frames, scopes and contexts.
LEMMA TurnIs ==
    ASSUME NEW img, NEW v, NEW w, Machine(v), Len(v.env) >= 1, Turns(img, v, w)
    PROVE  LET op == img.code[v.ip].op
           IN  /\ Machine(w) /\ w.ip = v.ip + 1 /\ w.calls = v.calls
               /\ w.wait = v.wait /\ w.seg = v.seg
               /\ op \in LevelOps
               /\ op = "PUSH_SCOPE" => Len(w.env) = Len(v.env) + 1
               /\ op = "POP_SCOPE" => \/ w.halted /\ Len(w.env) = Len(v.env)
                                      \/ Len(v.env) > 1 /\ Len(w.env) = Len(v.env) - 1
               /\ op \in {"ERREXIT_PUSH", "ERREXIT_POP"} => Len(w.env) = Len(v.env)
               /\ op \in {"PUSH_SCOPE", "POP_SCOPE"} => w.suppressed = v.suppressed
               /\ op = "ERREXIT_PUSH" => w.suppressed = v.suppressed + 1
               /\ op = "ERREXIT_POP" =>
                    w.suppressed = IF v.suppressed > 0 THEN v.suppressed - 1 ELSE 0
<1> DEFINE op == img.code[v.ip].op
           u  == [v EXCEPT !.ip = @ + 1]
<1>1. /\ DOMAIN u = MachineFields /\ u.ip = v.ip + 1 /\ u.calls = v.calls
      /\ u.wait = v.wait /\ u.seg = v.seg /\ u.env = v.env /\ u.suppressed = v.suppressed
  BY DEF Machine, MachineFields
<1>2. IsSeq(v.env) /\ Len(v.env) \in Nat
  BY SeqFacts DEF Machine
<1>3. \/ op = "PUSH_SCOPE" /\ Like([u EXCEPT !.env = <<environ_new>> \o @], w)
      \/ op = "POP_SCOPE" /\ Len(v.env) = 1 /\ w.halted /\ Like(u, w)
      \/ op = "POP_SCOPE" /\ Len(v.env) # 1 /\ Like([u EXCEPT !.env = Tail(@)], w)
      \/ op = "ERREXIT_PUSH" /\ Like([u EXCEPT !.suppressed = @ + 1], w)
      \/ op = "ERREXIT_POP"
         /\ Like([u EXCEPT !.suppressed = IF @ > 0 THEN @ - 1 ELSE 0], w)
  BY DEF Turns
<1> HIDE DEF op, u
<1>4. CASE op = "PUSH_SCOPE" /\ Like([u EXCEPT !.env = <<environ_new>> \o @], w)
  <2>1. Len(<<environ_new>> \o u.env) = Len(v.env) + 1
    BY <1>1, <1>2, SeqCat, SeqOne
  <2> QED BY <1>1, <1>4, <2>1 DEF Like, MachineFields, LevelOps, op
<1>5. CASE op = "POP_SCOPE" /\ Len(v.env) = 1 /\ w.halted /\ Like(u, w)
  BY <1>1, <1>5 DEF Like, LevelOps, op
<1>6. CASE op = "POP_SCOPE" /\ Len(v.env) # 1 /\ Like([u EXCEPT !.env = Tail(@)], w)
  <2>1. Len(Tail(u.env)) = Len(v.env) - 1
    BY <1>1, <1>2, SeqTail
  <2>2. Len(v.env) > 1
    <3> DEFINE e == Len(v.env)
    <3>1. e \in Nat /\ e # 1 /\ e >= 1
      BY <1>2, <1>6
    <3> HIDE DEF e
    <3>2. e > 1
      BY <3>1
    <3> QED BY <3>2 DEF e
  <2> QED BY <1>1, <1>6, <2>1, <2>2 DEF Like, MachineFields, LevelOps, op
<1>7. CASE op = "ERREXIT_PUSH" /\ Like([u EXCEPT !.suppressed = @ + 1], w)
  BY <1>1, <1>7 DEF Like, MachineFields, LevelOps, op
<1>8. CASE op = "ERREXIT_POP"
           /\ Like([u EXCEPT !.suppressed = IF @ > 0 THEN @ - 1 ELSE 0], w)
  BY <1>1, <1>8 DEF Like, MachineFields, LevelOps, op
<1> QED BY <1>3, <1>4, <1>5, <1>6, <1>7, <1>8

LEMMA SafeTurns ==
    ASSUME NEW img, NEW lv, WellFormed(img, lv), NEW v, NEW w,
           Safe(img, lv, v), ~v.halted, Turns(img, v, w)
    PROVE  Safe(img, lv, w)
<1> DEFINE op == img.code[v.ip].op
           F  == Floor(v.calls, Len(v.calls) + 1)
<1>1. v.ip \in 1..Len(img.code) /\ Machine(v) /\ Len(v.env) >= 1
      /\ Len(v.env) >= F + lv[v.ip].scopes
  BY DEF Safe
<1>2. /\ Machine(w) /\ w.ip = v.ip + 1 /\ w.calls = v.calls /\ op \in LevelOps
      /\ op = "PUSH_SCOPE" => Len(w.env) = Len(v.env) + 1
      /\ op = "POP_SCOPE" => \/ w.halted /\ Len(w.env) = Len(v.env)
                             \/ Len(v.env) > 1 /\ Len(w.env) = Len(v.env) - 1
      /\ op \in {"ERREXIT_PUSH", "ERREXIT_POP"} => Len(w.env) = Len(v.env)
  BY <1>1, TurnIs
<1>3. Falls(img.code[v.ip])
  BY <1>2 DEF Falls, LevelOps
<1>4. /\ v.ip + 1 \in 1..Len(img.code) /\ lv[v.ip + 1].scopes \in Nat
      /\ lv[v.ip].scopes \in Nat /\ Len(img.code) \in Nat
      /\ lv[v.ip + 1].scopes <= LevelAfter(lv[v.ip], op).scopes
  BY <1>1, <1>3, CodeFacts
<1>5. Len(v.env) \in Nat /\ F \in Nat
  <2>1. Len(v.calls) + 1 \in 1..Len(v.calls) + 1 /\ Len(v.env) \in Nat /\ IsSeq(v.calls)
    BY SeqFacts DEF Safe, Machine
  <2> QED BY <2>1, FloorNat DEF Safe
<1>6. CASE w.halted /\ Len(w.env) = Len(v.env)
  BY <1>1, <1>2, <1>4, <1>6 DEF Safe
<1>7. CASE ~(w.halted /\ Len(w.env) = Len(v.env))
  <2>1. /\ op = "PUSH_SCOPE" => LevelAfter(lv[v.ip], op).scopes = lv[v.ip].scopes + 1
        /\ op = "POP_SCOPE" => LevelAfter(lv[v.ip], op).scopes = lv[v.ip].scopes - 1
        /\ op \in {"ERREXIT_PUSH", "ERREXIT_POP"}
              => LevelAfter(lv[v.ip], op).scopes = lv[v.ip].scopes
    BY <1>4, LevelAfterIs
  <2> HIDE DEF op, F
  <2>2. Len(w.env) >= F + lv[v.ip + 1].scopes
    <3> DEFINE e == Len(v.env)
               s == lv[v.ip].scopes
               t == lv[v.ip + 1].scopes
    <3>4. e \in Int /\ F \in Int /\ s \in Int /\ t \in Int /\ e >= F + s
      BY <1>1, <1>4, <1>5
    <3>1. CASE op = "PUSH_SCOPE"
      <4>1. t <= s + 1
        BY <1>4, <2>1, <3>1
      <4>2. Len(w.env) = e + 1
        BY <1>2, <3>1
      <4> HIDE DEF e, s, t
      <4>3. e + 1 >= F + t
        BY <3>4, <4>1, AtLeastOneMore
      <4> QED BY <4>2, <4>3 DEF t
    <3>2. CASE op = "POP_SCOPE"
      <4>1. t <= s - 1
        BY <1>4, <2>1, <3>2
      <4>2. Len(w.env) = e - 1
        BY <1>2, <1>7, <3>2
      <4> HIDE DEF e, s, t
      <4>3. e - 1 >= F + t
        BY <3>4, <4>1, AtLeastOneLess
      <4> QED BY <4>2, <4>3 DEF t
    <3>3. CASE op \in {"ERREXIT_PUSH", "ERREXIT_POP"}
      <4>1. t <= s
        BY <1>4, <2>1, <3>3
      <4>2. Len(w.env) = e
        BY <1>2, <3>3
      <4> HIDE DEF e, s, t
      <4>3. e >= F + t
        BY <3>4, <4>1, AtLeastAsMany
      <4> QED BY <4>2, <4>3 DEF t
    <3> QED BY <1>2, <3>1, <3>2, <3>3 DEF LevelOps
  <2> QED BY <1>2, <1>4, <2>2, SafeAt DEF F
<1> QED BY <1>6, <1>7

LEMMA SafeEnds ==
    ASSUME NEW img, NEW lv, WellFormed(img, lv), NEW v, NEW w,
           Safe(img, lv, v), ~v.halted, Ends(img, v, w)
    PROVE  Safe(img, lv, w)
<1>1. v.ip \in 1..Len(img.code) /\ Len(img.code) \in Nat
  BY DEF Safe, WellFormed
<1>2. Machine(w) /\ w.halted /\ w.ip = v.ip + 1 /\ w.calls = v.calls /\ Len(w.env) = Len(v.env)
  BY DEF Ends, Like, Safe, Machine, MachineFields
<1> QED BY <1>1, <1>2 DEF Safe

LEMMA SafeCalls ==
    ASSUME NEW img, NEW lv, WellFormed(img, lv), NEW v, NEW w,
           Safe(img, lv, v), ~v.halted, Calls(img, v, w)
    PROVE  Safe(img, lv, w)
<1> DEFINE i == v.ip
           n == Len(img.code)
           c == v.calls
           m == Len(c)
<1>1. i \in 1..n /\ Len(v.env) >= Floor(c, m + 1) + lv[i].scopes /\ FramesSafe(n, lv, c)
  BY DEF Safe
<1>2. PICK frame : /\ w.calls = Append(c, frame)
                   /\ frame.return_ip = i + 1 /\ frame.saved_env = Len(v.env)
  BY DEF Calls
<1>3. /\ n \in Nat /\ i + 1 \in 1..n /\ lv[i + 1].scopes \in Nat /\ lv[i].scopes \in Nat
      /\ lv[i + 1].scopes <= lv[i].scopes
      /\ w.ip \in 2..n /\ lv[w.ip].scopes = 0
  <2>1. Falls(img.code[i]) /\ img.code[i].op \notin LevelOps /\ w.ip \in FunctionStarts(img)
    BY DEF Calls, Falls, LevelOps
  <2>2. /\ n \in Nat /\ i + 1 \in 1..n /\ lv[i + 1].scopes \in Nat /\ lv[i].scopes \in Nat
        /\ lv[i + 1].scopes <= LevelAfter(lv[i], img.code[i].op).scopes
    BY <1>1, <2>1, CodeFacts
  <2>4. w.ip \in 2..n /\ lv[w.ip].scopes = 0
    BY <2>1 DEF WellFormed
  <2>3. LevelAfter(lv[i], img.code[i].op).scopes = lv[i].scopes
    BY <2>1, <2>2, LevelAfterIs
  <2> QED BY <2>2, <2>3, <2>4
<1>4. IsSeq(c) /\ m \in Nat /\ Len(v.env) \in Nat /\ Floor(c, m + 1) \in Nat
  <2>1. m + 1 \in 1..m + 1 /\ Len(v.env) \in Nat /\ IsSeq(c) /\ m \in Nat
    BY SeqFacts DEF Safe, Machine
  <2> QED BY <1>1, <2>1, FloorNat
<1>5. /\ Len(w.calls) = m + 1 /\ w.calls[m + 1] = frame
      /\ \A k \in 1..m : w.calls[k] = c[k]
  BY <1>2, <1>4, SeqAppend
<1>6. \A k \in 1..m + 1 : Floor(w.calls, k) = Floor(c, k)
  BY <1>4, <1>5 DEF Floor
<1>7. Floor(w.calls, m + 2) = Len(v.env) + 1
  BY <1>2, <1>4, <1>5 DEF Floor
<1>8. FramesSafe(n, lv, w.calls)
  <2> SUFFICES ASSUME NEW k \in 1..m + 1
               PROVE  /\ w.calls[k].return_ip \in 1..n
                      /\ w.calls[k].saved_env \in Nat
                      /\ w.calls[k].saved_env
                           >= Floor(w.calls, k) + lv[w.calls[k].return_ip].scopes
    BY <1>5 DEF FramesSafe
  <2>1. CASE k = m + 1
    <3>1. Floor(w.calls, k) = Floor(c, m + 1)
      BY <1>4, <1>6, <2>1
    <3>2. w.calls[k] = frame
      BY <1>5, <2>1
    <3>3. Len(v.env) >= Floor(c, m + 1) + lv[i + 1].scopes
      <4> DEFINE e == Len(v.env)
                 F == Floor(c, m + 1)
                 s == lv[i].scopes
                 t == lv[i + 1].scopes
      <4>1. e \in Int /\ F \in Int /\ s \in Int /\ t \in Int /\ e >= F + s /\ t <= s
        BY <1>1, <1>3, <1>4
      <4> HIDE DEF e, F, s, t
      <4>2. e >= F + t
        BY <4>1, AtLeastAsMany
      <4> QED BY <4>2 DEF e, F, t
    <3> QED BY <1>2, <1>3, <1>4, <3>1, <3>2, <3>3
  <2>2. CASE k # m + 1
    <3>1. k \in 1..m
      BY <1>4, <2>2
    <3>2. w.calls[k] = c[k] /\ Floor(w.calls, k) = Floor(c, k)
      BY <1>4, <1>5, <1>6, <3>1
    <3> QED BY <1>1, <3>1, <3>2 DEF FramesSafe
  <2> QED BY <2>1, <2>2
<1>9. Len(w.env) = Len(v.env) + 1 /\ Machine(w)
  BY DEF Calls
<1>10. Len(w.calls) + 1 = m + 2
  BY <1>4, <1>5
<1>11. Len(w.env) >= Floor(w.calls, Len(w.calls) + 1) + lv[w.ip].scopes /\ Len(w.env) >= 1
  BY <1>3, <1>4, <1>7, <1>9, <1>10
<1> QED BY <1>3, <1>8, <1>9, <1>11 DEF Safe

LEMMA SafeReturns ==
    ASSUME NEW img, NEW lv, WellFormed(img, lv), NEW v, NEW w,
           Safe(img, lv, v), ~v.halted, v.calls # <<>>, Returned(v, w)
    PROVE  Safe(img, lv, w)
<1> DEFINE n == Len(img.code)
           c == v.calls
           m == Len(c)
<1>1. /\ v.ip \in 1..n /\ Len(v.env) >= Floor(c, m + 1) + lv[v.ip].scopes
      /\ FramesSafe(n, lv, c) /\ lv[v.ip].scopes \in Nat
  <2>1. /\ v.ip \in 1..n /\ Len(v.env) >= Floor(c, m + 1) + lv[v.ip].scopes
        /\ FramesSafe(n, lv, c)
    BY DEF Safe
  <2>2. lv[v.ip].scopes \in Nat
    BY <2>1 DEF WellFormed
  <2> QED BY <2>1, <2>2
<1>2. IsSeq(c) /\ m \in Nat /\ m >= 1 /\ Len(v.env) \in Nat
  <2>1. IsSeq(c) /\ IsSeq(v.env)
    BY DEF Safe, Machine
  <2>2. m \in Nat /\ Len(v.env) \in Nat
    BY <2>1, SeqFacts
  <2>3. m # 0
    BY <2>1 DEF IsSeq
  <2> QED BY <2>1, <2>2, <2>3
<1>3. /\ Len(w.calls) = m - 1 /\ \A k \in 1..m - 1 : w.calls[k] = c[k]
      /\ w.ip = c[m].return_ip
  BY <1>2, SeqFront DEF Returned
<1>4. \A k \in 1..m : Floor(w.calls, k) = Floor(c, k)
  BY <1>2, <1>3 DEF Floor
<1>5. Floor(c, m + 1) = c[m].saved_env + 1
  BY <1>2 DEF Floor
<1>6. /\ w.ip \in 1..n /\ c[m].saved_env \in Nat
      /\ c[m].saved_env >= Floor(c, m) + lv[w.ip].scopes
  BY <1>1, <1>2, <1>3 DEF FramesSafe
<1>7. Floor(c, m) \in Nat /\ Floor(c, m) >= 1 /\ lv[w.ip].scopes \in Nat
  <2>1. m \in 1..m + 1
    BY <1>2
  <2> QED BY <1>1, <1>2, <1>6, <2>1, FloorNat DEF WellFormed
<1>8. Len(w.env) = Len(v.env) - 1 /\ Machine(w)
  BY DEF Returned
<1>9. Len(w.env) >= Floor(c, m) + lv[w.ip].scopes /\ Len(w.env) >= 1
  <2> DEFINE e == Len(v.env)
             F == Floor(c, m)
             G == Floor(c, m + 1)
             b == c[m].saved_env
             s == lv[v.ip].scopes
             t == lv[w.ip].scopes
  <2>1. e \in Nat /\ F \in Nat /\ b \in Nat /\ s \in Nat /\ t \in Nat
    BY <1>1, <1>2, <1>6, <1>7
  <2>2. e >= G + s /\ G = b + 1 /\ b >= F + t /\ F >= 1 /\ Len(w.env) = e - 1
    BY <1>1, <1>5, <1>6, <1>7, <1>8
  <2> HIDE DEF e, F, G, b, s, t
  <2>3. e - 1 >= F + t /\ e - 1 >= 1
    BY <2>1, <2>2
  <2>4. Len(w.env) >= F + t /\ Len(w.env) >= 1
    BY <2>2, <2>3
  <2> QED BY <2>4 DEF F, t
<1>10. FramesSafe(n, lv, w.calls)
  <2>1. \A k \in 1..m - 1 : k \in 1..m
    BY <1>2
  <2> QED BY <1>1, <1>3, <1>4, <2>1 DEF FramesSafe
<1>11. Len(w.calls) + 1 = m /\ Floor(w.calls, m) = Floor(c, m) /\ n \in Nat
  BY <1>2, <1>3, <1>4 DEF WellFormed
<1>12. w.ip \in 1..n + 1
  BY <1>6, <1>11
<1> QED BY <1>6, <1>8, <1>9, <1>10, <1>11, <1>12 DEF Safe

LEMMA SafeEffect ==
    ASSUME NEW img, NEW lv, WellFormed(img, lv), NEW v, NEW w, NEW named,
           Safe(img, lv, v), ~v.halted, Effect(img, v, w, named)
    PROVE  Safe(img, lv, w)
<1>1. ASSUME Returns(img, v, w, named) PROVE Safe(img, lv, w)
  BY <1>1, SafeReturns DEF Returns
<1> QED BY <1>1, SafeFlows, SafeTurns, SafeEnds, SafeCalls DEF Effect

-----------------------------------------------------------------------------
(* Processes: forks, and the end of a wait.                                *)

\* w is a child of v that starts at s.
KidOf(img, v, s, w) ==
    /\ Like([v EXCEPT !.ip = s,
                      !.seg = [from |-> s, to |-> EndOf(img.code, s), calls |-> Len(v.calls)]], w)
    /\ ~w.halted

\* The machine p forks children and goes on, or waits for them.
Forks(p) ==
    \E u, kids :
        /\ procs' = [procs EXCEPT ![p] = u] \o kids
        /\ Like([procs[p] EXCEPT !.ip = @ + 1, !.wait = u.wait], u) /\ ~u.halted
        /\ Falls(Ins(p)) /\ Ins(p).op \notin LevelOps
        /\ \/ u.wait.op = ""
           \/ /\ IsSeq(u.wait.kids) /\ u.wait.kids # <<>>
              /\ \A i \in DOMAIN u.wait.kids :
                   u.wait.kids[i] \in Len(procs) + 1 .. Len(procs) + Len(kids)
        /\ IsSeq(kids)
        /\ \A j \in 1..Len(kids) :
             \E s \in Segments(Ins(p)) : KidOf(Loaded[prog], procs[p], s, kids[j])

Collects(p) ==
    /\ procs[p].wait.op # ""
    /\ \E w : /\ procs' = [procs EXCEPT ![p] = w]
              /\ Like([procs[p] EXCEPT !.wait = NoWait], w)

LEMMA ChildIsKid ==
    ASSUME NEW p, Machine(procs[p]), ~procs[p].halted, NEW s, s # 1,
           NEW v, v = procs[p] \/ v = Fetched(p), NEW fds, NEW b \in BOOLEAN
    PROVE  /\ KidOf(Loaded[prog], procs[p], s, Child(v, s, fds))
           /\ KidOf(Loaded[prog], procs[p], s, [Child(v, s, fds) EXCEPT !.errexit = b])
<1> DEFINE w == Child(v, s, fds)
           seg == [from |-> s, to |-> EndOf(Loaded[prog].code, s), calls |-> Len(procs[p].calls)]
<1>1. Machine(v) /\ v.calls = procs[p].calls /\ v.env = procs[p].env
      /\ v.wait = procs[p].wait /\ v.suppressed = procs[p].suppressed
      /\ v.halted = procs[p].halted
  <2>1. CASE v = procs[p]
    BY <2>1
  <2>2. CASE v = Fetched(p)
    <3>1. Fetched(p).halted = procs[p].halted
      BY DEF Fetched, Machine, MachineFields
    <3> QED BY <2>2, <3>1, FetchedMachine, FetchedIs
  <2> QED BY <2>1, <2>2
<1>2. EndOf(Loaded[prog].code, s) = Code[s - 1].to - 1
  BY DEF EndOf, Code
<1>3. Machine(w) /\ w.ip = s /\ w.seg = seg /\ w.calls = v.calls /\ w.env = v.env
      /\ w.wait = v.wait /\ w.suppressed = v.suppressed /\ ~w.halted
  BY <1>1, <1>2 DEF Child, Machine, MachineFields
<1> HIDE DEF w, seg
<1>4. Like([procs[p] EXCEPT !.ip = s, !.seg = seg], w)
  BY <1>1, <1>3 DEF Like, Machine, MachineFields
<1>5. Like(w, [w EXCEPT !.errexit = b]) /\ ~[w EXCEPT !.errexit = b].halted
  BY <1>3, LikeFlag DEF Machine, MachineFields
<1>6. Like([procs[p] EXCEPT !.ip = s, !.seg = seg], [w EXCEPT !.errexit = b])
  BY <1>4, <1>5, LikeThrough
<1> QED BY <1>3, <1>4, <1>5, <1>6 DEF KidOf, w, seg

LEMMA ForkAndWaitForks ==
    ASSUME NEW p \in DOMAIN procs, IsSeq(procs), Machine(procs[p]), ~procs[p].halted,
           NEW offsets, NEW n \in Nat \ {0}, Len(offsets) = n, DOMAIN offsets = 1..n,
           \A i \in 1..n : offsets[i] \in Segments(Ins(p)) /\ offsets[i] # 1,
           Falls(Ins(p)), Ins(p).op \notin LevelOps,
           NEW fds, NEW negate, ForkAndWait(p, offsets, fds, negate)
    PROVE  Forks(p)
<1> DEFINE f == Fetched(p)
           kids == [i \in DOMAIN offsets |-> Child(f, offsets[i], fds[i])]
           ids == [i \in DOMAIN offsets |-> Len(procs) + i]
           wait == [op |-> Ins(p).op, kids |-> ids, negate |-> negate]
           u == [f EXCEPT !.wait = wait]
<1>1. procs' = [procs EXCEPT ![p] = u] \o kids
  BY DEF ForkAndWait
<1>2. IsSeq(kids) /\ Len(kids) = n /\ IsSeq(ids) /\ Len(ids) = n
  <2>1. DOMAIN kids = 1..n /\ kids = [i \in DOMAIN kids |-> kids[i]]
    OBVIOUS
  <2>2. DOMAIN ids = 1..n /\ ids = [i \in DOMAIN ids |-> ids[i]]
    OBVIOUS
  <2> HIDE DEF kids, ids
  <2> QED BY <2>1, <2>2, FunIsSeq
<1>3. Like([procs[p] EXCEPT !.ip = @ + 1, !.wait = u.wait], u) /\ ~u.halted /\ u.wait = wait
  BY DEF Fetched, Like, Machine, MachineFields
<1>4. \A i \in 1..n : ids[i] \in Len(procs) + 1 .. Len(procs) + n
  <2>1. Len(procs) \in Nat
    BY SeqFacts
  <2> QED BY <2>1
<1>5. \A j \in 1..n : KidOf(Loaded[prog], procs[p], offsets[j], kids[j])
  BY ChildIsKid
<1>6. wait.kids = ids /\ ids # <<>> /\ DOMAIN ids = 1..n
  <2>1. wait.kids = ids /\ DOMAIN ids = 1..n /\ 1 \in 1..n
    OBVIOUS
  <2> HIDE DEF ids, wait
  <2> QED BY <2>1
<1> HIDE DEF u, kids, wait, ids
<1> QED BY <1>1, <1>2, <1>3, <1>4, <1>5, <1>6 DEF Forks

LEMMA ForkSteps ==
    ASSUME NEW p \in DOMAIN procs, IsSeq(procs), Machine(procs[p]),
           NEW lv, WellFormed(Loaded[prog], lv), procs[p].ip \in 1..Len(Code),
           OP_CMD_SUBST(p) \/ OP_SUBSHELL(p) \/ OP_PIPELINE(p) \/ OP_BACKGROUND(p)
    PROVE  Forks(p)
<1>1. \A s \in Segments(Ins(p)) : s # 1
  <2>1. \A s \in Segments(Ins(p)) : s \in 2..Len(Code)
    BY CodeFacts DEF Code, Ins
  <2> QED BY <2>1 DEF Code, WellFormed
<1>2. ASSUME NEW op \in {"CMD_SUBST", "SUBSHELL"}, At(p, op, 0), NEW fds,
             ForkAndWait(p, <<Ins(p).to>>, fds, FALSE)
      PROVE  Forks(p)
  <2>1. /\ ~procs[p].halted /\ Falls(Ins(p)) /\ Ins(p).op \notin LevelOps
        /\ Segments(Ins(p)) = {Ins(p).to}
    BY <1>2 DEF At, Running, Falls, LevelOps, Segments
  <2> DEFINE o == <<Ins(p).to>>
  <2>2. Len(o) = 1 /\ DOMAIN o = 1..1 /\ o[1] = Ins(p).to
    OBVIOUS
  <2>3. ForkAndWait(p, o, fds, FALSE)
    BY <1>2
  <2> HIDE DEF o
  <2>4. \A i \in 1..1 : o[i] \in Segments(Ins(p)) /\ o[i] # 1
    BY <1>1, <2>1, <2>2
  <2>5. 1 \in Nat \ {0}
    OBVIOUS
  <2> QED BY <2>1, <2>2, <2>3, <2>4, <2>5, ForkAndWaitForks
<1>3. CASE OP_CMD_SUBST(p)
  BY <1>2, <1>3 DEF OP_CMD_SUBST
<1>4. CASE OP_SUBSHELL(p)
  BY <1>2, <1>4 DEF OP_SUBSHELL
<1>5. CASE OP_PIPELINE(p)
  <2>1. At(p, "PIPELINE", 0)
    BY <1>5 DEF OP_PIPELINE
  <2>2. PICK fds : ForkAndWait(p, Ins(p).offsets, fds, Ins(p).negate)
    BY <1>5 DEF OP_PIPELINE
  <2>3. /\ ~procs[p].halted /\ Falls(Ins(p)) /\ Ins(p).op \notin LevelOps
        /\ Segments(Ins(p)) = {Ins(p).offsets[i] : i \in DOMAIN Ins(p).offsets}
    BY <2>1 DEF At, Running, Falls, LevelOps, Segments
  <2>4. /\ Len(Ins(p).offsets) \in Nat \ {0}
        /\ DOMAIN Ins(p).offsets = 1..Len(Ins(p).offsets)
    BY <2>1 DEF WellFormed, At, Ins, Code
  <2> QED BY <1>1, <2>2, <2>3, <2>4, ForkAndWaitForks
<1>6. CASE OP_BACKGROUND(p)
  <2>1. At(p, "BACKGROUND", 0)
    BY <1>6 DEF OP_BACKGROUND
  <2>2. /\ ~procs[p].halted /\ Falls(Ins(p)) /\ Ins(p).op \notin LevelOps
        /\ Segments(Ins(p)) = {Ins(p).to} /\ procs[p].wait.op = ""
    BY <2>1 DEF At, Running, Falls, LevelOps, Segments
  <2> DEFINE fds == [procs[p].fds EXCEPT ![0] = "null"]
             kid == [Child(procs[p], Ins(p).to, fds) EXCEPT !.errexit = FALSE]
             u == [Fetched(p) EXCEPT !.last = 0]
  <2>3. procs' = [procs EXCEPT ![p] = u] \o <<kid>>
    BY <1>6 DEF OP_BACKGROUND
  <2>4. KidOf(Loaded[prog], procs[p], Ins(p).to, kid)
    BY <1>1, <2>2, ChildIsKid
  <2>5. Like(Fetched(p), u)
    BY FetchedMachine, LikeOnlyLast
  <2>6. u.wait = procs[p].wait /\ ~u.halted
    <3>1. u.halted = procs[p].halted
      BY DEF Fetched, Machine, MachineFields
    <3> QED BY <2>2, <2>5, <3>1, FetchedIs DEF Like
  <2> HIDE DEF u, kid
  <2>7. Like([procs[p] EXCEPT !.ip = @ + 1, !.wait = u.wait], u)
    <3>1. [procs[p] EXCEPT !.ip = @ + 1, !.wait = procs[p].wait] = Fetched(p)
      BY DEF Fetched, Machine, MachineFields
    <3> QED BY <2>5, <2>6, <3>1
  <2> DEFINE kids == <<kid>>
  <2>8. IsSeq(kids) /\ Len(kids) = 1 /\ kids[1] = kid
    BY SeqOne
  <2>9. procs' = [procs EXCEPT ![p] = u] \o kids
    BY <2>3
  <2> HIDE DEF kids
  <2>10. \A j \in 1..Len(kids) :
           \E s \in Segments(Ins(p)) : KidOf(Loaded[prog], procs[p], s, kids[j])
    <3>1. \A j \in 1..1 : j = 1
      OBVIOUS
    <3>2. Ins(p).to \in Segments(Ins(p)) /\ KidOf(Loaded[prog], procs[p], Ins(p).to, kids[1])
      BY <2>2, <2>4, <2>8
    <3> QED BY ONLY <2>8, <3>1, <3>2
  <2> QED BY <2>2, <2>6, <2>7, <2>8, <2>9, <2>10 DEF Forks
<1> QED BY <1>3, <1>4, <1>5, <1>6

\* What a parent takes from the status of a child is a byte.
LEMMA StatusByte ==
    ASSUME NEW x \in 0..255, NEW negate
    PROVE  (IF negate THEN (IF x % 256 = 0 THEN 1 ELSE 0) ELSE x % 256) \in 0..255
<1>1. x % 256 \in 0..255
  BY SMT
<1>2. (IF x % 256 = 0 THEN 1 ELSE 0) \in 0..255
  BY SMT
<1> QED BY <1>1, <1>2, Zenon

LEMMA LastIn ==
    ASSUME NEW s, IsSeq(s), s # <<>>
    PROVE  \E i \in DOMAIN s : Last(s) = s[i]
<1>1. Len(s) \in Nat /\ DOMAIN s = 1..Len(s)
  BY SeqFacts
<1>2. Len(s) # 0
  BY DEF IsSeq
<1>3. Len(s) \in 1..Len(s)
  BY <1>1, <1>2
<1> QED BY <1>1, <1>3 DEF Last

LEMMA WaitOver ==
    ASSUME NEW v, Machine(v), NEW e \in 0..255
    PROVE  Like([v EXCEPT !.wait = NoWait], [v EXCEPT !.wait = NoWait, !.last = e])
BY DEF Like, Machine, MachineFields

LEMMA CollectSteps ==
    ASSUME NEW p \in DOMAIN procs, \A q \in DOMAIN procs : Machine(procs[q]),
           procs[p].wait.op # "" => /\ IsSeq(procs[p].wait.kids) /\ procs[p].wait.kids # <<>>
                                    /\ \A i \in DOMAIN procs[p].wait.kids :
                                         procs[p].wait.kids[i] \in DOMAIN procs,
           NEW op \in {"CMD_SUBST", "SUBSHELL", "PIPELINE"}, Collect(p, op)
    PROVE  Collects(p)
<1> DEFINE wait == procs[p].wait
           last == Last(wait.kids)
           st   == procs[last].last % 256
           e    == IF wait.negate THEN (IF st = 0 THEN 1 ELSE 0) ELSE st
           v    == [procs[p] EXCEPT !.wait = NoWait, !.last = e]
           w    == IF op = "CMD_SUBST"
                   THEN Push(v, Str(Captured(out[PipeName(last)]))) ELSE v
<1>1. wait.op = op /\ procs' = [procs EXCEPT ![p] = Errexit(op, w)] /\ wait.op # ""
  BY DEF Collect
<1>2. last \in DOMAIN procs
  <2>1. PICK i \in DOMAIN wait.kids : last = wait.kids[i]
    BY <1>1, LastIn
  <2> QED BY <1>1, <2>1
<1>3. procs[last].last \in 0..255
  <2> HIDE DEF last
  <2> QED BY <1>2 DEF Machine
<1>4. e \in 0..255
  <2> HIDE DEF last, wait
  <2> QED BY ONLY <1>3, StatusByte DEF e, st
<1> HIDE DEF e
<1>5. Like([procs[p] EXCEPT !.wait = NoWait], v)
  BY <1>4, WaitOver
<1> HIDE DEF v, wait, last
<1>6. Like(v, w) /\ Machine(w)
  <2>1. Machine(v)
    BY <1>5 DEF Like
  <2>2. Like(v, v)
    BY <2>1 DEF Like
  <2>3. \A x : Like(v, Push(v, x))
    BY <2>1, LikePush
  <2>4. Like(v, w)
    BY <2>2, <2>3
  <2> QED BY <2>4 DEF Like
<1> HIDE DEF w
<1>7. Like([procs[p] EXCEPT !.wait = NoWait], Errexit(op, w))
  BY <1>5, <1>6, LikeErrexit, LikeThrough
<1> QED BY <1>1, <1>7 DEF Collects, wait

-----------------------------------------------------------------------------
(* The steps of the system.                                                *)

\* Who waits has not ended, and waits for machines forked after it.
Waiting(q, n, v) ==
    v.wait.op # "" => /\ ~v.halted
                      /\ IsSeq(v.wait.kids) /\ v.wait.kids # <<>>
                      /\ \A i \in DOMAIN v.wait.kids : v.wait.kids[i] \in q + 1 .. n

VmInv ==
    /\ prog \in DOMAIN Loaded /\ Loaded[prog].ok
    /\ world \in [DOMAIN Script -> Nat]
    /\ IsSeq(procs) /\ Len(procs) >= 1
    /\ \A q \in DOMAIN procs :
         /\ Safe(Loaded[prog], Levels(Loaded[prog]), procs[q])
         /\ Waiting(q, Len(procs), procs[q])

LEMMA CodeIsWellFormed ==
    ASSUME prog \in DOMAIN Loaded, Loaded[prog].ok
    PROVE  WellFormed(Loaded[prog], Levels(Loaded[prog]))
BY CodeAssumption

LEMMA ExecCases ==
    ASSUME VmInv, NEW p \in DOMAIN procs, Exec(p)
    PROVE  /\ prog' = prog /\ world' \in [DOMAIN Script -> Nat]
           /\ \/ Running(p) /\ procs[p].ip \in 1..Len(Code) /\ Stepped(p)
              \/ Running(p) /\ procs[p].ip \in 1..Len(Code) /\ Forks(p)
              \/ Collects(p)
<1> DEFINE lv == Levels(Loaded[prog])
<1>1. /\ IsSeq(procs) /\ WellFormed(Loaded[prog], lv) /\ world \in [DOMAIN Script -> Nat]
      /\ \A q \in DOMAIN procs : Machine(procs[q])
      /\ Len(procs[p].env) >= 1 /\ Safe(Loaded[prog], lv, procs[p])
      /\ Waiting(p, Len(procs), procs[p])
  BY CodeIsWellFormed DEF VmInv, Safe
<1>2. Len(procs) \in Nat /\ DOMAIN procs = 1..Len(procs)
  BY <1>1, SeqFacts
<1> HIDE DEF lv
<1>3. ASSUME Running(p) PROVE procs[p].ip \in 1..Len(Code)
  BY <1>1, <1>3 DEF Running, Safe, Code
<1>4. CASE \/ OP_PUSH_CONST(p) \/ OP_PUSH_INT(p) \/ OP_POP(p) \/ OP_DUP(p)
           \/ OP_CONCAT(p) \/ OP_GET_SPECIAL(p) \/ OP_SPLIT_FIELDS(p)
           \/ OP_EXPAND_ARGS(p) \/ OP_COLLECT_WORDS(p)
           \/ OP_GET_VAR(p) \/ OP_GET_LOCAL(p) \/ OP_EXPORT(p)
  <2>1. Stepped(p)
    BY <1>1, <1>4, OperandSteps
  <2>2. Running(p) /\ UNCHANGED <<prog, world>>
    BY <1>4 DEF OP_PUSH_CONST, OP_PUSH_INT, OP_POP, OP_DUP, OP_CONCAT, OP_GET_SPECIAL,
                OP_SPLIT_FIELDS, OP_EXPAND_ARGS, OP_COLLECT_WORDS, OP_GET_VAR,
                OP_GET_LOCAL, OP_EXPORT, At, Only
  <2> QED BY <1>1, <1>3, <2>1, <2>2
<1>5. CASE OP_JMP(p) \/ OP_JMP_TRUE(p) \/ OP_JMP_FALSE(p) \/ OP_JMP_NONE(p)
  <2>1. Stepped(p)
    BY <1>1, <1>5, JumpSteps
  <2>2. Running(p) /\ UNCHANGED <<prog, world>>
    BY <1>5 DEF OP_JMP, OP_JMP_TRUE, OP_JMP_FALSE, OP_JMP_NONE, At, Only
  <2> QED BY <1>1, <1>3, <2>1, <2>2
<1>6. CASE \/ OP_SET_VAR(p) \/ OP_SET_LOCAL(p) \/ OP_INIT_ITER(p) \/ OP_GET_NEXT_ITER(p)
           \/ OP_TEST_UNARY(p) \/ OP_TEST_BINARY(p) \/ OP_PATTERN_MATCH(p)
           \/ OP_NEGATE_STATUS(p) \/ OP_STATUS_ZERO(p)
  <2>1. Stepped(p)
    BY <1>1, <1>6, ValueSteps
  <2>2. Running(p) /\ UNCHANGED <<prog, world>>
    BY <1>6 DEF OP_SET_VAR, OP_SET_LOCAL, OP_INIT_ITER, OP_GET_NEXT_ITER, OP_TEST_UNARY,
                OP_TEST_BINARY, OP_PATTERN_MATCH, OP_NEGATE_STATUS, OP_STATUS_ZERO, At, Only
  <2> QED BY <1>1, <1>3, <2>1, <2>2
<1>7. CASE \/ OP_REDIR_SAVE(p) \/ OP_REDIR_RESTORE(p) \/ OP_REDIR_OPEN(p)
           \/ OP_REDIR_DUP(p) \/ OP_REDIR_CLOSE(p) \/ OP_REDIR_HERE(p)
  <2>1. Stepped(p)
    BY <1>1, <1>7, RedirSteps
  <2>2. Running(p) /\ UNCHANGED <<prog, world>>
    BY <1>7 DEF OP_REDIR_SAVE, OP_REDIR_RESTORE, OP_REDIR_OPEN, OP_REDIR_DUP,
                OP_REDIR_CLOSE, OP_REDIR_HERE, At, Only
  <2> QED BY <1>1, <1>3, <2>1, <2>2
<1>8. CASE OP_PUSH_SCOPE(p) \/ OP_POP_SCOPE(p) \/ OP_ERREXIT_PUSH(p) \/ OP_ERREXIT_POP(p)
  <2>1. Stepped(p)
    BY <1>1, <1>8, TurnSteps
  <2>2. Running(p) /\ UNCHANGED <<prog, world>>
    BY <1>8 DEF OP_PUSH_SCOPE, OP_POP_SCOPE, OP_ERREXIT_PUSH, OP_ERREXIT_POP, At, Only
  <2> QED BY <1>1, <1>3, <2>1, <2>2
<1>9. CASE OP_HALT(p) \/ OP_RET(p)
  <2>1. Stepped(p)
    BY <1>1, <1>9, EndSteps
  <2>2. Running(p) /\ UNCHANGED <<prog, world>>
    BY <1>9 DEF OP_HALT, OP_RET, At, Only
  <2> QED BY <1>1, <1>3, <2>1, <2>2
<1>10. CASE OP_EXEC_BUILTIN(p) \/ OP_EXEC_FUNC(p) \/ OP_EXEC_SIMPLE(p)
  <2>1. Running(p)
    BY <1>10 DEF OP_EXEC_BUILTIN, OP_EXEC_FUNC, OP_EXEC_SIMPLE, AtCommand, At
  <2> QED BY <1>1, <1>3, <1>10, <2>1, CommandSteps
<1>11. CASE OP_CMD_SUBST(p) \/ OP_SUBSHELL(p) \/ OP_PIPELINE(p) \/ OP_BACKGROUND(p)
  <2>1. Running(p) /\ UNCHANGED <<prog, world>>
    BY <1>11 DEF OP_CMD_SUBST, OP_SUBSHELL, OP_PIPELINE, OP_BACKGROUND, At
  <2>2. Forks(p)
    BY <1>1, <1>3, <1>11, <2>1, ForkSteps
  <2> QED BY <1>1, <1>3, <2>1, <2>2
<1>12. CASE Collect(p, "CMD_SUBST") \/ Collect(p, "SUBSHELL") \/ Collect(p, "PIPELINE")
  <2>1. \A k \in p + 1 .. Len(procs) : k \in DOMAIN procs
    BY <1>2
  <2>2. procs[p].wait.op # "" => /\ IsSeq(procs[p].wait.kids) /\ procs[p].wait.kids # <<>>
                                 /\ \A i \in DOMAIN procs[p].wait.kids :
                                      procs[p].wait.kids[i] \in DOMAIN procs
    BY <1>1, <2>1 DEF Waiting
  <2>3. Collects(p)
    BY <1>1, <1>12, <2>2, CollectSteps
  <2>4. UNCHANGED <<prog, world>>
    BY <1>12 DEF Collect
  <2> QED BY <1>1, <2>3, <2>4
<1> QED BY <1>4, <1>5, <1>6, <1>7, <1>8, <1>9, <1>10, <1>11, <1>12 DEF Exec

\* What became of machine q in a step: nothing, an instruction, a fork (it goes on
\* or waits), the end of its wait; or it is a child just forked.
Parent(q) ==
    LET w == procs'[q]
    IN  /\ Falls(Ins(q)) /\ Ins(q).op \notin LevelOps
        /\ Like([procs[q] EXCEPT !.ip = @ + 1, !.wait = w.wait], w) /\ ~w.halted
        /\ \/ w.wait.op = ""
           \/ /\ IsSeq(w.wait.kids) /\ w.wait.kids # <<>>
              /\ \A i \in DOMAIN w.wait.kids :
                   w.wait.kids[i] \in Len(procs) + 1 .. Len(procs')

Active(q) == q \in DOMAIN procs /\ Running(q) /\ procs[q].ip \in 1..Len(Code)

Moved(q) ==
    \/ q \in DOMAIN procs /\ procs'[q] = procs[q]
    \/ Active(q) /\ Effect(Loaded[prog], procs[q], procs'[q], ReturnsByName(q))
    \/ Active(q) /\ Parent(q)
    \/ /\ q \in DOMAIN procs /\ procs[q].wait.op # ""
       /\ Like([procs[q] EXCEPT !.wait = NoWait], procs'[q])
    \/ /\ q \notin DOMAIN procs
       /\ \E p \in DOMAIN procs : /\ Active(p)
                                  /\ \E s \in Segments(Ins(p)) :
                                       KidOf(Loaded[prog], procs[p], s, procs'[q])

\* A step as all machines see it.
AllMoved ==
    /\ prog' = prog /\ world' \in [DOMAIN Script -> Nat]
    /\ IsSeq(procs') /\ Len(procs') >= Len(procs)
    /\ \A q \in DOMAIN procs' : Moved(q)

LEMMA SteppedMoved ==
    ASSUME VmInv, NEW p \in DOMAIN procs, Active(p), Stepped(p)
    PROVE  IsSeq(procs') /\ Len(procs') >= Len(procs) /\ \A q \in DOMAIN procs' : Moved(q)
<1>1. PICK w : /\ procs' = [procs EXCEPT ![p] = w]
               /\ Effect(Loaded[prog], procs[p], w, ReturnsByName(p))
  BY DEF Stepped
<1>2. IsSeq(procs) /\ Len(procs) \in Nat
  BY SeqFacts DEF VmInv
<1>3. IsSeq(procs') /\ Len(procs') = Len(procs)
  BY <1>1, <1>2, SeqExcept
<1>4. DOMAIN procs' = DOMAIN procs
  BY <1>1
<1>5. ASSUME NEW q \in DOMAIN procs PROVE Moved(q)
  <2>1. CASE q = p
    <3>1. procs'[q] = w
      BY <1>1, <2>1
    <3> QED BY <1>1, <2>1, <3>1 DEF Moved
  <2>2. CASE q # p
    <3>1. procs'[q] = procs[q]
      BY <1>1, <2>2
    <3> QED BY <3>1 DEF Moved
  <2> QED BY <2>1, <2>2
<1> QED BY <1>2, <1>3, <1>4, <1>5

LEMMA CollectsMoved ==
    ASSUME VmInv, NEW p \in DOMAIN procs, Collects(p)
    PROVE  IsSeq(procs') /\ Len(procs') >= Len(procs) /\ \A q \in DOMAIN procs' : Moved(q)
<1>1. PICK w : /\ procs' = [procs EXCEPT ![p] = w]
               /\ Like([procs[p] EXCEPT !.wait = NoWait], w)
  BY DEF Collects
<1>2. IsSeq(procs) /\ Len(procs) \in Nat
  BY SeqFacts DEF VmInv
<1>3. IsSeq(procs') /\ Len(procs') = Len(procs)
  BY <1>1, <1>2, SeqExcept
<1>4. DOMAIN procs' = DOMAIN procs
  BY <1>1
<1>5. ASSUME NEW q \in DOMAIN procs PROVE Moved(q)
  <2>1. CASE q = p
    <3>1. procs'[q] = w /\ procs[q].wait.op # ""
      BY <1>1, <2>1 DEF Collects
    <3> QED BY <1>1, <2>1, <3>1 DEF Moved
  <2>2. CASE q # p
    <3>1. procs'[q] = procs[q]
      BY <1>1, <2>2
    <3> QED BY <3>1 DEF Moved
  <2> QED BY <2>1, <2>2
<1> QED BY <1>2, <1>3, <1>4, <1>5

LEMMA ForksMoved ==
    ASSUME VmInv, NEW p \in DOMAIN procs, Active(p), Forks(p)
    PROVE  IsSeq(procs') /\ Len(procs') >= Len(procs) /\ \A q \in DOMAIN procs' : Moved(q)
<1>1. PICK u, kids :
        /\ procs' = [procs EXCEPT ![p] = u] \o kids
        /\ Like([procs[p] EXCEPT !.ip = @ + 1, !.wait = u.wait], u) /\ ~u.halted
        /\ Falls(Ins(p)) /\ Ins(p).op \notin LevelOps
        /\ \/ u.wait.op = ""
           \/ /\ IsSeq(u.wait.kids) /\ u.wait.kids # <<>>
              /\ \A i \in DOMAIN u.wait.kids :
                   u.wait.kids[i] \in Len(procs) + 1 .. Len(procs) + Len(kids)
        /\ IsSeq(kids)
        /\ \A j \in 1..Len(kids) :
             \E s \in Segments(Ins(p)) : KidOf(Loaded[prog], procs[p], s, kids[j])
  BY DEF Forks
<1> DEFINE old == [procs EXCEPT ![p] = u]
           n == Len(procs)
           m == Len(kids)
<1>2. IsSeq(procs) /\ n \in Nat /\ m \in Nat /\ DOMAIN procs = 1..n
  BY <1>1, SeqFacts DEF VmInv
<1>3. IsSeq(old) /\ Len(old) = n
  BY <1>2, SeqExcept
<1>4. \A q \in DOMAIN procs : old[q] = IF q = p THEN u ELSE procs[q]
  OBVIOUS
<1>10. procs' = old \o kids /\ IsSeq(kids)
  BY <1>1
<1> HIDE DEF old
<1> DEFINE cat == old \o kids
<1>11. /\ IsSeq(cat) /\ Len(cat) = Len(old) + m
       /\ \A i \in 1..Len(old) : cat[i] = old[i]
       /\ \A i \in 1..m : cat[Len(old) + i] = kids[i]
  <2>1. IsSeq(old) /\ IsSeq(kids)
    BY <1>3, <1>10
  <2>2. IsSeq(cat)
    BY ONLY <2>1, SeqCat
  <2>3. Len(cat) = Len(old) + m
    BY ONLY <2>1, SeqCat
  <2>4. \A i \in 1..Len(old) : cat[i] = old[i]
    BY ONLY <2>1, SeqCat
  <2>5. \A i \in 1..m : cat[Len(old) + i] = kids[i]
    BY ONLY <2>1, SeqCat
  <2> QED BY ONLY <2>2, <2>3, <2>4, <2>5
<1>12. procs' = cat
  BY <1>10
<1> HIDE DEF cat
<1>5. /\ IsSeq(procs') /\ Len(procs') = n + m
      /\ \A i \in 1..n : procs'[i] = old[i]
      /\ \A i \in 1..m : procs'[n + i] = kids[i]
  BY <1>3, <1>11, <1>12
<1>6. DOMAIN procs' = 1..n + m
  BY <1>5, SeqFacts
<1>7. ASSUME NEW q \in 1..n PROVE Moved(q)
  <2>1. q \in DOMAIN procs /\ procs'[q] = IF q = p THEN u ELSE procs[q]
    BY <1>2, <1>4, <1>5
  <2>2. CASE q = p
    <3>1. procs'[q] = u
      BY <2>1, <2>2
    <3>2. Parent(q)
      BY <1>1, <1>5, <2>2, <3>1 DEF Parent
    <3> QED BY <2>2, <3>2 DEF Moved
  <2>3. CASE q # p
    BY <2>1, <2>3 DEF Moved
  <2> QED BY <2>2, <2>3
<1>8. ASSUME NEW q \in 1..n + m, q \notin 1..n PROVE Moved(q)
  <2>1. q - n \in 1..m /\ n + (q - n) = q
    BY <1>2, <1>8
  <2>2. procs'[q] = kids[q - n]
    BY <1>5, <2>1
  <2>3. \E s \in Segments(Ins(p)) : KidOf(Loaded[prog], procs[p], s, procs'[q])
    BY <1>1, <2>1, <2>2
  <2> QED BY <1>2, <1>8, <2>3 DEF Moved
<1>9. Len(procs') >= n
  BY <1>2, <1>5
<1> QED BY <1>5, <1>6, <1>7, <1>8, <1>9

LEMMA NextMoved ==
    ASSUME VmInv, [Next]_vars
    PROVE  AllMoved
<1>1. ASSUME NEW p \in DOMAIN procs, Exec(p) PROVE AllMoved
  <2>1. /\ prog' = prog /\ world' \in [DOMAIN Script -> Nat]
        /\ \/ Active(p) /\ Stepped(p)
           \/ Active(p) /\ Forks(p)
           \/ Collects(p)
    BY <1>1, ExecCases DEF Active
  <2> QED BY <2>1, SteppedMoved, ForksMoved, CollectsMoved DEF AllMoved
<1>2. CASE UNCHANGED vars
  <2>1. prog' = prog /\ procs' = procs /\ world' = world
    BY <1>2 DEF vars
  <2>2. IsSeq(procs) /\ Len(procs) \in Nat /\ world \in [DOMAIN Script -> Nat]
    BY SeqFacts DEF VmInv
  <2>3. IsSeq(procs') /\ Len(procs') >= Len(procs) /\ world' \in [DOMAIN Script -> Nat]
    BY <2>1, <2>2
  <2>4. \A q \in DOMAIN procs' : Moved(q)
    BY <2>1 DEF Moved
  <2> QED BY <2>1, <2>3, <2>4 DEF AllMoved
<1> QED BY <1>1, <1>2 DEF Next, Done

LEMMA SafeParent ==
    ASSUME NEW img, NEW lv, WellFormed(img, lv), NEW v, NEW w, NEW x,
           Safe(img, lv, v), ~v.halted,
           Falls(img.code[v.ip]), img.code[v.ip].op \notin LevelOps,
           Like([v EXCEPT !.ip = @ + 1, !.wait = x], w)
    PROVE  Safe(img, lv, w)
<1> DEFINE i == v.ip
           F == Floor(v.calls, Len(v.calls) + 1)
<1>1. i \in 1..Len(img.code) /\ Len(v.env) >= F + lv[i].scopes
  BY DEF Safe
<1>2. /\ i + 1 \in 1..Len(img.code) /\ lv[i + 1].scopes \in Nat /\ lv[i].scopes \in Nat
      /\ lv[i + 1].scopes <= lv[i].scopes /\ Len(img.code) \in Nat
  BY <1>1, CodeFacts, LevelAfterIs
<1>3. Machine(w) /\ w.ip = i + 1 /\ w.calls = v.calls /\ Len(w.env) = Len(v.env)
  BY DEF Like, Safe, Machine, MachineFields
<1>4. Len(v.env) \in Nat /\ F \in Nat
  <2>1. Len(v.calls) + 1 \in 1..Len(v.calls) + 1 /\ Len(v.env) \in Nat /\ IsSeq(v.calls)
    BY SeqFacts DEF Safe, Machine
  <2> QED BY <2>1, FloorNat DEF Safe
<1>5. Len(w.env) >= F + lv[i + 1].scopes
  <2> DEFINE e == Len(v.env)
             s == lv[i].scopes
             t == lv[i + 1].scopes
  <2>1. e \in Int /\ F \in Int /\ s \in Int /\ t \in Int /\ e >= F + s /\ t <= s
    BY <1>1, <1>2, <1>4
  <2>2. Len(w.env) = e
    BY <1>3
  <2> HIDE DEF e, F, s, t
  <2>3. e >= F + t
    BY <2>1, AtLeastAsMany
  <2> QED BY <2>2, <2>3 DEF t
<1> QED BY <1>2, <1>3, <1>5, SafeAt

LEMMA SafeResumed ==
    ASSUME NEW img, NEW lv, NEW v, NEW w, NEW x,
           Safe(img, lv, v), ~v.halted, Like([v EXCEPT !.wait = x], w)
    PROVE  Safe(img, lv, w)
<1>1. Machine(w) /\ w.ip = v.ip /\ w.calls = v.calls /\ Len(w.env) = Len(v.env)
  BY DEF Like, Safe, Machine, MachineFields
<1> QED BY <1>1 DEF Safe

LEMMA SafeKid ==
    ASSUME NEW img, NEW lv, WellFormed(img, lv), NEW v, NEW w,
           Safe(img, lv, v), ~v.halted,
           NEW s \in Segments(img.code[v.ip]), KidOf(img, v, s, w)
    PROVE  Safe(img, lv, w)
<1> DEFINE F == Floor(v.calls, Len(v.calls) + 1)
<1>1. v.ip \in 1..Len(img.code) /\ Len(v.env) >= F + lv[v.ip].scopes
  BY DEF Safe
<1>2. s \in 2..Len(img.code) /\ lv[s].scopes = 0 /\ lv[v.ip].scopes \in Nat
      /\ Len(img.code) \in Nat
  BY <1>1, CodeFacts
<1>3. s \in 1..Len(img.code)
  BY <1>2
<1>4. Machine(w) /\ w.ip = s /\ w.calls = v.calls /\ Len(w.env) = Len(v.env)
  BY DEF KidOf, Like, Safe, Machine, MachineFields
<1>5. Len(v.env) \in Nat /\ F \in Nat
  <2>1. Len(v.calls) + 1 \in 1..Len(v.calls) + 1 /\ Len(v.env) \in Nat /\ IsSeq(v.calls)
    BY SeqFacts DEF Safe, Machine
  <2> QED BY <2>1, FloorNat DEF Safe
<1>6. Len(w.env) >= F + lv[s].scopes /\ lv[s].scopes \in Nat
  <2> DEFINE e == Len(v.env)
             t == lv[v.ip].scopes
  <2>1. e \in Int /\ F \in Int /\ t \in Nat /\ e >= F + t
    BY <1>1, <1>2, <1>5
  <2>2. Len(w.env) = e
    BY <1>4
  <2> HIDE DEF e, F, t
  <2>3. e >= F + 0
    BY <2>1
  <2> QED BY <1>2, <2>2, <2>3
<1> QED BY <1>2, <1>3, <1>4, <1>6, SafeAt

LEMMA SafeMoved ==
    ASSUME VmInv, AllMoved, NEW q \in DOMAIN procs'
    PROVE  Safe(Loaded[prog], Levels(Loaded[prog]), procs'[q])
<1> DEFINE img == Loaded[prog]
           lv  == Levels(img)
<1>1. WellFormed(img, lv)
  BY CodeIsWellFormed DEF VmInv
<1>2. Moved(q)
  BY DEF AllMoved
<1>3. \A p \in DOMAIN procs : Safe(img, lv, procs[p]) /\ Waiting(p, Len(procs), procs[p])
  BY DEF VmInv
<1>4. \A p : Ins(p) = img.code[procs[p].ip]
  BY DEF Ins, Code
<1> SUFFICES Safe(img, lv, procs'[q])
  OBVIOUS
<1> HIDE DEF lv
<1>5. CASE q \in DOMAIN procs /\ procs'[q] = procs[q]
  BY <1>3, <1>5
<1>6. CASE Active(q) /\ Effect(img, procs[q], procs'[q], ReturnsByName(q))
  <2>1. ~procs[q].halted /\ q \in DOMAIN procs
    BY <1>6 DEF Active, Running
  <2> QED BY <1>1, <1>3, <1>6, <2>1, SafeEffect
<1>7. CASE Active(q) /\ Parent(q)
  <2>1. ~procs[q].halted /\ q \in DOMAIN procs
    BY <1>7 DEF Active, Running
  <2> QED BY <1>1, <1>3, <1>4, <1>7, <2>1, SafeParent DEF Parent
<1>8. CASE /\ q \in DOMAIN procs /\ procs[q].wait.op # ""
           /\ Like([procs[q] EXCEPT !.wait = NoWait], procs'[q])
  <2>1. ~procs[q].halted
    BY <1>3, <1>8 DEF Waiting
  <2> QED BY <1>3, <1>8, <2>1, SafeResumed
<1>9. CASE \E p \in DOMAIN procs :
             Active(p) /\ \E s \in Segments(Ins(p)) : KidOf(img, procs[p], s, procs'[q])
  <2>1. PICK p \in DOMAIN procs :
               /\ Active(p)
               /\ \E s \in Segments(Ins(p)) : KidOf(img, procs[p], s, procs'[q])
    BY <1>9
  <2>2. ~procs[p].halted
    BY <2>1 DEF Active, Running
  <2> QED BY <1>1, <1>3, <1>4, <2>1, <2>2, SafeKid
<1> QED BY <1>2, <1>5, <1>6, <1>7, <1>8, <1>9 DEF Moved

\* An instruction of a machine that does not fork leaves its wait alone.
LEMMA EffectKeeps ==
    ASSUME NEW img, NEW v, Machine(v), Len(v.env) >= 1, NEW w, NEW named,
           Effect(img, v, w, named)
    PROVE  w.wait = v.wait /\ w.seg = v.seg
<1>1. CASE Flows(img, v, w)
  BY <1>1 DEF Flows, Like, Machine, MachineFields
<1>2. CASE Turns(img, v, w)
  BY <1>2, TurnIs
<1>3. CASE Ends(img, v, w)
  BY <1>3 DEF Ends, Like, Machine, MachineFields
<1>4. CASE Calls(img, v, w)
  BY <1>4 DEF Calls
<1>5. CASE Returns(img, v, w, named)
  BY <1>5 DEF Returns, Returned
<1> QED BY <1>1, <1>2, <1>3, <1>4, <1>5 DEF Effect

LEMMA WaitingMoved ==
    ASSUME VmInv, AllMoved, NEW q \in DOMAIN procs'
    PROVE  Waiting(q, Len(procs'), procs'[q])
<1>1. Moved(q) /\ Len(procs') >= Len(procs) /\ IsSeq(procs')
  BY DEF AllMoved
<1>2. \A p \in DOMAIN procs : /\ Machine(procs[p]) /\ Len(procs[p].env) >= 1
                              /\ Waiting(p, Len(procs), procs[p])
  BY DEF VmInv, Safe
<1>3. Len(procs) \in Nat /\ Len(procs') \in Nat /\ DOMAIN procs = 1..Len(procs)
  BY <1>1, SeqFacts DEF VmInv
<1>4. CASE q \in DOMAIN procs /\ procs'[q] = procs[q]
  <2>1. \A k \in q + 1 .. Len(procs) : k \in q + 1 .. Len(procs')
    BY <1>1, <1>3
  <2> QED BY <1>2, <1>4, <2>1 DEF Waiting
<1>5. CASE Active(q) /\ Effect(Loaded[prog], procs[q], procs'[q], ReturnsByName(q))
  <2>1. procs'[q].wait = procs[q].wait
    BY <1>2, <1>5, EffectKeeps DEF Active
  <2> QED BY <1>5, <2>1 DEF Waiting, Active, Running
<1>6. CASE Active(q) /\ Parent(q)
  <2>1. \A k \in Len(procs) + 1 .. Len(procs') : k \in q + 1 .. Len(procs')
    BY <1>3, <1>6 DEF Active
  <2> QED BY <1>6, <2>1 DEF Waiting, Parent
<1>7. CASE /\ q \in DOMAIN procs /\ procs[q].wait.op # ""
           /\ Like([procs[q] EXCEPT !.wait = NoWait], procs'[q])
  <2>1. procs'[q].wait = NoWait
    BY <1>2, <1>7 DEF Like, Machine, MachineFields
  <2>2. procs'[q].wait.op = ""
    <3>1. NoWait.op = ""
      BY DEF NoWait
    <3> QED BY <2>1, <3>1
  <2> QED BY <2>2 DEF Waiting
<1>8. CASE \E p \in DOMAIN procs :
             /\ Active(p)
             /\ \E s \in Segments(Ins(p)) : KidOf(Loaded[prog], procs[p], s, procs'[q])
  <2>1. PICK p \in DOMAIN procs :
               /\ Active(p)
               /\ \E s \in Segments(Ins(p)) : KidOf(Loaded[prog], procs[p], s, procs'[q])
    BY <1>8
  <2>2. procs'[q].wait = procs[p].wait
    BY <1>2, <2>1 DEF KidOf, Like, Machine, MachineFields
  <2> QED BY <2>1, <2>2 DEF Waiting, Active, Running
<1> QED BY <1>1, <1>4, <1>5, <1>6, <1>7, <1>8 DEF Moved

LEMMA FirstMachine ==
    LET v == vm_init
    IN  /\ Machine(v) /\ v.ip = 1 /\ v.calls = <<>> /\ Len(v.env) = 1 /\ v.suppressed = 0
        /\ ~v.halted /\ v.wait.op = ""
        /\ v.seg = [from |-> 1, to |-> Len(Code), calls |-> 0]
<1> DEFINE v == vm_init
<1>1. /\ DOMAIN v = MachineFields /\ v.ip = 1 /\ v.calls = <<>> /\ v.redirs = <<>>
      /\ v.env = <<environ_new>> /\ v.last = 0 /\ v.suppressed = 0 /\ v.errexit = FALSE
      /\ v.halted = FALSE /\ v.wait = NoWait
      /\ v.seg = [from |-> 1, to |-> Len(Code), calls |-> 0]
  BY DEF vm_init, MachineFields
<1>2. NoWait.op = ""
  BY DEF NoWait
<1>3. IsSeq(<<environ_new>>) /\ Len(<<environ_new>>) = 1
  BY SeqOne
<1>4. IsSeq(<<>>) /\ Len(<<>>) = 0
  <2>1. <<>> \in Seq({1})
    OBVIOUS
  <2> QED BY <2>1, SeqIntro
<1>5. 0 \in 0..255 /\ 0 \in Nat /\ 0 <= VM_CALL_STACK_MAX /\ 0 <= VM_REDIR_STACK_MAX
  BY VmAssumption
<1> HIDE DEF v
<1>6. Machine(v)
  BY <1>1, <1>3, <1>4, <1>5 DEF Machine
<1> QED BY <1>1, <1>2, <1>3, <1>6 DEF v

LEMMA VmInvInit ==
    ASSUME Init
    PROVE  VmInv
<1> DEFINE img == Loaded[prog]
           lv  == Levels(img)
<1>1. /\ prog \in DOMAIN Loaded /\ img.ok /\ procs = <<vm_init>>
      /\ world = [c \in DOMAIN Script |-> 0]
  BY DEF Init
<1>2. WellFormed(img, lv)
  BY <1>1, CodeIsWellFormed
<1>3. IsSeq(procs) /\ Len(procs) = 1 /\ procs[1] = vm_init /\ DOMAIN procs = 1..1
  <2> DEFINE ps == <<vm_init>>
  <2>1. IsSeq(ps) /\ Len(ps) = 1 /\ ps[1] = vm_init
    BY SeqOne
  <2> HIDE DEF ps
  <2>2. procs = ps
    BY <1>1 DEF ps
  <2> QED BY <2>1, <2>2, SeqFacts
<1> HIDE DEF lv
<1>4. Safe(img, lv, vm_init)
  <2> DEFINE v == vm_init
  <2>1. Machine(v) /\ v.ip = 1 /\ v.calls = <<>> /\ Len(v.env) = 1
    BY FirstMachine
  <2>2. Len(img.code) \in Nat \ {0} /\ lv[1].scopes = 0
    BY <1>2 DEF WellFormed
  <2>3. Len(v.calls) = 0
    BY <2>1
  <2> HIDE DEF v
  <2>4. FramesSafe(Len(img.code), lv, v.calls)
    BY <2>3 DEF FramesSafe
  <2>5. Floor(v.calls, Len(v.calls) + 1) = 1
    BY <2>3 DEF Floor
  <2> QED BY <2>1, <2>2, <2>4, <2>5 DEF Safe, v
<1>5. \A q \in DOMAIN procs : procs[q] = vm_init
  BY <1>3
<1>6. \A q \in DOMAIN procs : Waiting(q, Len(procs), procs[q])
  <2>1. vm_init.wait.op = ""
    BY FirstMachine
  <2> QED BY <1>5, <2>1 DEF Waiting
<1>7. world \in [DOMAIN Script -> Nat]
  BY <1>1
<1> QED BY <1>1, <1>3, <1>4, <1>5, <1>6, <1>7 DEF VmInv, lv

LEMMA VmInvNext ==
    ASSUME VmInv, [Next]_vars
    PROVE  VmInv'
<1>1. AllMoved
  BY NextMoved
<1>2. \A q \in DOMAIN procs' :
        /\ Safe(Loaded[prog], Levels(Loaded[prog]), procs'[q])
        /\ Waiting(q, Len(procs'), procs'[q])
  BY <1>1, SafeMoved, WaitingMoved
<1>3. prog' = prog /\ Loaded' = Loaded
  BY <1>1 DEF AllMoved, Loaded
<1>4. IsSeq(procs') /\ Len(procs') >= 1
  <2>1. Len(procs) \in Nat /\ Len(procs') \in Nat
    BY <1>1, SeqFacts DEF AllMoved, VmInv
  <2> QED BY <1>1, <2>1 DEF AllMoved, VmInv
<1> QED BY <1>1, <1>2, <1>3, <1>4 DEF VmInv, AllMoved

LEMMA VmInvariant == Spec => []VmInv
<1>1. Init => VmInv
  BY VmInvInit
<1>2. VmInv /\ [Next]_vars => VmInv'
  BY VmInvNext
<1> QED BY <1>1, <1>2, PTL DEF Spec

\* In every image that the compiler's guarantees hold of, whatever the commands
\* return: instruction pointers stay in the code, no scope below the outermost is
\* popped, call frames and redirection frames stay within their limits, and who
\* waits waits for children forked later (exec_function_call, OP_RET, OP_POP_SCOPE,
\* OP_REDIR_SAVE, OP_PIPELINE in vm.c).
THEOREM VmTypeOK == Spec => []TypeOK
<1>1. ASSUME VmInv PROVE TypeOK
  <2>1. prog \in DOMAIN Loaded
    BY <1>1 DEF VmInv
  <2> SUFFICES ASSUME NEW p \in DOMAIN procs
               PROVE  LET v == procs[p]
                      IN  /\ v.ip \in 1 .. Len(Code) + 1
                          /\ v.last \in 0..255 /\ v.suppressed \in Nat
                          /\ v.errexit \in BOOLEAN /\ v.halted \in BOOLEAN
                          /\ Len(v.env) >= 1
                          /\ Len(v.calls) <= VM_CALL_STACK_MAX
                          /\ Len(v.redirs) <= VM_REDIR_STACK_MAX
                          /\ v.wait.op # "" => /\ v.wait.kids # <<>>
                                               /\ \A i \in DOMAIN v.wait.kids :
                                                    v.wait.kids[i] \in p + 1 .. Len(procs)
    BY <2>1 DEF TypeOK
  <2>2. /\ Safe(Loaded[prog], Levels(Loaded[prog]), procs[p])
        /\ Waiting(p, Len(procs), procs[p])
    BY <1>1 DEF VmInv
  <2>3. Machine(procs[p]) /\ Len(procs[p].env) >= 1 /\ procs[p].ip \in 1 .. Len(Code) + 1
    BY <2>2 DEF Safe, Code
  <2> QED BY <2>2, <2>3 DEF Machine, Waiting
<1> QED BY <1>1, VmInvariant, PTL

-----------------------------------------------------------------------------
(* Where a machine is in regular code.                                     *)

\* Instruction i belongs to depth k: to the segment at the depth at which it was
\* entered, to the body of a function above it.
Placed(img, lv, seg, k, i) ==
    /\ i \in 1..Len(img.code)
    /\ IF k = seg.calls THEN lv[i].home = seg.from
       ELSE lv[i].home \in FunctionStarts(img)

\* The machine and the frames it has pushed are where they belong; one that ended
\* in its segment is no further than behind its last instruction.
Located(img, lv, v) ==
    LET m == Len(v.calls)
    IN  /\ v.seg.calls \in 0..m
        /\ v.seg.from \notin FunctionStarts(img)
        /\ v.seg.from = 1 => v.seg.calls = 0
        /\ v.seg.to = EndOf(img.code, v.seg.from)
        /\ \A k \in 1..m :
             k > v.seg.calls => Placed(img, lv, v.seg, k - 1, v.calls[k].return_ip)
        /\ m = v.seg.calls => v.ip \in v.seg.from .. v.seg.to + 1
        /\ ~v.halted => Placed(img, lv, v.seg, m, v.ip)

\* What is known of an instruction of regular code.
LEMMA RegularFacts ==
    ASSUME NEW img, NEW lv, Regular(img, lv), Len(img.code) \in Nat,
           NEW i \in 1..Len(img.code)
    PROVE  LET ins == img.code[i]
           IN  /\ lv[i].home \in 1..i /\ lv[i].tests \in Nat
               /\ EndOf(img.code, lv[i].home) \in i..Len(img.code)
               /\ Falls(ins) => lv[i + 1] = LevelAfter(lv[i], ins.op)
               /\ \A t \in Targets(ins) : lv[t] = lv[i]
               /\ \A s \in Segments(ins) :
                    s > 1 /\ lv[s] = Fresh(s) /\ s \notin FunctionStarts(img)
               /\ ins.op = "RET" => i \in ReturnPoints(img, lv)
               /\ ins.op = "EXEC_BUILTIN" /\ ins.name = "return" => MayReturn(img, lv, i)
BY DEF Regular

\* The instruction behind one, and the targets of one.
LEMMA NextFacts ==
    ASSUME NEW img, NEW lv, Regular(img, lv), WellFormed(img, lv),
           NEW i \in 1..Len(img.code), Falls(img.code[i])
    PROVE  /\ i + 1 \in 1..Len(img.code) /\ lv[i + 1] = LevelAfter(lv[i], img.code[i].op)
           /\ lv[i].scopes \in Nat /\ lv[i].tests \in Nat
           /\ lv[i + 1].scopes \in Nat /\ lv[i + 1].tests \in Nat
<1>1. Len(img.code) \in Nat
  BY DEF WellFormed
<1>2. i + 1 \in 1..Len(img.code) /\ lv[i].scopes \in Nat /\ lv[i + 1].scopes \in Nat
  BY CodeFacts
<1>3. lv[i + 1] = LevelAfter(lv[i], img.code[i].op) /\ lv[i].tests \in Nat
  BY <1>1, RegularFacts
<1>4. lv[i + 1].tests \in Nat
  BY <1>1, <1>2, RegularFacts
<1> QED BY <1>2, <1>3, <1>4

LEMMA TargetFacts ==
    ASSUME NEW img, NEW lv, Regular(img, lv), WellFormed(img, lv),
           NEW i \in 1..Len(img.code), NEW t \in Targets(img.code[i])
    PROVE  t \in 1..Len(img.code) /\ lv[t] = lv[i]
<1>1. Len(img.code) \in Nat
  BY DEF WellFormed
<1>2. t \in 1..Len(img.code)
  BY CodeFacts
<1>3. lv[t] = lv[i]
  BY <1>1, RegularFacts
<1> QED BY <1>2, <1>3

LEMMA SegmentFacts ==
    ASSUME NEW img, NEW lv, Regular(img, lv), WellFormed(img, lv),
           NEW i \in 1..Len(img.code), NEW s \in Segments(img.code[i])
    PROVE  /\ s \in 2..Len(img.code) /\ s > 1
           /\ lv[s] = Fresh(s) /\ s \notin FunctionStarts(img)
<1>1. Len(img.code) \in Nat
  BY DEF WellFormed
<1>2. s \in 2..Len(img.code)
  BY CodeFacts
<1>3. s > 1 /\ lv[s] = Fresh(s) /\ s \notin FunctionStarts(img)
  BY <1>1, RegularFacts
<1> QED BY <1>2, <1>3

LEMMA FunctionFacts ==
    ASSUME NEW img, NEW lv, Regular(img, lv), NEW s \in FunctionStarts(img)
    PROVE  s > 1 /\ lv[s] = Fresh(s) /\ lv[s].home = s /\ s # 1
<1>1. s > 1 /\ lv[s] = Fresh(s)
  BY DEF Regular
<1>2. Fresh(s).home = s
  BY DEF Fresh
<1> QED BY <1>1, <1>2

LEMMA HomeAfter ==
    ASSUME NEW l, NEW op
    PROVE  LevelAfter(l, op).home = l.home
BY DEF LevelAfter

\* Instructions of a segment lie between its first and its last.
LEMMA PlacedInside ==
    ASSUME NEW img, NEW lv, Regular(img, lv), Len(img.code) \in Nat,
           NEW seg, seg.to = EndOf(img.code, seg.from),
           NEW i, Placed(img, lv, seg, seg.calls, i)
    PROVE  /\ seg.from \in Nat /\ seg.to \in Nat
           /\ i \in seg.from .. seg.to
           /\ i \in seg.from .. seg.to + 1 /\ i + 1 \in seg.from .. seg.to + 1
<1>1. i \in 1..Len(img.code) /\ lv[i].home = seg.from
  BY DEF Placed
<1>2. lv[i].home \in 1..i /\ EndOf(img.code, lv[i].home) \in i..Len(img.code)
  BY <1>1, RegularFacts
<1>3. seg.from \in 1..i /\ seg.to \in i..Len(img.code)
  BY <1>1, <1>2
<1> QED BY <1>1, <1>3

\* The machine w goes on with the frames of v at t, which is where v is.
LEMMA LocatedAt ==
    ASSUME NEW img, NEW lv, Regular(img, lv), Len(img.code) \in Nat, NEW v, NEW w, NEW t,
           Located(img, lv, v), Placed(img, lv, v.seg, Len(v.calls), t),
           w.ip = t, w.calls = v.calls, w.seg = v.seg
    PROVE  Located(img, lv, w)
<1>1. Len(v.calls) = v.seg.calls => t \in v.seg.from .. v.seg.to + 1
  BY PlacedInside DEF Located
<1> QED BY <1>1 DEF Located

\* An instruction in the same body or segment.
LEMMA PlacedSame ==
    ASSUME NEW img, NEW lv, NEW seg, NEW k, NEW i, NEW t \in 1..Len(img.code),
           Placed(img, lv, seg, k, i), lv[t].home = lv[i].home
    PROVE  Placed(img, lv, seg, k, t)
BY DEF Placed

\* The next instruction is in the same body or segment.
LEMMA PlacedNext ==
    ASSUME NEW img, NEW lv, Regular(img, lv), WellFormed(img, lv), NEW seg, NEW k, NEW i,
           Placed(img, lv, seg, k, i), Falls(img.code[i])
    PROVE  Placed(img, lv, seg, k, i + 1)
<1>1. i \in 1..Len(img.code)
  BY DEF Placed
<1>2. i + 1 \in 1..Len(img.code) /\ lv[i + 1] = LevelAfter(lv[i], img.code[i].op)
  BY <1>1, NextFacts
<1>3. lv[i + 1].home = lv[i].home
  BY <1>2, HomeAfter
<1> QED BY <1>2, <1>3, PlacedSame

LEMMA LocatedFlows ==
    ASSUME NEW img, NEW lv, Regular(img, lv), WellFormed(img, lv), NEW v, NEW w,
           Machine(v), Located(img, lv, v), ~v.halted, Flows(img, v, w)
    PROVE  Located(img, lv, w)
<1> DEFINE ins == img.code[v.ip]
<1>1. PICK t : /\ t \in Targets(ins) \/ (Falls(ins) /\ t = v.ip + 1)
               /\ Like([v EXCEPT !.ip = t], w)
  BY DEF Flows
<1>2. w.ip = t /\ w.calls = v.calls /\ w.seg = v.seg
  BY <1>1 DEF Like, Machine, MachineFields
<1>3. Placed(img, lv, v.seg, Len(v.calls), v.ip) /\ Len(img.code) \in Nat
      /\ v.ip \in 1..Len(img.code)
  BY DEF Located, WellFormed, Placed
<1>4. Placed(img, lv, v.seg, Len(v.calls), t)
  <2>1. CASE t \in Targets(ins)
    <3>1. t \in 1..Len(img.code) /\ lv[t] = lv[v.ip]
      BY <1>3, <2>1, TargetFacts
    <3> QED BY <1>3, <3>1, PlacedSame
  <2>2. CASE Falls(ins) /\ t = v.ip + 1
    BY <1>3, <2>2, PlacedNext
  <2> QED BY <1>1, <2>1, <2>2
<1> QED BY <1>2, <1>3, <1>4, LocatedAt

LEMMA LocatedTurns ==
    ASSUME NEW img, NEW lv, Regular(img, lv), WellFormed(img, lv), NEW v, NEW w,
           Machine(v), Len(v.env) >= 1, Located(img, lv, v), ~v.halted, Turns(img, v, w)
    PROVE  Located(img, lv, w)
<1>1. w.ip = v.ip + 1 /\ w.calls = v.calls /\ w.seg = v.seg /\ img.code[v.ip].op \in LevelOps
  BY TurnIs
<1>2. Falls(img.code[v.ip])
  BY <1>1 DEF Falls, LevelOps
<1>3. Placed(img, lv, v.seg, Len(v.calls), v.ip + 1) /\ Len(img.code) \in Nat
  BY <1>2, PlacedNext DEF Located, WellFormed
<1> QED BY <1>1, <1>3, LocatedAt

LEMMA LocatedEnds ==
    ASSUME NEW img, NEW lv, Regular(img, lv), WellFormed(img, lv), NEW v, NEW w,
           Machine(v), Located(img, lv, v), ~v.halted, Ends(img, v, w)
    PROVE  Located(img, lv, w)
<1>1. w.ip = v.ip + 1 /\ w.calls = v.calls /\ w.seg = v.seg /\ w.halted
  BY DEF Ends, Like, Machine, MachineFields
<1>2. Placed(img, lv, v.seg, Len(v.calls), v.ip) /\ Len(img.code) \in Nat
  BY DEF Located, WellFormed
<1>3. Len(v.calls) = v.seg.calls => v.ip + 1 \in v.seg.from .. v.seg.to + 1
  BY <1>2, PlacedInside DEF Located
<1> QED BY <1>1, <1>3 DEF Located

LEMMA LocatedCalls ==
    ASSUME NEW img, NEW lv, Regular(img, lv), WellFormed(img, lv), NEW v, NEW w,
           Machine(v), Located(img, lv, v), ~v.halted, Calls(img, v, w)
    PROVE  Located(img, lv, w)
<1> DEFINE m == Len(v.calls)
           i == v.ip
<1>1. PICK frame : w.calls = Append(v.calls, frame) /\ frame.return_ip = i + 1
  BY DEF Calls
<1>2. IsSeq(v.calls) /\ m \in Nat
  BY SeqFacts DEF Machine
<1>3. /\ Len(w.calls) = m + 1 /\ w.calls[m + 1] = frame
      /\ \A k \in 1..m : w.calls[k] = v.calls[k]
  BY <1>1, <1>2, SeqAppend
<1>4. w.seg = v.seg /\ w.ip \in FunctionStarts(img) /\ Falls(img.code[i])
  BY DEF Calls, Falls
<1>5. Placed(img, lv, v.seg, m, i + 1)
  BY <1>4, PlacedNext DEF Located
<1>6. w.ip \in 1..Len(img.code) /\ lv[w.ip].home = w.ip
  <2>1. Len(img.code) \in Nat /\ w.ip \in 2..Len(img.code)
    BY <1>4 DEF WellFormed
  <2> QED BY <1>4, <2>1, FunctionFacts
<1>7. v.seg.calls \in 0..m
  BY DEF Located
<1>8. v.seg.calls # m + 1 /\ v.seg.calls \in 0..m + 1
  BY <1>2, <1>7
<1>9. Placed(img, lv, w.seg, m + 1, w.ip)
  BY <1>4, <1>6, <1>8 DEF Placed
<1>10. \A k \in 1..m + 1 :
         k > w.seg.calls => Placed(img, lv, w.seg, k - 1, w.calls[k].return_ip)
  <2> TAKE k \in 1..m + 1
  <2>1. CASE k = m + 1
    <3>1. k - 1 = m /\ w.calls[k].return_ip = i + 1
      BY <1>1, <1>2, <1>3, <2>1
    <3> QED BY <1>4, <1>5, <3>1
  <2>2. CASE k # m + 1
    <3>1. k \in 1..m /\ w.calls[k] = v.calls[k]
      BY <1>2, <1>3, <2>2
    <3> QED BY <1>4, <3>1 DEF Located
  <2> QED BY <2>1, <2>2
<1> QED BY <1>3, <1>4, <1>8, <1>9, <1>10 DEF Located

\* A return stands in the body of the innermost function called.
LEMMA ReturnPlace ==
    ASSUME NEW img, NEW lv, Regular(img, lv), NEW v, Machine(v), Located(img, lv, v),
           ~v.halted, v.calls # <<>>, MayReturn(img, lv, v.ip)
    PROVE  /\ v.seg.calls < Len(v.calls)
           /\ \E s \in FunctionStarts(img) : lv[v.ip] = Fresh(s)
<1> DEFINE m == Len(v.calls)
<1>1. IsSeq(v.calls) /\ m \in Nat /\ m # 0
  BY SeqFacts DEF Machine, IsSeq
<1>2. Placed(img, lv, v.seg, m, v.ip) /\ v.seg.calls \in 0..m
  BY DEF Located
<1>3. CASE lv[v.ip].home = 1
  <2>1. 1 \notin FunctionStarts(img)
    BY FunctionFacts
  <2>2. m = v.seg.calls /\ v.seg.from = 1
    BY <1>2, <1>3, <2>1 DEF Placed
  <2> QED BY <1>1, <2>2 DEF Located
<1>4. CASE v.ip \in ReturnPoints(img, lv)
  <2>1. PICK s \in FunctionStarts(img) : lv[v.ip] = Fresh(s)
    BY <1>4 DEF ReturnPoints
  <2>2. lv[v.ip].home = s
    BY <2>1 DEF Fresh
  <2>3. m # v.seg.calls
    BY <1>2, <2>2 DEF Placed, Located
  <2>4. v.seg.calls < m
    BY <1>1, <1>2, <2>3
  <2> QED BY <2>1, <2>4
<1> QED BY <1>3, <1>4 DEF MayReturn

LEMMA ReturnsMay ==
    ASSUME NEW img, NEW lv, Regular(img, lv), WellFormed(img, lv), NEW v, NEW w, NEW named,
           v.ip \in 1..Len(img.code), named => MayReturn(img, lv, v.ip),
           Returns(img, v, w, named)
    PROVE  MayReturn(img, lv, v.ip) /\ v.calls # <<>> /\ Returned(v, w)
<1>1. Len(img.code) \in Nat
  BY DEF WellFormed
<1>2. CASE img.code[v.ip].op = "RET"
  BY <1>1, <1>2, RegularFacts DEF MayReturn, Returns
<1>3. CASE img.code[v.ip].op = "EXEC_BUILTIN" /\ img.code[v.ip].name = "return"
  BY <1>1, <1>3, RegularFacts DEF Returns
<1>4. CASE named
  BY <1>4 DEF Returns
<1> QED BY <1>2, <1>3, <1>4 DEF Returns

LEMMA LocatedReturns ==
    ASSUME NEW img, NEW lv, Regular(img, lv), WellFormed(img, lv), NEW v, NEW w,
           Machine(v), Located(img, lv, v), ~v.halted,
           v.calls # <<>>, MayReturn(img, lv, v.ip), Returned(v, w)
    PROVE  Located(img, lv, w)
<1> DEFINE m == Len(v.calls)
<1>1. IsSeq(v.calls) /\ m \in Nat /\ m > 0
  BY SeqFacts DEF Machine, IsSeq
<1>2. /\ Len(w.calls) = m - 1 /\ \A k \in 1..m - 1 : w.calls[k] = v.calls[k]
      /\ w.ip = v.calls[m].return_ip /\ w.seg = v.seg
  BY <1>1, SeqFront DEF Returned
<1>3. v.seg.calls < m /\ v.seg.calls \in 0..m
  BY ReturnPlace DEF Located
<1>4. v.seg.calls \in 0..m - 1 /\ m \in 1..m /\ m > v.seg.calls
  BY <1>1, <1>3
<1>5. Placed(img, lv, v.seg, m - 1, w.ip)
  BY <1>2, <1>4 DEF Located
<1>6. \A k \in 1..m - 1 :
        k > v.seg.calls => Placed(img, lv, v.seg, k - 1, w.calls[k].return_ip)
  <2> TAKE k \in 1..m - 1
  <2>1. k \in 1..m
    BY <1>1
  <2> QED BY <1>2, <2>1 DEF Located
<1>7. m - 1 = v.seg.calls => w.ip \in v.seg.from .. v.seg.to + 1
  <2>1. Len(img.code) \in Nat /\ v.seg.to = EndOf(img.code, v.seg.from)
    BY DEF WellFormed, Located
  <2> QED BY <1>5, <2>1, PlacedInside
<1> HIDE DEF m
<1> QED BY <1>2, <1>4, <1>5, <1>6, <1>7 DEF Located

LEMMA LocatedEffect ==
    ASSUME NEW img, NEW lv, Regular(img, lv), WellFormed(img, lv), NEW v, NEW w, NEW named,
           Machine(v), Len(v.env) >= 1, Located(img, lv, v), ~v.halted,
           v.ip \in 1..Len(img.code),
           Effect(img, v, w, named), named => MayReturn(img, lv, v.ip)
    PROVE  Located(img, lv, w)
<1>1. CASE Returns(img, v, w, named)
  BY <1>1, ReturnsMay, LocatedReturns
<1> QED BY <1>1, LocatedFlows, LocatedTurns, LocatedEnds, LocatedCalls DEF Effect

LEMMA LocatedParent ==
    ASSUME NEW img, NEW lv, Regular(img, lv), WellFormed(img, lv), NEW v, NEW w, NEW x,
           Machine(v), Located(img, lv, v), ~v.halted, Falls(img.code[v.ip]),
           Like([v EXCEPT !.ip = @ + 1, !.wait = x], w)
    PROVE  Located(img, lv, w)
<1>1. w.ip = v.ip + 1 /\ w.calls = v.calls /\ w.seg = v.seg
  BY DEF Like, Machine, MachineFields
<1>2. Placed(img, lv, v.seg, Len(v.calls), v.ip + 1) /\ Len(img.code) \in Nat
  BY PlacedNext DEF Located, WellFormed
<1> QED BY <1>1, <1>2, LocatedAt

LEMMA LocatedResumed ==
    ASSUME NEW img, NEW lv, NEW v, NEW w, NEW x,
           Machine(v), Located(img, lv, v), ~v.halted, Like([v EXCEPT !.wait = x], w)
    PROVE  Located(img, lv, w)
<1>1. w.ip = v.ip /\ w.calls = v.calls /\ w.seg = v.seg
  BY DEF Like, Machine, MachineFields
<1> QED BY <1>1 DEF Located

LEMMA LocatedKid ==
    ASSUME NEW img, NEW lv, Regular(img, lv), WellFormed(img, lv), NEW v, NEW w,
           Machine(v), v.ip \in 1..Len(img.code),
           NEW s \in Segments(img.code[v.ip]), KidOf(img, v, s, w)
    PROVE  Located(img, lv, w)
<1> DEFINE m == Len(v.calls)
           seg == [from |-> s, to |-> EndOf(img.code, s), calls |-> m]
<1>1. Len(img.code) \in Nat /\ m \in Nat
  BY SeqFacts DEF WellFormed, Machine
<1>2. /\ s \in 2..Len(img.code) /\ lv[s] = Fresh(s) /\ s \notin FunctionStarts(img)
      /\ s > 1
  BY SegmentFacts
<1>3. w.ip = s /\ w.calls = v.calls /\ w.seg = seg
  BY DEF KidOf, Like, Machine, MachineFields
<1>4. seg.from = s /\ seg.to = EndOf(img.code, s) /\ seg.calls = m
  OBVIOUS
<1> HIDE DEF seg
<1>5. lv[s].home = s /\ s \in 1..Len(img.code) /\ s # 1
  BY <1>1, <1>2 DEF Fresh
<1>6. Placed(img, lv, seg, m, s) /\ Placed(img, lv, seg, seg.calls, s)
  BY <1>4, <1>5 DEF Placed
<1>7. s \in seg.from .. seg.to + 1
  BY <1>1, <1>4, <1>6, PlacedInside
<1>8. m \in 0..m /\ \A k \in 1..m : ~(k > m)
  BY <1>1
<1> HIDE DEF m
<1> QED BY <1>2, <1>3, <1>4, <1>5, <1>6, <1>7, <1>8 DEF Located, m

LEMMA RegularNow ==
    ASSUME VmInv, CodeRegular
    PROVE  /\ WellFormed(Loaded[prog], Levels(Loaded[prog]))
           /\ Regular(Loaded[prog], Levels(Loaded[prog]))
           /\ \A q \in DOMAIN procs :
                ReturnsByName(q)
                  => MayReturn(Loaded[prog], Levels(Loaded[prog]), procs[q].ip)
<1>1. prog \in RegularPrograms /\ Loaded[prog].ok /\ prog \in DOMAIN Loaded
  BY DEF CodeRegular, VmInv
<1>2. Regular(Loaded[prog], Levels(Loaded[prog]))
  BY <1>1 DEF RegularPrograms
<1> QED BY <1>1, <1>2, CodeIsWellFormed DEF CodeRegular

Locations ==
    \A q \in DOMAIN procs : Located(Loaded[prog], Levels(Loaded[prog]), procs[q])

LEMMA LocationsInit ==
    ASSUME Init, CodeRegular
    PROVE  Locations
<1> DEFINE img == Loaded[prog]
           lv  == Levels(img)
           v   == vm_init
<1>1. WellFormed(img, lv) /\ Regular(img, lv)
  BY VmInvInit, RegularNow
<1>2. \A q \in DOMAIN procs : procs[q] = vm_init
  <2>1. procs = <<vm_init>>
    BY DEF Init
  <2> QED BY <2>1
<1>3. /\ v.ip = 1 /\ v.calls = <<>> /\ v.seg = [from |-> 1, to |-> Len(Code), calls |-> 0]
  BY FirstMachine
<1>4. v.seg.from = 1 /\ v.seg.to = Len(img.code) /\ v.seg.calls = 0 /\ Len(v.calls) = 0
  BY <1>3 DEF Code
<1> SUFFICES Located(img, lv, v)
  BY <1>2 DEF Locations
<1> HIDE DEF v, lv
<1>5. Len(img.code) \in Nat \ {0} /\ EndOf(img.code, 1) = Len(img.code)
  BY <1>1 DEF WellFormed, EndOf
<1>6. 1 \notin FunctionStarts(img) /\ lv[1].home = 1
  <2>1. lv[1] = Fresh(1)
    BY <1>1 DEF Regular
  <2> QED BY <1>1, <2>1, FunctionFacts DEF Fresh
<1>7. Placed(img, lv, v.seg, 0, 1)
  BY <1>4, <1>5, <1>6 DEF Placed
<1>8. 1 \in 1 .. Len(img.code) + 1
  BY <1>5
<1> QED BY <1>3, <1>4, <1>5, <1>6, <1>7, <1>8 DEF Located

LEMMA LocationsNext ==
    ASSUME VmInv, CodeRegular, Locations, [Next]_vars
    PROVE  Locations'
<1> DEFINE img == Loaded[prog]
           lv  == Levels(img)
<1>1. /\ WellFormed(img, lv) /\ Regular(img, lv)
      /\ \A q \in DOMAIN procs : ReturnsByName(q) => MayReturn(img, lv, procs[q].ip)
  BY RegularNow
<1>2. AllMoved
  BY NextMoved
<1>3. \A p \in DOMAIN procs :
        /\ Machine(procs[p]) /\ Len(procs[p].env) >= 1
        /\ Waiting(p, Len(procs), procs[p]) /\ Located(img, lv, procs[p])
  BY DEF VmInv, Safe, Locations
<1>4. \A p : Ins(p) = img.code[procs[p].ip] /\ Code = img.code
  BY DEF Ins, Code
<1>5. \A p : Active(p) => /\ p \in DOMAIN procs /\ ~procs[p].halted
                          /\ procs[p].ip \in 1..Len(img.code)
  BY <1>4 DEF Active, Running
<1> SUFFICES ASSUME NEW q \in DOMAIN procs'
             PROVE  Located(img, lv, procs'[q])
  BY <1>2 DEF Locations, AllMoved, Loaded
<1> HIDE DEF lv
<1>6. CASE q \in DOMAIN procs /\ procs'[q] = procs[q]
  BY <1>3, <1>6
<1>7. CASE Active(q) /\ Effect(img, procs[q], procs'[q], ReturnsByName(q))
  <2>1. ReturnsByName(q) => MayReturn(img, lv, procs[q].ip)
    BY <1>1, <1>5, <1>7
  <2> QED BY <1>1, <1>3, <1>5, <1>7, <2>1, LocatedEffect
<1>8. CASE Active(q) /\ Parent(q)
  BY <1>1, <1>3, <1>4, <1>5, <1>8, LocatedParent DEF Parent
<1>9. CASE /\ q \in DOMAIN procs /\ procs[q].wait.op # ""
           /\ Like([procs[q] EXCEPT !.wait = NoWait], procs'[q])
  BY <1>3, <1>9, LocatedResumed DEF Waiting
<1>10. CASE \E p \in DOMAIN procs :
              /\ Active(p)
              /\ \E s \in Segments(Ins(p)) : KidOf(img, procs[p], s, procs'[q])
  <2>1. PICK p \in DOMAIN procs :
               /\ Active(p)
               /\ \E s \in Segments(Ins(p)) : KidOf(img, procs[p], s, procs'[q])
    BY <1>10
  <2> QED BY <1>1, <1>3, <1>4, <1>5, <2>1, LocatedKid
<1> QED BY <1>2, <1>6, <1>7, <1>8, <1>9, <1>10 DEF AllMoved, Moved

LEMMA LocationsInvariant == Spec /\ []CodeRegular => []Locations
<1>1. Init /\ CodeRegular => Locations
  BY LocationsInit
<1>2. VmInv /\ CodeRegular /\ Locations /\ [Next]_vars => Locations'
  BY LocationsNext
<1> QED BY <1>1, <1>2, VmInvariant, PTL DEF Spec

\* In every program whose code pairs up and whose returns stand in functions (which
\* CodeRegular says, and a run checks), a forked process never gets out of the code
\* of its segment, however the processes interleave and whatever the commands
\* return: not behind the HALT of a subshell, a command substitution, a member of
\* a pipeline or a background list, nor by a return into a function that its
\* parent was in (OP_SUBSHELL, OP_CMD_SUBST, OP_PIPELINE, OP_BACKGROUND, OP_RET).
THEOREM ChildrenStay == Spec /\ []CodeRegular => []ChildInSegment
<1>1. ASSUME VmInv, Locations PROVE ChildInSegment
  <2> SUFFICES ASSUME NEW p \in DOMAIN procs
               PROVE  \/ Len(procs[p].calls) > procs[p].seg.calls
                      \/ procs[p].ip \in procs[p].seg.from .. procs[p].seg.to + 1
    BY DEF ChildInSegment
  <2>1. Located(Loaded[prog], Levels(Loaded[prog]), procs[p]) /\ Len(procs[p].calls) \in Nat
    BY <1>1, SeqFacts DEF Locations, VmInv, Safe, Machine
  <2>2. /\ procs[p].seg.calls \in 0..Len(procs[p].calls)
        /\ Len(procs[p].calls) = procs[p].seg.calls
             => procs[p].ip \in procs[p].seg.from .. procs[p].seg.to + 1
    BY <2>1 DEF Located
  <2> QED BY <2>1, <2>2
<1> QED BY <1>1, VmInvariant, LocationsInvariant, PTL

-----------------------------------------------------------------------------
(* What the shell has open in regular code, exactly.                       *)

\* The scopes are those of the frames and of the levels they left.
ScopesExact(lv, v) ==
    /\ \A k \in 1..Len(v.calls) :
         v.calls[k].saved_env = Floor(v.calls, k) + lv[v.calls[k].return_ip].scopes
    /\ Len(v.env) = Floor(v.calls, Len(v.calls) + 1) + lv[v.ip].scopes

\* g[k] contexts without errexit are open below the k-th frame and at its call.
Counts(lv, calls, g) ==
    /\ g[0] = 0
    /\ \A k \in 1..Len(calls) : g[k] = g[k - 1] + lv[calls[k].return_ip].tests

TestsExact(lv, v) ==
    \E g \in [0..Len(v.calls) -> Nat] :
        /\ Counts(lv, v.calls, g)
        /\ v.suppressed = g[Len(v.calls)] + lv[v.ip].tests

Back(v) == v.calls = <<>> /\ Len(v.env) = 1 /\ v.suppressed = 0

Exact(img, lv, v) ==
    /\ v.seg.from = 1 /\ v.seg.calls = 0
    /\ ~v.halted => ScopesExact(lv, v) /\ TestsExact(lv, v)
    /\ v.halted /\ v.ip = Len(img.code) + 1 => Back(v)

\* The contexts behind an instruction.
LEMMA TestsAfter ==
    ASSUME NEW l, NEW op, l.tests \in Nat
    PROVE  /\ op \notin {"ERREXIT_PUSH", "ERREXIT_POP"} => LevelAfter(l, op).tests = l.tests
           /\ op = "ERREXIT_PUSH" => LevelAfter(l, op).tests = l.tests + 1
           /\ op = "ERREXIT_POP" => LevelAfter(l, op).tests = l.tests - 1
BY DEF LevelAfter, Change

LEMMA LevelKept ==
    ASSUME NEW img, NEW lv, Regular(img, lv), WellFormed(img, lv),
           NEW i \in 1..Len(img.code), Falls(img.code[i]), img.code[i].op \notin LevelOps
    PROVE  /\ i + 1 \in 1..Len(img.code)
           /\ lv[i + 1].scopes = lv[i].scopes /\ lv[i + 1].tests = lv[i].tests
<1>1. /\ i + 1 \in 1..Len(img.code) /\ lv[i + 1] = LevelAfter(lv[i], img.code[i].op)
      /\ lv[i].scopes \in Nat /\ lv[i].tests \in Nat
  BY NextFacts
<1>2. img.code[i].op \notin {"ERREXIT_PUSH", "ERREXIT_POP"}
  BY DEF LevelOps
<1>3. lv[i + 1].scopes = lv[i].scopes
  BY <1>1, LevelAfterIs
<1>4. lv[i + 1].tests = lv[i].tests
  BY <1>1, <1>2, TestsAfter
<1> QED BY <1>1, <1>3, <1>4

\* A machine that has changed nothing, at an instruction of the same level.
LEMMA ExactAt ==
    ASSUME NEW img, NEW lv, NEW v, NEW w, NEW t \in 1..Len(img.code),
           Len(img.code) \in Nat, Exact(img, lv, v), ~v.halted,
           w.ip = t, w.calls = v.calls, w.seg = v.seg, Len(w.env) = Len(v.env),
           w.suppressed = v.suppressed,
           lv[t].scopes = lv[v.ip].scopes, lv[t].tests = lv[v.ip].tests
    PROVE  Exact(img, lv, w)
<1>1. ScopesExact(lv, v) /\ TestsExact(lv, v)
  BY DEF Exact
<1>2. ScopesExact(lv, w)
  BY <1>1 DEF ScopesExact
<1>3. TestsExact(lv, w)
  BY <1>1 DEF TestsExact
<1>4. w.ip # Len(img.code) + 1
  OBVIOUS
<1> QED BY <1>2, <1>3, <1>4 DEF Exact

LEMMA ExactFlows ==
    ASSUME NEW img, NEW lv, Regular(img, lv), WellFormed(img, lv), NEW v, NEW w,
           Machine(v), v.ip \in 1..Len(img.code), Exact(img, lv, v), ~v.halted,
           Flows(img, v, w)
    PROVE  Exact(img, lv, w)
<1> DEFINE ins == img.code[v.ip]
<1>1. PICK t : /\ t \in Targets(ins) \/ (Falls(ins) /\ t = v.ip + 1)
               /\ Like([v EXCEPT !.ip = t], w)
  BY DEF Flows
<1>2. /\ w.ip = t /\ w.calls = v.calls /\ w.seg = v.seg /\ Len(w.env) = Len(v.env)
      /\ w.suppressed = v.suppressed
  BY <1>1 DEF Like, Machine, MachineFields
<1>3. Len(img.code) \in Nat /\ ins.op \notin LevelOps
  BY DEF WellFormed, Flows
<1>4. t \in 1..Len(img.code) /\ lv[t].scopes = lv[v.ip].scopes /\ lv[t].tests = lv[v.ip].tests
  <2>1. CASE t \in Targets(ins)
    BY <2>1, TargetFacts
  <2>2. CASE Falls(ins) /\ t = v.ip + 1
    BY <1>3, <2>2, LevelKept
  <2> QED BY <1>1, <2>1, <2>2
<1> QED BY <1>2, <1>3, <1>4, ExactAt

LEMMA ExactParent ==
    ASSUME NEW img, NEW lv, Regular(img, lv), WellFormed(img, lv), NEW v, NEW w, NEW x,
           Machine(v), v.ip \in 1..Len(img.code), Exact(img, lv, v), ~v.halted,
           Falls(img.code[v.ip]), img.code[v.ip].op \notin LevelOps,
           Like([v EXCEPT !.ip = @ + 1, !.wait = x], w)
    PROVE  Exact(img, lv, w)
<1>1. /\ w.ip = v.ip + 1 /\ w.calls = v.calls /\ w.seg = v.seg /\ Len(w.env) = Len(v.env)
      /\ w.suppressed = v.suppressed /\ Len(img.code) \in Nat
  BY DEF Like, Machine, MachineFields, WellFormed
<1>2. /\ v.ip + 1 \in 1..Len(img.code)
      /\ lv[v.ip + 1].scopes = lv[v.ip].scopes /\ lv[v.ip + 1].tests = lv[v.ip].tests
  BY LevelKept
<1> QED BY <1>1, <1>2, ExactAt

LEMMA ExactResumed ==
    ASSUME NEW img, NEW lv, WellFormed(img, lv), NEW v, NEW w, NEW x,
           Machine(v), v.ip \in 1..Len(img.code), Exact(img, lv, v), ~v.halted,
           Like([v EXCEPT !.wait = x], w)
    PROVE  Exact(img, lv, w)
<1>1. /\ w.ip = v.ip /\ w.calls = v.calls /\ w.seg = v.seg /\ Len(w.env) = Len(v.env)
      /\ w.suppressed = v.suppressed /\ Len(img.code) \in Nat
  BY DEF Like, Machine, MachineFields, WellFormed
<1> QED BY <1>1, ExactAt

LEMMA ExactTurns ==
    ASSUME NEW img, NEW lv, Regular(img, lv), WellFormed(img, lv), NEW v, NEW w,
           Safe(img, lv, v), Exact(img, lv, v), ~v.halted, Turns(img, v, w)
    PROVE  Exact(img, lv, w)
<1> DEFINE op == img.code[v.ip].op
           i == v.ip
           m == Len(v.calls)
<1>1. /\ w.ip = i + 1 /\ w.calls = v.calls /\ w.seg = v.seg /\ op \in LevelOps
      /\ op = "PUSH_SCOPE" => Len(w.env) = Len(v.env) + 1
      /\ op = "POP_SCOPE" => w.halted \/ Len(w.env) = Len(v.env) - 1
      /\ op \in {"ERREXIT_PUSH", "ERREXIT_POP"} => Len(w.env) = Len(v.env)
      /\ op \in {"PUSH_SCOPE", "POP_SCOPE"} => w.suppressed = v.suppressed
      /\ op = "ERREXIT_PUSH" => w.suppressed = v.suppressed + 1
      /\ op = "ERREXIT_POP" =>
           w.suppressed = IF v.suppressed > 0 THEN v.suppressed - 1 ELSE 0
  BY TurnIs DEF Safe
<1>2. Falls(img.code[i]) /\ i \in 1..Len(img.code) /\ Len(img.code) \in Nat
  BY <1>1 DEF Falls, LevelOps, Safe, WellFormed
<1>3. /\ i + 1 \in 1..Len(img.code) /\ lv[i + 1] = LevelAfter(lv[i], op)
      /\ lv[i].scopes \in Nat /\ lv[i].tests \in Nat
      /\ lv[i + 1].scopes \in Nat /\ lv[i + 1].tests \in Nat
  BY <1>2, NextFacts
<1>4. w.ip # Len(img.code) + 1
  BY <1>1, <1>2, <1>3
<1>5. Len(v.env) \in Nat /\ Floor(v.calls, m + 1) \in Nat
  <2>1. m + 1 \in 1..m + 1 /\ Len(v.env) \in Nat /\ IsSeq(v.calls)
    BY SeqFacts DEF Safe, Machine
  <2> QED BY <2>1, FloorNat DEF Safe
<1> HIDE DEF op
<1>6. ASSUME ~w.halted PROVE ScopesExact(lv, w)
  <2> DEFINE e == Len(v.env)
             F == Floor(v.calls, m + 1)
             s == lv[i].scopes
             t == lv[i + 1].scopes
  <2>1. e = F + s /\ e \in Nat /\ F \in Nat /\ s \in Nat /\ t \in Nat
    BY <1>3, <1>5 DEF Exact, ScopesExact
  <2>2. /\ op = "PUSH_SCOPE" => t = s + 1 /\ Len(w.env) = e + 1
        /\ op = "POP_SCOPE" => t = s - 1 /\ Len(w.env) = e - 1
        /\ op \in {"ERREXIT_PUSH", "ERREXIT_POP"} => t = s /\ Len(w.env) = e
    BY <1>1, <1>3, <1>6, LevelAfterIs
  <2>3. Len(w.env) = F + t
    <3>1. op \in {"PUSH_SCOPE", "POP_SCOPE", "ERREXIT_PUSH", "ERREXIT_POP"}
      BY <1>1 DEF LevelOps
    <3> HIDE DEF e, F, s, t
    <3> QED BY <2>1, <2>2, <3>1
  <2> QED BY <1>1, <2>3 DEF Exact, ScopesExact
<1>7. TestsExact(lv, w)
  <2>1. PICK g \in [0..m -> Nat] :
          Counts(lv, v.calls, g) /\ v.suppressed = g[m] + lv[i].tests
    BY DEF Exact, TestsExact
  <2>2. m \in Nat /\ g[m] \in Nat
    <3>1. m \in Nat
      BY SeqFacts DEF Safe, Machine
    <3> QED BY <3>1
  <2> DEFINE s == lv[i].tests
             t == lv[i + 1].tests
             x == v.suppressed
  <2>3. x = g[m] + s /\ s \in Nat /\ t \in Nat
    BY <1>3, <2>1
  <2>4. /\ op \in {"PUSH_SCOPE", "POP_SCOPE"} => t = s /\ w.suppressed = x
        /\ op = "ERREXIT_PUSH" => t = s + 1 /\ w.suppressed = x + 1
        /\ op = "ERREXIT_POP" => /\ t = s - 1
                                 /\ w.suppressed = IF x > 0 THEN x - 1 ELSE 0
    BY <1>1, <1>3, TestsAfter
  <2>5. w.suppressed = g[m] + t
    <3>1. op \in {"PUSH_SCOPE", "POP_SCOPE", "ERREXIT_PUSH", "ERREXIT_POP"}
      BY <1>1 DEF LevelOps
    <3> HIDE DEF s, t, x
    <3> QED BY <2>2, <2>3, <2>4, <3>1
  <2> QED BY <1>1, <2>1, <2>5 DEF TestsExact
<1> QED BY <1>1, <1>4, <1>6, <1>7 DEF Exact

\* At the last instruction, which belongs to the program itself, no frame is left.
LEMMA ExactEnds ==
    ASSUME NEW img, NEW lv, Regular(img, lv), WellFormed(img, lv), NEW v, NEW w,
           Machine(v), v.ip \in 1..Len(img.code), Located(img, lv, v),
           Exact(img, lv, v), ~v.halted, Ends(img, v, w)
    PROVE  Exact(img, lv, w)
<1> DEFINE n == Len(img.code)
           m == Len(v.calls)
<1>1. /\ w.ip = v.ip + 1 /\ w.calls = v.calls /\ w.seg = v.seg /\ w.halted
      /\ Len(w.env) = Len(v.env) /\ w.suppressed = v.suppressed
  BY DEF Ends, Like, Machine, MachineFields
<1>2. n \in Nat \ {0} /\ lv[n] = Fresh(1)
  BY DEF WellFormed, Regular
<1>3. CASE v.ip = n
  <2>1. lv[v.ip].home = 1 /\ lv[v.ip].scopes = 0 /\ lv[v.ip].tests = 0
    BY <1>2, <1>3 DEF Fresh
  <2>2. Placed(img, lv, v.seg, m, v.ip) /\ v.seg.calls = 0
    BY DEF Located, Exact
  <2>3. 1 \notin FunctionStarts(img)
    BY FunctionFacts
  <2>4. m = 0
    BY <2>1, <2>2, <2>3 DEF Placed
  <2>5. v.calls = <<>>
    BY <2>4 DEF Machine, IsSeq
  <2>6. Floor(v.calls, m + 1) = 1
    BY <2>4 DEF Floor
  <2>7. Len(v.env) = 1
    <3>1. Len(v.env) = Floor(v.calls, m + 1) + lv[v.ip].scopes
      BY DEF Exact, ScopesExact
    <3> QED BY <2>1, <2>6, <3>1
  <2>8. v.suppressed = 0
    <3>1. PICK g \in [0..m -> Nat] :
            Counts(lv, v.calls, g) /\ v.suppressed = g[m] + lv[v.ip].tests
      BY DEF Exact, TestsExact
    <3> QED BY <2>1, <2>4, <3>1 DEF Counts
  <2> QED BY <1>1, <2>5, <2>7, <2>8 DEF Exact, Back
<1>4. CASE v.ip # n
  <2>1. w.ip # n + 1
    BY <1>1, <1>2, <1>4
  <2> QED BY <1>1, <2>1 DEF Exact
<1> QED BY <1>3, <1>4

LEMMA ExactCalls ==
    ASSUME NEW img, NEW lv, Regular(img, lv), WellFormed(img, lv), NEW v, NEW w,
           Safe(img, lv, v), Exact(img, lv, v), ~v.halted, Calls(img, v, w)
    PROVE  Exact(img, lv, w)
<1> DEFINE i == v.ip
           c == v.calls
           m == Len(c)
<1>1. PICK frame : /\ w.calls = Append(c, frame)
                   /\ frame.return_ip = i + 1 /\ frame.saved_env = Len(v.env)
  BY DEF Calls
<1>2. IsSeq(c) /\ m \in Nat /\ Len(v.env) \in Nat /\ i \in 1..Len(img.code)
  BY SeqFacts DEF Safe, Machine
<1>3. /\ Len(w.calls) = m + 1 /\ w.calls[m + 1] = frame
      /\ \A k \in 1..m : w.calls[k] = c[k]
  BY <1>1, <1>2, SeqAppend
<1>4. /\ w.seg = v.seg /\ w.suppressed = v.suppressed /\ Len(w.env) = Len(v.env) + 1
      /\ w.ip \in FunctionStarts(img) /\ Machine(v)
  BY DEF Calls, Safe
<1>5. lv[i + 1].scopes = lv[i].scopes /\ lv[i + 1].tests = lv[i].tests
  <2>1. Falls(img.code[i]) /\ img.code[i].op \notin LevelOps
    BY DEF Calls, Falls, LevelOps
  <2> QED BY <1>2, <2>1, LevelKept
<1>6. lv[w.ip].scopes = 0 /\ lv[w.ip].tests = 0 /\ w.ip # Len(img.code) + 1
  <2>1. lv[w.ip] = Fresh(w.ip)
    BY <1>4, FunctionFacts
  <2>2. Len(img.code) \in Nat /\ w.ip \in 2..Len(img.code)
    BY <1>4 DEF WellFormed
  <2> QED BY <2>1, <2>2 DEF Fresh
<1>7. ASSUME NEW k \in 1..m + 1 PROVE Floor(w.calls, k) = Floor(c, k)
  <2>1. CASE k = 1
    BY <2>1 DEF Floor
  <2>2. CASE k # 1
    <3>1. k - 1 \in 1..m
      BY <1>2, <2>2
    <3>2. w.calls[k - 1] = c[k - 1]
      BY <1>3, <3>1
    <3> QED BY <2>2, <3>2 DEF Floor
  <2> QED BY <2>1, <2>2
<1>8. Floor(w.calls, m + 2) = Len(v.env) + 1
  BY <1>1, <1>2, <1>3 DEF Floor
<1>9. ScopesExact(lv, w)
  <2>1. ASSUME NEW k \in 1..m + 1
        PROVE  w.calls[k].saved_env = Floor(w.calls, k) + lv[w.calls[k].return_ip].scopes
    <3>1. CASE k = m + 1
      <4>1. w.calls[k].saved_env = Len(v.env) /\ w.calls[k].return_ip = i + 1
        BY <1>1, <1>3, <3>1
      <4>2. Floor(w.calls, k) = Floor(c, m + 1)
        BY <1>7, <3>1
      <4>3. Len(v.env) = Floor(c, m + 1) + lv[i].scopes
        BY DEF Exact, ScopesExact
      <4> QED BY <1>5, <4>1, <4>2, <4>3
    <3>2. CASE k # m + 1
      <4>1. k \in 1..m
        BY <1>2, <3>2
      <4>2. w.calls[k] = c[k] /\ Floor(w.calls, k) = Floor(c, k)
        BY <1>3, <1>7, <4>1
      <4>3. c[k].saved_env = Floor(c, k) + lv[c[k].return_ip].scopes
        BY <4>1 DEF Exact, ScopesExact
      <4> QED BY <4>2, <4>3
    <3> QED BY <3>1, <3>2
  <2>2. Len(w.env) = Floor(w.calls, Len(w.calls) + 1) + lv[w.ip].scopes
    <3>1. Len(w.calls) + 1 = m + 2
      BY <1>2, <1>3
    <3> QED BY <1>2, <1>4, <1>6, <1>8, <3>1
  <2> QED BY <1>3, <2>1, <2>2 DEF ScopesExact
<1>10. TestsExact(lv, w)
  <2>1. PICK g \in [0..m -> Nat] : Counts(lv, c, g) /\ v.suppressed = g[m] + lv[i].tests
    BY DEF Exact, TestsExact
  <2> DEFINE h == [k \in 0..m + 1 |-> IF k = m + 1 THEN v.suppressed ELSE g[k]]
  <2>2. h \in [0..m + 1 -> Nat]
    <3>1. v.suppressed \in Nat
      BY <1>4 DEF Machine
    <3>2. \A k \in 0..m + 1 : k # m + 1 => k \in 0..m
      BY <1>2
    <3> QED BY <3>1, <3>2
  <2>3. h[m + 1] = v.suppressed /\ \A k \in 0..m : h[k] = g[k]
    BY <1>2
  <2> HIDE DEF h
  <2>4. h[0] = 0
    BY <1>2, <2>1, <2>3 DEF Counts
  <2>5. ASSUME NEW k \in 1..m + 1
        PROVE  h[k] = h[k - 1] + lv[w.calls[k].return_ip].tests
    <3>1. CASE k = m + 1
      <4>1. k - 1 = m /\ h[k - 1] = g[m] /\ h[k] = v.suppressed
        BY <1>2, <2>3, <3>1
      <4>2. w.calls[k].return_ip = i + 1
        BY <1>1, <1>3, <3>1
      <4> QED BY <1>5, <2>1, <4>1, <4>2
    <3>2. CASE k # m + 1
      <4>1. k \in 1..m /\ k \in 0..m /\ k - 1 \in 0..m
        BY <1>2, <3>2
      <4>2. h[k] = g[k] /\ h[k - 1] = g[k - 1] /\ w.calls[k] = c[k]
        BY <1>3, <2>3, <4>1
      <4>3. g[k] = g[k - 1] + lv[c[k].return_ip].tests
        BY <2>1, <4>1 DEF Counts
      <4> QED BY <4>2, <4>3
    <3> QED BY <3>1, <3>2
  <2>6. Counts(lv, w.calls, h)
    BY <1>3, <2>4, <2>5 DEF Counts
  <2>7. w.suppressed = h[m + 1] + lv[w.ip].tests
    <3>1. v.suppressed \in Nat
      BY <1>4 DEF Machine
    <3> QED BY <1>4, <1>6, <2>3, <3>1
  <2> QED BY <1>3, <2>2, <2>6, <2>7 DEF TestsExact
<1> QED BY <1>4, <1>6, <1>9, <1>10 DEF Exact

LEMMA ExactReturns ==
    ASSUME NEW img, NEW lv, Regular(img, lv), WellFormed(img, lv), NEW v, NEW w,
           Safe(img, lv, v), Located(img, lv, v), Exact(img, lv, v), ~v.halted,
           v.calls # <<>>, MayReturn(img, lv, v.ip), Returned(v, w)
    PROVE  Exact(img, lv, w)
<1> DEFINE c == v.calls
           m == Len(c)
<1>1. IsSeq(c) /\ m \in Nat /\ m >= 1 /\ Len(v.env) \in Nat /\ Machine(v)
  BY SeqFacts DEF Safe, Machine, IsSeq
<1>2. /\ Len(w.calls) = m - 1 /\ \A k \in 1..m - 1 : w.calls[k] = c[k]
      /\ w.ip = c[m].return_ip /\ w.seg = v.seg /\ w.suppressed = v.suppressed
      /\ Len(w.env) = Len(v.env) - 1
  BY <1>1, SeqFront DEF Returned
<1>3. lv[v.ip].scopes = 0 /\ lv[v.ip].tests = 0
  <2>1. \E s \in FunctionStarts(img) : lv[v.ip] = Fresh(s)
    BY <1>1, ReturnPlace
  <2> QED BY <2>1 DEF Fresh
<1>4. \A k \in 1..m : Floor(w.calls, k) = Floor(c, k)
  BY <1>1, <1>2 DEF Floor
<1>5. Floor(c, m + 1) = c[m].saved_env + 1
  BY <1>1 DEF Floor
<1>6. w.ip # Len(img.code) + 1 /\ c[m].saved_env \in Nat
  <2>1. c[m].return_ip \in 1..Len(img.code) /\ c[m].saved_env \in Nat
    BY <1>1 DEF Safe, FramesSafe
  <2> QED BY <1>2, <2>1 DEF WellFormed
<1>7. ScopesExact(lv, w)
  <2>1. Len(v.env) = Floor(c, m + 1) + lv[v.ip].scopes
    BY DEF Exact, ScopesExact
  <2>2. c[m].saved_env = Floor(c, m) + lv[w.ip].scopes
    BY <1>1, <1>2 DEF Exact, ScopesExact
  <2>3. Len(w.env) = c[m].saved_env
    BY <1>1, <1>2, <1>3, <1>5, <1>6, <2>1
  <2>4. Len(w.calls) + 1 = m /\ Floor(w.calls, m) = Floor(c, m)
    BY <1>1, <1>2, <1>4
  <2>5. ASSUME NEW k \in 1..m - 1
        PROVE  w.calls[k].saved_env = Floor(w.calls, k) + lv[w.calls[k].return_ip].scopes
    <3>1. k \in 1..m
      BY <1>1
    <3>2. c[k].saved_env = Floor(c, k) + lv[c[k].return_ip].scopes
      BY <3>1 DEF Exact, ScopesExact
    <3> QED BY <1>2, <1>4, <3>1, <3>2
  <2> HIDE DEF m
  <2> QED BY <1>2, <2>2, <2>3, <2>4, <2>5 DEF ScopesExact
<1>8. TestsExact(lv, w)
  <2>1. PICK g \in [0..m -> Nat] : Counts(lv, c, g) /\ v.suppressed = g[m] + lv[v.ip].tests
    BY DEF Exact, TestsExact
  <2> DEFINE h == [k \in 0..m - 1 |-> g[k]]
  <2>2. /\ h \in [0..m - 1 -> Nat]
        /\ \A k \in 0..m - 1 : h[k] = g[k]
    <3>1. \A k \in 0..m - 1 : k \in 0..m
      BY <1>1
    <3> QED BY <3>1
  <2> HIDE DEF h
  <2>3. g[m] \in Nat /\ g[m] = g[m - 1] + lv[w.ip].tests
    <3>1. m \in 0..m /\ m \in 1..m
      BY <1>1
    <3>2. g[m] \in Nat
      BY <3>1
    <3>3. g[m] = g[m - 1] + lv[c[m].return_ip].tests
      BY <2>1, <3>1 DEF Counts
    <3> QED BY <1>2, <3>2, <3>3
  <2>4. w.suppressed = h[m - 1] + lv[w.ip].tests
    <3>1. m - 1 \in 0..m - 1
      BY <1>1
    <3> QED BY <1>2, <1>3, <2>1, <2>2, <2>3, <3>1
  <2>5. ASSUME NEW k \in 1..m - 1
        PROVE  h[k] = h[k - 1] + lv[w.calls[k].return_ip].tests
    <3>1. k \in 1..m /\ k \in 0..m - 1 /\ k - 1 \in 0..m - 1
      BY <1>1
    <3>2. g[k] = g[k - 1] + lv[c[k].return_ip].tests
      BY <2>1, <3>1 DEF Counts
    <3> QED BY <1>2, <2>2, <3>1, <3>2
  <2>6. h[0] = 0
    <3>1. 0 \in 0..m - 1
      BY <1>1
    <3> QED BY <2>1, <2>2, <3>1 DEF Counts
  <2> HIDE DEF m
  <2>7. Counts(lv, w.calls, h)
    BY <1>2, <2>5, <2>6 DEF Counts
  <2> QED BY <1>2, <2>2, <2>4, <2>7 DEF TestsExact
<1> QED BY <1>2, <1>6, <1>7, <1>8 DEF Exact

LEMMA ExactEffect ==
    ASSUME NEW img, NEW lv, Regular(img, lv), WellFormed(img, lv), NEW v, NEW w, NEW named,
           Safe(img, lv, v), Located(img, lv, v), Exact(img, lv, v), ~v.halted,
           Effect(img, v, w, named), named => MayReturn(img, lv, v.ip)
    PROVE  Exact(img, lv, w)
<1>1. Machine(v) /\ v.ip \in 1..Len(img.code)
  BY DEF Safe
<1>2. CASE Flows(img, v, w)
  BY <1>1, <1>2, ExactFlows
<1>3. CASE Turns(img, v, w)
  BY <1>3, ExactTurns
<1>4. CASE Ends(img, v, w)
  BY <1>1, <1>4, ExactEnds
<1>5. CASE Calls(img, v, w)
  BY <1>5, ExactCalls
<1>6. CASE Returns(img, v, w, named)
  BY <1>1, <1>6, ReturnsMay, ExactReturns
<1> QED BY <1>2, <1>3, <1>4, <1>5, <1>6 DEF Effect

\* What holds of the shell itself, machine 1.
ShellExact == Exact(Loaded[prog], Levels(Loaded[prog]), procs[1])

LEMMA ShellExactInit ==
    ASSUME Init, CodeRegular
    PROVE  ShellExact
<1> DEFINE img == Loaded[prog]
           lv  == Levels(img)
           v   == vm_init
<1>1. Regular(img, lv)
  BY VmInvInit, RegularNow
<1>2. procs[1] = v
  BY DEF Init
<1>3. /\ v.ip = 1 /\ v.calls = <<>> /\ Len(v.env) = 1 /\ v.suppressed = 0 /\ ~v.halted
      /\ v.seg = [from |-> 1, to |-> Len(Code), calls |-> 0]
  BY FirstMachine
<1>4. v.seg.from = 1 /\ v.seg.calls = 0 /\ Len(v.calls) = 0
  BY <1>3
<1> SUFFICES Exact(img, lv, v)
  BY <1>2 DEF ShellExact
<1> HIDE DEF v, lv
<1>5. lv[1].scopes = 0 /\ lv[1].tests = 0
  <2>1. lv[1] = Fresh(1)
    BY <1>1 DEF Regular
  <2> QED BY <2>1 DEF Fresh
<1>6. ScopesExact(lv, v)
  <2>1. Floor(v.calls, Len(v.calls) + 1) = 1
    BY <1>4 DEF Floor
  <2> QED BY <1>3, <1>4, <1>5, <2>1 DEF ScopesExact
<1>7. TestsExact(lv, v)
  <2> DEFINE g == [k \in 0..0 |-> 0]
  <2>1. g \in [0..Len(v.calls) -> Nat] /\ g[0] = 0
    BY <1>4
  <2> HIDE DEF g
  <2>2. Counts(lv, v.calls, g)
    BY <1>4, <2>1 DEF Counts
  <2> QED BY <1>3, <1>4, <1>5, <2>1, <2>2 DEF TestsExact
<1> QED BY <1>3, <1>4, <1>6, <1>7 DEF Exact

LEMMA ShellExactNext ==
    ASSUME VmInv, CodeRegular, Locations, ShellExact, [Next]_vars
    PROVE  ShellExact'
<1> DEFINE img == Loaded[prog]
           lv  == Levels(img)
           v   == procs[1]
           w   == procs'[1]
<1>1. /\ WellFormed(img, lv) /\ Regular(img, lv)
      /\ \A q \in DOMAIN procs : ReturnsByName(q) => MayReturn(img, lv, procs[q].ip)
  BY RegularNow
<1>2. AllMoved
  BY NextMoved
<1>3. 1 \in DOMAIN procs /\ 1 \in DOMAIN procs'
  <2>1. /\ Len(procs) \in Nat /\ DOMAIN procs = 1..Len(procs)
        /\ Len(procs') \in Nat /\ DOMAIN procs' = 1..Len(procs')
    BY <1>2, SeqFacts DEF VmInv, AllMoved
  <2>2. Len(procs) >= 1 /\ Len(procs') >= Len(procs)
    BY <1>2 DEF VmInv, AllMoved
  <2> QED BY <2>1, <2>2
<1>4. Moved(1)
  BY <1>2, <1>3 DEF AllMoved
<1>5. /\ Safe(img, lv, v) /\ Machine(v) /\ Located(img, lv, v) /\ Exact(img, lv, v)
      /\ Waiting(1, Len(procs), v)
  BY <1>3 DEF VmInv, Locations, ShellExact, Safe
<1>6. Ins(1) = img.code[v.ip] /\ Code = img.code
  BY DEF Ins, Code
<1>7. ASSUME Active(1) PROVE ~v.halted /\ v.ip \in 1..Len(img.code)
  BY <1>6, <1>7 DEF Active, Running
<1> SUFFICES Exact(img, lv, w)
  BY <1>2 DEF ShellExact, AllMoved, Loaded
<1> HIDE DEF lv
<1>8. CASE w = v
  BY <1>5, <1>8
<1>9. CASE Active(1) /\ Effect(img, v, w, ReturnsByName(1))
  <2>1. ReturnsByName(1) => MayReturn(img, lv, v.ip)
    BY <1>1, <1>3
  <2> HIDE DEF v, w
  <2> QED BY <1>1, <1>5, <1>7, <1>9, <2>1, ExactEffect
<1>10. CASE Active(1) /\ Parent(1)
  BY <1>1, <1>5, <1>6, <1>7, <1>10, ExactParent DEF Parent
<1>11. CASE v.wait.op # "" /\ Like([v EXCEPT !.wait = NoWait], w)
  <2>1. ~v.halted
    BY <1>5, <1>11 DEF Waiting
  <2>2. v.ip \in 1..Len(img.code)
    BY <1>5, <2>1 DEF Safe
  <2> QED BY <1>1, <1>5, <1>11, <2>1, <2>2, ExactResumed
<1> QED BY <1>3, <1>4, <1>8, <1>9, <1>10, <1>11 DEF Moved

LEMMA ShellExactInvariant == Spec /\ []CodeRegular => []ShellExact
<1>1. Init /\ CodeRegular => ShellExact
  BY ShellExactInit
<1>2. VmInv /\ CodeRegular /\ Locations /\ ShellExact /\ [Next]_vars => ShellExact'
  BY ShellExactNext
<1> QED BY <1>1, <1>2, VmInvariant, LocationsInvariant, PTL DEF Spec

\* In every program whose code pairs up and whose returns stand in functions, when
\* the shell has come to the end of its code, no call frame, no scope and no
\* suppression of errexit is left, whichever way it has taken: by break and
\* continue out of loops, by return out of functions, also one found by name, by
\* short-circuits, with children in between (OP_RET, builtin_return, OP_POP_SCOPE,
\* OP_ERREXIT_POP).
THEOREM FramesComeBack == Spec /\ []CodeRegular => []FramesBack
<1>1. ShellExact => FramesBack
  BY DEF ShellExact, Exact, FramesBack, AtEnd, Back, Code
<1> QED BY <1>1, ShellExactInvariant, PTL

=============================================================================
