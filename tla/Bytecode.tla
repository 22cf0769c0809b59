------------------------------ MODULE Bytecode ------------------------------
(***************************************************************************)
(* What the compiler and the virtual machine agree on (compiler.h,         *)
(* bytecode.h): the image, and the structure of the code in it.            *)
(*                                                                         *)
(* An image is a record [ok, code, funcs].  Byte offset n of the code is   *)
(* index n + 1 here, and an instruction with its operands is one element,  *)
(* so the jump of a relative offset is the index of the instruction it     *)
(* leads to ("to").  The body of a function and the segment of a forked    *)
(* process lie inline, each behind a jump over it.                         *)
(***************************************************************************)
EXTENDS Integers, Sequences, FiniteSets, SequencesExt, TLC

\* The number a literal stands for (strtol); other text counts as 0.
AtomNumber(a) ==
    LET N == {n \in 0..255 : ToString(n) = a}
    IN  IF N = {} THEN 0 ELSE CHOOSE n \in N : TRUE

Builtins ==
    {"echo", "exit", "true", "false", ":", "local", "shift", "return",
     "exec", "set"}

-----------------------------------------------------------------------------
(* Where the machine goes behind an instruction.                           *)

\* On to the next instruction.
Falls(ins) == ins.op \notin {"HALT", "RET", "JMP"}

Targets(ins) ==
    IF ins.op \in {"JMP", "JMP_TRUE", "JMP_FALSE", "JMP_NONE"} THEN {ins.to} ELSE {}

\* The segments run by the processes that the instruction forks.
Segments(ins) ==
    CASE ins.op \in {"SUBSHELL", "CMD_SUBST", "BACKGROUND"} -> {ins.to}
      [] ins.op = "PIPELINE" -> {ins.offsets[i] : i \in DOMAIN ins.offsets}
      [] OTHER -> {}

FunctionStarts(img) == {img.funcs[f].offset : f \in DOMAIN img.funcs}

\* The last index of the body or segment that starts at s, behind a jump over it.
EndOf(code, s) == IF s = 1 THEN Len(code) ELSE code[s - 1].to - 1

-----------------------------------------------------------------------------
(* The level of an instruction: where the body or segment around it starts *)
(* (1 for the program itself), and how many scopes and contexts without    *)
(* errexit are open there, counted from that start.                        *)

Fresh(s) == [home |-> s, scopes |-> 0, tests |-> 0]

Change(op, push, pop) == IF op = push THEN 1 ELSE IF op = pop THEN 0 - 1 ELSE 0

\* The level behind an instruction.
LevelAfter(lv, op) ==
    [home   |-> lv.home,
     scopes |-> lv.scopes + Change(op, "PUSH_SCOPE", "POP_SCOPE"),
     tests  |-> lv.tests + Change(op, "ERREXIT_PUSH", "ERREXIT_POP")]

Starts(img) ==
    {1} \cup FunctionStarts(img)
        \cup UNION {Segments(img.code[i]) : i \in DOMAIN img.code}

\* The instructions that change the level.
Marks(code) ==
    {i \in DOMAIN code :
       code[i].op \in {"PUSH_SCOPE", "POP_SCOPE", "ERREXIT_PUSH", "ERREXIT_POP"}}

\* The innermost of the starts whose body or segment contains i.
Home(code, starts, i) == Max({s \in starts : s <= i /\ i <= EndOf(code, s)})

LevelIn(code, marks, home, i) ==
    LET Passed(op) == Cardinality({j \in marks : home <= j /\ j < i /\ code[j].op = op})
    IN  [home   |-> home,
         scopes |-> Passed("PUSH_SCOPE") - Passed("POP_SCOPE"),
         tests  |-> Passed("ERREXIT_PUSH") - Passed("ERREXIT_POP")]

\* The levels of all instructions.  (Sets of one element, which TLC evaluates once.)
Levels(img) ==
    CHOOSE lv \in
      {[i \in DOMAIN img.code |-> LevelIn(img.code, marks, Home(img.code, starts, i), i)] :
         starts \in {Starts(img)}, marks \in {Marks(img.code)}} : TRUE

\* What the machine relies on in any code it runs.  Jumps stay in the code and
\* never lead to where more scopes are open (they may leave some open: break and
\* continue are jumps), and operands name what exists.
WellFormed(img, lv) ==
    LET code == img.code
        n    == Len(code)
    IN  /\ n \in Nat \ {0} /\ code[n].op = "HALT"
        /\ DOMAIN code = 1..n /\ DOMAIN img.funcs = 1..Len(img.funcs)
        /\ lv[1].scopes = 0
        /\ \A s \in FunctionStarts(img) : s \in 2..n /\ lv[s].scopes = 0
        /\ \A i \in 1..n :
             LET ins == code[i]
             IN  /\ lv[i].scopes \in Nat
                 /\ Falls(ins) => lv[i + 1].scopes <= LevelAfter(lv[i], ins.op).scopes
                 /\ \A t \in Targets(ins) :
                      t \in 1..n /\ lv[t].scopes <= lv[i].scopes
                 /\ \A s \in Segments(ins) : s \in 2..n /\ lv[s].scopes = 0
                 /\ ins.op = "PIPELINE" => /\ Len(ins.offsets) \in Nat \ {0}
                                           /\ DOMAIN ins.offsets = 1..Len(ins.offsets)
                 /\ ins.op = "EXEC_FUNC" => ins.f \in DOMAIN img.funcs
                 /\ ins.op = "EXEC_BUILTIN" => ins.name \in Builtins

\* Where a return leaves nothing behind: in the body of a function, outside of
\* prefix assignments, conditions and segments.
ReturnPoints(img, lv) ==
    {i \in DOMAIN img.code : \E s \in FunctionStarts(img) : lv[i] = Fresh(s)}

\* Outside of functions return ends the machine.
MayReturn(img, lv, i) == lv[i].home = 1 \/ i \in ReturnPoints(img, lv)

\* Code in which everything pairs up on every path: whichever way an instruction
\* is reached, it is in the same body or segment, with the same scopes and
\* contexts open.  Bodies and segments are left only by return and by HALT.
Regular(img, lv) ==
    LET code == img.code
        n    == Len(code)
    IN  /\ lv[1] = Fresh(1) /\ lv[n] = Fresh(1)
        /\ \A s \in FunctionStarts(img) : s > 1 /\ lv[s] = Fresh(s)
        /\ \A i \in 1..n :
             LET ins == code[i]
             IN  /\ lv[i].home \in 1..i /\ lv[i].tests \in Nat
                 /\ EndOf(code, lv[i].home) \in i..n
                 /\ Falls(ins) => lv[i + 1] = LevelAfter(lv[i], ins.op)
                 /\ \A t \in Targets(ins) : lv[t] = lv[i]
                 /\ \A s \in Segments(ins) :
                      s > 1 /\ lv[s] = Fresh(s) /\ s \notin FunctionStarts(img)
                 /\ ins.op = "RET" => i \in ReturnPoints(img, lv)
                 /\ ins.op = "EXEC_BUILTIN" /\ ins.name = "return" => MayReturn(img, lv, i)
=============================================================================
