------------------------------- MODULE Traps --------------------------------
(***************************************************************************)
(* Signals and traps: the flags that the handlers of SIGINT and SIGTERM    *)
(* set (src/src/exec/signal.c), the safe point of the dispatch loop that   *)
(* takes them, the trap table and the EXIT trap of a VM, and the ways a VM *)
(* ends (src/src/vm/vm.c, src/src/builtins/builtins.c).                    *)
(*                                                                         *)
(* eval, source, the handler of a signal and the EXIT trap each run in a   *)
(* fresh VM (vm_exec_string) with trap tables of its own; a subshell runs  *)
(* in a copy of the VM in another process, for which its parent waits.     *)
(* frames is the stack of these VMs: the last one executes.  The script is *)
(* arbitrary: at a fetch any opcode may come, in handlers too.  A signal   *)
(* may arrive at any process between any two steps.                        *)
(***************************************************************************)
EXTENDS Integers, Sequences, FiniteSets

CONSTANTS
    Texts,   \* what trap and eval are given to run
    Bad,     \* those of Texts that do not parse
    Codes,   \* exit codes
    MaxOps,  \* how many opcodes are executed, beside HALT
    MaxSig   \* how many signals are sent

NULL    == "NULL"   \* no handler: the default action
Ignore  == ""       \* trap '' SIGNAL
SIGINT  == 2
SIGTERM == 15
Signals == {SIGINT, SIGTERM}
EXIT    == 0
Actions == Texts \cup {NULL, Ignore}

ASSUME TrapsAssumption ==
    /\ Bad \subseteq Texts
    /\ NULL \notin Texts /\ Ignore \notin Texts
    /\ Codes \subseteq 0 .. 255
    /\ MaxOps \in Nat /\ MaxSig \in Nat

VARIABLES
    frames,  \* the VMs under way, outermost first
    pc,      \* where the last of them is, see ControlPoints
    got,     \* the result of signal_get_pending
    pend,    \* <<process, signal>>: sig_int_pending and sig_term_pending
    caught,  \* the processes that have the handlers of signal_init
    nops, nsig, nrun  \* opcodes executed, signals sent, handlers started

vars == <<frames, pc, got, pend, caught, nops, nsig, nrun>>
signals == <<pend, caught>>

(* "top": head of the loop of vm_run.  "got": between signal_get_pending   *)
(* and signal_clear.  "fetch": before the next opcode is read.  "wait": in *)
(* job_wait_fg for a pipeline.  "exec": in execvp.  "over": the shell has  *)
(* ended, or is another program.                                           *)
ControlPoints == {"top", "got", "fetch", "wait", "exec", "over"}

Depth == Len(frames)
Top   == frames[Depth]
Below == SubSeq(frames, 1, Depth - 1)
SetTop(f) == Append(Below, f)

-----------------------------------------------------------------------------
(* A VM.  Beside the fields of vm_t: kind, what it was started for; proc,  *)
(* the process it runs in (0: the shell); sig and text, the trap it runs;  *)
(* save and after, where vm_exit goes on behind an EXIT trap; and, for the *)
(* properties, xproc, the process that set the EXIT trap, nexit, how often *)
(* it was started, why the VM halted, and late, the opcodes executed after *)
(* an exit.                                                                *)
vm_init(kind, proc, sig, text, save, after) ==
    [kind |-> kind, proc |-> proc, sig |-> sig, text |-> text,
     save |-> save, after |-> after,
     trap_handlers |-> [s \in Signals |-> NULL], exit_trap |-> NULL,
     laststatus |-> 0, halted |-> FALSE,
     exit_requested |-> FALSE, return_requested |-> FALSE,
     xproc |-> 0, nexit |-> 0, why |-> "none", late |-> 0]

Runs(action) == action \notin {NULL, Ignore}

(* vm_exit of the VM f on top of the stack below: take the EXIT trap away, *)
(* run it in a VM of its own, then halt with the status it was called      *)
(* with.  A trap that does not parse is over at once.  after is where the  *)
(* VM goes on when vm_exit returns.                                        *)
vm_exit(below, f, status, after) ==
    IF Runs(f.exit_trap)
    THEN IF f.exit_trap \in Bad
         THEN /\ frames' = Append(below, [f EXCEPT !.laststatus = status, !.halted = TRUE,
                                                   !.why = "exit", !.exit_trap = NULL,
                                                   !.nexit = @ + 1])
              /\ pc' = after
         ELSE /\ frames' = Append(Append(below, [f EXCEPT !.laststatus = status,
                                                          !.exit_trap = NULL,
                                                          !.nexit = @ + 1]),
                                  vm_init("exit", f.proc, EXIT, f.exit_trap, status, after))
              /\ pc' = "top"
    ELSE /\ frames' = Append(below, [f EXCEPT !.laststatus = status, !.halted = TRUE,
                                              !.why = "exit"])
         /\ pc' = after

(* OP_EXEC_BUILTIN after the builtin: return_requested ends the VM (which  *)
(* is not inside a function here), and stays set.                          *)
AfterBuiltin(f) ==
    IF f.return_requested /\ ~f.halted
    THEN [f EXCEPT !.halted = TRUE, !.why = "return"]
    ELSE f

-----------------------------------------------------------------------------
(* The state of the signals of a process: sigaction and the two flags.     *)

Flags(p) == {s \in Signals : <<p, s>> \in pend}

signal_clear(p) == pend' = {x \in pend : x[1] # p} /\ UNCHANGED caught

signal_reset(p) == pend' = {x \in pend : x[1] # p} /\ caught' = caught \ {p}

signal_init(p) == caught' = caught \cup {p} /\ UNCHANGED pend

(* A child ends, and with it everything that runs in it: its parent, which *)
(* has the VM below the one it was forked from, gets the status.           *)
ChildEnds(i, status) ==
    /\ frames[i].kind = "child"
    /\ frames' = Append(SubSeq(frames, 1, i - 2), [frames[i - 1] EXCEPT !.laststatus = status])
    /\ pc' = "top"
    /\ pend' = {x \in pend : x[1] < frames[i].proc}
    /\ caught' = {p \in caught : p < frames[i].proc}

-----------------------------------------------------------------------------
(* The safe point.                                                         *)

signal_get_pending == IF SIGINT \in Flags(Top.proc) THEN SIGINT ELSE SIGTERM

Pending == Flags(Top.proc) # {}

\* Mutant: signal_clear before signal_get_pending.
SafePoint_ClearFirst ==
    /\ pc = "top" /\ ~Top.halted
    /\ signal_clear(Top.proc)
    /\ pc' = "fetch"
    /\ UNCHANGED <<frames, got, nops, nsig, nrun>>

SafePoint ==
    /\ pc = "top" /\ ~Top.halted
    /\ IF Pending
       THEN pc' = "got" /\ got' = signal_get_pending
       ELSE pc' = "fetch" /\ UNCHANGED got
    /\ UNCHANGED <<frames, signals, nops, nsig, nrun>>

\* Mutant: signal_clear is left to the handler.
Dispatch_NoClear ==
    /\ pc = "got"
    /\ IF Runs(Top.trap_handlers[got])
       THEN /\ frames' = Append(frames, vm_init("trap", Top.proc, got, Top.trap_handlers[got],
                                                0, "fetch"))
            /\ pc' = "top" /\ nrun' = nrun + 1
       ELSE pc' = "fetch" /\ UNCHANGED <<frames, nrun>>
    /\ UNCHANGED <<got, signals, nops, nsig>>

(* signal_clear drops every flag, also one that was set since or that is   *)
(* not the one taken.  Then the handler of this VM runs; an empty one      *)
(* ignores the signal, one that does not parse is given up; without one    *)
(* the VM halts, and its EXIT trap does not run.                           *)
Dispatch ==
    /\ pc = "got"
    /\ signal_clear(Top.proc)
    /\ LET handler == Top.trap_handlers[got] IN
       \/ /\ handler \in Texts \ Bad
          /\ frames' = Append(frames, vm_init("trap", Top.proc, got, handler, 0, "fetch"))
          /\ pc' = "top" /\ nrun' = nrun + 1
       \/ /\ handler \in Bad
          /\ frames' = SetTop([Top EXCEPT !.laststatus = 2])
          /\ pc' = "fetch" /\ UNCHANGED nrun
       \/ /\ handler = Ignore
          /\ pc' = "fetch" /\ UNCHANGED <<frames, nrun>>
       \/ /\ handler = NULL
          /\ frames' = SetTop([Top EXCEPT !.laststatus = 128 + got, !.halted = TRUE,
                                          !.why = "signal"])
          /\ pc' = "top" /\ UNCHANGED nrun
    /\ UNCHANGED <<got, nops, nsig>>

-----------------------------------------------------------------------------
(* A VM has ended: what vm_exec_string, the parent of a subshell or main   *)
(* do with it.                                                             *)

Under == frames[Depth - 1]
Below2 == SubSeq(frames, 1, Depth - 2)

(* vm_exec_string passes the requests of the VM on to its caller.          *)
Told(p, f) ==
    [p EXCEPT !.exit_requested   = @ \/ f.exit_requested,
              !.return_requested = @ \/ f.return_requested]

\* Mutant: exit inside eval or a handler halts the caller without vm_exit.
LeaveString_HaltOnly ==
    /\ Top.kind \in {"eval", "trap"}
    /\ LET p == [Told(Under, Top) EXCEPT !.laststatus = Top.laststatus] IN
       frames' = Append(Below2, IF Top.exit_requested
                                THEN [p EXCEPT !.halted = TRUE, !.why = "exit"]
                                ELSE p)
    /\ pc' = Top.after

(* eval and source: the status is that of the builtin.  A handler: the     *)
(* loop goes on with the opcode before which it was taken.                 *)
LeaveString ==
    /\ Top.kind \in {"eval", "trap"}
    /\ LET p == [Told(Under, Top) EXCEPT !.laststatus = Top.laststatus] IN
       IF Top.exit_requested
       THEN vm_exit(Below2, p, Top.laststatus, Top.after)
       ELSE /\ frames' = Append(Below2, IF Top.kind = "eval" THEN AfterBuiltin(p) ELSE p)
            /\ pc' = Top.after

\* Mutant: vm_exit returns with the EXIT trap and does not halt.
LeaveExit_NoHalt ==
    /\ Top.kind = "exit"
    /\ frames' = Append(Below2, [Told(Under, Top) EXCEPT !.laststatus = Top.save,
                                                         !.why = "exit"])
    /\ pc' = Top.after

(* Behind the EXIT trap vm_exit puts its own status back; exit in the trap *)
(* calls vm_exit again, which finds no trap.                               *)
LeaveExit ==
    /\ Top.kind = "exit"
    /\ frames' = Append(Below2, [Told(Under, Top) EXCEPT !.laststatus = Top.save,
                                                         !.halted = TRUE, !.why = "exit"])
    /\ pc' = Top.after

LeaveMain ==
    /\ Top.kind = "main"
    /\ pc' = "over" /\ UNCHANGED frames

LeaveChild == ChildEnds(Depth, Top.laststatus)

Leave ==
    /\ pc = "top" /\ Top.halted
    /\ \/ (LeaveString \/ LeaveExit \/ LeaveMain) /\ UNCHANGED signals
       \/ LeaveChild
    /\ UNCHANGED <<got, nops, nsig, nrun>>

-----------------------------------------------------------------------------
(* Opcodes.  The loop does not look at halted between the safe point and   *)
(* the fetch: after a handler that runs exit, one more opcode is executed. *)

Fetched == [Top EXCEPT !.late = @ + (IF Top.why = "none" THEN 0 ELSE 1)]

Fetch ==
    /\ pc = "fetch" /\ nops < MaxOps
    /\ nops' = nops + 1
    /\ UNCHANGED <<got, nsig, nrun>>

Op == Fetch /\ UNCHANGED signals

(* Opcodes that work on operands and variables only.                       *)
OP_OTHER == Op /\ frames' = SetTop(Fetched) /\ pc' = "top"

(* An external command: waitpid is called again after EINTR.               *)
OP_EXEC_SIMPLE(status) ==
    /\ Op
    /\ frames' = SetTop([Fetched EXCEPT !.laststatus = status])
    /\ pc' = "top"

(* A builtin that has nothing to do with signals or traps.                 *)
OP_EXEC_BUILTIN(status) ==
    /\ Op
    /\ frames' = SetTop(AfterBuiltin([Fetched EXCEPT !.laststatus = status]))
    /\ pc' = "top"

\* Mutant: trap works on the table of the shell, also inside eval and handlers.
builtin_trap_Outermost(action, sig) ==
    /\ Op
    /\ frames' = IF sig = EXIT
                 THEN [frames EXCEPT ![1].exit_trap = action]
                 ELSE [frames EXCEPT ![1].trap_handlers[sig] = action]
    /\ pc' = "top"

(* trap action signal; the action "-" is NULL here.                        *)
builtin_trap(action, sig) ==
    /\ Op
    /\ LET f == IF sig = EXIT
                THEN [Fetched EXCEPT !.exit_trap = action, !.xproc = Top.proc]
                ELSE [Fetched EXCEPT !.trap_handlers[sig] = action]
       IN  frames' = SetTop(AfterBuiltin([f EXCEPT !.laststatus = 0]))
    /\ pc' = "top"

builtin_return(status) ==
    /\ Op
    /\ frames' = SetTop(AfterBuiltin([Fetched EXCEPT !.laststatus = status,
                                                     !.return_requested = TRUE]))
    /\ pc' = "top"

builtin_exit(status) ==
    /\ Op
    /\ vm_exit(Below, [Fetched EXCEPT !.laststatus = status, !.exit_requested = TRUE],
               status, "top")

(* eval and source.                                                        *)
builtin_eval(text) ==
    /\ Op
    /\ frames' = IF text \in Bad
                 THEN SetTop(AfterBuiltin([Fetched EXCEPT !.laststatus = 1]))
                 ELSE Append(SetTop(Fetched), vm_init("eval", Top.proc, EXIT, text, 0, "top"))
    /\ pc' = "top"

\* Mutant: exec leaves the flags to the program it starts.
builtin_exec_KeepsFlags ==
    /\ Fetch
    /\ frames' = SetTop(Fetched) /\ pc' = "exec"
    /\ caught' = caught \ {Top.proc} /\ UNCHANGED pend

(* exec with a command: signal_reset, which drops the flags, then execvp.  *)
builtin_exec ==
    /\ Fetch
    /\ frames' = SetTop(Fetched) /\ pc' = "exec"
    /\ signal_reset(Top.proc)

(* No such program: signal_init, in a child too, which had no handlers     *)
(* before, and the script goes on.                                         *)
ExecFails(status) ==
    /\ pc = "exec"
    /\ frames' = SetTop(AfterBuiltin([Top EXCEPT !.laststatus = status]))
    /\ pc' = "top"
    /\ signal_init(Top.proc)
    /\ UNCHANGED <<got, nops, nsig, nrun>>

(* The process is another program now, and no EXIT trap runs; of a child   *)
(* the parent sees the status of that program.                             *)
ExecReplaces(status) ==
    /\ pc = "exec"
    /\ \/ Top.proc = 0 /\ pc' = "over" /\ UNCHANGED <<frames, signals>>
       \/ \E i \in 2 .. Depth : frames[i].proc = Top.proc /\ ChildEnds(i, status)
    /\ UNCHANGED <<got, nops, nsig, nrun>>

\* Mutant: the child keeps the EXIT trap of its parent.
OP_SUBSHELL_KeepsTrap ==
    /\ Op
    /\ frames' = Append(SetTop(Fetched),
                        [Top EXCEPT !.kind = "child", !.proc = @ + 1,
                                    !.halted = FALSE, !.nexit = 0, !.why = "none", !.late = 0])
    /\ pc' = "top"

(* The child is a copy of the VM without its EXIT trap, and signal_reset   *)
(* leaves it without handlers and flags.                                   *)
OP_SUBSHELL ==
    /\ Op
    /\ frames' = Append(SetTop(Fetched),
                        [Top EXCEPT !.kind = "child", !.proc = @ + 1, !.exit_trap = NULL,
                                    !.halted = FALSE, !.nexit = 0, !.why = "none", !.late = 0])
    /\ pc' = "top"

(* A pipeline is waited for by job_wait_fg, which gives a signal that      *)
(* interrupts it to the job.                                               *)
OP_PIPELINE == Op /\ frames' = SetTop(Fetched) /\ pc' = "wait"

WaitEINTR ==
    /\ pc = "wait" /\ Pending
    /\ signal_clear(Top.proc)
    /\ UNCHANGED <<frames, pc, got, nops, nsig, nrun>>

PipelineEnds(status) ==
    /\ pc = "wait"
    /\ frames' = SetTop([Top EXCEPT !.laststatus = status])
    /\ pc' = "top"
    /\ UNCHANGED <<got, signals, nops, nsig, nrun>>

OP_HALT ==
    /\ pc = "fetch"
    /\ vm_exit(Below, Fetched, Top.laststatus, "top")
    /\ UNCHANGED <<got, signals, nops, nsig, nrun>>

-----------------------------------------------------------------------------
(* The world.  A signal sets the flag of a process that has the handlers;  *)
(* any other it ends: a child, with everything that runs in it, or the     *)
(* shell itself while it tries to exec.                                    *)

Signal ==
    /\ pc # "over" /\ nsig < MaxSig
    /\ nsig' = nsig + 1
    /\ UNCHANGED <<got, nops, nrun>>

Deliver(p, s) ==
    /\ Signal
    /\ p \in caught
    /\ pend' = pend \cup {<<p, s>>}
    /\ UNCHANGED <<frames, pc, caught>>

KillChild(i, s) ==
    /\ Signal
    /\ frames[i].proc \notin caught
    /\ ChildEnds(i, 128 + s)

KillShell ==
    /\ Signal
    /\ 0 \notin caught
    /\ pc' = "over" /\ UNCHANGED <<frames, signals>>

-----------------------------------------------------------------------------
Init ==
    /\ frames = <<vm_init("main", 0, EXIT, NULL, 0, "top")>>
    /\ pc = "top" /\ got = SIGINT /\ pend = {} /\ caught = {0}
    /\ nops = 0 /\ nsig = 0 /\ nrun = 0

(* What a failing exec answers: not found, or not executable.              *)
ExecErrors == {126, 127}

LoopStep ==
    \/ SafePoint \/ Dispatch \/ Leave \/ WaitEINTR
    \/ \E c \in Codes : PipelineEnds(c) \/ ExecReplaces(c)
    \/ \E c \in ExecErrors : ExecFails(c)

ScriptStep ==
    \/ OP_OTHER \/ OP_SUBSHELL \/ OP_PIPELINE \/ OP_HALT \/ builtin_exec
    \/ \E c \in Codes : \/ OP_EXEC_SIMPLE(c) \/ OP_EXEC_BUILTIN(c)
                        \/ builtin_return(c) \/ builtin_exit(c)
    \/ \E t \in Texts : builtin_eval(t)
    \/ \E a \in Actions : \E s \in Signals \cup {EXIT} : builtin_trap(a, s)

WorldStep ==
    \/ \E s \in Signals : \/ \E p \in caught : Deliver(p, s)
                        \/ \E i \in 2 .. Depth : KillChild(i, s)
    \/ KillShell

Terminated == pc = "over" /\ UNCHANGED vars

Next == LoopStep \/ ScriptStep \/ WorldStep \/ Terminated

Spec == Init /\ [][Next]_vars

-----------------------------------------------------------------------------
(* Properties.                                                             *)

Frame ==
    [kind : {"main", "eval", "trap", "exit", "child"}, proc : Nat,
     sig : Signals \cup {EXIT}, text : Actions, save : 0 .. 255, after : {"top", "fetch"},
     trap_handlers : [Signals -> Actions], exit_trap : Actions,
     laststatus : 0 .. 255, halted : BOOLEAN,
     exit_requested : BOOLEAN, return_requested : BOOLEAN,
     xproc : Nat, nexit : Nat, why : {"none", "exit", "return", "signal"}, late : Nat]

(* The shell is the first VM and no other, a child runs one process below  *)
(* its parent and everything else in the process of its caller; only a     *)
(* process that is there and has the handlers has flags, and it takes a    *)
(* signal whose flag is still set.                                         *)
TypeOK ==
    /\ frames \in Seq(Frame) /\ Depth >= 1
    /\ frames[1].kind = "main" /\ frames[1].proc = 0
    /\ \A i \in 2 .. Depth :
          /\ frames[i].kind # "main"
          /\ frames[i].proc = frames[i - 1].proc + (IF frames[i].kind = "child" THEN 1 ELSE 0)
          /\ frames[i].kind = "trap" => frames[i].sig \in Signals
    /\ pc \in ControlPoints /\ got \in Signals
    /\ caught \subseteq 0 .. Top.proc /\ pend \subseteq caught \X Signals
    /\ pc = "got" => ~Top.halted /\ got \in Flags(Top.proc)
    /\ nops \in 0 .. MaxOps /\ nsig \in 0 .. MaxSig /\ nrun \in Nat

(* vm_run hands the string of the trap table itself to vm_exec_string, and *)
(* builtin_trap frees the string it replaces: whatever a handler does, and *)
(* whatever is called from it, the table of the VM that it interrupted     *)
(* keeps its text until the handler has returned.                          *)
HandlersStay ==
    \A i \in 2 .. Depth :
        frames[i].kind = "trap" => frames[i - 1].trap_handlers[frames[i].sig] = frames[i].text

(* An EXIT trap runs in the process that set it and in no subshell of it,  *)
(* and a VM starts it once, whatever the trap itself does, however often   *)
(* exit is called, by eval, by handlers or at the end of the script.       *)
ExitTrapOnce ==
    \A i \in 1 .. Depth :
        /\ frames[i].nexit <= 1
        /\ Runs(frames[i].exit_trap) => frames[i].xproc = frames[i].proc

(* A VM that was ended by exit, at any depth of eval and handlers, or by   *)
(* reaching its end, has no EXIT trap left that did not run (unless the    *)
(* opcode that is executed after an exit in a handler has set one).        *)
ExitTrapRuns ==
    \A i \in 1 .. Depth :
        frames[i].why = "exit" /\ frames[i].late = 0 => ~Runs(frames[i].exit_trap)

(* exit is final: no VM executes more than one opcode after it has been    *)
(* ended by exit.                                                          *)
ExitIsFinal == \A i \in 1 .. Depth : frames[i].late <= 1

(* A handler never runs without a signal, nor twice for one: the handlers  *)
(* started and the flags that may still start one are never more than the  *)
(* signals sent.                                                           *)
NoPhantomHandlers == nrun + Cardinality(pend) <= nsig

(* The signal taken by a safe point has an effect: its handler is started, *)
(* it is ignored because the script says so, or it ends the VM.            *)
Answered ==
    \/ Depth' = Depth + 1 /\ Top'.kind = "trap" /\ Top'.sig = got
    \/ Top.trap_handlers[got] \in Bad \cup {Ignore}
    \/ Top'.halted /\ Top'.laststatus = 128 + got

(* A flag that the handler of a signal has set goes away only with the     *)
(* process it is a flag of, or in the process that executes: with the      *)
(* answer to a signal that was pending there, when job_wait_fg gives it to *)
(* a pipeline, or by exec, whether or not the exec succeeds.               *)
Accounted(x) ==
    \/ x[1] > Top'.proc
    \/ /\ x[1] = Top.proc
       /\ \/ pc = "got" /\ got \in Flags(Top.proc) /\ Answered
          \/ pc = "wait"
          \/ pc = "fetch" /\ pc' = "exec"

NeverDropped == [][\A x \in pend \ pend' : Accounted(x)]_vars
=============================================================================
