----------------------------- MODULE JobControl -----------------------------
(***************************************************************************)
(* Job control in opsh: the shell process, which forks children, waits for *)
(* them and keeps the job table (src/src/vm/vm.c, exec/job.c,              *)
(* builtins/builtins.c), against the kernel and the children, which stop,  *)
(* continue and exit whenever they like, and against signals sent to the   *)
(* shell (exec/signal.c).                                                  *)
(*                                                                         *)
(* The shell is single threaded, so an opcode or builtin is one action up  *)
(* to the points where it calls waitpid: those are control points of their *)
(* own (pc), between which children and signals interleave.                *)
(*                                                                         *)
(* eval, source and traps run in a fresh VM (vm_exec_string) that has a    *)
(* job table of its own; tabs is the stack of the job tables, and the one  *)
(* at depth is the table of the VM that executes.                          *)
(***************************************************************************)
EXTENDS JobTable

CONSTANTS
    MaxPid,      \* how many processes the shell forks
    MaxPipe,     \* longest pipeline
    MaxDepth,    \* nesting of vm_exec_string; 1: no eval, no source, no trap
    MaxStop,     \* how many times a child stops
    MaxSig,      \* how many signals are sent to the shell
    Codes,       \* exit codes of the children
    WaitArgs,    \* arguments of "wait n" beside job specs
    KillSignals  \* signals that the script sends with "kill"

ASSUME JobControlAssumption ==
    /\ MaxPid \in Nat /\ MaxPipe \in Nat /\ MaxStop \in Nat /\ MaxSig \in Nat
    /\ MaxDepth \in Nat \ {0}
    /\ Codes \subseteq Status
    /\ WaitArgs \subseteq Int
    /\ KillSignals \subseteq {SIGTERM, SIGKILL, SIGSTOP, SIGCONT}

VARIABLES
    tabs,        \* job tables, one for each level of vm_exec_string
    depth,       \* level that executes
    proc,        \* kernel: state, group, unreported change and exit code of a child
    npid,        \* kernel: pid of the latest child
    pc,          \* where the shell is, see ControlPoints
    cont,        \* the builtin or opcode that called job_update or job_wait_fg
    target,      \* the job (or, at "direct", the waitpid argument) waited for
    neg,         \* the pipeline waited for is negated
    laststatus,  \* $?; while "wait" runs, its local last_status
    sig,         \* sig_int_pending and sig_term_pending
    nstop, nsig  \* counters for MaxStop and MaxSig

kernel == <<proc, npid>>
vars == <<tabs, depth, proc, npid, pc, cont, target, neg, laststatus, sig, nstop, nsig>>

Pids == 1 .. MaxPid
Specs == {SpecCurrent, SpecPrevious, SpecBackground, SpecPipeline} \cup Pids
Signals == {SIGINT, SIGTERM}

(* "ready": top of the dispatch loop.  "update": in the loop of job_update.*)
(* "head", "block" and "eintr": in job_wait_fg, before the test of the job *)
(* state, inside waitpid, and after waitpid failed with EINTR.  "direct":  *)
(* in a waitpid outside the job table.                                     *)
ControlPoints == {"ready", "update", "head", "block", "eintr", "direct", "halted"}
Callers == {"none", "pipeline", "wait_all", "wait_job", "fg", "jobs"}

Table == tabs[depth]
SetTable(t) == tabs' = [tabs EXCEPT ![depth] = t]

-----------------------------------------------------------------------------
(* The kernel, as far as waitpid, fork and kill show it.  A child has at   *)
(* most one change that waitpid has not reported: a newer one replaces it. *)

Alive(p)     == proc[p].st \in {"run", "stop"}
IsChild(p)   == proc[p].st \in {"run", "stop", "zombie"}
Report(p)    == IF proc[p].st = "zombie" THEN "exited" ELSE proc[p].rep
HasReport(p) == IsChild(p) /\ Report(p) # "none"
Members(g)   == {p \in Pids : IsChild(p) /\ proc[p].grp = g}

(* The children that waitpid(a, ...) is about; group 0 is the shell's.     *)
Matches(a) ==
    {p \in Pids : IsChild(p) /\ CASE a > 0  -> p = a
                                  [] a = 0  -> proc[p].grp = 0
                                  [] a = -1 -> TRUE
                                  [] OTHER  -> proc[p].grp = -a}

(* waitpid reports the pending change of p; an exited child is gone.       *)
Consume(p) ==
    [proc EXCEPT ![p] = IF @.st = "zombie" THEN [@ EXCEPT !.st = "gone"]
                                           ELSE [@ EXCEPT !.rep = "none"]]

Child(g) == [st |-> "run", grp |-> g, rep |-> "none", code |-> 0]

Continued(P) ==
    [p \in Pids |-> IF p \in P /\ proc[p].st = "stop"
                    THEN [proc[p] EXCEPT !.st = "run", !.rep = "continued"] ELSE proc[p]]
Stopped(P) ==
    [p \in Pids |-> IF p \in P /\ proc[p].st = "run"
                    THEN [proc[p] EXCEPT !.st = "stop", !.rep = "stopped"] ELSE proc[p]]
(* Each process p of DOMAIN by ends by signal by[p].                       *)
Killed(by) ==
    [p \in Pids |-> IF p \in DOMAIN by /\ Alive(p)
                    THEN [proc[p] EXCEPT !.st = "zombie", !.rep = "none", !.code = 128 + by[p]]
                    ELSE proc[p]]

(* A signal, SIGCHLD included, arrives (the handlers are installed without *)
(* SA_RESTART): a waitpid that has nothing to report about its group fails *)
(* with EINTR.  waitpids outside job_wait_fg are simply called again.      *)
Interrupt(p) ==
    pc' = IF /\ pc = "block"
             /\ \A q \in Members(Table.jobs[target].pgid) : q # p /\ ~HasReport(q)
          THEN "eintr" ELSE pc

ChildExit(p, c) ==
    /\ proc[p].st = "run"
    /\ proc' = [proc EXCEPT ![p].st = "zombie", ![p].rep = "none", ![p].code = c]
    /\ Interrupt(p)
    /\ UNCHANGED <<tabs, depth, npid, cont, target, neg, laststatus, sig, nstop, nsig>>

ChildStop(p) ==
    /\ proc[p].st = "run"
    /\ nstop < MaxStop
    /\ nstop' = nstop + 1
    /\ proc' = Stopped({p})
    /\ Interrupt(p)
    /\ UNCHANGED <<tabs, depth, npid, cont, target, neg, laststatus, sig, nsig>>

(* Somebody else sends SIGCONT to a stopped child.                         *)
ChildContinue(p) ==
    /\ proc[p].st = "stop"
    /\ proc' = Continued({p})
    /\ Interrupt(p)
    /\ UNCHANGED <<tabs, depth, npid, cont, target, neg, laststatus, sig, nstop, nsig>>

(* handle_sigint and handle_sigterm.                                       *)
Deliver(s) ==
    /\ pc # "halted"
    /\ nsig < MaxSig
    /\ nsig' = nsig + 1
    /\ sig' = sig \cup {s}
    /\ Interrupt(0)
    /\ UNCHANGED <<tabs, depth, proc, npid, cont, target, neg, laststatus, nstop>>

(* What fg, bg and wait do to a stopped job: kill(-j->pgid, SIGCONT) and   *)
(* j->state = JOB_RUNNING.                                                 *)
Resumed(t, i) ==
    IF t.jobs[i].state = "STOPPED" THEN Continued(Members(t.jobs[i].pgid)) ELSE proc
Resume(t, i) ==
    IF t.jobs[i].state = "STOPPED" THEN [t EXCEPT !.jobs[i].state = "RUNNING"] ELSE t

-----------------------------------------------------------------------------
(* The dispatch loop.                                                      *)

Ready == pc = "ready" /\ sig = {}

(* Nothing but laststatus and the job table changes; back to the loop.     *)
Finish(t, status) ==
    /\ SetTable(t)
    /\ laststatus' = status
    /\ pc' = "ready" /\ cont' = "none" /\ target' = 0 /\ neg' = FALSE

(* The safe point with a signal pending: signal_get_pending prefers SIGINT *)
(* and signal_clear drops the rest.  A handler runs in a VM of its own     *)
(* (or, if it is empty, not at all).  Without a handler the VM halts: the  *)
(* shell ends, or vm_exec_string returns to the VM that called it.         *)
HaltVm(status) ==
    /\ laststatus' = status
    /\ IF depth = 1
       THEN /\ pc' = "halted" /\ UNCHANGED <<tabs, depth>>
       ELSE /\ tabs' = [tabs EXCEPT ![depth] = job_table_init]
            /\ depth' = depth - 1 /\ UNCHANGED pc

SafePoint ==
    /\ pc = "ready" /\ sig # {}
    /\ sig' = {}
    /\ \/ HaltVm(128 + (IF SIGINT \in sig THEN SIGINT ELSE SIGTERM))
       \/ UNCHANGED <<tabs, depth, pc, laststatus>>
       \/ depth < MaxDepth /\ depth' = depth + 1
          /\ UNCHANGED <<tabs, pc, laststatus>>
    /\ UNCHANGED <<proc, npid, cont, target, neg, nstop, nsig>>

vm_exec_string ==
    /\ Ready
    /\ depth < MaxDepth
    /\ depth' = depth + 1
    /\ UNCHANGED <<tabs, kernel, pc, cont, target, neg, laststatus, sig, nstop, nsig>>

(* The VM of vm_exec_string ends and its job table with it, or the script  *)
(* ends.                                                                   *)
OP_HALT ==
    /\ Ready
    /\ HaltVm(laststatus)
    /\ UNCHANGED <<kernel, cont, target, neg, sig, nstop, nsig>>

(* vm_exec_string passes the exit of its VM on to its caller.              *)
builtin_exit(status) ==
    /\ Ready
    /\ tabs' = [d \in DOMAIN tabs |-> IF d = 1 THEN tabs[1] ELSE job_table_init]
    /\ depth' = 1 /\ pc' = "halted" /\ laststatus' = status
    /\ UNCHANGED <<kernel, cont, target, neg, sig, nstop, nsig>>

-----------------------------------------------------------------------------
(* Opcodes that fork.                                                      *)

OP_BACKGROUND ==
    LET p == npid + 1 IN
    /\ Ready
    /\ p \in Pids
    /\ npid' = p
    /\ proc' = [proc EXCEPT ![p] = Child(p)]
    /\ Finish(IF job_table_full(Table) THEN Table
              ELSE job_add(Table, p, {p}, p, "(background)"), 0)
    /\ UNCHANGED <<depth, sig, nstop, nsig>>

(* fork failed in OP_BACKGROUND or OP_SUBSHELL (status 1) or in            *)
(* OP_EXEC_SIMPLE (126).                                                   *)
ForkFails ==
    /\ Ready
    /\ \E status \in {1, 126} : Finish(Table, status)
    /\ UNCHANGED <<depth, kernel, sig, nstop, nsig>>

Negated(ng, status) == IF ~ng THEN status ELSE IF status = 0 THEN 1 ELSE 0

(* A pipeline of n commands of which k were forked: k < n when a pipe or a *)
(* fork failed.  The children share the group of the first.                *)
OP_PIPELINE(n, k, ng) ==
    LET g == npid + 1
        P == g .. (npid + k)
        failed == IF k < n THEN 1 ELSE laststatus
    IN
    /\ Ready
    /\ npid + k <= MaxPid
    /\ npid' = npid + k
    /\ proc' = [p \in Pids |-> IF p \in P THEN Child(g) ELSE proc[p]]
    /\ IF k = 0 \/ job_table_full(Table)
       THEN Finish(Table, Negated(ng, failed))
       ELSE /\ SetTable(job_add(Table, g, P, npid + k, "(pipeline)"))
            /\ pc' = "head" /\ cont' = "pipeline" /\ target' = Table.next_id
            /\ neg' = ng /\ laststatus' = failed
    /\ UNCHANGED <<depth, sig, nstop, nsig>>

(* OP_EXEC_SIMPLE of an external command, and OP_SUBSHELL: the child stays *)
(* in the group of the shell and out of the job table.                     *)
OP_EXEC_SIMPLE ==
    LET p == npid + 1 IN
    /\ Ready
    /\ p \in Pids
    /\ npid' = p
    /\ proc' = [proc EXCEPT ![p] = Child(0)]
    /\ pc' = "direct" /\ target' = p
    /\ UNCHANGED <<tabs, depth, cont, neg, laststatus, sig, nstop, nsig>>

(* waitpid(target, &wstatus, 0), retried on EINTR, and what its callers    *)
(* make of it: the status of the child, or 127 when there is none.         *)
DirectWait ==
    /\ pc = "direct"
    /\ \/ \E p \in Matches(target) :
             /\ proc[p].st = "zombie"
             /\ proc' = Consume(p)
             /\ Finish(Table, proc[p].code)
       \/ /\ Matches(target) = {}
          /\ UNCHANGED proc
          /\ Finish(Table, 127)
    /\ UNCHANGED <<depth, npid, sig, nstop, nsig>>

-----------------------------------------------------------------------------
(* job_wait_fg.  Its caller is cont, and its result goes to Return.        *)

Return(t) ==
    LET j    == t.jobs[target]
        told == Notify(t, {target})
    IN
    IF cont = "wait_all"
    THEN /\ SetTable(told)
         /\ laststatus' = j.status
         /\ pc' = "update" /\ target' = 0 /\ UNCHANGED <<cont, neg>>
    ELSE Finish(IF j.state = "DONE" THEN job_reap_done(told) ELSE t, Negated(neg, j.status))

Call_job_wait_fg(t, caller, i) ==
    /\ SetTable(t)
    /\ pc' = "head" /\ cont' = caller /\ target' = i
    /\ UNCHANGED <<neg, laststatus>>

(* Mutant: do ... while, waitpid before the first test of the state.       *)
WaitHead_DoWhile ==
    /\ pc = "head"
    /\ pc' = "block" /\ UNCHANGED <<tabs, cont, target, neg, laststatus>>
    /\ UNCHANGED <<depth, kernel, sig, nstop, nsig>>

(* while (j->state == JOB_RUNNING): into waitpid, or done.                 *)
WaitHead ==
    /\ pc = "head"
    /\ IF Table.jobs[target].state = "RUNNING"
       THEN pc' = "block" /\ UNCHANGED <<tabs, cont, target, neg, laststatus>>
       ELSE Return(Table)
    /\ UNCHANGED <<depth, kernel, sig, nstop, nsig>>

(* waitpid(-j->pgid, &wstatus, WUNTRACED | WCONTINUED) returns p.          *)
WaitReport(p) ==
    /\ pc = "block"
    /\ p \in Members(Table.jobs[target].pgid) /\ HasReport(p)
    /\ proc' = Consume(p)
    /\ SetTable(job_wait_fg(Table, target, p, Report(p), proc[p].code))
    /\ pc' = "head"
    /\ UNCHANGED <<depth, npid, cont, target, neg, laststatus, sig, nstop, nsig>>

(* waitpid fails with ECHILD: the loop is left with the job as it is.      *)
WaitECHILD ==
    /\ pc = "block"
    /\ Members(Table.jobs[target].pgid) = {}
    /\ Return(Table)
    /\ UNCHANGED <<depth, kernel, sig, nstop, nsig>>

(* The sets of processes of P that a signal other than SIGKILL may end:    *)
(* the others handle it, and a stopped one keeps it for later.             *)
Victims(P) == SUBSET {p \in P : proc[p].st = "run"}

(* waitpid fails with EINTR: forward SIGINT and SIGTERM to the group, and  *)
(* a process may end by either.                                            *)
WaitEINTR ==
    /\ pc = "eintr"
    /\ \E V \in Victims(Members(Table.jobs[target].pgid)) : \E by \in [V -> sig] :
           proc' = Killed(by)
    /\ sig' = {}
    /\ pc' = "head"
    /\ UNCHANGED <<tabs, depth, npid, cont, target, neg, laststatus, nstop, nsig>>

-----------------------------------------------------------------------------
(* job_update, for the builtins "wait" and "jobs".                         *)

Call_job_update(caller) ==
    /\ Ready
    /\ pc' = "update" /\ cont' = caller /\ laststatus' = 0
    /\ UNCHANGED <<tabs, depth, kernel, target, neg, sig, nstop, nsig>>

builtin_wait     == Call_job_update("wait_all")
builtin_jobs     == Call_job_update("jobs")

(* waitpid(-1, &wstatus, WNOHANG | WUNTRACED | WCONTINUED) returns p.      *)
UpdateReport(p) ==
    /\ pc = "update"
    /\ HasReport(p)
    /\ proc' = Consume(p)
    /\ SetTable(job_update(Table, p, Report(p), proc[p].code))
    /\ UNCHANGED <<depth, npid, pc, cont, target, neg, laststatus, sig, nstop, nsig>>

NotDone(t) == First({i \in Ids(t) : t.jobs[i].state # "DONE"})

(* It returns 0 or -1.  "jobs" marks the jobs it shows as done notified;   *)
(* "wait" resumes and waits for the first job that is not done.            *)
JobsDone ==
    /\ pc = "update" /\ cont = "jobs"
    /\ \A p \in Pids : ~HasReport(p)
    /\ Finish(job_reap_done(Notify(Table, Ids(Table))), 0)
    /\ UNCHANGED <<depth, kernel, sig, nstop, nsig>>

(* Mutant: a stopped job is waited for and not resumed.                    *)
WaitNext_NoResume ==
    LET i == NotDone(Table) IN
    /\ pc = "update" /\ cont = "wait_all"
    /\ \A p \in Pids : ~HasReport(p)
    /\ IF i = NoJob
       THEN Finish(job_reap_done(Table), laststatus)
       ELSE Call_job_wait_fg(Table, "wait_all", i)
    /\ UNCHANGED <<depth, kernel, sig, nstop, nsig>>

WaitNext ==
    LET i == NotDone(Table) IN
    /\ pc = "update" /\ cont = "wait_all"
    /\ \A p \in Pids : ~HasReport(p)
    /\ IF i = NoJob
       THEN /\ Finish(job_reap_done(Table), laststatus)
            /\ UNCHANGED proc
       ELSE /\ proc' = Resumed(Table, i)
            /\ Call_job_wait_fg(Resume(Table, i), "wait_all", i)
    /\ UNCHANGED <<depth, npid, sig, nstop, nsig>>

-----------------------------------------------------------------------------
(* The other builtins.                                                     *)

Fails(status) ==
    /\ Finish(Table, status)
    /\ UNCHANGED proc

builtin_wait_job(spec) ==
    LET i == job_parse_spec(Table, spec) IN
    /\ Ready
    /\ IF i = NoJob THEN Finish(Table, 127) ELSE Call_job_wait_fg(Table, "wait_job", i)
    /\ UNCHANGED <<depth, kernel, sig, nstop, nsig>>

(* Mutant: the job table is not consulted.                                 *)
builtin_wait_pid_NoLookup(n) ==
    /\ Ready
    /\ pc' = "direct" /\ target' = n /\ UNCHANGED <<tabs, cont, neg, laststatus>>
    /\ UNCHANGED <<depth, kernel, sig, nstop, nsig>>

builtin_wait_pid(n) ==
    LET i == job_find_by_pid(Table, n) IN
    /\ Ready
    /\ IF i # NoJob THEN Call_job_wait_fg(Table, "wait_job", i)
       ELSE pc' = "direct" /\ target' = n /\ UNCHANGED <<tabs, cont, neg, laststatus>>
    /\ UNCHANGED <<depth, kernel, sig, nstop, nsig>>

builtin_fg(spec) ==
    LET i == job_parse_spec(Table, spec) IN
    /\ Ready
    /\ IF i = NoJob THEN Fails(1)
       ELSE /\ proc' = Resumed(Table, i)
            /\ Call_job_wait_fg(Resume(Table, i), "fg", i)
    /\ UNCHANGED <<depth, npid, sig, nstop, nsig>>

builtin_bg(spec) ==
    LET i == job_parse_spec(Table, spec) IN
    /\ Ready
    /\ IF i = NoJob THEN Fails(1)
       ELSE IF Table.jobs[i].state # "STOPPED" THEN Fails(1)
       ELSE /\ proc' = Resumed(Table, i)
            /\ Finish(Resume(Table, i), 0)
    /\ UNCHANGED <<depth, npid, sig, nstop, nsig>>

(* kill(..., s) with P the processes it names; ESRCH when there are none.  *)
Send(P, s) ==
    IF P = {} THEN Fails(1)
    ELSE /\ \/ s = SIGSTOP /\ proc' = Stopped(P)
            \/ s = SIGCONT /\ proc' = Continued(P)
            \/ s = SIGKILL /\ proc' = Killed([p \in P |-> SIGKILL])
            \/ s = SIGTERM /\ \E V \in Victims(P) : proc' = Killed([p \in V |-> SIGTERM])
         /\ Finish(Table, 0)

builtin_kill_job(spec, s) ==
    LET i == job_parse_spec(Table, spec) IN
    /\ Ready
    /\ IF i = NoJob THEN Fails(1) ELSE Send(Members(Table.jobs[i].pgid), s)
    /\ UNCHANGED <<depth, npid, sig, nstop, nsig>>

builtin_kill_pid(p, s) ==
    /\ Ready
    /\ Send({p} \cap Matches(-1), s)
    /\ UNCHANGED <<depth, npid, sig, nstop, nsig>>

-----------------------------------------------------------------------------
NoChild == [st |-> "none", grp |-> 0, rep |-> "none", code |-> 0]

Init ==
    /\ tabs = [d \in 1 .. MaxDepth |-> job_table_init]
    /\ depth = 1
    /\ proc = [p \in Pids |-> NoChild]
    /\ npid = 0
    /\ pc = "ready" /\ cont = "none" /\ target = 0 /\ neg = FALSE
    /\ laststatus = 0
    /\ sig = {}
    /\ nstop = 0 /\ nsig = 0

(* The steps of the shell that no script, child or user decides on.        *)
ShellStep ==
    \/ SafePoint \/ DirectWait
    \/ WaitHead \/ WaitECHILD \/ WaitEINTR \/ (\E p \in Pids : WaitReport(p))
    \/ JobsDone \/ WaitNext \/ (\E p \in Pids : UpdateReport(p))

(* The script: opcodes and builtins.                                       *)
ScriptStep ==
    \/ OP_BACKGROUND \/ OP_EXEC_SIMPLE \/ ForkFails \/ vm_exec_string \/ OP_HALT
    \/ \E n \in 2 .. MaxPipe : \E k \in 0 .. n : \E ng \in BOOLEAN : OP_PIPELINE(n, k, ng)
    \/ builtin_wait \/ builtin_jobs
    \/ \E status \in Codes : builtin_exit(status)
    \/ \E n \in WaitArgs : builtin_wait_pid(n)
    \/ \E spec \in Specs : \/ builtin_wait_job(spec) \/ builtin_fg(spec) \/ builtin_bg(spec)
                           \/ \E s \in KillSignals : builtin_kill_job(spec, s)
    \/ \E p \in Pids : \E s \in KillSignals : builtin_kill_pid(p, s)

(* The children and whoever sends signals to the shell.                    *)
WorldStep ==
    \/ \E p \in Pids : ChildStop(p) \/ ChildContinue(p) \/ (\E c \in Codes : ChildExit(p, c))
    \/ \E s \in Signals : Deliver(s)

Terminated == pc = "halted" /\ UNCHANGED vars

Next == ShellStep \/ ScriptStep \/ WorldStep \/ Terminated

Spec == Init /\ [][Next]_vars

(* The shell is a running process, so it does not stop between two steps   *)
(* of its own.  Nothing is assumed of the script and of signals.           *)
ShellFairness == WF_vars(ShellStep)

(* A child that runs ends.                                                 *)
ChildFairness == \A p \in Pids : WF_vars(\E c \in Codes : ChildExit(p, c))

ShellSpec == Spec /\ ShellFairness
FairSpec  == Spec /\ ShellFairness /\ ChildFairness

-----------------------------------------------------------------------------
(* Properties.                                                             *)

(* The arrays of a job are parallel to its pids, and identifiers are below *)
(* next_id; a job takes at least one pid, so MaxPid bounds them too.       *)
JobType(j) ==
    j \in [command    : {"(background)", "(pipeline)"},
           pgid       : Pids,
           pids       : SUBSET Pids,
           last       : j.pids,
           pid_done   : SUBSET j.pids,
           pid_status : [j.pids -> Status],
           state      : {"RUNNING", "STOPPED", "DONE"},
           status     : Status,
           notified   : BOOLEAN]

TableType(t) ==
    /\ t \in [jobs     : {t.jobs},
              next_id  : 1 .. MaxPid + 1,
              current  : 0 .. MaxPid,
              previous : 0 .. MaxPid]
    /\ Ids(t) \subseteq 1 .. t.next_id - 1
    /\ \A i \in Ids(t) : JobType(t.jobs[i])

ProcTables ==
    [Pids -> [st   : {"none", "run", "stop", "zombie", "gone"},
              grp  : 0 .. MaxPid,
              rep  : {"none", "stopped", "continued"},
              code : Status]]

Waiting == pc \in {"head", "block", "eintr"}

(* Every variable keeps its type, and whoever is inside job_wait_fg waits  *)
(* for a job that is in the table of the VM that executes.                 *)
TypeOK ==
    /\ depth \in 1 .. MaxDepth
    /\ DOMAIN tabs = 1 .. MaxDepth /\ \A d \in 1 .. MaxDepth : TableType(tabs[d])
    /\ proc \in ProcTables
    /\ npid \in 0 .. MaxPid
    /\ pc \in ControlPoints /\ cont \in Callers
    /\ target \in Int /\ neg \in BOOLEAN
    /\ Waiting => target \in Ids(Table)
    /\ laststatus \in Status
    /\ sig \subseteq Signals
    /\ nstop \in 0 .. MaxStop /\ nsig \in 0 .. MaxSig

AllJobs == UNION {{tabs[d].jobs[i] : i \in Ids(tabs[d])} : d \in DOMAIN tabs}

(* The ownership rule of job.h: the process of a job is collected by       *)
(* job_update or job_wait_fg and by nothing else, so that it is gone       *)
(* exactly when its job knows that it is done.                             *)
ReapOwnership ==
    \A j \in AllJobs : \A p \in j.pids : proc[p].st = "gone" <=> p \in j.pid_done

(* A job is DONE only when every process of it has really ended, and its   *)
(* status is then the exit code of the last command of the pipeline,       *)
(* whatever the order in which the processes ended and were collected.     *)
DoneIsTrue ==
    \A j \in AllJobs : j.state = "DONE" =>
        /\ \A p \in j.pids : proc[p].st = "gone"
        /\ j.status = proc[j.last].code

(* %+ and %- name jobs of the table or nothing, and two different jobs,    *)
(* the older of which is %-, after any sequence of job_add and job_remove. *)
RefsOK ==
    \A d \in DOMAIN tabs :
        /\ tabs[d].current  \in Ids(tabs[d]) \cup {NoJob}
        /\ tabs[d].previous \in Ids(tabs[d]) \cup {NoJob}
        /\ tabs[d].previous < tabs[d].current \/ tabs[d].previous = NoJob

(* job_wait_fg blocks in waitpid only while a process of the job is left   *)
(* to be reported: it never meets ECHILD, which it would answer with the   *)
(* status of a job that is not done.                                       *)
WaitNeverStarves ==
    pc \in {"block", "eintr"} => Members(Table.jobs[target].pgid) # {}

(* A job of one process says STOPPED exactly while its process is stopped, *)
(* as soon as waitpid has nothing new to tell about the process, whatever  *)
(* stops, continues, fg, bg, kill and wait came before.                    *)
StateIsTrue ==
    \A j \in AllJobs : \A p \in j.pids :
        j.pids = {p} /\ IsChild(p) /\ ~HasReport(p)
            => (j.state = "STOPPED" <=> proc[p].st = "stop")

InWait == Waiting \/ pc = "update"

(* A builtin or pipeline that waits for jobs comes back, provided that     *)
(* children that run end.                                                  *)
WaitTerminates == InWait ~> pc = "ready"
=============================================================================
