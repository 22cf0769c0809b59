# A TLA+ model of opsh

opsh is a POSIX-like shell in C: a parser, a compiler to bytecode, a virtual
machine that executes it, and servers that offer shells to programs. This
directory models the parts of it in which something can go wrong that a test
hardly reaches, checks small instances with TLC, and proves the central
invariants for all instances with TLAPS. `PROJECT.json` links every definition
to the lines of code it models and every hazard to the properties about it.

    tlc -workers 2 -config MCJobs_core.cfg MCJobControl
    tlc -workers 2 -config MCShell_core.cfg MCShell
    tlc -workers 2 -config MCFormat_core.cfg MCFormat
    tlapm JobControlProofs.tla
    tlapm VmProofs.tla

## Inventory

| part | state | operations | what is hard about it |
|---|---|---|---|
| job table (`exec/job.c`) | array of jobs (pids, per-pid status, state, notified), `next_id`, `current`, `previous` | `job_add`, `job_remove`, `job_reap_done`, `job_update`, `job_wait_fg`, `job_parse_spec` | children end, stop and continue in any order between two `waitpid`; the table has 64 entries |
| job control in the VM and builtins (`vm/vm.c`, `builtins/builtins.c`) | `$?`, `$!`, one job table per VM | `OP_EXEC_SIMPLE`, `OP_SUBSHELL`, `OP_BACKGROUND`, `OP_PIPELINE`, `wait`, `jobs`, `fg`, `bg`, `kill` | several callers of `waitpid` compete for the children of one process; eval, source and traps run in VMs with tables of their own |
| signals and traps (`exec/signal.c`) | three pending flags, trap handlers and an EXIT trap per VM | handlers, safe point of the dispatch loop, `trap`, `vm_exit`, forwarding in `job_wait_fg` | a signal at every instant, two signals at once; handlers that exit, set traps or are interrupted |
| session server (`serve/serve.c`) | 16 slots: pid and four pipe ends | create, eval, signal, destroy, list, cleanup | timeouts racing answers, output and end of command on different pipes, pipes at their limit, inherited descriptors |
| session shell (`serve/child.c`) | a persistent VM | read a command, run it, write a status byte | end of input, failing writes |
| MCP server (`serve/mcp.c`) | none beside the sessions | JSON messages to session operations | message layer only |
| dispatch loop (`vm/vm.c`) | operand stack, call frames, loop stack, redirection frames, errexit suppression | about 90 opcodes | unwinding by return, break and exit through saved state |
| variables (`exec/variable.c`) | chain of scopes | assign, unset, export, readonly, local | which scope an operation reaches |
| hash table (`foundation/hashtable.c`) | open addressing array | get, set, remove, resize | deletion by backward shift |
| arithmetic (`vm/arith.c`) | none | evaluate `$((...))` on 64 bits | width, division, short circuit |
| compiler (`compiler/compiler.c`) | code buffer, loop stack, patches | AST to bytecode | that pushes and pops of the VM's stacks pair up on every path |
| bytecode images (`vm/image_io.c`) | none | write and read `.opsb` files | sizes and offsets of a file |
| events (`agent/event.c`) | command ids | start and end events | that every start has an end |
| lexer and parser (`parser/lexer.c`, `parser/parser.c`) | a token read ahead, two flags of the lexer, a queue of here-documents | `parse_*`, `drain_heredocs` | what a token is depends on the moment it is read; bodies come at the next newline, wherever that is; errors in the middle of a construct |
| formatter (`format/format.c`) | a queue of here-documents | tree to text; compare or overwrite the file | that the text is the same program |
| linter, LSP server, JSON, foundation | none shared | text and memory | sequential, better tested than model-checked |

How they interact: the VM owns the job table and calls into it from opcodes
and builtins. Signal handlers only set flags that the VM reads at its safe
point and `job_wait_fg` reads after `EINTR`. `vm_exec_string` runs eval,
source, traps and session commands in a nested VM that shares variables with
its caller and nothing of the job table. The session server and its shells are
different processes connected by a command pipe, a control pipe, stdout and
stderr.

## Modules

| module | models |
|---|---|
| `JobTable` | `job.c` as operators on values: one operator per function |
| `JobControl` | the shell process, the kernel's view of its children, signals; EXTENDS `JobTable` |
| `MCJobControl` | constants for TLC |
| `JobControlProofs` | type correctness, references, truth of DONE |
| `JobOwnershipProofs` | ownership of children, waits never starve, the state of a job is that of its process |
| `Sessions` | the session server and the loops of its shells |
| `SessionsProofs` | all safety properties of `Sessions`, for any number of sessions, commands and streams |
| `MCSessions` | constants for TLC |
| `Traps` | signals, traps and the end of VMs: `signal.c`, the safe point, `vm_exit`, `vm_exec_string`, `trap` |
| `MCTraps` | a small instance for TLC |
| `TrapsProofs` | all properties of `Traps`, for every script, nesting and number of signals |
| `Bytecode` | what compiler and machine agree on: the image, and the structure of the code in it |
| `Compiler` | `compiler.c`: syntax trees to bytecode, jumps and patches included; EXTENDS `Bytecode` |
| `Vm` | the dispatch loop of `vm.c` on any code, in the shell and in the processes it forks, and what frames, scopes and children promise; EXTENDS `Bytecode` |
| `VmProofs` | frames, scopes and segments in any code, for all values, statuses and interleavings |
| `Shell` | what a program means, by recursion over its tree, and that its code does it; EXTENDS `Vm`, `Compiler` |
| `MCShell` | constructors of trees, and the programs that TLC compiles and runs |
| `Arith` | `arith.c`: the one-pass parser and evaluator of `$(( ))`, with the width of integers as a constant |
| `ArithMeaning` | trees of expressions, how they are written and what they mean; `OP_EXPAND_ARITH`; EXTENDS `Arith` |
| `MCArith` | the expressions and variables for TLC |
| `VariableTypes` | values and variables, shared by the next two |
| `Scopes` | what variables promise: scopes are functions from names to variables |
| `ScopesProofs` | types, hiding and readonly, for all names and values |
| `HashTable` | `hashtable.c`: open addressing, growth, deletion by backward shift |
| `HashTableProofs` | `ht_set` updates and `ht_remove` deletes, for every hash function and capacity |
| `Environ` | `variable.c` and the opcodes and builtins that call it, on a chain of hash tables; shown to implement `Scopes`; EXTENDS `HashTable` |
| `EnvironProofs` | the chain implements `Scopes`, and all properties of `environ_core`, for every hash function, all names and any depth; EXTENDS `HashTableProofs`, uses `ScopesProofs` |
| `MCEnviron` | names, hash values and workloads for TLC |
| `Parser` | `parser.c` and the tokens of `lexer.c`: lexemes to syntax trees |
| `Formatter` | `format.c`: trees to lexemes, and "opsh format" on a file; EXTENDS `Parser` |
| `Writing` | all ways to write a tree, and the properties of the two; EXTENDS `Formatter` |
| `MCFormat` | trees, styles and disturbed texts for TLC |

### JobTable and JobControl

The shell is single threaded, so an opcode or a builtin is one action up to
the points where it calls `waitpid`. Those are control points (`pc`): `update`
is the loop of `job_update`, `head`/`block`/`eintr` are the loop of
`job_wait_fg` before its test, inside `waitpid` and after `EINTR`, and
`direct` is a `waitpid` outside the table. `cont` says who called, which is
what a return address would. Children and signals take steps at all of them.

| state | code |
|---|---|
| `tabs`, `depth` | the `job_table` of each VM on the stack of `vm_exec_string` calls, and the one that executes |
| `proc` | kernel: running, stopped, zombie or collected; process group; the one change `waitpid` has not reported; exit code |
| `laststatus` | `vm->laststatus` |
| `sig` | `sig_int_pending`, `sig_term_pending` |
| `target`, `neg` | arguments of the wait under way, and `negate` of `OP_PIPELINE` |

Abstractions. The job array is a function from job identifiers, which grow,
so that "first in the array" is "smallest identifier". Pids are never reused.
Process groups are set when `fork` returns, as both sides call `setpgid`. All
ways of not surviving a signal are a choice of the receiving process. Left
out: `OP_CMD_SUBST` and `command -p` (they wait like `OP_EXEC_SIMPLE` but map
the status differently), the `no_fork` mode of the fuzzers, `exec` and EXIT
traps (see `Traps`), and everything that happens inside a forked child beyond its end.

### Sessions

One request at a time; control points are the places where the server waits:
`write` (blocked in `write_exact`), `poll` (the head of the poll loop, where the
clock is looked at), `drain` (inside `drain_fd` or `drain_and_stream`, where it is
not), and `reap1`/`reap2` (the two `waitpid` of `session_close`). Each read of the
two functions that drain is a step (`Drain`), as writers may fill the pipe again
before the next; `DrainEnd` is the read that finds nothing, or the cap, which
`drain_and_stream` does not have (`Capped`). A timeout may strike each time the loop
is back at its head. The shells, the processes that commands start, the death of
any shell, and the death of the server interleave.

| state | code |
|---|---|
| `slots`, `next_session_id` | `sessions[]`, `next_session_id` |
| `open` | sessions whose descriptors the server has not closed |
| `child`, `bg` | the shells: idle, busy, zombie; stopped; output still to write and written; the command whose process is alive beside the shell |
| `holds` | descriptors of other sessions that a shell inherited at `fork` (there is no `FD_CLOEXEC`) |
| `cmdq`, `ctl`, `pipe` | the pipes |
| `buf`, `total`, `streaming` | buffers and counters of `session_op_eval` |
| `todrain`, `status` | the pipes that this turn of the loop has still to drain; the status byte it has read (`exit_status`) |
| `reply`, `cut` | what the client got; history of truncated sessions |

Abstractions. Output is counted in chunks, a chunk being what one `read`
returns, and a chunk and a status byte carry the number of the command that
produced them, which is what the properties are about. Sources are missing,
small (fit the pipe), big (do not), or huge (over `MAX_CMD_SIZE`). A command may
start one process, in the foreground or in the background, that writes what it likes
and may outlive the command and the shell (`ChildStarts`, `BackgroundWrite`,
`BackgroundExit`). In the foreground it has the command pipe as its standard input,
so that a write to a dead shell fails or blocks (`session_op_eval`,
`WriteFails`); in the background it has `/dev/null`. A turn that finds output and
the status byte drains the pipes before and after it reads the byte; the model
drains them after it. Since the
server is sequential, `session/signal` only ever reaches idle sessions; the
model shows the same. Left out: the JSON layer, `session/list` (which only
reads), and commands that read standard input, which is the command pipe.

### Traps

eval, source, the handler of a signal and the EXIT trap each run in a fresh VM
(`vm_exec_string`), a subshell in a copy of the VM in another process. `frames`
is the stack of these VMs. The script is arbitrary: at a fetch any opcode may come, in
handlers too. Control points are the head of the loop, the place between
`signal_get_pending` and `signal_clear`, the fetch, the wait for a pipeline, and
`execvp`; signals arrive at any process between any two steps.

| state | code |
|---|---|
| `frames[i].trap_handlers`, `exit_trap`, `laststatus`, `halted`, `exit_requested`, `return_requested` | fields of `vm_t` |
| `kind`, `proc`, `sig`, `text` | why `vm_exec_string` or `fork` was called, in which process, for which trap |
| `save`, `after` | `status` of the `vm_exit` under way, and where the VM goes on behind it |
| `xproc`, `nexit`, `why`, `late` | history: who set the EXIT trap, how often it was started, what ended the VM, opcodes executed after that |
| `pend`, `got` | `sig_int_pending` and `sig_term_pending` of each process; `sig` in `vm_run` |
| `caught` | kernel: the processes for which `signal_init` was called last, not `signal_reset` |

Abstractions. A handler is a text that parses or one that does not; what it does
is chosen when it runs. Opcodes that only touch operands and variables are one
action. A signal to a process without handlers ends it, and what runs in it: a child,
or the shell while it tries to `exec`. `fork` and the `signal_reset` of the child are
one step, and so are the calls of `sigaction` in `signal_init`. A program that
`execvp` starts is over at once, and its status is what the parent gets. Left out: functions (where `return` ends the
call and not the VM), errexit, background children, `wait` and `fg` (in
`JobControl`), and a builtin that is looked up when it runs.

What the code does, and the model shows, that a script might not expect: the
properties state what is true of it.

- `signal_clear` drops all flags: SIGTERM is lost if SIGINT is pending with it,
  and so is what arrives between `signal_get_pending` and `signal_clear`
  (`NeverDropped` says that something pending with it was answered).
- `exec` of a program that cannot be started drops the flags on the way
  (`signal_reset`, `builtins.c:951`) and the script goes on: a signal that came since
  the safe point is never answered, and one that comes before `signal_init` ends the
  shell, whatever its traps say. `NeverDropped` names `exec` as one of the ways to lose a
  flag. In a subshell the same `signal_init` installs handlers that no child has
  otherwise: from there on the subshell runs the handlers it has inherited, and
  survives signals that would have ended it.
- `exit` in a handler halts the VM, and one more opcode is executed after it
  (`ExitIsFinal`: no more than one). If that one is `trap ... EXIT`, this trap
  does not run.
- A signal that arrives inside eval, source or a handler meets the empty trap
  table of the inner VM, which it halts; the script goes on behind the eval.
- SIGINT or SIGTERM without a handler ends the shell without its EXIT trap.
- `return` in a handler leaves `return_requested` set, and the VM ends at its
  next builtin.
- Traps for signals other than SIGINT and SIGTERM are stored and never run:
  `signal_init` installs no handler for them (`README.md:27` of the repository lists HUP, USR1 and others).

### Compiler, Vm and Shell

`Compiler` translates a tree as `compiler.c` does: each `compile_*` operator
appends to a code buffer, keeps the loop stack with its break patches and
continue target, and patches jumps where the code does. `Vm` has one action per
opcode. A forked process is a copy of the whole machine that goes on at the
segment compiled for it, which is what `fork` makes of it; it takes its steps
interleaved with those of all others, and a parent that waits is blocked until
the children it waits for have ended. `Shell` says what the same tree means
without code, stacks or processes. `ShellSemantics` compares the two. `Vm` takes
the compiled programs as a constant (`Images`), and `Shell` what they mean
(`Meanings`); `ProgramsAssumption` says, and TLC checks at every start, that both are
`compile` and `Meaning` of the trees in `Programs`.

`Bytecode` says what structure the code has, so that one can reason about the
machine without the trees. Every instruction has a level: its home, which is the start
of the body or segment around it, and how many scopes and how many contexts
without errexit have been opened between that start and the instruction
(`Levels`). Two statements about code use it.

- `WellFormed` is what the machine relies on in any code: jumps and segments lead
  into the code, functions that are called exist, the code ends with `HALT`, and no
  path reaches an instruction with fewer scopes open than its level says. It takes the
  place of the bound checks of the VM (such as that of `OP_JMP`), which never fail in
  code of the compiler. `CodeAssumption` states it of all images, and TLC evaluates it
  on the code of every program of `shell_core`.
- `Regular` is more: whichever way an instruction is reached, jumps of `break` and
  `continue` included, its level is the same; a body is left only by return at a
  point where nothing but the function is open, and a segment only by `HALT`.
  Jumps and returns that leave something open (below) make code irregular, but
  for redirections, which levels do not count.
  `return` can also be a name that is found at run time (`$x` as a command), so
  that `CodeRegular` is a property of states: the code is regular, and whenever
  such a name turns out to be `return`, it stands where return may stand.

| state | code |
|---|---|
| `procs[p].ip`, `halted`, `last` | `vm->ip`, `halted`, `laststatus` |
| `stack` | `vm->stack`: texts, counts of word groups, iterators |
| `calls` | `call_stack`: return address, saved environment, saved stack base |
| `redirs` | `redir_stack`: the descriptors each frame has saved |
| `env` | the chain of scopes, innermost first, positional parameters included |
| `errexit`, `suppressed` | `opt_errexit`, `errexit_suppressed` |
| `fds` | kernel: the file behind each descriptor |
| `wait` | the opcode that waits in this process, and for which children |
| `seg` | history: the code the process was forked for |
| `out`, `world` | what was written to each file; how often each external command ran |
| `prog` | the program under test |

Abstractions. Text is a sequence of atoms with blanks and newlines as atoms of
their own. External commands return scripted statuses. A file is the lines
written to it. `IFS` has its default value; patterns of `case` and `[[ ]]` have
no special characters; `local` is used without a value and `shift` by one.
Left out: `VM_STACK_MAX` and the overflow check of `vm_push`, SIGPIPE, traps,
eval, source, events, `set -u` and `set -x`, failing forks, parameter
expansion with operators, arithmetic, arrays, globbing, tilde, `import`.

The reference follows opsh, where POSIX would say otherwise, in three points:
the status of `while` and `until` is that of the last condition, a background
list runs with errexit off, and writing to a closed standard output succeeds.
The texts of the nested programs of `shell_core` were also run by a build of this source and
by another shell in POSIX mode; both agree with the model beside these three
points, and beside `... | ok`, where the first command may get a SIGPIPE.

`shell_core` leaves out programs for which the code is known not to do what the
shell language says; the first of these groups has a run of its own
(`return_frame`):

- `return` when the call or something inside the function is redirected;
  `return`, `break` and `continue` out of a redirected group, a condition, an
  assignment before a command, a subshell, a member of a pipeline, and `break`
  in the body of a function that is defined inside a loop. The jump passes
  over the opcodes that would take the frame, scope or suppression away, and a
  forked child goes on with its parent's code. (`RET` does not use the
  environment it saved, against `ARCH.md:173`.)
- `continue` in `while` and `until`, which jumps to offset 0, the start of the
  program, because the condition is compiled behind the body (`compiler.c:1002`).
- Under `set -e`: a function call or an empty command while `$?` is not 0, which
  ends the shell for the status before it (`vm.c:2841`); a
  function whose last and-or list fails; a negated pipeline of several commands;
  a command substitution inside a tested command.
- A function defined twice (the first definition wins), or used before its
  definition (it works); a call with fewer arguments than the caller has.
- `$?` after an assignment alone, after a `for` without words, and after a loop
  left by `break`; `;&`.
- Redirections that fail (the command runs nevertheless); redirections by
  `exec` inside a function or group that is redirected itself (its
  `REDIR_RESTORE` undoes them); two redirections that truncate one file.

### Arith and ArithMeaning

`Arith` has one operator per function of `arith.c`, on a record with the fields
of `arith_state_t` and the value returned. Text is a sequence of atoms: a
numeral, a name, a blank, or one character of an operator, because the parser
decides on the next one or two characters. The ten functions for binary
operators differ only in the operators they look for; each is a set of tests
(the characters, and those that may not follow), and `Rest` is the loop they share.
The nested calls of the functions become a range of levels: after an operator only its own
level and those around it can go on. `ArithMeaning` writes a tree with as few parentheses
and blanks as possible, lets `OP_EXPAND_ARITH` evaluate the text, and
compares value, variables and status with the meaning of the tree, which is
defined on trees and sets of bits and shares no operation with the evaluator.
Variables hold trees too, since the value of a variable is evaluated.
Octal and hexadecimal numerals, and the scope that an assignment reaches, are abstracted.

The reference promises nothing where the code is known to differ, and the
expressions leave these cases out:

- The most negative integer in a variable is read back as one more, since its
  digits alone are out of range for `strtoll` (`arith.c:129`).
- A shift by a distance out of range is 0 for `<<` and leaves the variable alone
  for `<<=` (`arith.c:224`).
- A division by zero in a skipped part leaves `parse_mul` early, so that
  `$((0 && 1/0*2))` is a syntax error (`arith.c:317`). For the same reason
  `(1/0*2)` is reported as a syntax error.
- A variable in a skipped part is resolved all the same, and one that refers to
  itself is an error there too; a failing `x = 1/0` assigns 0; `1--1` is a syntax
  error; text behind the expression in a variable is ignored.

### Scopes, HashTable and Environ

`Environ` has one operator per function of `variable.c` and one action per
opcode or builtin that reads or changes variables; the commands with prefix
assignments (`x=1 cmd`) appear as the opcodes that `compile_simple` emits for
them. Each scope of the chain is a hash table as in `hashtable.c`, with its
array, count and capacity; names have chosen hash values, so that probes
collide and wrap around. `Scopes` describes the same operations on functions from names
to variables: which scope is meant is "the innermost that has the name". `Implements`
is the refinement, `view` (what the tables hold, by `ht_foreach`) being its
mapping. `Scopes` describes the code also where the code departs from its documents:

- `local` and an element of an array overwrite a readonly variable (`ARCH.md:169`,
  `variable.h:61`), which is why `ReadonlyKept` exempts these steps; a prefix
  assignment to a readonly name exports the outer variable for good, and
  `a[0]=x cmd` leaves its value behind (`compiler.c:594`).
- `unset` of an exported variable leaves the value of the host's environment
  to programs that are executed; the host's environment itself is never imported.
- `${x:=w}` writes to the innermost scope (`vm.c:781`): in a function the
  variable is a local one, and in `y=1 cmd ${x:=w}` it belongs to the scope of the
  prefix and is gone after the command. When x is readonly and empty, nothing
  is written and no error is raised, but the word is the value. The step is an
  action of its own that may happen in front of any command, in the scope its
  words are expanded in; the other expansions of a parameter change no variable.
- In a function, `z=1 local w=2` puts w into the scope of the prefix, where it
  is lost.

Left out: the flags that nothing sets (`VF_PREFIX`, `dirty`, `host_origin`), and
the memory of names and values.

### Parser, Formatter and Writing

A source is a sequence of lexemes. `lexer_read_token` makes a token of the next
one under the flags of that moment (reserved words, regex mode), and `peek`
keeps it, so that it may be used under other flags. One operator per function
of `parser.c`; a loop or the rest of a function behind a call is an operator
with a name of its own (`IfClause`, `AfterBody`). The parser is passed along
and returned with the node; a failing function has counted an error and returned
NULL, as in the code. A here-document is put into a queue and its body is taken from the
source when a newline is consumed. `Formatter` writes a tree as `format.c` does;
its queue is what has been deferred since the last `flush_heredocs`. The state
machine is "opsh format" on one file with its modes, twice when the first one has
overwritten the file.

`Writing` writes a tree in another way: it knows the grammar and nothing of the
parser, puts newlines wherever a style asks for them, and lays the bodies of
here-documents behind the next newline of the finished text. A parser and a
writer that agree on all trees and styles show that the tokens, the nesting and the
bodies are right, which is `ParsesAsWritten`. `FormatKeeps` says that the formatted
text is parsed to the same tree and is a fixed point; `Kept` lists the trees of
which this is not true:

- a condition of more than one list, of which only the first is written
  (`if true; false; then` becomes `if true; then`), or that ends with `&`;
- arrays, which are not written at all;
- a here-document in front of `&&`, `||`, `&` or `; then`, whose body is written
  between the two, with the operator on the line of the delimiter, and one in a pipeline with a compound
  command behind it, which takes the body into its own first lines: `cat <<E | while
  read x; do` becomes a script that cannot be parsed, and `-w` overwrites the file with it;
- `'$x'`, which is written `"$x"`;
- a command that is nothing but `1>f`, which loses its number and can then not
  begin a command.

`NothingLost` is about texts that are one lexeme away from a program. Most are
rejected; of those that are accepted every lexeme is found in the tree, but for a `!` with no
command behind it and operators in place of the words of `[[ ]]`. Everything between
the parentheses of an array is accepted and only words are kept; the texts leave arrays out.

All texts of the run were also given to a build of this source: it accepts and rejects
the same ones, and formats each of them as the model does.

Abstractions. A word is an atom, with what the properties tell apart: quotes, and whether an
expansion in it is one. Layout is left out: `changed` may hold for a file whose
lexemes are already right, until the formatter has written it. Left out: comments, `<<-`
beyond its name, the inside of words (`${...}`, `$(...)`, escapes), line numbers.

Seen while modelling: `opsh format -w` exits with 1 when it has changed a file
(`format.c:831`: "success with -w"); a command cannot begin with `<` or `>`, though
`parse_simple_command` says "Parse redirections that appear before the command"
(`parser.c:630`); the newline behind the words of `for` does not bring here-documents;
`for i in a if` is an error; an empty condition is accepted.

## Runs

Passing runs:

| run | instance | shows |
|---|---|---|
| `jobs_core` | 3 children, pipelines of 2, table of 2, one stop, no `kill` | `TypeOK`; `ReapOwnership`: only the table collects its processes; `DoneIsTrue`: DONE means ended, with the status of the last command; `RefsOK`: `%+` and `%-`; `WaitNeverStarves`: `job_wait_fg` never meets ECHILD |
| `jobs_nested` | 2 children, 2 levels of VM, a signal to the shell, all signals of `kill`, all arguments of `wait` | `DoneIsTrue` holds even when nested VMs and `wait -1` collect behind the table's back |
| `jobs_background` | 2 background jobs of one process, 2 stops, a signal | `StateIsTrue`: STOPPED is what the process is; `WaitTerminates` under fairness |
| `shell_core` | 2700 programs: every leaf command in every construct, leaves that fail or jump in every construct inside every construct (variants of one shape, such as `until`, only alone), printing marks, printing statuses, and under `set -e`; recursion, dynamic scopes, redirections, word splitting, branching and parallel programs | `ShellSemantics`: code and meaning agree for all interleavings; `Balanced`: nothing is left on the operand stack; `FramesBack`: no call frame, scope or suppression of errexit is left at the end; `ChildInSegment`: a forked process stays in its code; `CodeRegular`: the code pairs up on all paths, also those that are not taken; `TypeOK` |
| `arith_core` | integers of 3 bits; every operator inside every operator on both sides, unary operators, ternaries, steps and assignments beside every operator and behind `&&`, <code>&#124;&#124;</code> and `?:`; all values of x, three of y, unset and computed variables, cycles | `EvaluatesAsMeant`: precedence, associativity, order, skipped parts, wrapping, division, errors |
| `environ_core` | four scripts: every operation on one name in scopes three deep; `${a:=w}` in them, over readonly, empty and array variables; two colliding names with calls, prefixes and local; four names in one table that grows from 4 slots and empties again | `Implements`: hash tables do what functions do; `TablesSound`: every name is reachable, every search ends; `HidesOuter`, `ReadonlyKept`; `TypeOK` |
| `format_core` | 3300 trees: 15 commands in every list and every construct, lists of a command or here-document in every construct in every list, constructs in constructs, two here-documents in all places; with and without newlines and opening parentheses; 13800 texts with one lexeme removed, replaced or inserted | `ParsesAsWritten`, `FormatKeeps`, `NothingLost` |
| `sessions_core` | one slot used by 2 sessions, 2 commands, cap and pipes of 2 chunks, 1 chunk written by a command, all sizes, signals, processes that outlive commands | `OwnStatus`, `CompleteOutput`, `NoLateOutput`: a result belongs to its command; `SessionsOwnShells`: nothing leaks |
| `sessions_fair` | 2 sessions, 1 command, sources that fit and that do not, shells that are stopped | `SessionsOwnShells`; `QuietBetweenRequests`: no command runs between requests; `RequestReturns`: every request is answered, with two exceptions; `ShellsEnd`: the shells end after the server; under fairness |
| `traps_core` | 4 opcodes, 2 signals, a handler that parses and one that does not | `HandlersStay`: the string a handler runs from is not freed; `ExitTrapOnce`, `ExitTrapRuns`, `ExitIsFinal`: the EXIT trap and the end of a VM; `NoPhantomHandlers`, `NeverDropped`: signals and handlers; `TypeOK` |

Runs that find a disagreement between the code and what its comments, tests or
documents say (details in `PROJECT.json`, findings):

| run | violated | what happens |
|---|---|---|
| `eval_steals` | `WaitTerminates` | `eval jobs` collects a child of the outer VM, whose `wait` then spins for ever |
| `return_frame` | `DescriptorsRestored` | `return` jumps past the `REDIR_RESTORE` of its own command; the frame of the redirected call is popped too late and the descriptor stays redirected |

Beside what the sections above list, the code differs from its comments in seven more points,
seen while modelling, for which no run is kept: with a full table a foreground pipeline is not waited
for (`vm.c:2539`, `ARCH.md:185`), nor does `wait` know a background child that did
not fit; `wait -1` passes -1 to `waitpid` and collects the
process of a job (`builtins.c:1052`, `job.h:18`); one continued process makes a
pipeline RUNNING while another is stopped (`job.c:198`), and `wait` does not
resume it; jobs that `job_update` finds done inside `wait` stay in the table
(`builtins.c:1003`, `tests/posix/test_jobs.c:66`); SIGINT between the loop test
and `waitpid` is not forwarded (`job.c:216`, `job.h:79`);
a source that does not fit into the command pipe of a stopped shell, or of a dead one
whose process has the pipe as its input, blocks the server in `write`, before the clock
of `timeout_ms` starts (`serve.c:365`, `mcp.c:217`); and an eval with a stream callback
stays in `drain_and_stream` while a program writes as fast as the server reads, away
from the clock and from the status byte (`serve.c:328`). The last two are the
exceptions that `RequestReturns` names (`WriteBlocked`, `Flooded`).

### Bounds

Three children are the fewest with which a pipeline and a background job
compete, and a table of two is full with them; two levels of VM are the fewest
in which a child belongs to another table; one stop per run gives stop,
continue and end in every order for one process and two stops for two. The
counters `MaxStop`, `MaxSig`, `MaxPid`, `MaxCreate`, `MaxCmd` and `MaxOut`
appear only in guards of environment or script steps, so a bound removes long
histories and no reaction of the shell. In Sessions two commands are needed
for a late status byte to meet the wrong eval, two sessions for inherited
descriptors, a pipe and a cap of one or two chunks for both limits to be met
and passed. With the one command of `sessions_fair` a write can block only on a stopped
shell: that it blocks on the process which a dead shell has left behind needs a
command that started it and a second one that is sent, and the second half of
`WriteBlocked` is there for that case of the code, which no run reaches under fairness.
In `shell_core` nothing is bounded but the programs: the stacks have
the sizes of the code. Two levels of constructs are the fewest in which a jump
or a failure inside one passes through another, and the two or three processes
of a pipeline or background list interleave in full. In `arith_core` 3 bits are
the fewest in which sums and products wrap and quotients and remainders
of both signs differ, and two operators are the fewest that show precedence.

In `environ_core` a table of four slots with three names is the smallest that
has a collision, a wrap around, a growth and a shift over a gap; three scopes
are the fewest with one between the innermost and the global one. In `traps_core` four
opcodes are a trap, an eval or subshell, and an exit or return in it with one more
behind it, and two signals are the fewest of which one interrupts the handler of the
other or is lost to it. In
`format_core` queues of two here-documents are the shortest with an order, and
three levels (list, construct, list) the fewest in which a body waits while a
construct is opened, closed and continued.

### Fairness

`JobControl`: the shell is a running process (`WF` of its own steps, not of
what the script chooses); a child that runs ends. The second is an assumption
about programs, needed for any statement that a wait ends; stopped children are
not assumed to be continued by anybody. `Sessions`: the
server takes the steps for which it does not wait, and a write that nobody can read
fails (`WF`). Time passes: a poll loop that is back at its head again and again finds its
time up once (`SF` of `Timeout`, as a turn that drains disables it in between). This is
no assumption that the loop comes back: nothing takes it out of
`drain_and_stream` but a read that finds the pipe empty. The command loop of a
shell reads on when there is something to read or the end of its input
(`WF` of `ChildRead` and `ChildEof`). Of commands and of the processes they start
nothing is assumed; that they end is the hypothesis `ProgramsEnd` of `ShellsEnd`
and of no other property. Nothing is assumed of clients, signals and crashes.

## Proofs

The two proof modules of job control assume only `JobTableMaxAssumption` (`JOB_TABLE_MAX` is a
positive number) and `JobControlAssumption` (the bounds are natural numbers,
codes are exit statuses, signals are among four).

`JobControlProofs`. `TypeOK` is not inductive: that `target` is in the table
while `job_wait_fg` waits needs that nobody removes it, and that `%+` and `%-`
name jobs needs an order between them. The inductive invariant is

    IInv == TypeOK /\ \A d : TableOK(tabs[d], proc, npid)

where `TableOK` says of a table that its references are sound, and of each of
its jobs that its processes were forked, that a process in `pid_done` is
collected and has its exit code in `pid_status`, and that DONE means that all
are. The lemmas `AddOK`, `RemoveOK`, `NotifyOK`, `ResumeOK`, `UpdateOK`,
`WaitFgOK` state that the functions of `job.c` keep `TableOK`; the lemmas on the
kernel (`ConsumeMono`, `SignalMono`, `ForkMono`) that what is known of collected
processes stays true; then there is one lemma per action. Theorems:
`Invariance`, `TypeCorrect`, `RefsCorrect`, `DoneCorrect`. They hold for any
nesting of VMs and any argument of `wait`, which is what makes `DoneCorrect`
worth stating: losing a child to another table can hide the end of a job and
never invent one.

`JobOwnershipProofs`. The converse, that a collected process is known to be
done, fails with nested VMs and `wait -1` (run `eval_steals`, and the note on `wait -1`). It
is proved under

    Disciplined == MaxDepth = 1 /\ WaitArgs \subseteq Nat \ {0}

with `OwnInv`: a process group consists of the pids of exactly one job, a
direct wait is for a pid that no job has, and whoever blocks in `job_wait_fg`
waits for a job that is RUNNING. Theorems: `OwnershipCorrect`, `WaitCorrect`.

`JobOwnershipProofs` also proves `StateIsTrue` under `Disciplined`: with nested VMs it is false,
because a `wait` in an inner VM takes the report that a job of the outer one has stopped and ignores
it. The property is not inductive. `StateInv` adds `TrueReports`, that a pending report is the
latest change of the process ("stopped" of a stopped one, "continued" of a
running one), and needs three facts of `OwnInv`: every job that holds a process gets its
report, no other job does, and `kill(-pgid)` of `fg`, `bg` and `wait` reaches all
processes of the job, so that setting RUNNING beside it is right as soon as the report it causes
is read. Kernel steps are treated together (`Tells`: a process that changes has
something to report, or has ended). Theorem: `StateCorrect`.

`ScopesProofs` is about the abstract scopes, for all names, texts and depths,
assuming that `""` is a text and NULL is not one (`EmptyAssumption` and the
assumptions of `VariableTypes`). `TypeOK` is inductive: `Fits` lemmas say that
`Put` and `Write` keep a scope a scope. `HiddenIsSafe`: a step writes at
`Where(n)`, which by its definition is the innermost scope that has the name,
or makes a new scope or variable; so a variable with a namesake further in is
untouched. `ReadonlyIsKept` needs in addition that `Write` is only reached
when `Frozen(n)` is false and that a new variable never hides a frozen one.
`environ_core` checks the same two properties on the hash tables, to which `EnvironProofs`
carries them over.

`HashTableProofs` assumes that the hash of a name is a natural number, that the initial
capacity is at least 4, and that NULL is not an entry. Its invariant is

    Sound(t) == IsTable /\ (count is the number of entries, less than the capacity)
                /\ (no slot from the natural one of an entry up to its own is empty)
                /\ Unique(t)

so that a search ends (`ProbeEnds`) and finds every entry (`Found`). Slots lie on a circle;
`OnWay(a, x, b)` says that x lies on the way from a to b, and lemmas about three and four
points of a circle replace the modular arithmetic of the loops. The insertion fills the slot
where the search ended. `ht_resize` is an induction over the slots of the old table
that have been carried over, where the new table never holds more entries than were visited. The
backward shift is an induction over its scan: every entry behind the hole either is not
separated from its natural slot by the hole or moves into it (`Shift` decides that, with and
without a wrap around), so that the hole is the only empty slot any search may meet. Theorems:
`SetIsUpdate`, `RemoveIsDelete`: what `ht_get` answers afterwards for every key. The recursive
functions that stand for the loops are unfolded one step at a time by least counterexample
(`Least`), so no induction theorem with an operator parameter is needed.

`EnvironProofs` assumes in addition what a workload is (`WorkloadAssumption`: names and texts
of the script are names and texts, at least one scope may exist). The invariant says that
every table of the chain is sound and holds names of the script, that the global scope
is not temporary, and that `view` is the view of `env`. `Puts(N, e, u, i, n, x)`, "u is the chain e but
for the variable of name n in scope i", is what every function of `variable.c` does to
a chain or leaves undone; there is one lemma for each of them (`SetFlagsOK`, `AssignOK`, `ExportOK`,
`UnsetOK`, ...), all resting on three lemmas for the ways of changing a table (`ChangeOK` through a
pointer, `AddOK` by `ht_set`, `DropOK` by `ht_remove`). Then there is one lemma per action: it keeps the
invariant and is the action of `Scopes` with the same meaning. The prefix assignments are the ones
that need care, since `environ_set`, `environ_export` and `SetArray` work on a chain with
one more scope (`PushedFacts`, `PrefixView`). Theorems: `ChainImplementsScopes` (the refinement
`Implements`), `TablesStaySound`, `EnvironTypeOK`, and `EnvironHidesOuter` and `EnvironReadonlyKept`, which follow
from the refinement and the theorems of `ScopesProofs`.

`SessionsProofs` is about all numbers of slots, sessions, commands and streams, all sizes of pipes and
any cap, under `SessionsAssumption`. That a result is that of its
own command is not inductive, as it depends on what was left behind by all earlier requests. `IInv` has
one part per question: `Table` (slots, open pipe ends and processes belong together,
also in the middle of `session_close`), `Quiet` (nothing is under way in a session the server does not wait
for), `Asked` (the command it waits for is in exactly one of four places: the command pipe, the shell,
at its end with its status in the control pipe or read from it, or lost with the shell), `Own` (whose output pipes and buffers hold), `Cap` and `Kept` (of what
the command has written, everything is in the buffer or in the pipe until the cap
is reached), `Turn` (once the status is read, what a drained pipe holds below the cap came
later, from a process left behind), and `Replied` (a result stays true). Theorems: `SessionsTypeOK`,
`OwnShells`, `QuietSessions`, `OwnStatuses`, `CompleteOutputs`, `NoLateOutputs`. `OwnStatus` and `CompleteOutput` hold because the
timeout and every other failure end in `session_close`, so that a session that
goes on is `Quiet`; that step is where `Quiet` and `Asked` meet.

`TrapsProofs` assumes `TrapsAssumption` (no text is empty or NULL, codes are exit
statuses). The properties are not inductive: that `HandlersStay` survives the end of
a VM further in needs that VMs which wait do not change, and that the EXIT trap
runs once needs to know which VM is inside it. The inductive invariant `IInv`
says of every VM what may be true of it at any time (`Good`), of a VM and the one
it waits for how they belong together (`Calls`: a handler runs from the entry of its
caller; an EXIT trap has been taken away from its caller, which has not halted yet; nobody
else waits with a trap left after exit), and of the VM that executes what its control point
promises (`Running`). Beside the stack, flags belong to processes that catch signals,
which are no further in than the one that executes, and flags and started handlers
together are no more than the signals sent (`Counted`). `CutOK` and `PushOK` carry it over the two ways in
which a stack changes, `ExitOK` over `vm_exit`, and there is one lemma per action.
Theorems: one for each property of `traps_core`. `NeverDroppedSafe` looks at every
action that takes a flag away (`Dispatch`, `WaitEINTR`, `builtin_exec`, and the ways a
child ends) and shows that no other does.

`VmProofs` is about the machine on any code. It assumes `VmAssumption` (limits are positive, scripted
statuses are exit statuses) and `CodeAssumption` (images are `WellFormed`), and
nothing of words, values of variables, statuses, descriptors and the order in
which processes take their steps. A first part removes that data: `Like(v, w)` says that w
differs from v in data only, and one lemma per group of opcodes and builtins shows that an instruction
does one of five things (`Effect`): it goes on with the scope or context it opens or closes (`Flows`),
jumps (`Turns`), ends the machine (`Ends`), calls (`Calls`) or returns (`Returns`); a fork makes
children that are `Like` their parent at their segment (`KidOf`), and a wait collects them. What follows rests
on these five cases instead of on the opcodes.

- `TypeOK` is not inductive: that `POP_SCOPE` leaves the global scope there depends on how many
  scopes are open at the instruction, and `RET` goes back to a level that
  was left long ago. `VmInv` adds `Safe`: above the scopes of every frame (`Floor`) there are at
  least as many as the level of its return address says, and the same for the
  instruction that is executed. Jumps out of loops may leave more. Theorem: `VmTypeOK`.
- `ChildrenStay` (`ChildInSegment`) needs that a child never pops the frames it has inherited. `Located`
  says that the return address of every frame a machine has pushed itself, and its next instruction, belong to its
  segment at the depth of the fork and to the body of a function above it. A return in a segment would
  break it, which is where the proof uses that return stands in functions.
- `FramesComeBack` (`FramesBack`): in regular code the inequality of `Safe` becomes an equation, for
  scopes (`ScopesExact`) and for suppressions of errexit (`TestsExact`, a sum over the frames, stated as the existence
  of partial sums). At the end the level is that of the program itself, without frames.

The last two have the hypothesis `[]CodeRegular`. It cannot be dropped, as `return` or `break` in
the wrong place does leave something open (`return_frame` shows it for
redirections, which levels do not count). It speaks of code and of the
names of commands only, and `shell_core` checks it of the code of all its programs.

Only model-checked:

- liveness, which is out of the prover's reach;
- `ShellSemantics`, and that the compiler makes well-formed and regular code: `Compiler` and `Meaning` recurse
  over trees, which needs RECURSIVE operators and induction over data;
- `Balanced`: what is on the operand stack depends on how many fields a word expands to and on which
  iterators are there, so that a level of code cannot say it;
- `EvaluatesAsMeant`, `ParsesAsWritten`, `FormatKeeps`, `NothingLost`: expressions, the parser and the
  formatter are recursive as well.

## Not modelled

The inside of words in the lexer, the JSON layers of `serve.c` and `mcp.c`, bytecode images, events, the linter and the LSP server
are not modelled yet or not at all; `PROJECT.json` gives the reason for each.
Hazards without a property say why in their note.

## Plan

1. The protocol layer of `serve.c` and `mcp.c`: one answer per request, none
   per notification, ids and truncated integers; pairing of start and end events.
2. `ImageIo`, `getopts`, parameter expansion: operators checked
   against reference definitions over bounded inputs.
3. The array of `job.c` with its `memmove`, shown to implement `JobTable`.
