------------------------------ MODULE Sessions ------------------------------
(***************************************************************************)
(* The session server, "opsh serve" and "opsh mcp": the server process     *)
(* (src/src/serve/serve.c), which forks one shell per session and talks to *)
(* it over four pipes, and the command loop of those shells                *)
(* (src/src/serve/child.c).                                                *)
(*                                                                         *)
(* The server handles one request at a time.  A request is one action up   *)
(* to the points where it waits: for room in the command pipe, in poll,    *)
(* and for the end of a shell that it closes; and each read of the loops   *)
(* that drain a pipe is one, since writers may fill it meanwhile.  The     *)
(* shells, the processes that commands start, and the clock (a timeout may *)
(* strike at the head of the poll loop) interleave at those points.        *)
(*                                                                         *)
(* Session identifiers are never reused, so the shell and the pipes of a   *)
(* session are indexed by its identifier.  A chunk of output is what one   *)
(* read returns; it is n when command n of the server wrote it and -n when *)
(* a process did that command n started and that may outlive it, which     *)
(* writes what it likes.  The exit status byte of command n is n as well,  *)
(* so that it tells whose status it is.                                    *)
(***************************************************************************)
EXTENDS Integers, Sequences, FiniteSets

CONSTANTS
    MAX_SESSIONS,    \* slots of sessions[] (16)
    MAX_OUTPUT_SIZE, \* chunks of output kept for one eval (16 MB)
    PIPE_SIZE,       \* chunks that a pipe holds (external: the kernel)
    Streams,         \* stdout and stderr
    MaxCreate,       \* how many sessions are created
    MaxCmd,          \* how many commands are sent
    MaxOut,          \* chunks that a command writes to a stream
    Sizes,           \* sizes of sources: "missing", "small", "big", "huge"
    Signals,         \* effect of session/signal: "kill", "stop", "cont"
    Background       \* commands may start a process that may outlive them

ASSUME SessionsAssumption ==
    /\ MAX_SESSIONS \in Nat \ {0} /\ MAX_OUTPUT_SIZE \in Nat \ {0} /\ PIPE_SIZE \in Nat \ {0}
    /\ Streams # {} /\ MaxCreate \in Nat /\ MaxCmd \in Nat /\ MaxOut \in Nat
    /\ Sizes \subseteq {"missing", "small", "big", "huge"}
    /\ Signals \subseteq {"kill", "stop", "cont"}
    /\ Background \in BOOLEAN

VARIABLES
    slots,           \* sessions[]: the session_id of an active slot, 0 otherwise
    next_session_id,
    open,            \* sessions whose pipe ends the server holds
    child,           \* the shells: state, stopped or not, command, output to do and done
    holds,           \* sessions whose server ends a shell inherited at fork
    bg,              \* the command that started the process that is alive, or 0
    cmdq,            \* command pipe: command and size, or NoCmd
    ctl,             \* control pipe: status bytes
    pipe,            \* stdout and stderr pipes: chunks
    pc,              \* where the server is, see ControlPoints
    cur,             \* session of the request under way
    why,             \* why session_close was called
    streaming,       \* the eval has a stream callback
    buf,             \* eval: the chunks kept (streaming: passed to the callback)
    total,           \* eval: number of chunks read, counted to MAX_OUTPUT_SIZE + 1
    todrain,         \* the pipes that this turn of the poll loop has still to drain
    status,          \* the status byte that this turn has read, or 0
    reply,           \* what the latest request returned
    ncmd,            \* number of the latest command
    cut              \* history: the sessions that returned truncated output

shells == <<child, holds, bg>>
pipes  == <<cmdq, ctl, pipe>>
eval   == <<streaming, buf, total, todrain, status>>
vars   == <<slots, next_session_id, open, shells, pipes, pc, cur, why, eval, reply, ncmd, cut>>

Ids  == 1 .. MaxCreate
Cmds == 1 .. MaxCmd

(* "idle": before the next message.  "write": blocked in write_exact.      *)
(* "poll": at the head of the poll loop.  "drain": in drain_fd or          *)
(* drain_and_stream.  "reap1" and "reap2": in session_close before the     *)
(* first and the second waitpid.  "cleanup": in session_cleanup.           *)
ControlPoints == {"idle", "write", "poll", "drain", "reap1", "reap2", "cleanup", "exited"}

NoCmd   == [n |-> 0, size |-> "small"]
NoReply == [kind |-> "none"]
Empty   == [x \in Streams |-> <<>>]
Zero    == [x \in Streams |-> 0]

-----------------------------------------------------------------------------
(* Who holds the ends of the pipes of session i.  The server's ends are    *)
(* also held by shells that were forked while they were open (no           *)
(* FD_CLOEXEC), and the shell's ends by the process of its commands.       *)

Alive(i)     == child[i].st \in {"idle", "busy"}
ShellEnd(i)  == Alive(i) \/ bg[i] # 0
ServerEnd(i) == i \in open \/ \E j \in Ids : i \in holds[j] /\ ShellEnd(j)

Active == {slots[k] : k \in 1 .. MAX_SESSIONS} \ {0}

(* The first slot of S, or 0.                                              *)
FirstSlot(S) == IF S = {} THEN 0 ELSE CHOOSE k \in S : \A l \in S : k <= l

alloc_session    == FirstSlot({k \in 1 .. MAX_SESSIONS : slots[k] = 0})
find_session(id) == id \in Active

-----------------------------------------------------------------------------
(* session_close: close the pipe ends, then reap the shell, with SIGTERM   *)
(* and SIGKILL if it does not end by itself.                               *)

session_close(i, reason) ==
    /\ pc' = "reap1" /\ cur' = i /\ why' = reason
    /\ open' = open \ {i}

(* waitpid returned the shell: the slot is free, and the caller goes on.   *)
Reaped(next) ==
    /\ child' = [child EXCEPT ![cur].st = "gone"]
    /\ slots' = [k \in DOMAIN slots |-> IF slots[k] = cur THEN 0 ELSE slots[k]]
    /\ pc' = next /\ cur' = 0 /\ why' = "none"
    /\ reply' = [kind |-> why]

AfterClose == IF why = "cleanup" THEN "cleanup" ELSE "idle"

(* SIGTERM ends a shell unless it is stopped, or runs a program that       *)
(* handles the signal.                                                     *)
Reap1 ==
    /\ pc = "reap1"
    /\ \/ child[cur].st = "zombie" /\ Reaped(AfterClose)
       \/ /\ Alive(cur)
          /\ \/ ~child[cur].stopped /\ child' = [child EXCEPT ![cur].st = "zombie"]
             \/ UNCHANGED child
          /\ pc' = "reap2"
          /\ UNCHANGED <<slots, cur, why, reply>>
    /\ UNCHANGED <<next_session_id, open, holds, bg, pipes, eval, ncmd, cut>>

(* Mutant: the second waitpid does not wait, and nobody sends SIGKILL.     *)
Reap2_NoKill ==
    /\ pc = "reap2"
    /\ slots' = [k \in DOMAIN slots |-> IF slots[k] = cur THEN 0 ELSE slots[k]]
    /\ child' = [child EXCEPT ![cur].st = IF @ = "zombie" THEN "gone" ELSE @]
    /\ pc' = AfterClose /\ cur' = 0 /\ why' = "none" /\ reply' = [kind |-> why]
    /\ UNCHANGED <<next_session_id, open, holds, bg, pipes, eval, ncmd, cut>>

Reap2 ==
    /\ pc = "reap2"
    /\ Reaped(AfterClose)
    /\ UNCHANGED <<next_session_id, open, holds, bg, pipes, eval, ncmd, cut>>

-----------------------------------------------------------------------------
(* The requests.                                                           *)

(* Back to the message loop with a reply.                                  *)
Answer(r) ==
    /\ reply' = r
    /\ pc' = "idle" /\ cur' = 0 /\ why' = "none"

NewShell == [st |-> "idle", stopped |-> FALSE, cmd |-> 0, todo |-> Zero, wrote |-> Zero]

(* Mutant: the shell keeps the write end of its own command pipe.          *)
Fork_KeepsWriteEnd(i) ==
    /\ child' = [child EXCEPT ![i] = NewShell]
    /\ holds' = [holds EXCEPT ![i] = open \cup {i}]

(* The shell inherits what the server has open; it closes the server's     *)
(* ends of its own pipes, and of no others.                                *)
Fork(i) ==
    /\ child' = [child EXCEPT ![i] = NewShell]
    /\ holds' = [holds EXCEPT ![i] = open]

(* No slot is free, or pipe or fork fails; or a shell is forked.           *)
session_op_create ==
    LET i == next_session_id IN
    /\ pc = "idle"
    /\ \/ /\ Answer([kind |-> "no_session"])
          /\ UNCHANGED <<slots, next_session_id, open, child, holds>>
       \/ /\ alloc_session # 0 /\ i \in Ids
          /\ Fork(i)
          /\ slots' = [slots EXCEPT ![alloc_session] = i]
          /\ next_session_id' = i + 1
          /\ open' = open \cup {i}
          /\ Answer([kind |-> "created"])
    /\ UNCHANGED <<bg, pipes, eval, ncmd, cut>>

(* Mutant: the session is not looked up.                                   *)
session_op_eval_NoFind(i, size, stream) ==
    /\ pc = "idle"
    /\ ncmd < MaxCmd
    /\ IF size = "missing"
       THEN /\ Answer([kind |-> "invalid"])
            /\ UNCHANGED <<open, cmdq, eval, ncmd>>
       ELSE /\ ncmd' = ncmd + 1
            /\ streaming' = stream /\ buf' = Empty /\ total' = Zero
            /\ todrain' = {} /\ status' = 0
            /\ reply' = NoReply
            /\ \/ /\ ShellEnd(i)
                  /\ cmdq' = [cmdq EXCEPT ![i] = [n |-> ncmd + 1, size |-> size]]
                  /\ pc' = (IF size = "small" THEN "poll" ELSE "write")
                  /\ cur' = i /\ UNCHANGED <<why, open>>
               \/ ~Alive(i) /\ session_close(i, "failed") /\ UNCHANGED cmdq
    /\ UNCHANGED <<slots, next_session_id, shells, ctl, pipe, cut>>

(* Mutant: the output buffers start with what the last eval left in them.  *)
session_op_eval_KeepsBuffer(i, size, stream) ==
    /\ pc = "idle"
    /\ ncmd < MaxCmd
    /\ IF ~find_session(i) \/ size = "missing"
       THEN /\ Answer([kind |-> "invalid"])
            /\ UNCHANGED <<open, cmdq, eval, ncmd>>
       ELSE /\ ncmd' = ncmd + 1
            /\ streaming' = stream /\ buf' = buf /\ total' = Zero
            /\ todrain' = {} /\ status' = 0
            /\ reply' = NoReply
            /\ \/ /\ ShellEnd(i)
                  /\ cmdq' = [cmdq EXCEPT ![i] = [n |-> ncmd + 1, size |-> size]]
                  /\ pc' = (IF size = "small" THEN "poll" ELSE "write")
                  /\ cur' = i /\ UNCHANGED <<why, open>>
               \/ ~Alive(i) /\ session_close(i, "failed") /\ UNCHANGED cmdq
    /\ UNCHANGED <<slots, next_session_id, shells, ctl, pipe, cut>>

(* session_op_eval up to the poll loop.  A big source does not fit into    *)
(* the pipe, so that the write ends only when the shell has read it.  If   *)
(* nobody can read the pipe, the write fails.  When the shell is dead and  *)
(* a process of its commands is not, that process may have the read end    *)
(* (it is the standard input of a command in the foreground) or not (that  *)
(* of a background command is /dev/null).                                  *)
session_op_eval(i, size, stream) ==
    /\ pc = "idle"
    /\ ncmd < MaxCmd
    /\ IF ~find_session(i) \/ size = "missing"
       THEN /\ Answer([kind |-> "invalid"])
            /\ UNCHANGED <<open, cmdq, eval, ncmd>>
       ELSE /\ ncmd' = ncmd + 1
            /\ streaming' = stream /\ buf' = Empty /\ total' = Zero
            /\ todrain' = {} /\ status' = 0
            /\ reply' = NoReply
            /\ \/ /\ ShellEnd(i)
                  /\ cmdq' = [cmdq EXCEPT ![i] = [n |-> ncmd + 1, size |-> size]]
                  /\ pc' = (IF size = "small" THEN "poll" ELSE "write")
                  /\ cur' = i /\ UNCHANGED <<why, open>>
               \/ ~Alive(i) /\ session_close(i, "failed") /\ UNCHANGED cmdq
    /\ UNCHANGED <<slots, next_session_id, shells, ctl, pipe, cut>>

WriteDone ==
    /\ pc = "write"
    /\ cmdq[cur] = NoCmd
    /\ pc' = "poll"
    /\ UNCHANGED <<slots, next_session_id, open, shells, pipes, cur, why, eval, reply, ncmd, cut>>

WriteFails ==
    /\ pc = "write"
    /\ ~Alive(cur)
    /\ session_close(cur, "failed")
    /\ UNCHANGED <<slots, next_session_id, shells, pipes, eval, reply, ncmd, cut>>

Lesser(m, n) == IF m < n THEN m ELSE n

(* A turn of the poll loop that finds output.                              *)
PollOutput(X) ==
    /\ pc = "poll"
    /\ X # {} /\ \A x \in X : pipe[cur][x] # <<>>
    /\ pc' = "drain" /\ todrain' = X
    /\ UNCHANGED <<slots, next_session_id, open, shells, pipes, cur, why, streaming, buf, total,
                   status, reply, ncmd, cut>>

(* A turn that finds the control pipe readable is the last one: it reads   *)
(* the status byte, and then drains both pipes once more.                  *)
PollStatus ==
    /\ pc = "poll"
    /\ ctl[cur] # <<>>
    /\ ctl' = [ctl EXCEPT ![cur] = Tail(@)] /\ status' = Head(ctl[cur])
    /\ pc' = "drain" /\ todrain' = Streams
    /\ UNCHANGED <<slots, next_session_id, open, shells, cmdq, pipe, cur, why, streaming, buf,
                   total, reply, ncmd, cut>>

(* Mutant: drain_fd does not look at the cap.                              *)
Capped_Never(x) == FALSE

(* drain_fd stops at the cap and leaves the rest in the pipe.              *)
(* drain_and_stream has no cap: it ends when a read finds the pipe empty,  *)
(* and looks at the clock no more than drain_fd does.                      *)
Capped(x) == ~streaming /\ Len(buf[x]) >= MAX_OUTPUT_SIZE

(* A read that returns output; both functions keep (or pass on) the first  *)
(* MAX_OUTPUT_SIZE chunks.                                                 *)
Drain(x) ==
    /\ pc = "drain" /\ x \in todrain
    /\ pipe[cur][x] # <<>> /\ ~Capped(x)
    /\ pipe' = [pipe EXCEPT ![cur][x] = Tail(@)]
    /\ buf' = IF total[x] < MAX_OUTPUT_SIZE
              THEN [buf EXCEPT ![x] = Append(@, Head(pipe[cur][x]))]
              ELSE buf
    /\ total' = [total EXCEPT ![x] = Lesser(@ + 1, MAX_OUTPUT_SIZE + 1)]
    /\ UNCHANGED <<slots, next_session_id, open, shells, cmdq, ctl, pc, cur, why, streaming,
                   todrain, status, reply, ncmd, cut>>

Truncated == \E x \in Streams : total[x] >= MAX_OUTPUT_SIZE

Result ==
    [kind |-> "result", sid |-> cur, cmd |-> ncmd, status |-> status,
     out |-> buf, truncated |-> Truncated]

(* Mutant: the output is not drained once more after the status byte.      *)
DrainEnd_NoFinal(x) ==
    /\ pc = "drain" /\ x \in todrain
    /\ pipe[cur][x] = <<>> \/ Capped(x) \/ status # 0
    /\ todrain' = todrain \ {x}
    /\ IF todrain' = {} /\ status # 0
       THEN /\ Answer(Result)
            /\ cut' = IF Truncated THEN cut \cup {cur} ELSE cut
            /\ status' = 0
       ELSE /\ pc' = (IF todrain' = {} THEN "poll" ELSE "drain")
            /\ UNCHANGED <<reply, cur, why, cut, status>>
    /\ UNCHANGED <<slots, next_session_id, open, shells, pipes, streaming, buf, total, ncmd>>

(* A read that finds nothing, or the cap: behind the last pipe the loop    *)
(* goes back to its head and the clock or, when it has read the status     *)
(* byte, ends.                                                             *)
DrainEnd(x) ==
    /\ pc = "drain" /\ x \in todrain
    /\ pipe[cur][x] = <<>> \/ Capped(x)
    /\ todrain' = todrain \ {x}
    /\ IF todrain' = {} /\ status # 0
       THEN /\ Answer(Result)
            /\ cut' = IF Truncated THEN cut \cup {cur} ELSE cut
            /\ status' = 0
       ELSE /\ pc' = (IF todrain' = {} THEN "poll" ELSE "drain")
            /\ UNCHANGED <<reply, cur, why, cut, status>>
    /\ UNCHANGED <<slots, next_session_id, open, shells, pipes, streaming, buf, total, ncmd>>

(* The control pipe is empty and has no writer: POLLHUP, read returns 0.   *)
PollHangup ==
    /\ pc = "poll"
    /\ ctl[cur] = <<>> /\ ~ShellEnd(cur)
    /\ session_close(cur, "died")
    /\ UNCHANGED <<slots, next_session_id, shells, pipes, eval, reply, ncmd, cut>>

(* Mutant: the session stays, with its command.                            *)
Timeout_KeepsSession ==
    /\ pc = "poll"
    /\ Answer([kind |-> "timeout"])
    /\ UNCHANGED <<slots, next_session_id, open, shells, pipes, eval, ncmd, cut>>

(* At the head of the loop, and only there, the time may be up.            *)
Timeout ==
    /\ pc = "poll"
    /\ session_close(cur, "timeout")
    /\ UNCHANGED <<slots, next_session_id, shells, pipes, eval, reply, ncmd, cut>>

(* kill(s->pid, signum); the shells install no handlers.  "kill" is any    *)
(* signal that ends the shell at once.                                     *)
session_op_signal(i, s) ==
    /\ pc = "idle"
    /\ IF find_session(i)
       THEN /\ \/ s = "kill" /\ child' = [child EXCEPT ![i].st = "zombie"]
               \/ s = "stop" /\ child' = [child EXCEPT ![i].stopped = (child[i].st # "zombie")]
               \/ s = "cont" /\ child' = [child EXCEPT ![i].stopped = FALSE]
            /\ Answer([kind |-> "signalled"])
       ELSE Answer([kind |-> "invalid"]) /\ UNCHANGED child
    /\ UNCHANGED <<slots, next_session_id, open, holds, bg, pipes, eval, ncmd, cut>>

session_op_destroy(i) ==
    /\ pc = "idle"
    /\ IF find_session(i)
       THEN session_close(i, "destroyed") /\ UNCHANGED reply
       ELSE Answer([kind |-> "invalid"]) /\ UNCHANGED open
    /\ UNCHANGED <<slots, next_session_id, shells, pipes, eval, ncmd, cut>>

(* "shutdown", or the end of the client's input.                           *)
Shutdown ==
    /\ pc = "idle"
    /\ pc' = "cleanup"
    /\ UNCHANGED <<slots, next_session_id, open, shells, pipes, cur, why, eval, reply, ncmd, cut>>

session_cleanup ==
    LET k == FirstSlot({l \in 1 .. MAX_SESSIONS : slots[l] # 0}) IN
    /\ pc = "cleanup"
    /\ IF k = 0
       THEN pc' = "exited" /\ UNCHANGED <<cur, why, open>>
       ELSE session_close(slots[k], "cleanup")
    /\ UNCHANGED <<slots, next_session_id, shells, pipes, eval, reply, ncmd, cut>>

(* The server is killed: it handles neither SIGTERM nor SIGINT.            *)
ServerDies ==
    /\ pc # "exited"
    /\ pc' = "exited" /\ open' = {} /\ cur' = 0 /\ why' = "none"
    /\ slots' = [k \in DOMAIN slots |-> 0]
    /\ UNCHANGED <<next_session_id, shells, pipes, eval, reply, ncmd, cut>>

-----------------------------------------------------------------------------
(* The shells: child_loop_main.                                            *)

Runs(i, st) == child[i].st = st /\ ~child[i].stopped

server == <<slots, next_session_id, open, pc, cur, why, eval, reply, ncmd, cut>>

(* A command is read and started.  The rest of a big one comes from the    *)
(* server while it writes.  A command over MAX_CMD_SIZE ends the loop.     *)
ChildRead(i) ==
    LET c == cmdq[i] IN
    /\ Runs(i, "idle")
    /\ c # NoCmd
    /\ c.size = "small" \/ (pc = "write" /\ cur = i)
    /\ IF c.size = "huge"
       THEN child' = [child EXCEPT ![i].st = "zombie"] /\ UNCHANGED cmdq
       ELSE /\ \E todo \in [Streams -> 0 .. MaxOut] :
                  child' = [child EXCEPT ![i] = [@ EXCEPT !.st = "busy", !.cmd = c.n,
                                                          !.todo = todo, !.wrote = Zero]]
            /\ cmdq' = [cmdq EXCEPT ![i] = NoCmd]
    /\ UNCHANGED <<holds, bg, ctl, pipe, server>>

(* A write waits for room while somebody could read, and fails otherwise.  *)
Write(i, x, chunk) ==
    IF ServerEnd(i)
    THEN /\ Len(pipe[i][x]) < PIPE_SIZE
         /\ pipe' = [pipe EXCEPT ![i][x] = Append(@, chunk)]
    ELSE UNCHANGED pipe

ChildWrite(i, x) ==
    /\ Runs(i, "busy")
    /\ child[i].todo[x] > 0
    /\ Write(i, x, child[i].cmd)
    /\ child' = [child EXCEPT ![i].todo[x] = @ - 1, ![i].wrote[x] = @ + 1]
    /\ UNCHANGED <<holds, bg, cmdq, ctl, server>>

(* The command starts a process that is alive beside it, in the foreground *)
(* or in the background, and perhaps for longer.                           *)
ChildStarts(i) ==
    /\ Runs(i, "busy")
    /\ Background /\ bg[i] = 0
    /\ bg' = [bg EXCEPT ![i] = child[i].cmd]
    /\ UNCHANGED <<child, holds, pipes, server>>

(* The command ends.  The output is flushed, then the status byte is       *)
(* written; the loop ends if that fails.                                   *)
ChildFinish(i) ==
    /\ Runs(i, "busy")
    /\ child[i].todo = Zero
    /\ IF ServerEnd(i)
       THEN /\ ctl' = [ctl EXCEPT ![i] = Append(@, child[i].cmd)]
            /\ child' = [child EXCEPT ![i].st = "idle"]
       ELSE /\ child' = [child EXCEPT ![i].st = "zombie"]
            /\ UNCHANGED ctl
    /\ UNCHANGED <<holds, bg, cmdq, pipe, server>>

(* stdin is at its end, or breaks off inside a command.                    *)
ChildEof(i) ==
    /\ Runs(i, "idle")
    /\ ~ServerEnd(i)
    /\ cmdq[i] = NoCmd \/ cmdq[i].size # "small"
    /\ child' = [child EXCEPT ![i].st = "zombie"]
    /\ UNCHANGED <<holds, bg, pipes, server>>

(* The shell crashes, is killed, cannot be started (chdir, execl), or is   *)
(* replaced by exec and that program ends.                                 *)
ChildDies(i) ==
    /\ Alive(i)
    /\ child' = [child EXCEPT ![i].st = "zombie"]
    /\ UNCHANGED <<holds, bg, pipes, server>>

BackgroundWrite(i, x) ==
    /\ bg[i] # 0
    /\ Write(i, x, -bg[i])
    /\ UNCHANGED <<shells, cmdq, ctl, server>>

BackgroundExit(i) ==
    /\ bg[i] # 0
    /\ bg' = [bg EXCEPT ![i] = 0]
    /\ UNCHANGED <<child, holds, pipes, server>>

-----------------------------------------------------------------------------
Init ==
    /\ slots = [k \in 1 .. MAX_SESSIONS |-> 0] /\ next_session_id = 1
    /\ open = {}
    /\ child = [i \in Ids |-> [NewShell EXCEPT !.st = "none"]]
    /\ holds = [i \in Ids |-> {}]
    /\ bg = [i \in Ids |-> 0]
    /\ cmdq = [i \in Ids |-> NoCmd]
    /\ ctl = [i \in Ids |-> <<>>]
    /\ pipe = [i \in Ids |-> Empty]
    /\ pc = "idle" /\ cur = 0 /\ why = "none"
    /\ streaming = FALSE /\ buf = Empty /\ total = Zero /\ todrain = {} /\ status = 0
    /\ reply = NoReply /\ ncmd = 0 /\ cut = {}

(* The requests of the client.                                             *)
Request ==
    \/ session_op_create \/ Shutdown
    \/ \E i \in Ids : \/ session_op_destroy(i)
                      \/ \E s \in Signals : session_op_signal(i, s)
                      \/ \E size \in Sizes : \E b \in BOOLEAN : session_op_eval(i, size, b)

(* The server inside a request, the clock included.                        *)
ServerStep ==
    \/ WriteDone \/ WriteFails
    \/ (\E X \in SUBSET Streams : PollOutput(X)) \/ PollStatus \/ PollHangup
    \/ \E x \in Streams : Drain(x) \/ DrainEnd(x)
    \/ Reap1 \/ Reap2 \/ session_cleanup

ShellStep(i) ==
    ChildRead(i) \/ ChildStarts(i) \/ ChildFinish(i) \/ ChildEof(i) \/ \E x \in Streams : ChildWrite(i, x)

Environment ==
    \/ ServerDies
    \/ \E i \in Ids : ChildDies(i) \/ BackgroundExit(i) \/ \E x \in Streams : BackgroundWrite(i, x)

Terminated == pc = "exited" /\ UNCHANGED vars

Next ==
    \/ Request \/ ServerStep \/ Timeout \/ Environment \/ Terminated
    \/ \E i \in Ids : ShellStep(i)

Spec == Init /\ [][Next]_vars

(* The server goes on where it does not wait: it reads on while it drains, *)
(* and a write that nobody can read fails.  Time passes, so that a loop    *)
(* which comes back to its head again and again finds the time up; the     *)
(* clock is looked at nowhere else.                                        *)
ServerFairness ==
    /\ WF_vars(\/ WriteDone \/ (WriteFails /\ ~ShellEnd(cur))
               \/ (\E x \in Streams : Drain(x) \/ DrainEnd(x))
               \/ Reap1 \/ Reap2 \/ session_cleanup)
    /\ SF_vars(Timeout)

(* The command loop of a shell goes on when there is a command or the end  *)
(* of its input to read.  Of commands and their processes nothing is       *)
(* assumed: they may run, and write, for ever.                             *)
LoopFairness == \A i \in Ids : WF_vars(ChildRead(i) \/ ChildEof(i))

FairSpec == Spec /\ ServerFairness /\ LoopFairness

-----------------------------------------------------------------------------
(* Properties.                                                             *)

Chunks  == -MaxCmd .. MaxCmd
Outputs == [Streams -> Seq(Chunks)]
Counts  == [Streams -> Nat]
Kinds   == {"none", "invalid", "no_session", "created", "signalled", "destroyed", "cleanup",
            "failed", "died", "timeout"}
Replies == [kind : Kinds]
    \cup [kind : {"result"}, sid : Ids, cmd : Cmds, status : Cmds, out : Outputs, truncated : BOOLEAN]

(* Every variable keeps its type, pipes hold no more than they can, and a  *)
(* request that waits is about a session of the table.                     *)
TypeOK ==
    /\ slots \in [1 .. MAX_SESSIONS -> 0 .. MaxCreate] /\ next_session_id \in 1 .. MaxCreate + 1
    /\ open \subseteq Ids
    /\ child \in [Ids -> [st : {"none", "idle", "busy", "zombie", "gone"}, stopped : BOOLEAN,
                          cmd : 0 .. MaxCmd, todo : Counts, wrote : Counts]]
    /\ holds \in [Ids -> SUBSET Ids] /\ bg \in [Ids -> 0 .. MaxCmd]
    /\ cmdq \in [Ids -> [n : 0 .. MaxCmd, size : {"small", "big", "huge"}]]
    /\ ctl \in [Ids -> Seq(Cmds)] /\ pipe \in [Ids -> Outputs]
    /\ \A i \in Ids : \A x \in Streams : Len(pipe[i][x]) <= PIPE_SIZE
    /\ pc \in ControlPoints /\ why \in Kinds
    /\ cur \in 0 .. MaxCreate /\ (pc \in {"write", "poll", "drain", "reap1", "reap2"} => cur \in Active)
    /\ streaming \in BOOLEAN /\ buf \in Outputs /\ total \in Counts
    /\ todrain \subseteq Streams /\ (pc = "drain" => todrain # {}) /\ status \in 0 .. MaxCmd
    /\ reply \in Replies /\ ncmd \in 0 .. MaxCmd /\ cut \subseteq Ids

(* The exit status that eval returns is that of the command which it sent, *)
(* never one that an earlier command of the session wrote too late.        *)
OwnStatus == reply.kind = "result" => reply.status = reply.cmd

(* How many chunks of s are command n's own.                               *)
Count(n, s) == Cardinality({k \in DOMAIN s : s[k] = n})

(* A result that is not marked as truncated has all the output of the      *)
(* command, although the server learns of the end of the command on        *)
(* another pipe.                                                           *)
CompleteOutput ==
    reply.kind = "result" /\ ~reply.truncated =>
        \A x \in Streams : Count(reply.cmd, reply.out[x]) = child[reply.sid].wrote[x]

(* A result has output of an earlier command only if the session returned  *)
(* truncated output before, or a background process wrote it.              *)
NoLateOutput ==
    reply.kind = "result" /\ reply.sid \notin cut =>
        \A x \in Streams : \A k \in DOMAIN reply.out[x] :
            reply.out[x][k] < 0 \/ reply.out[x][k] = reply.cmd

(* Between two requests the active sessions are exactly the shells that    *)
(* are not reaped, each in one slot and with its pipes open: no process,   *)
(* descriptor or slot leaks, whichever way a session ended, and kill goes  *)
(* to a child of the server.                                               *)
SessionsOwnShells ==
    pc = "idle" =>
        /\ Active = open
        /\ \A i \in Ids : i \in open <=> child[i].st \in {"idle", "busy", "zombie"}
        /\ \A k, l \in 1 .. MAX_SESSIONS : slots[k] = slots[l] /\ slots[k] # 0 => k = l

(* Between two requests no session runs a command, and nothing is under    *)
(* way on its command and control pipes.                                   *)
QuietBetweenRequests ==
    pc = "idle" => \A i \in open : child[i].st # "busy" /\ cmdq[i] = NoCmd /\ ctl[i] = <<>>

(* A source that does not fit into the command pipe blocks the server in   *)
(* write_exact, before the clock of its timeout starts: the shell is       *)
(* stopped, or it is dead and another process has the read end.            *)
WriteBlocked ==
    pc = "write" /\ cmdq[cur] # NoCmd /\ (child[cur].stopped \/ (~Alive(cur) /\ bg[cur] # 0))

(* The command, or what it has started, writes without end: this keeps the *)
(* server of a streaming eval in drain_and_stream, away from the clock and *)
(* from the status byte.                                                   *)
Flooded == pc = "drain" /\ streaming /\ (child[cur].st = "busy" \/ bg[cur] # 0)

(* Every request is answered, with two exceptions, in which the server     *)
(* stays for ever: in a write that is blocked, or in a pipe that is filled *)
(* again and again.  Everything else ends by the timeout at the latest: a  *)
(* command or a shell that hangs or dies, output beyond the cap (of an     *)
(* eval that does not stream, without end too), processes left behind.     *)
RequestReturns ==
    \/ []<>(pc \in {"idle", "exited"})
    \/ <>[]WriteBlocked
    \/ <>[]Flooded

(* Commands come to their end, and so do the processes they start.         *)
ProgramsEnd ==
    \A i \in Ids : /\ WF_vars(ChildFinish(i) \/ \E x \in Streams : ChildWrite(i, x))
                   /\ WF_vars(BackgroundExit(i))

(* When the server is gone, however it ended, the shells end if their      *)
(* programs do: none waits for ever for input or for room in a pipe,       *)
(* unless one is stopped, which holds pipe ends of the others too.         *)
ShellsEnd ==
    ProgramsEnd =>
        (pc = "exited" ~> (\A i \in Ids : ~Alive(i)) \/ (\E i \in Ids : Alive(i) /\ child[i].stopped))
=============================================================================
