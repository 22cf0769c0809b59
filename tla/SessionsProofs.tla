--------------------------- MODULE SessionsProofs ---------------------------
(***************************************************************************)
(* The safety properties of Sessions for any number of slots, sessions,    *)
(* commands and streams, any pipe size and any cap on the output.          *)
(*                                                                         *)
(* The inductive invariant has one part per question.  Table: slots,       *)
(* pipe ends and processes belong together, also in the middle of closing  *)
(* a session.  Quiet: nothing is under way in a session that the server    *)
(* does not wait for.  Asked: the command that it waits for is in exactly  *)
(* one place.  Own: whose output the pipes and the buffers hold.  Kept:    *)
(* how much of it is there.  Turn: what the last turn of the poll loop     *)
(* leaves in the pipes.  Replied: what a result says stays true.           *)
(***************************************************************************)
EXTENDS Sessions, SequenceTheorems, FunctionTheorems, FiniteSetTheorems, WellFoundedInduction, TLAPS

Shell   == [st : {"none", "idle", "busy", "zombie", "gone"}, stopped : BOOLEAN,
            cmd : 0 .. MaxCmd, todo : Counts, wrote : Counts]
Command == [n : 0 .. MaxCmd, size : {"small", "big", "huge"}]

(* The parts of TypeOK, by the variables that actions change together.     *)
TableTyped ==
    /\ slots \in [1 .. MAX_SESSIONS -> 0 .. MaxCreate] /\ next_session_id \in 1 .. MaxCreate + 1
    /\ open \subseteq Ids
    /\ pc \in ControlPoints /\ why \in Kinds /\ cur \in 0 .. MaxCreate

ShellsTyped ==
    /\ child \in [Ids -> Shell]
    /\ holds \in [Ids -> SUBSET Ids] /\ bg \in [Ids -> 0 .. MaxCmd]

PipesTyped ==
    /\ cmdq \in [Ids -> Command] /\ ctl \in [Ids -> Seq(Cmds)] /\ pipe \in [Ids -> Outputs]
    /\ \A i \in Ids : \A x \in Streams : Len(pipe[i][x]) <= PIPE_SIZE

EvalTyped ==
    /\ streaming \in BOOLEAN /\ buf \in Outputs /\ total \in Counts
    /\ todrain \subseteq Streams /\ status \in 0 .. MaxCmd
    /\ reply \in Replies /\ ncmd \in 0 .. MaxCmd /\ cut \subseteq Ids

Typed == TableTyped /\ ShellsTyped /\ PipesTyped /\ EvalTyped

Waits   == pc \in {"write", "poll", "drain"}
Closing == pc \in {"reap1", "reap2"}

(* A process that the server has forked and not reaped.                    *)
Child(i) == child[i].st \in {"idle", "busy", "zombie"}

(* A slot for each session; until the server ends, a shell for each slot;  *)
(* and open pipes for each but the one that is being closed.               *)
Table ==
    /\ \A k, l \in 1 .. MAX_SESSIONS : slots[k] = slots[l] /\ slots[k] # 0 => k = l
    /\ \A i \in Ids : pc # "exited" => (i \in Active <=> Child(i))
    /\ \A i \in Ids : i \in open <=> i \in Active /\ ~(Closing /\ i = cur)
    /\ Waits \/ Closing => cur \in Active
    /\ ~(Waits \/ Closing) => cur = 0

(* What is not created yet is untouched.                                   *)
Fresh ==
    \A i \in Ids : i >= next_session_id =>
        /\ child[i].st = "none" /\ bg[i] = 0 /\ cmdq[i] = NoCmd /\ ctl[i] = <<>>
        /\ pipe[i] = Empty

(* Nothing comes from a command that is not sent yet.                      *)
Past ==
    \A i \in Ids :
        /\ child[i].cmd <= ncmd /\ (child[i].st = "busy" => child[i].cmd > 0)
        /\ cmdq[i].n <= ncmd /\ (cmdq[i] # NoCmd => cmdq[i].n > 0)
        /\ bg[i] <= ncmd
        /\ \A x \in Streams : \A k \in DOMAIN pipe[i][x] : pipe[i][x][k] <= ncmd

Rests(i) == child[i].st # "busy" /\ cmdq[i] = NoCmd /\ ctl[i] = <<>>

(* A session that the server does not wait for has nothing to do.          *)
Quiet == \A i \in open : ~(Waits /\ i = cur) => Rests(i)

(* Where the command is that the server waits for: in the command pipe,    *)
(* run by the shell, at its end with its status in the control pipe or     *)
(* read from it, or lost with the shell.                                   *)
NoStatus  == ctl[cur] = <<>> /\ status = 0
HasStatus == (ctl[cur] = <<ncmd>> /\ status = 0) \/ (ctl[cur] = <<>> /\ status = ncmd)

Sent     == cmdq[cur].n = ncmd /\ NoStatus /\ child[cur].st \in {"idle", "zombie"}
Running  == cmdq[cur] = NoCmd /\ NoStatus /\ child[cur].st = "busy" /\ child[cur].cmd = ncmd
Finished == /\ cmdq[cur] = NoCmd /\ HasStatus /\ child[cur].st \in {"idle", "zombie"}
            /\ child[cur].cmd = ncmd
Lost     == cmdq[cur] = NoCmd /\ NoStatus /\ child[cur].st = "zombie"

Asked == Waits => ncmd > 0 /\ (Sent \/ Running \/ Finished \/ Lost)

(* Chunks that are of command n, or of a background process.               *)
Only(n, s) == \A k \in DOMAIN s : s[k] < 0 \/ s[k] = n

(* Between requests a pipe holds nothing but the output of background      *)
(* processes, and during one, that of the command, unless an earlier       *)
(* result was truncated.                                                   *)
Own ==
    /\ \A i \in open : i \notin cut => \A x \in Streams :
          Only(IF Waits /\ i = cur THEN ncmd ELSE -1, pipe[i][x])
    /\ Waits /\ cur \notin cut => \A x \in Streams : Only(ncmd, buf[x])

(* The cap: up to it, what was read is what is kept.                       *)
Cap ==
    \A x \in Streams :
        /\ Len(buf[x]) <= MAX_OUTPUT_SIZE
        /\ total[x] < MAX_OUTPUT_SIZE => Len(buf[x]) = total[x]

(* Up to the cap, what the command wrote is in the buffer or in the pipe.  *)
Seen(x) == Count(ncmd, buf[x]) + Count(ncmd, pipe[cur][x])

Kept ==
    Waits => \A x \in Streams : total[x] < MAX_OUTPUT_SIZE =>
        /\ Sent => Seen(x) = 0
        /\ Running \/ Finished => Seen(x) = child[cur].wrote[x]

(* A turn of the loop that drains has a pipe to drain.  In the last one,   *)
(* what a pipe that is drained holds up to the cap came in later, from a   *)
(* process that the command has left behind.                               *)
Turn ==
    /\ pc \in {"write", "poll"} => status = 0
    /\ pc = "drain" => todrain # {}
    /\ pc = "drain" /\ status # 0 =>
          \A x \in Streams \ todrain : total[x] < MAX_OUTPUT_SIZE => Only(-1, pipe[cur][x])

(* A result is right, and its session rests until the next request.        *)
Replied ==
    reply.kind = "result" =>
        /\ ~Waits /\ child[reply.sid].st # "busy" /\ cmdq[reply.sid] = NoCmd
        /\ OwnStatus /\ CompleteOutput /\ NoLateOutput

IInv ==
    /\ Typed /\ Table /\ Fresh /\ Past /\ Quiet /\ Asked
    /\ Own /\ Cap /\ Kept /\ Turn /\ Replied

-----------------------------------------------------------------------------
(* Slots.                                                                  *)

Used(t) == {t[k] : k \in 1 .. MAX_SESSIONS} \ {0}

(* The sessions in the slots of a table.                                   *)
LEMMA UsedIs ==
    ASSUME NEW t \in [1 .. MAX_SESSIONS -> 0 .. MaxCreate]
    PROVE  \A i : i \in Used(t) <=> i \in Ids /\ \E k \in 1 .. MAX_SESSIONS : t[k] = i
BY SessionsAssumption DEF Used, Ids

LEMMA ActiveIs == Active = Used(slots) /\ Active' = Used(slots')
BY DEF Active, Used

Filled(t, m, i) == [t EXCEPT ![m] = i]
Freed(t, i)     == [k \in DOMAIN t |-> IF t[k] = i THEN 0 ELSE t[k]]

(* Filling a free slot with a new session.                                 *)
LEMMA FillOK ==
    ASSUME NEW t \in [1 .. MAX_SESSIONS -> 0 .. MaxCreate],
           \A k, l \in 1 .. MAX_SESSIONS : t[k] = t[l] /\ t[k] # 0 => k = l,
           NEW m \in 1 .. MAX_SESSIONS, t[m] = 0,
           NEW i \in Ids, i \notin Used(t)
    PROVE  LET u == Filled(t, m, i) IN
           /\ u \in [1 .. MAX_SESSIONS -> 0 .. MaxCreate]
           /\ \A k, l \in 1 .. MAX_SESSIONS : u[k] = u[l] /\ u[k] # 0 => k = l
           /\ \A j : j \in Used(u) <=> j \in Used(t) \/ j = i
<1> DEFINE u == Filled(t, m, i)
<1>1. i \in 1 .. MaxCreate /\ MaxCreate \in Nat
    BY SessionsAssumption DEF Ids
<1>2. u \in [1 .. MAX_SESSIONS -> 0 .. MaxCreate]
    BY <1>1 DEF Filled
<1>3. \A k \in 1 .. MAX_SESSIONS : u[k] = IF k = m THEN i ELSE t[k]
    BY DEF Filled
<1>4. \A k \in 1 .. MAX_SESSIONS : t[k] # i
    BY UsedIs
<1> HIDE DEF u
<1>5. \A k, l \in 1 .. MAX_SESSIONS : u[k] = u[l] /\ u[k] # 0 => k = l
    BY <1>3, <1>4
<1>6. \A j : j \in Used(u) <=> j \in Used(t) \/ j = i
    <2>1. \A j : j \in Used(u) <=> j \in Ids /\ \E k \in 1 .. MAX_SESSIONS : u[k] = j
        BY <1>2, UsedIs
    <2>2. \A j : j \in Used(t) <=> j \in Ids /\ \E k \in 1 .. MAX_SESSIONS : t[k] = j
        BY UsedIs
    <2>3. \A j \in Ids : j # 0
        BY <1>1 DEF Ids
    <2> QED BY <2>1, <2>2, <2>3, <1>3
<1> QED BY <1>2, <1>5, <1>6 DEF u

(* Freeing the slot of a session.                                          *)
LEMMA FreeOK ==
    ASSUME NEW t \in [1 .. MAX_SESSIONS -> 0 .. MaxCreate],
           \A k, l \in 1 .. MAX_SESSIONS : t[k] = t[l] /\ t[k] # 0 => k = l,
           NEW i
    PROVE  LET u == Freed(t, i) IN
           /\ u \in [1 .. MAX_SESSIONS -> 0 .. MaxCreate]
           /\ \A k, l \in 1 .. MAX_SESSIONS : u[k] = u[l] /\ u[k] # 0 => k = l
           /\ \A j : j \in Used(u) <=> j \in Used(t) /\ j # i
<1> DEFINE u == Freed(t, i)
<1>1. MaxCreate \in Nat /\ 0 \in 0 .. MaxCreate
    BY SessionsAssumption
<1>2. u \in [1 .. MAX_SESSIONS -> 0 .. MaxCreate]
    BY <1>1 DEF Freed
<1>3. \A k \in 1 .. MAX_SESSIONS : u[k] = IF t[k] = i THEN 0 ELSE t[k]
    BY DEF Freed
<1> HIDE DEF u
<1>5. \A k, l \in 1 .. MAX_SESSIONS : u[k] = u[l] /\ u[k] # 0 => k = l
    BY <1>3
<1>6. \A j : j \in Used(u) <=> j \in Used(t) /\ j # i
    <2>1. \A j : j \in Used(u) <=> j \in Ids /\ \E k \in 1 .. MAX_SESSIONS : u[k] = j
        BY <1>2, UsedIs
    <2>2. \A j : j \in Used(t) <=> j \in Ids /\ \E k \in 1 .. MAX_SESSIONS : t[k] = j
        BY UsedIs
    <2>3. \A j \in Ids : j # 0
        BY <1>1 DEF Ids
    <2> QED BY <2>1, <2>2, <2>3, <1>3
<1> QED BY <1>2, <1>5, <1>6 DEF u

(* A nonempty set of natural numbers has a least element.                  *)
LEMMA Least ==
    ASSUME NEW S \in SUBSET Nat, S # {}
    PROVE  \E k \in S : \A l \in S : k <= l
<1>1. \A a, b \in Nat : a < b => <<a, b>> \in OpToRel(<, Nat)
    BY DEF OpToRel
<1>2. PICK k \in S : \A l \in S : <<l, k>> \notin OpToRel(<, Nat)
    BY WFMin, NatLessThanWellFounded
<1>3. \A l \in S : ~(l < k)
    BY <1>1, <1>2
<1> QED BY <1>3

(* FirstSlot returns a slot of the set, or 0 if it has none.               *)
LEMMA FirstSlotIs ==
    ASSUME NEW S \in SUBSET (1 .. MAX_SESSIONS)
    PROVE  /\ FirstSlot(S) # 0 => FirstSlot(S) \in S
           /\ FirstSlot(S) = 0 => S = {}
<1>1. S \in SUBSET Nat /\ 0 \notin S
    BY SessionsAssumption
<1>2. CASE S = {}
    BY <1>2 DEF FirstSlot
<1>3. CASE S # {}
    <2>1. \E k \in S : \A l \in S : k <= l
        BY <1>1, <1>3, Least
    <2>2. FirstSlot(S) = CHOOSE k \in S : \A l \in S : k <= l
        BY <1>3 DEF FirstSlot
    <2>3. FirstSlot(S) \in S
        BY <2>1, <2>2
    <2> QED BY <2>3, <1>1, <1>3
<1> QED BY <1>2, <1>3

-----------------------------------------------------------------------------
(* The initial state.                                                      *)

LEMMA Plain == Zero \in Counts /\ Empty \in Outputs /\ NewShell \in Shell
BY SessionsAssumption DEF Zero, Empty, Counts, Outputs, NewShell, Shell

(* A reply that is not a result.                                           *)
Short(r) == r \in Replies /\ r.kind # "result"

LEMMA ShortReply == ASSUME NEW k \in Kinds PROVE Short([kind |-> k])
BY DEF Short, Replies, Kinds

LEMMA InitOK == Init => IInv
<1> SUFFICES ASSUME Init PROVE IInv
    OBVIOUS
<1> USE SessionsAssumption
<1>1. [NewShell EXCEPT !.st = "none"] \in Shell /\ NoCmd \in Command
    BY Plain DEF Shell, NoCmd, Command
<1>2. Typed
    <2>1. TableTyped
        BY DEF Init, TableTyped, Ids, ControlPoints, Kinds
    <2>2. ShellsTyped
        BY <1>1 DEF Init, ShellsTyped
    <2>3. PipesTyped
        BY <1>1, Plain DEF Init, PipesTyped, Empty
    <2>4. EvalTyped
        <3>1. NoReply \in Replies
            BY ShortReply DEF NoReply, Short, Kinds
        <3>2. streaming \in BOOLEAN /\ cut \subseteq Ids
            BY DEF Init
        <3>3. ncmd \in 0 .. MaxCmd /\ todrain \subseteq Streams /\ status \in 0 .. MaxCmd
            BY DEF Init
        <3> QED BY <3>1, <3>2, <3>3, Plain DEF Init, EvalTyped
    <2> QED BY <2>1, <2>2, <2>3, <2>4 DEF Typed
<1>3. /\ \A i \in Ids : i \notin Active /\ ~Child(i)
    BY DEF Init, Active, NewShell, Child, Ids
<1>4. Table
    BY <1>3 DEF Init, Table, Waits, Closing
<1>5. Fresh
    BY DEF Init, Fresh, NewShell
<1>6. Past
    <2> SUFFICES ASSUME NEW i \in Ids
                 PROVE  /\ child[i].cmd <= ncmd /\ (child[i].st = "busy" => child[i].cmd > 0)
                        /\ cmdq[i].n <= ncmd /\ (cmdq[i] # NoCmd => cmdq[i].n > 0)
                        /\ bg[i] <= ncmd
                        /\ \A x \in Streams : \A k \in DOMAIN pipe[i][x] : pipe[i][x][k] <= ncmd
        BY DEF Past
    <2>1. child[i].cmd = 0 /\ child[i].st = "none"
        BY DEF Init, NewShell
    <2>2. cmdq[i] = NoCmd /\ cmdq[i].n = 0 /\ bg[i] = 0 /\ ncmd = 0
        BY DEF Init, NoCmd
    <2>3. \A x \in Streams : pipe[i][x] = <<>>
        BY DEF Init, Empty
    <2> QED BY ONLY <2>1, <2>2, <2>3
<1>7. Quiet /\ Asked /\ Own /\ Kept /\ Turn
    BY DEF Init, Quiet, Asked, Own, Kept, Turn, Waits
<1>8. Cap
    BY DEF Init, Cap, Empty, Zero
<1>9. Replied
    BY DEF Init, Replied, NoReply
<1> QED BY <1>2, <1>4, <1>5, <1>6, <1>7, <1>8, <1>9 DEF IInv

-----------------------------------------------------------------------------
(* What several actions do.                                                *)

LEMMA RepliedShort == ASSUME Short(reply') PROVE Replied'
BY DEF Short, Replied

(* A result stays right while its session rests.                           *)
LEMMA RepliedSame ==
    ASSUME Replied, reply' = reply, reply \in Replies, cut' = cut, ~Waits',
           \A i \in Ids : child[i].st # "busy" /\ cmdq[i] = NoCmd =>
               child'[i].st # "busy" /\ cmdq'[i] = NoCmd /\ child'[i].wrote = child[i].wrote
    PROVE  Replied'
<1> SUFFICES ASSUME reply.kind = "result" PROVE Replied'
    BY DEF Replied
<1>1. reply.sid \in Ids
    BY DEF Replies, Kinds
<1>2. /\ child[reply.sid].st # "busy" /\ cmdq[reply.sid] = NoCmd
      /\ OwnStatus /\ CompleteOutput /\ NoLateOutput
    BY DEF Replied
<1>3. OwnStatus' /\ NoLateOutput'
    BY <1>2 DEF OwnStatus, NoLateOutput
<1>4. CompleteOutput'
    BY <1>1, <1>2 DEF CompleteOutput
<1> QED BY <1>1, <1>2, <1>3, <1>4 DEF Replied

(* A request ends with a short reply and changes nothing else.             *)
LEMMA AnswerOK ==
    ASSUME IInv, pc = "idle", NEW r, Short(r), Answer(r),
           UNCHANGED <<slots, next_session_id, open, shells, pipes, eval, ncmd, cut>>
    PROVE  IInv'
<1> USE DEF Answer, shells, pipes, eval
<1>1. Typed'
    BY SessionsAssumption
    DEF IInv, Typed, TableTyped, ShellsTyped, PipesTyped, EvalTyped, Short, Kinds, ControlPoints
<1>2. Waits' = Waits /\ Closing' = Closing /\ ~Waits /\ ~Closing /\ cur = 0 /\ pc' = pc
    BY DEF IInv, Table, Waits, Closing
<1>3. Table' /\ Fresh' /\ Past' /\ Quiet' /\ Asked' /\ Cap' /\ Kept' /\ Turn'
    BY <1>2, ActiveIs DEF IInv, Table, Fresh, Past, Quiet, Rests, Asked, Cap, Kept, Turn, Child
<1>4. Own'
    BY <1>2 DEF IInv, Own
<1>5. Replied'
    BY RepliedShort
<1> QED BY <1>1, <1>3, <1>4, <1>5 DEF IInv

(* session_close, up to the first waitpid.  A command that was under way   *)
(* is the one of the session that is closed.                               *)
LEMMA CloseOK ==
    ASSUME IInv, NEW i \in Active, NEW r \in Kinds, session_close(i, r),
           Waits => i = cur, ~Closing, pc # "exited",
           EvalTyped', Cap', ncmd' >= ncmd, cut' = cut, reply' = reply \/ Short(reply'),
           UNCHANGED <<slots, next_session_id, shells, pipes>>
    PROVE  IInv'
<1> USE DEF session_close, shells, pipes
<1>1. i \in Ids /\ Active' = Active
    BY ActiveIs, UsedIs DEF IInv, Typed, TableTyped
<1>2. i \in 0 .. MaxCreate
    BY <1>1, SessionsAssumption DEF Ids
<1>3. Typed'
    BY <1>2 DEF IInv, Typed, TableTyped, ShellsTyped, PipesTyped, ControlPoints
<1>4. ~Waits' /\ Closing' /\ cur' = i
    BY DEF Waits, Closing
<1>5. Table'
    BY <1>1, <1>4 DEF IInv, Table, Child
<1>6. Fresh'
    BY DEF IInv, Fresh
<1>7. Past'
    <2>1. ncmd \in Int /\ ncmd' \in Int
        BY SessionsAssumption DEF IInv, Typed, EvalTyped
    <2>2. \A j \in Ids : \A x \in Streams : \A k \in DOMAIN pipe[j][x] : pipe[j][x][k] \in Int
        BY SessionsAssumption DEF IInv, Typed, PipesTyped, Outputs, Chunks
    <2>3. \A j \in Ids : child[j].cmd \in Int /\ cmdq[j].n \in Int /\ bg[j] \in Int
        BY SessionsAssumption DEF IInv, Typed, PipesTyped, ShellsTyped, Shell, Command
    <2> QED BY <2>1, <2>2, <2>3 DEF IInv, Past
<1>8. Quiet'
    BY <1>4 DEF IInv, Quiet, Rests
<1>9. Asked' /\ Kept' /\ Turn'
    BY <1>4 DEF Asked, Kept, Turn
<1>10. Own'
    BY <1>4 DEF IInv, Own
<1>11. Replied'
    <2>1. CASE Short(reply')
        BY <2>1, RepliedShort
    <2>2. CASE reply' = reply
        BY <2>2, <1>4, RepliedSame DEF IInv, Typed, EvalTyped
    <2> QED BY <2>1, <2>2
<1> QED BY <1>3, <1>5, <1>6, <1>7, <1>8, <1>9, <1>10, <1>11 DEF IInv

(* The state of one shell changes.                                         *)
With(c, i, v) == [c EXCEPT ![i].st = v]

LEMMA StateOf ==
    ASSUME NEW c \in [Ids -> Shell], NEW i \in Ids,
           NEW v \in {"none", "idle", "busy", "zombie", "gone"}
    PROVE  LET d == With(c, i, v) IN
           /\ d \in [Ids -> Shell]
           /\ d[i].st = v
           /\ \A j \in Ids : j # i => d[j] = c[j]
           /\ \A j \in Ids : /\ d[j].stopped = c[j].stopped /\ d[j].cmd = c[j].cmd
                             /\ d[j].todo = c[j].todo /\ d[j].wrote = c[j].wrote
<1> DEFINE r == [c[i] EXCEPT !.st = v]
           d == With(c, i, v)
<1>1. /\ r \in Shell /\ r.st = v /\ r.stopped = c[i].stopped /\ r.cmd = c[i].cmd
      /\ r.todo = c[i].todo /\ r.wrote = c[i].wrote
    BY DEF Shell
<1>2. d = [c EXCEPT ![i] = r]
    BY DEF With
<1> HIDE DEF r, d
<1>3. d \in [Ids -> Shell] /\ d[i] = r /\ \A j \in Ids : j # i => d[j] = c[j]
    BY <1>1, <1>2
<1> QED BY <1>1, <1>3 DEF d

(* waitpid returns the shell of the session that is being closed.          *)
LEMMA ReapedOK ==
    ASSUME IInv, Closing, Reaped(AfterClose),
           UNCHANGED <<next_session_id, open, holds, bg, pipes, eval, ncmd, cut>>
    PROVE  IInv'
<1> USE DEF Reaped, pipes, eval
<1>1. cur \in Active /\ cur \in Ids /\ pc # "exited" /\ ~Waits
    BY ActiveIs, UsedIs DEF IInv, Typed, TableTyped, Table, Closing, Waits
<1>2. pc' \in {"idle", "cleanup"} /\ ~Waits' /\ ~Closing' /\ cur' = 0 /\ pc' # "exited"
    BY DEF AfterClose, Waits, Closing
<1>3. /\ slots' \in [1 .. MAX_SESSIONS -> 0 .. MaxCreate]
      /\ \A k, l \in 1 .. MAX_SESSIONS : slots'[k] = slots'[l] /\ slots'[k] # 0 => k = l
      /\ \A j : j \in Active' <=> j \in Active /\ j # cur
    <2>1. slots' = Freed(slots, cur)
        BY DEF Freed
    <2>2. /\ slots \in [1 .. MAX_SESSIONS -> 0 .. MaxCreate]
          /\ \A k, l \in 1 .. MAX_SESSIONS : slots[k] = slots[l] /\ slots[k] # 0 => k = l
        BY DEF IInv, Typed, TableTyped, Table
    <2> QED BY ONLY <2>1, <2>2, FreeOK, ActiveIs
<1>4. /\ child' \in [Ids -> Shell] /\ child'[cur].st = "gone"
      /\ \A j \in Ids : j # cur => child'[j] = child[j]
      /\ \A j \in Ids : child'[j].wrote = child[j].wrote /\ child'[j].cmd = child[j].cmd
    <2>1. child' = With(child, cur, "gone")
        BY DEF With
    <2>2. child \in [Ids -> Shell]
        BY DEF IInv, Typed, ShellsTyped
    <2> QED BY ONLY <2>1, <2>2, <1>1, StateOf
<1>5. Short(reply')
    BY ShortReply DEF IInv, Typed, TableTyped
<1>6. Typed'
    BY <1>2, <1>3, <1>4, <1>5, SessionsAssumption
    DEF IInv, Typed, TableTyped, ShellsTyped, PipesTyped, EvalTyped, ControlPoints, Kinds, Short
<1>7. Table'
    BY <1>1, <1>2, <1>3, <1>4 DEF IInv, Table, Child
<1>8. Fresh'
    <2>1. cur < next_session_id \/ cur >= next_session_id
        BY <1>1 DEF IInv, Typed, TableTyped, Ids
    <2>2. Child(cur)
        BY <1>1 DEF IInv, Table
    <2>3. ~(cur >= next_session_id)
        BY <2>2, <1>1 DEF IInv, Fresh, Child
    <2> QED BY <2>3, <1>1, <1>4 DEF IInv, Fresh
<1>9. Past'
    BY <1>1, <1>4 DEF IInv, Past
<1>10. Quiet'
    BY <1>1, <1>2, <1>4 DEF IInv, Quiet, Rests, Table
<1>11. Asked' /\ Kept' /\ Cap' /\ Turn'
    BY <1>2 DEF IInv, Asked, Kept, Cap, Turn
<1>12. Own'
    BY <1>1, <1>2 DEF IInv, Own
<1>13. Replied'
    BY <1>5, RepliedShort
<1> QED BY <1>6, <1>7, <1>8, <1>9, <1>10, <1>11, <1>12, <1>13 DEF IInv

(* A shell ends, by itself, by a signal or because a pipe is closed.       *)
LEMMA EndsOK ==
    ASSUME IInv, NEW i \in Ids, Child(i), child' = [child EXCEPT ![i].st = "zombie"],
           pc' = pc \/ (pc = "reap1" /\ pc' = "reap2"), why' \in Kinds,
           reply' = reply \/ (Short(reply') /\ ~Waits),
           UNCHANGED <<slots, next_session_id, open, holds, bg, pipes, cur, eval, ncmd, cut>>
    PROVE  IInv'
<1> USE DEF pipes, eval
<1>1. /\ child' \in [Ids -> Shell] /\ child'[i].st = "zombie"
      /\ \A j \in Ids : j # i => child'[j] = child[j]
      /\ \A j \in Ids : child'[j].wrote = child[j].wrote /\ child'[j].cmd = child[j].cmd
    <2>1. child' = With(child, i, "zombie")
        BY DEF With
    <2>2. child \in [Ids -> Shell]
        BY DEF IInv, Typed, ShellsTyped
    <2> QED BY ONLY <2>1, <2>2, i \in Ids, StateOf
<1>2. /\ Waits' = Waits /\ Closing' = Closing /\ (pc = "exited" <=> pc' = "exited")
      /\ Active' = Active
    BY ActiveIs DEF Waits, Closing
<1>5. \A j \in Ids : Child(j)' <=> Child(j)
    BY <1>1 DEF Child
<1>6. Typed'
    BY <1>1 DEF IInv, Typed, TableTyped, ShellsTyped, PipesTyped, EvalTyped, Short, ControlPoints
<1>7. Table'
    BY <1>2, <1>5 DEF IInv, Table
<1>8. Fresh'
    <2>1. ~(i >= next_session_id)
        BY DEF IInv, Fresh, Child
    <2> QED BY <2>1, <1>1 DEF IInv, Fresh
<1>9. Past'
    BY <1>1 DEF IInv, Past
<1>10. Quiet'
    BY <1>1, <1>2 DEF IInv, Quiet, Rests
<1>11. Own' /\ Cap' /\ Turn'
    BY <1>2 DEF IInv, Own, Cap, Turn
<1>12. Waits => cur \in Ids
    BY ActiveIs, UsedIs DEF IInv, Typed, TableTyped, Table
<1>13. Asked'
    BY <1>1, <1>2, <1>12 DEF IInv, Asked, Sent, Running, Finished, Lost, NoStatus, HasStatus
<1>14. Kept'
    <2> SUFFICES ASSUME Waits, NEW x \in Streams, total[x] < MAX_OUTPUT_SIZE
                 PROVE  /\ Sent' => Seen(x)' = 0
                        /\ Running' \/ Finished' => Seen(x)' = child'[cur].wrote[x]
        BY <1>2 DEF Kept
    <2>1. Seen(x)' = Seen(x)
        BY DEF Seen
    <2>2. Running' => Running
        BY <1>1, <1>12 DEF Running, NoStatus
    <2>3. Finished' => Finished
        <3>1. CASE cur # i
            BY <3>1, <1>1, <1>12 DEF Finished, HasStatus
        <3>2. CASE cur = i
            BY <3>2, <1>1, <1>12 DEF IInv, Asked, Sent, Running, Finished, Lost, NoStatus, HasStatus, NoCmd
        <3> QED BY <3>1, <3>2
    <2>4. Sent' => Sent
        <3>1. CASE cur # i
            BY <3>1, <1>1, <1>12 DEF Sent, NoStatus
        <3>2. CASE cur = i
            <4>1. ncmd # 0 /\ NoCmd.n = 0
                BY DEF IInv, Asked, NoCmd
            <4> QED BY <3>2, <1>1, <1>12, <4>1 DEF IInv, Asked, Sent, Running, Finished, Lost, NoStatus, HasStatus
        <3> QED BY <3>1, <3>2
    <2> QED BY <2>1, <2>2, <2>3, <2>4, <1>1, <1>12 DEF IInv, Kept
<1>15. Replied'
    <2>1. CASE Short(reply')
        BY <2>1, RepliedShort
    <2>2. CASE reply' = reply /\ Waits
        BY <2>2 DEF IInv, Replied
    <2>3. CASE reply' = reply /\ ~Waits
        BY <2>3, <1>1, <1>2, RepliedSame DEF IInv, Typed, EvalTyped
    <2> QED BY <2>1, <2>2, <2>3
<1> QED BY <1>6, <1>7, <1>8, <1>9, <1>10, <1>11, <1>13, <1>14, <1>15 DEF IInv

-----------------------------------------------------------------------------
(* The requests.                                                           *)

LEMMA CreateOK == ASSUME IInv, session_op_create PROVE IInv'
<1> DEFINE i == next_session_id
           m == alloc_session
<1> USE DEF pipes, eval
<1>1. CASE Answer([kind |-> "no_session"]) /\ UNCHANGED <<slots, next_session_id, open, child, holds>>
    <2>1. Short([kind |-> "no_session"])
        BY ShortReply DEF Kinds
    <2> QED BY <1>1, <2>1, AnswerOK DEF session_op_create, shells
<1>2. CASE /\ m # 0 /\ i \in Ids /\ Fork(i)
           /\ slots' = [slots EXCEPT ![m] = i] /\ next_session_id' = i + 1
           /\ open' = open \cup {i} /\ Answer([kind |-> "created"])
    <2> USE DEF Answer, Fork
    <2>1. /\ pc = "idle" /\ pc' = "idle" /\ cur = 0 /\ cur' = 0 /\ UNCHANGED <<bg, pipes, eval, ncmd, cut>>
          /\ ~Waits /\ ~Waits' /\ ~Closing /\ ~Closing'
        BY <1>2 DEF session_op_create, Waits, Closing, IInv, Table
    <2>2. child[i].st = "none" /\ bg[i] = 0 /\ cmdq[i] = NoCmd /\ ctl[i] = <<>> /\ pipe[i] = Empty
        BY <1>2 DEF IInv, Fresh, Typed, TableTyped
    <2>3. i \notin Active
        BY <1>2, <2>1, <2>2 DEF IInv, Table, Child
    <2>4. /\ slots' \in [1 .. MAX_SESSIONS -> 0 .. MaxCreate]
          /\ \A k, l \in 1 .. MAX_SESSIONS : slots'[k] = slots'[l] /\ slots'[k] # 0 => k = l
          /\ \A j : j \in Active' <=> j \in Active \/ j = i
        <3>1. slots' = Filled(slots, m, i)
            BY <1>2 DEF Filled
        <3>2. /\ slots \in [1 .. MAX_SESSIONS -> 0 .. MaxCreate]
              /\ \A k, l \in 1 .. MAX_SESSIONS : slots[k] = slots[l] /\ slots[k] # 0 => k = l
            BY DEF IInv, Typed, TableTyped, Table
        <3>3. m \in {k \in 1 .. MAX_SESSIONS : slots[k] = 0}
            BY <1>2, FirstSlotIs DEF alloc_session
        <3>4. m \in 1 .. MAX_SESSIONS /\ slots[m] = 0
            BY <3>3
        <3>5. i \notin Used(slots) /\ i \in Ids
            BY <2>3, <1>2, ActiveIs
        <3> HIDE DEF m, i
        <3>6. LET u == Filled(slots, m, i) IN
              /\ u \in [1 .. MAX_SESSIONS -> 0 .. MaxCreate]
              /\ \A k, l \in 1 .. MAX_SESSIONS : u[k] = u[l] /\ u[k] # 0 => k = l
              /\ \A j : j \in Used(u) <=> j \in Used(slots) \/ j = i
            BY ONLY <3>2, <3>4, <3>5, FillOK
        <3> QED BY ONLY <3>1, <3>6, ActiveIs
    <2>5. /\ child' \in [Ids -> Shell] /\ child'[i] = NewShell
          /\ \A j \in Ids : j # i => child'[j] = child[j]
        BY <1>2, Plain DEF IInv, Typed, ShellsTyped
    <2>6. NewShell.st = "idle" /\ NewShell.cmd = 0
        BY DEF NewShell
    <2>7. Short(reply')
        BY <1>2, ShortReply DEF Kinds
    <2>8. Typed'
        <3>1. TableTyped'
            <4>1. i + 1 \in 1 .. MaxCreate + 1 /\ 0 \in 0 .. MaxCreate
                BY <1>2, SessionsAssumption DEF Ids
            <4> QED BY <4>1, <1>2, <2>1, <2>4 DEF IInv, Typed, TableTyped, Kinds, ControlPoints
        <3>2. ShellsTyped'
            BY <1>2, <2>1, <2>5 DEF IInv, Typed, TableTyped, ShellsTyped
        <3>3. PipesTyped' /\ EvalTyped'
            BY <2>1, <2>7 DEF IInv, Typed, PipesTyped, EvalTyped, Short
        <3> QED BY <3>1, <3>2, <3>3 DEF Typed
    <2>9. Table'
        BY <1>2, <2>1, <2>3, <2>4, <2>5, <2>6 DEF IInv, Table, Child
    <2>10. Fresh'
        <3>1. \A j \in Ids : j >= i + 1 => j >= i /\ j # i
            BY DEF IInv, Typed, TableTyped, Ids
        <3> QED BY <1>2, <3>1, <2>1, <2>5 DEF IInv, Fresh
    <2>11. Past'
        <3>1. 0 <= ncmd
            BY SessionsAssumption DEF IInv, Typed, EvalTyped
        <3> QED BY <3>1, <2>1, <2>5, <2>6 DEF IInv, Past
    <2>12. Quiet'
        BY <1>2, <2>1, <2>2, <2>5, <2>6 DEF IInv, Quiet, Rests, Typed, TableTyped
    <2>13. Asked' /\ Kept' /\ Cap' /\ Turn'
        BY <2>1 DEF Asked, Kept, IInv, Cap, Turn
    <2>14. Own'
        BY <1>2, <2>1, <2>2 DEF IInv, Own, Only, Empty
    <2>15. Replied'
        BY <2>7, RepliedShort
    <2> QED BY <2>8, <2>9, <2>10, <2>11, <2>12, <2>13, <2>14, <2>15 DEF IInv
<1> QED BY <1>1, <1>2 DEF session_op_create

(* An empty output holds nothing.                                          *)
LEMMA CountNone ==
    ASSUME NEW n, NEW s, \A k \in DOMAIN s : s[k] # n
    PROVE  Count(n, s) = 0
<1>1. {k \in DOMAIN s : s[k] = n} = {}
    OBVIOUS
<1> QED BY <1>1, FS_EmptySet DEF Count

LEMMA EvalOK ==
    ASSUME IInv, NEW i \in Ids, NEW size \in Sizes, NEW b \in BOOLEAN, session_op_eval(i, size, b)
    PROVE  IInv'
<1>1. CASE ~find_session(i) \/ size = "missing"
    <2>1. Short([kind |-> "invalid"])
        BY ShortReply DEF Kinds
    <2> QED BY <1>1, <2>1, AnswerOK DEF session_op_eval, pipes
<1>2. CASE find_session(i) /\ size # "missing"
    <2>1. /\ pc = "idle" /\ ncmd < MaxCmd /\ ncmd' = ncmd + 1
          /\ streaming' = b /\ buf' = Empty /\ total' = Zero
          /\ todrain' = {} /\ status' = 0 /\ reply' = NoReply
          /\ UNCHANGED <<slots, next_session_id, shells, ctl, pipe, cut>>
        BY <1>2 DEF session_op_eval
    <2>2. ~Waits /\ ~Closing /\ pc # "exited" /\ i \in Active /\ i \in open /\ ncmd \in Nat /\ ncmd + 1 \in 1 .. MaxCmd
        BY <1>2, <2>1, SessionsAssumption
        DEF Waits, Closing, find_session, IInv, Table, Typed, EvalTyped
    <2>3. Short(reply')
        BY <2>1, ShortReply DEF NoReply, Kinds
    <2>4. EvalTyped'
        <3>1. streaming' \in BOOLEAN /\ todrain' \subseteq Streams /\ status' \in 0 .. MaxCmd
            BY <2>1, SessionsAssumption
        <3> QED BY <3>1, <2>1, <2>2, <2>3, Plain DEF EvalTyped, IInv, Typed, Short
    <2>5. Cap'
        BY <2>1, SessionsAssumption DEF Cap, Empty, Zero
    <2>6. CASE session_close(i, "failed") /\ UNCHANGED cmdq
        BY <1>2, <2>1, <2>2, <2>3, <2>4, <2>5, <2>6, CloseOK DEF session_op_eval, pipes, Kinds
    <2>7. CASE /\ cmdq' = [cmdq EXCEPT ![i] = [n |-> ncmd + 1, size |-> size]]
               /\ pc' = (IF size = "small" THEN "poll" ELSE "write")
               /\ cur' = i /\ UNCHANGED <<why, open>>
        <3>1. /\ cmdq' = [cmdq EXCEPT ![i] = [n |-> ncmd + 1, size |-> size]]
              /\ pc' = (IF size = "small" THEN "poll" ELSE "write")
              /\ cur' = i /\ UNCHANGED <<why, open>>
            BY <2>7
        <3>2. Waits' /\ ~Closing' /\ pc' # "exited" /\ Active' = Active
            BY <3>1, <2>1, ActiveIs DEF Waits, Closing
        <3>3. /\ cmdq' \in [Ids -> Command] /\ cmdq'[i].n = ncmd + 1
              /\ \A j \in Ids : j # i => cmdq'[j] = cmdq[j]
            <4> DEFINE c == [n |-> ncmd + 1, size |-> size]
            <4>1. c \in Command /\ c.n = ncmd + 1
                BY <1>2, <2>2, SessionsAssumption DEF Command
            <4> HIDE DEF c
            <4>2. cmdq' = [cmdq EXCEPT ![i] = c]
                BY <3>1 DEF c
            <4> QED BY <4>1, <4>2 DEF IInv, Typed, PipesTyped
        <3>4. /\ UNCHANGED <<child, holds, bg>> /\ Rests(i)
              /\ child[i].st \in {"idle", "zombie"}
            BY <2>1, <2>2 DEF shells, IInv, Quiet, Rests, Table, Child
        <3>5. Typed'
            <4>1. i \in 0 .. MaxCreate /\ pc' \in ControlPoints
                BY <3>1, SessionsAssumption DEF ControlPoints, Ids
            <4>2. TableTyped'
                BY <2>1, <3>1, <4>1 DEF IInv, Typed, TableTyped
            <4>3. ShellsTyped' /\ PipesTyped'
                BY <2>1, <3>3, <3>4 DEF IInv, Typed, ShellsTyped, PipesTyped
            <4> QED BY ONLY <2>4, <4>2, <4>3 DEF Typed
        <3>6. Table'
            BY <2>1, <2>2, <3>1, <3>2, <3>4 DEF IInv, Table, Child
        <3>7. Fresh'
            <4>1. ~(i >= next_session_id)
                BY <3>4 DEF IInv, Fresh
            <4> QED BY <2>1, <3>3, <3>4, <4>1 DEF IInv, Fresh
        <3>8. \A j \in Ids : /\ child[j].cmd \in Int /\ cmdq[j].n \in Int /\ bg[j] \in Int
                             /\ \A x \in Streams : \A k \in DOMAIN pipe[j][x] : pipe[j][x][k] \in Int
            <4>1. \A j \in Ids : child[j].cmd \in Int /\ cmdq[j].n \in Int /\ bg[j] \in Int
                BY SessionsAssumption DEF IInv, Typed, PipesTyped, ShellsTyped, Shell, Command
            <4>2. \A j \in Ids : \A x \in Streams : pipe[j][x] \in Seq(Chunks)
                BY DEF IInv, Typed, PipesTyped, Outputs
            <4>3. \A a \in Chunks : a \in Int
                BY DEF Chunks
            <4>4. \A j \in Ids : \A x \in Streams : \A k \in DOMAIN pipe[j][x] : pipe[j][x][k] \in Int
                BY ONLY <4>2, <4>3
            <4> QED BY ONLY <4>1, <4>4
        <3>9. Past'
            <4> SUFFICES ASSUME NEW j \in Ids
                         PROVE  /\ child[j].cmd <= ncmd + 1 /\ (child[j].st = "busy" => child[j].cmd > 0)
                                /\ cmdq'[j].n <= ncmd + 1 /\ (cmdq'[j] # NoCmd => cmdq'[j].n > 0)
                                /\ bg[j] <= ncmd + 1
                                /\ \A x \in Streams : \A k \in DOMAIN pipe[j][x] : pipe[j][x][k] <= ncmd + 1
                BY <2>1, <3>4 DEF Past
            <4>1. CASE j = i
                BY <4>1, <2>2, <3>3, <3>8 DEF IInv, Past
            <4>2. CASE j # i
                BY <4>2, <2>2, <3>3, <3>8 DEF IInv, Past
            <4> QED BY <4>1, <4>2
        <3>10. Quiet'
            BY <2>1, <2>2, <3>1, <3>2, <3>3, <3>4 DEF IInv, Quiet, Rests, Typed, TableTyped
        <3>11. Sent' /\ Asked'
            BY <2>1, <2>2, <3>1, <3>3, <3>4 DEF Asked, Sent, NoStatus, Rests
        <3>12. Own'
            <4>1. \A j \in open : j \notin cut => \A x \in Streams : \A k \in DOMAIN pipe[j][x] : pipe[j][x][k] < 0
                BY <2>2, <3>8 DEF IInv, Own, Only, Typed, TableTyped
            <4>2. \A x \in Streams : Only(ncmd', buf'[x])
                BY <2>1 DEF Only, Empty
            <4> QED BY <2>1, <3>1, <4>1, <4>2 DEF Own, Only
        <3>13. Kept'
            <4> SUFFICES ASSUME NEW x \in Streams PROVE Seen(x)' = 0 /\ ~Running' /\ ~Finished'
                BY DEF Kept
            <4>1. Count(ncmd + 1, <<>>) = 0
                BY CountNone
            <4>2. Count(ncmd + 1, pipe[i][x]) = 0
                <5>1. \A k \in DOMAIN pipe[i][x] : pipe[i][x][k] # ncmd + 1
                    BY <2>2, <3>8 DEF IInv, Past
                <5> QED BY <5>1, CountNone
            <4>3. Seen(x)' = 0
                BY <2>1, <3>1, <4>1, <4>2 DEF Seen, Empty
            <4>4. cmdq'[i] # NoCmd
                BY <3>3, <2>2 DEF NoCmd
            <4> QED BY <3>1, <4>3, <4>4 DEF Running, Finished
        <3>14. Replied'
            BY <2>3, RepliedShort
        <3>15. Turn'
            BY <2>1, <3>1 DEF Turn
        <3> QED BY <2>5, <3>5, <3>6, <3>7, <3>9, <3>10, <3>11, <3>12, <3>13, <3>14, <3>15 DEF IInv
    <2> QED BY <1>2, <2>6, <2>7 DEF session_op_eval
<1> QED BY <1>1, <1>2

(* A signal that does not end the shell stops it or lets it go on.         *)
LEMMA StoppedOf ==
    ASSUME NEW c \in [Ids -> Shell], NEW i \in Ids, NEW v \in BOOLEAN
    PROVE  LET d == [c EXCEPT ![i].stopped = v] IN
           /\ d \in [Ids -> Shell]
           /\ \A j \in Ids : /\ d[j].st = c[j].st /\ d[j].cmd = c[j].cmd
                             /\ d[j].wrote = c[j].wrote
<1> DEFINE r == [c[i] EXCEPT !.stopped = v]
           d == [c EXCEPT ![i] = r]
<1>1. r \in Shell /\ r.st = c[i].st /\ r.cmd = c[i].cmd /\ r.wrote = c[i].wrote
    BY DEF Shell
<1> HIDE DEF r
<1>2. d \in [Ids -> Shell] /\ d[i] = r /\ \A j \in Ids : j # i => d[j] = c[j]
    BY <1>1
<1>3. [c EXCEPT ![i].stopped = v] = d
    BY DEF r
<1> QED BY <1>1, <1>2, <1>3

LEMMA SignalOK ==
    ASSUME IInv, NEW i \in Ids, NEW s \in Signals, session_op_signal(i, s)
    PROVE  IInv'
<1>1. /\ pc = "idle" /\ ~Waits /\ ~Closing /\ cur = 0
      /\ UNCHANGED <<slots, next_session_id, open, holds, bg, pipes, eval, ncmd, cut>>
    BY DEF session_op_signal, Waits, Closing, IInv, Table
<1>2. CASE ~find_session(i)
    <2>1. Short([kind |-> "invalid"])
        BY ShortReply DEF Kinds
    <2> QED BY <1>1, <1>2, <2>1, AnswerOK DEF session_op_signal, shells
<1>3. CASE find_session(i)
    <2>1. Answer([kind |-> "signalled"])
        BY <1>3 DEF session_op_signal
    <2>2. pc' = "idle" /\ cur' = 0 /\ why' = "none" /\ Short(reply')
        BY <2>1, ShortReply DEF Answer, Kinds
    <2>3. i \in Active /\ Child(i)
        BY <1>1, <1>3 DEF find_session, IInv, Table
    <2>4. CASE child' = [child EXCEPT ![i].st = "zombie"]
        BY <1>1, <2>2, <2>3, <2>4, EndsOK DEF Kinds
    <2>5. ASSUME NEW v \in BOOLEAN, child' = [child EXCEPT ![i].stopped = v]
          PROVE  IInv'
        <3>1. /\ child' \in [Ids -> Shell]
              /\ \A j \in Ids : /\ child'[j].st = child[j].st /\ child'[j].cmd = child[j].cmd
                                /\ child'[j].wrote = child[j].wrote
            <4>1. child \in [Ids -> Shell]
                BY DEF IInv, Typed, ShellsTyped
            <4>2. child' = [child EXCEPT ![i].stopped = v]
                BY <2>5
            <4> QED BY ONLY <4>1, <4>2, v \in BOOLEAN, i \in Ids, StoppedOf
        <3>2. ~Waits' /\ ~Closing' /\ Active' = Active
            BY <1>1, <2>2, ActiveIs DEF Waits, Closing
        <3>3. Typed'
            BY <1>1, <2>2, <3>1, SessionsAssumption
            DEF IInv, Typed, TableTyped, ShellsTyped, PipesTyped, EvalTyped, pipes, eval, Short,
                ControlPoints, Kinds
        <3>4. Table'
            BY <1>1, <2>2, <3>1, <3>2 DEF IInv, Table, Child
        <3>5. Fresh' /\ Past'
            BY <1>1, <3>1 DEF IInv, Fresh, Past, pipes
        <3>6. Quiet'
            BY <1>1, <3>1, <3>2 DEF IInv, Quiet, Rests, pipes, Typed, TableTyped
        <3>7. Asked' /\ Kept' /\ Cap' /\ Turn'
            BY <1>1, <2>2, <3>2 DEF Asked, Kept, IInv, Cap, Turn, eval
        <3>8. Own'
            BY <1>1, <3>2 DEF IInv, Own, pipes
        <3>9. Replied'
            BY <2>2, RepliedShort
        <3> QED BY <3>3, <3>4, <3>5, <3>6, <3>7, <3>8, <3>9 DEF IInv
    <2>6. (child[i].st # "zombie") \in BOOLEAN
        OBVIOUS
    <2> QED BY <1>3, <2>4, <2>5, <2>6 DEF session_op_signal
<1> QED BY <1>2, <1>3

LEMMA DestroyOK == ASSUME IInv, NEW i \in Ids, session_op_destroy(i) PROVE IInv'
<1>1. CASE ~find_session(i)
    <2>1. Short([kind |-> "invalid"])
        BY ShortReply DEF Kinds
    <2> QED BY <1>1, <2>1, AnswerOK DEF session_op_destroy
<1>2. CASE find_session(i)
    <2>1. EvalTyped' /\ Cap'
        BY <1>2 DEF session_op_destroy, IInv, Typed, EvalTyped, Cap, eval
    <2>2. ncmd' >= ncmd
        BY SessionsAssumption DEF session_op_destroy, IInv, Typed, EvalTyped
    <2> QED BY <1>2, <2>1, <2>2, CloseOK DEF session_op_destroy, find_session, Waits, Closing, Kinds
<1> QED BY <1>1, <1>2

-----------------------------------------------------------------------------
(* The server between its waits.                                           *)

(* Nothing but the control point and the pipes to drain change, and it     *)
(* stays inside or outside of a request.                                   *)
LEMMA PcOK ==
    ASSUME IInv, pc' \in ControlPoints, Waits' = Waits, Closing' = Closing,
           pc' # "exited" => pc # "exited", todrain' \subseteq Streams, Turn',
           UNCHANGED <<slots, next_session_id, open, shells, pipes, cur, why, streaming, buf, total,
                       status, reply, ncmd, cut>>
    PROVE  IInv'
<1> USE DEF shells, pipes
<1>1. Active' = Active
    BY ActiveIs
<1>2. Typed'
    BY DEF IInv, Typed, TableTyped, ShellsTyped, PipesTyped, EvalTyped
<1>3. Table'
    BY <1>1 DEF IInv, Table, Child
<1>4. Fresh' /\ Past' /\ Quiet' /\ Cap'
    BY DEF IInv, Fresh, Past, Quiet, Rests, Cap
<1>5. Own'
    BY DEF IInv, Own
<1>6. Asked' /\ Kept'
    BY DEF IInv, Asked, Kept, Sent, Running, Finished, Lost, NoStatus, HasStatus, Seen
<1>7. Replied'
    BY DEF IInv, Replied, OwnStatus, CompleteOutput, NoLateOutput
<1> QED BY <1>2, <1>3, <1>4, <1>5, <1>6, <1>7 DEF IInv

LEMMA ToDrain == IInv => todrain \subseteq Streams /\ Turn
BY DEF IInv, Typed, EvalTyped

LEMMA ShutdownOK == ASSUME IInv, Shutdown PROVE IInv'
<1>1. Turn' /\ todrain' \subseteq Streams
    BY ToDrain DEF Shutdown, Turn, eval
<1> QED BY <1>1, PcOK DEF Shutdown, Waits, Closing, ControlPoints, eval

LEMMA WriteDoneOK == ASSUME IInv, WriteDone PROVE IInv'
<1>1. Turn' /\ todrain' \subseteq Streams
    BY ToDrain DEF WriteDone, Turn, eval
<1> QED BY <1>1, PcOK DEF WriteDone, Waits, Closing, ControlPoints, eval

LEMMA PollOutputOK == ASSUME IInv, NEW X \in SUBSET Streams, PollOutput(X) PROVE IInv'
<1>1. Turn' /\ todrain' \subseteq Streams
    BY ToDrain DEF PollOutput, Turn
<1> QED BY <1>1, PcOK DEF PollOutput, Waits, Closing, ControlPoints

(* The three ways in which eval gives a session up.                        *)
LEMMA GivesUpOK == ASSUME IInv, WriteFails \/ PollHangup \/ Timeout PROVE IInv'
<1>1. /\ Waits /\ ~Closing /\ pc # "exited"
      /\ UNCHANGED <<slots, next_session_id, shells, pipes, eval, reply, ncmd, cut>>
    BY DEF WriteFails, PollHangup, Timeout, Waits, Closing
<1>2. EvalTyped' /\ Cap'
    BY <1>1 DEF IInv, Typed, EvalTyped, Cap, eval
<1>3. ncmd' >= ncmd
    BY <1>1, SessionsAssumption DEF IInv, Typed, EvalTyped
<1>4. cur \in Active
    BY <1>1 DEF IInv, Table
<1>5. \E r \in Kinds : session_close(cur, r)
    BY DEF WriteFails, PollHangup, Timeout, Kinds
<1> QED BY <1>1, <1>2, <1>3, <1>4, <1>5, CloseOK

LEMMA Reap1OK == ASSUME IInv, Reap1 PROVE IInv'
<1>1. Closing /\ cur \in Active /\ cur \in Ids
    BY ActiveIs, UsedIs DEF Reap1, Closing, IInv, Typed, TableTyped, Table
<1>2. CASE Reaped(AfterClose)
    BY <1>1, <1>2, ReapedOK DEF Reap1
<1>3. CASE /\ Alive(cur) /\ child' = [child EXCEPT ![cur].st = "zombie"]
           /\ pc' = "reap2" /\ UNCHANGED <<slots, cur, why, reply>>
    BY <1>1, <1>3, EndsOK DEF Reap1, Alive, Child, IInv, Typed, TableTyped
<1>4. CASE pc' = "reap2" /\ UNCHANGED <<child, slots, cur, why, reply>>
    <2>1. Turn' /\ todrain' \subseteq Streams
        BY <1>4, ToDrain DEF Reap1, Turn, eval
    <2> QED BY <1>4, <2>1, PcOK DEF Reap1, Waits, Closing, ControlPoints, shells, eval
<1> QED BY <1>2, <1>3, <1>4 DEF Reap1

LEMMA Reap2OK == ASSUME IInv, Reap2 PROVE IInv'
BY ReapedOK DEF Reap2, Closing

LEMMA CleanupOK == ASSUME IInv, session_cleanup PROVE IInv'
<1> DEFINE S == {l \in 1 .. MAX_SESSIONS : slots[l] # 0}
           k == FirstSlot(S)
<1>1. /\ pc = "cleanup" /\ ~Waits /\ ~Closing
      /\ UNCHANGED <<slots, next_session_id, shells, pipes, eval, reply, ncmd, cut>>
    BY DEF session_cleanup, Waits, Closing
<1>2. CASE k = 0
    <2>1. pc' = "exited" /\ UNCHANGED <<cur, why, open>>
        BY <1>2 DEF session_cleanup
    <2>2. Turn' /\ todrain' \subseteq Streams
        BY <1>1, <2>1, ToDrain DEF Turn, eval
    <2> QED BY <1>1, <2>1, <2>2, PcOK DEF Waits, Closing, ControlPoints, eval
<1>3. CASE k # 0
    <2>1. session_close(slots[k], "cleanup")
        BY <1>3 DEF session_cleanup
    <2>2. k \in 1 .. MAX_SESSIONS /\ slots[k] # 0
        BY <1>3, FirstSlotIs
    <2>3. slots[k] \in Active
        BY <2>2 DEF Active
    <2>4. EvalTyped' /\ Cap'
        BY <1>1 DEF IInv, Typed, EvalTyped, Cap, eval
    <2>5. ncmd' >= ncmd
        BY <1>1, SessionsAssumption DEF IInv, Typed, EvalTyped
    <2> HIDE DEF k
    <2> QED BY <1>1, <2>1, <2>3, <2>4, <2>5, CloseOK DEF Kinds
<1> QED BY <1>2, <1>3

LEMMA ServerDiesOK == ASSUME IInv, ServerDies PROVE IInv'
<1>1. /\ pc' = "exited" /\ open' = {} /\ cur' = 0 /\ why' = "none" /\ ~Waits' /\ ~Closing'
      /\ UNCHANGED <<next_session_id, shells, pipes, eval, reply, ncmd, cut>>
    BY DEF ServerDies, Waits, Closing
<1>2. /\ slots' \in [1 .. MAX_SESSIONS -> 0 .. MaxCreate]
      /\ \A k \in 1 .. MAX_SESSIONS : slots'[k] = 0
    BY SessionsAssumption DEF ServerDies, IInv, Typed, TableTyped
<1>3. \A i \in Ids : i \notin Active'
    BY <1>2, SessionsAssumption DEF Active, Ids
<1>4. Typed'
    BY <1>1, <1>2, SessionsAssumption
    DEF IInv, Typed, TableTyped, ShellsTyped, PipesTyped, EvalTyped, shells, pipes, eval, ControlPoints, Kinds
<1>5. Table'
    BY <1>1, <1>2, <1>3 DEF Table
<1>6. Fresh' /\ Past' /\ Cap'
    BY <1>1 DEF IInv, Fresh, Past, Cap, shells, pipes, eval
<1>7. Quiet' /\ Asked' /\ Own' /\ Kept' /\ Turn'
    BY <1>1 DEF Quiet, Asked, Own, Kept, Turn
<1>8. Replied'
    <2>1. UNCHANGED <<child, cmdq, reply, cut>>
        BY <1>1 DEF shells, pipes
    <2> QED BY <1>1, <2>1, RepliedSame DEF IInv, Typed, EvalTyped
<1> QED BY <1>4, <1>5, <1>6, <1>7, <1>8 DEF IInv

-----------------------------------------------------------------------------
(* Counting chunks.                                                        *)

Places(n, s) == {k \in DOMAIN s : s[k] = n}

LEMMA PlacesFinite ==
    ASSUME NEW n, NEW s \in Seq(Chunks)
    PROVE  IsFiniteSet(Places(n, s)) /\ Count(n, s) = Cardinality(Places(n, s)) /\ Count(n, s) \in Nat
<1>1. Len(s) \in Nat /\ DOMAIN s = 1 .. Len(s)
    OBVIOUS
<1>2. IsFiniteSet(1 .. Len(s))
    BY <1>1, FS_Interval
<1>3. Places(n, s) \in SUBSET (1 .. Len(s))
    BY <1>1 DEF Places
<1>4. IsFiniteSet(Places(n, s))
    BY <1>2, <1>3, FS_Subset
<1> QED BY <1>4, FS_CardinalityType DEF Count, Places

(* One more chunk counts if it is of the command.                          *)
LEMMA CountAppend ==
    ASSUME NEW n, NEW s \in Seq(Chunks), NEW c \in Chunks
    PROVE  Count(n, Append(s, c)) = Count(n, s) + (IF c = n THEN 1 ELSE 0)
<1> DEFINE t == Append(s, c)
<1>1. /\ t \in Seq(Chunks) /\ Len(s) \in Nat /\ DOMAIN s = 1 .. Len(s) /\ DOMAIN t = 1 .. Len(s) + 1
      /\ t[Len(s) + 1] = c /\ \A k \in 1 .. Len(s) : t[k] = s[k]
    OBVIOUS
<1> HIDE DEF t
<1>2. CASE c = n
    <2>1. Places(n, t) = Places(n, s) \cup {Len(s) + 1}
        BY <1>1, <1>2 DEF Places
    <2>2. Len(s) + 1 \notin Places(n, s)
        BY <1>1 DEF Places
    <2>3. Cardinality(Places(n, t)) = Cardinality(Places(n, s)) + 1
        BY <2>1, <2>2, FS_AddElement, PlacesFinite
    <2> QED BY <1>1, <1>2, <2>3, PlacesFinite DEF t
<1>3. CASE c # n
    <2>1. Places(n, t) = Places(n, s)
        BY <1>1, <1>3 DEF Places
    <2>2. Count(n, t) = Count(n, s) /\ Count(n, s) \in Nat
        BY <1>1, <2>1, PlacesFinite
    <2> QED BY <1>3, <2>2 DEF t
<1> QED BY <1>2, <1>3

(* A chunk that moves from the front of one output to the back of another  *)
(* is counted in one of them before and after.                             *)
LEMMA CountTail ==
    ASSUME NEW n, NEW s \in Seq(Chunks), s # <<>>
    PROVE  /\ Head(s) \in Chunks /\ Tail(s) \in Seq(Chunks) /\ Len(Tail(s)) = Len(s) - 1
           /\ \A k \in DOMAIN Tail(s) : k + 1 \in DOMAIN s /\ Tail(s)[k] = s[k + 1]
           /\ Count(n, s) = Count(n, Tail(s)) + (IF Head(s) = n THEN 1 ELSE 0)
<1> DEFINE t == Tail(s)
           f == [k \in Places(n, t) |-> k + 1]
           B == Places(n, s) \ {1}
<1>1. /\ t \in Seq(Chunks) /\ Len(s) \in Nat \ {0} /\ Len(t) = Len(s) - 1
      /\ DOMAIN s = 1 .. Len(s) /\ DOMAIN t = 1 .. Len(s) - 1
      /\ Head(s) = s[1] /\ Head(s) \in Chunks
      /\ \A k \in 1 .. Len(s) - 1 : t[k] = s[k + 1]
    OBVIOUS
<1> HIDE DEF t
<1>2. f \in Bijection(Places(n, t), B)
    <2>1. f \in [Places(n, t) -> B]
        BY <1>1 DEF Places
    <2>2. \A a, b \in Places(n, t) : f[a] = f[b] => a = b
        BY <1>1 DEF Places
    <2>3. \A k \in B : \E a \in Places(n, t) : f[a] = k
        <3> SUFFICES ASSUME NEW k \in B PROVE k - 1 \in Places(n, t) /\ f[k - 1] = k
            OBVIOUS
        <3>1. k \in 1 .. Len(s) /\ k # 1 /\ s[k] = n
            BY <1>1 DEF Places
        <3>2. k - 1 \in 1 .. Len(s) - 1 /\ (k - 1) + 1 = k
            BY <1>1, <3>1
        <3> QED BY <1>1, <3>1, <3>2 DEF Places
    <2> HIDE DEF f, B
    <2> QED BY <2>1, <2>2, <2>3, Fun_IsBij
<1>3. IsFiniteSet(B) /\ Cardinality(B) = Cardinality(Places(n, t)) /\ Cardinality(B) \in Nat
    <2>1. ExistsBijection(Places(n, t), B)
        BY <1>2 DEF ExistsBijection
    <2> QED BY <1>1, <2>1, FS_Bijection, FS_CardinalityType, PlacesFinite
<1> HIDE DEF B
<1>4. CASE Head(s) = n
    <2>1. Places(n, s) = B \cup {1} /\ 1 \notin B
        BY <1>1, <1>4 DEF Places, B
    <2>2. Cardinality(Places(n, s)) = Cardinality(B) + 1
        BY <1>3, <2>1, FS_AddElement
    <2>3. Count(n, s) = Count(n, t) + 1
        BY <1>1, <1>3, <2>2, PlacesFinite
    <2> QED BY <1>1, <1>4, <2>3 DEF t
<1>5. CASE Head(s) # n
    <2>1. Places(n, s) = B
        BY <1>1, <1>5 DEF Places, B
    <2>2. Count(n, s) = Count(n, t) /\ Count(n, t) \in Nat
        BY <1>1, <1>3, <2>1, PlacesFinite
    <2> QED BY <1>1, <1>5, <2>2 DEF t
<1> QED BY <1>4, <1>5

-----------------------------------------------------------------------------
(* Output on its way.                                                      *)

(* A write adds the chunk to one pipe, or fails; not while the server has  *)
(* the other end.                                                          *)
LEMMA WriteIs ==
    ASSUME PipesTyped, NEW i \in Ids, NEW x \in Streams, NEW c \in Chunks, Write(i, x, c)
    PROVE  /\ pipe' \in [Ids -> Outputs]
           /\ \A j \in Ids : \A y \in Streams : Len(pipe'[j][y]) <= PIPE_SIZE
           /\ \A j \in Ids : j # i => pipe'[j] = pipe[j]
           /\ \A y \in Streams : y # x => pipe'[i][y] = pipe[i][y]
           /\ pipe'[i][x] \in {pipe[i][x], Append(pipe[i][x], c)}
           /\ i \in open => pipe'[i][x] = Append(pipe[i][x], c)
<1>1. pipe \in [Ids -> Outputs] /\ \A j \in Ids : \A y \in Streams : Len(pipe[j][y]) <= PIPE_SIZE
    BY DEF PipesTyped
<1>2. CASE ~ServerEnd(i)
    BY <1>1, <1>2 DEF Write, ServerEnd
<1>3. CASE ServerEnd(i)
    <2> DEFINE p == [pipe[i] EXCEPT ![x] = Append(pipe[i][x], c)]
    <2>1. Len(pipe[i][x]) < PIPE_SIZE /\ pipe' = [pipe EXCEPT ![i] = p]
        BY <1>3 DEF Write
    <2>2. /\ pipe[i] \in [Streams -> Seq(Chunks)] /\ Append(pipe[i][x], c) \in Seq(Chunks)
          /\ Len(Append(pipe[i][x], c)) = Len(pipe[i][x]) + 1 /\ Len(pipe[i][x]) \in Nat
        BY <1>1 DEF Outputs
    <2>3. /\ p \in Outputs /\ p[x] = Append(pipe[i][x], c)
          /\ \A y \in Streams : y # x => p[y] = pipe[i][y]
        BY <2>2 DEF Outputs
    <2>4. \A y \in Streams : Len(p[y]) <= PIPE_SIZE
        BY <1>1, <2>1, <2>2, <2>3, SessionsAssumption
    <2> HIDE DEF p
    <2>5. pipe'[i] = p /\ \A j \in Ids : j # i => pipe'[j] = pipe[j]
        BY <1>1, <2>1
    <2>6. pipe' \in [Ids -> Outputs]
        BY <1>1, <2>1, <2>3
    <2>7. \A j \in Ids : \A y \in Streams : Len(pipe'[j][y]) <= PIPE_SIZE
        BY <1>1, <2>4, <2>5
    <2> QED BY <2>3, <2>5, <2>6, <2>7
<1> QED BY <1>2, <1>3

(* A chunk of output is written that is of the command under way, if the   *)
(* server waits for it, or of a background process.  What the shells did   *)
(* and have to do may change with it, nothing else.                        *)
LEMMA OutputOK ==
    ASSUME IInv, NEW i \in Ids, NEW x \in Streams, NEW c \in Chunks, Write(i, x, c), c <= ncmd,
           i \in open => c < 0 \/ (Waits /\ i = cur /\ Running /\ c = ncmd),
           child' \in [Ids -> Shell],
           \A j \in Ids : child'[j].st = child[j].st /\ child'[j].cmd = child[j].cmd,
           \A j \in Ids : j # i => child'[j] = child[j],
           child[i].st # "busy" => child'[i] = child[i], ~(i >= next_session_id),
           \A y \in Streams : child'[i].wrote[y] =
               child[i].wrote[y] + (IF y = x /\ c > 0 THEN 1 ELSE 0),
           UNCHANGED <<holds, bg, cmdq, ctl, server>>
    PROVE  IInv'
<1> USE DEF server, eval
<1>1. /\ pipe' \in [Ids -> Outputs]
      /\ \A j \in Ids : \A y \in Streams : Len(pipe'[j][y]) <= PIPE_SIZE
      /\ \A j \in Ids : j # i => pipe'[j] = pipe[j]
      /\ \A y \in Streams : y # x => pipe'[i][y] = pipe[i][y]
      /\ pipe'[i][x] \in {pipe[i][x], Append(pipe[i][x], c)}
      /\ i \in open => pipe'[i][x] = Append(pipe[i][x], c)
    BY WriteIs DEF IInv, Typed
<1>2. Waits' = Waits /\ Closing' = Closing /\ Active' = Active
    BY ActiveIs DEF Waits, Closing
<1>3. pipe[i][x] \in Seq(Chunks) /\ c \in Int
    BY SessionsAssumption DEF IInv, Typed, PipesTyped, Outputs, Chunks
<1>4. /\ DOMAIN Append(pipe[i][x], c) = 1 .. Len(pipe[i][x]) + 1
      /\ DOMAIN pipe[i][x] = 1 .. Len(pipe[i][x]) /\ Len(pipe[i][x]) \in Nat
      /\ Append(pipe[i][x], c)[Len(pipe[i][x]) + 1] = c
      /\ \A k \in 1 .. Len(pipe[i][x]) : Append(pipe[i][x], c)[k] = pipe[i][x][k]
    BY <1>3
<1>5. \A k \in DOMAIN pipe'[i][x] :
          (k \in DOMAIN pipe[i][x] /\ pipe'[i][x][k] = pipe[i][x][k]) \/ pipe'[i][x][k] = c
    <2>1. CASE pipe'[i][x] = pipe[i][x]
        BY <2>1
    <2>2. CASE pipe'[i][x] = Append(pipe[i][x], c)
        BY <2>2, <1>4
    <2> QED BY <1>1, <2>1, <2>2
<1>6. Typed'
    BY <1>1 DEF IInv, Typed, TableTyped, ShellsTyped, PipesTyped, EvalTyped
<1>7. Table'
    BY <1>2 DEF IInv, Table, Child
<1>8. Fresh'
    BY <1>1 DEF IInv, Fresh
<1>9. Past'
    <2> SUFFICES ASSUME NEW j \in Ids, NEW y \in Streams, NEW k \in DOMAIN pipe'[j][y]
                 PROVE  pipe'[j][y][k] <= ncmd
        BY DEF IInv, Past
    <2>1. CASE j = i /\ y = x
        BY <2>1, <1>5 DEF IInv, Past
    <2>2. CASE ~(j = i /\ y = x)
        BY <2>2, <1>1 DEF IInv, Past
    <2> QED BY <2>1, <2>2
<1>10. Quiet' /\ Cap'
    BY <1>2 DEF IInv, Quiet, Rests, Cap, Typed, TableTyped
<1>11. Waits => cur \in Ids /\ cur \in open /\ ncmd > 0 /\ ncmd \in Nat
    BY ActiveIs, UsedIs, SessionsAssumption
    DEF IInv, Typed, TableTyped, EvalTyped, Table, Asked, Waits, Closing
<1>12. Waits => /\ Sent' <=> Sent
                /\ Running' <=> Running
                /\ Finished' <=> Finished
                /\ Lost' <=> Lost
    BY <1>11 DEF Sent, Running, Finished, Lost, NoStatus, HasStatus
<1>13. Asked'
    BY <1>2, <1>12 DEF IInv, Asked
<1>14. Own'
    <2> DEFINE n(j) == IF Waits /\ j = cur THEN ncmd ELSE -1
    <2>1. ASSUME NEW j \in open, j \notin cut, NEW y \in Streams
          PROVE  Only(n(j), pipe'[j][y])
        <3>1. Only(n(j), pipe[j][y])
            BY <2>1 DEF IInv, Own
        <3>2. j \in Ids
            BY DEF IInv, Typed, TableTyped
        <3>3. CASE j = i /\ y = x
            BY <2>1, <3>1, <3>3, <1>5 DEF Only
        <3>4. CASE ~(j = i /\ y = x)
            BY <3>1, <3>2, <3>4, <1>1
        <3> QED BY <3>3, <3>4
    <2> QED BY <1>2, <2>1 DEF IInv, Own
<1>15. Kept'
    <2> SUFFICES ASSUME Waits, NEW y \in Streams, total[y] < MAX_OUTPUT_SIZE
                 PROVE  /\ Sent => Seen(y)' = 0
                        /\ Running \/ Finished => Seen(y)' = child'[cur].wrote[y]
        BY <1>2, <1>12 DEF Kept
    <2>1. /\ Sent => Seen(y) = 0
          /\ Running \/ Finished => Seen(y) = child[cur].wrote[y]
        BY DEF IInv, Kept
    <2>2. CASE ~(cur = i /\ y = x)
        <3>1. pipe'[cur][y] = pipe[cur][y]
            BY <2>2, <1>1, <1>11
        <3>2. child'[cur].wrote[y] = child[cur].wrote[y]
            <4>1. child[cur].wrote[y] \in Nat
                BY <1>11 DEF IInv, Typed, ShellsTyped, Shell, Counts
            <4> QED BY <2>2, <1>11, <4>1
        <3> QED BY <2>1, <3>1, <3>2 DEF Seen
    <2>3. CASE cur = i /\ y = x
        <3>1. pipe'[cur][y] = Append(pipe[cur][y], c)
            BY <2>3, <1>1, <1>11
        <3>2. Count(ncmd, pipe'[cur][y]) = Count(ncmd, pipe[cur][y]) + (IF c = ncmd THEN 1 ELSE 0)
            BY <2>3, <3>1, <1>3, CountAppend
        <3>3. /\ Count(ncmd, buf[y]) \in Nat /\ Count(ncmd, pipe[cur][y]) \in Nat
              /\ child[cur].wrote[y] \in Nat
            <4>1. buf[y] \in Seq(Chunks) /\ pipe[cur][y] \in Seq(Chunks)
                BY <1>11 DEF IInv, Typed, PipesTyped, EvalTyped, Outputs
            <4>2. child[cur].wrote[y] \in Nat
                BY <1>11 DEF IInv, Typed, ShellsTyped, Shell, Counts
            <4> QED BY <4>1, <4>2, PlacesFinite
        <3>4. (c > 0 <=> c = ncmd) /\ (c = ncmd => Running)
            BY <2>3, <1>3, <1>11
        <3>5. ~(Sent /\ Running)
            BY <1>11 DEF Sent, Running
        <3>6. CASE c = ncmd
            BY <2>1, <2>3, <3>2, <3>3, <3>4, <3>5, <3>6 DEF Seen
        <3>7. CASE c # ncmd
            BY <2>1, <2>3, <3>2, <3>3, <3>4, <3>7 DEF Seen
        <3> QED BY <3>6, <3>7
    <2> QED BY <2>2, <2>3
<1>16. Replied'
    <2>1. CASE Waits
        BY <2>1 DEF IInv, Replied
    <2>2. CASE ~Waits
        BY <2>2, <1>2, RepliedSame DEF IInv, Typed, EvalTyped
    <2> QED BY <2>1, <2>2
<1>17. Turn'
    <2> SUFFICES ASSUME pc = "drain", status # 0, NEW y \in Streams \ todrain,
                        total[y] < MAX_OUTPUT_SIZE
                 PROVE  Only(-1, pipe'[cur][y])
        BY DEF IInv, Turn
    <2>1. Only(-1, pipe[cur][y])
        BY DEF IInv, Turn
    <2>2. cur \in Ids /\ cur \in open /\ ~Running
        BY <1>11 DEF Waits, Running, NoStatus
    <2>3. CASE i = cur /\ y = x
        BY <2>1, <2>2, <2>3, <1>5 DEF Only
    <2>4. CASE ~(i = cur /\ y = x)
        <3>1. pipe'[cur][y] = pipe[cur][y]
            BY <2>2, <2>4, <1>1
        <3> QED BY <2>1, <3>1
    <2> QED BY <2>3, <2>4
<1> QED BY <1>6, <1>7, <1>8, <1>9, <1>10, <1>13, <1>14, <1>15, <1>16, <1>17 DEF IInv

-----------------------------------------------------------------------------
(* The shells.                                                             *)

(* A shell at work is that of the command which the server waits for, or   *)
(* its session is closed.                                                  *)
LEMMA BusyIs ==
    ASSUME IInv, NEW i \in Ids, child[i].st = "busy"
    PROVE  /\ ~(i >= next_session_id)
           /\ child[i].cmd \in 1 .. MaxCmd /\ child[i].cmd <= ncmd /\ ncmd \in Nat
           /\ i \in open => Waits /\ i = cur /\ Running /\ child[i].cmd = ncmd
<1>1. ~(i >= next_session_id)
    BY DEF IInv, Fresh
<1>2. child[i].cmd \in 1 .. MaxCmd /\ child[i].cmd <= ncmd /\ ncmd \in Nat
    BY SessionsAssumption DEF IInv, Past, Typed, ShellsTyped, EvalTyped, Shell
<1>3. ASSUME i \in open PROVE Waits /\ i = cur /\ Running /\ child[i].cmd = ncmd
    <2>1. Waits /\ i = cur
        BY <1>3 DEF IInv, Quiet, Rests
    <2> QED BY <2>1 DEF IInv, Asked, Sent, Running, Finished, Lost
<1> QED BY <1>1, <1>2, <1>3

LEMMA ChildWriteOK == ASSUME IInv, NEW i \in Ids, NEW x \in Streams, ChildWrite(i, x) PROVE IInv'
<1> DEFINE c == child[i].cmd
           r == [child[i] EXCEPT !.todo = [child[i].todo EXCEPT ![x] = @ - 1],
                                 !.wrote = [child[i].wrote EXCEPT ![x] = @ + 1]]
<1>1. child[i].st = "busy" /\ child[i].todo[x] > 0 /\ Write(i, x, c) /\ UNCHANGED <<holds, bg, cmdq, ctl, server>>
    BY DEF ChildWrite, Runs
<1>2. child' = [child EXCEPT ![i] = r]
    BY DEF ChildWrite
<1>3. child \in [Ids -> Shell]
    BY DEF IInv, Typed, ShellsTyped
<1>4. child[i] \in Shell /\ child[i].todo \in [Streams -> Nat] /\ child[i].wrote \in [Streams -> Nat]
    BY <1>3 DEF Shell, Counts
<1>5. /\ [child[i].todo EXCEPT ![x] = @ - 1] \in Counts
      /\ [child[i].wrote EXCEPT ![x] = @ + 1] \in Counts
      /\ \A y \in Streams : [child[i].wrote EXCEPT ![x] = @ + 1][y] = child[i].wrote[y] + (IF y = x THEN 1 ELSE 0)
    BY <1>1, <1>4 DEF Counts
<1>6. /\ r \in Shell /\ r.st = child[i].st /\ r.cmd = child[i].cmd
      /\ r.wrote = [child[i].wrote EXCEPT ![x] = @ + 1]
    BY <1>4, <1>5 DEF Shell
<1> HIDE DEF r
<1>7. /\ child' \in [Ids -> Shell] /\ child'[i] = r /\ \A j \in Ids : j # i => child'[j] = child[j]
    BY <1>2, <1>3, <1>6
<1>8. /\ ~(i >= next_session_id) /\ c \in 1 .. MaxCmd /\ c <= ncmd
      /\ i \in open => Waits /\ i = cur /\ Running /\ c = ncmd
    BY <1>1, BusyIs
<1>9. c \in Chunks /\ c > 0
    BY <1>8, SessionsAssumption DEF Chunks
<1>10. \A j \in Ids : child'[j].st = child[j].st /\ child'[j].cmd = child[j].cmd
    BY <1>6, <1>7
<1>11. \A y \in Streams : child'[i].wrote[y] = child[i].wrote[y] + (IF y = x /\ c > 0 THEN 1 ELSE 0)
    BY <1>5, <1>6, <1>7, <1>9
<1> HIDE DEF c
<1> QED BY <1>1, <1>7, <1>8, <1>9, <1>10, <1>11, OutputOK

LEMMA BackgroundWriteOK == ASSUME IInv, NEW i \in Ids, NEW x \in Streams, BackgroundWrite(i, x) PROVE IInv'
<1> DEFINE c == -bg[i]
<1>1. bg[i] # 0 /\ Write(i, x, c) /\ UNCHANGED <<child, holds, bg, cmdq, ctl, server>>
    BY DEF BackgroundWrite, shells
<1>2. bg[i] \in 0 .. MaxCmd /\ ncmd \in Nat /\ child \in [Ids -> Shell]
    BY SessionsAssumption DEF IInv, Typed, ShellsTyped, EvalTyped
<1>3. c \in Chunks /\ c < 0 /\ c <= ncmd /\ ~(c > 0)
    BY <1>1, <1>2, SessionsAssumption DEF Chunks
<1>4. ~(i >= next_session_id)
    BY <1>1 DEF IInv, Fresh
<1>5. \A y \in Streams : child'[i].wrote[y] = child[i].wrote[y] + (IF y = x /\ c > 0 THEN 1 ELSE 0)
    <2>1. \A y \in Streams : child[i].wrote[y] \in Nat
        BY <1>2 DEF Shell, Counts
    <2> QED BY <1>1, <1>3, <2>1
<1> HIDE DEF c
<1> QED BY <1>1, <1>2, <1>3, <1>4, <1>5, OutputOK

(* The process that a command started begins or ends.                      *)
LEMMA ProcessOK ==
    ASSUME IInv, NEW i \in Ids, NEW n \in 0 .. MaxCmd, n <= ncmd, n # 0 => ~(i >= next_session_id),
           bg' = [bg EXCEPT ![i] = n], UNCHANGED <<child, holds, pipes, server>>
    PROVE  IInv'
<1> USE DEF server, eval, pipes
<1>2. bg' \in [Ids -> 0 .. MaxCmd] /\ bg'[i] = n /\ \A j \in Ids : j # i => bg'[j] = bg[j]
    BY DEF IInv, Typed, ShellsTyped
<1>3. Waits' = Waits /\ Closing' = Closing /\ Active' = Active
    BY ActiveIs DEF Waits, Closing
<1>4. Typed'
    BY <1>2 DEF IInv, Typed, TableTyped, ShellsTyped, PipesTyped, EvalTyped
<1>5. Table'
    BY <1>3 DEF IInv, Table, Child
<1>6. Fresh'
    BY <1>2 DEF IInv, Fresh
<1>7. Past'
    BY <1>2 DEF IInv, Past
<1>8. Quiet' /\ Cap' /\ Turn'
    BY <1>3 DEF IInv, Quiet, Rests, Cap, Turn
<1>9. Own'
    BY <1>3 DEF IInv, Own
<1>10. Asked' /\ Kept'
    BY <1>3 DEF IInv, Asked, Kept, Sent, Running, Finished, Lost, NoStatus, HasStatus, Seen
<1>11. Replied'
    BY <1>3 DEF IInv, Replied, OwnStatus, CompleteOutput, NoLateOutput
<1> QED BY <1>4, <1>5, <1>6, <1>7, <1>8, <1>9, <1>10, <1>11 DEF IInv

LEMMA BackgroundExitOK == ASSUME IInv, NEW i \in Ids, BackgroundExit(i) PROVE IInv'
<1>1. 0 \in 0 .. MaxCmd /\ 0 <= ncmd
    BY SessionsAssumption DEF IInv, Typed, EvalTyped
<1> QED BY <1>1, ProcessOK DEF BackgroundExit

LEMMA ChildStartsOK == ASSUME IInv, NEW i \in Ids, ChildStarts(i) PROVE IInv'
<1>1. child[i].st = "busy"
    BY DEF ChildStarts, Runs
<1>2. child[i].cmd \in 0 .. MaxCmd /\ child[i].cmd <= ncmd /\ ~(i >= next_session_id)
    BY <1>1, BusyIs
<1> QED BY <1>2, ProcessOK DEF ChildStarts

LEMMA ChildEndsOK == ASSUME IInv, NEW i \in Ids, ChildEof(i) \/ ChildDies(i) PROVE IInv'
<1>1. /\ Child(i) /\ child' = [child EXCEPT ![i].st = "zombie"] /\ UNCHANGED <<holds, bg, pipes, server>>
    BY DEF ChildEof, ChildDies, Runs, Alive, Child
<1>2. why \in Kinds
    BY DEF IInv, Typed, TableTyped
<1> QED BY <1>1, <1>2, EndsOK DEF server

(* A shell starts a command: the one that the server waits for, or one     *)
(* that nobody waits for any more.                                         *)
LEMMA CommandOK ==
    ASSUME IInv, NEW i \in Ids, child[i].st = "idle", cmdq[i] # NoCmd, NEW todo \in [Streams -> 0 .. MaxOut],
           child' = [child EXCEPT ![i] = [@ EXCEPT !.st = "busy", !.cmd = cmdq[i].n,
                                                   !.todo = todo, !.wrote = Zero]],
           cmdq' = [cmdq EXCEPT ![i] = NoCmd],
           UNCHANGED <<holds, bg, ctl, pipe, server>>
    PROVE  IInv'
<1> USE DEF server, eval
<1> DEFINE r == [child[i] EXCEPT !.st = "busy", !.cmd = cmdq[i].n, !.todo = todo, !.wrote = Zero]
<1>1. child \in [Ids -> Shell] /\ cmdq \in [Ids -> Command]
    BY DEF IInv, Typed, ShellsTyped, PipesTyped
<1>2. todo \in Counts /\ Zero \in Counts
    BY SessionsAssumption, Plain DEF Counts
<1>3. r \in Shell /\ r.st = "busy" /\ r.cmd = cmdq[i].n /\ r.wrote = Zero
    BY <1>1, <1>2 DEF Shell, Command
<1>4. child' = [child EXCEPT ![i] = r]
    OBVIOUS
<1> HIDE DEF r
<1>5. child' \in [Ids -> Shell] /\ child'[i] = r /\ \A j \in Ids : j # i => child'[j] = child[j]
    BY ONLY <1>1, <1>3, <1>4, i \in Ids
<1>6. /\ cmdq' \in [Ids -> Command] /\ cmdq'[i] = NoCmd
      /\ \A j \in Ids : j # i => cmdq'[j] = cmdq[j]
    <2>1. NoCmd \in Command
        BY SessionsAssumption DEF NoCmd, Command
    <2> QED BY <1>1, <2>1
<1>7. Waits' = Waits /\ Closing' = Closing /\ Active' = Active
    BY ActiveIs DEF Waits, Closing
<1>8. i \in open => Waits /\ i = cur /\ Sent
    <2>1. i \in open => Waits /\ i = cur
        BY DEF IInv, Quiet, Rests
    <2> QED BY <2>1 DEF IInv, Asked, Running, Finished, Lost
<1>9. Waits => cur \in open /\ cur \in Ids /\ ncmd > 0
    BY ActiveIs, UsedIs DEF IInv, Typed, TableTyped, Table, Asked, Waits, Closing
<1>10. Typed'
    BY <1>5, <1>6 DEF IInv, Typed, TableTyped, ShellsTyped, PipesTyped, EvalTyped
<1>11. Table'
    BY <1>3, <1>5, <1>7 DEF IInv, Table, Child
<1>12. Fresh'
    <2>1. ~(i >= next_session_id)
        BY DEF IInv, Fresh
    <2> QED BY <2>1, <1>5, <1>6 DEF IInv, Fresh
<1>13. Past'
    <2>1. cmdq[i].n <= ncmd /\ cmdq[i].n > 0
        BY DEF IInv, Past
    <2>2. NoCmd.n <= ncmd
        BY SessionsAssumption DEF NoCmd, IInv, Typed, EvalTyped
    <2> QED BY <1>3, <1>5, <1>6, <2>1, <2>2 DEF IInv, Past
<1>14. Quiet' /\ Cap' /\ Turn'
    BY <1>5, <1>6, <1>7, <1>8 DEF IInv, Quiet, Rests, Cap, Turn, Typed, TableTyped
<1>15. Own'
    BY <1>7 DEF IInv, Own
<1>16. Replied'
    <2>1. CASE Waits
        BY <2>1, <1>7 DEF IInv, Replied
    <2>2. CASE ~Waits
        <3>1. \A j \in Ids : child[j].st # "busy" /\ cmdq[j] = NoCmd =>
                  child'[j].st # "busy" /\ cmdq'[j] = NoCmd /\ child'[j].wrote = child[j].wrote
            BY <1>5, <1>6
        <3> QED BY <2>2, <3>1, <1>7, RepliedSame DEF IInv, Typed, EvalTyped
    <2> QED BY <2>1, <2>2
<1>17. CASE i # cur
    <2>1. Waits => child'[cur] = child[cur] /\ cmdq'[cur] = cmdq[cur]
        BY <1>5, <1>6, <1>9, <1>17
    <2>2. Asked' /\ Kept'
        BY <2>1, <1>7 DEF IInv, Asked, Kept, Sent, Running, Finished, Lost, NoStatus, HasStatus, Seen
    <2> QED BY <2>2, <1>7, <1>10, <1>11, <1>12, <1>13, <1>14, <1>15, <1>16 DEF IInv
<1>18. CASE i = cur
    <2>1. Waits => Running' /\ Sent
        BY <1>3, <1>5, <1>6, <1>8, <1>9, <1>18 DEF Running, Sent, NoStatus
    <2>2. Asked'
        BY <2>1, <1>7, <1>9 DEF Asked
    <2>3. Kept'
        <3> SUFFICES ASSUME Waits, NEW y \in Streams, total[y] < MAX_OUTPUT_SIZE
                     PROVE  ~Sent' /\ Seen(y)' = child'[cur].wrote[y]
            BY <1>7 DEF Kept
        <3>1. Seen(y) = 0 /\ Seen(y)' = Seen(y)
            BY <2>1 DEF IInv, Kept, Seen
        <3>2. child'[cur].wrote[y] = 0
            BY <1>3, <1>5, <1>18 DEF Zero
        <3>3. ~Sent'
            BY <2>1 DEF Running, Sent
        <3> QED BY <3>1, <3>2, <3>3
    <2> QED BY <2>2, <2>3, <1>7, <1>10, <1>11, <1>12, <1>13, <1>14, <1>15, <1>16 DEF IInv
<1> QED BY <1>17, <1>18

LEMMA ChildReadOK == ASSUME IInv, NEW i \in Ids, ChildRead(i) PROVE IInv'
<1>1. child[i].st = "idle" /\ cmdq[i] # NoCmd /\ UNCHANGED <<holds, bg, ctl, pipe, server>>
    BY DEF ChildRead, Runs
<1>2. CASE child' = [child EXCEPT ![i].st = "zombie"] /\ UNCHANGED cmdq
    <2>1. Child(i) /\ why \in Kinds
        BY <1>1 DEF Child, IInv, Typed, TableTyped
    <2> QED BY <1>1, <1>2, <2>1, EndsOK DEF server, pipes
<1>3. CASE /\ \E todo \in [Streams -> 0 .. MaxOut] :
                  child' = [child EXCEPT ![i] = [@ EXCEPT !.st = "busy", !.cmd = cmdq[i].n,
                                                          !.todo = todo, !.wrote = Zero]]
           /\ cmdq' = [cmdq EXCEPT ![i] = NoCmd]
    BY <1>1, <1>3, CommandOK
<1> QED BY <1>2, <1>3 DEF ChildRead

LEMMA ChildFinishOK == ASSUME IInv, NEW i \in Ids, ChildFinish(i) PROVE IInv'
<1> USE DEF server, eval
<1>1. child[i].st = "busy" /\ UNCHANGED <<holds, bg, cmdq, pipe, server>>
    BY DEF ChildFinish, Runs
<1>3. CASE child' = [child EXCEPT ![i].st = "zombie"] /\ UNCHANGED ctl
    <2>1. Child(i) /\ why \in Kinds
        BY <1>1 DEF Child, IInv, Typed, TableTyped
    <2> QED BY <1>1, <1>3, <2>1, EndsOK DEF pipes
<1>4. CASE ctl' = [ctl EXCEPT ![i] = Append(@, child[i].cmd)] /\ child' = [child EXCEPT ![i].st = "idle"]
    <2>1. /\ ~(i >= next_session_id)
          /\ child[i].cmd \in 1 .. MaxCmd /\ child[i].cmd <= ncmd /\ ncmd \in Nat
          /\ i \in open => Waits /\ i = cur /\ Running /\ child[i].cmd = ncmd
        BY <1>1, BusyIs
    <2>2. /\ child' \in [Ids -> Shell] /\ child'[i].st = "idle"
          /\ \A j \in Ids : j # i => child'[j] = child[j]
          /\ \A j \in Ids : child'[j].wrote = child[j].wrote /\ child'[j].cmd = child[j].cmd
        <3>1. child' = With(child, i, "idle")
            BY <1>4 DEF With
        <3>2. child \in [Ids -> Shell]
            BY DEF IInv, Typed, ShellsTyped
        <3> QED BY ONLY <3>1, <3>2, i \in Ids, StateOf
    <2>4. /\ ctl' \in [Ids -> Seq(Cmds)] /\ ctl'[i] = Append(ctl[i], child[i].cmd)
          /\ \A j \in Ids : j # i => ctl'[j] = ctl[j]
        <3>1. ctl \in [Ids -> Seq(Cmds)] /\ Append(ctl[i], child[i].cmd) \in Seq(Cmds)
            BY <2>1 DEF IInv, Typed, PipesTyped, Cmds
        <3> QED BY <1>4, <3>1
    <2>5. Waits' = Waits /\ Closing' = Closing /\ Active' = Active
        BY <1>1, ActiveIs DEF Waits, Closing
    <2>6. Waits => cur \in open /\ cur \in Ids /\ ncmd > 0
        BY ActiveIs, UsedIs DEF IInv, Typed, TableTyped, Table, Asked, Waits, Closing
    <2>7. Typed'
        BY <1>1, <2>2, <2>4 DEF IInv, Typed, TableTyped, ShellsTyped, PipesTyped, EvalTyped
    <2>8. \A j \in Ids : Child(j)' <=> Child(j)
        BY <1>1, <2>2 DEF Child
    <2>9. Table'
        BY <1>1, <2>5, <2>8 DEF IInv, Table
    <2>10. Fresh'
        BY <1>1, <2>1, <2>2, <2>4 DEF IInv, Fresh
    <2>11. Past'
        BY <1>1, <2>1, <2>2 DEF IInv, Past
    <2>12. Quiet' /\ Cap' /\ Turn'
        BY <1>1, <2>1, <2>2, <2>4, <2>5 DEF IInv, Quiet, Rests, Cap, Turn, Typed, TableTyped
    <2>13. Own'
        BY <1>1, <2>5 DEF IInv, Own
    <2>14. Replied'
        <3>1. CASE Waits
            BY <3>1, <1>1 DEF IInv, Replied
        <3>2. CASE ~Waits
            BY <3>2, <1>1, <2>2, <2>5, RepliedSame DEF IInv, Typed, EvalTyped
        <3> QED BY <3>1, <3>2
    <2>15. Asked' /\ Kept'
        <3>1. CASE i # cur
            <4>1. Waits => child'[cur] = child[cur] /\ ctl'[cur] = ctl[cur]
                BY <2>2, <2>4, <2>6, <3>1
            <4> QED BY <4>1, <1>1, <2>5 DEF IInv, Asked, Kept, Sent, Running, Finished, Lost, NoStatus, HasStatus, Seen
        <3>2. CASE i = cur
            <4>1. Waits => Running /\ Finished'
                BY <1>1, <2>1, <2>2, <2>4, <2>6, <3>2 DEF Running, Finished, NoStatus, HasStatus
            <4>2. Asked'
                BY <1>1, <4>1, <2>5, <2>6 DEF Asked
            <4>3. Kept'
                <5> SUFFICES ASSUME Waits, NEW y \in Streams, total[y] < MAX_OUTPUT_SIZE
                             PROVE  ~Sent' /\ Seen(y)' = child'[cur].wrote[y]
                    BY <1>1, <2>5 DEF Kept
                <5>1. Seen(y) = child[cur].wrote[y] /\ Seen(y)' = Seen(y)
                    BY <1>1, <4>1 DEF IInv, Kept, Seen
                <5>2. ~Sent'
                    BY <1>1, <4>1, <2>6 DEF Finished, Sent, NoCmd
                <5> QED BY <5>1, <5>2, <2>2, <2>6
            <4> QED BY <4>2, <4>3
        <3> QED BY <3>1, <3>2
    <2> QED BY <2>7, <2>9, <2>10, <2>11, <2>12, <2>13, <2>14, <2>15 DEF IInv
<1> QED BY <1>3, <1>4 DEF ChildFinish

-----------------------------------------------------------------------------
(* The poll loop.                                                          *)

(* Chunks that every element of s is one of.                               *)
Within(s, t, u) == \A k \in DOMAIN s : \/ \E l \in DOMAIN t : s[k] = t[l]
                                       \/ \E l \in DOMAIN u : s[k] = u[l]

LEMMA WithinOnly ==
    ASSUME NEW n, NEW s, NEW t, NEW u, Within(s, t, u), Only(n, t), Only(n, u)
    PROVE  Only(n, s)
BY DEF Within, Only

(* The session of the request under way.                                   *)
LEMMA CurIs ==
    ASSUME IInv, Waits
    PROVE  cur \in Ids /\ cur \in open /\ ~Closing /\ ~(cur >= next_session_id) /\ ncmd \in Cmds /\ ncmd > 0
<1>1. cur \in Ids /\ cur \in open /\ ~Closing /\ cur \in Active /\ pc # "exited"
    BY ActiveIs, UsedIs DEF IInv, Typed, TableTyped, Table, Waits, Closing
<1>2. ~(cur >= next_session_id)
    BY <1>1 DEF IInv, Table, Fresh, Child
<1>3. ncmd \in Cmds /\ ncmd > 0
    BY SessionsAssumption DEF IInv, Asked, Typed, EvalTyped, Cmds
<1> QED BY <1>1, <1>2, <1>3

(* The status byte is there: the command has ended, and all of its output  *)
(* is in the pipes.                                                        *)
LEMMA PollStatusOK == ASSUME IInv, PollStatus PROVE IInv'
<1>1. /\ pc = "poll" /\ ctl[cur] # <<>> /\ pc' = "drain" /\ todrain' = Streams
      /\ Waits /\ Waits' /\ ~Closing' /\ Active' = Active
      /\ UNCHANGED <<slots, next_session_id, open, child, holds, bg, cmdq, pipe, cur, why, streaming,
                     buf, total, reply, ncmd, cut>>
    BY ActiveIs DEF PollStatus, Waits, Closing, shells
<1>2. cur \in Ids /\ cur \in open /\ ~Closing /\ ~(cur >= next_session_id) /\ ncmd \in Cmds /\ ncmd > 0
    BY <1>1, CurIs
<1>3. Finished /\ ctl[cur] = <<ncmd>>
    BY <1>1, <1>2 DEF IInv, Asked, Sent, Running, Finished, Lost, NoStatus, HasStatus
<1>4. status' = ncmd /\ ncmd \in 0 .. MaxCmd
    BY <1>2, <1>3 DEF PollStatus, Cmds
<1>5. /\ ctl' \in [Ids -> Seq(Cmds)] /\ ctl'[cur] = <<>>
      /\ \A i \in Ids : i # cur => ctl'[i] = ctl[i]
    <2>1. ctl' = [ctl EXCEPT ![cur] = Tail(@)] /\ Tail(ctl[cur]) = <<>>
        BY <1>3 DEF PollStatus
    <2>2. ctl \in [Ids -> Seq(Cmds)] /\ Tail(ctl[cur]) \in Seq(Cmds)
        BY <1>2, <1>3 DEF IInv, Typed, PipesTyped
    <2> QED BY <1>2, <2>1, <2>2
<1>6. Typed'
    BY <1>1, <1>4, <1>5 DEF IInv, Typed, TableTyped, ShellsTyped, PipesTyped, EvalTyped, ControlPoints
<1>7. Table'
    BY <1>1, <1>2 DEF IInv, Table, Child
<1>8. Fresh'
    BY <1>1, <1>2, <1>5 DEF IInv, Fresh
<1>9. Past' /\ Cap'
    BY <1>1 DEF IInv, Past, Cap
<1>10. Quiet'
    BY <1>1, <1>2, <1>5 DEF IInv, Quiet, Rests, Typed, TableTyped
<1>11. Finished' /\ Asked'
    BY <1>1, <1>2, <1>3, <1>4, <1>5 DEF Asked, Finished, HasStatus
<1>12. Own'
    BY <1>1 DEF IInv, Own
<1>13. Kept'
    <2>1. ~Sent'
        BY <1>2, <1>4 DEF Sent, NoStatus
    <2> QED BY <1>1, <1>3, <2>1 DEF IInv, Kept, Seen
<1>14. Turn'
    BY <1>1, SessionsAssumption DEF Turn
<1>15. Replied'
    BY <1>1 DEF IInv, Replied
<1> QED BY <1>6, <1>7, <1>8, <1>9, <1>10, <1>11, <1>12, <1>13, <1>14, <1>15 DEF IInv

(* A read loses nothing below the cap, and above it total says so.         *)
LEMMA DrainIs ==
    ASSUME IInv, NEW x \in Streams, Drain(x)
    PROVE  /\ buf' \in Outputs /\ total' \in Counts /\ pipe' \in [Ids -> Outputs]
           /\ \A i \in Ids : i # cur => pipe'[i] = pipe[i]
           /\ \A y \in Streams : y # x =>
                  buf'[y] = buf[y] /\ total'[y] = total[y] /\ pipe'[cur][y] = pipe[cur][y]
           /\ pipe'[cur][x] = Tail(pipe[cur][x])
           /\ buf'[x] \in {buf[x], Append(buf[x], Head(pipe[cur][x]))}
           /\ total'[x] < MAX_OUTPUT_SIZE => /\ total[x] < MAX_OUTPUT_SIZE
                                             /\ buf'[x] = Append(buf[x], Head(pipe[cur][x]))
           /\ Cap'
<1>1. /\ pipe[cur][x] # <<>>
      /\ pipe' = [pipe EXCEPT ![cur][x] = Tail(@)]
      /\ buf' = IF total[x] < MAX_OUTPUT_SIZE
                THEN [buf EXCEPT ![x] = Append(@, Head(pipe[cur][x]))]
                ELSE buf
      /\ total' = [total EXCEPT ![x] = Lesser(@ + 1, MAX_OUTPUT_SIZE + 1)]
    BY DEF Drain
<1>2. cur \in Ids
    BY CurIs DEF Drain, Waits
<1>3. /\ buf \in [Streams -> Seq(Chunks)] /\ total \in [Streams -> Nat]
      /\ pipe \in [Ids -> Outputs] /\ pipe[cur] \in [Streams -> Seq(Chunks)]
    BY <1>2 DEF IInv, Typed, EvalTyped, PipesTyped, Outputs, Counts
<1>4. /\ pipe[cur][x] \in Seq(Chunks) /\ Head(pipe[cur][x]) \in Chunks /\ Tail(pipe[cur][x]) \in Seq(Chunks)
    BY <1>1, <1>3
<1>5. /\ pipe' \in [Ids -> Outputs] /\ pipe'[cur][x] = Tail(pipe[cur][x])
      /\ \A y \in Streams : y # x => pipe'[cur][y] = pipe[cur][y]
      /\ \A i \in Ids : i # cur => pipe'[i] = pipe[i]
    <2> DEFINE q == [pipe[cur] EXCEPT ![x] = Tail(pipe[cur][x])]
    <2>1. /\ q \in [Streams -> Seq(Chunks)] /\ q[x] = Tail(pipe[cur][x])
          /\ \A y \in Streams : y # x => q[y] = pipe[cur][y]
        BY <1>3, <1>4
    <2>2. pipe' = [pipe EXCEPT ![cur] = q]
        BY <1>1
    <2> HIDE DEF q
    <2>3. pipe' \in [Ids -> Outputs] /\ pipe'[cur] = q /\ \A i \in Ids : i # cur => pipe'[i] = pipe[i]
        BY <1>2, <1>3, <2>1, <2>2 DEF Outputs
    <2> QED BY <2>1, <2>3
<1>6. /\ total' \in Counts /\ \A y \in Streams : y # x => total'[y] = total[y]
      /\ total'[x] = IF total[x] + 1 < MAX_OUTPUT_SIZE + 1 THEN total[x] + 1 ELSE MAX_OUTPUT_SIZE + 1
    BY <1>1, <1>3, SessionsAssumption DEF Lesser, Counts
<1>7. total[x] \in Nat /\ MAX_OUTPUT_SIZE \in Nat
    BY <1>3, SessionsAssumption
<1>8. CASE total[x] < MAX_OUTPUT_SIZE
    <2> DEFINE b == Append(buf[x], Head(pipe[cur][x]))
    <2>1. b \in Seq(Chunks) /\ Len(b) = Len(buf[x]) + 1 /\ Len(buf[x]) \in Nat
        BY <1>3, <1>4
    <2>2. buf' = [buf EXCEPT ![x] = b]
        BY <1>1, <1>8
    <2> HIDE DEF b
    <2>3. buf' \in Outputs /\ buf'[x] = b /\ \A y \in Streams : y # x => buf'[y] = buf[y]
        BY <1>3, <2>1, <2>2 DEF Outputs
    <2>4. Len(buf[x]) = total[x]
        BY <1>8 DEF IInv, Cap
    <2>5. Len(b) <= MAX_OUTPUT_SIZE /\ Len(b) = total'[x]
        BY ONLY <1>6, <1>7, <1>8, <2>1, <2>4
    <2>6. Cap'
        BY <1>6, <2>3, <2>5 DEF IInv, Cap
    <2> QED BY <1>5, <1>6, <1>8, <2>3, <2>6 DEF b
<1>9. CASE ~(total[x] < MAX_OUTPUT_SIZE)
    <2>1. buf' = buf /\ ~(total'[x] < MAX_OUTPUT_SIZE)
        BY <1>1, <1>6, <1>7, <1>9
    <2>2. Cap'
        BY <1>6, <2>1 DEF IInv, Cap
    <2>3. buf' \in Outputs
        BY <2>1 DEF IInv, Typed, EvalTyped
    <2> QED BY <1>5, <1>6, <2>1, <2>2, <2>3
<1> QED BY <1>8, <1>9

LEMMA DrainOK == ASSUME IInv, NEW x \in Streams, Drain(x) PROVE IInv'
<1>1. /\ pc = "drain" /\ x \in todrain /\ pipe[cur][x] # <<>>
      /\ Waits /\ Waits' /\ ~Closing' /\ Active' = Active
      /\ UNCHANGED <<slots, next_session_id, open, child, holds, bg, cmdq, ctl, pc, cur, why, streaming,
                     todrain, status, reply, ncmd, cut>>
    BY ActiveIs DEF Drain, Waits, Closing, shells
<1>2. cur \in Ids /\ cur \in open /\ ~Closing /\ ~(cur >= next_session_id)
    BY <1>1, CurIs
<1>3. /\ buf' \in Outputs /\ total' \in Counts /\ pipe' \in [Ids -> Outputs]
      /\ \A i \in Ids : i # cur => pipe'[i] = pipe[i]
      /\ \A y \in Streams : y # x =>
             buf'[y] = buf[y] /\ total'[y] = total[y] /\ pipe'[cur][y] = pipe[cur][y]
      /\ pipe'[cur][x] = Tail(pipe[cur][x])
      /\ buf'[x] \in {buf[x], Append(buf[x], Head(pipe[cur][x]))}
      /\ total'[x] < MAX_OUTPUT_SIZE => /\ total[x] < MAX_OUTPUT_SIZE
                                        /\ buf'[x] = Append(buf[x], Head(pipe[cur][x]))
      /\ Cap'
    BY DrainIs
<1>4. buf[x] \in Seq(Chunks) /\ pipe[cur][x] \in Seq(Chunks)
    BY <1>2 DEF IInv, Typed, PipesTyped, EvalTyped, Outputs
<1>5. /\ Head(pipe[cur][x]) \in Chunks /\ Tail(pipe[cur][x]) \in Seq(Chunks)
      /\ Len(Tail(pipe[cur][x])) = Len(pipe[cur][x]) - 1
      /\ \A k \in DOMAIN Tail(pipe[cur][x]) :
             k + 1 \in DOMAIN pipe[cur][x] /\ Tail(pipe[cur][x])[k] = pipe[cur][x][k + 1]
      /\ Count(ncmd, pipe[cur][x]) = Count(ncmd, Tail(pipe[cur][x])) + (IF Head(pipe[cur][x]) = ncmd THEN 1 ELSE 0)
    BY <1>1, <1>4, CountTail
<1>6. \A y \in Streams : /\ Within(pipe'[cur][y], pipe[cur][y], pipe[cur][y])
                         /\ Within(buf'[y], buf[y], pipe[cur][y])
    <2>1. Within(pipe'[cur][x], pipe[cur][x], pipe[cur][x])
        BY <1>3, <1>5 DEF Within
    <2>2. Within(buf'[x], buf[x], pipe[cur][x])
        <3> DEFINE b == Append(buf[x], Head(pipe[cur][x]))
        <3>1. /\ DOMAIN b = 1 .. Len(buf[x]) + 1 /\ Len(buf[x]) \in Nat /\ DOMAIN buf[x] = 1 .. Len(buf[x])
              /\ b[Len(buf[x]) + 1] = Head(pipe[cur][x])
              /\ \A k \in 1 .. Len(buf[x]) : b[k] = buf[x][k]
            BY <1>4, <1>5
        <3>2. 1 \in DOMAIN pipe[cur][x] /\ Head(pipe[cur][x]) = pipe[cur][x][1]
            BY <1>1, <1>4
        <3> HIDE DEF b
        <3>3. \A k \in DOMAIN b : (k \in DOMAIN buf[x] /\ b[k] = buf[x][k]) \/ b[k] = pipe[cur][x][1]
            BY ONLY <3>1, <3>2
        <3>4. Within(b, buf[x], pipe[cur][x])
            BY ONLY <3>2, <3>3 DEF Within
        <3>5. Within(buf[x], buf[x], pipe[cur][x])
            BY DEF Within
        <3> QED BY <1>3, <3>4, <3>5 DEF b
    <2>3. \A y \in Streams : y # x => /\ Within(pipe'[cur][y], pipe[cur][y], pipe[cur][y])
                                      /\ Within(buf'[y], buf[y], pipe[cur][y])
        BY <1>3 DEF Within
    <2> QED BY <2>1, <2>2, <2>3
<1>7. Typed'
    <2>1. Len(pipe'[cur][x]) <= PIPE_SIZE
        <3>1. Len(pipe[cur][x]) \in Nat /\ Len(pipe[cur][x]) <= PIPE_SIZE /\ PIPE_SIZE \in Nat
            BY <1>2, <1>4, SessionsAssumption DEF IInv, Typed, PipesTyped
        <3> QED BY <3>1, <1>3, <1>5
    <2>2. \A i \in Ids : \A y \in Streams : Len(pipe'[i][y]) <= PIPE_SIZE
        BY <1>3, <2>1 DEF IInv, Typed, PipesTyped
    <2> QED BY <1>1, <1>3, <2>2 DEF IInv, Typed, TableTyped, ShellsTyped, PipesTyped, EvalTyped
<1>8. Table'
    BY <1>1, <1>2 DEF IInv, Table, Child
<1>9. Fresh'
    BY <1>1, <1>2, <1>3 DEF IInv, Fresh
<1>10. Past'
    <2>1. \A y \in Streams : \A k \in DOMAIN pipe'[cur][y] : pipe'[cur][y][k] <= ncmd
        <3>1. \A y \in Streams : \A k \in DOMAIN pipe[cur][y] : pipe[cur][y][k] <= ncmd
            BY <1>2 DEF IInv, Past
        <3> QED BY ONLY <3>1, <1>6 DEF Within
    <2>2. UNCHANGED <<child, cmdq, bg, ncmd>> /\ \A i \in Ids : i # cur => pipe'[i] = pipe[i]
        BY <1>1, <1>3
    <2>3. Past
        BY DEF IInv
    <2> QED BY ONLY <2>1, <2>2, <2>3 DEF Past
<1>11. Quiet' /\ Asked'
    BY <1>1 DEF IInv, Quiet, Rests, Asked, Sent, Running, Finished, Lost, NoStatus, HasStatus
<1>12. Own'
    <2>1. ASSUME cur \notin cut, NEW y \in Streams PROVE Only(ncmd, pipe'[cur][y]) /\ Only(ncmd, buf'[y])
        BY <1>1, <1>2, <1>6, <2>1, WithinOnly DEF IInv, Own
    <2> QED BY <1>1, <1>3, <2>1 DEF IInv, Own, Typed, TableTyped
<1>13. Kept'
    <2> SUFFICES ASSUME NEW y \in Streams, total'[y] < MAX_OUTPUT_SIZE
                 PROVE  total[y] < MAX_OUTPUT_SIZE /\ Seen(y)' = Seen(y)
        BY <1>1 DEF IInv, Kept, Sent, Running, Finished, NoStatus, HasStatus
    <2>1. CASE y # x
        BY <1>1, <1>3, <2>1 DEF Seen
    <2>2. CASE y = x
        <3>1. total[x] < MAX_OUTPUT_SIZE /\ buf'[x] = Append(buf[x], Head(pipe[cur][x]))
            BY <1>3, <2>2
        <3>2. Count(ncmd, buf'[x]) = Count(ncmd, buf[x]) + (IF Head(pipe[cur][x]) = ncmd THEN 1 ELSE 0)
            BY <3>1, <1>4, <1>5, CountAppend
        <3>3. Count(ncmd, buf[x]) \in Nat /\ Count(ncmd, Tail(pipe[cur][x])) \in Nat
            BY <1>4, <1>5, PlacesFinite
        <3>4. Count(ncmd, pipe'[cur][x]) = Count(ncmd, Tail(pipe[cur][x]))
            BY <1>3
        <3> QED BY <1>1, <1>5, <2>2, <3>1, <3>2, <3>3, <3>4 DEF Seen
    <2> QED BY <2>1, <2>2
<1>14. Turn'
    BY <1>1, <1>3 DEF IInv, Turn
<1>15. Replied'
    BY <1>1 DEF IInv, Replied
<1> QED BY <1>3, <1>7, <1>8, <1>9, <1>10, <1>11, <1>12, <1>13, <1>14, <1>15 DEF IInv

(* A pipe is drained.  What the last turn leaves in it, below the cap, is  *)
(* nothing, or comes later from a process left behind.                     *)
LEMMA DrainEndOK == ASSUME IInv, NEW x \in Streams, DrainEnd(x) PROVE IInv'
<1>1. /\ pc = "drain" /\ x \in todrain /\ (pipe[cur][x] = <<>> \/ Capped(x)) /\ todrain' = todrain \ {x}
      /\ Waits /\ Active' = Active
      /\ UNCHANGED <<slots, next_session_id, open, child, holds, bg, pipes, streaming, buf, total, ncmd>>
    BY ActiveIs DEF DrainEnd, Waits, Closing, shells
<1>2. cur \in Ids /\ cur \in open /\ ~Closing /\ ~(cur >= next_session_id) /\ ncmd \in Cmds /\ ncmd > 0
    BY <1>1, CurIs
<1>3. todrain' \subseteq Streams
    BY <1>1 DEF IInv, Typed, EvalTyped
<1>4. total[x] < MAX_OUTPUT_SIZE => pipe[cur][x] = <<>>
    <2>1. total[x] \in Nat /\ MAX_OUTPUT_SIZE \in Nat
        BY SessionsAssumption DEF IInv, Typed, EvalTyped, Counts
    <2> QED BY <1>1, <2>1 DEF IInv, Cap, Capped
<1>5. status # 0 => \A y \in Streams \ todrain' : total[y] < MAX_OUTPUT_SIZE => Only(-1, pipe[cur][y])
    <2>1. total[x] < MAX_OUTPUT_SIZE => Only(-1, pipe[cur][x])
        BY <1>4 DEF Only
    <2> QED BY <1>1, <2>1 DEF IInv, Turn
<1>6. CASE ~(todrain' = {} /\ status # 0)
    <2>1. pc' = (IF todrain' = {} THEN "poll" ELSE "drain") /\ UNCHANGED <<reply, cur, why, cut, status>>
        BY <1>6 DEF DrainEnd
    <2>2. Turn'
        BY <1>1, <1>5, <1>6, <2>1 DEF Turn, pipes
    <2>3. Waits' /\ ~Closing' /\ pc' \in ControlPoints
        BY <2>1 DEF Waits, Closing, ControlPoints
    <2>4. UNCHANGED <<slots, next_session_id, open, shells, pipes, cur, why, streaming, buf, total,
                      status, reply, ncmd, cut>>
        BY <1>1, <2>1 DEF shells
    <2>5. Waits' = Waits /\ Closing' = Closing /\ pc # "exited"
        BY <1>1, <2>1 DEF Waits, Closing
    <2> QED BY ONLY IInv, <1>3, <2>2, <2>3, <2>4, <2>5, PcOK
<1>7. CASE todrain' = {} /\ status # 0
    <2>1. /\ pc' = "idle" /\ cur' = 0 /\ why' = "none" /\ reply' = Result /\ status' = 0
          /\ cut' = (IF Truncated THEN cut \cup {cur} ELSE cut)
          /\ ~Waits' /\ ~Closing'
        BY <1>7 DEF DrainEnd, Answer, Waits, Closing
    <2>2. Finished /\ status = ncmd /\ ctl[cur] = <<>>
        BY <1>1, <1>7 DEF IInv, Asked, Sent, Running, Finished, Lost, NoStatus, HasStatus
    <2>3. Truncated \in BOOLEAN /\ buf \in Outputs
        BY DEF Truncated, IInv, Typed, EvalTyped
    <2>4. /\ reply' \in Replies /\ reply'.kind = "result" /\ reply'.sid = cur
          /\ reply'.cmd = ncmd /\ reply'.status = ncmd /\ reply'.out = buf /\ reply'.truncated = Truncated
        <3> DEFINE tr == Truncated
        <3>1. tr \in BOOLEAN
            BY <2>3
        <3>2. reply' = [kind |-> "result", sid |-> cur, cmd |-> ncmd, status |-> ncmd, out |-> buf, truncated |-> tr]
            BY <2>1, <2>2 DEF Result
        <3> HIDE DEF tr
        <3>3. /\ reply' \in Replies /\ reply'.kind = "result" /\ reply'.sid = cur
              /\ reply'.cmd = ncmd /\ reply'.status = ncmd /\ reply'.out = buf /\ reply'.truncated = tr
            BY <1>2, <2>3, <3>1, <3>2 DEF Replies
        <3> QED BY <3>3 DEF tr
    <2>5. cut' \subseteq Ids /\ cut \subseteq cut' /\ (cur \notin cut' => cur \notin cut /\ ~Truncated)
        BY <1>2, <2>1 DEF IInv, Typed, EvalTyped
    <2>6. Typed'
        <3>1. TableTyped'
            BY <1>1, <2>1, SessionsAssumption DEF IInv, Typed, TableTyped, ControlPoints, Kinds
        <3>2. ShellsTyped' /\ PipesTyped'
            BY <1>1 DEF IInv, Typed, ShellsTyped, PipesTyped, pipes
        <3>3. EvalTyped'
            BY <1>1, <1>3, <2>1, <2>4, <2>5, SessionsAssumption DEF IInv, Typed, EvalTyped
        <3> QED BY <3>1, <3>2, <3>3 DEF Typed
    <2>7. Table'
        BY <1>1, <1>2, <2>1 DEF IInv, Table, Child
    <2>8. Fresh' /\ Past' /\ Cap'
        BY <1>1 DEF IInv, Fresh, Past, Cap, pipes
    <2>9. Quiet'
        BY <1>1, <2>1, <2>2 DEF IInv, Quiet, Rests, Finished, pipes
    <2>10. Asked' /\ Kept' /\ Turn'
        BY <2>1 DEF Asked, Kept, Turn
    <2>11. ~Truncated => \A y \in Streams : total[y] < MAX_OUTPUT_SIZE /\ Only(-1, pipe[cur][y])
        <3>1. \A y \in Streams : total[y] \in Nat
            BY DEF IInv, Typed, EvalTyped, Counts
        <3> QED BY <1>5, <1>7, <3>1, SessionsAssumption DEF Truncated
    <2>12. Own'
        <3>1. ASSUME NEW i \in open, i \notin cut', NEW y \in Streams PROVE Only(-1, pipe[i][y])
            <4>1. CASE i = cur
                BY <3>1, <4>1, <2>5, <2>11
            <4>2. CASE i # cur
                BY <3>1, <4>2, <2>5 DEF IInv, Own
            <4> QED BY <4>1, <4>2
        <3> QED BY <1>1, <2>1, <3>1 DEF Own, pipes
    <2>13. OwnStatus' /\ NoLateOutput'
        <3>1. OwnStatus'
            BY <2>4 DEF OwnStatus
        <3>2. cur \notin cut' => \A y \in Streams : Only(ncmd, buf[y])
            BY <1>1, <2>5 DEF IInv, Own
        <3> QED BY <2>4, <3>1, <3>2 DEF NoLateOutput, Only
    <2>14. CompleteOutput'
        <3> SUFFICES ASSUME ~Truncated, NEW y \in Streams
                     PROVE  Count(ncmd, buf[y]) = child[cur].wrote[y]
            BY <1>1, <2>4 DEF CompleteOutput
        <3>1. total[y] < MAX_OUTPUT_SIZE /\ Only(-1, pipe[cur][y])
            BY <2>11
        <3>2. Seen(y) = child[cur].wrote[y]
            BY <1>1, <2>2, <3>1 DEF IInv, Kept
        <3>3. Count(ncmd, pipe[cur][y]) = 0
            <4>1. \A k \in DOMAIN pipe[cur][y] : pipe[cur][y][k] # ncmd
                BY <3>1, <1>2, SessionsAssumption DEF Only, Cmds
            <4> QED BY <4>1, CountNone
        <3>4. Count(ncmd, buf[y]) \in Nat
            BY <2>3, PlacesFinite DEF Outputs
        <3> QED BY <3>2, <3>3, <3>4 DEF Seen
    <2>15. Replied'
        BY <1>1, <2>1, <2>2, <2>4, <2>13, <2>14 DEF Replied, Finished, pipes
    <2> QED BY <2>6, <2>7, <2>8, <2>9, <2>10, <2>12, <2>15 DEF IInv
<1> QED BY <1>6, <1>7

-----------------------------------------------------------------------------
(* The theorems.                                                           *)

LEMMA StutterOK == ASSUME IInv, UNCHANGED vars PROVE IInv'
<1>1. Turn' /\ todrain' \subseteq Streams
    BY ToDrain DEF vars, pipes, eval, Turn
<1> QED BY <1>1, PcOK DEF vars, eval, IInv, Typed, TableTyped, Waits, Closing

LEMMA StepOK == IInv /\ [Next]_vars => IInv'
<1> SUFFICES ASSUME IInv, [Next]_vars PROVE IInv'
    OBVIOUS
<1>1. CASE Request
    BY <1>1, CreateOK, ShutdownOK, DestroyOK, SignalOK, EvalOK DEF Request
<1>2. CASE ServerStep
    BY <1>2, WriteDoneOK, GivesUpOK, PollOutputOK, PollStatusOK, DrainOK, DrainEndOK, Reap1OK, Reap2OK, CleanupOK DEF ServerStep
<1>3. CASE Timeout
    BY <1>3, GivesUpOK
<1>4. CASE Environment
    BY <1>4, ServerDiesOK, ChildEndsOK, BackgroundExitOK, BackgroundWriteOK DEF Environment
<1>5. CASE \E i \in Ids : ShellStep(i)
    BY <1>5, ChildReadOK, ChildStartsOK, ChildFinishOK, ChildEndsOK, ChildWriteOK DEF ShellStep
<1>6. CASE UNCHANGED vars
    BY <1>6, StutterOK
<1> QED BY <1>1, <1>2, <1>3, <1>4, <1>5, <1>6 DEF Next, Terminated

LEMMA Invariance == Spec => []IInv
<1> QED BY InitOK, StepOK, PTL DEF Spec

(* The types and the limits of the server, the shells and the pipes.       *)
THEOREM SessionsTypeOK == Spec => []TypeOK
<1>1. IInv => TypeOK
    BY DEF IInv, Typed, TableTyped, ShellsTyped, PipesTyped, EvalTyped, Table, Turn, Waits, Closing, TypeOK,
           Shell, Command
<1> QED BY <1>1, Invariance, PTL

(* session_close and session_cleanup leak nothing: between requests slots, *)
(* pipe ends and processes are those of the same sessions.                 *)
THEOREM OwnShells == Spec => []SessionsOwnShells
<1>1. IInv => SessionsOwnShells
    <2> SUFFICES ASSUME IInv, pc = "idle"
                 PROVE  /\ Active = open
                        /\ \A i \in Ids : i \in open <=> child[i].st \in {"idle", "busy", "zombie"}
                        /\ \A k, l \in 1 .. MAX_SESSIONS : slots[k] = slots[l] /\ slots[k] # 0 => k = l
        BY DEF SessionsOwnShells
    <2>1. Active \subseteq Ids /\ open \subseteq Ids
        BY ActiveIs, UsedIs DEF IInv, Typed, TableTyped
    <2> QED BY <2>1 DEF IInv, Table, Closing, Child
<1> QED BY <1>1, Invariance, PTL

(* However an eval ended, session_op_eval leaves no command behind in a    *)
(* session that goes on.                                                   *)
THEOREM QuietSessions == Spec => []QuietBetweenRequests
<1>1. IInv => QuietBetweenRequests
    BY DEF IInv, Quiet, Rests, Waits, QuietBetweenRequests
<1> QED BY <1>1, Invariance, PTL

(* session_op_eval returns the status of its own command.                  *)
THEOREM OwnStatuses == Spec => []OwnStatus
<1>1. IInv => OwnStatus
    BY DEF IInv, Replied, OwnStatus
<1> QED BY <1>1, Invariance, PTL

(* The last turn of the poll loop gets all that the command wrote, up to the cap.       *)
THEOREM CompleteOutputs == Spec => []CompleteOutput
<1>1. IInv => CompleteOutput
    BY DEF IInv, Replied, CompleteOutput
<1> QED BY <1>1, Invariance, PTL

(* Output of an earlier command is only ever what the cap left in a pipe.  *)
THEOREM NoLateOutputs == Spec => []NoLateOutput
<1>1. IInv => NoLateOutput
    BY DEF IInv, Replied, NoLateOutput
<1> QED BY <1>1, Invariance, PTL
=============================================================================
