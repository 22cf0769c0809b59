-------------------------- MODULE JobControlProofs --------------------------
(***************************************************************************)
(* Proofs about JobControl, for every number of processes, every pipeline  *)
(* length, table size, nesting of eval, and so on.                         *)
(*                                                                         *)
(* The argument is about tables: TableOK relates a job table to the        *)
(* kernel's view of the processes, one lemma per operation of JobTable     *)
(* shows that the operation keeps it, and one lemma (KernelOK) that it     *)
(* survives whatever the kernel does.  An action then composes a few of    *)
(* these.                                                                  *)
(***************************************************************************)
EXTENDS JobControl, FiniteSetTheorems, WellFoundedInduction, TLAPS

(* A job against the processes pr, of which 1 .. n have been forked: what  *)
(* it counts as done is gone, with the status that it recorded.            *)
JobOK(j, pr, n) ==
    /\ JobType(j)
    /\ j.pgid \in 1 .. n
    /\ j.pids \subseteq 1 .. n
    /\ \A p \in j.pid_done : pr[p].st = "gone" /\ pr[p].code = j.pid_status[p]
    /\ j.state = "DONE" => j.pid_done = j.pids /\ j.status = j.pid_status[j.last]
    /\ j.state # "DONE" => j.pid_done # j.pids

Refs(t) ==
    /\ t.current  \in Ids(t) \cup {NoJob}
    /\ t.previous \in Ids(t) \cup {NoJob}
    /\ t.previous < t.current \/ t.previous = NoJob

TableOK(t, pr, n) ==
    /\ TableType(t)
    /\ t.next_id <= n + 1
    /\ Refs(t)
    /\ \A i \in Ids(t) : JobOK(t.jobs[i], pr, n)

(* The inductive invariant.                                                *)
IInv ==
    /\ TypeOK
    /\ \A d \in 1 .. MaxDepth : TableOK(tabs[d], proc, npid)

-----------------------------------------------------------------------------
(* What the helpers of JobTable return.                                    *)

(* A set of natural numbers that is not empty has a smallest element.      *)
LEMMA HasMin ==
    ASSUME NEW S, S \subseteq Nat, S # {}
    PROVE  \E m \in S : \A k \in S : m <= k
<1> DEFINE T == {0 .. k : k \in S}
<1>1. T \subseteq FiniteSubsetsOf(Nat)
  <2>1. \A k \in S : 0 .. k \in SUBSET Nat /\ IsFiniteSet(0 .. k)
    BY FS_Interval
  <2> QED BY <2>1 DEF FiniteSubsetsOf
<1>2. T # {}
  OBVIOUS
<1>3. PICK x \in T : \A y \in T : ~ (<<y, x>> \in StrictSubsetOrdering(Nat))
  BY <1>1, <1>2, FS_StrictSubsetOrderingWellFounded, WFMin
<1>4. PICK m \in S : x = 0 .. m
  BY <1>3
<1>5. ASSUME NEW k \in S, ~ (m <= k)
      PROVE  FALSE
  <2>1. /\ 0 .. k \in SUBSET Nat /\ 0 .. m \in SUBSET Nat
        /\ 0 .. k \subseteq 0 .. m /\ 0 .. k # 0 .. m
    BY <1>5
  <2>2. <<0 .. k, 0 .. m>> \in StrictSubsetOrdering(Nat)
    BY <2>1 DEF StrictSubsetOrdering
  <2> QED BY <1>3, <1>4, <2>2
<1> QED BY <1>5

(* A bounded one has a largest.                                            *)
LEMMA HasMax ==
    ASSUME NEW n \in Nat, NEW S, S \subseteq 1 .. n, S # {}
    PROVE  \E m \in S : \A k \in S : k <= m
<1> DEFINE T == {n - k : k \in S}
<1>1. T \subseteq Nat /\ T # {}
  <2>1. \A k \in S : n - k \in Nat
    OBVIOUS
  <2> QED BY <2>1
<1>2. PICK m \in T : \A k \in T : m <= k
  BY <1>1, HasMin
<1>3. PICK s \in S : m = n - s
  BY <1>2
<1>4. \A k \in S : k <= s
  BY <1>2, <1>3
<1> QED BY <1>4

(* First picks the smallest member, as a search from the front does.       *)
LEMMA FirstProp ==
    ASSUME NEW S, S \subseteq Nat
    PROVE  /\ S # {} => First(S) \in S
           /\ S = {} => First(S) = NoJob
BY HasMin DEF First

(* Last picks the largest member, as job_current does without a current job. *)
LEMMA LastProp ==
    ASSUME NEW n \in Nat, NEW S, S \subseteq 1 .. n
    PROVE  Last(S) \in S \cup {NoJob}
BY HasMax DEF Last

(* A job specification names a job of the table, or none.                  *)
LEMMA ParseSpecProp ==
    ASSUME NEW t, TableType(t), NEW spec
    PROVE  job_parse_spec(t, spec) \in Ids(t) \cup {NoJob}
<1>1. t.next_id - 1 \in Nat /\ Ids(t) \subseteq 1 .. t.next_id - 1
  BY JobControlAssumption DEF TableType
<1>2. Last(Ids(t)) \in Ids(t) \cup {NoJob}
  BY <1>1, LastProp
<1>3. \A S \in SUBSET Ids(t) : First(S) \in Ids(t) \cup {NoJob}
  <2> TAKE S \in SUBSET Ids(t)
  <2>1. S \subseteq Nat
    BY <1>1
  <2> QED BY <2>1, FirstProp
<1>4. job_current(t) \in Ids(t) \cup {NoJob}
  BY <1>2 DEF job_current
<1> DEFINE B == {i \in Ids(t) : t.jobs[i].command = "(background)"}
           P == {i \in Ids(t) : t.jobs[i].command = "(pipeline)"}
<1>5. First(B) \in Ids(t) \cup {NoJob} /\ First(P) \in Ids(t) \cup {NoJob}
  BY <1>3
<1> QED
  BY <1>4, <1>5 DEF job_parse_spec, SpecCurrent, SpecPrevious, SpecBackground, SpecPipeline

(* The job that job_find_by_pid finds holds the pid; if it finds none, no  *)
(* job does.                                                               *)
LEMMA FindByPidProp ==
    ASSUME NEW t, TableType(t), NEW p
    PROVE  LET i == job_find_by_pid(t, p) IN
           /\ i # NoJob => i \in Ids(t) /\ p \in t.jobs[i].pids
           /\ i = NoJob => \A k \in Ids(t) : p \notin t.jobs[k].pids
<1> DEFINE S == {i \in Ids(t) : p \in t.jobs[i].pids}
<1>1. S \subseteq Nat /\ NoJob \notin S
  BY JobControlAssumption DEF TableType, NoJob
<1>2. (S # {} => First(S) \in S) /\ (S = {} => First(S) = NoJob)
  BY <1>1, FirstProp
<1> QED BY <1>1, <1>2 DEF job_find_by_pid

(* NotDone is none, or a job of the table that is not done.                *)
LEMMA NotDoneProp ==
    ASSUME NEW t, TableType(t)
    PROVE  NotDone(t) # NoJob => NotDone(t) \in Ids(t)
<1> DEFINE S == {i \in Ids(t) : t.jobs[i].state # "DONE"}
<1>1. S \subseteq Nat
  BY JobControlAssumption DEF TableType
<1>2. (S # {} => First(S) \in S) /\ (S = {} => First(S) = NoJob)
  BY <1>1, FirstProp
<1> QED BY <1>2 DEF NotDone

-----------------------------------------------------------------------------
(* The operations of JobTable keep TableOK.                                *)

(* job_add keeps a table right, when the pids of the new job are forked.   *)
LEMMA AddOK ==
    ASSUME NEW t, NEW pr, NEW n \in 0 .. MaxPid, TableOK(t, pr, n),
           NEW k \in Nat \ {0}, n + k <= MaxPid,
           NEW command \in {"(background)", "(pipeline)"}
    PROVE  TableOK(job_add(t, n + 1, (n + 1) .. (n + k), n + k, command), pr, n + k)
<1> DEFINE P == (n + 1) .. (n + k)
           j == NewJob(n + 1, P, n + k, command)
           u == job_add(t, n + 1, P, n + k, command)
<1>1. JobOK(j, pr, n + k)
  <2>1. P \subseteq Pids /\ P # {} /\ n + k \in P /\ n + 1 \in Pids
    BY JobControlAssumption DEF Pids
  <2>2. [p \in P |-> 0] \in [P -> Status]
    BY DEF Status
  <2>3. JobType(j)
    BY <2>1, <2>2 DEF JobType, NewJob, Status
  <2> QED BY <2>1, <2>3 DEF JobOK, NewJob
<1>2. t.next_id \in 1 .. MaxPid /\ t.next_id <= n + 1 /\ t.next_id \notin Ids(t)
  BY JobControlAssumption DEF TableOK, TableType
<1>3. /\ Ids(u) = Ids(t) \cup {t.next_id}
      /\ u.next_id = t.next_id + 1 /\ u.current = t.next_id /\ u.previous = t.current
      /\ u.jobs[t.next_id] = j
      /\ \A i \in Ids(t) : u.jobs[i] = t.jobs[i]
  BY <1>2 DEF job_add, Ids
<1>4. \A i \in Ids(u) : JobOK(u.jobs[i], pr, n + k)
  <2>1. \A i \in Ids(t) : JobOK(t.jobs[i], pr, n + k)
    BY JobControlAssumption DEF TableOK, JobOK
  <2> QED BY <1>1, <1>3, <2>1
<1>5. TableType(u)
  <2>1. Ids(u) \subseteq 1 .. u.next_id - 1
    BY <1>2, <1>3 DEF TableOK, TableType
  <2>2. u \in [jobs : {u.jobs}, next_id : 1 .. MaxPid + 1, current : 0 .. MaxPid,
               previous : 0 .. MaxPid]
    BY <1>2, JobControlAssumption DEF job_add, TableOK, TableType
  <2> QED BY <1>4, <2>1, <2>2 DEF TableType, JobOK
<1>6. Refs(u)
  BY <1>2, <1>3 DEF TableOK, TableType, Refs, NoJob
<1> QED BY <1>2, <1>3, <1>4, <1>5, <1>6 DEF TableOK

(* job_remove keeps a table right, current and previous included.          *)
LEMMA RemoveOK ==
    ASSUME NEW t, NEW pr, NEW n \in Nat, TableOK(t, pr, n), NEW R \in SUBSET Ids(t)
    PROVE  TableOK(job_remove(t, R), pr, n)
<1> DEFINE u == job_remove(t, R)
<1>1. /\ Ids(u) = Ids(t) \ R
      /\ \A i \in Ids(u) : u.jobs[i] = t.jobs[i]
      /\ u.next_id = t.next_id
  BY DEF job_remove, Ids
<1>2. NoJob \notin Ids(t) /\ NoJob \notin R
  BY DEF TableOK, TableType, NoJob
<1>3. Refs(u)
  BY <1>1, <1>2 DEF job_remove, Refs, TableOK, TableType, NoJob
<1>4. TableType(u)
  <2>1. u \in [jobs : {u.jobs}, next_id : 1 .. MaxPid + 1, current : 0 .. MaxPid,
               previous : 0 .. MaxPid]
    BY JobControlAssumption DEF job_remove, TableOK, TableType, NoJob
  <2> QED BY <1>1, <2>1 DEF TableOK, TableType
<1> QED BY <1>1, <1>3, <1>4 DEF TableOK

(* job_reap_done keeps a table right: it only removes.                     *)
LEMMA ReapDoneOK ==
    ASSUME NEW t, NEW pr, NEW n \in Nat, TableOK(t, pr, n)
    PROVE  TableOK(job_reap_done(t), pr, n)
BY RemoveOK DEF job_reap_done

(* Operations that only change what is inside the jobs.                    *)
LEMMA SameIdsOK ==
    ASSUME NEW t, NEW pr, NEW n \in Nat, TableOK(t, pr, n),
           NEW u, NEW pr2,
           u = [t EXCEPT !.jobs = u.jobs],
           Ids(u) = Ids(t),
           \A i \in Ids(t) : JobOK(u.jobs[i], pr2, n)
    PROVE  TableOK(u, pr2, n)
<1>1. u.next_id = t.next_id /\ u.current = t.current /\ u.previous = t.previous
  BY DEF TableOK, TableType
<1>2. u \in [jobs : {u.jobs}, next_id : 1 .. MaxPid + 1, current : 0 .. MaxPid,
             previous : 0 .. MaxPid]
  BY DEF TableOK, TableType
<1> QED BY <1>1, <1>2 DEF TableOK, TableType, Refs, JobOK

(* Notify keeps a table right: it changes no field but notified.           *)
LEMMA NotifyOK ==
    ASSUME NEW t, NEW pr, NEW n \in Nat, TableOK(t, pr, n), NEW N
    PROVE  TableOK(Notify(t, N), pr, n)
<1> DEFINE u == Notify(t, N)
<1>1. Ids(u) = Ids(t) /\ u = [t EXCEPT !.jobs = u.jobs]
  BY DEF Notify, Ids, TableOK, TableType
<1>2. \A i \in Ids(t) :
         u.jobs[i] = IF i \in N /\ t.jobs[i].state = "DONE"
                     THEN [t.jobs[i] EXCEPT !.notified = TRUE] ELSE t.jobs[i]
  BY DEF Notify, TableOK, TableType, Ids
<1>3. \A j : JobOK(j, pr, n) => JobOK([j EXCEPT !.notified = TRUE], pr, n)
  BY DEF JobOK, JobType
<1>4. \A i \in Ids(t) : JobOK(u.jobs[i], pr, n)
  BY <1>2, <1>3 DEF TableOK
<1> QED BY <1>1, <1>4, SameIdsOK

(* Resume keeps a table right: the job it changes was not done.            *)
LEMMA ResumeOK ==
    ASSUME NEW t, NEW pr, NEW n \in Nat, TableOK(t, pr, n), NEW i \in Ids(t)
    PROVE  TableOK(Resume(t, i), pr, n) /\ Ids(Resume(t, i)) = Ids(t)
<1>1. CASE t.jobs[i].state = "STOPPED"
  <2> DEFINE u == [t EXCEPT !.jobs[i].state = "RUNNING"]
  <2>1. Ids(u) = Ids(t) /\ u = [t EXCEPT !.jobs = u.jobs]
    BY DEF Ids, TableOK, TableType
  <2>2. \A k \in Ids(t) :
           u.jobs[k] = IF k = i THEN [t.jobs[k] EXCEPT !.state = "RUNNING"] ELSE t.jobs[k]
    BY DEF Ids, TableOK, TableType
  <2>3. JobOK([t.jobs[i] EXCEPT !.state = "RUNNING"], pr, n)
    BY <1>1 DEF TableOK, JobOK, JobType
  <2>4. \A k \in Ids(t) : JobOK(u.jobs[k], pr, n)
    BY <2>2, <2>3 DEF TableOK
  <2> QED BY <1>1, <2>1, <2>4, SameIdsOK DEF Resume
<1>2. CASE t.jobs[i].state # "STOPPED"
  BY <1>2 DEF Resume
<1> QED BY <1>1, <1>2

(* A table is right whatever happens to the processes that are not gone.   *)
LEMMA KernelOK ==
    ASSUME NEW t, NEW pr, NEW n \in Nat, TableOK(t, pr, n),
           NEW pr2, \A p \in 1 .. n : pr[p].st = "gone" => pr2[p] = pr[p]
    PROVE  TableOK(t, pr2, n)
BY DEF TableOK, JobOK, JobType

(* A table stays right when more processes are forked.                     *)
LEMMA MoreProcessesOK ==
    ASSUME NEW t, NEW pr, NEW n \in Nat, TableOK(t, pr, n), NEW m \in Nat, n <= m
    PROVE  TableOK(t, pr, m)
BY DEF TableOK, JobOK, TableType

-----------------------------------------------------------------------------
(* waitpid: what it takes from the kernel it gives to the table.           *)

(* waitpid collects an exited child and changes nothing else of it.        *)
LEMMA ConsumeProp ==
    ASSUME proc \in ProcTables, NEW p \in Pids, HasReport(p)
    PROVE  /\ Consume(p) \in ProcTables
           /\ \A q \in Pids : proc[q].st = "gone" => Consume(p)[q] = proc[q]
           /\ proc[p].st # "gone"
           /\ Report(p) \in {"exited", "stopped", "continued"}
           /\ Report(p) = "exited" => Consume(p)[p].st = "gone" /\ Consume(p)[p].code = proc[p].code
BY DEF ProcTables, Consume, HasReport, Report, IsChild

(* One waitpid result keeps a job right, job_check_complete included.      *)
LEMMA ApplyOK ==
    ASSUME proc \in ProcTables, NEW n \in 0 .. MaxPid, NEW j, JobOK(j, proc, n),
           NEW p \in j.pids, HasReport(p)
    PROVE  JobOK(Apply(j, p, Report(p), proc[p].code), Consume(p), n)
<1> DEFINE c == proc[p].code
<1>0. p \in Pids /\ j.pids \subseteq Pids
  BY DEF JobOK, JobType
<1>a. /\ \A q \in Pids : proc[q].st = "gone" => Consume(p)[q] = proc[q]
      /\ proc[p].st # "gone"
      /\ Report(p) \in {"exited", "stopped", "continued"}
      /\ Report(p) = "exited" => Consume(p)[p].st = "gone" /\ Consume(p)[p].code = c
      /\ c \in Status
  BY <1>0, ConsumeProp DEF ProcTables
<1>b. p \notin j.pid_done /\ j.state # "DONE"
  BY <1>a DEF JobOK
<1>1. CASE Report(p) = "exited"
  <2> DEFINE k == [j EXCEPT !.pid_done = @ \cup {p}, !.pid_status[p] = c]
  <2>1. /\ JobType(k) /\ k.pid_done = j.pid_done \cup {p} /\ k.pids = j.pids
        /\ k.pgid = j.pgid /\ k.last = j.last
        /\ k.state = j.state /\ k.pid_status = [j.pid_status EXCEPT ![p] = c]
    BY <1>a DEF JobOK, JobType
  <2>2. \A q \in k.pid_done : Consume(p)[q].st = "gone" /\ Consume(p)[q].code = k.pid_status[q]
    BY <1>0, <1>1, <1>a, <2>1 DEF JobOK, JobType
  <2>3. CASE k.pids = k.pid_done
    <3> DEFINE l == [k EXCEPT !.state = "DONE", !.status = k.pid_status[k.last]]
    <3>1. /\ JobType(l) /\ l.pid_done = k.pid_done /\ l.pids = k.pids /\ l.pgid = k.pgid
          /\ l.last = k.last /\ l.state = "DONE" /\ l.pid_status = k.pid_status
          /\ l.status = k.pid_status[k.last]
      BY <2>1 DEF JobType
    <3>2. JobOK(l, Consume(p), n)
      BY <2>1, <2>2, <2>3, <3>1 DEF JobOK
    <3> QED BY <1>1, <2>3, <3>2 DEF Apply, job_check_complete
  <2>4. CASE k.pids # k.pid_done
    <3>1. JobOK(k, Consume(p), n)
      BY <1>b, <2>1, <2>2, <2>4 DEF JobOK
    <3> QED BY <1>1, <2>4, <3>1 DEF Apply, job_check_complete
  <2> QED BY <2>3, <2>4
<1>2. CASE Report(p) = "stopped"
  <2> DEFINE k == [j EXCEPT !.state = "STOPPED", !.status = StopStatus, !.notified = FALSE]
  <2>1. /\ JobType(k) /\ k.pid_done = j.pid_done /\ k.pids = j.pids /\ k.pgid = j.pgid
        /\ k.state = "STOPPED" /\ k.pid_status = j.pid_status
    <3>1. StopStatus \in Status
      BY DEF StopStatus, Status, SIGSTOP
    <3> QED BY <3>1 DEF JobOK, JobType
  <2>2. JobOK(k, Consume(p), n)
    BY <1>0, <1>a, <1>b, <2>1 DEF JobOK, JobType
  <2> QED BY <1>2, <2>2 DEF Apply
<1>3. CASE Report(p) = "continued"
  <2> DEFINE k == [j EXCEPT !.state = "RUNNING"]
  <2>1. /\ JobType(k) /\ k.pid_done = j.pid_done /\ k.pids = j.pids /\ k.pgid = j.pgid
        /\ k.state = "RUNNING" /\ k.pid_status = j.pid_status
    BY DEF JobOK, JobType
  <2>2. JobOK(k, Consume(p), n)
    BY <1>0, <1>a, <1>b, <2>1 DEF JobOK, JobType
  <2> QED BY <1>3, <2>2 DEF Apply
<1> QED BY <1>1, <1>2, <1>3, <1>a

(* A table whose other jobs are left alone and whose job i is right again. *)
LEMMA ConsumeOK ==
    ASSUME proc \in ProcTables, NEW n \in 0 .. MaxPid, NEW t, TableOK(t, proc, n),
           NEW p \in Pids, HasReport(p),
           NEW i \in Ids(t), NEW j, JobOK(j, Consume(p), n)
    PROVE  LET u == [t EXCEPT !.jobs[i] = j]
           IN  TableOK(u, Consume(p), n) /\ Ids(u) = Ids(t)
<1> DEFINE u == [t EXCEPT !.jobs[i] = j]
<1>0. n \in Nat /\ 1 .. n \subseteq Pids
  BY JobControlAssumption DEF Pids
<1>1. Ids(u) = Ids(t) /\ u = [t EXCEPT !.jobs = u.jobs]
  BY DEF Ids, TableOK, TableType
<1>2. \A k \in Ids(t) : u.jobs[k] = IF k = i THEN j ELSE t.jobs[k]
  BY DEF Ids, TableOK, TableType
<1>3. TableOK(t, Consume(p), n)
  BY <1>0, ConsumeProp, KernelOK
<1>4. \A k \in Ids(t) : JobOK(u.jobs[k], Consume(p), n)
  BY <1>2, <1>3 DEF TableOK
<1> QED BY <1>0, <1>1, <1>4, SameIdsOK

(* A turn of job_update keeps the table right.                             *)
LEMMA UpdateOK ==
    ASSUME proc \in ProcTables, NEW n \in 0 .. MaxPid, NEW t, TableOK(t, proc, n),
           NEW p \in Pids, HasReport(p)
    PROVE  LET u == job_update(t, p, Report(p), proc[p].code)
           IN  TableOK(u, Consume(p), n) /\ Ids(u) = Ids(t)
<1> DEFINE i == job_find_by_pid(t, p)
           j == Apply(t.jobs[i], p, Report(p), proc[p].code)
           k == IF Report(p) = "continued" THEN [j EXCEPT !.notified = FALSE] ELSE j
<1>0. n \in Nat /\ 1 .. n \subseteq Pids
  BY JobControlAssumption DEF Pids
<1>1. CASE i = NoJob
  <2>1. TableOK(t, Consume(p), n)
    BY <1>0, ConsumeProp, KernelOK
  <2> QED BY <1>1, <2>1 DEF job_update
<1>2. CASE i # NoJob
  <2>1. i \in Ids(t) /\ p \in t.jobs[i].pids
    BY <1>2, FindByPidProp DEF TableOK
  <2>2. JobOK(j, Consume(p), n)
    BY <2>1, ApplyOK DEF TableOK
  <2>3. JobOK(k, Consume(p), n)
    <3> HIDE DEF j
    <3>1. JobOK([j EXCEPT !.notified = FALSE], Consume(p), n)
      BY <2>2 DEF JobOK, JobType
    <3> QED BY <2>2, <3>1
  <2> HIDE DEF i, k
  <2>4. LET u == [t EXCEPT !.jobs[i] = k] IN TableOK(u, Consume(p), n) /\ Ids(u) = Ids(t)
    BY <2>1, <2>3, ConsumeOK
  <2> QED BY <1>2, <2>4 DEF job_update, i, k
<1> QED BY <1>1, <1>2

(* A turn of job_wait_fg keeps the table right.                            *)
LEMMA WaitFgOK ==
    ASSUME proc \in ProcTables, NEW n \in 0 .. MaxPid, NEW t, TableOK(t, proc, n),
           NEW p \in Pids, HasReport(p), NEW i \in Ids(t)
    PROVE  LET u == job_wait_fg(t, i, p, Report(p), proc[p].code)
           IN  TableOK(u, Consume(p), n) /\ Ids(u) = Ids(t)
<1> DEFINE j == Apply(t.jobs[i], p, Report(p), proc[p].code)
<1>0. n \in Nat /\ 1 .. n \subseteq Pids
  BY JobControlAssumption DEF Pids
<1>1. CASE p \notin t.jobs[i].pids
  <2>1. TableOK(t, Consume(p), n)
    BY <1>0, ConsumeProp, KernelOK
  <2> QED BY <1>1, <2>1 DEF job_wait_fg
<1>2. CASE p \in t.jobs[i].pids
  <2>1. JobOK(j, Consume(p), n)
    BY <1>2, ApplyOK DEF TableOK
  <2>2. job_wait_fg(t, i, p, Report(p), proc[p].code) = [t EXCEPT !.jobs[i] = j]
    BY <1>2 DEF job_wait_fg
  <2> HIDE DEF j
  <2>3. LET u == [t EXCEPT !.jobs[i] = j] IN TableOK(u, Consume(p), n) /\ Ids(u) = Ids(t)
    BY <2>1, ConsumeOK
  <2> QED BY <2>2, <2>3
<1> QED BY <1>1, <1>2

-----------------------------------------------------------------------------
(* Steps of the shell.  Mono is what a step of the kernel owes the tables. *)

Mono ==
    /\ proc' \in ProcTables
    /\ npid' \in npid .. MaxPid
    /\ \A p \in 1 .. npid : proc[p].st = "gone" => proc'[p] = proc[p]

TablesOK == \A d \in 1 .. MaxDepth : TableOK(tabs[d], proc, npid)

(* The table of a fresh VM is right.                                       *)
LEMMA InitTableOK ==
    ASSUME NEW pr, NEW n \in Nat
    PROVE  TableOK(job_table_init, pr, n)
BY JobControlAssumption DEF job_table_init, TableOK, TableType, Refs, NoJob, Ids

(* The tables of the other VMs survive a step that changes one table.      *)
LEMMA OldTableOK ==
    ASSUME IInv, Mono, NEW d \in 1 .. MaxDepth
    PROVE  TableOK(tabs[d], proc', npid')
<1>1. npid \in Nat /\ npid' \in Nat /\ npid <= npid'
  BY JobControlAssumption DEF IInv, TypeOK, Mono
<1>2. TableOK(tabs[d], proc', npid)
  BY <1>1, KernelOK DEF IInv, Mono
<1> QED BY <1>1, <1>2, MoreProcessesOK

(* A step that sets the current table to a right one keeps all right.      *)
LEMMA SetTableOK ==
    ASSUME IInv, Mono, NEW t, SetTable(t), TableOK(t, proc', npid'), depth' = depth
    PROVE  /\ TablesOK' /\ DOMAIN tabs' = 1 .. MaxDepth
           /\ \A d \in 1 .. MaxDepth : TableType(tabs'[d])
           /\ Table' = t
<1>1. depth \in 1 .. MaxDepth /\ DOMAIN tabs = 1 .. MaxDepth
  BY DEF IInv, TypeOK
<1>2. DOMAIN tabs' = 1 .. MaxDepth /\ Table' = t
  BY <1>1 DEF SetTable, Table
<1>3. \A d \in 1 .. MaxDepth : TableOK(tabs'[d], proc', npid')
  BY <1>1, OldTableOK DEF SetTable
<1> QED BY <1>2, <1>3 DEF TablesOK, TableOK

(* A step that changes no table keeps all right.                           *)
LEMMA SameTabsOK ==
    ASSUME IInv, Mono, tabs' = tabs
    PROVE  /\ TablesOK' /\ DOMAIN tabs' = 1 .. MaxDepth
           /\ \A d \in 1 .. MaxDepth : TableType(tabs'[d])
<1>1. \A d \in 1 .. MaxDepth : TableOK(tabs'[d], proc', npid')
  BY OldTableOK
<1> QED BY <1>1 DEF TablesOK, TableOK, IInv, TypeOK

(* No process changes.                                                     *)
LEMMA StutterMono ==
    ASSUME IInv, UNCHANGED <<proc, npid>>
    PROVE  Mono
BY JobControlAssumption DEF IInv, TypeOK, Mono

(* A process that waitpid collects keeps its exit code.                    *)
LEMMA ConsumeMono ==
    ASSUME IInv, NEW p \in Pids, HasReport(p), proc' = Consume(p), npid' = npid
    PROVE  Mono
<1>1. 1 .. npid \subseteq Pids /\ npid \in npid .. MaxPid
  BY JobControlAssumption DEF IInv, TypeOK, Pids
<1> QED BY <1>1, ConsumeProp DEF IInv, TypeOK, Mono

(* A record of four fields, three of them replaced.                        *)
LEMMA RecordEdit ==
    ASSUME NEW S, NEW G, NEW E, NEW C,
           NEW r \in [st : S, grp : G, rep : E, code : C],
           NEW s \in S, NEW e \in E, NEW c \in C
    PROVE  [r EXCEPT !.st = s, !.rep = e, !.code = c]
             \in [st : S, grp : G, rep : E, code : C]
BY Zenon

(* A process that ends keeps the type of a process.                        *)
LEMMA ZombieType ==
    ASSUME NEW T \in ProcTables, NEW p \in Pids, NEW c \in Status
    PROVE  [T[p] EXCEPT !.st = "zombie", !.rep = "none", !.code = c]
             \in [st   : {"none", "run", "stop", "zombie", "gone"},
                  grp  : 0 .. MaxPid,
                  rep  : {"none", "stopped", "continued"},
                  code : Status]
<1>1. T[p] \in [st   : {"none", "run", "stop", "zombie", "gone"},
                grp  : 0 .. MaxPid,
                rep  : {"none", "stopped", "continued"},
                code : Status]
  BY DEF ProcTables
<1>2. "zombie" \in {"none", "run", "stop", "zombie", "gone"}
  OBVIOUS
<1>3. "none" \in {"none", "stopped", "continued"}
  OBVIOUS
<1> QED BY <1>1, <1>2, <1>3, RecordEdit, Zenon

(* Signals change only processes that run or are stopped.                  *)
LEMMA SignalMono ==
    ASSUME IInv, npid' = npid,
           \/ \E P : proc' = Continued(P)
           \/ \E P : proc' = Stopped(P)
           \/ \E V : \E by \in [V -> Signals \cup {SIGKILL}] : proc' = Killed(by)
    PROVE  Mono
<1>0. npid \in npid .. MaxPid /\ 1 .. npid \subseteq Pids
  BY JobControlAssumption DEF IInv, TypeOK, Pids
<1>1. CASE \E P : proc' = Continued(P)
  BY <1>0, <1>1 DEF Mono, Continued, ProcTables, IInv, TypeOK
<1>2. CASE \E P : proc' = Stopped(P)
  BY <1>0, <1>2 DEF Mono, Stopped, ProcTables, IInv, TypeOK
<1>3. CASE \E V : \E by \in [V -> Signals \cup {SIGKILL}] : proc' = Killed(by)
  <2>1. PICK V : \E by \in [V -> Signals \cup {SIGKILL}] : proc' = Killed(by)
    BY <1>3
  <2>2. PICK by \in [V -> Signals \cup {SIGKILL}] : proc' = Killed(by)
    BY <2>1
  <2>3. \A p \in V : 128 + by[p] \in Status
    BY DEF Signals, SIGINT, SIGTERM, SIGKILL, Status
  <2>4. DOMAIN by = V /\ proc \in ProcTables
    BY DEF IInv, TypeOK
  <2>5. \A p \in Pids : p \in V =>
           [proc[p] EXCEPT !.st = "zombie", !.rep = "none", !.code = 128 + by[p]]
              \in [st   : {"none", "run", "stop", "zombie", "gone"},
                   grp  : 0 .. MaxPid,
                   rep  : {"none", "stopped", "continued"},
                   code : Status]
    <3> SUFFICES ASSUME NEW p \in Pids, p \in V
                 PROVE  [proc[p] EXCEPT !.st = "zombie", !.rep = "none", !.code = 128 + by[p]]
                          \in [st   : {"none", "run", "stop", "zombie", "gone"},
                               grp  : 0 .. MaxPid,
                               rep  : {"none", "stopped", "continued"},
                               code : Status]
      OBVIOUS
    <3>1. 128 + by[p] \in Status
      BY <2>3
    <3> QED BY <2>4, <3>1, ZombieType, Zenon
  <2>6. Killed(by) \in ProcTables
    BY <2>4, <2>5 DEF Killed, ProcTables
  <2>7. \A p \in Pids : proc[p].st = "gone" => Killed(by)[p] = proc[p]
    BY DEF Killed, Alive
  <2> QED BY <1>0, <2>2, <2>6, <2>7 DEF Mono
<1> QED BY <1>1, <1>2, <1>3

(* New children: Child(g) for the pids npid + 1 .. npid + k.               *)
LEMMA ForkMono ==
    ASSUME IInv, NEW k \in Nat, npid + k <= MaxPid, NEW g \in 0 .. MaxPid,
           npid' = npid + k, proc' \in [Pids -> UNION {{proc[p] : p \in Pids}, {Child(g)}}],
           \A p \in 1 .. npid : proc'[p] = proc[p]
    PROVE  Mono
<1>1. Child(g) \in [st   : {"none", "run", "stop", "zombie", "gone"},
                    grp  : 0 .. MaxPid,
                    rep  : {"none", "stopped", "continued"},
                    code : Status]
  BY DEF Child, Status
<1>2. npid + k \in npid .. MaxPid
  BY JobControlAssumption DEF IInv, TypeOK
<1> QED BY <1>1, <1>2 DEF Mono, ProcTables, IInv, TypeOK

-----------------------------------------------------------------------------
(* The ways in which an action ends.                                       *)

Rest == UNCHANGED <<depth, sig, nstop, nsig>>

(* An opcode that ends with Finish keeps the invariant.                    *)
LEMMA FinishOK ==
    ASSUME IInv, Mono, Rest, NEW t, TableOK(t, proc', npid'),
           NEW status \in Status, Finish(t, status)
    PROVE  IInv'
<1>1. SetTable(t) /\ depth' = depth
  BY DEF Finish, Rest
<1>2. /\ TablesOK' /\ DOMAIN tabs' = 1 .. MaxDepth
      /\ \A d \in 1 .. MaxDepth : TableType(tabs'[d])
  BY <1>1, SetTableOK
<1>3. TypeOK'
  <2>1. proc' \in ProcTables /\ npid' \in 0 .. MaxPid
    BY JobControlAssumption DEF Mono, IInv, TypeOK
  <2>2. /\ pc' \in ControlPoints /\ cont' \in Callers /\ target' \in Int
        /\ ~ Waiting' /\ laststatus' \in Status
    BY DEF Finish, ControlPoints, Callers, Waiting
  <2>a. neg' \in BOOLEAN
    BY DEF Finish
  <2>3. /\ depth' \in 1 .. MaxDepth /\ sig' \subseteq Signals
        /\ nstop' \in 0 .. MaxStop /\ nsig' \in 0 .. MaxSig
    BY DEF Rest, IInv, TypeOK
  <2> QED BY <1>2, <2>1, <2>2, <2>a, <2>3 DEF TypeOK
<1> QED BY <1>2, <1>3 DEF IInv, TablesOK

(* A call of job_wait_fg on a job of the table keeps the invariant.        *)
LEMMA CallWaitOK ==
    ASSUME IInv, Mono, Rest, NEW t, TableOK(t, proc', npid'), NEW i \in Ids(t),
           SetTable(t), pc' = "head", cont' \in Callers, target' = i, neg' \in BOOLEAN,
           laststatus' \in Status
    PROVE  IInv'
<1>1. depth' = depth
  BY DEF Rest
<1>2. /\ TablesOK' /\ DOMAIN tabs' = 1 .. MaxDepth /\ Table' = t
      /\ \A d \in 1 .. MaxDepth : TableType(tabs'[d])
  BY <1>1, SetTableOK
<1>3. i \in Int /\ target' \in Ids(Table')
  BY <1>2, JobControlAssumption DEF TableOK, TableType
<1>4. TypeOK'
  <2>1. (target \in Ids(Table))'
    BY <1>3
  <2> QED
    BY <1>1, <1>2, <1>3, <2>1, JobControlAssumption
       DEF Rest, Mono, IInv, TypeOK, ControlPoints
<1> QED BY <1>2, <1>4 DEF IInv, TablesOK

(* Actions that leave the tables alone.                                    *)
LEMMA SameTableOK ==
    ASSUME IInv, Mono, tabs' = tabs, depth' \in 1 .. MaxDepth,
           pc' \in ControlPoints, cont' \in Callers, target' \in Int, neg' \in BOOLEAN,
           Waiting' => Waiting /\ target' = target /\ depth' = depth, laststatus' \in Status,
           sig' \subseteq Signals, nstop' \in 0 .. MaxStop, nsig' \in 0 .. MaxSig
    PROVE  IInv'
<1>1. /\ TablesOK' /\ DOMAIN tabs' = 1 .. MaxDepth
      /\ \A d \in 1 .. MaxDepth : TableType(tabs'[d])
  BY SameTabsOK
<1>2. Waiting' => (target \in Ids(Table))'
  BY DEF IInv, TypeOK, Table
<1>3. TypeOK'
  BY <1>1, <1>2, JobControlAssumption DEF Mono, IInv, TypeOK
<1> QED BY <1>1, <1>3 DEF IInv, TablesOK

(* The negation of a pipeline yields an exit status.                       *)
LEMMA NegatedStatus ==
    ASSUME NEW ng, NEW status \in Status
    PROVE  Negated(ng, status) \in Status
BY DEF Negated, Status

(* The table of the VM that executes is right.                             *)
LEMMA TableIsOK ==
    ASSUME IInv
    PROVE  TableOK(Table, proc, npid) /\ npid \in 0 .. MaxPid /\ npid \in Nat
BY JobControlAssumption DEF IInv, TypeOK, Table

(* The return from job_wait_fg to each of its callers keeps the invariant. *)
LEMMA ReturnOK ==
    ASSUME IInv, Waiting, Return(Table), UNCHANGED <<kernel>>, Rest
    PROVE  IInv'
<1> DEFINE j == Table.jobs[target]
           told == Notify(Table, {target})
<1>0. Mono /\ UNCHANGED <<proc, npid>>
  BY StutterMono DEF kernel
<1>1. TableOK(Table, proc, npid) /\ npid \in Nat /\ target \in Ids(Table)
  BY TableIsOK DEF IInv, TypeOK
<1>2. TableOK(told, proc, npid) /\ TableOK(job_reap_done(told), proc, npid)
  BY <1>1, NotifyOK, ReapDoneOK
<1>3. j.status \in Status
  BY <1>1 DEF TableOK, JobOK, JobType
<1>4. CASE cont = "wait_all"
  <2> HIDE DEF told
  <2>1. /\ SetTable(told) /\ laststatus' = j.status /\ pc' = "update" /\ target' = 0
        /\ UNCHANGED <<cont, neg>>
    BY <1>4 DEF Return, told
  <2>2. /\ TablesOK' /\ DOMAIN tabs' = 1 .. MaxDepth
        /\ \A d \in 1 .. MaxDepth : TableType(tabs'[d])
    BY <1>0, <1>2, <2>1, SetTableOK DEF Rest
  <2>3. TypeOK'
    BY <1>0, <1>3, <2>1, <2>2 DEF Rest, Mono, IInv, TypeOK, ControlPoints, Waiting
  <2> QED BY <2>2, <2>3 DEF IInv, TablesOK
<1>5. CASE cont # "wait_all"
  <2> DEFINE u == IF j.state = "DONE" THEN job_reap_done(told) ELSE Table
  <2>1. Finish(u, Negated(neg, j.status))
    BY <1>5 DEF Return
  <2>2. TableOK(u, proc', npid') /\ Negated(neg, j.status) \in Status
    BY <1>0, <1>1, <1>2, <1>3, NegatedStatus
  <2> HIDE DEF u
  <2> QED BY <1>0, <2>1, <2>2, FinishOK
<1> QED BY <1>4, <1>5

-----------------------------------------------------------------------------
(* The actions, one by one.                                                *)

(* The children and the sender of signals.                                 *)
LEMMA InterruptProp ==
    ASSUME TypeOK, NEW p, Interrupt(p)
    PROVE  pc' \in ControlPoints /\ (pc' \in {"head", "block", "eintr"} => Waiting)
BY DEF TypeOK, Interrupt, Waiting, ControlPoints

(* A step that only signals processes and counts keeps the invariant.      *)
LEMMA ChildOK ==
    ASSUME IInv, Mono, NEW p, Interrupt(p), nstop' \in 0 .. MaxStop, nsig' \in 0 .. MaxSig,
           sig' \subseteq Signals, UNCHANGED <<tabs, depth, cont, target, neg, laststatus>>
    PROVE  IInv'
<1>1. pc' \in ControlPoints /\ (Waiting' => Waiting)
  BY InterruptProp DEF IInv, Waiting
<1> QED BY <1>1, SameTableOK DEF IInv, TypeOK

(* ChildExit keeps the invariant.                                          *)
LEMMA ChildExit_OK ==
    ASSUME IInv, NEW p \in Pids, NEW c \in Codes, ChildExit(p, c)
    PROVE  IInv'
<1>0. npid \in npid .. MaxPid /\ 1 .. npid \subseteq Pids /\ c \in Status
  BY JobControlAssumption DEF IInv, TypeOK, Pids
<1> DEFINE z == [proc[p] EXCEPT !.st = "zombie", !.rep = "none", !.code = c]
<1>a. proc \in ProcTables
  BY DEF IInv, TypeOK
<1>b. z \in [st   : {"none", "run", "stop", "zombie", "gone"},
             grp  : 0 .. MaxPid,
             rep  : {"none", "stopped", "continued"},
             code : Status]
  BY <1>0, <1>a, ZombieType
<1>c. proc' = [proc EXCEPT ![p] = z]
  BY <1>a DEF ChildExit, ProcTables
<1>1. proc' \in ProcTables
  <2> HIDE DEF z
  <2> QED BY <1>a, <1>b, <1>c DEF ProcTables
<1>2. \A q \in Pids : proc[q].st = "gone" => proc'[q] = proc[q]
  BY DEF ChildExit, IInv, TypeOK, ProcTables
<1>3. Mono
  BY <1>0, <1>1, <1>2 DEF Mono, ChildExit
<1> QED BY <1>3, ChildOK DEF ChildExit, IInv, TypeOK

(* ChildStop keeps the invariant.                                          *)
LEMMA ChildStop_OK ==
    ASSUME IInv, NEW p \in Pids, ChildStop(p)
    PROVE  IInv'
<1>1. Mono
  BY SignalMono DEF ChildStop
<1>2. nstop' \in 0 .. MaxStop
  BY JobControlAssumption DEF ChildStop, IInv, TypeOK
<1> QED BY <1>1, <1>2, ChildOK DEF ChildStop, IInv, TypeOK

(* ChildContinue keeps the invariant.                                      *)
LEMMA ChildContinue_OK ==
    ASSUME IInv, NEW p \in Pids, ChildContinue(p)
    PROVE  IInv'
<1>1. Mono
  BY SignalMono DEF ChildContinue
<1> QED BY <1>1, ChildOK DEF ChildContinue, IInv, TypeOK

(* Deliver keeps the invariant.                                            *)
LEMMA Deliver_OK ==
    ASSUME IInv, NEW s \in Signals, Deliver(s)
    PROVE  IInv'
<1>1. Mono
  BY StutterMono DEF Deliver
<1>2. nsig' \in 0 .. MaxSig /\ sig' \subseteq Signals
  BY JobControlAssumption DEF Deliver, IInv, TypeOK
<1> QED BY <1>1, <1>2, ChildOK DEF Deliver, IInv, TypeOK

(* The dispatch loop.                                                      *)
LEMMA HaltVmOK ==
    ASSUME IInv, NEW status \in Status, HaltVm(status), pc = "ready", sig' \subseteq Signals,
           UNCHANGED <<proc, npid, cont, target, neg, nstop, nsig>>
    PROVE  IInv'
<1>0. Mono /\ npid \in Nat
  BY StutterMono, JobControlAssumption DEF IInv, TypeOK
<1>1. CASE depth = 1
  <2>1. pc' = "halted" /\ UNCHANGED <<tabs, depth>> /\ laststatus' = status
    BY <1>1 DEF HaltVm
  <2> QED BY <1>0, <2>1, SameTableOK DEF IInv, TypeOK, ControlPoints, Waiting
<1>2. CASE depth # 1
  <2>1. /\ tabs' = [tabs EXCEPT ![depth] = job_table_init]
        /\ depth' = depth - 1 /\ pc' = pc /\ laststatus' = status
    BY <1>2 DEF HaltVm
  <2>2. depth' \in 1 .. MaxDepth
    BY <1>2, <2>1, JobControlAssumption DEF IInv, TypeOK
  <2>3. \A d \in 1 .. MaxDepth : TableOK(tabs'[d], proc', npid')
    BY <1>0, <2>1, InitTableOK DEF IInv, TypeOK
  <2>4. TypeOK'
    BY <1>0, <2>1, <2>2, <2>3 DEF Mono, IInv, TypeOK, TableOK, Waiting
  <2> QED BY <2>3, <2>4 DEF IInv
<1> QED BY <1>1, <1>2

(* SafePoint keeps the invariant.                                          *)
LEMMA SafePoint_OK ==
    ASSUME IInv, SafePoint
    PROVE  IInv'
<1>0. Mono /\ sig' \subseteq Signals /\ pc = "ready"
  BY StutterMono DEF SafePoint
<1> DEFINE status == 128 + (IF SIGINT \in sig THEN SIGINT ELSE SIGTERM)
<1>1. status \in Status
  BY DEF SIGINT, SIGTERM, Status
<1>2. CASE HaltVm(status)
  <2> HIDE DEF status
  <2> QED BY <1>0, <1>1, <1>2, HaltVmOK DEF SafePoint
<1>3. CASE UNCHANGED <<tabs, depth, pc, laststatus>>
  BY <1>0, <1>3, SameTableOK DEF SafePoint, IInv, TypeOK, Waiting
<1>4. CASE depth < MaxDepth /\ depth' = depth + 1 /\ UNCHANGED <<tabs, pc, laststatus>>
  <2>1. depth' \in 1 .. MaxDepth
    BY <1>4, JobControlAssumption DEF IInv, TypeOK
  <2>2. ~ Waiting'
    BY <1>0, <1>4 DEF Waiting
  <2> QED BY <1>0, <1>4, <2>1, <2>2, SameTableOK DEF SafePoint, IInv, TypeOK
<1> QED BY <1>2, <1>3, <1>4 DEF SafePoint

(* vm_exec_string keeps the invariant.                                     *)
LEMMA vm_exec_string_OK ==
    ASSUME IInv, vm_exec_string
    PROVE  IInv'
<1>1. Mono
  BY StutterMono DEF vm_exec_string, kernel
<1>2. depth' \in 1 .. MaxDepth
  BY JobControlAssumption DEF IInv, TypeOK, vm_exec_string
<1>3. ~ Waiting'
  BY DEF vm_exec_string, Ready, Waiting
<1> QED BY <1>1, <1>2, <1>3, SameTableOK DEF vm_exec_string, IInv, TypeOK

(* OP_HALT keeps the invariant.                                            *)
LEMMA OP_HALT_OK ==
    ASSUME IInv, OP_HALT
    PROVE  IInv'
<1>1. laststatus \in Status /\ sig' \subseteq Signals /\ pc = "ready"
  BY DEF IInv, TypeOK, OP_HALT, Ready
<1> QED BY <1>1, HaltVmOK DEF OP_HALT, kernel

(* builtin_exit keeps the invariant.                                       *)
LEMMA builtin_exit_OK ==
    ASSUME IInv, NEW status \in Codes, builtin_exit(status)
    PROVE  IInv'
<1>0. Mono /\ npid \in Nat /\ UNCHANGED <<proc, npid>>
  BY StutterMono, JobControlAssumption DEF builtin_exit, kernel, IInv, TypeOK
<1>1. /\ DOMAIN tabs' = 1 .. MaxDepth
      /\ \A d \in 1 .. MaxDepth : TableOK(tabs'[d], proc', npid')
  BY <1>0, InitTableOK DEF builtin_exit, IInv, TypeOK
<1>2. depth' \in 1 .. MaxDepth
  BY JobControlAssumption DEF builtin_exit
<1>3. TypeOK'
  BY <1>0, <1>1, <1>2, JobControlAssumption
     DEF builtin_exit, Mono, IInv, TypeOK, TableOK, Waiting, ControlPoints
<1> QED BY <1>1, <1>3 DEF IInv

(* Forks.                                                                  *)
LEMMA OP_BACKGROUND_OK ==
    ASSUME IInv, OP_BACKGROUND
    PROVE  IInv'
<1> DEFINE p == npid + 1
           t == IF job_table_full(Table) THEN Table
                ELSE job_add(Table, p, {p}, p, "(background)")
<1>0. /\ TableOK(Table, proc, npid) /\ npid \in 0 .. MaxPid /\ npid \in Nat /\ p \in Pids
      /\ p \in 0 .. MaxPid /\ 1 \in Nat \ {0} /\ npid + 1 <= MaxPid /\ {p} = (npid + 1) .. (npid + 1)
      /\ depth \in 1 .. MaxDepth /\ 0 \in Status
  BY TableIsOK, JobControlAssumption DEF OP_BACKGROUND, IInv, TypeOK, Pids, Status
<1>1. npid' = npid + 1 /\ proc' = [proc EXCEPT ![p] = Child(p)] /\ proc \in ProcTables
  BY DEF OP_BACKGROUND, IInv, TypeOK
<1>2. Mono
  <2>1. proc' \in [Pids -> UNION {{proc[q] : q \in Pids}, {Child(p)}}]
    BY <1>0, <1>1 DEF ProcTables
  <2>2. \A q \in 1 .. npid : proc'[q] = proc[q]
    BY <1>0, <1>1 DEF ProcTables
  <2> QED BY <1>0, <1>1, <2>1, <2>2, ForkMono
<1>3. TableOK(Table, proc', npid')
  BY <1>0, <1>2, OldTableOK DEF Table
<1>4. TableOK(Table, proc', npid)
  BY <1>0, <1>2, KernelOK DEF Mono
<1>5. TableOK(job_add(Table, npid + 1, (npid + 1) .. (npid + 1), npid + 1, "(background)"),
              proc', npid + 1)
  BY <1>0, <1>4, AddOK
<1>6. TableOK(t, proc', npid')
  BY <1>0, <1>1, <1>3, <1>5
<1>7. Finish(t, 0) /\ Rest
  BY DEF OP_BACKGROUND, Rest
<1> HIDE DEF t
<1> QED BY <1>0, <1>2, <1>6, <1>7, FinishOK

(* OP_EXEC_SIMPLE keeps the invariant.                                     *)
LEMMA OP_EXEC_SIMPLE_OK ==
    ASSUME IInv, OP_EXEC_SIMPLE
    PROVE  IInv'
<1> DEFINE p == npid + 1
<1>0. npid \in Nat /\ p \in Pids /\ npid + 1 <= MaxPid /\ 0 \in 0 .. MaxPid
  BY JobControlAssumption DEF OP_EXEC_SIMPLE, IInv, TypeOK, Pids
<1>1. npid' = npid + 1 /\ proc' = [proc EXCEPT ![p] = Child(0)] /\ proc \in ProcTables
  BY DEF OP_EXEC_SIMPLE, IInv, TypeOK
<1>2. Mono
  <2>1. proc' \in [Pids -> UNION {{proc[q] : q \in Pids}, {Child(0)}}]
    BY <1>0, <1>1 DEF ProcTables
  <2>2. \A q \in 1 .. npid : proc'[q] = proc[q]
    BY <1>0, <1>1 DEF ProcTables
  <2> QED BY <1>0, <1>1, <2>1, <2>2, ForkMono
<1>3. pc' \in ControlPoints /\ target' \in Int /\ ~ Waiting'
  BY <1>0 DEF OP_EXEC_SIMPLE, ControlPoints, Waiting
<1> QED BY <1>2, <1>3, SameTableOK DEF OP_EXEC_SIMPLE, IInv, TypeOK

(* ForkFails keeps the invariant.                                          *)
LEMMA ForkFails_OK ==
    ASSUME IInv, ForkFails
    PROVE  IInv'
<1>1. Mono /\ Rest
  BY StutterMono DEF ForkFails, kernel, Rest
<1>2. PICK status \in {1, 126} : Finish(Table, status)
  BY DEF ForkFails
<1>3. TableOK(Table, proc', npid') /\ status \in Status
  BY TableIsOK DEF ForkFails, kernel, Status
<1> QED BY <1>1, <1>2, <1>3, FinishOK

(* OP_PIPELINE keeps the invariant.                                        *)
LEMMA OP_PIPELINE_OK ==
    ASSUME IInv, NEW n \in 2 .. MaxPipe, NEW k \in 0 .. n, NEW ng \in BOOLEAN,
           OP_PIPELINE(n, k, ng)
    PROVE  IInv'
<1> DEFINE g == npid + 1
           P == g .. (npid + k)
           failed == IF k < n THEN 1 ELSE laststatus
           t == job_add(Table, g, P, npid + k, "(pipeline)")
<1>0. /\ TableOK(Table, proc, npid) /\ npid \in 0 .. MaxPid /\ npid \in Nat /\ k \in Nat
      /\ npid + k <= MaxPid /\ depth \in 1 .. MaxDepth
  BY TableIsOK, JobControlAssumption DEF OP_PIPELINE, IInv, TypeOK
<1>1. /\ npid' = npid + k /\ proc' = [p \in Pids |-> IF p \in P THEN Child(g) ELSE proc[p]]
      /\ proc \in ProcTables /\ Rest
  BY DEF OP_PIPELINE, IInv, TypeOK, Rest
<1>2. Mono
  <2>1. CASE k = 0
    <3>1. proc' = proc /\ npid' = npid
      BY <1>0, <1>1, <2>1 DEF ProcTables
    <3> QED BY <3>1, StutterMono
  <2>2. CASE k # 0
    <3>1. g \in 0 .. MaxPid
      BY <1>0, <2>2, JobControlAssumption
    <3>2. proc' \in [Pids -> UNION {{proc[q] : q \in Pids}, {Child(g)}}]
      BY <1>1
    <3>3. \A q \in 1 .. npid : proc'[q] = proc[q]
      BY <1>0, <1>1, JobControlAssumption DEF Pids
    <3> HIDE DEF g
    <3> QED BY <1>0, <1>1, <3>1, <3>2, <3>3, ForkMono
  <2> QED BY <2>1, <2>2
<1>3. TableOK(Table, proc', npid')
  BY <1>0, <1>2, OldTableOK DEF Table
<1>4. failed \in Status
  <2>1. 1 \in Status
    BY DEF Status
  <2> QED BY <2>1 DEF IInv, TypeOK
<1>5. CASE k = 0 \/ job_table_full(Table)
  <2>1. Finish(Table, Negated(ng, failed))
    BY <1>5 DEF OP_PIPELINE
  <2>2. Negated(ng, failed) \in Status
    BY <1>4, NegatedStatus
  <2> QED BY <1>1, <1>2, <1>3, <2>1, <2>2, FinishOK
<1>6. CASE ~ (k = 0 \/ job_table_full(Table))
  <2>1. /\ SetTable(t) /\ pc' = "head" /\ cont' = "pipeline" /\ target' = Table.next_id
        /\ neg' = ng /\ laststatus' = failed
    BY <1>6 DEF OP_PIPELINE
  <2>2. TableOK(Table, proc', npid)
    BY <1>0, <1>2, KernelOK DEF Mono
  <2>3. TableOK(t, proc', npid')
    BY <1>0, <1>1, <1>6, <2>2, AddOK
  <2>4. Table.next_id \in Ids(t)
    BY DEF job_add, Ids
  <2> HIDE DEF t, failed
  <2>5. neg' \in BOOLEAN
    BY <2>1
  <2>6. cont' \in Callers
    BY <2>1 DEF Callers
  <2> QED BY <1>1, <1>2, <1>4, <2>1, <2>3, <2>4, <2>5, <2>6, CallWaitOK
<1> QED BY <1>5, <1>6

(* Waiting.                                                                *)
LEMMA DirectWait_OK ==
    ASSUME IInv, DirectWait
    PROVE  IInv'
<1>0. TableOK(Table, proc, npid) /\ depth \in 1 .. MaxDepth /\ Rest /\ npid' = npid
  BY TableIsOK DEF IInv, TypeOK, DirectWait, Rest
<1>1. CASE \E p \in Matches(target) :
             proc[p].st = "zombie" /\ proc' = Consume(p) /\ Finish(Table, proc[p].code)
  <2>1. PICK p \in Matches(target) :
             proc[p].st = "zombie" /\ proc' = Consume(p) /\ Finish(Table, proc[p].code)
    BY <1>1
  <2>2. p \in Pids /\ HasReport(p) /\ proc[p].code \in Status
    BY <2>1 DEF Matches, HasReport, IsChild, Report, IInv, TypeOK, ProcTables
  <2>3. Mono
    BY <1>0, <2>1, <2>2, ConsumeMono
  <2>4. TableOK(Table, proc', npid')
    BY <1>0, <2>3, OldTableOK DEF Table
  <2> QED BY <1>0, <2>1, <2>2, <2>3, <2>4, FinishOK
<1>2. CASE proc' = proc /\ Finish(Table, 127)
  <2>1. Mono /\ 127 \in Status
    BY <1>0, <1>2, StutterMono DEF Status
  <2> QED BY <1>0, <1>2, <2>1, FinishOK
<1> QED BY <1>1, <1>2 DEF DirectWait

(* WaitHead keeps the invariant.                                           *)
LEMMA WaitHead_OK ==
    ASSUME IInv, WaitHead
    PROVE  IInv'
<1>0. Mono /\ Rest /\ Waiting
  BY StutterMono DEF WaitHead, kernel, Rest, Waiting
<1>1. CASE Return(Table)
  BY <1>0, <1>1, ReturnOK DEF WaitHead
<1>2. CASE pc' = "block" /\ UNCHANGED <<tabs, cont, target, neg, laststatus>>
  <2>1. pc' \in ControlPoints
    BY <1>2 DEF ControlPoints
  <2> QED BY <1>0, <1>2, <2>1, SameTableOK DEF Rest, IInv, TypeOK
<1> QED BY <1>1, <1>2 DEF WaitHead

(* WaitECHILD keeps the invariant.                                         *)
LEMMA WaitECHILD_OK ==
    ASSUME IInv, WaitECHILD
    PROVE  IInv'
BY ReturnOK DEF WaitECHILD, Rest, Waiting

(* WaitEINTR keeps the invariant.                                          *)
LEMMA WaitEINTR_OK ==
    ASSUME IInv, WaitEINTR
    PROVE  IInv'
<1>1. Mono
  <2>1. PICK V \in Victims(Members(Table.jobs[target].pgid)) : \E by \in [V -> sig] :
           proc' = Killed(by)
    BY DEF WaitEINTR
  <2>2. PICK by \in [V -> sig] : proc' = Killed(by)
    BY <2>1
  <2>3. by \in [V -> Signals \cup {SIGKILL}]
    BY DEF IInv, TypeOK
  <2>4. \E W : \E b \in [W -> Signals \cup {SIGKILL}] : proc' = Killed(b)
    BY <2>2, <2>3
  <2> QED BY <2>4, SignalMono DEF WaitEINTR
<1>2. pc' \in ControlPoints /\ Waiting
  BY DEF WaitEINTR, ControlPoints, Waiting
<1> QED BY <1>1, <1>2, SameTableOK DEF WaitEINTR, IInv, TypeOK

(* WaitReport keeps the invariant.                                         *)
LEMMA WaitReport_OK ==
    ASSUME IInv, NEW p \in Pids, WaitReport(p)
    PROVE  IInv'
<1> DEFINE t == job_wait_fg(Table, target, p, Report(p), proc[p].code)
<1>0. /\ TableOK(Table, proc, npid) /\ npid \in 0 .. MaxPid /\ proc \in ProcTables
      /\ HasReport(p) /\ proc' = Consume(p) /\ npid' = npid /\ target \in Ids(Table) /\ Rest
  BY TableIsOK DEF IInv, TypeOK, WaitReport, Waiting, Rest
<1>1. Mono
  BY <1>0, ConsumeMono
<1>2. TableOK(t, proc', npid') /\ Ids(t) = Ids(Table)
  BY <1>0, WaitFgOK
<1>3. /\ SetTable(t) /\ pc' = "head" /\ cont' \in Callers /\ target' = target
      /\ laststatus' \in Status
  BY DEF WaitReport, IInv, TypeOK
<1>4. neg' \in BOOLEAN
  BY DEF WaitReport, IInv, TypeOK
<1> HIDE DEF t
<1> QED BY <1>0, <1>1, <1>2, <1>3, <1>4, CallWaitOK

(* Call_job_update keeps the invariant.                                    *)
LEMMA Call_job_update_OK ==
    ASSUME IInv, NEW caller \in Callers, Call_job_update(caller)
    PROVE  IInv'
<1>1. Mono
  BY StutterMono DEF Call_job_update, kernel
<1>2. pc' \in ControlPoints /\ ~ Waiting' /\ laststatus' \in Status /\ cont' \in Callers
  BY DEF Call_job_update, ControlPoints, Waiting, Status
<1> QED BY <1>1, <1>2, SameTableOK DEF Call_job_update, IInv, TypeOK

(* UpdateReport keeps the invariant.                                       *)
LEMMA UpdateReport_OK ==
    ASSUME IInv, NEW p \in Pids, UpdateReport(p)
    PROVE  IInv'
<1> DEFINE t == job_update(Table, p, Report(p), proc[p].code)
<1>0. /\ TableOK(Table, proc, npid) /\ npid \in 0 .. MaxPid /\ proc \in ProcTables
      /\ HasReport(p) /\ proc' = Consume(p) /\ npid' = npid /\ Rest
  BY TableIsOK DEF IInv, TypeOK, UpdateReport, Rest
<1>1. Mono
  BY <1>0, ConsumeMono
<1>2. TableOK(t, proc', npid')
  BY <1>0, UpdateOK
<1>3. SetTable(t) /\ depth' = depth
  BY DEF UpdateReport
<1> HIDE DEF t
<1>4. /\ TablesOK' /\ DOMAIN tabs' = 1 .. MaxDepth
      /\ \A d \in 1 .. MaxDepth : TableType(tabs'[d])
  BY <1>1, <1>2, <1>3, SetTableOK
<1>5. TypeOK'
  <2>1. ~ Waiting'
    BY DEF UpdateReport, Waiting
  <2> QED BY <1>0, <1>1, <1>4, <2>1 DEF UpdateReport, Mono, IInv, TypeOK
<1> QED BY <1>4, <1>5 DEF IInv, TablesOK

(* JobsDone keeps the invariant.                                           *)
LEMMA JobsDone_OK ==
    ASSUME IInv, JobsDone
    PROVE  IInv'
<1> DEFINE t == job_reap_done(Notify(Table, Ids(Table)))
<1>1. Mono /\ Rest /\ UNCHANGED <<proc, npid>> /\ 0 \in Status
  BY StutterMono DEF JobsDone, kernel, Rest, Status
<1>2. TableOK(t, proc', npid')
  BY <1>1, TableIsOK, NotifyOK, ReapDoneOK
<1>3. Finish(t, 0)
  BY DEF JobsDone
<1> HIDE DEF t
<1> QED BY <1>1, <1>2, <1>3, FinishOK

(* What wait, fg and bg do to a stopped job.                               *)
LEMMA ResumedOK ==
    ASSUME IInv, NEW i \in Ids(Table), proc' = Resumed(Table, i), npid' = npid
    PROVE  /\ Mono
           /\ TableOK(Resume(Table, i), proc', npid')
           /\ i \in Ids(Resume(Table, i))
<1>0. TableOK(Table, proc, npid) /\ npid \in Nat /\ depth \in 1 .. MaxDepth
  BY TableIsOK DEF IInv, TypeOK
<1>1. Mono
  <2>1. CASE Table.jobs[i].state = "STOPPED"
    <3>1. \E P : proc' = Continued(P)
      BY <2>1 DEF Resumed
    <3> QED BY <3>1, SignalMono
  <2>2. CASE Table.jobs[i].state # "STOPPED"
    BY <2>2, StutterMono DEF Resumed
  <2> QED BY <2>1, <2>2
<1>2. TableOK(Table, proc', npid')
  BY <1>0, <1>1, OldTableOK DEF Table
<1>3. npid' \in Nat
  BY <1>0
<1> QED BY <1>1, <1>2, <1>3, ResumeOK

(* WaitNext keeps the invariant.                                           *)
LEMMA WaitNext_OK ==
    ASSUME IInv, WaitNext
    PROVE  IInv'
<1> DEFINE i == NotDone(Table)
<1>0. TableOK(Table, proc, npid) /\ npid \in Nat /\ Rest /\ npid' = npid
  BY TableIsOK DEF WaitNext, Rest
<1>1. CASE i = NoJob
  <2>1. UNCHANGED <<proc, npid>> /\ Finish(job_reap_done(Table), laststatus)
    BY <1>1 DEF WaitNext
  <2>2. Mono /\ TableOK(job_reap_done(Table), proc', npid') /\ laststatus \in Status
    BY <1>0, <2>1, StutterMono, ReapDoneOK DEF IInv, TypeOK
  <2> QED BY <1>0, <2>1, <2>2, FinishOK
<1>2. CASE i # NoJob
  <2>1. i \in Ids(Table)
    BY <1>0, <1>2, NotDoneProp DEF TableOK
  <2>2. proc' = Resumed(Table, i) /\ Call_job_wait_fg(Resume(Table, i), "wait_all", i)
    BY <1>2 DEF WaitNext
  <2> HIDE DEF i
  <2>3. Mono /\ TableOK(Resume(Table, i), proc', npid') /\ i \in Ids(Resume(Table, i))
    BY <1>0, <2>1, <2>2, ResumedOK
  <2>4. cont' \in Callers /\ laststatus' \in Status
    BY <2>2 DEF Call_job_wait_fg, Callers, IInv, TypeOK
  <2>5. neg' \in BOOLEAN
    BY <2>2 DEF Call_job_wait_fg, IInv, TypeOK
  <2> QED BY <1>0, <2>2, <2>3, <2>4, <2>5, CallWaitOK DEF Call_job_wait_fg
<1> QED BY <1>1, <1>2

(* The other builtins.                                                     *)
LEMMA FailsOK ==
    ASSUME IInv, NEW status \in Status, Fails(status), npid' = npid, Rest
    PROVE  IInv'
<1>1. Mono /\ TableOK(Table, proc', npid')
  BY StutterMono, TableIsOK DEF Fails
<1> QED BY <1>1, FinishOK DEF Fails

(* A builtin that calls job_wait_fg keeps the invariant.                   *)
LEMMA CallFromBuiltinOK ==
    ASSUME IInv, Mono, Rest, NEW t, TableOK(t, proc', npid'), NEW i \in Ids(t),
           NEW caller \in Callers, Call_job_wait_fg(t, caller, i)
    PROVE  IInv'
<1>1. laststatus' \in Status
  BY DEF Call_job_wait_fg, IInv, TypeOK
<1>2. neg' \in BOOLEAN
  BY DEF Call_job_wait_fg, IInv, TypeOK
<1> QED BY <1>1, <1>2, CallWaitOK DEF Call_job_wait_fg

(* builtin_wait_job keeps the invariant.                                   *)
LEMMA builtin_wait_job_OK ==
    ASSUME IInv, NEW spec, builtin_wait_job(spec)
    PROVE  IInv'
<1> DEFINE i == job_parse_spec(Table, spec)
<1>0. /\ TableOK(Table, proc', npid') /\ Mono /\ Rest /\ i \in Ids(Table) \cup {NoJob}
      /\ 127 \in Status /\ "wait_job" \in Callers
  BY TableIsOK, StutterMono, ParseSpecProp DEF builtin_wait_job, kernel, Rest, TableOK, Status, Callers
<1>1. CASE i = NoJob
  BY <1>0, <1>1, FinishOK DEF builtin_wait_job
<1>2. CASE i # NoJob
  <2>1. Call_job_wait_fg(Table, "wait_job", i) /\ i \in Ids(Table)
    BY <1>0, <1>2 DEF builtin_wait_job
  <2> HIDE DEF i
  <2> QED BY <1>0, <2>1, CallFromBuiltinOK
<1> QED BY <1>1, <1>2

(* builtin_wait_pid keeps the invariant.                                   *)
LEMMA builtin_wait_pid_OK ==
    ASSUME IInv, NEW n \in WaitArgs, builtin_wait_pid(n)
    PROVE  IInv'
<1> DEFINE i == job_find_by_pid(Table, n)
<1>0. /\ TableOK(Table, proc', npid') /\ Mono /\ Rest /\ "wait_job" \in Callers
  BY TableIsOK, StutterMono DEF builtin_wait_pid, kernel, Rest, Callers
<1>1. CASE i # NoJob
  <2>1. Call_job_wait_fg(Table, "wait_job", i) /\ i \in Ids(Table)
    BY <1>0, <1>1, FindByPidProp DEF builtin_wait_pid, TableOK
  <2> HIDE DEF i
  <2> QED BY <1>0, <2>1, CallFromBuiltinOK
<1>2. CASE i = NoJob
  <2>1. pc' = "direct" /\ target' = n /\ UNCHANGED <<tabs, cont, neg, laststatus>>
    BY <1>2 DEF builtin_wait_pid
  <2>2. pc' \in ControlPoints /\ ~ Waiting' /\ target' \in Int
    BY <2>1, JobControlAssumption DEF ControlPoints, Waiting
  <2> QED BY <1>0, <2>1, <2>2, SameTableOK DEF Rest, IInv, TypeOK
<1> QED BY <1>1, <1>2

(* builtin_fg keeps the invariant.                                         *)
LEMMA builtin_fg_OK ==
    ASSUME IInv, NEW spec, builtin_fg(spec)
    PROVE  IInv'
<1> DEFINE i == job_parse_spec(Table, spec)
<1>0. /\ i \in Ids(Table) \cup {NoJob} /\ Rest /\ npid' = npid /\ 1 \in Status
      /\ "fg" \in Callers
  BY TableIsOK, ParseSpecProp DEF builtin_fg, Rest, TableOK, Status, Callers
<1>1. CASE i = NoJob
  BY <1>0, <1>1, FailsOK DEF builtin_fg
<1>2. CASE i # NoJob
  <2>1. /\ proc' = Resumed(Table, i) /\ Call_job_wait_fg(Resume(Table, i), "fg", i)
        /\ i \in Ids(Table)
    BY <1>0, <1>2 DEF builtin_fg
  <2> HIDE DEF i
  <2>2. Mono /\ TableOK(Resume(Table, i), proc', npid') /\ i \in Ids(Resume(Table, i))
    BY <1>0, <2>1, ResumedOK
  <2> QED BY <1>0, <2>1, <2>2, CallFromBuiltinOK
<1> QED BY <1>1, <1>2

(* builtin_bg keeps the invariant.                                         *)
LEMMA builtin_bg_OK ==
    ASSUME IInv, NEW spec, builtin_bg(spec)
    PROVE  IInv'
<1> DEFINE i == job_parse_spec(Table, spec)
<1>0. /\ i \in Ids(Table) \cup {NoJob} /\ Rest /\ npid' = npid /\ 1 \in Status /\ 0 \in Status
  BY TableIsOK, ParseSpecProp DEF builtin_bg, Rest, TableOK, Status
<1>1. CASE Fails(1)
  BY <1>0, <1>1, FailsOK
<1>2. CASE ~ Fails(1)
  <2>1. /\ proc' = Resumed(Table, i) /\ Finish(Resume(Table, i), 0)
        /\ i \in Ids(Table)
    BY <1>0, <1>2 DEF builtin_bg
  <2> HIDE DEF i
  <2>2. Mono /\ TableOK(Resume(Table, i), proc', npid') /\ i \in Ids(Resume(Table, i))
    BY <1>0, <2>1, ResumedOK
  <2> QED BY <1>0, <2>1, <2>2, FinishOK
<1> QED BY <1>1, <1>2

(* kill keeps the invariant, whichever processes end.                      *)
LEMMA SendOK ==
    ASSUME IInv, NEW P, NEW s, Send(P, s), npid' = npid, Rest
    PROVE  IInv'
<1>1. CASE Fails(1)
  <2>1. 1 \in Status
    BY DEF Status
  <2> QED BY <1>1, <2>1, FailsOK
<1>2. CASE ~ Fails(1)
  <2>1. /\ \/ proc' = Stopped(P) \/ proc' = Continued(P)
           \/ proc' = Killed([p \in P |-> SIGKILL])
           \/ \E V \in Victims(P) : proc' = Killed([p \in V |-> SIGTERM])
        /\ Finish(Table, 0)
    BY <1>2 DEF Send
  <2>2. \A V : /\ [p \in V |-> SIGKILL] \in [V -> Signals \cup {SIGKILL}]
               /\ [p \in V |-> SIGTERM] \in [V -> Signals \cup {SIGKILL}]
    BY DEF Signals
  <2>3. Mono
    BY <2>1, <2>2, SignalMono
  <2>4. TableOK(Table, proc', npid') /\ 0 \in Status
    BY <2>3, OldTableOK DEF Table, IInv, TypeOK, Status
  <2> QED BY <2>1, <2>3, <2>4, FinishOK
<1> QED BY <1>1, <1>2

(* The builtin kill keeps the invariant, by job and by pid.                *)
LEMMA builtin_kill_OK ==
    ASSUME IInv, NEW spec, NEW p, NEW s,
           builtin_kill_job(spec, s) \/ builtin_kill_pid(p, s)
    PROVE  IInv'
<1>0. npid' = npid /\ Rest
  BY DEF builtin_kill_job, builtin_kill_pid, Rest
<1>1. CASE Fails(1)
  <2>1. 1 \in Status
    BY DEF Status
  <2> QED BY <1>0, <1>1, <2>1, FailsOK
<1>2. CASE ~ Fails(1)
  <2>1. \E P : Send(P, s)
    BY <1>2 DEF builtin_kill_job, builtin_kill_pid
  <2> QED BY <1>0, <2>1, SendOK
<1> QED BY <1>1, <1>2

-----------------------------------------------------------------------------
(* The invariant holds when the shell starts.                              *)
LEMMA InitOK == Init => IInv
<1> SUFFICES ASSUME Init PROVE IInv
  OBVIOUS
<1>1. \A d \in 1 .. MaxDepth : TableOK(tabs[d], proc, npid)
  BY InitTableOK DEF Init
<1>2. proc \in ProcTables
  <2>1. NoChild \in [st   : {"none", "run", "stop", "zombie", "gone"},
                     grp  : 0 .. MaxPid,
                     rep  : {"none", "stopped", "continued"},
                     code : Status]
    BY JobControlAssumption DEF NoChild, Status
  <2> QED BY <2>1 DEF Init, ProcTables
<1>3. neg \in BOOLEAN
  BY DEF Init
<1>4. TypeOK
  BY <1>1, <1>2, <1>3, JobControlAssumption
     DEF Init, TypeOK, TableOK, ControlPoints, Callers, Waiting, Status
<1> QED BY <1>1, <1>4 DEF IInv

(* Every step of the shell, the script and the world keeps the invariant.  *)
LEMMA NextOK == IInv /\ [Next]_vars => IInv'
<1> SUFFICES ASSUME IInv, [Next]_vars PROVE IInv'
  OBVIOUS
<1>1. CASE ShellStep
  BY <1>1, SafePoint_OK, DirectWait_OK, WaitHead_OK, WaitECHILD_OK, WaitEINTR_OK, WaitReport_OK,
     JobsDone_OK, WaitNext_OK, UpdateReport_OK DEF ShellStep
<1>2. CASE ScriptStep
  <2>1. CASE \E n \in 2 .. MaxPipe : \E k \in 0 .. n : \E ng \in BOOLEAN : OP_PIPELINE(n, k, ng)
    BY <2>1, OP_PIPELINE_OK
  <2>2. CASE builtin_wait \/ builtin_jobs
    <3>1. "wait_all" \in Callers /\ "jobs" \in Callers
      BY DEF Callers
    <3> QED BY <2>2, <3>1, Call_job_update_OK DEF builtin_wait, builtin_jobs
  <2>3. CASE \E spec \in Specs : \/ builtin_wait_job(spec) \/ builtin_fg(spec) \/ builtin_bg(spec)
                                \/ \E s \in KillSignals : builtin_kill_job(spec, s)
    BY <2>3, builtin_wait_job_OK, builtin_fg_OK, builtin_bg_OK, builtin_kill_OK
  <2>4. CASE \E p \in Pids : \E s \in KillSignals : builtin_kill_pid(p, s)
    BY <2>4, builtin_kill_OK
  <2>5. CASE OP_BACKGROUND \/ OP_EXEC_SIMPLE \/ ForkFails \/ vm_exec_string \/ OP_HALT
    BY <2>5, OP_BACKGROUND_OK, OP_EXEC_SIMPLE_OK, ForkFails_OK, vm_exec_string_OK, OP_HALT_OK
  <2>6. CASE \/ \E status \in Codes : builtin_exit(status)
             \/ \E n \in WaitArgs : builtin_wait_pid(n)
    BY <2>6, builtin_exit_OK, builtin_wait_pid_OK
  <2> QED BY <1>2, <2>1, <2>2, <2>3, <2>4, <2>5, <2>6 DEF ScriptStep
<1>3. CASE WorldStep
  BY <1>3, ChildExit_OK, ChildStop_OK, ChildContinue_OK, Deliver_OK DEF WorldStep
<1>4. CASE UNCHANGED vars
  <2>1. Mono
    BY <1>4, StutterMono DEF vars
  <2> QED BY <1>4, <2>1, SameTableOK DEF vars, IInv, TypeOK, Waiting
<1> QED BY <1>1, <1>2, <1>3, <1>4 DEF Next, Terminated

(* In every reachable state all tables are right about the processes.      *)
THEOREM Invariance == Spec => []IInv
BY InitOK, NextOK, PTL DEF Spec

(* Every variable keeps its type in every reachable state, and whoever is  *)
(* inside job_wait_fg waits for a job of the current table.                *)
THEOREM TypeCorrect == Spec => []TypeOK
<1>1. IInv => TypeOK
  BY DEF IInv
<1> QED BY <1>1, Invariance, PTL

(* %+ and %- never dangle: job_remove keeps them right whichever jobs are  *)
(* removed in whatever order.                                              *)
THEOREM RefsCorrect == Spec => []RefsOK
<1>1. IInv => RefsOK
  BY DEF IInv, TypeOK, TableOK, Refs, RefsOK
<1> QED BY <1>1, Invariance, PTL

(* A job that the table calls DONE has ended, with the status of its last  *)
(* command: also in eval, and also when "wait -1" or a VM of eval collects *)
(* processes behind the back of the table.                                 *)
THEOREM DoneCorrect == Spec => []DoneIsTrue
<1>1. IInv => DoneIsTrue
  <2> SUFFICES ASSUME IInv, NEW j \in AllJobs, j.state = "DONE"
               PROVE  /\ \A p \in j.pids : proc[p].st = "gone"
                      /\ j.status = proc[j.last].code
    BY DEF DoneIsTrue
  <2>1. PICK d \in 1 .. MaxDepth : \E i \in Ids(tabs[d]) : j = tabs[d].jobs[i]
    BY DEF AllJobs, IInv, TypeOK
  <2>2. JobOK(j, proc, npid)
    BY <2>1 DEF IInv, TableOK
  <2> QED BY <2>2 DEF JobOK, JobType
<1> QED BY <1>1, Invariance, PTL
=============================================================================
