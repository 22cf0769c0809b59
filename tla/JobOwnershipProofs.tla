------------------------- MODULE JobOwnershipProofs -------------------------
(***************************************************************************)
(* The ownership rule of job.h holds as long as there is one VM (no eval,  *)
(* no source, no trap handler) and "wait n" is given positive numbers:     *)
(* no process of a job is collected behind the back of the job table, and  *)
(* job_wait_fg never blocks on a group that has no process left.           *)
(***************************************************************************)
EXTENDS JobControlProofs

Disciplined == MaxDepth = 1 /\ WaitArgs \subseteq Nat \ {0}

(* The processes pr in the group of a job are the pids of the job, and     *)
(* the ones among them that are gone are known to be done.                 *)
OwnsJob(j, pr) ==
    \A p \in Pids : /\ pr[p].grp = j.pgid <=> p \in j.pids
                    /\ p \in j.pids /\ pr[p].st = "gone" => p \in j.pid_done

OwnsTable(t, pr) ==
    /\ \A i \in Ids(t) : OwnsJob(t.jobs[i], pr)
    /\ \A i, k \in Ids(t) : t.jobs[i].pgid = t.jobs[k].pgid => i = k

(* The processes 1 .. n have been forked, and groups are named after them. *)
Forked(pr, n) ==
    /\ \A p \in 1 .. n : pr[p].st # "none"
    /\ \A p \in Pids : pr[p].grp <= n

(* The inductive invariant, on top of IInv.                                *)
OwnInv ==
    /\ OwnsTable(Table, proc)
    /\ Forked(proc, npid)
    /\ pc = "direct" => target > 0 /\ \A i \in Ids(Table) : target \notin Table.jobs[i].pids
    /\ pc \in {"block", "eintr"} => Table.jobs[target].state = "RUNNING"

-----------------------------------------------------------------------------
(* Operations on the table.                                                *)

(* Removing jobs, and changing them in ways that forget no done process.   *)
LEMMA OwnsFewer ==
    ASSUME NEW t, NEW u, NEW pr, OwnsTable(t, pr), Ids(u) \subseteq Ids(t),
           \A i \in Ids(u) : /\ u.jobs[i].pgid = t.jobs[i].pgid
                             /\ u.jobs[i].pids = t.jobs[i].pids
                             /\ t.jobs[i].pid_done \subseteq u.jobs[i].pid_done
    PROVE  OwnsTable(u, pr)
BY DEF OwnsTable, OwnsJob

(* job_remove keeps the ownership of the jobs that stay.                   *)
LEMMA RemoveOwns ==
    ASSUME NEW t, NEW pr, OwnsTable(t, pr), NEW R
    PROVE  OwnsTable(job_remove(t, R), pr)
<1>1. /\ Ids(job_remove(t, R)) \subseteq Ids(t)
      /\ \A i \in Ids(job_remove(t, R)) : job_remove(t, R).jobs[i] = t.jobs[i]
  BY DEF job_remove, Ids
<1> QED BY <1>1, OwnsFewer

(* job_reap_done keeps ownership.                                          *)
LEMMA ReapOwns ==
    ASSUME NEW t, NEW pr, OwnsTable(t, pr)
    PROVE  OwnsTable(job_reap_done(t), pr)
BY RemoveOwns DEF job_reap_done

(* Notify keeps ownership.                                                 *)
LEMMA NotifyOwns ==
    ASSUME NEW t, TableType(t), NEW pr, OwnsTable(t, pr), NEW N
    PROVE  OwnsTable(Notify(t, N), pr)
<1> DEFINE u == Notify(t, N)
<1>1. Ids(u) = Ids(t)
  BY DEF Notify, Ids, TableType
<1>2. \A i \in Ids(t) :
         u.jobs[i] = IF i \in N /\ t.jobs[i].state = "DONE"
                     THEN [t.jobs[i] EXCEPT !.notified = TRUE] ELSE t.jobs[i]
  BY DEF Notify, TableType, Ids
<1>3. \A i \in Ids(t) : /\ u.jobs[i].pgid = t.jobs[i].pgid
                        /\ u.jobs[i].pids = t.jobs[i].pids
                        /\ u.jobs[i].pid_done = t.jobs[i].pid_done
  BY <1>2 DEF TableType, JobType
<1> QED BY <1>1, <1>3, OwnsFewer

(* Resume keeps ownership.                                                 *)
LEMMA ResumeOwns ==
    ASSUME NEW t, TableType(t), NEW pr, OwnsTable(t, pr), NEW i \in Ids(t)
    PROVE  OwnsTable(Resume(t, i), pr)
<1>1. CASE t.jobs[i].state = "STOPPED"
  <2> DEFINE u == [t EXCEPT !.jobs[i].state = "RUNNING"]
  <2>1. Ids(u) = Ids(t)
    BY DEF Ids, TableType
  <2>2. \A k \in Ids(t) :
           u.jobs[k] = IF k = i THEN [t.jobs[k] EXCEPT !.state = "RUNNING"] ELSE t.jobs[k]
    BY DEF Ids, TableType
  <2>3. \A k \in Ids(t) : /\ u.jobs[k].pgid = t.jobs[k].pgid
                          /\ u.jobs[k].pids = t.jobs[k].pids
                          /\ u.jobs[k].pid_done = t.jobs[k].pid_done
    BY <2>2 DEF TableType, JobType
  <2>4. Resume(t, i) = u
    BY <1>1 DEF Resume
  <2> HIDE DEF u
  <2> QED BY <2>1, <2>3, <2>4, OwnsFewer
<1>2. CASE t.jobs[i].state # "STOPPED"
  BY <1>2 DEF Resume
<1> QED BY <1>1, <1>2

(* The kernel neither moves a process to another group nor collects it.    *)
Keeps(pr, pr2) ==
    \A p \in Pids : pr2[p].grp = pr[p].grp /\ (pr2[p].st = "gone" => pr[p].st = "gone")

(* Stops, continues and exits of processes keep ownership.                 *)
LEMMA KernelOwns ==
    ASSUME NEW t, NEW pr, NEW pr2, OwnsTable(t, pr), Keeps(pr, pr2)
    PROVE  OwnsTable(t, pr2)
BY DEF OwnsTable, OwnsJob, Keeps

(* waitpid reported p, and every job that holds p took the report.         *)
LEMMA ConsumeOwns ==
    ASSUME proc \in ProcTables, NEW t, TableType(t), OwnsTable(t, proc), NEW p \in Pids, HasReport(p),
           NEW u, Ids(u) = Ids(t),
           \A i \in Ids(t) :
              /\ u.jobs[i].pgid = t.jobs[i].pgid
              /\ u.jobs[i].pids = t.jobs[i].pids
              /\ t.jobs[i].pid_done \subseteq u.jobs[i].pid_done
              /\ p \in t.jobs[i].pids /\ Report(p) = "exited" => p \in u.jobs[i].pid_done
    PROVE  OwnsTable(u, Consume(p))
<1>1. \A q \in Pids : /\ Consume(p)[q].grp = proc[q].grp
                      /\ q # p => Consume(p)[q] = proc[q]
                      /\ Consume(p)[p].st = "gone" => Report(p) = "exited"
  BY DEF Consume, ProcTables, HasReport, IsChild, Report
<1> QED BY <1>1 DEF OwnsTable, OwnsJob

(* What Apply leaves alone and what it adds.                               *)
LEMMA ApplyOwns ==
    ASSUME NEW j, JobType(j), NEW p \in j.pids, NEW report, NEW code \in Status,
           report \in {"exited", "stopped", "continued"}
    PROVE  LET k == Apply(j, p, report, code) IN
           /\ k.pgid = j.pgid /\ k.pids = j.pids /\ j.pid_done \subseteq k.pid_done
           /\ report = "exited" => p \in k.pid_done
           /\ DOMAIN k = DOMAIN j
<1>1. CASE report = "exited"
  <2> DEFINE k == [j EXCEPT !.pid_done = @ \cup {p}, !.pid_status[p] = code]
  <2>1. /\ k.pid_done = j.pid_done \cup {p} /\ k.pids = j.pids
        /\ k.pgid = j.pgid /\ DOMAIN k = DOMAIN j
    BY DEF JobType
  <2>2. LET l == job_check_complete(k) IN
           l.pid_done = k.pid_done /\ l.pids = k.pids /\ l.pgid = k.pgid /\ DOMAIN l = DOMAIN k
    <3>1. DOMAIN k = {"command", "pgid", "pids", "last", "pid_done", "pid_status", "state",
                      "status", "notified"}
      BY <2>1 DEF JobType
    <3> HIDE DEF k
    <3> QED BY <3>1 DEF job_check_complete
  <2>3. Apply(j, p, report, code) = job_check_complete(k)
    BY <1>1 DEF Apply
  <2> QED BY <2>1, <2>2, <2>3
<1>2. CASE report = "stopped"
  BY <1>2 DEF Apply, JobType
<1>3. CASE report = "continued"
  BY <1>3 DEF Apply, JobType
<1> QED BY <1>1, <1>2, <1>3

(* A turn of job_update records the process that it collects.              *)
LEMMA UpdateOwns ==
    ASSUME proc \in ProcTables, NEW t, TableType(t), OwnsTable(t, proc), NEW p \in Pids, HasReport(p)
    PROVE  OwnsTable(job_update(t, p, Report(p), proc[p].code), Consume(p))
<1> DEFINE i == job_find_by_pid(t, p)
           j == Apply(t.jobs[i], p, Report(p), proc[p].code)
           k == IF Report(p) = "continued" THEN [j EXCEPT !.notified = FALSE] ELSE j
           u == [t EXCEPT !.jobs[i] = k]
<1>0. /\ Report(p) \in {"exited", "stopped", "continued"} /\ proc[p].code \in Status
      /\ i # NoJob => i \in Ids(t) /\ p \in t.jobs[i].pids
      /\ i = NoJob => \A m \in Ids(t) : p \notin t.jobs[m].pids
  BY ConsumeProp, FindByPidProp DEF ProcTables
<1>1. CASE i = NoJob
  <2>1. OwnsTable(t, Consume(p))
    BY <1>0, <1>1, ConsumeOwns
  <2> QED BY <1>1, <2>1 DEF job_update
<1>2. CASE i # NoJob
  <2>1. /\ j.pgid = t.jobs[i].pgid /\ j.pids = t.jobs[i].pids
        /\ t.jobs[i].pid_done \subseteq j.pid_done /\ DOMAIN j = DOMAIN t.jobs[i]
        /\ Report(p) = "exited" => p \in j.pid_done
    BY <1>0, <1>2, ApplyOwns DEF TableType
  <2>2. /\ k.pgid = t.jobs[i].pgid /\ k.pids = t.jobs[i].pids
        /\ t.jobs[i].pid_done \subseteq k.pid_done
        /\ Report(p) = "exited" => p \in k.pid_done
    <3>1. DOMAIN j = {"command", "pgid", "pids", "last", "pid_done", "pid_status", "state",
                      "status", "notified"}
      BY <1>0, <1>2, <2>1 DEF TableType, JobType
    <3> HIDE DEF j, i
    <3> QED BY <2>1, <3>1
  <2>3. job_update(t, p, Report(p), proc[p].code) = u
    BY <1>2 DEF job_update
  <2> HIDE DEF i, k
  <2>4. Ids(u) = Ids(t) /\ \A m \in Ids(t) : u.jobs[m] = IF m = i THEN k ELSE t.jobs[m]
    BY DEF Ids, TableType
  <2>5. \A m \in Ids(t) : p \in t.jobs[m].pids => m = i
    BY <1>0, <1>2 DEF OwnsTable, OwnsJob
  <2> HIDE DEF u
  <2> QED BY <2>2, <2>3, <2>4, <2>5, ConsumeOwns
<1> QED BY <1>1, <1>2

(* A turn of job_wait_fg records the process that it collects.             *)
LEMMA WaitFgOwns ==
    ASSUME proc \in ProcTables, NEW t, TableType(t), OwnsTable(t, proc), NEW p \in Pids, HasReport(p),
           NEW i \in Ids(t), proc[p].grp = t.jobs[i].pgid
    PROVE  OwnsTable(job_wait_fg(t, i, p, Report(p), proc[p].code), Consume(p))
<1> DEFINE j == Apply(t.jobs[i], p, Report(p), proc[p].code)
           u == [t EXCEPT !.jobs[i] = j]
<1>0. /\ Report(p) \in {"exited", "stopped", "continued"} /\ proc[p].code \in Status
      /\ p \in t.jobs[i].pids
  BY ConsumeProp DEF ProcTables, OwnsTable, OwnsJob
<1>1. /\ j.pgid = t.jobs[i].pgid /\ j.pids = t.jobs[i].pids
      /\ t.jobs[i].pid_done \subseteq j.pid_done
      /\ Report(p) = "exited" => p \in j.pid_done
  BY <1>0, ApplyOwns DEF TableType
<1>2. job_wait_fg(t, i, p, Report(p), proc[p].code) = u
  BY <1>0 DEF job_wait_fg
<1> HIDE DEF j
<1>3. Ids(u) = Ids(t) /\ \A m \in Ids(t) : u.jobs[m] = IF m = i THEN j ELSE t.jobs[m]
  BY DEF Ids, TableType
<1>4. \A m \in Ids(t) : p \in t.jobs[m].pids => m = i
  BY <1>0 DEF OwnsTable, OwnsJob
<1> HIDE DEF u
<1> QED BY <1>1, <1>2, <1>3, <1>4, ConsumeOwns

(* New children npid + 1 .. npid + k in a new group, or in the group 0 of  *)
(* the shell, belong to no job yet.                                        *)
Forks(k, g) ==
    proc' = [p \in Pids |-> IF p \in (npid + 1) .. (npid + k) THEN Child(g) ELSE proc[p]]

(* Processes in new groups, or in the group of the shell, are no job's.    *)
LEMMA ForkOwns ==
    ASSUME IInv, OwnsTable(Table, proc), NEW k \in Nat, npid + k <= MaxPid,
           NEW g \in {0, npid + 1}, Forks(k, g)
    PROVE  OwnsTable(Table, proc')
<1>0. npid \in Nat /\ TableOK(Table, proc, npid)
  BY TableIsOK
<1>1. \A i \in Ids(Table) : /\ Table.jobs[i].pgid \in 1 .. npid
                             /\ Table.jobs[i].pids \subseteq 1 .. npid
  BY <1>0 DEF TableOK, JobOK
<1>2. \A p \in Pids : /\ p \in 1 .. npid => proc'[p] = proc[p]
                      /\ proc'[p] = proc[p] \/ (proc'[p].grp = g /\ proc'[p].st = "run")
  BY <1>0 DEF Forks, Child, Pids
<1>3. \A i \in Ids(Table) : OwnsJob(Table.jobs[i], proc')
  BY <1>0, <1>1, <1>2 DEF OwnsTable, OwnsJob
<1> QED BY <1>3 DEF OwnsTable

(* job_add makes a new group the property of a new job.                    *)
LEMMA AddOwns ==
    ASSUME IInv, OwnInv, NEW k \in Nat \ {0}, npid + k <= MaxPid,
           Forks(k, npid + 1), NEW command
    PROVE  OwnsTable(job_add(Table, npid + 1, (npid + 1) .. (npid + k), npid + k, command), proc')
<1> DEFINE P == (npid + 1) .. (npid + k)
           j == NewJob(npid + 1, P, npid + k, command)
           u == job_add(Table, npid + 1, P, npid + k, command)
<1>0. npid \in Nat /\ TableOK(Table, proc, npid) /\ proc \in ProcTables
  BY TableIsOK DEF IInv, TypeOK
<1>1. OwnsTable(Table, proc')
  BY <1>0, ForkOwns DEF OwnInv
<1>2. \A i \in Ids(Table) : Table.jobs[i].pgid \in 1 .. npid
  BY <1>0 DEF TableOK, JobOK
<1>3. Table.next_id \notin Ids(Table)
  BY <1>0 DEF TableOK, TableType
<1>4. /\ Ids(u) = Ids(Table) \cup {Table.next_id} /\ u.jobs[Table.next_id] = j
      /\ \A i \in Ids(Table) : u.jobs[i] = Table.jobs[i]
  BY <1>3 DEF job_add, Ids
<1>5. OwnsJob(j, proc')
  <2>1. j.pgid = npid + 1 /\ j.pids = P
    BY DEF NewJob
  <2>2. \A p \in Pids : p \notin P => proc[p].grp # npid + 1
    BY <1>0 DEF OwnInv, Forked, ProcTables
  <2> QED BY <1>0, <2>1, <2>2 DEF OwnsJob, Forks, Child
<1>6. j.pgid = npid + 1
  BY DEF NewJob
<1>7. OwnsTable(u, proc')
  <2> HIDE DEF j, u
  <2> QED BY <1>0, <1>1, <1>2, <1>4, <1>5, <1>6 DEF OwnsTable
<1> QED BY <1>7

-----------------------------------------------------------------------------
(* The ways in which a step treats the kernel and ends.                    *)

(* With one VM, SetTable sets the only table.                              *)
LEMMA SetTableProp ==
    ASSUME IInv, NEW t, SetTable(t), depth' = depth
    PROVE  Table' = t
BY DEF IInv, TypeOK, SetTable, Table

(* A step that leaves job_wait_fg and every direct wait.                   *)
LEMMA EndOwn ==
    ASSUME IInv, OwnInv, NEW t, SetTable(t), depth' = depth, OwnsTable(t, proc'),
           Forked(proc', npid'), pc' \in {"ready", "update", "head", "halted"}
    PROVE  OwnInv'
<1>1. Table' = t
  BY SetTableProp
<1> QED BY <1>1 DEF OwnInv, Forked, OwnsTable, OwnsJob

(* An opcode that ends with Finish keeps ownership.                        *)
LEMMA FinishOwn ==
    ASSUME IInv, OwnInv, NEW t, NEW status, Finish(t, status), depth' = depth,
           OwnsTable(t, proc'), Forked(proc', npid')
    PROVE  OwnInv'
BY EndOwn DEF Finish

(* A step that leaves the table and the control point as they are.         *)
LEMMA SameOwn ==
    ASSUME IInv, OwnInv, tabs' = tabs, depth' = depth, OwnsTable(Table, proc'),
           Forked(proc', npid'),
           pc' = "direct" => target' > 0 /\ \A i \in Ids(Table) : target' \notin Table.jobs[i].pids,
           pc' \in {"block", "eintr"} => Table.jobs[target'].state = "RUNNING"
    PROVE  OwnInv'
<1>1. Table' = Table
  BY DEF Table
<1> QED BY <1>1 DEF OwnInv, Forked, OwnsTable, OwnsJob

(* What waitpid, signals and the life of a child do to the processes.      *)
Tame ==
    /\ npid' = npid
    /\ \A p \in Pids : proc'[p].grp = proc[p].grp /\ (proc'[p].st = "none" => proc[p].st = "none")

(* A step of the kernel that forks nothing keeps Forked.                   *)
LEMMA TameForked ==
    ASSUME IInv, OwnInv, Tame
    PROVE  Forked(proc', npid')
<1>1. 1 .. npid \subseteq Pids
  BY JobControlAssumption DEF IInv, TypeOK, Pids
<1> QED BY <1>1 DEF OwnInv, Forked, Tame

(* No process changes.                                                     *)
LEMMA StutterTame ==
    ASSUME UNCHANGED <<proc, npid>>
    PROVE  Tame /\ Keeps(proc, proc')
BY DEF Tame, Keeps

(* waitpid moves no process to another group.                              *)
LEMMA ConsumeTame ==
    ASSUME IInv, NEW p \in Pids, HasReport(p), proc' = Consume(p), npid' = npid
    PROVE  Tame
BY DEF IInv, TypeOK, ProcTables, Tame, Consume, HasReport, IsChild

(* Signals move no process to another group and collect none.              *)
LEMMA SignalTame ==
    ASSUME IInv, npid' = npid,
           \/ \E P : proc' = Continued(P)
           \/ \E P : proc' = Stopped(P)
           \/ \E by : proc' = Killed(by)
    PROVE  Tame /\ Keeps(proc, proc')
<1>0. proc \in ProcTables
  BY DEF IInv, TypeOK
<1>1. CASE \E P : proc' = Continued(P)
  BY <1>0, <1>1 DEF Tame, Keeps, Continued, ProcTables
<1>2. CASE \E P : proc' = Stopped(P)
  BY <1>0, <1>2 DEF Tame, Keeps, Stopped, ProcTables
<1>3. CASE \E by : proc' = Killed(by)
  <2>1. PICK by : proc' = Killed(by)
    BY <1>3
  <2>2. \A p \in Pids : \/ proc'[p] = proc[p]
                        \/ proc'[p].grp = proc[p].grp /\ proc'[p].st = "zombie"
    <3> TAKE p \in Pids
    <3> DEFINE c == 128 + by[p]
               r == [proc[p] EXCEPT !.st = "zombie", !.rep = "none", !.code = c]
    <3>1. proc'[p] = proc[p] \/ proc'[p] = r
      BY <2>1 DEF Killed
    <3>2. r.grp = proc[p].grp /\ r.st = "zombie"
      <4> HIDE DEF c
      <4> QED BY <1>0 DEF ProcTables
    <3> HIDE DEF r
    <3> QED BY <3>1, <3>2
  <2> QED BY <2>2 DEF Tame, Keeps
<1> QED BY <1>1, <1>2, <1>3

(* Forking the next pids keeps Forked.                                     *)
LEMMA ForkForked ==
    ASSUME IInv, OwnInv, NEW k \in Nat \ {0}, npid + k <= MaxPid,
           NEW g \in {0, npid + 1}, Forks(k, g), npid' = npid + k
    PROVE  Forked(proc', npid')
<1>0. npid \in Nat /\ proc \in ProcTables /\ 1 .. npid' \subseteq Pids
  BY TableIsOK, JobControlAssumption DEF IInv, TypeOK, Pids
<1>1. \A p \in Pids : IF p \in (npid + 1) .. (npid + k)
                      THEN proc'[p].grp = g /\ proc'[p].st = "run" ELSE proc'[p] = proc[p]
  BY DEF Forks, Child
<1>2. \A p \in Pids : proc[p].grp \in Nat /\ proc[p].grp <= npid
  BY <1>0, JobControlAssumption DEF OwnInv, Forked, ProcTables
<1>3. \A p \in 1 .. npid' : proc'[p].st # "none"
  BY <1>0, <1>1 DEF OwnInv, Forked
<1>4. \A p \in Pids : proc'[p].grp <= npid'
  BY <1>0, <1>1, <1>2
<1> QED BY <1>3, <1>4 DEF Forked

(* A builtin that fails keeps ownership.                                   *)
LEMMA FailsOwn ==
    ASSUME IInv, OwnInv, NEW status, Fails(status), npid' = npid, depth' = depth
    PROVE  OwnInv'
<1>1. Tame /\ OwnsTable(Table, proc')
  BY StutterTame DEF Fails, OwnInv
<1> QED BY <1>1, TameForked, FinishOwn DEF Fails

(* The return from job_wait_fg keeps ownership.                            *)
LEMMA ReturnOwn ==
    ASSUME IInv, OwnInv, Waiting, Return(Table), UNCHANGED <<proc, npid>>, depth' = depth
    PROVE  OwnInv'
<1> DEFINE told == Notify(Table, {target})
           u == IF Table.jobs[target].state = "DONE" THEN job_reap_done(told) ELSE Table
<1>0. TableOK(Table, proc, npid) /\ Tame /\ proc' = proc
  BY TableIsOK, StutterTame
<1>1. OwnsTable(told, proc') /\ OwnsTable(u, proc') /\ Forked(proc', npid')
  BY <1>0, NotifyOwns, ReapOwns, TameForked DEF OwnInv, TableOK
<1>2. CASE cont = "wait_all"
  <2>1. SetTable(told) /\ pc' = "update"
    BY <1>2 DEF Return
  <2> HIDE DEF told
  <2> QED BY <1>1, <2>1, EndOwn
<1>3. CASE cont # "wait_all"
  <2>1. Finish(u, Negated(neg, Table.jobs[target].status))
    BY <1>3 DEF Return
  <2> HIDE DEF u
  <2> QED BY <1>1, <2>1, FinishOwn
<1> QED BY <1>2, <1>3

-----------------------------------------------------------------------------
(* The actions.                                                            *)

(* Children and signals.                                                   *)
LEMMA WorldOwn ==
    ASSUME IInv, OwnInv, Tame, Keeps(proc, proc'), NEW p, Interrupt(p),
           UNCHANGED <<tabs, depth, target>>
    PROVE  OwnInv'
<1>1. OwnsTable(Table, proc') /\ Forked(proc', npid')
  BY KernelOwns, TameForked DEF OwnInv
<1>2. /\ pc' \in {"block", "eintr"} => pc \in {"block", "eintr"}
      /\ pc' = "direct" => pc = "direct"
  BY DEF Interrupt
<1> QED BY <1>1, <1>2, SameOwn DEF OwnInv

(* Whatever children and users do keeps ownership.                         *)
LEMMA WorldStepOwn ==
    ASSUME IInv, OwnInv, WorldStep
    PROVE  OwnInv'
<1>0. proc \in ProcTables
  BY DEF IInv, TypeOK
<1>1. ASSUME NEW p \in Pids, NEW c \in Codes, ChildExit(p, c) PROVE OwnInv'
  <2>1. Tame /\ Keeps(proc, proc')
    BY <1>0, <1>1 DEF ChildExit, Tame, Keeps, ProcTables
  <2> QED BY <1>1, <2>1, WorldOwn DEF ChildExit
<1>2. ASSUME NEW p \in Pids, ChildStop(p) PROVE OwnInv'
  <2>1. Tame /\ Keeps(proc, proc')
    BY <1>2, SignalTame DEF ChildStop
  <2> QED BY <1>2, <2>1, WorldOwn DEF ChildStop
<1>3. ASSUME NEW p \in Pids, ChildContinue(p) PROVE OwnInv'
  <2>1. Tame /\ Keeps(proc, proc')
    BY <1>3, SignalTame DEF ChildContinue
  <2> QED BY <1>3, <2>1, WorldOwn DEF ChildContinue
<1>4. ASSUME NEW s \in Signals, Deliver(s) PROVE OwnInv'
  <2>1. Tame /\ Keeps(proc, proc')
    BY <1>4, StutterTame DEF Deliver
  <2> QED BY <1>4, <2>1, WorldOwn DEF Deliver
<1> QED BY <1>1, <1>2, <1>3, <1>4 DEF WorldStep

(* The dispatch loop: with one VM, halting it ends the shell.              *)
LEMMA LoopOwn ==
    ASSUME Disciplined, IInv, OwnInv,
           SafePoint \/ OP_HALT \/ vm_exec_string \/ \E status \in Codes : builtin_exit(status)
    PROVE  OwnInv'
<1>0. depth = 1 /\ DOMAIN tabs = {1} /\ MaxDepth = 1 /\ pc = "ready"
  BY DEF Disciplined, IInv, TypeOK, SafePoint, OP_HALT, vm_exec_string, builtin_exit, Ready
<1>1. UNCHANGED <<proc, npid>>
  BY DEF SafePoint, OP_HALT, vm_exec_string, builtin_exit, kernel
<1>2. OwnsTable(Table, proc') /\ Forked(proc', npid')
  BY <1>1, StutterTame, TameForked DEF OwnInv
<1>3. ~ vm_exec_string
  BY <1>0 DEF vm_exec_string
<1>4. ASSUME NEW status, HaltVm(status) PROVE depth' = depth /\ Table' = Table /\ pc' = "halted"
  BY <1>0, <1>4 DEF HaltVm, Table
<1>5. ASSUME NEW status, builtin_exit(status)
      PROVE  depth' = depth /\ Table' = Table /\ pc' = "halted"
  BY <1>0, <1>5 DEF builtin_exit, Table
<1>6. SafePoint => \/ \E status : HaltVm(status)
                   \/ UNCHANGED <<tabs, depth, pc>>
  BY <1>0 DEF SafePoint
<1>7. Table' = Table /\ pc' \in {"ready", "halted"}
  <2>1. CASE UNCHANGED <<tabs, depth, pc>>
    BY <1>0, <2>1 DEF Table
  <2> QED BY <1>3, <1>4, <1>5, <1>6, <2>1 DEF OP_HALT
<1> QED BY <1>2, <1>7 DEF OwnInv, Forked, OwnsTable, OwnsJob

(* Forks.                                                                  *)
LEMMA ForkStepOwn ==
    ASSUME IInv, OwnInv,
           \/ OP_BACKGROUND \/ OP_EXEC_SIMPLE
           \/ \E n \in 2 .. MaxPipe : \E k \in 0 .. n : \E ng \in BOOLEAN : OP_PIPELINE(n, k, ng)
    PROVE  OwnInv'
<1>0. npid \in Nat /\ TableOK(Table, proc, npid) /\ proc \in ProcTables
  BY TableIsOK DEF IInv, TypeOK
<1>1. CASE OP_BACKGROUND
  <2> DEFINE p == npid + 1
             a == job_add(Table, npid + 1, (npid + 1) .. (npid + 1), npid + 1, "(background)")
  <2>1. /\ p \in Pids /\ npid + 1 <= MaxPid /\ {p} = (npid + 1) .. (npid + 1)
        /\ npid' = npid + 1 /\ 1 \in Nat \ {0}
    BY <1>0, <1>1, JobControlAssumption DEF OP_BACKGROUND, Pids
  <2>2. Forks(1, npid + 1)
    BY <1>0, <1>1, <2>1 DEF OP_BACKGROUND, Forks, ProcTables
  <2>3. OwnsTable(a, proc') /\ OwnsTable(Table, proc') /\ Forked(proc', npid')
    BY <2>1, <2>2, AddOwns, ForkOwns, ForkForked DEF OwnInv
  <2>4. (Finish(Table, 0) \/ Finish(a, 0)) /\ depth' = depth
    BY <1>1, <2>1 DEF OP_BACKGROUND
  <2> HIDE DEF a
  <2> QED BY <2>3, <2>4, FinishOwn
<1>2. CASE OP_EXEC_SIMPLE
  <2> DEFINE p == npid + 1
  <2>1. /\ p \in Pids /\ npid + 1 <= MaxPid /\ {p} = (npid + 1) .. (npid + 1)
        /\ npid' = npid + 1 /\ 1 \in Nat \ {0}
    BY <1>0, <1>2, JobControlAssumption DEF OP_EXEC_SIMPLE, Pids
  <2>2. Forks(1, 0)
    BY <1>0, <1>2, <2>1 DEF OP_EXEC_SIMPLE, Forks, ProcTables
  <2>3. OwnsTable(Table, proc') /\ Forked(proc', npid')
    BY <2>1, <2>2, ForkOwns, ForkForked DEF OwnInv
  <2>4. \A i \in Ids(Table) : p \notin Table.jobs[i].pids
    BY <1>0 DEF TableOK, JobOK
  <2> QED BY <1>0, <1>2, <2>3, <2>4, SameOwn DEF OP_EXEC_SIMPLE
<1>3. ASSUME NEW n \in 2 .. MaxPipe, NEW k \in 0 .. n, NEW ng \in BOOLEAN, OP_PIPELINE(n, k, ng)
      PROVE  OwnInv'
  <2> DEFINE a == job_add(Table, npid + 1, (npid + 1) .. (npid + k), npid + k, "(pipeline)")
  <2>1. k \in Nat /\ npid + k <= MaxPid /\ npid' = npid + k /\ Forks(k, npid + 1) /\ depth' = depth
    BY <1>3 DEF OP_PIPELINE, Forks
  <2>2. CASE k = 0
    <3>1. proc' = proc /\ npid' = npid
      BY <1>0, <2>1, <2>2 DEF Forks, ProcTables
    <3>2. OwnsTable(Table, proc') /\ Forked(proc', npid')
      BY <3>1, StutterTame, TameForked DEF OwnInv
    <3>3. \E status : Finish(Table, status)
      BY <1>3, <2>2 DEF OP_PIPELINE
    <3> QED BY <2>1, <3>2, <3>3, FinishOwn
  <2>3. CASE k # 0
    <3>1. OwnsTable(a, proc') /\ OwnsTable(Table, proc') /\ Forked(proc', npid')
      BY <2>1, <2>3, AddOwns, ForkOwns, ForkForked DEF OwnInv
    <3>2. (\E status : Finish(Table, status)) \/ (SetTable(a) /\ pc' = "head")
      BY <1>3, <2>3 DEF OP_PIPELINE
    <3> HIDE DEF a
    <3> QED BY <2>1, <3>1, <3>2, FinishOwn, EndOwn
  <2> QED BY <2>2, <2>3
<1> QED BY <1>1, <1>2, <1>3

(* waitpid outside the job table collects no process of a job.             *)
LEMMA DirectWaitOwn ==
    ASSUME IInv, OwnInv, DirectWait
    PROVE  OwnInv'
<1>0. /\ TableOK(Table, proc, npid) /\ proc \in ProcTables /\ depth' = depth /\ npid' = npid
      /\ target > 0 /\ \A i \in Ids(Table) : target \notin Table.jobs[i].pids
  BY TableIsOK DEF IInv, TypeOK, DirectWait, OwnInv
<1>1. ASSUME NEW p \in Matches(target), proc[p].st = "zombie", proc' = Consume(p),
             Finish(Table, proc[p].code)
      PROVE  OwnInv'
  <2>1. p \in Pids /\ p = target /\ HasReport(p)
    BY <1>0, <1>1 DEF Matches, HasReport, IsChild, Report
  <2>2. OwnsTable(Table, Consume(p))
    BY <1>0, <2>1, ConsumeOwns DEF OwnInv, TableOK
  <2>3. Forked(proc', npid')
    BY <1>0, <1>1, <2>1, ConsumeTame, TameForked
  <2> QED BY <1>0, <1>1, <2>2, <2>3, FinishOwn
<1>2. CASE proc' = proc /\ Finish(Table, 127)
  <2>1. OwnsTable(Table, proc') /\ Forked(proc', npid')
    BY <1>0, <1>2, StutterTame, TameForked DEF OwnInv
  <2> QED BY <1>0, <1>2, <2>1, FinishOwn
<1> QED BY <1>1, <1>2 DEF DirectWait

(* The steps of job_wait_fg keep ownership.                                *)
LEMMA WaitStepOwn ==
    ASSUME IInv, OwnInv,
           WaitHead \/ WaitECHILD \/ WaitEINTR \/ \E p \in Pids : WaitReport(p)
    PROVE  OwnInv'
<1>0. /\ TableOK(Table, proc, npid) /\ proc \in ProcTables /\ depth' = depth /\ npid' = npid
      /\ Waiting /\ target \in Ids(Table)
  BY TableIsOK DEF IInv, TypeOK, Waiting, WaitHead, WaitECHILD, WaitEINTR, WaitReport, kernel
<1>1. CASE WaitECHILD
  BY <1>0, <1>1, ReturnOwn DEF WaitECHILD, kernel
<1>2. CASE WaitHead
  <2>1. CASE Return(Table)
    BY <1>0, <1>2, <2>1, ReturnOwn DEF WaitHead, kernel
  <2>2. CASE ~ Return(Table)
    <3>1. /\ pc' = "block" /\ tabs' = tabs /\ target' = target /\ proc' = proc
          /\ Table.jobs[target].state = "RUNNING"
      BY <1>2, <2>2 DEF WaitHead, kernel
    <3>2. OwnsTable(Table, proc') /\ Forked(proc', npid')
      BY <1>0, <3>1, StutterTame, TameForked DEF OwnInv
    <3> QED BY <1>0, <3>1, <3>2, SameOwn
  <2> QED BY <2>1, <2>2
<1>3. CASE WaitEINTR
  <2>1. \E by : proc' = Killed(by)
    BY <1>3 DEF WaitEINTR
  <2>2. OwnsTable(Table, proc') /\ Forked(proc', npid')
    BY <1>0, <2>1, SignalTame, KernelOwns, TameForked DEF OwnInv
  <2> QED BY <1>0, <1>3, <2>2, SameOwn DEF WaitEINTR
<1>4. ASSUME NEW p \in Pids, WaitReport(p) PROVE OwnInv'
  <2> DEFINE t == job_wait_fg(Table, target, p, Report(p), proc[p].code)
  <2>1. /\ HasReport(p) /\ proc' = Consume(p) /\ proc[p].grp = Table.jobs[target].pgid
        /\ SetTable(t) /\ pc' = "head"
    BY <1>4 DEF WaitReport, Members
  <2>2. OwnsTable(t, proc')
    BY <1>0, <2>1, WaitFgOwns DEF OwnInv, TableOK
  <2>3. Forked(proc', npid')
    BY <1>0, <2>1, ConsumeTame, TameForked
  <2> HIDE DEF t
  <2> QED BY <1>0, <2>1, <2>2, <2>3, EndOwn
<1> QED BY <1>1, <1>2, <1>3, <1>4

(* SIGCONT to the group of a stopped job keeps ownership.                  *)
LEMMA ResumedOwns ==
    ASSUME IInv, OwnInv, NEW i \in Ids(Table), proc' = Resumed(Table, i), npid' = npid
    PROVE  OwnsTable(Resume(Table, i), proc') /\ Forked(proc', npid')
<1>0. TableOK(Table, proc, npid)
  BY TableIsOK
<1>1. Tame /\ Keeps(proc, proc')
  BY SignalTame, StutterTame DEF Resumed
<1>2. OwnsTable(Table, proc')
  BY <1>1, KernelOwns DEF OwnInv
<1> QED BY <1>0, <1>1, <1>2, ResumeOwns, TameForked DEF TableOK

(* The steps of job_update and of its callers keep ownership.              *)
LEMMA UpdateStepOwn ==
    ASSUME IInv, OwnInv,
           \/ JobsDone \/ WaitNext \/ \E p \in Pids : UpdateReport(p)
           \/ builtin_wait \/ builtin_jobs
    PROVE  OwnInv'
<1>0. /\ TableOK(Table, proc, npid) /\ proc \in ProcTables /\ depth' = depth /\ npid' = npid
  BY TableIsOK
     DEF IInv, TypeOK, JobsDone, WaitNext, UpdateReport, builtin_wait, builtin_jobs,
         Call_job_update, kernel
<1>1. CASE JobsDone
  <2> DEFINE t == job_reap_done(Notify(Table, Ids(Table)))
  <2>1. proc' = proc /\ Finish(t, 0)
    BY <1>1 DEF JobsDone, kernel
  <2>2. OwnsTable(t, proc') /\ Forked(proc', npid')
    BY <1>0, <2>1, NotifyOwns, ReapOwns, StutterTame, TameForked DEF OwnInv, TableOK
  <2> HIDE DEF t
  <2> QED BY <1>0, <2>1, <2>2, FinishOwn
<1>2. CASE WaitNext
  <2> DEFINE i == NotDone(Table)
  <2>1. CASE i = NoJob
    <3>1. proc' = proc /\ Finish(job_reap_done(Table), laststatus)
      BY <1>2, <2>1 DEF WaitNext
    <3>2. OwnsTable(job_reap_done(Table), proc') /\ Forked(proc', npid')
      BY <1>0, <3>1, ReapOwns, StutterTame, TameForked DEF OwnInv
    <3> QED BY <1>0, <3>1, <3>2, FinishOwn
  <2>2. CASE i # NoJob
    <3>1. i \in Ids(Table) /\ proc' = Resumed(Table, i) /\ SetTable(Resume(Table, i)) /\ pc' = "head"
      BY <1>0, <1>2, <2>2, NotDoneProp DEF WaitNext, Call_job_wait_fg, TableOK
    <3> HIDE DEF i
    <3> QED BY <1>0, <3>1, ResumedOwns, EndOwn
  <2> QED BY <2>1, <2>2
<1>3. ASSUME NEW p \in Pids, UpdateReport(p) PROVE OwnInv'
  <2> DEFINE t == job_update(Table, p, Report(p), proc[p].code)
  <2>1. HasReport(p) /\ proc' = Consume(p) /\ SetTable(t) /\ pc' = "update"
    BY <1>3 DEF UpdateReport
  <2>2. OwnsTable(t, proc')
    BY <1>0, <2>1, UpdateOwns DEF OwnInv, TableOK
  <2>3. Forked(proc', npid')
    BY <1>0, <2>1, ConsumeTame, TameForked
  <2> HIDE DEF t
  <2> QED BY <1>0, <2>1, <2>2, <2>3, EndOwn
<1>4. CASE builtin_wait \/ builtin_jobs
  <2>1. proc' = proc /\ tabs' = tabs /\ pc' = "update"
    BY <1>4 DEF builtin_wait, builtin_jobs, Call_job_update, kernel
  <2>2. OwnsTable(Table, proc') /\ Forked(proc', npid')
    BY <1>0, <2>1, StutterTame, TameForked DEF OwnInv
  <2> QED BY <1>0, <2>1, <2>2, SameOwn
<1> QED BY <1>1, <1>2, <1>3, <1>4

(* builtin_wait looks for the pid in the job table before it waits for it. *)
LEMMA WaitForOneOwn ==
    ASSUME Disciplined, IInv, OwnInv,
           \/ \E n \in WaitArgs : builtin_wait_pid(n)
           \/ \E spec : builtin_wait_job(spec)
           \/ ForkFails
    PROVE  OwnInv'
<1>0. /\ TableOK(Table, proc, npid) /\ depth' = depth /\ npid' = npid /\ proc' = proc
  BY TableIsOK DEF builtin_wait_pid, builtin_wait_job, ForkFails, kernel
<1>1. OwnsTable(Table, proc') /\ Forked(proc', npid')
  BY <1>0, StutterTame, TameForked DEF OwnInv
<1>2. CASE (\E status : Finish(Table, status)) \/ (SetTable(Table) /\ pc' = "head")
  BY <1>0, <1>1, <1>2, FinishOwn, EndOwn
<1>3. ASSUME NEW n \in WaitArgs, builtin_wait_pid(n) PROVE OwnInv'
  <2>1. CASE job_find_by_pid(Table, n) # NoJob
    BY <1>2, <1>3, <2>1 DEF builtin_wait_pid, Call_job_wait_fg
  <2>2. CASE job_find_by_pid(Table, n) = NoJob
    <3>1. pc' = "direct" /\ target' = n /\ tabs' = tabs
      BY <1>3, <2>2 DEF builtin_wait_pid
    <3>2. n > 0 /\ \A i \in Ids(Table) : n \notin Table.jobs[i].pids
      BY <1>0, <2>2, FindByPidProp DEF Disciplined, TableOK
    <3> QED BY <1>0, <1>1, <3>1, <3>2, SameOwn
  <2> QED BY <2>1, <2>2
<1>4. ASSUME NEW spec, builtin_wait_job(spec) PROVE OwnInv'
  BY <1>2, <1>4 DEF builtin_wait_job, Call_job_wait_fg
<1>5. CASE ForkFails
  BY <1>2, <1>5 DEF ForkFails
<1> QED BY <1>3, <1>4, <1>5

(* The builtins fg, bg, wait and kill keep ownership.                      *)
LEMMA BuiltinOwn ==
    ASSUME IInv, OwnInv, NEW spec, NEW p, NEW s,
           \/ builtin_fg(spec) \/ builtin_bg(spec)
           \/ builtin_kill_job(spec, s) \/ builtin_kill_pid(p, s)
    PROVE  OwnInv'
<1> DEFINE i == job_parse_spec(Table, spec)
<1>0. /\ TableOK(Table, proc, npid) /\ depth' = depth /\ npid' = npid
      /\ i \in Ids(Table) \cup {NoJob}
  BY TableIsOK, ParseSpecProp DEF builtin_fg, builtin_bg, builtin_kill_job, builtin_kill_pid, TableOK
<1>1. CASE Fails(1)
  BY <1>0, <1>1, FailsOwn
<1>2. CASE ~ Fails(1) /\ (builtin_fg(spec) \/ builtin_bg(spec))
  <2>1. /\ i \in Ids(Table) /\ proc' = Resumed(Table, i)
        /\ SetTable(Resume(Table, i)) /\ pc' \in {"head", "ready"}
    BY <1>0, <1>2 DEF builtin_fg, builtin_bg, Call_job_wait_fg, Finish
  <2> HIDE DEF i
  <2> QED BY <1>0, <2>1, ResumedOwns, EndOwn
<1>3. CASE ~ Fails(1) /\ (builtin_kill_job(spec, s) \/ builtin_kill_pid(p, s))
  <2>1. PICK P : Send(P, s)
    BY <1>3 DEF builtin_kill_job, builtin_kill_pid
  <2>2. /\ \/ proc' = Stopped(P) \/ proc' = Continued(P) \/ \E by : proc' = Killed(by)
        /\ Finish(Table, 0)
    BY <1>3, <2>1 DEF Send
  <2>3. OwnsTable(Table, proc') /\ Forked(proc', npid')
    BY <1>0, <2>2, SignalTame, KernelOwns, TameForked DEF OwnInv
  <2> QED BY <1>0, <2>2, <2>3, FinishOwn
<1> QED BY <1>1, <1>2, <1>3

-----------------------------------------------------------------------------
(* There is nothing to own when the shell starts.                          *)
LEMMA InitOwn == Init => OwnInv
<1> SUFFICES ASSUME Init PROVE OwnInv
  OBVIOUS
<1>1. Table = job_table_init /\ npid = 0
  BY JobControlAssumption DEF Init, Table
<1>2. OwnsTable(Table, proc)
  BY <1>1 DEF job_table_init, OwnsTable, Ids
<1>3. Forked(proc, npid)
  BY <1>1 DEF Init, Forked, NoChild
<1> QED BY <1>2, <1>3 DEF OwnInv, Init

(* Every step of a disciplined shell keeps ownership.                      *)
LEMMA NextOwn ==
    ASSUME Disciplined
    PROVE  IInv /\ OwnInv /\ [Next]_vars => OwnInv'
<1> SUFFICES ASSUME IInv, OwnInv, [Next]_vars PROVE OwnInv'
  OBVIOUS
<1>1. CASE ShellStep
  BY <1>1, LoopOwn, DirectWaitOwn, WaitStepOwn, UpdateStepOwn DEF ShellStep
<1>2. CASE ScriptStep
  <2>1. CASE \/ OP_BACKGROUND \/ OP_EXEC_SIMPLE
             \/ \E n \in 2 .. MaxPipe : \E k \in 0 .. n : \E ng \in BOOLEAN : OP_PIPELINE(n, k, ng)
    BY <2>1, ForkStepOwn
  <2>2. CASE vm_exec_string \/ OP_HALT \/ \E status \in Codes : builtin_exit(status)
    BY <2>2, LoopOwn
  <2>3. CASE builtin_wait \/ builtin_jobs
    BY <2>3, UpdateStepOwn
  <2>4. CASE ForkFails \/ \E n \in WaitArgs : builtin_wait_pid(n)
    BY <2>4, WaitForOneOwn
  <2>5. CASE \E spec \in Specs : \/ builtin_wait_job(spec) \/ builtin_fg(spec) \/ builtin_bg(spec)
                                \/ \E s \in KillSignals : builtin_kill_job(spec, s)
    BY <2>5, WaitForOneOwn, BuiltinOwn
  <2>6. CASE \E p \in Pids : \E s \in KillSignals : builtin_kill_pid(p, s)
    BY <2>6, BuiltinOwn
  <2> QED BY <1>2, <2>1, <2>2, <2>3, <2>4, <2>5, <2>6 DEF ScriptStep
<1>3. CASE WorldStep
  BY <1>3, WorldStepOwn
<1>4. CASE UNCHANGED vars
  <2>1. OwnsTable(Table, proc') /\ Forked(proc', npid')
    BY <1>4 DEF vars, OwnInv
  <2> QED BY <1>4, <2>1, SameOwn DEF vars, OwnInv
<1> QED BY <1>1, <1>2, <1>3, <1>4 DEF Next, Terminated

(* With one VM and positive arguments of wait, the table owns its processes *)
(* in every reachable state.                                               *)
THEOREM OwnInvariance ==
    ASSUME Disciplined
    PROVE  Spec => [](IInv /\ OwnInv)
<1>1. Init => IInv /\ OwnInv
  BY InitOK, InitOwn
<1>2. (IInv /\ OwnInv) /\ [Next]_vars => (IInv /\ OwnInv)'
  BY NextOK, NextOwn
<1> QED BY <1>1, <1>2, PTL DEF Spec

(* The rule of job.h: with one VM and positive arguments of wait, only     *)
(* job_update and job_wait_fg collect the processes of jobs, and a job     *)
(* knows of every process of it that is gone.                              *)
THEOREM OwnershipCorrect ==
    ASSUME Disciplined
    PROVE  Spec => []ReapOwnership
<1>1. IInv /\ OwnInv => ReapOwnership
  <2> SUFFICES ASSUME IInv, OwnInv, NEW j \in AllJobs, NEW p \in j.pids
               PROVE  proc[p].st = "gone" <=> p \in j.pid_done
    BY DEF ReapOwnership
  <2>1. DOMAIN tabs = {1} /\ depth = 1
    BY DEF IInv, TypeOK, Disciplined
  <2>2. PICK i \in Ids(Table) : j = Table.jobs[i]
    BY <2>1 DEF AllJobs, Table
  <2>3. JobOK(j, proc, npid) /\ OwnsJob(j, proc)
    BY <2>2, TableIsOK DEF TableOK, OwnInv, OwnsTable
  <2> QED BY <2>3 DEF JobOK, JobType, OwnsJob
<1> QED BY <1>1, OwnInvariance, PTL

(* job_wait_fg never blocks in vain: some process of the job is still to   *)
(* be reported, so it does not take the ECHILD exit with a stale status.   *)
THEOREM WaitCorrect ==
    ASSUME Disciplined
    PROVE  Spec => []WaitNeverStarves
<1>1. IInv /\ OwnInv => WaitNeverStarves
  <2> SUFFICES ASSUME IInv, OwnInv, pc \in {"block", "eintr"}
               PROVE  Members(Table.jobs[target].pgid) # {}
    BY DEF WaitNeverStarves
  <2> DEFINE j == Table.jobs[target]
  <2>1. /\ target \in Ids(Table) /\ TableOK(Table, proc, npid) /\ j.state = "RUNNING"
        /\ proc \in ProcTables /\ Forked(proc, npid)
    BY TableIsOK DEF IInv, TypeOK, Waiting, OwnInv
  <2>2. JobOK(j, proc, npid) /\ OwnsJob(j, proc)
    BY <2>1 DEF TableOK, OwnInv, OwnsTable
  <2> HIDE DEF j
  <2>3. PICK p \in j.pids : p \notin j.pid_done
    BY <2>1, <2>2 DEF JobOK, JobType
  <2>4. p \in Pids /\ proc[p].st # "gone" /\ proc[p].st # "none" /\ proc[p].grp = j.pgid
    BY <2>1, <2>2, <2>3 DEF JobOK, JobType, OwnsJob, Forked
  <2>5. p \in Members(j.pgid)
    BY <2>1, <2>4 DEF Members, IsChild, ProcTables
  <2> QED BY <2>5 DEF j
<1> QED BY <1>1, OwnInvariance, PTL

-----------------------------------------------------------------------------
(***************************************************************************)
(* The state that the job table shows is the state of the process: in a    *)
(* shell of one VM, a job of one process says STOPPED exactly while the    *)
(* process is stopped, once waitpid has nothing new to tell about it.      *)
(***************************************************************************)

(* What StateIsTrue says of a job j, with the processes pr.                *)
TrueState(j, pr) ==
    \A p \in j.pids :
        j.pids = {p} /\ pr[p].st \in {"run", "stop"} /\ pr[p].rep = "none"
            => (j.state = "STOPPED" <=> pr[p].st = "stop")

TrueStates(t, pr) == \A i \in Ids(t) : TrueState(t.jobs[i], pr)

(* A change that waitpid has not reported is the latest one of the child.  *)
TrueReport(r) ==
    /\ r.rep = "stopped" => r.st = "stop"
    /\ r.rep = "continued" => r.st = "run"

TrueReports(pr) == \A p \in Pids : TrueReport(pr[p])

(* The inductive invariant, on top of IInv and OwnInv.                     *)
StateInv == TrueStates(Table, proc) /\ TrueReports(proc)

-----------------------------------------------------------------------------
(* Changes of the table.                                                   *)

(* Removing jobs, and changing them in ways that do not touch their state. *)
LEMMA TrueFewer ==
    ASSUME NEW t, NEW u, NEW pr, TrueStates(t, pr), Ids(u) \subseteq Ids(t),
           \A i \in Ids(u) : u.jobs[i].pids = t.jobs[i].pids /\ u.jobs[i].state = t.jobs[i].state
    PROVE  TrueStates(u, pr)
BY DEF TrueStates, TrueState

(* job_reap_done shows the states of the jobs that stay.                   *)
LEMMA ReapTrue ==
    ASSUME NEW t, NEW pr, TrueStates(t, pr)
    PROVE  TrueStates(job_reap_done(t), pr)
<1>1. /\ Ids(job_reap_done(t)) \subseteq Ids(t)
      /\ \A i \in Ids(job_reap_done(t)) : job_reap_done(t).jobs[i] = t.jobs[i]
  BY DEF job_reap_done, job_remove, Ids
<1> QED BY <1>1, TrueFewer

(* Notify shows the states that were shown.                                *)
LEMMA NotifyTrue ==
    ASSUME NEW t, TableType(t), NEW pr, TrueStates(t, pr), NEW N
    PROVE  TrueStates(Notify(t, N), pr)
<1> DEFINE u == Notify(t, N)
<1>1. Ids(u) = Ids(t)
  BY DEF Notify, Ids, TableType
<1>2. \A i \in Ids(t) :
         u.jobs[i] = IF i \in N /\ t.jobs[i].state = "DONE"
                     THEN [t.jobs[i] EXCEPT !.notified = TRUE] ELSE t.jobs[i]
  BY DEF Notify, TableType, Ids
<1>3. \A i \in Ids(t) : u.jobs[i].pids = t.jobs[i].pids /\ u.jobs[i].state = t.jobs[i].state
  BY <1>2 DEF TableType, JobType
<1> QED BY <1>1, <1>3, TrueFewer

-----------------------------------------------------------------------------
(* Changes of the processes.                                               *)

(* Every change of a process is one that waitpid will report, or its end.  *)
Tells(pr, pr2) ==
    \A p \in Pids : \/ pr2[p] = pr[p]
                    \/ pr2[p].st = "zombie" /\ pr2[p].rep = "none"
                    \/ pr2[p].st = "stop"   /\ pr2[p].rep = "stopped"
                    \/ pr2[p].st = "run"    /\ pr2[p].rep = "continued"

(* A change that is still to be reported makes no state false.             *)
LEMMA TellsTrue ==
    ASSUME NEW t, TableType(t), NEW pr, NEW pr2, TrueStates(t, pr), TrueReports(pr), Tells(pr, pr2)
    PROVE  TrueStates(t, pr2) /\ TrueReports(pr2)
<1>1. TrueReports(pr2)
  BY DEF TrueReports, TrueReport, Tells
<1>2. \A i \in Ids(t) : t.jobs[i].pids \subseteq Pids
  BY DEF TableType, JobType
<1>3. TrueStates(t, pr2)
  BY <1>2 DEF TrueStates, TrueState, Tells
<1> QED BY <1>1, <1>3

(* Signals tell.                                                           *)
LEMMA SignalTells ==
    ASSUME proc \in ProcTables,
           \/ \E P : proc' = Continued(P)
           \/ \E P : proc' = Stopped(P)
           \/ \E by : proc' = Killed(by)
    PROVE  Tells(proc, proc')
<1>1. CASE \E P : proc' = Continued(P)
  BY <1>1 DEF Tells, Continued, ProcTables
<1>2. CASE \E P : proc' = Stopped(P)
  BY <1>2 DEF Tells, Stopped, ProcTables
<1>3. CASE \E by : proc' = Killed(by)
  <2>1. PICK by : proc' = Killed(by)
    BY <1>3
  <2> SUFFICES ASSUME NEW p \in Pids
               PROVE  proc'[p] = proc[p] \/ (proc'[p].st = "zombie" /\ proc'[p].rep = "none")
    BY DEF Tells
  <2> DEFINE c == 128 + by[p]
             r == [proc[p] EXCEPT !.st = "zombie", !.rep = "none", !.code = c]
  <2>2. proc'[p] = proc[p] \/ proc'[p] = r
    BY <2>1 DEF Killed
  <2>3. r.st = "zombie" /\ r.rep = "none"
    <3> HIDE DEF c
    <3> QED BY DEF ProcTables
  <2> HIDE DEF r
  <2> QED BY <2>2, <2>3
<1> QED BY <1>1, <1>2, <1>3

(* waitpid tells: what it has reported of p is no longer pending, and what *)
(* the other processes have to report stays.                               *)
LEMMA ConsumeIs ==
    ASSUME proc \in ProcTables, TrueReports(proc), NEW p \in Pids, HasReport(p)
    PROVE  /\ TrueReports(Consume(p))
           /\ \A q \in Pids : q # p => Consume(p)[q] = proc[q]
           /\ Report(p) = "exited" => Consume(p)[p].st = "gone"
           /\ Report(p) = "stopped" => Consume(p)[p].st = "stop"
           /\ Report(p) = "continued" => Consume(p)[p].st = "run"
<1>1. \A q \in Pids : q # p => Consume(p)[q] = proc[q]
  BY DEF Consume
<1>2. CASE proc[p].st = "zombie"
  <2>1. Consume(p)[p].st = "gone" /\ Consume(p)[p].rep = proc[p].rep
    BY <1>2 DEF Consume, ProcTables
  <2>2. Report(p) = "exited"
    BY <1>2 DEF Report
  <2>3. TrueReports(Consume(p))
    BY <1>1, <1>2, <2>1 DEF TrueReports, TrueReport
  <2> QED BY <1>1, <2>1, <2>2, <2>3
<1>3. CASE proc[p].st # "zombie"
  <2>1. Consume(p)[p].st = proc[p].st /\ Consume(p)[p].rep = "none" /\ Report(p) = proc[p].rep
    BY <1>3 DEF Consume, ProcTables, Report
  <2>2. TrueReports(Consume(p))
    BY <1>1, <2>1 DEF TrueReports, TrueReport
  <2> QED BY <1>1, <2>1, <2>2 DEF TrueReports, TrueReport, ProcTables
<1> QED BY <1>2, <1>3

(* What Apply makes of the state of a job.                                 *)
LEMMA ApplyState ==
    ASSUME NEW j, JobType(j), NEW p \in j.pids, NEW report, NEW code \in Status,
           report \in {"exited", "stopped", "continued"}
    PROVE  /\ Apply(j, p, report, code).pids = j.pids
           /\ report = "stopped" => Apply(j, p, report, code).state = "STOPPED"
           /\ report = "continued" => Apply(j, p, report, code).state = "RUNNING"
<1>1. Apply(j, p, report, code).pids = j.pids
  BY ApplyOwns
<1>2. report = "stopped" => Apply(j, p, report, code).state = "STOPPED"
  BY DEF Apply, JobType
<1>3. report = "continued" => Apply(j, p, report, code).state = "RUNNING"
  BY DEF Apply, JobType
<1> QED BY <1>1, <1>2, <1>3

(* A report about p that every job of p takes leaves the states true.      *)
LEMMA ReportTrue ==
    ASSUME proc \in ProcTables, TrueReports(proc), NEW t, TableType(t), TrueStates(t, proc),
           NEW p \in Pids, HasReport(p), NEW u, Ids(u) = Ids(t),
           \A i \in Ids(t) :
              /\ u.jobs[i].pids = t.jobs[i].pids
              /\ p \notin t.jobs[i].pids => u.jobs[i].state = t.jobs[i].state
              /\ p \in t.jobs[i].pids /\ Report(p) = "stopped" => u.jobs[i].state = "STOPPED"
              /\ p \in t.jobs[i].pids /\ Report(p) = "continued" => u.jobs[i].state = "RUNNING"
    PROVE  TrueStates(u, Consume(p))
<1> SUFFICES ASSUME NEW i \in Ids(t), NEW q \in u.jobs[i].pids, u.jobs[i].pids = {q},
                    Consume(p)[q].st \in {"run", "stop"}, Consume(p)[q].rep = "none"
             PROVE  u.jobs[i].state = "STOPPED" <=> Consume(p)[q].st = "stop"
  BY DEF TrueStates, TrueState
<1>1. t.jobs[i].pids = {q} /\ q \in Pids
  BY DEF TableType, JobType
<1>2. Report(p) \in {"exited", "stopped", "continued"}
  BY ConsumeProp
<1>3. CASE q # p
  <2>1. Consume(p)[q] = proc[q] /\ u.jobs[i].state = t.jobs[i].state
    BY <1>1, <1>3, ConsumeIs
  <2> QED BY <1>1, <2>1 DEF TrueStates, TrueState
<1>4. CASE q = p
  <2>1. /\ Report(p) = "stopped" => Consume(p)[p].st = "stop"
        /\ Report(p) = "continued" => Consume(p)[p].st = "run"
        /\ Report(p) = "exited" => Consume(p)[p].st = "gone"
    BY ConsumeIs
  <2> QED BY <1>1, <1>2, <1>4, <2>1
<1> QED BY <1>3, <1>4

(* A turn of job_update shows what waitpid reported.                       *)
LEMMA UpdateTrue ==
    ASSUME proc \in ProcTables, TrueReports(proc), NEW t, TableType(t), OwnsTable(t, proc),
           TrueStates(t, proc), NEW p \in Pids, HasReport(p)
    PROVE  TrueStates(job_update(t, p, Report(p), proc[p].code), Consume(p))
<1> DEFINE i == job_find_by_pid(t, p)
           j == Apply(t.jobs[i], p, Report(p), proc[p].code)
           k == IF Report(p) = "continued" THEN [j EXCEPT !.notified = FALSE] ELSE j
           u == [t EXCEPT !.jobs[i] = k]
<1>0. /\ Report(p) \in {"exited", "stopped", "continued"} /\ proc[p].code \in Status
      /\ i # NoJob => i \in Ids(t) /\ p \in t.jobs[i].pids
      /\ i = NoJob => \A m \in Ids(t) : p \notin t.jobs[m].pids
  BY ConsumeProp, FindByPidProp DEF ProcTables
<1>1. CASE i = NoJob
  <2>1. TrueStates(t, Consume(p))
    BY <1>0, <1>1, ReportTrue
  <2> QED BY <1>1, <2>1 DEF job_update
<1>2. CASE i # NoJob
  <2>1. /\ j.pids = t.jobs[i].pids /\ DOMAIN j = DOMAIN t.jobs[i]
        /\ Report(p) = "stopped" => j.state = "STOPPED"
        /\ Report(p) = "continued" => j.state = "RUNNING"
    BY <1>0, <1>2, ApplyOwns, ApplyState DEF TableType
  <2>2. /\ k.pids = t.jobs[i].pids
        /\ Report(p) = "stopped" => k.state = "STOPPED"
        /\ Report(p) = "continued" => k.state = "RUNNING"
    <3>1. DOMAIN j = {"command", "pgid", "pids", "last", "pid_done", "pid_status", "state",
                      "status", "notified"}
      BY <1>0, <1>2, <2>1 DEF TableType, JobType
    <3> HIDE DEF j, i
    <3> QED BY <2>1, <3>1
  <2>3. job_update(t, p, Report(p), proc[p].code) = u
    BY <1>2 DEF job_update
  <2> HIDE DEF i, k
  <2>4. Ids(u) = Ids(t) /\ \A m \in Ids(t) : u.jobs[m] = IF m = i THEN k ELSE t.jobs[m]
    BY DEF Ids, TableType
  <2>5. \A m \in Ids(t) : p \in t.jobs[m].pids <=> m = i
    BY <1>0, <1>2 DEF OwnsTable, OwnsJob
  <2> HIDE DEF u
  <2> QED BY <2>2, <2>3, <2>4, <2>5, ReportTrue
<1> QED BY <1>1, <1>2

(* A turn of job_wait_fg shows what waitpid reported.                      *)
LEMMA WaitFgTrue ==
    ASSUME proc \in ProcTables, TrueReports(proc), NEW t, TableType(t), OwnsTable(t, proc),
           TrueStates(t, proc), NEW p \in Pids, HasReport(p),
           NEW i \in Ids(t), proc[p].grp = t.jobs[i].pgid
    PROVE  TrueStates(job_wait_fg(t, i, p, Report(p), proc[p].code), Consume(p))
<1> DEFINE j == Apply(t.jobs[i], p, Report(p), proc[p].code)
           u == [t EXCEPT !.jobs[i] = j]
<1>0. /\ Report(p) \in {"exited", "stopped", "continued"} /\ proc[p].code \in Status
      /\ p \in t.jobs[i].pids
  BY ConsumeProp DEF ProcTables, OwnsTable, OwnsJob
<1>1. /\ j.pids = t.jobs[i].pids
      /\ Report(p) = "stopped" => j.state = "STOPPED"
      /\ Report(p) = "continued" => j.state = "RUNNING"
  BY <1>0, ApplyState DEF TableType
<1>2. job_wait_fg(t, i, p, Report(p), proc[p].code) = u
  BY <1>0 DEF job_wait_fg
<1> HIDE DEF j
<1>3. Ids(u) = Ids(t) /\ \A m \in Ids(t) : u.jobs[m] = IF m = i THEN j ELSE t.jobs[m]
  BY DEF Ids, TableType
<1>4. \A m \in Ids(t) : p \in t.jobs[m].pids <=> m = i
  BY <1>0 DEF OwnsTable, OwnsJob
<1> HIDE DEF u
<1> QED BY <1>1, <1>2, <1>3, <1>4, ReportTrue

(* SIGCONT and RUNNING together: a stopped process of the job has a change *)
(* to report, and the others of the table are as they were.                *)
LEMMA ResumeTrue ==
    ASSUME proc \in ProcTables, NEW t, TableType(t), OwnsTable(t, proc), TrueStates(t, proc),
           TrueReports(proc), NEW i \in Ids(t), proc' = Resumed(t, i)
    PROVE  TrueStates(Resume(t, i), proc') /\ TrueReports(proc')
<1> DEFINE P == Members(t.jobs[i].pgid)
<1>1. CASE t.jobs[i].state = "STOPPED"
  <2> DEFINE u == [t EXCEPT !.jobs[i].state = "RUNNING"]
  <2>1. Resume(t, i) = u /\ proc' = Continued(P)
    BY <1>1 DEF Resume, Resumed
  <2>2. TrueStates(t, proc') /\ TrueReports(proc')
    BY <2>1, SignalTells, TellsTrue
  <2>3. Ids(u) = Ids(t)
    BY DEF Ids, TableType
  <2>4. \A k \in Ids(t) :
           u.jobs[k] = IF k = i THEN [t.jobs[k] EXCEPT !.state = "RUNNING"] ELSE t.jobs[k]
    BY DEF Ids, TableType
  <2>5. \A k \in Ids(t) : /\ u.jobs[k].pids = t.jobs[k].pids
                          /\ u.jobs[k].state = IF k = i THEN "RUNNING" ELSE t.jobs[k].state
    BY <2>4 DEF TableType, JobType
  <2>6. \A p \in t.jobs[i].pids : proc'[p].st # "stop"
    <3> SUFFICES ASSUME NEW p \in t.jobs[i].pids PROVE proc'[p].st # "stop"
      OBVIOUS
    <3>1. p \in Pids /\ proc[p].grp = t.jobs[i].pgid
      BY DEF TableType, JobType, OwnsTable, OwnsJob
    <3>2. proc[p].st = "stop" => p \in P
      BY <3>1 DEF Members, IsChild
    <3> HIDE DEF P
    <3> QED BY <2>1, <3>1, <3>2 DEF Continued, ProcTables
  <2> HIDE DEF u
  <2>7. TrueStates(u, proc')
    BY <2>2, <2>3, <2>5, <2>6 DEF TrueStates, TrueState
  <2> QED BY <2>1, <2>2, <2>7
<1>2. CASE t.jobs[i].state # "STOPPED"
  BY <1>2 DEF Resume, Resumed
<1> QED BY <1>1, <1>2

(* New processes run, have nothing to report and belong to no job yet.     *)
LEMMA ForkTrue ==
    ASSUME IInv, StateInv, NEW k \in Nat, npid + k <= MaxPid, NEW g \in {0, npid + 1}, Forks(k, g)
    PROVE  TrueStates(Table, proc') /\ TrueReports(proc')
<1>0. npid \in Nat /\ TableOK(Table, proc, npid)
  BY TableIsOK
<1>1. \A i \in Ids(Table) : Table.jobs[i].pids \subseteq Pids /\ Table.jobs[i].pids \subseteq 1 .. npid
  BY <1>0 DEF TableOK, JobOK, JobType
<1>2. \A p \in Pids : /\ p \in 1 .. npid => proc'[p] = proc[p]
                      /\ proc'[p] = proc[p] \/ (proc'[p].rep = "none" /\ proc'[p].st = "run")
  BY <1>0 DEF Forks, Child
<1>3. TrueStates(Table, proc')
  <2> SUFFICES ASSUME NEW i \in Ids(Table), NEW p \in Table.jobs[i].pids,
                      TrueState(Table.jobs[i], proc)
               PROVE  proc'[p] = proc[p]
    BY DEF StateInv, TrueStates, TrueState
  <2> QED BY <1>1, <1>2
<1>4. TrueReports(proc')
  BY <1>2 DEF StateInv, TrueReports, TrueReport
<1> QED BY <1>3, <1>4

(* job_add shows a new job as running, and it is.                          *)
LEMMA AddTrue ==
    ASSUME IInv, StateInv, NEW k \in Nat, npid + k <= MaxPid, Forks(k, npid + 1), NEW command
    PROVE  TrueStates(job_add(Table, npid + 1, (npid + 1) .. (npid + k), npid + k, command), proc')
<1> DEFINE P == (npid + 1) .. (npid + k)
           j == NewJob(npid + 1, P, npid + k, command)
           u == job_add(Table, npid + 1, P, npid + k, command)
<1>0. npid \in Nat /\ TableOK(Table, proc, npid)
  BY TableIsOK
<1>1. TrueStates(Table, proc')
  BY ForkTrue
<1>2. Table.next_id \notin Ids(Table)
  BY <1>0 DEF TableOK, TableType
<1>3. /\ Ids(u) = Ids(Table) \cup {Table.next_id} /\ u.jobs[Table.next_id] = j
      /\ \A i \in Ids(Table) : u.jobs[i] = Table.jobs[i]
  BY <1>2 DEF job_add, Ids
<1>4. TrueState(j, proc')
  <2>1. j.pids = P /\ j.state = "RUNNING"
    BY DEF NewJob
  <2>2. \A p \in P : p \in Pids /\ proc'[p].st = "run"
    BY <1>0, JobControlAssumption DEF Forks, Child, Pids
  <2> HIDE DEF j, P
  <2> QED BY <2>1, <2>2 DEF TrueState
<1>5. TrueStates(u, proc')
  <2> HIDE DEF j, u
  <2> QED BY <1>1, <1>3, <1>4 DEF TrueStates
<1> QED BY <1>5

-----------------------------------------------------------------------------
(* The actions.                                                            *)

(* A step that sets the table of the only VM.                              *)
LEMMA EndTrue ==
    ASSUME IInv, NEW t, SetTable(t), depth' = depth, TrueStates(t, proc'), TrueReports(proc')
    PROVE  StateInv'
<1>1. Table' = t
  BY SetTableProp
<1> QED BY <1>1 DEF StateInv, TrueStates, TrueState, TrueReports

(* A step that leaves the table as it is.                                  *)
LEMMA SameTrue ==
    ASSUME Table' = Table, TrueStates(Table, proc'), TrueReports(proc')
    PROVE  StateInv'
BY DEF StateInv, TrueStates, TrueState, TrueReports

(* The return from job_wait_fg.                                            *)
LEMMA ReturnTrue ==
    ASSUME IInv, StateInv, Return(Table), proc' = proc, depth' = depth
    PROVE  StateInv'
<1> DEFINE told == Notify(Table, {target})
           u == IF Table.jobs[target].state = "DONE" THEN job_reap_done(told) ELSE Table
<1>1. TableOK(Table, proc, npid)
  BY TableIsOK
<1>2. TrueStates(told, proc') /\ TrueStates(u, proc') /\ TrueReports(proc')
  BY <1>1, NotifyTrue, ReapTrue DEF StateInv, TableOK
<1>3. SetTable(told) \/ SetTable(u)
  BY DEF Return, Finish
<1> HIDE DEF told, u
<1> QED BY <1>2, <1>3, EndTrue

(* Children and signals.                                                   *)
LEMMA WorldTrue ==
    ASSUME IInv, StateInv, WorldStep
    PROVE  StateInv'
<1>0. proc \in ProcTables /\ TableOK(Table, proc, npid)
  BY TableIsOK DEF IInv, TypeOK
<1>1. ASSUME UNCHANGED <<tabs, depth>>, Tells(proc, proc') PROVE StateInv'
  <2>1. Table' = Table
    BY <1>1 DEF Table
  <2> QED BY <1>0, <1>1, <2>1, TellsTrue, SameTrue DEF StateInv, TableOK
<1>2. ASSUME NEW p \in Pids, NEW c \in Codes, ChildExit(p, c) PROVE StateInv'
  <2>1. Tells(proc, proc')
    BY <1>0, <1>2 DEF ChildExit, Tells, ProcTables
  <2> QED BY <1>1, <1>2, <2>1 DEF ChildExit
<1>3. ASSUME NEW p \in Pids, ChildStop(p) PROVE StateInv'
  BY <1>0, <1>1, <1>3, SignalTells DEF ChildStop
<1>4. ASSUME NEW p \in Pids, ChildContinue(p) PROVE StateInv'
  BY <1>0, <1>1, <1>4, SignalTells DEF ChildContinue
<1>5. ASSUME NEW s \in Signals, Deliver(s) PROVE StateInv'
  BY <1>1, <1>5 DEF Deliver, Tells
<1> QED BY <1>2, <1>3, <1>4, <1>5 DEF WorldStep

(* The dispatch loop: with one VM, halting it ends the shell.              *)
LEMMA LoopTrue ==
    ASSUME Disciplined, IInv, StateInv,
           SafePoint \/ OP_HALT \/ vm_exec_string \/ \E status \in Codes : builtin_exit(status)
    PROVE  StateInv'
<1>0. depth = 1 /\ DOMAIN tabs = {1} /\ MaxDepth = 1
  BY DEF Disciplined, IInv, TypeOK
<1>1. proc' = proc
  BY DEF SafePoint, OP_HALT, vm_exec_string, builtin_exit, kernel
<1>2. ~ vm_exec_string
  BY <1>0 DEF vm_exec_string
<1>3. ASSUME NEW status, HaltVm(status) PROVE Table' = Table
  BY <1>0, <1>3 DEF HaltVm, Table
<1>4. ASSUME NEW status, builtin_exit(status) PROVE Table' = Table
  BY <1>0, <1>4 DEF builtin_exit, Table
<1>5. SafePoint => (\E status : HaltVm(status)) \/ UNCHANGED <<tabs, depth>>
  BY <1>0 DEF SafePoint
<1>6. Table' = Table
  <2>1. CASE UNCHANGED <<tabs, depth>>
    BY <2>1 DEF Table
  <2> QED BY <1>2, <1>3, <1>4, <1>5, <2>1 DEF OP_HALT
<1> QED BY <1>1, <1>6, SameTrue DEF StateInv

(* Forks.                                                                  *)
LEMMA ForkStepTrue ==
    ASSUME IInv, StateInv,
           \/ OP_BACKGROUND \/ OP_EXEC_SIMPLE
           \/ \E n \in 2 .. MaxPipe : \E k \in 0 .. n : \E ng \in BOOLEAN : OP_PIPELINE(n, k, ng)
    PROVE  StateInv'
<1>0. npid \in Nat /\ TableOK(Table, proc, npid) /\ proc \in ProcTables
  BY TableIsOK DEF IInv, TypeOK
<1>1. CASE OP_BACKGROUND
  <2> DEFINE a == job_add(Table, npid + 1, (npid + 1) .. (npid + 1), npid + 1, "(background)")
  <2>1. /\ npid + 1 <= MaxPid /\ {npid + 1} = (npid + 1) .. (npid + 1) /\ 1 \in Nat
    BY <1>0, <1>1, JobControlAssumption DEF OP_BACKGROUND, Pids
  <2>2. Forks(1, npid + 1)
    BY <1>0, <1>1, <2>1 DEF OP_BACKGROUND, Forks, ProcTables
  <2>3. TrueStates(a, proc') /\ TrueStates(Table, proc') /\ TrueReports(proc')
    BY <2>1, <2>2, AddTrue, ForkTrue
  <2>4. (SetTable(Table) \/ SetTable(a)) /\ depth' = depth
    BY <1>1, <2>1 DEF OP_BACKGROUND, Finish
  <2> HIDE DEF a
  <2> QED BY <2>3, <2>4, EndTrue
<1>2. CASE OP_EXEC_SIMPLE
  <2>1. npid + 1 <= MaxPid /\ {npid + 1} = (npid + 1) .. (npid + 1) /\ 1 \in Nat
    BY <1>0, <1>2, JobControlAssumption DEF OP_EXEC_SIMPLE, Pids
  <2>2. Forks(1, 0)
    BY <1>0, <1>2, <2>1 DEF OP_EXEC_SIMPLE, Forks, ProcTables
  <2>3. TrueStates(Table, proc') /\ TrueReports(proc')
    BY <2>1, <2>2, ForkTrue
  <2>4. Table' = Table
    BY <1>2 DEF OP_EXEC_SIMPLE, Table
  <2> QED BY <2>3, <2>4, SameTrue
<1>3. ASSUME NEW n \in 2 .. MaxPipe, NEW k \in 0 .. n, NEW ng \in BOOLEAN, OP_PIPELINE(n, k, ng)
      PROVE  StateInv'
  <2> DEFINE a == job_add(Table, npid + 1, (npid + 1) .. (npid + k), npid + k, "(pipeline)")
  <2>1. k \in Nat /\ npid + k <= MaxPid /\ Forks(k, npid + 1) /\ depth' = depth
    BY <1>3 DEF OP_PIPELINE, Forks
  <2>2. TrueStates(a, proc') /\ TrueStates(Table, proc') /\ TrueReports(proc')
    BY <2>1, AddTrue, ForkTrue
  <2>3. SetTable(Table) \/ SetTable(a)
    BY <1>3 DEF OP_PIPELINE, Finish
  <2> HIDE DEF a
  <2> QED BY <2>1, <2>2, <2>3, EndTrue
<1> QED BY <1>1, <1>2, <1>3

(* waitpid outside the job table collects exited children only.            *)
LEMMA DirectWaitTrue ==
    ASSUME IInv, OwnInv, StateInv, DirectWait
    PROVE  StateInv'
<1>0. /\ TableOK(Table, proc, npid) /\ proc \in ProcTables /\ depth' = depth
      /\ target > 0 /\ \A i \in Ids(Table) : target \notin Table.jobs[i].pids
  BY TableIsOK DEF IInv, TypeOK, DirectWait, OwnInv
<1>1. ASSUME NEW p \in Matches(target), proc' = Consume(p), HasReport(p),
             Finish(Table, proc[p].code)
      PROVE  StateInv'
  <2>1. p \in Pids /\ p = target
    BY <1>0, <1>1 DEF Matches
  <2>2. TrueStates(Table, proc') /\ TrueReports(proc')
    BY <1>0, <1>1, <2>1, ReportTrue, ConsumeIs DEF StateInv, TableOK
  <2> QED BY <1>0, <1>1, <2>2, EndTrue DEF Finish
<1>2. CASE proc' = proc /\ Finish(Table, 127)
  BY <1>0, <1>2, EndTrue DEF Finish, StateInv
<1>3. ASSUME NEW p \in Matches(target), proc[p].st = "zombie" PROVE HasReport(p)
  BY <1>3 DEF HasReport, IsChild, Report
<1> QED BY <1>1, <1>2, <1>3 DEF DirectWait

(* The steps of job_wait_fg.                                               *)
LEMMA WaitStepTrue ==
    ASSUME IInv, OwnInv, StateInv,
           WaitHead \/ WaitECHILD \/ WaitEINTR \/ \E p \in Pids : WaitReport(p)
    PROVE  StateInv'
<1>0. /\ TableOK(Table, proc, npid) /\ proc \in ProcTables /\ depth' = depth /\ target \in Ids(Table)
  BY TableIsOK DEF IInv, TypeOK, Waiting, WaitHead, WaitECHILD, WaitEINTR, WaitReport
<1>1. CASE WaitECHILD
  BY <1>0, <1>1, ReturnTrue DEF WaitECHILD, kernel
<1>2. CASE WaitHead
  <2>1. CASE Return(Table)
    BY <1>0, <1>2, <2>1, ReturnTrue DEF WaitHead, kernel
  <2>2. CASE ~ Return(Table)
    <3>1. Table' = Table /\ proc' = proc
      BY <1>2, <2>2 DEF WaitHead, kernel, Table
    <3> QED BY <3>1, SameTrue DEF StateInv
  <2> QED BY <2>1, <2>2
<1>3. CASE WaitEINTR
  <2>1. (\E by : proc' = Killed(by)) /\ Table' = Table
    BY <1>3 DEF WaitEINTR, Table
  <2>2. TrueStates(Table, proc') /\ TrueReports(proc')
    BY <1>0, <2>1, SignalTells, TellsTrue DEF StateInv, TableOK
  <2> QED BY <2>1, <2>2, SameTrue
<1>4. ASSUME NEW p \in Pids, WaitReport(p) PROVE StateInv'
  <2> DEFINE t == job_wait_fg(Table, target, p, Report(p), proc[p].code)
  <2>1. /\ HasReport(p) /\ proc' = Consume(p) /\ proc[p].grp = Table.jobs[target].pgid
        /\ SetTable(t)
    BY <1>4 DEF WaitReport, Members
  <2>2. TrueStates(t, proc') /\ TrueReports(proc')
    BY <1>0, <2>1, WaitFgTrue, ConsumeIs DEF StateInv, OwnInv, TableOK
  <2> HIDE DEF t
  <2> QED BY <1>0, <2>1, <2>2, EndTrue
<1> QED BY <1>1, <1>2, <1>3, <1>4

(* The steps of job_update and of its callers.                             *)
LEMMA UpdateStepTrue ==
    ASSUME IInv, OwnInv, StateInv,
           \/ JobsDone \/ WaitNext \/ \E p \in Pids : UpdateReport(p)
           \/ builtin_wait \/ builtin_jobs
    PROVE  StateInv'
<1>0. TableOK(Table, proc, npid) /\ proc \in ProcTables /\ depth' = depth
  BY TableIsOK
     DEF IInv, TypeOK, JobsDone, WaitNext, UpdateReport, builtin_wait, builtin_jobs, Call_job_update
<1>1. CASE JobsDone
  <2> DEFINE t == job_reap_done(Notify(Table, Ids(Table)))
  <2>1. proc' = proc /\ SetTable(t)
    BY <1>1 DEF JobsDone, kernel, Finish
  <2>2. TrueStates(t, proc') /\ TrueReports(proc')
    BY <1>0, <2>1, NotifyTrue, ReapTrue DEF StateInv, TableOK
  <2> HIDE DEF t
  <2> QED BY <1>0, <2>1, <2>2, EndTrue
<1>2. CASE WaitNext
  <2> DEFINE i == NotDone(Table)
  <2>1. CASE i = NoJob
    <3>1. proc' = proc /\ SetTable(job_reap_done(Table))
      BY <1>2, <2>1 DEF WaitNext, Finish
    <3>2. TrueStates(job_reap_done(Table), proc') /\ TrueReports(proc')
      BY <3>1, ReapTrue DEF StateInv
    <3> QED BY <1>0, <3>1, <3>2, EndTrue
  <2>2. CASE i # NoJob
    <3>1. i \in Ids(Table) /\ proc' = Resumed(Table, i) /\ SetTable(Resume(Table, i))
      BY <1>0, <1>2, <2>2, NotDoneProp DEF WaitNext, Call_job_wait_fg, TableOK
    <3> HIDE DEF i
    <3>2. TrueStates(Resume(Table, i), proc') /\ TrueReports(proc')
      BY <1>0, <3>1, ResumeTrue DEF StateInv, OwnInv, TableOK
    <3> QED BY <1>0, <3>1, <3>2, EndTrue
  <2> QED BY <2>1, <2>2
<1>3. ASSUME NEW p \in Pids, UpdateReport(p) PROVE StateInv'
  <2> DEFINE t == job_update(Table, p, Report(p), proc[p].code)
  <2>1. HasReport(p) /\ proc' = Consume(p) /\ SetTable(t)
    BY <1>3 DEF UpdateReport
  <2>2. TrueStates(t, proc') /\ TrueReports(proc')
    BY <1>0, <2>1, UpdateTrue, ConsumeIs DEF StateInv, OwnInv, TableOK
  <2> HIDE DEF t
  <2> QED BY <1>0, <2>1, <2>2, EndTrue
<1>4. CASE builtin_wait \/ builtin_jobs
  <2>1. proc' = proc /\ Table' = Table
    BY <1>4 DEF builtin_wait, builtin_jobs, Call_job_update, kernel, Table
  <2> QED BY <2>1, SameTrue DEF StateInv
<1> QED BY <1>1, <1>2, <1>3, <1>4

(* The builtins that wait for one job, and a fork that fails.              *)
LEMMA WaitForOneTrue ==
    ASSUME IInv, StateInv,
           \/ \E n \in WaitArgs : builtin_wait_pid(n)
           \/ \E spec : builtin_wait_job(spec)
           \/ ForkFails
    PROVE  StateInv'
<1>1. proc' = proc /\ depth' = depth
  BY DEF builtin_wait_pid, builtin_wait_job, ForkFails, kernel
<1>2. SetTable(Table) \/ tabs' = tabs
  BY DEF builtin_wait_pid, builtin_wait_job, ForkFails, Finish, Call_job_wait_fg
<1>3. CASE SetTable(Table)
  BY <1>1, <1>3, EndTrue DEF StateInv
<1>4. CASE tabs' = tabs
  <2>1. Table' = Table
    BY <1>1, <1>4 DEF Table
  <2> QED BY <1>1, <2>1, SameTrue DEF StateInv
<1> QED BY <1>2, <1>3, <1>4

(* The builtins fg, bg and kill.                                           *)
LEMMA BuiltinTrue ==
    ASSUME IInv, OwnInv, StateInv, NEW spec, NEW p, NEW s,
           \/ builtin_fg(spec) \/ builtin_bg(spec)
           \/ builtin_kill_job(spec, s) \/ builtin_kill_pid(p, s)
    PROVE  StateInv'
<1> DEFINE i == job_parse_spec(Table, spec)
<1>0. /\ TableOK(Table, proc, npid) /\ proc \in ProcTables /\ depth' = depth
      /\ i \in Ids(Table) \cup {NoJob}
  BY TableIsOK, ParseSpecProp
     DEF IInv, TypeOK, builtin_fg, builtin_bg, builtin_kill_job, builtin_kill_pid, TableOK
<1>1. CASE Fails(1)
  BY <1>0, <1>1, EndTrue DEF Fails, Finish, StateInv
<1>2. CASE ~ Fails(1) /\ (builtin_fg(spec) \/ builtin_bg(spec))
  <2>1. i \in Ids(Table) /\ proc' = Resumed(Table, i) /\ SetTable(Resume(Table, i))
    BY <1>0, <1>2 DEF builtin_fg, builtin_bg, Call_job_wait_fg, Finish
  <2> HIDE DEF i
  <2>2. TrueStates(Resume(Table, i), proc') /\ TrueReports(proc')
    BY <1>0, <2>1, ResumeTrue DEF StateInv, OwnInv, TableOK
  <2> QED BY <1>0, <2>1, <2>2, EndTrue
<1>3. CASE ~ Fails(1) /\ (builtin_kill_job(spec, s) \/ builtin_kill_pid(p, s))
  <2>1. PICK P : Send(P, s)
    BY <1>3 DEF builtin_kill_job, builtin_kill_pid
  <2>2. /\ \/ proc' = Stopped(P) \/ proc' = Continued(P) \/ \E by : proc' = Killed(by)
        /\ SetTable(Table)
    BY <1>3, <2>1 DEF Send, Finish
  <2>3. TrueStates(Table, proc') /\ TrueReports(proc')
    BY <1>0, <2>2, SignalTells, TellsTrue DEF StateInv, TableOK
  <2> QED BY <1>0, <2>2, <2>3, EndTrue
<1> QED BY <1>1, <1>2, <1>3

-----------------------------------------------------------------------------
(* There is no job when the shell starts.                                  *)
LEMMA InitTrue == Init => StateInv
<1> SUFFICES ASSUME Init PROVE StateInv
  OBVIOUS
<1>1. Table = job_table_init
  BY JobControlAssumption DEF Init, Table
<1>2. TrueStates(Table, proc)
  BY <1>1 DEF job_table_init, TrueStates, Ids
<1>3. TrueReports(proc)
  BY DEF Init, TrueReports, TrueReport, NoChild
<1> QED BY <1>2, <1>3 DEF StateInv

(* Every step of a disciplined shell shows what it has been told.          *)
LEMMA NextTrue ==
    ASSUME Disciplined
    PROVE  IInv /\ OwnInv /\ StateInv /\ [Next]_vars => StateInv'
<1> SUFFICES ASSUME IInv, OwnInv, StateInv, [Next]_vars PROVE StateInv'
  OBVIOUS
<1>1. CASE ShellStep
  BY <1>1, LoopTrue, DirectWaitTrue, WaitStepTrue, UpdateStepTrue DEF ShellStep
<1>2. CASE ScriptStep
  <2>1. CASE \/ OP_BACKGROUND \/ OP_EXEC_SIMPLE
             \/ \E n \in 2 .. MaxPipe : \E k \in 0 .. n : \E ng \in BOOLEAN : OP_PIPELINE(n, k, ng)
    BY <2>1, ForkStepTrue
  <2>2. CASE vm_exec_string \/ OP_HALT \/ \E status \in Codes : builtin_exit(status)
    BY <2>2, LoopTrue
  <2>3. CASE builtin_wait \/ builtin_jobs
    BY <2>3, UpdateStepTrue
  <2>4. CASE ForkFails \/ \E n \in WaitArgs : builtin_wait_pid(n)
    BY <2>4, WaitForOneTrue
  <2>5. CASE \E spec \in Specs : \/ builtin_wait_job(spec) \/ builtin_fg(spec) \/ builtin_bg(spec)
                                \/ \E s \in KillSignals : builtin_kill_job(spec, s)
    BY <2>5, WaitForOneTrue, BuiltinTrue
  <2>6. CASE \E p \in Pids : \E s \in KillSignals : builtin_kill_pid(p, s)
    BY <2>6, BuiltinTrue
  <2> QED BY <1>2, <2>1, <2>2, <2>3, <2>4, <2>5, <2>6 DEF ScriptStep
<1>3. CASE WorldStep
  BY <1>3, WorldTrue
<1>4. CASE UNCHANGED vars
  BY <1>4, SameTrue DEF vars, Table, StateInv
<1> QED BY <1>1, <1>2, <1>3, <1>4 DEF Next, Terminated

(* "jobs" tells the truth: with one VM and positive arguments of wait, a   *)
(* job of one process is shown as stopped exactly while its process is,    *)
(* once waitpid has nothing new to tell about it, whatever stopped or      *)
(* continued it: fg, bg, wait, kill or somebody else.                      *)
THEOREM StateCorrect ==
    ASSUME Disciplined
    PROVE  Spec => []StateIsTrue
<1>1. IInv /\ StateInv => StateIsTrue
  <2> SUFFICES ASSUME IInv, StateInv, NEW j \in AllJobs, NEW p \in j.pids,
                      j.pids = {p}, IsChild(p), ~HasReport(p)
               PROVE  j.state = "STOPPED" <=> proc[p].st = "stop"
    BY DEF StateIsTrue
  <2>1. DOMAIN tabs = {1} /\ depth = 1
    BY DEF IInv, TypeOK, Disciplined
  <2>2. PICK i \in Ids(Table) : j = Table.jobs[i]
    BY <2>1 DEF AllJobs, Table
  <2>3. proc[p].st \in {"run", "stop"} /\ proc[p].rep = "none"
    BY DEF HasReport, Report, IsChild
  <2> QED BY <2>2, <2>3 DEF StateInv, TrueStates, TrueState
<1>2. Init => IInv /\ OwnInv /\ StateInv
  BY InitOK, InitOwn, InitTrue
<1>3. (IInv /\ OwnInv /\ StateInv) /\ [Next]_vars => (IInv /\ OwnInv /\ StateInv)'
  BY NextOK, NextOwn, NextTrue
<1> QED BY <1>1, <1>2, <1>3, PTL DEF Spec

=============================================================================
