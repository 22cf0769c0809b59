------------------------------ MODULE JobTable ------------------------------
(***************************************************************************)
(* The job table of src/src/exec/job.c as a value: one operator per        *)
(* function of job.c, from tables to tables.                               *)
(*                                                                         *)
(* job_table_t keeps its jobs in an array that job_add appends to and      *)
(* job_remove closes up with memmove.  Identifiers are handed out in       *)
(* increasing order, so the array is always sorted by identifier; the      *)
(* model keeps the jobs as a function from identifiers to jobs and reads   *)
(* "first in the array" as "smallest identifier".  The three arrays of a   *)
(* job that are parallel to pids are indexed by the pid itself, and last   *)
(* is the pid at the end of pids, the only position the code singles out.  *)
(***************************************************************************)
EXTENDS Integers, FiniteSets

CONSTANT JOB_TABLE_MAX      \* capacity of the table (64 in job.h)

ASSUME JobTableMaxAssumption == JOB_TABLE_MAX \in Nat \ {0}

NoJob == 0                  \* a NULL job_t*, and the unset current/previous

SIGINT  == 2
SIGKILL == 9
SIGTERM == 15
SIGCONT == 18
SIGSTOP == 19
StopStatus == 128 + SIGSTOP
Status == 0 .. 255          \* what $? ranges over

Ids(t) == DOMAIN t.jobs

(* The job with the smallest (largest) identifier of S, or none.           *)
First(S) == IF S = {} THEN NoJob ELSE CHOOSE i \in S : \A k \in S : i <= k
Last(S)  == IF S = {} THEN NoJob ELSE CHOOSE i \in S : \A k \in S : k <= i

job_table_init ==
    [jobs |-> [i \in {} |-> NoJob], next_id |-> 1, current |-> NoJob, previous |-> NoJob]

job_table_full(t) == Cardinality(Ids(t)) >= JOB_TABLE_MAX

NewJob(pgid, pids, last, command) ==
    [command    |-> command,
     pgid       |-> pgid,
     pids       |-> pids,
     last       |-> last,
     pid_done   |-> {},
     pid_status |-> [p \in pids |-> 0],
     state      |-> "RUNNING",
     status     |-> 0,
     notified   |-> FALSE]

(* job_add on a table that is not full; the caller keeps t otherwise.      *)
job_add(t, pgid, pids, last, command) ==
    [jobs     |-> [i \in Ids(t) \cup {t.next_id} |->
                      IF i = t.next_id THEN NewJob(pgid, pids, last, command) ELSE t.jobs[i]],
     next_id  |-> t.next_id + 1,
     previous |-> t.current,
     current  |-> t.next_id]

job_find_by_pid(t, p) == First({i \in Ids(t) : p \in t.jobs[i].pids})

(* Mutant: the promoted job stays the previous one.                        *)
job_remove_KeepsPrevious(t, R) ==
    [jobs     |-> [i \in Ids(t) \ R |-> t.jobs[i]],
     next_id  |-> t.next_id,
     current  |-> IF t.current \notin R THEN t.current
                  ELSE IF t.previous \notin R THEN t.previous ELSE NoJob,
     previous |-> IF t.previous \in R THEN NoJob ELSE t.previous]

(* job_remove of every job of R.  Removing the current job promotes the    *)
(* previous one, and leaves no previous job.                               *)
job_remove(t, R) ==
    [jobs     |-> [i \in Ids(t) \ R |-> t.jobs[i]],
     next_id  |-> t.next_id,
     current  |-> IF t.current \notin R THEN t.current
                  ELSE IF t.previous \notin R THEN t.previous ELSE NoJob,
     previous |-> IF t.current \in R \/ t.previous \in R THEN NoJob ELSE t.previous]

job_reap_done(t) ==
    job_remove(t, {i \in Ids(t) : t.jobs[i].state = "DONE" /\ t.jobs[i].notified})

(* Mutants: the status of the first command, and done with the last one.   *)
job_check_complete_FirstStatus(j) ==
    IF j.pids = j.pid_done
    THEN [j EXCEPT !.state = "DONE", !.status = j.pid_status[j.pgid]]
    ELSE j
job_check_complete_LastDone(j) ==
    IF j.last \in j.pid_done
    THEN [j EXCEPT !.state = "DONE", !.status = j.pid_status[j.last]]
    ELSE j

job_check_complete(j) ==
    IF j.pids = j.pid_done
    THEN [j EXCEPT !.state = "DONE", !.status = j.pid_status[j.last]]
    ELSE j

(* Mutant: WIFCONTINUED is not looked at.                                  *)
Apply_NoContinue(j, p, report, code) ==
    CASE report = "exited" ->
            job_check_complete([j EXCEPT !.pid_done = @ \cup {p}, !.pid_status[p] = code])
      [] report = "stopped" ->
            [j EXCEPT !.state = "STOPPED", !.status = StopStatus, !.notified = FALSE]
      [] report = "continued" -> j

(* What one waitpid result about process p does to the job of p.  A        *)
(* process ended by signal s reports code 128 + s.                         *)
Apply(j, p, report, code) ==
    CASE report = "exited" ->
            job_check_complete([j EXCEPT !.pid_done = @ \cup {p}, !.pid_status[p] = code])
      [] report = "stopped" ->
            [j EXCEPT !.state = "STOPPED", !.status = StopStatus, !.notified = FALSE]
      [] report = "continued" ->
            [j EXCEPT !.state = "RUNNING"]

(* One turn of the loop of job_update: an unknown child is ignored.        *)
job_update(t, p, report, code) ==
    LET i == job_find_by_pid(t, p)
        j == Apply(t.jobs[i], p, report, code)
    IN  IF i = NoJob THEN t
        ELSE [t EXCEPT !.jobs[i] = IF report = "continued"
                                   THEN [j EXCEPT !.notified = FALSE] ELSE j]

(* Mutant: a job is removed while its waiter still reads it.               *)
job_wait_fg_Reaps(t, i, p, report, code) ==
    IF p \in t.jobs[i].pids
    THEN LET u == [t EXCEPT !.jobs[i] = Apply(@, p, report, code)]
         IN  IF u.jobs[i].state = "DONE" THEN job_remove(u, {i}) ELSE u
    ELSE t

(* One turn of the loop of job_wait_fg on job i.                           *)
job_wait_fg(t, i, p, report, code) ==
    IF p \in t.jobs[i].pids
    THEN [t EXCEPT !.jobs[i] = Apply(@, p, report, code)]
    ELSE t

job_current(t) ==
    IF t.current > 0
    THEN IF t.current \in Ids(t) THEN t.current ELSE NoJob
    ELSE Last(Ids(t))

(* Job specifications.  %n is the positive number n; the others are       *)
(* named.  Commands are only ever "(background)" and "(pipeline)", so      *)
(* %string and %?string select by the kind of job.                         *)
SpecCurrent    ==  0      \* %%, %+ and %
SpecPrevious   == -1      \* %-
SpecBackground == -2      \* %(b, %?backgr, ...
SpecPipeline   == -3      \* %(p, %?pipe, ...

job_parse_spec(t, spec) ==
    CASE spec = SpecCurrent    -> job_current(t)
      [] spec = SpecPrevious   -> IF t.previous \in Ids(t) THEN t.previous ELSE NoJob
      [] spec = SpecBackground -> First({i \in Ids(t) : t.jobs[i].command = "(background)"})
      [] spec = SpecPipeline   -> First({i \in Ids(t) : t.jobs[i].command = "(pipeline)"})
      [] OTHER                 -> IF spec \in Ids(t) THEN spec ELSE NoJob

(* Set notified on the jobs of N that are done, as every builtin does      *)
(* before it calls job_reap_done.                                          *)
Notify(t, N) ==
    [t EXCEPT !.jobs = [i \in Ids(t) |->
        IF i \in N /\ t.jobs[i].state = "DONE"
        THEN [t.jobs[i] EXCEPT !.notified = TRUE] ELSE t.jobs[i]]]
=============================================================================
