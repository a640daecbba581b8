------------------------------- MODULE CellJobs -------------------------------
(***************************************************************************)
(* What the execution of notebook cells promises, without promises, loops  *)
(* and callbacks.  Runs of cells are submitted to jobs.  The runs of a job *)
(* begin one after the other, in the order they were submitted; a job that *)
(* is aborted begins nothing more, and a finished run stays finished.      *)
(* KernelExecution implements this: a job is a CellExecutionQueue.         *)
(***************************************************************************)
EXTENDS Integers

CONSTANT Runs   \* natural numbers, in the order the runs are submitted

VARIABLES
    phase,    \* how far each run has come
    job,      \* the job a run was submitted to; jobs are named by a run
    aborted   \* the jobs that were aborted

jobVars == <<phase, job, aborted>>

Init ==
    /\ phase = [r \in Runs |-> "absent"]
    /\ job = [r \in Runs |-> 0]
    /\ aborted = {}

Before(r) == {p \in Runs : p < r /\ phase[p] # "absent" /\ job[p] = job[r]}
Finished(S) == \A r \in S : phase[r] = "finished"

(* A new run joins a job that still accepts runs.                          *)
Submit(r) ==
    /\ phase[r] = "absent" /\ \A p \in Runs : phase[p] # "absent" => p < r
    /\ phase' = [phase EXCEPT ![r] = "pending"]
    /\ \E j \in Runs \ aborted : job' = [job EXCEPT ![r] = j]
    /\ UNCHANGED aborted

Begin(r) ==
    /\ phase[r] = "pending"
    /\ job[r] \notin aborted
    /\ Finished(Before(r))
    /\ phase' = [phase EXCEPT ![r] = "executing"]
    /\ UNCHANGED <<job, aborted>>

(* Runs S finish and jobs J are aborted.  A run that has not begun         *)
(* finishes only with its job, or, skipped, when its turn has come.        *)
Finish(S, J) ==
    /\ aborted' = aborted \cup J
    /\ \A r \in S :
          \/ phase[r] = "executing"
          \/ phase[r] = "pending" /\ (job[r] \in aborted' \/ Finished(Before(r)))
    /\ phase' = [r \in Runs |-> IF r \in S THEN "finished" ELSE phase[r]]
    /\ UNCHANGED job

Next ==
    \/ \E r \in Runs : Submit(r) \/ Begin(r)
    \/ \E S, J \in SUBSET Runs : Finish(S, J)

Spec == Init /\ [][Next]_jobVars
=============================================================================
