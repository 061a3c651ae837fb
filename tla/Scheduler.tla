----------------------------- MODULE Scheduler -----------------------------
(***************************************************************************)
(* data_pipeline/scheduler.py: the registry of jobs of one process and the *)
(* busy set that keeps a job from running twice at once.  A call of run_job*)
(* occupies its thread until the job has returned or raised.               *)
(***************************************************************************)
EXTENDS Naturals, FiniteSets

CONSTANTS Threads, Jobs, NoJob, JobDays

ASSUME SchedulerAssumption == NoJob \notin Jobs /\ JobDays \subseteq Nat \ {0}

VARIABLES
    dayOf,   \* Scheduler._jobs by name: the day a job was built for, 0 for no job
    busy,    \* Scheduler._busy
    job,     \* the job each thread is inside of
    pc       \* how far it has come in job.run()

schedulerVars == <<dayOf, busy, job, pc>>

Steps == {"idle", "begin", "stage", "symbol", "passed", "rows", "adjust", "mark",
          "collected", "check", "applied", "end"}

SchedulerTypeOK ==
    /\ dayOf \in [Jobs -> JobDays \cup {0}]
    /\ busy \subseteq Jobs
    /\ job \in [Threads -> Jobs \cup {NoJob}]
    /\ pc \in [Threads -> Steps]

SchedulerInit ==
    /\ dayOf = [j \in Jobs |-> 0]
    /\ busy = {}
    /\ job = [t \in Threads |-> NoJob]
    /\ pc = [t \in Threads |-> "idle"]

\* register: a second job of the same name is a ValueError.
Register(j, day) ==
    /\ dayOf[j] = 0
    /\ dayOf' = [dayOf EXCEPT ![j] = day]
    /\ UNCHANGED <<busy, job, pc>>

\* Mutation: nobody looks at the busy set.
NeverLocked(j) == FALSE

\* The test and the addition are made under _registry_lock.
Locked(j) == j \in busy

\* run_job up to job.run(): an unknown name is a KeyError, a busy one a
\* LockError, and neither leaves a trace.
Acquire(t, j) ==
    /\ job[t] = NoJob
    /\ dayOf[j] # 0
    /\ ~Locked(j)
    /\ busy' = busy \cup {j}
    /\ job' = [job EXCEPT ![t] = j]
    /\ pc' = [pc EXCEPT ![t] = "begin"]
    /\ UNCHANGED dayOf

\* The finally clause, whether job.run() returned or raised.
Release(t) ==
    /\ pc[t] = "end"
    /\ busy' = busy \ {job[t]}
    /\ job' = [job EXCEPT ![t] = NoJob]
    /\ pc' = [pc EXCEPT ![t] = "idle"]
    /\ UNCHANGED dayOf

\* A new process: an empty registry and an empty busy set.
NewProcess ==
    /\ dayOf' = [j \in Jobs |-> 0]
    /\ busy' = {}
    /\ job' = [t \in Threads |-> NoJob]
    /\ pc' = [t \in Threads |-> "idle"]

\* Thread t goes on inside its job.
GoTo(t, step) ==
    /\ pc' = [pc EXCEPT ![t] = step]
    /\ UNCHANGED <<dayOf, busy, job>>

\* The day its job works for.
Today(t) == dayOf[job[t]]
=============================================================================
