----------------------------- MODULE ThreadTeam -----------------------------
(***************************************************************************)
(* The persistent worker team of src/runtime.cpp: class ThreadTeam and the *)
(* registry function thread_team that constructs it on first use.          *)
(*                                                                         *)
(* A thread calls run(job); run publishes the job under mutex_ by          *)
(* advancing generation_, wakes the workers, and sleeps on finished_ until *)
(* every worker has reported.  A worker compares generation_ with the last *)
(* generation it observed.  The destructor sets stopping_ and joins.       *)
(*                                                                         *)
(* Every region locked by mutex_ is one step: nothing else touches its     *)
(* variables meanwhile.  Waiting on a condition variable is several steps: *)
(* test the predicate, sleep, be woken (by a notification or spuriously),  *)
(* test again.  dispatch_mutex_ and teams_mutex are held over several      *)
(* steps, so they are variables.                                           *)
(***************************************************************************)
EXTENDS Naturals, FiniteSets

CONSTANTS
  Callers,        \* the threads that call run
  ThreadCount,    \* thread_count_
  MaxGeneration,  \* the largest value of generation_, a size_t that wraps
  NoCaller        \* no thread; also the empty std::function, job_ = {}

ASSUME ThreadCountAssumption == ThreadCount \in Nat \ {0}
ASSUME MaxGenerationAssumption == MaxGeneration \in Nat \ {0}
ASSUME NoCallerAssumption == NoCaller \notin Callers

Workers == 0 .. ThreadCount - 1

VARIABLES
  callerPc,    \* where each caller is in thread_team and run
  registry,    \* the holder of teams_mutex while it constructs the team
  spawned,     \* how many workers the constructor has started
  dispatch,    \* the holder of dispatch_mutex_
  job,         \* job_: the caller whose job it is
  generation,  \* generation_
  completed,   \* completed_
  stopping,    \* stopping_
  workerPc,    \* where each worker is in worker_loop
  observed,    \* observed_generation of each worker
  local,       \* the copy of job_ each worker took
  teardown,    \* where the destructor is
  shares       \* history: how often each worker ran the current job of each caller

lockVars == <<registry, spawned, dispatch>>
teamVars == <<job, generation, completed, stopping>>
workerVars == <<workerPc, observed, local>>
vars == <<callerPc, lockVars, teamVars, workerVars, teardown, shares>>

CallerPcs == {"idle", "lookup", "spawn", "lock", "publish", "notify",
              "test", "asleep", "leave"}
WorkerPcs == {"unborn", "test", "asleep", "execute", "report", "drop", "gone"}
TeardownPcs == {"none", "notify", "join", "done"}

(* ++generation_ on an unsigned counter. *)
NextGeneration(g) == IF g = MaxGeneration THEN 0 ELSE g + 1

Init ==
  /\ callerPc = [c \in Callers |-> "idle"]
  /\ registry = NoCaller
  /\ spawned = 0
  /\ dispatch = NoCaller
  /\ job = NoCaller
  /\ generation = 0
  /\ completed = 0
  /\ stopping = FALSE
  /\ workerPc = [w \in Workers |-> "unborn"]
  /\ observed = [w \in Workers |-> 0]
  /\ local = [w \in Workers |-> NoCaller]
  /\ teardown = "none"
  /\ shares = [c \in Callers |-> [w \in Workers |-> 0]]

CallerMoves(c, from, to) ==
  /\ callerPc[c] = from
  /\ callerPc' = [callerPc EXCEPT ![c] = to]

WorkerMoves(w, from, to) ==
  /\ workerPc[w] = from
  /\ workerPc' = [workerPc EXCEPT ![w] = to]

(* Mutant: notify_one where the code calls notify_all. *)
WakeOneWorker ==
  IF \E w \in Workers : workerPc[w] = "asleep"
    THEN \E w \in Workers : WorkerMoves(w, "asleep", "test")
    ELSE UNCHANGED workerPc

(* start_.notify_all: the sleepers become runnable and will test again. *)
WakeAllWorkers ==
  workerPc' = [w \in Workers |-> IF workerPc[w] = "asleep" THEN "test"
                                                           ELSE workerPc[w]]

-----------------------------------------------------------------------------
(* thread_team: find the team, or construct it under teams_mutex.          *)

(* A caller enters execute(), which asks for its team.  The teams are      *)
(* static objects: no call arrives once they are being destroyed.          *)
Call(c) ==
  /\ teardown = "none"
  /\ CallerMoves(c, "idle", "lookup")
  /\ UNCHANGED <<lockVars, teamVars, workerVars, teardown, shares>>

FindTeam(c) ==
  /\ registry = NoCaller
  /\ spawned = ThreadCount
  /\ CallerMoves(c, "lookup", "lock")
  /\ UNCHANGED <<lockVars, teamVars, workerVars, teardown, shares>>

BeginConstruction(c) ==
  /\ registry = NoCaller
  /\ spawned = 0
  /\ CallerMoves(c, "lookup", "spawn")
  /\ registry' = c
  /\ UNCHANGED <<spawned, dispatch, teamVars, workerVars, teardown, shares>>

(* workers_.emplace_back: the thread starts at once, in index order. *)
SpawnWorker(c) ==
  /\ callerPc[c] = "spawn"
  /\ spawned < ThreadCount
  /\ WorkerMoves(spawned, "unborn", "test")
  /\ spawned' = spawned + 1
  /\ UNCHANGED <<callerPc, registry, dispatch, teamVars, observed, local,
                 teardown, shares>>

EndConstruction(c) ==
  /\ spawned = ThreadCount
  /\ CallerMoves(c, "spawn", "lock")
  /\ registry' = NoCaller
  /\ UNCHANGED <<spawned, dispatch, teamVars, workerVars, teardown, shares>>

-----------------------------------------------------------------------------
(* ThreadTeam::run.                                                        *)

LockDispatch(c) ==
  /\ dispatch = NoCaller
  /\ CallerMoves(c, "lock", "publish")
  /\ dispatch' = c
  /\ UNCHANGED <<registry, spawned, teamVars, workerVars, teardown, shares>>

(* Mutant: run forgets completed_ = 0. *)
PublishKeepsCompleted(c) ==
  /\ CallerMoves(c, "publish", "notify")
  /\ job' = c
  /\ generation' = NextGeneration(generation)
  /\ shares' = [shares EXCEPT ![c] = [w \in Workers |-> 0]]
  /\ UNCHANGED <<lockVars, completed, stopping, workerVars, teardown>>

Publish(c) ==
  /\ CallerMoves(c, "publish", "notify")
  /\ job' = c
  /\ completed' = 0
  /\ generation' = NextGeneration(generation)
  /\ shares' = [shares EXCEPT ![c] = [w \in Workers |-> 0]]
  /\ UNCHANGED <<lockVars, stopping, workerVars, teardown>>

NotifyStart(c) ==
  /\ CallerMoves(c, "notify", "test")
  /\ WakeAllWorkers
  /\ UNCHANGED <<lockVars, teamVars, observed, local, teardown, shares>>

SleepOnFinished(c) ==
  /\ completed # ThreadCount
  /\ CallerMoves(c, "test", "asleep")
  /\ UNCHANGED <<lockVars, teamVars, workerVars, teardown, shares>>

SpuriousFinished(c) ==
  /\ CallerMoves(c, "asleep", "test")
  /\ UNCHANGED <<lockVars, teamVars, workerVars, teardown, shares>>

(* Mutant: run waits until all workers but one have reported. *)
FinishEarly(c) ==
  /\ completed >= ThreadCount - 1
  /\ CallerMoves(c, "test", "leave")
  /\ job' = NoCaller
  /\ UNCHANGED <<lockVars, generation, completed, stopping, workerVars,
                 teardown, shares>>

(* The predicate of finished_.wait holds: clear job_ and unlock mutex_. *)
Finish(c) ==
  /\ completed = ThreadCount
  /\ CallerMoves(c, "test", "leave")
  /\ job' = NoCaller
  /\ UNCHANGED <<lockVars, generation, completed, stopping, workerVars,
                 teardown, shares>>

UnlockDispatch(c) ==
  /\ CallerMoves(c, "leave", "idle")
  /\ dispatch' = NoCaller
  /\ UNCHANGED <<registry, spawned, teamVars, workerVars, teardown, shares>>

-----------------------------------------------------------------------------
(* ThreadTeam::worker_loop.                                                *)

SleepOnStart(w) ==
  /\ ~stopping
  /\ generation = observed[w]
  /\ WorkerMoves(w, "test", "asleep")
  /\ UNCHANGED <<callerPc, lockVars, teamVars, observed, local, teardown, shares>>

SpuriousStart(w) ==
  /\ WorkerMoves(w, "asleep", "test")
  /\ UNCHANGED <<callerPc, lockVars, teamVars, observed, local, teardown, shares>>

(* Mutant: the worker does not remember the generation it took. *)
TakeJobForgetful(w) ==
  /\ ~stopping
  /\ generation # observed[w]
  /\ WorkerMoves(w, "test", "execute")
  /\ local' = [local EXCEPT ![w] = job]
  /\ UNCHANGED <<callerPc, lockVars, teamVars, observed, teardown, shares>>

TakeJob(w) ==
  /\ ~stopping
  /\ generation # observed[w]
  /\ WorkerMoves(w, "test", "execute")
  /\ observed' = [observed EXCEPT ![w] = generation]
  /\ local' = [local EXCEPT ![w] = job]
  /\ UNCHANGED <<callerPc, lockVars, teamVars, teardown, shares>>

LeaveLoop(w) ==
  /\ stopping
  /\ WorkerMoves(w, "test", "gone")
  /\ UNCHANGED <<callerPc, lockVars, teamVars, observed, local, teardown, shares>>

(* job(worker_index), without the lock.  Calling an empty std::function    *)
(* would end the process; EveryCopyIsAJob says it does not happen.         *)
Execute(w) ==
  /\ local[w] \in Callers
  /\ WorkerMoves(w, "execute", "report")
  /\ shares' = [shares EXCEPT ![local[w]][w] = @ + 1]
  /\ UNCHANGED <<callerPc, lockVars, teamVars, observed, local, teardown>>

(* Mutant: the last worker does not notify finished_. *)
NotifyNobody == UNCHANGED callerPc

(* finished_.notify_one: wake one sleeper, if there is one. *)
NotifyFinished ==
  IF \E c \in Callers : callerPc[c] = "asleep"
    THEN \E c \in Callers : CallerMoves(c, "asleep", "test")
    ELSE UNCHANGED callerPc

(* ++completed_; the last one notifies under the lock.                     *)
Report(w) ==
  /\ WorkerMoves(w, "report", "drop")
  /\ completed' = completed + 1
  /\ IF completed' = ThreadCount THEN NotifyFinished ELSE UNCHANGED callerPc
  /\ UNCHANGED <<lockVars, job, generation, stopping, observed, local, teardown, shares>>

(* The iteration ends, and with it the worker's copy of job_: after mutex_ *)
(* is released, so that run may have returned, and another may have begun. *)
DropCopy(w) ==
  /\ WorkerMoves(w, "drop", "test")
  /\ local' = [local EXCEPT ![w] = NoCaller]
  /\ UNCHANGED <<callerPc, lockVars, teamVars, observed, teardown, shares>>

-----------------------------------------------------------------------------
(* ~ThreadTeam, run at static destruction: the calls have returned.        *)

BeginTeardown ==
  /\ teardown = "none"
  /\ spawned = ThreadCount
  /\ \A c \in Callers : callerPc[c] = "idle"
  /\ teardown' = "notify"
  /\ stopping' = TRUE
  /\ generation' = NextGeneration(generation)
  /\ UNCHANGED <<callerPc, lockVars, job, completed, workerVars, shares>>

NotifyStop ==
  /\ teardown = "notify"
  /\ teardown' = "join"
  /\ WakeAllWorkers
  /\ UNCHANGED <<callerPc, lockVars, teamVars, observed, local, shares>>

JoinWorkers ==
  /\ teardown = "join"
  /\ \A w \in Workers : workerPc[w] = "gone"
  /\ teardown' = "done"
  /\ UNCHANGED <<callerPc, lockVars, teamVars, workerVars, shares>>

(* The process has ended: nothing is left to do. *)
Terminated == teardown = "done" /\ UNCHANGED vars

-----------------------------------------------------------------------------
(* What a caller does once it has entered the library; Call is its choice. *)
CallerStep(c) ==
  \/ FindTeam(c)
  \/ BeginConstruction(c)
  \/ SpawnWorker(c)
  \/ EndConstruction(c)
  \/ LockDispatch(c)
  \/ Publish(c)
  \/ NotifyStart(c)
  \/ SleepOnFinished(c)
  \/ Finish(c)
  \/ UnlockDispatch(c)

WorkerStep(w) ==
  \/ SleepOnStart(w)
  \/ TakeJob(w)
  \/ LeaveLoop(w)
  \/ Execute(w)
  \/ Report(w)
  \/ DropCopy(w)

TeardownStep == NotifyStop \/ JoinWorkers

Next ==
  \/ \E c \in Callers : Call(c) \/ CallerStep(c) \/ SpuriousFinished(c)
  \/ \E w \in Workers : WorkerStep(w) \/ SpuriousStart(w)
  \/ BeginTeardown
  \/ TeardownStep
  \/ Terminated

Spec == Init /\ [][Next]_vars

(* The operating system runs every runnable thread: each caller inside the *)
(* library, each worker and the destructor.  No thread is obliged to call  *)
(* or to destroy, and nothing promises a spurious wakeup.  A job returns.  *)
Fairness ==
  /\ \A c \in Callers : WF_vars(CallerStep(c))
  /\ \A w \in Workers : WF_vars(WorkerStep(w))
  /\ WF_vars(TeardownStep)

FairSpec == Spec /\ Fairness

-----------------------------------------------------------------------------
(* Type correctness.  The counters say more than a type: completed_ never  *)
(* passes thread_count_ and no worker runs a job twice.                    *)
TypeOK ==
  /\ callerPc \in [Callers -> CallerPcs]
  /\ registry \in Callers \cup {NoCaller}
  /\ spawned \in 0 .. ThreadCount
  /\ dispatch \in Callers \cup {NoCaller}
  /\ job \in Callers \cup {NoCaller}
  /\ generation \in 0 .. MaxGeneration
  /\ completed \in 0 .. ThreadCount
  /\ stopping \in BOOLEAN
  /\ workerPc \in [Workers -> WorkerPcs]
  /\ observed \in [Workers -> 0 .. MaxGeneration]
  /\ local \in [Workers -> Callers \cup {NoCaller}]
  /\ teardown \in TeardownPcs
  /\ shares \in [Callers -> [Workers -> 0 .. 1]]

(* A call is being served from the publication of its job to its return. *)
Served(c) == callerPc[c] \in {"notify", "test", "asleep"}

(* The join: when run stops waiting, every worker has run this call's job  *)
(* exactly once, and none is still inside it or has yet to report it.  (A  *)
(* worker may still hold its copy of the std::function, also after run has *)
(* returned: it only has to destroy it.)                                   *)
JoinIsComplete ==
  \A c \in Callers : callerPc[c] = "leave" =>
    \A w \in Workers : shares[c][w] = 1 /\ workerPc[w] \notin {"execute", "report"}

(* A worker never takes an empty or a stale job: the copy it is about to   *)
(* run is the job of the call being served, and new to it.  In particular  *)
(* it never wakes to a generation whose job_ was already cleared by run.   *)
EveryCopyIsAJob ==
  \A w \in Workers : workerPc[w] = "execute" =>
    /\ local[w] \in Callers
    /\ Served(local[w])
    /\ shares[local[w]][w] = 0

(* No wakeup is lost.  A worker sleeps through a published generation, or  *)
(* through stopping_, only while the thread that changed it has yet to     *)
(* call notify_all (run notifies after releasing mutex_); and a caller     *)
(* never sleeps on finished_ once all workers have reported, so the last   *)
(* worker's single notify_one is enough.                                   *)
NoLostWakeup ==
  /\ \A w \in Workers :
       workerPc[w] = "asleep" /\ (stopping \/ generation # observed[w]) =>
         teardown = "notify" \/ \E c \in Callers : callerPc[c] = "notify"
  /\ \A c \in Callers : callerPc[c] = "asleep" => completed < ThreadCount

(* run(job) implements the fork and join of ForkJoin: one call at a time,  *)
(* one share per worker, of the right job, and all of them before return.  *)
Phase ==
  [c \in Callers |-> IF callerPc[c] \in {"idle", "leave"} THEN "idle"
                     ELSE IF Served(c) THEN "served" ELSE "requested"]

FJ == INSTANCE ForkJoin WITH phase <- Phase

ImplementsForkJoin == FJ!Spec

(* A call whose job has been published returns; and while calls wait for   *)
(* the team or for dispatch_mutex_ the team keeps serving some call: no    *)
(* thread waits for another that waits for it.  (Which caller gets the     *)
(* mutex is not promised, so one call may starve behind others.)           *)
CallsMakeProgress ==
  /\ \A c \in Callers : (callerPc[c] = "notify") ~> (callerPc[c] = "idle")
  /\ (\E c \in Callers : callerPc[c] \in {"lookup", "lock"})
       ~> (\E c \in Callers : Served(c))

(* The destructor does not hang in join. *)
TeardownEnds == (teardown = "notify") ~> (teardown = "done")

=============================================================================
