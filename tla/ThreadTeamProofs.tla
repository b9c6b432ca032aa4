-------------------------- MODULE ThreadTeamProofs --------------------------
(***************************************************************************)
(* Safety of ThreadTeam for every number of workers, every set of callers  *)
(* and every width of generation_.                                         *)
(*                                                                         *)
(* The argument: between two calls every worker is at rest in the current  *)
(* generation (TeamRests), so that run advances generation_ past a value   *)
(* all workers hold; during a call each worker is in one of four stages    *)
(* (Stage), and completed_ counts those in the last (CompletedCounts).     *)
(***************************************************************************)
EXTENDS ThreadTeam, FiniteSetTheorems, TLAPS

InRun(c) == callerPc[c] \in {"publish", "notify", "test", "asleep", "leave"}

(* The workers that have reported in the current generation. *)
Reported ==
  {w \in Workers : observed[w] = generation /\ workerPc[w] \in {"drop", "test", "asleep"}}

(* The team is constructed by the holder of teams_mutex, before any use. *)
Construction ==
  /\ \A c \in Callers : callerPc[c] = "spawn" <=> registry = c
  /\ \A w \in Workers : workerPc[w] = "unborn" <=> w >= spawned
  /\ \A c \in Callers : InRun(c) \/ callerPc[c] = "lock" => spawned = ThreadCount

(* dispatch_mutex_ is held by exactly the caller inside run. *)
Dispatching == \A c \in Callers : InRun(c) <=> dispatch = c

(* How far worker w is with the job of the served call c: it has not seen  *)
(* it, runs it, has run it, or has reported it.                            *)
Stage(c, w) ==
  \/ /\ observed[w] # generation
     /\ workerPc[w] \in {"drop", "test", "asleep"}
     /\ workerPc[w] = "asleep" => callerPc[c] = "notify"
     /\ shares[c][w] = 0
  \/ /\ observed[w] = generation
     /\ workerPc[w] = "execute"
     /\ shares[c][w] = 0
     /\ local[w] = c
  \/ /\ observed[w] = generation
     /\ workerPc[w] = "report"
     /\ shares[c][w] = 1
     /\ local[w] = c
  \/ w \in Reported /\ shares[c][w] = 1

ServedCall ==
  \A c \in Callers : Served(c) =>
    /\ job = c
    /\ teardown = "none"
    /\ callerPc[c] = "asleep" => completed < ThreadCount
    /\ \A w \in Workers : Stage(c, w)

CompletedCounts ==
  (\E c \in Callers : Served(c)) => completed = Cardinality(Reported)

(* Between calls, and before the first one, no worker is behind. *)
TeamRests ==
  (\A c \in Callers : ~Served(c)) /\ ~stopping =>
    \A w \in Workers :
      observed[w] = generation /\ workerPc[w] \in {"unborn", "drop", "test", "asleep"}

CallDone ==
  \A c \in Callers : callerPc[c] = "leave" => \A w \in Workers : shares[c][w] = 1

(* After the destructor has begun nobody calls, and no worker runs a job. *)
Stopping ==
  /\ stopping <=> teardown # "none"
  /\ stopping => \A c \in Callers : callerPc[c] = "idle"
  /\ stopping => \A w \in Workers :
       /\ workerPc[w] \in {"drop", "test", "asleep", "gone"}
       /\ workerPc[w] = "asleep" => teardown = "notify"

IInv ==
  /\ TypeOK
  /\ Construction
  /\ Dispatching
  /\ ServedCall
  /\ CompletedCounts
  /\ TeamRests
  /\ CallDone
  /\ Stopping

-----------------------------------------------------------------------------
(* Advancing generation_ always changes it, also when it wraps. *)
LEMMA GenerationAdvances ==
  ASSUME NEW g \in 0 .. MaxGeneration
  PROVE  NextGeneration(g) \in 0 .. MaxGeneration /\ NextGeneration(g) # g
BY MaxGenerationAssumption DEF NextGeneration

LEMMA WorkersFinite == IsFiniteSet(Workers) /\ Cardinality(Workers) = ThreadCount
BY ThreadCountAssumption, FS_Interval DEF Workers

(* completed_ can count the reports: there are at most thread_count_, and  *)
(* that many only when every worker has reported.                          *)
LEMMA ReportedBound ==
  /\ IsFiniteSet(Reported)
  /\ Cardinality(Reported) \in 0 .. ThreadCount
  /\ Cardinality(Reported) = ThreadCount => Reported = Workers
<1>1. Reported \in SUBSET Workers
  BY DEF Reported
<1> QED
  BY <1>1, WorkersFinite, FS_Subset, FS_CardinalityType, ThreadCountAssumption

(* What counts is left alone by a step that moves no worker into or out of *)
(* the reported ones.                                                      *)
LEMMA CountKept ==
  ASSUME CompletedCounts, Reported' = Reported, completed' = completed,
         \A c \in Callers : Served(c)' => Served(c)
  PROVE  CompletedCounts'
BY DEF CompletedCounts

LEMMA InitIInv == Init => IInv
<1> SUFFICES ASSUME Init PROVE IInv
  OBVIOUS
<1> USE ThreadCountAssumption, MaxGenerationAssumption, NoCallerAssumption DEF Init
<1>1. TypeOK
  <2>1. shares \in [Callers -> [Workers -> 0 .. 1]]
    OBVIOUS
  <2>2. callerPc \in [Callers -> CallerPcs] /\ workerPc \in [Workers -> WorkerPcs]
    BY DEF CallerPcs, WorkerPcs
  <2>3. observed \in [Workers -> 0 .. MaxGeneration] /\ generation \in 0 .. MaxGeneration
    OBVIOUS
  <2>4. spawned \in 0 .. ThreadCount /\ completed \in 0 .. ThreadCount
    OBVIOUS
  <2>5. local \in [Workers -> Callers \cup {NoCaller}]
    OBVIOUS
  <2> QED
    BY <2>1, <2>2, <2>3, <2>4, <2>5 DEF TypeOK, TeardownPcs
<1>2. Construction /\ Dispatching
  BY DEF Construction, Dispatching, InRun, Workers
<1>3. ServedCall /\ CompletedCounts /\ CallDone
  BY DEF ServedCall, CompletedCounts, CallDone, Served
<1>4. TeamRests /\ Stopping
  BY DEF TeamRests, Stopping
<1> QED
  BY <1>1, <1>2, <1>3, <1>4 DEF IInv

-----------------------------------------------------------------------------
(* The invariant is inductive.  Each step shows the conjuncts in order;    *)
(* those a step leaves alone follow from its UNCHANGED.                    *)
LEMMA StepIInv == IInv /\ [Next]_vars => IInv'
<1> SUFFICES ASSUME IInv, [Next]_vars PROVE IInv'
  OBVIOUS
<1> USE ThreadCountAssumption, MaxGenerationAssumption, NoCallerAssumption
    DEF IInv, CallerMoves, WorkerMoves, lockVars, teamVars, workerVars
<1>1. ASSUME NEW c \in Callers, Call(c) PROVE IInv'
  <2> USE <1>1 DEF Call
  <2>1. TypeOK'
    BY DEF TypeOK, CallerPcs, WorkerPcs, TeardownPcs
  <2>2. Construction' /\ Dispatching'
    BY DEF TypeOK, Construction, Dispatching, InRun, Workers
  <2>3. ServedCall'
    BY DEF TypeOK, Construction, Dispatching, InRun, ServedCall, Served, Stage,
           Reported, TeamRests, Stopping
  <2>4. CompletedCounts'
    <3>1. Reported' = Reported
      BY DEF TypeOK, Reported
    <3>2. \A d \in Callers : Served(d)' => Served(d)
      BY DEF Served, TypeOK
    <3> QED
      BY <3>1, <3>2, CountKept
  <2>5. TeamRests' /\ CallDone' /\ Stopping'
    BY DEF TypeOK, TeamRests, CallDone, Stopping, Served, ServedCall,
           Dispatching, InRun, Construction, Workers
  <2> QED
    BY <2>1, <2>2, <2>3, <2>4, <2>5
<1>2. ASSUME NEW c \in Callers, FindTeam(c) PROVE IInv'
  <2> USE <1>2 DEF FindTeam
  <2>1. TypeOK'
    BY DEF TypeOK, CallerPcs, WorkerPcs, TeardownPcs
  <2>2. Construction' /\ Dispatching'
    BY DEF TypeOK, Construction, Dispatching, InRun, Workers
  <2>3. ServedCall'
    BY DEF TypeOK, Construction, Dispatching, InRun, ServedCall, Served, Stage,
           Reported, TeamRests, Stopping
  <2>4. CompletedCounts'
    <3>1. Reported' = Reported
      BY DEF TypeOK, Reported
    <3>2. \A d \in Callers : Served(d)' => Served(d)
      BY DEF Served, TypeOK
    <3> QED
      BY <3>1, <3>2, CountKept
  <2>5. TeamRests' /\ CallDone' /\ Stopping'
    BY DEF TypeOK, TeamRests, CallDone, Stopping, Served, ServedCall,
           Dispatching, InRun, Construction, Workers
  <2> QED
    BY <2>1, <2>2, <2>3, <2>4, <2>5
<1>3. ASSUME NEW c \in Callers, BeginConstruction(c) PROVE IInv'
  <2> USE <1>3 DEF BeginConstruction
  <2>1. TypeOK'
    BY DEF TypeOK, CallerPcs, WorkerPcs, TeardownPcs
  <2>2. Construction' /\ Dispatching'
    BY DEF TypeOK, Construction, Dispatching, InRun, Workers
  <2>3. ServedCall'
    BY DEF TypeOK, Construction, Dispatching, InRun, ServedCall, Served, Stage,
           Reported, TeamRests, Stopping
  <2>4. CompletedCounts'
    <3>1. Reported' = Reported
      BY DEF TypeOK, Reported
    <3>2. \A d \in Callers : Served(d)' => Served(d)
      BY DEF Served, TypeOK
    <3> QED
      BY <3>1, <3>2, CountKept
  <2>5. TeamRests' /\ CallDone' /\ Stopping'
    BY DEF TypeOK, TeamRests, CallDone, Stopping, Served, ServedCall,
           Dispatching, InRun, Construction, Workers
  <2> QED
    BY <2>1, <2>2, <2>3, <2>4, <2>5
<1>4. ASSUME NEW c \in Callers, SpawnWorker(c) PROVE IInv'
  <2> USE <1>4 DEF SpawnWorker
  <2>1. TypeOK'
    <3>1. spawned \in Workers /\ spawned + 1 \in 0 .. ThreadCount
      BY DEF TypeOK, Workers
    <3> QED
      BY <3>1 DEF TypeOK, WorkerPcs
  <2>2. Construction' /\ Dispatching'
    BY DEF TypeOK, Construction, Dispatching, InRun, Workers
  <2>3. ServedCall'
    BY DEF TypeOK, Construction, Dispatching, InRun, ServedCall, Served, Stage,
           Reported, TeamRests, Stopping
  <2>4. CompletedCounts'
    <3>1. \A d \in Callers : ~Served(d)'
      BY DEF TypeOK, Served, InRun, Construction
    <3> QED
      BY <3>1 DEF CompletedCounts
  <2>5. TeamRests' /\ CallDone' /\ Stopping'
    BY DEF TypeOK, TeamRests, CallDone, Stopping, Served, ServedCall,
           Dispatching, InRun, Construction, Workers
  <2> QED
    BY <2>1, <2>2, <2>3, <2>4, <2>5
<1>5. ASSUME NEW c \in Callers, EndConstruction(c) PROVE IInv'
  <2> USE <1>5 DEF EndConstruction
  <2>1. TypeOK'
    BY DEF TypeOK, CallerPcs, WorkerPcs, TeardownPcs
  <2>2. Construction' /\ Dispatching'
    BY DEF TypeOK, Construction, Dispatching, InRun, Workers
  <2>3. ServedCall'
    BY DEF TypeOK, Construction, Dispatching, InRun, ServedCall, Served, Stage,
           Reported, TeamRests, Stopping
  <2>4. CompletedCounts'
    <3>1. Reported' = Reported
      BY DEF TypeOK, Reported
    <3>2. \A d \in Callers : Served(d)' => Served(d)
      BY DEF Served, TypeOK
    <3> QED
      BY <3>1, <3>2, CountKept
  <2>5. TeamRests' /\ CallDone' /\ Stopping'
    BY DEF TypeOK, TeamRests, CallDone, Stopping, Served, ServedCall,
           Dispatching, InRun, Construction, Workers
  <2> QED
    BY <2>1, <2>2, <2>3, <2>4, <2>5
<1>6. ASSUME NEW c \in Callers, LockDispatch(c) PROVE IInv'
  <2> USE <1>6 DEF LockDispatch
  <2>1. TypeOK'
    BY DEF TypeOK, CallerPcs, WorkerPcs, TeardownPcs
  <2>2. Construction' /\ Dispatching'
    BY DEF TypeOK, Construction, Dispatching, InRun, Workers
  <2>3. ServedCall'
    BY DEF TypeOK, Construction, Dispatching, InRun, ServedCall, Served, Stage,
           Reported, TeamRests, Stopping
  <2>4. CompletedCounts'
    <3>1. Reported' = Reported
      BY DEF TypeOK, Reported
    <3>2. \A d \in Callers : Served(d)' => Served(d)
      BY DEF Served, TypeOK
    <3> QED
      BY <3>1, <3>2, CountKept
  <2>5. TeamRests' /\ CallDone' /\ Stopping'
    BY DEF TypeOK, TeamRests, CallDone, Stopping, Served, ServedCall,
           Dispatching, InRun, Construction, Workers
  <2> QED
    BY <2>1, <2>2, <2>3, <2>4, <2>5
<1>7. ASSUME NEW c \in Callers, Publish(c) PROVE IInv'
  <2> USE <1>7 DEF Publish
  <2>1. TypeOK'
    <3>1. shares' \in [Callers -> [Workers -> 0 .. 1]]
      BY DEF TypeOK
    <3> QED
      BY <3>1, GenerationAdvances DEF TypeOK, CallerPcs
  <2>2. Construction' /\ Dispatching'
    BY DEF TypeOK, Construction, Dispatching, InRun, Workers
  <2>3. ServedCall'
    <3>1. (\A d \in Callers : ~Served(d)) /\ ~stopping /\ spawned = ThreadCount
      BY DEF TypeOK, Dispatching, InRun, Served, Stopping, Construction
    <3>2. \A w \in Workers : /\ observed[w] # generation'
                            /\ workerPc[w] \in {"drop", "test", "asleep"}
      <4> TAKE w \in Workers
      <4>1. observed[w] = generation /\ workerPc[w] \in {"unborn", "drop", "test", "asleep"}
        BY <3>1 DEF TeamRests
      <4>2. workerPc[w] # "unborn"
        BY <3>1 DEF Construction, Workers
      <4> QED
        BY <4>1, <4>2, GenerationAdvances DEF TypeOK
    <3>3. \A d \in Callers : Served(d)' => d = c
      BY <3>1 DEF TypeOK, Served
    <3>4. job' = c /\ teardown' = "none" /\ callerPc'[c] = "notify"
      BY <3>1 DEF TypeOK, Stopping
    <3>5. \A w \in Workers : Stage(c, w)'
      BY <3>2, <3>4 DEF TypeOK, Stage
    <3> QED
      BY <3>3, <3>4, <3>5 DEF ServedCall
  <2>4. CompletedCounts'
    <3>1. (\A d \in Callers : ~Served(d)) /\ ~stopping
      BY DEF TypeOK, Dispatching, InRun, Served, Stopping
    <3>2. Reported' = {}
      BY <3>1, GenerationAdvances DEF TypeOK, TeamRests, Reported
    <3> QED
      BY <3>2, FS_EmptySet DEF CompletedCounts
  <2>5. TeamRests' /\ CallDone' /\ Stopping'
    BY DEF TypeOK, TeamRests, CallDone, Stopping, Served, ServedCall,
           Dispatching, InRun, Construction, Workers
  <2> QED
    BY <2>1, <2>2, <2>3, <2>4, <2>5
<1>8. ASSUME NEW c \in Callers, NotifyStart(c) PROVE IInv'
  <2> USE <1>8 DEF NotifyStart, WakeAllWorkers
  <2>1. TypeOK'
    BY DEF TypeOK, CallerPcs, WorkerPcs, TeardownPcs
  <2>2. Construction' /\ Dispatching'
    BY DEF TypeOK, Construction, Dispatching, InRun, Workers
  <2>3. ServedCall'
    BY DEF TypeOK, Construction, Dispatching, InRun, ServedCall, Served, Stage,
           Reported, TeamRests, Stopping
  <2>4. CompletedCounts'
    <3>1. Reported' = Reported
      BY DEF TypeOK, Reported
    <3>2. \A d \in Callers : Served(d)' => Served(d)
      BY DEF Served, TypeOK
    <3> QED
      BY <3>1, <3>2, CountKept
  <2>5. TeamRests' /\ CallDone' /\ Stopping'
    BY DEF TypeOK, TeamRests, CallDone, Stopping, Served, ServedCall,
           Dispatching, InRun, Construction, Workers
  <2> QED
    BY <2>1, <2>2, <2>3, <2>4, <2>5
<1>9. ASSUME NEW c \in Callers, SleepOnFinished(c) PROVE IInv'
  <2> USE <1>9 DEF SleepOnFinished
  <2>1. TypeOK'
    BY DEF TypeOK, CallerPcs, WorkerPcs, TeardownPcs
  <2>2. Construction' /\ Dispatching'
    BY DEF TypeOK, Construction, Dispatching, InRun, Workers
  <2>3. ServedCall'
    BY DEF TypeOK, Construction, Dispatching, InRun, ServedCall, Served, Stage,
           Reported, TeamRests, Stopping
  <2>4. CompletedCounts'
    <3>1. Reported' = Reported
      BY DEF TypeOK, Reported
    <3>2. \A d \in Callers : Served(d)' => Served(d)
      BY DEF Served, TypeOK
    <3> QED
      BY <3>1, <3>2, CountKept
  <2>5. TeamRests' /\ CallDone' /\ Stopping'
    BY DEF TypeOK, TeamRests, CallDone, Stopping, Served, ServedCall,
           Dispatching, InRun, Construction, Workers
  <2> QED
    BY <2>1, <2>2, <2>3, <2>4, <2>5
<1>10. ASSUME NEW c \in Callers, SpuriousFinished(c) PROVE IInv'
  <2> USE <1>10 DEF SpuriousFinished
  <2>1. TypeOK'
    BY DEF TypeOK, CallerPcs, WorkerPcs, TeardownPcs
  <2>2. Construction' /\ Dispatching'
    BY DEF TypeOK, Construction, Dispatching, InRun, Workers
  <2>3. ServedCall'
    BY DEF TypeOK, Construction, Dispatching, InRun, ServedCall, Served, Stage,
           Reported, TeamRests, Stopping
  <2>4. CompletedCounts'
    <3>1. Reported' = Reported
      BY DEF TypeOK, Reported
    <3>2. \A d \in Callers : Served(d)' => Served(d)
      BY DEF Served, TypeOK
    <3> QED
      BY <3>1, <3>2, CountKept
  <2>5. TeamRests' /\ CallDone' /\ Stopping'
    BY DEF TypeOK, TeamRests, CallDone, Stopping, Served, ServedCall,
           Dispatching, InRun, Construction, Workers
  <2> QED
    BY <2>1, <2>2, <2>3, <2>4, <2>5
<1>11. ASSUME NEW c \in Callers, Finish(c) PROVE IInv'
  <2> USE <1>11 DEF Finish
  <2>1. TypeOK'
    BY DEF TypeOK, CallerPcs, WorkerPcs, TeardownPcs
  <2>2. Construction' /\ Dispatching'
    BY DEF TypeOK, Construction, Dispatching, InRun, Workers
  <2>3. ServedCall'
    BY DEF TypeOK, Construction, Dispatching, InRun, ServedCall, Served, Stage,
           Reported, TeamRests, Stopping
  <2>4. CompletedCounts'
    <3>1. Reported' = Reported
      BY DEF TypeOK, Reported
    <3>2. \A d \in Callers : Served(d)' => Served(d)
      BY DEF Served, TypeOK
    <3> QED
      BY <3>1, <3>2, CountKept
  <2>5. TeamRests' /\ CallDone' /\ Stopping'
    <3>1. Served(c) /\ completed = Cardinality(Reported)
      BY DEF Served, CompletedCounts
    <3>2. Reported = Workers
      BY <3>1, ReportedBound
    <3>3. \A w \in Workers : /\ observed[w] = generation
                            /\ workerPc[w] \in {"drop", "test", "asleep"}
                            /\ shares[c][w] = 1
      BY <3>1, <3>2 DEF ServedCall, Stage, Reported
    <3>4. \A d \in Callers : callerPc'[d] = "leave" => d = c
      BY DEF TypeOK, Dispatching, InRun
    <3>5. TeamRests' /\ CallDone'
      BY <3>3, <3>4 DEF TypeOK, TeamRests, CallDone
    <3> QED
      BY <3>5 DEF TypeOK, Stopping
  <2> QED
    BY <2>1, <2>2, <2>3, <2>4, <2>5
<1>12. ASSUME NEW c \in Callers, UnlockDispatch(c) PROVE IInv'
  <2> USE <1>12 DEF UnlockDispatch
  <2>1. TypeOK'
    BY DEF TypeOK, CallerPcs, WorkerPcs, TeardownPcs
  <2>2. Construction' /\ Dispatching'
    BY DEF TypeOK, Construction, Dispatching, InRun, Workers
  <2>3. ServedCall'
    BY DEF TypeOK, Construction, Dispatching, InRun, ServedCall, Served, Stage,
           Reported, TeamRests, Stopping
  <2>4. CompletedCounts'
    <3>1. Reported' = Reported
      BY DEF TypeOK, Reported
    <3>2. \A d \in Callers : Served(d)' => Served(d)
      BY DEF Served, TypeOK
    <3> QED
      BY <3>1, <3>2, CountKept
  <2>5. TeamRests' /\ CallDone' /\ Stopping'
    BY DEF TypeOK, TeamRests, CallDone, Stopping, Served, ServedCall,
           Dispatching, InRun, Construction, Workers
  <2> QED
    BY <2>1, <2>2, <2>3, <2>4, <2>5
<1>13. ASSUME NEW w \in Workers, SleepOnStart(w) PROVE IInv'
  <2> USE <1>13 DEF SleepOnStart
  <2>1. TypeOK'
    BY DEF TypeOK, CallerPcs, WorkerPcs, TeardownPcs
  <2>2. Construction' /\ Dispatching'
    BY DEF TypeOK, Construction, Dispatching, InRun, Workers
  <2>3. ServedCall'
    BY DEF TypeOK, Construction, Dispatching, InRun, ServedCall, Served, Stage,
           Reported, TeamRests, Stopping
  <2>4. CompletedCounts'
    <3>1. Reported' = Reported
      BY DEF TypeOK, Reported
    <3>2. \A d \in Callers : Served(d)' => Served(d)
      BY DEF Served, TypeOK
    <3> QED
      BY <3>1, <3>2, CountKept
  <2>5. TeamRests' /\ CallDone' /\ Stopping'
    BY DEF TypeOK, TeamRests, CallDone, Stopping, Served, ServedCall,
           Dispatching, InRun, Construction, Workers
  <2> QED
    BY <2>1, <2>2, <2>3, <2>4, <2>5
<1>14. ASSUME NEW w \in Workers, SpuriousStart(w) PROVE IInv'
  <2> USE <1>14 DEF SpuriousStart
  <2>1. TypeOK'
    BY DEF TypeOK, CallerPcs, WorkerPcs, TeardownPcs
  <2>2. Construction' /\ Dispatching'
    BY DEF TypeOK, Construction, Dispatching, InRun, Workers
  <2>3. ServedCall'
    BY DEF TypeOK, Construction, Dispatching, InRun, ServedCall, Served, Stage,
           Reported, TeamRests, Stopping
  <2>4. CompletedCounts'
    <3>1. Reported' = Reported
      BY DEF TypeOK, Reported
    <3>2. \A d \in Callers : Served(d)' => Served(d)
      BY DEF Served, TypeOK
    <3> QED
      BY <3>1, <3>2, CountKept
  <2>5. TeamRests' /\ CallDone' /\ Stopping'
    BY DEF TypeOK, TeamRests, CallDone, Stopping, Served, ServedCall,
           Dispatching, InRun, Construction, Workers
  <2> QED
    BY <2>1, <2>2, <2>3, <2>4, <2>5
<1>15. ASSUME NEW w \in Workers, TakeJob(w) PROVE IInv'
  <2> USE <1>15 DEF TakeJob
  <2>1. TypeOK'
    BY DEF TypeOK, CallerPcs, WorkerPcs, TeardownPcs
  <2>2. Construction' /\ Dispatching'
    BY DEF TypeOK, Construction, Dispatching, InRun, Workers
  <2>3. ServedCall'
    BY DEF TypeOK, Construction, Dispatching, InRun, ServedCall, Served, Stage,
           Reported, TeamRests, Stopping
  <2>4. CompletedCounts'
    <3>1. Reported' = Reported
      BY DEF TypeOK, Reported
    <3>2. \A d \in Callers : Served(d)' => Served(d)
      BY DEF Served, TypeOK
    <3> QED
      BY <3>1, <3>2, CountKept
  <2>5. TeamRests' /\ CallDone' /\ Stopping'
    BY DEF TypeOK, TeamRests, CallDone, Stopping, Served, ServedCall,
           Dispatching, InRun, Construction, Workers
  <2> QED
    BY <2>1, <2>2, <2>3, <2>4, <2>5
<1>16. ASSUME NEW w \in Workers, LeaveLoop(w) PROVE IInv'
  <2> USE <1>16 DEF LeaveLoop
  <2>1. TypeOK'
    BY DEF TypeOK, CallerPcs, WorkerPcs, TeardownPcs
  <2>2. Construction' /\ Dispatching'
    BY DEF TypeOK, Construction, Dispatching, InRun, Workers
  <2>3. ServedCall'
    BY DEF TypeOK, Construction, Dispatching, InRun, ServedCall, Served, Stage,
           Reported, TeamRests, Stopping
  <2>4. CompletedCounts'
    <3>1. \A d \in Callers : ~Served(d)'
      BY DEF TypeOK, Served, InRun, Stopping
    <3> QED
      BY <3>1 DEF CompletedCounts
  <2>5. TeamRests' /\ CallDone' /\ Stopping'
    BY DEF TypeOK, TeamRests, CallDone, Stopping, Served, ServedCall,
           Dispatching, InRun, Construction, Workers
  <2> QED
    BY <2>1, <2>2, <2>3, <2>4, <2>5
<1>17. ASSUME NEW w \in Workers, Execute(w) PROVE IInv'
  <2> USE <1>17 DEF Execute
  <2>1. TypeOK'
    <3>1. shares[local[w]][w] = 0
      BY DEF TypeOK, ServedCall, Stage, TeamRests, Stopping, Reported
    <3>2. shares' \in [Callers -> [Workers -> 0 .. 1]]
      BY <3>1 DEF TypeOK
    <3> QED
      BY <3>2 DEF TypeOK, WorkerPcs
  <2>2. Construction' /\ Dispatching'
    BY DEF TypeOK, Construction, Dispatching, InRun, Workers
  <2>3. ServedCall'
    BY DEF TypeOK, Construction, Dispatching, InRun, ServedCall, Served, Stage,
           Reported, TeamRests, Stopping
  <2>4. CompletedCounts'
    <3>1. Reported' = Reported
      BY DEF TypeOK, Reported
    <3>2. \A d \in Callers : Served(d)' => Served(d)
      BY DEF Served, TypeOK
    <3> QED
      BY <3>1, <3>2, CountKept
  <2>5. TeamRests' /\ CallDone' /\ Stopping'
    BY DEF TypeOK, TeamRests, CallDone, Stopping, Served, ServedCall,
           Dispatching, InRun, Construction, Workers
  <2> QED
    BY <2>1, <2>2, <2>3, <2>4, <2>5
<1>18. ASSUME NEW w \in Workers, Report(w) PROVE IInv'
  <2> USE <1>18 DEF Report, NotifyFinished
  <2>1. TypeOK'
    <3>1. PICK c \in Callers : Served(c)
      BY DEF TeamRests, Stopping, TypeOK
    <3>2. w \notin Reported /\ completed = Cardinality(Reported)
      BY <3>1 DEF CompletedCounts, Reported
    <3>3. Cardinality(Reported) # ThreadCount
      BY <3>2, ReportedBound
    <3>4. completed' \in 0 .. ThreadCount
      BY <3>2, <3>3, ReportedBound
    <3> QED
      BY <3>4 DEF TypeOK, CallerPcs, WorkerPcs
  <2>2. Construction' /\ Dispatching'
    BY DEF TypeOK, Construction, Dispatching, InRun, Workers
  <2>3. ServedCall'
    BY DEF TypeOK, Construction, Dispatching, InRun, ServedCall, Served, Stage,
           Reported, TeamRests, Stopping
  <2>4. CompletedCounts'
    <3>1. PICK c \in Callers : Served(c)
      BY DEF TeamRests, Stopping, TypeOK
    <3>2. observed[w] = generation
      BY <3>1 DEF ServedCall, Stage, Reported
    <3>3. Reported' = Reported \cup {w} /\ w \notin Reported
      BY <3>2 DEF TypeOK, Reported
    <3>4. completed = Cardinality(Reported)
      BY <3>1 DEF CompletedCounts
    <3> QED
      BY <3>3, <3>4, ReportedBound, FS_AddElement DEF CompletedCounts
  <2>5. TeamRests' /\ CallDone' /\ Stopping'
    BY ZenonT(40) DEF TypeOK, TeamRests, CallDone, Stopping, Served, ServedCall,
           Dispatching, InRun, Construction, Workers
  <2> QED
    BY <2>1, <2>2, <2>3, <2>4, <2>5
<1>19. ASSUME NEW w \in Workers, DropCopy(w) PROVE IInv'
  <2> USE <1>19 DEF DropCopy
  <2>1. TypeOK'
    BY DEF TypeOK, CallerPcs, WorkerPcs, TeardownPcs
  <2>2. Construction' /\ Dispatching'
    BY DEF TypeOK, Construction, Dispatching, InRun, Workers
  <2>3. ServedCall'
    BY DEF TypeOK, Construction, Dispatching, InRun, ServedCall, Served, Stage,
           Reported, TeamRests, Stopping
  <2>4. CompletedCounts'
    <3>1. Reported' = Reported
      BY DEF TypeOK, Reported
    <3>2. \A d \in Callers : Served(d)' => Served(d)
      BY DEF Served, TypeOK
    <3> QED
      BY <3>1, <3>2, CountKept
  <2>5. TeamRests' /\ CallDone' /\ Stopping'
    BY DEF TypeOK, TeamRests, CallDone, Stopping, Served, ServedCall,
           Dispatching, InRun, Construction, Workers
  <2> QED
    BY <2>1, <2>2, <2>3, <2>4, <2>5
<1>20. ASSUME BeginTeardown PROVE IInv'
  <2> USE <1>20 DEF BeginTeardown
  <2>1. TypeOK'
    BY GenerationAdvances DEF TypeOK, TeardownPcs
  <2>2. Construction' /\ Dispatching'
    BY DEF TypeOK, Construction, Dispatching, InRun, Workers
  <2>3. ServedCall'
    BY DEF TypeOK, Construction, Dispatching, InRun, ServedCall, Served, Stage,
           Reported, TeamRests, Stopping
  <2>4. CompletedCounts'
    <3>1. \A d \in Callers : ~Served(d)'
      BY DEF TypeOK, Served, InRun, Stopping
    <3> QED
      BY <3>1 DEF CompletedCounts
  <2>5. TeamRests' /\ CallDone' /\ Stopping'
    BY DEF TypeOK, TeamRests, CallDone, Stopping, Served, ServedCall,
           Dispatching, InRun, Construction, Workers
  <2> QED
    BY <2>1, <2>2, <2>3, <2>4, <2>5
<1>21. ASSUME NotifyStop PROVE IInv'
  <2> USE <1>21 DEF NotifyStop, WakeAllWorkers
  <2>1. TypeOK'
    BY DEF TypeOK, CallerPcs, WorkerPcs, TeardownPcs
  <2>2. Construction' /\ Dispatching'
    BY DEF TypeOK, Construction, Dispatching, InRun, Workers
  <2>3. ServedCall'
    BY DEF TypeOK, Construction, Dispatching, InRun, ServedCall, Served, Stage,
           Reported, TeamRests, Stopping
  <2>4. CompletedCounts'
    <3>1. Reported' = Reported
      BY DEF TypeOK, Reported
    <3>2. \A d \in Callers : Served(d)' => Served(d)
      BY DEF Served, TypeOK
    <3> QED
      BY <3>1, <3>2, CountKept
  <2>5. TeamRests' /\ CallDone' /\ Stopping'
    BY DEF TypeOK, TeamRests, CallDone, Stopping, Served, ServedCall,
           Dispatching, InRun, Construction, Workers
  <2> QED
    BY <2>1, <2>2, <2>3, <2>4, <2>5
<1>22. ASSUME JoinWorkers PROVE IInv'
  <2> USE <1>22 DEF JoinWorkers
  <2>1. TypeOK'
    BY DEF TypeOK, CallerPcs, WorkerPcs, TeardownPcs
  <2>2. Construction' /\ Dispatching'
    BY DEF TypeOK, Construction, Dispatching, InRun, Workers
  <2>3. ServedCall'
    BY DEF TypeOK, Construction, Dispatching, InRun, ServedCall, Served, Stage,
           Reported, TeamRests, Stopping
  <2>4. CompletedCounts'
    <3>1. Reported' = Reported
      BY DEF TypeOK, Reported
    <3>2. \A d \in Callers : Served(d)' => Served(d)
      BY DEF Served, TypeOK
    <3> QED
      BY <3>1, <3>2, CountKept
  <2>5. TeamRests' /\ CallDone' /\ Stopping'
    BY DEF TypeOK, TeamRests, CallDone, Stopping, Served, ServedCall,
           Dispatching, InRun, Construction, Workers
  <2> QED
    BY <2>1, <2>2, <2>3, <2>4, <2>5
<1>23. CASE UNCHANGED vars
  BY <1>23 DEF vars, TypeOK, Construction, Dispatching, ServedCall, CompletedCounts,
     TeamRests, CallDone, Stopping, InRun, Served, Stage, Reported
<1> QED
  BY <1>1, <1>2, <1>3, <1>4, <1>5, <1>6, <1>7, <1>8, <1>9, <1>10, <1>11,
     <1>12, <1>13, <1>14, <1>15, <1>16, <1>17, <1>18, <1>19, <1>20, <1>21, <1>22, <1>23
  DEF Next, CallerStep, WorkerStep, TeardownStep, Terminated

LEMMA Invariance == Spec => []IInv
BY InitIInv, StepIInv, PTL DEF Spec

-----------------------------------------------------------------------------
(* Types, completed_ never above thread_count_, no job run twice. *)
THEOREM TypeCorrect == Spec => []TypeOK
<1>1. IInv => TypeOK
  BY DEF IInv
<1> QED
  BY <1>1, Invariance, PTL

(* When run stops waiting, every worker has run the job exactly once and   *)
(* has reported it (ThreadTeam::run returns to its caller after that).     *)
THEOREM JoinCorrect == Spec => []JoinIsComplete
<1>1. IInv => JoinIsComplete
  <2> SUFFICES ASSUME IInv, NEW c \in Callers, callerPc[c] = "leave", NEW w \in Workers
               PROVE  shares[c][w] = 1 /\ workerPc[w] \notin {"execute", "report"}
    BY DEF JoinIsComplete
  <2>1. (\A d \in Callers : ~Served(d)) /\ ~stopping
    BY DEF IInv, TypeOK, Dispatching, InRun, Served, Stopping
  <2>2. workerPc[w] \in {"unborn", "drop", "test", "asleep"}
    BY <2>1 DEF IInv, TeamRests
  <2> QED
    BY <2>2 DEF IInv, CallDone
<1> QED
  BY <1>1, Invariance, PTL

(* A copy of job_ that a worker is about to run is the served call's job,  *)
(* never an empty or an old one, and the worker has not run it yet.        *)
THEOREM CopyCorrect == Spec => []EveryCopyIsAJob
<1>1. IInv => EveryCopyIsAJob
  <2> SUFFICES ASSUME IInv, NEW w \in Workers, workerPc[w] = "execute"
               PROVE  /\ local[w] \in Callers
                      /\ Served(local[w])
                      /\ shares[local[w]][w] = 0
    BY DEF EveryCopyIsAJob
  <2>1. PICK c \in Callers : Served(c)
    BY DEF IInv, TeamRests, Stopping
  <2> QED
    BY <2>1 DEF IInv, ServedCall, Stage, Reported
<1> QED
  BY <1>1, Invariance, PTL

(* Nobody sleeps through the event it waits for, although run calls        *)
(* notify_all only after it has released mutex_.                           *)
THEOREM WakeupCorrect == Spec => []NoLostWakeup
<1>1. IInv => NoLostWakeup
  <2> SUFFICES ASSUME IInv PROVE NoLostWakeup
    OBVIOUS
  <2>1. ASSUME NEW w \in Workers, workerPc[w] = "asleep", stopping
        PROVE  teardown = "notify"
    BY <2>1 DEF IInv, Stopping
  <2>2. ASSUME NEW w \in Workers, workerPc[w] = "asleep", ~stopping,
               generation # observed[w]
        PROVE  \E c \in Callers : callerPc[c] = "notify"
    <3>1. PICK c \in Callers : Served(c)
      BY <2>2 DEF IInv, TeamRests
    <3> QED
      BY <2>2, <3>1 DEF IInv, ServedCall, Stage, Reported
  <2>3. \A c \in Callers : callerPc[c] = "asleep" => completed < ThreadCount
    BY DEF IInv, ServedCall, Served
  <2> QED
    BY <2>1, <2>2, <2>3 DEF NoLostWakeup
<1> QED
  BY <1>1, Invariance, PTL

-----------------------------------------------------------------------------
(* A step that changes neither the phase of a caller nor a share is        *)
(* invisible to ForkJoin.                                                  *)
LEMMA PhaseKept ==
  ASSUME NEW c \in Callers, TypeOK, shares' = shares,
         callerPc' = [callerPc EXCEPT ![c] = callerPc'[c]],
         Phase'[c] = Phase[c]
  PROVE  FJ!Next \/ UNCHANGED FJ!fjvars
<1>1. \A d \in Callers : Phase'[d] = Phase[d]
  BY DEF TypeOK, Phase, Served
<1>2. Phase' = Phase
  BY <1>1 DEF Phase
<1> QED
  BY <1>2 DEF FJ!fjvars

(* run(job) refines the abstract fork and join: the steps that matter are  *)
(* the call, the publication of the job, its execution by each worker, and *)
(* the end of the wait; everything else stutters.                          *)
THEOREM RefinesForkJoin == Spec => ImplementsForkJoin
<1>1. Init => FJ!Init
  BY DEF Init, FJ!Init, Phase
<1>2. IInv /\ [Next]_vars => [FJ!Next]_(FJ!fjvars)
  <2> SUFFICES ASSUME IInv, [Next]_vars PROVE FJ!Next \/ UNCHANGED FJ!fjvars
    BY DEF FJ!fjvars
  <2> USE DEF IInv, CallerMoves, lockVars, teamVars, workerVars
  <2>1. ASSUME NEW c \in Callers, Call(c) PROVE FJ!Request(c)
    BY <2>1 DEF Call, FJ!Request, Phase, TypeOK, Served
  <2>2. ASSUME NEW c \in Callers, Publish(c) PROVE FJ!Serve(c)
    <3>1. \A d \in Callers : ~Served(d)
      BY <2>2 DEF Publish, Dispatching, InRun, Served
    <3> QED
      BY <2>2, <3>1 DEF Publish, FJ!Serve, Phase, TypeOK, Served
  <2>3. ASSUME NEW c \in Callers, Finish(c) PROVE FJ!Return(c)
    <3>1. Served(c) /\ completed = Cardinality(Reported)
      BY <2>3 DEF Finish, Served, CompletedCounts
    <3>2. Reported = Workers
      BY <2>3, <3>1, ReportedBound DEF Finish
    <3>3. \A w \in Workers : shares[c][w] = 1
      BY <3>1, <3>2 DEF ServedCall, Stage, Reported
    <3> QED
      BY <2>3, <3>1, <3>3 DEF Finish, FJ!Return, Phase, TypeOK, Served
  <2>4. ASSUME NEW w \in Workers, Execute(w) PROVE FJ!Share(local[w], w)
    <3>1. PICK c \in Callers : Served(c)
      BY <2>4 DEF Execute, WorkerMoves, TeamRests, Stopping
    <3>2. local[w] = c /\ shares[c][w] = 0
      BY <2>4, <3>1 DEF Execute, WorkerMoves, ServedCall, Stage, Reported
    <3> QED
      BY <2>4, <3>1, <3>2 DEF Execute, FJ!Share, Phase, TypeOK, Served
  <2>5. ASSUME NEW c \in Callers,
               \/ FindTeam(c) \/ BeginConstruction(c) \/ EndConstruction(c)
               \/ LockDispatch(c) \/ NotifyStart(c) \/ SleepOnFinished(c)
               \/ SpuriousFinished(c) \/ UnlockDispatch(c)
        PROVE  FJ!Next \/ UNCHANGED FJ!fjvars
    <3>1. /\ shares' = shares
          /\ callerPc' = [callerPc EXCEPT ![c] = callerPc'[c]]
          /\ Phase'[c] = Phase[c]
      BY <2>5 DEF FindTeam, BeginConstruction, EndConstruction, LockDispatch, NotifyStart,
         SleepOnFinished, SpuriousFinished, UnlockDispatch, Phase, Served, TypeOK
    <3> QED
      BY <3>1, PhaseKept
  <2>6. ASSUME NEW w \in Workers, Report(w) PROVE FJ!Next \/ UNCHANGED FJ!fjvars
    <3>1. shares' = shares
      BY <2>6 DEF Report
    <3>2. CASE UNCHANGED callerPc
      BY <3>1, <3>2 DEF FJ!fjvars, Phase, Served
    <3>3. CASE \E c \in Callers : CallerMoves(c, "asleep", "test")
      <4>1. PICK c \in Callers : CallerMoves(c, "asleep", "test")
        BY <3>3
      <4>2. callerPc' = [callerPc EXCEPT ![c] = callerPc'[c]] /\ Phase'[c] = Phase[c]
        BY <4>1 DEF TypeOK, Phase, Served
      <4> QED
        BY <3>1, <4>2, PhaseKept
    <3> QED
      BY <2>6, <3>2, <3>3 DEF Report, NotifyFinished
  <2>7. ASSUME UNCHANGED <<callerPc, shares>> PROVE UNCHANGED FJ!fjvars
    BY <2>7 DEF FJ!fjvars, Phase, Served
  <2>8. ASSUME NEW c \in Callers, SpawnWorker(c) PROVE UNCHANGED <<callerPc, shares>>
    BY <2>8 DEF SpawnWorker
  <2>9. ASSUME NEW w \in Workers,
               \/ SleepOnStart(w) \/ SpuriousStart(w) \/ TakeJob(w)
               \/ LeaveLoop(w) \/ DropCopy(w)
        PROVE  UNCHANGED <<callerPc, shares>>
    BY <2>9 DEF SleepOnStart, SpuriousStart, TakeJob, LeaveLoop, DropCopy
  <2>10. ASSUME BeginTeardown \/ TeardownStep \/ Terminated \/ UNCHANGED vars
         PROVE  UNCHANGED <<callerPc, shares>>
    BY <2>10 DEF BeginTeardown, TeardownStep, NotifyStop, JoinWorkers, Terminated, vars
  <2>11. ASSUME NEW c \in Callers, Call(c) \/ CallerStep(c) \/ SpuriousFinished(c)
         PROVE  FJ!Next \/ UNCHANGED FJ!fjvars
    BY <2>11, <2>1, <2>2, <2>3, <2>5, <2>7, <2>8 DEF CallerStep, FJ!Next
  <2>12. ASSUME NEW w \in Workers, WorkerStep(w) \/ SpuriousStart(w)
         PROVE  FJ!Next \/ UNCHANGED FJ!fjvars
    <3>1. CASE Execute(w)
      BY <3>1, <2>4 DEF FJ!Next, Execute
    <3> QED
      BY <2>12, <3>1, <2>6, <2>7, <2>9 DEF WorkerStep
  <2> QED
    BY <2>7, <2>10, <2>11, <2>12 DEF Next
<1> QED
  BY <1>1, <1>2, Invariance, PTL DEF Spec, FJ!Spec, ImplementsForkJoin

=============================================================================
