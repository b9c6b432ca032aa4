----------------------------- MODULE JitKernels -----------------------------
(***************************************************************************)
(* The parallel run of an LLVM kernel (OrcRows) with the kernel cache of   *)
(* the process between it and the compiler: compile_kernel of              *)
(* src/llvm_backend.cpp looks a kernel up under a mutex, compiles without  *)
(* it, and puts the kernel into the cache under the mutex again, when      *)
(* another thread may have been faster.  One run of benchmark() is         *)
(* followed in full; other threads of the process call compile_kernel for  *)
(* loops of their own at any time.                                         *)
(***************************************************************************)
EXTENDS OrcRows

CONSTANTS
  Others,        \* the other threads
  OtherHeights,  \* rows of the loops they compile
  Dumps,         \* loop.dump() of the loops they compile
  ThisDump       \* loop.dump() of the loop of this run

ASSUME OthersAssumption == "this" \notin Others

VARIABLES
  kernel_cache,  \* kernel_cache: the kernels by key, at most one for a key
  building,      \* the key each thread compiles a kernel for, or NoKey
  handed         \* history: the kernels that compile_kernel returned, with their keys

jitVars == <<vars, kernel_cache, building, handed>>

This == "this"
Callers == Others \cup {This}
NoKey == <<>>

(* A loop that is compiled: its rows, and everything else of it.           *)
LoopOf(rows, dump) == [rows |-> rows, dump |-> dump]

(* Mutant: the key is made of the dump, which does not show the rows.      *)
KeyOfDump(loop) == [dump |-> loop.dump]

(* kernel_key: the extents, and a hash of the dump.                        *)
KernelKey(loop) == [rows |-> loop.rows, dump |-> loop.dump]

(* A kernel object; a thread compiles each loop at most once, as the       *)
(* cache keeps what it has.                                                *)
KernelObject(by, loop) == [by |-> by, loop |-> loop]

Cached(loop) == {k \in kernel_cache : KernelKey(k.loop) = KernelKey(loop)}

JitInit ==
  /\ Init
  /\ kernel_cache = {}
  /\ building = [c \in Callers |-> NoKey]
  /\ handed = {}

(* compile_kernel returns a kernel; this run puts it behind the others.    *)
HandOver(c, loop, kernel) ==
  /\ handed' = handed \cup {[loop |-> loop, kernel |-> kernel]}
  /\ IF c = This
       THEN /\ kernels' = Append(kernels, kernel.loop.rows)
            /\ UNCHANGED <<m, grain, threads, ranges, todo, written>>
       ELSE UNCHANGED vars

(* compile_kernel(loop): a hit, or a compilation without the mutex.        *)
LookUp(c, loop) ==
  /\ building[c] = NoKey
  /\ \/ \E kernel \in Cached(loop) : HandOver(c, loop, kernel) /\ UNCHANGED building
     \/ /\ Cached(loop) = {}
        /\ building' = [building EXCEPT ![c] = loop]
        /\ UNCHANGED <<vars, handed>>
  /\ UNCHANGED kernel_cache

(* Mutant: the thread that comes second returns the kernel it has built.   *)
EmplaceOwn(c) ==
  LET own == KernelObject(c, building[c])
  IN /\ building[c] # NoKey
     /\ kernel_cache' = kernel_cache \cup IF Cached(building[c]) = {} THEN {own} ELSE {}
     /\ HandOver(c, building[c], own)
     /\ building' = [building EXCEPT ![c] = NoKey]

(* The kernel is complete: emplace puts it into the cache unless there is  *)
(* one, and compile_kernel returns the one that is in the cache.           *)
Emplace(c) ==
  LET own == KernelObject(c, building[c])
      found == Cached(building[c])
  IN /\ building[c] # NoKey
     /\ kernel_cache' = IF found = {} THEN kernel_cache \cup {own} ELSE kernel_cache
     /\ \E kernel \in (IF found = {} THEN {own} ELSE found) : HandOver(c, building[c], kernel)
     /\ building' = [building EXCEPT ![c] = NoKey]

(* A step of the compilation throws: nothing is cached or returned.  A run *)
(* that is left by the exception is not followed further.                  *)
BuildThrows(c) ==
  /\ c # This /\ building[c] # NoKey
  /\ building' = [building EXCEPT ![c] = NoKey]
  /\ UNCHANGED <<vars, kernel_cache, handed>>

(* This run asks for the kernel of its next range.                         *)
CompileNext ==
  /\ Len(ranges) = threads /\ Len(kernels) < threads
  /\ LET range == ranges[Len(kernels) + 1]
     IN LookUp(This, LoopOf(range.end - range.begin, ThisDump))

(* Another thread compiles a loop.                                         *)
OtherCompiles(c) ==
  \E rows \in OtherHeights, dump \in Dumps : LookUp(c, LoopOf(rows, dump))

JitNext ==
  \/ /\ AddRange \/ Invoke \/ \E i \in Threads : RunKernel(i)
     /\ UNCHANGED <<kernel_cache, building, handed>>
  \/ CompileNext
  \/ \E c \in Others : OtherCompiles(c)
  \/ \E c \in Callers : Emplace(c) \/ BuildThrows(c)

JitSpec == JitInit /\ [][JitNext]_jitVars

-----------------------------------------------------------------------------
(* Every caller of compile_kernel gets, for one loop, one and the same     *)
(* kernel for the life of the process, whichever of two threads that       *)
(* compiled it at the same time came first; and it is a kernel of that     *)
(* loop (compile_kernel).                                                  *)
OneKernelPerLoop ==
  \A x, y \in handed :
    /\ x.kernel.loop = x.loop
    /\ x.loop = y.loop => x.kernel = y.kernel

(* With the cache and the other threads a run is still a run of OrcRows:   *)
(* each range gets a kernel compiled for its height (benchmark).           *)
ImplementsOrcRows == Spec

=============================================================================
