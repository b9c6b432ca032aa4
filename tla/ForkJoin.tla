------------------------------ MODULE ForkJoin ------------------------------
(***************************************************************************)
(* What a team of workers promises the threads that call run(job): calls   *)
(* are served one at a time, every worker takes its share of the call's    *)
(* own job exactly once, and the call returns only after the last share.   *)
(*                                                                         *)
(* The abstract specification of the class ThreadTeam of runtime.cpp;      *)
(* ThreadTeam.tla refines it.                                              *)
(***************************************************************************)
EXTENDS Naturals

CONSTANTS
  Callers,   \* the threads that call run
  Workers    \* the workers of the team

VARIABLES
  phase,     \* phase[c]: where the call of c is
  shares     \* shares[c][w]: how often w has run the job of c's current call

fjvars == <<phase, shares>>

Phases == {"idle", "requested", "served"}

Init ==
  /\ phase = [c \in Callers |-> "idle"]
  /\ shares = [c \in Callers |-> [w \in Workers |-> 0]]

(* A thread calls run. *)
Request(c) ==
  /\ phase[c] = "idle"
  /\ phase' = [phase EXCEPT ![c] = "requested"]
  /\ UNCHANGED shares

(* The team turns to the call of c; it serves no other call meanwhile. *)
Serve(c) ==
  /\ phase[c] = "requested"
  /\ \A d \in Callers : phase[d] # "served"
  /\ phase' = [phase EXCEPT ![c] = "served"]
  /\ shares' = [shares EXCEPT ![c] = [w \in Workers |-> 0]]

(* Worker w runs its share of the job of c. *)
Share(c, w) ==
  /\ phase[c] = "served"
  /\ shares[c][w] = 0
  /\ shares' = [shares EXCEPT ![c][w] = 1]
  /\ UNCHANGED phase

(* run returns: the join. *)
Return(c) ==
  /\ phase[c] = "served"
  /\ \A w \in Workers : shares[c][w] = 1
  /\ phase' = [phase EXCEPT ![c] = "idle"]
  /\ UNCHANGED shares

Next ==
  \E c \in Callers :
    \/ Request(c)
    \/ Serve(c)
    \/ \E w \in Workers : Share(c, w)
    \/ Return(c)

Spec == Init /\ [][Next]_fjvars

=============================================================================
