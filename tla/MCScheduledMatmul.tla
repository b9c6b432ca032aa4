------------------------- MODULE MCScheduledMatmul --------------------------
(* The instance of ScheduledMatmul that TLC checks: extents and tile sizes *)
(* that leave every kind of tail.                                          *)
EXTENDS ScheduledMatmul

MCProblems ==
  {[m |-> e[1], n |-> e[2], k |-> e[3], bias |-> e[4], relu |-> FALSE] :
     e \in {<<3, 7, 3, TRUE>>, <<5, 4, 1, FALSE>>, <<1, 1, 2, TRUE>>}}

ScalarSchedules ==
  {[DefaultSchedule EXCEPT
      !.order = order, !.tiled = tiled, !.bm = 2, !.bn = 3, !.bk = 2, !.mr = 2, !.nr = 1,
      !.width = 1, !.packB = packB, !.threads = 2, !.fused = fused] :
     order \in {"ijk", "ikj"}, tiled \in BOOLEAN, packB \in BOOLEAN, fused \in BOOLEAN}

VectorSchedules ==
  {[DefaultSchedule EXCEPT
      !.tiled = tiled, !.bm = mr, !.bn = 5, !.bk = 2, !.mr = mr, !.nr = nr,
      !.width = 2, !.packB = packB, !.threads = 2, !.fused = fused] :
     tiled \in BOOLEAN, mr \in {1, 2}, nr \in {2, 3}, packB \in BOOLEAN, fused \in BOOLEAN}

(* More workers than there are blocks of rows.                             *)
WideTeams ==
  {[DefaultSchedule EXCEPT
      !.bm = 2, !.bn = 5, !.bk = 2, !.mr = mr, !.nr = 2, !.width = 2, !.threads = 4] :
     mr \in {1, 2}}

MCSchedules == ScalarSchedules \cup VectorSchedules \cup WideTeams

MCPassTiles == {<<2, 3, 2>>}

=============================================================================
