---------------------------- MODULE MCClientInode ----------------------------
(* ClientInode for TLC: two ranks, and what the file lock's states allow.    *)
(* Each budget is spent in any order; together they reach every pair of a    *)
(* call, a change of mind, a migration or failover and a change of the name. *)
EXTENDS ClientInode

MCRanks == {0, 1}

Held(a, b, open) == [caps |-> [r \in Ranks |-> IF r = 0 THEN a ELSE b], open |-> open]
MCInitially ==
  [file |-> {Held(FileCaps, {}, FileCaps), Held({"R", "W"}, {}, FileCaps),
             Held({"R", "C"}, {"R", "C"}, FileCaps)},
   dir |-> {Held({}, {}, {}), Held({"S"}, {}, AnyShared), Held({"S"}, {"S"}, AnyShared)}]

MCAllowed == {FileCaps, {"R", "C"}, {"R", "W"}, {}}

Budget(o, i, m, c) == [ops |-> o, issues |-> i, moves |-> m, changes |-> c]
MCBudgets ==
  [file |-> {Budget(3, 1, 0, 0), Budget(2, 0, 1, 0), Budget(1, 1, 1, 0)},
   dir |-> {Budget(3, 0, 0, 1), Budget(2, 1, 0, 1), Budget(1, 2, 0, 1), Budget(1, 1, 1, 1)}]
=============================================================================
