---------------------------- MODULE MCSlaveCommit ----------------------------
(* Updates for three ranks, mds.0 the master. *)
EXTENDS SlaveCommit

(* mds.2 has only a replica of the directory removed: nothing to journal. *)
Link(mayfail, maxfail) ==
  [name |-> "link", witnesses |-> {1}, journaled |-> {1}, srcauth |-> NoRank,
   mayfail |-> mayfail, maxfail |-> maxfail]

Rmdir(mayfail, maxfail) ==
  [Link(mayfail, maxfail) EXCEPT !.name = "rmdir", !.witnesses = {1, 2}]

Rename(mayfail, maxfail) ==
  [Link(mayfail, maxfail) EXCEPT !.name = "rename", !.witnesses = {1, 2}, !.journaled = {1, 2},
                                 !.srcauth = 2]

MCOps == {Link({0, 1}, 2), Rename({0}, 2), Rename({1}, 2), Rmdir({0, 1, 2}, 1), Rename({0, 1, 2}, 1)}
===============================================================================
