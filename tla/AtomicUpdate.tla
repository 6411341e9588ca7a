----------------------------- MODULE AtomicUpdate -----------------------------
(***************************************************************************)
(* What the journals of the ranks taking part in one multi-rank update     *)
(* (link, unlink, rmdir or rename whose dentry and inode live on different *)
(* ranks) promise together, whatever crashes.  `master' is the last entry  *)
(* about the update in the master's journal (EUpdate with had_slaves, then *)
(* ECommitted), `slave[s]' the last ESlaveUpdate in the journal of a       *)
(* witness that journals its part.  SlaveCommit shows the message exchange *)
(* of Server and MDCache implementing this.                                *)
(***************************************************************************)
CONSTANT Ranks

VARIABLES witnesses, master, slave

vars == <<witnesses, master, slave>>

TypeOK == /\ witnesses \subseteq Ranks
          /\ master \in {"none", "updated", "committed"}
          /\ slave \in [witnesses -> {"none", "prepared", "committed", "rolledback"}]

Init == /\ witnesses \in SUBSET Ranks
        /\ master = "none"
        /\ slave = [s \in witnesses |-> "none"]

(* A witness journals OP_PREPARE: the first time, or again after a rollback. *)
Prepare(s) == /\ master = "none"
              /\ slave[s] \in {"none", "rolledback"}
              /\ slave' = [slave EXCEPT ![s] = "prepared"]
              /\ UNCHANGED <<witnesses, master>>

(* The master's EUpdate is the decision: every witness has prepared. *)
Update == /\ master = "none"
          /\ \A s \in witnesses : slave[s] = "prepared"
          /\ master' = "updated"
          /\ UNCHANGED <<witnesses, slave>>

Commit(s) == /\ master # "none"
             /\ slave[s] = "prepared"
             /\ slave' = [slave EXCEPT ![s] = "committed"]
             /\ UNCHANGED <<witnesses, master>>

Rollback(s) == /\ master = "none"
               /\ slave[s] = "prepared"
               /\ slave' = [slave EXCEPT ![s] = "rolledback"]
               /\ UNCHANGED <<witnesses, master>>

(* ECommitted: the master forgets the update.  (That every witness has      *)
(* committed before is a property of its own in SlaveCommit.)               *)
Forget == /\ master = "updated"
          /\ master' = "committed"
          /\ UNCHANGED <<witnesses, slave>>

Next == \/ \E s \in witnesses : Prepare(s) \/ Commit(s) \/ Rollback(s)
        \/ Update
        \/ Forget

Spec == Init /\ [][Next]_vars
===============================================================================
