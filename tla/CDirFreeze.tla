----------------------------- MODULE CDirFreeze -----------------------------
(***************************************************************************)
(* Auth pins and freezing of directories (CDir.cc, "AUTH PINS and          *)
(* FREEZING").                                                             *)
(*                                                                         *)
(* A request pins the inodes and dirfrags it changes.  A pin is counted at *)
(* its dirfrag and, as one nested pin per pinned child, at every ancestor  *)
(* up to the subtree root.  A tree freezes (for export) once nothing in it *)
(* is pinned, a dir (for fragmentation) once nothing in the dir itself is. *)
(* A frozen child pins its own inode, so that the parent waits for it.     *)
(*                                                                         *)
(* All dirfrags belong to this MDS; each directory has one dirfrag, so a   *)
(* name stands for the dirfrag and for its inode.  The calls of a handler  *)
(* are functions from one state of the counters to the next.               *)
(***************************************************************************)
EXTENDS Integers, FiniteSets

CONSTANTS Dirs,     \* the directories
          parentOf, \* directory -> the directory its inode is in
          Root,     \* the base directory, always a subtree root
          MaxPins,  \* bound: pins that requests hold on one dirfrag or its files
          MaxOps    \* bound: how many freezes start and subtrees change (what
                    \* migrations and fragmentations do)

ASSUME TreeAssumption ==
  /\ Root \in Dirs
  /\ parentOf \in [Dirs \ {Root} -> Dirs]
  /\ MaxPins \in Nat \ {0} /\ MaxOps \in Nat

VARIABLES s,        \* the counters and states: see Init
          held,     \* [dir, file]: the pins that requests hold
          waiters,  \* C_Dir_AuthUnpin contexts waiting: dirfrag -> where it waits
          finished, \* C_Dir_AuthUnpin contexts queued to run
          ops       \* freezes started and subtrees changed so far

vars == <<s, held, waiters, finished, ops>>

FREEZINGTREE == "freezingtree"
FROZENTREE == "frozentree"
FREEZINGDIR == "freezingdir"
FROZENDIR == "frozendir"
States == {"none", FREEZINGTREE, FROZENTREE, FREEZINGDIR, FROZENDIR}
Freezing == {FREEZINGTREE, FREEZINGDIR}
Frozen == {FROZENTREE, FROZENDIR}

Children(d) == {c \in Dirs \ {Root} : parentOf[c] = d}

get_cum_auth_pins(st, d) == st.auth_pins[d] + st.nested_auth_pins[d]

(* is_freezing_tree and is_frozen_tree: d or an ancestor in its subtree is  *)
(* in state x.                                                              *)
InTree(st, d, x) ==
  LET up[e \in Dirs] == \/ st.state[e] = x
                        \/ e \notin st.subtree_root /\ up[parentOf[e]]
  IN up[d]

is_freezing(st, d) == InTree(st, d, FREEZINGTREE) \/ st.state[d] = FREEZINGDIR
is_frozen(st, d) == InTree(st, d, FROZENTREE) \/ st.state[d] = FROZENDIR

(* CInode::is_frozen: the dirfrag that holds the inode is.                  *)
InodeFrozen(st, d) == d # Root /\ is_frozen(st, parentOf[d])

(* Mutant: a freezing directory still takes pins.                           *)
can_auth_pin_WhenFreezing(st, d) == ~is_frozen(st, d)

can_auth_pin(st, d) == ~is_frozen(st, d) /\ ~is_freezing(st, d)

is_freezeable(st, d) ==
  /\ st.auth_pins[d] = 1 /\ st.nested_auth_pins[d] = 0
  /\ d \in st.subtree_root \/ ~InodeFrozen(st, d)

is_freezeable_dir(st, d) ==
  /\ st.auth_pins[d] = 1 /\ st.dir_auth_pins[d] = 0
  /\ d \in st.subtree_root \/ ~InodeFrozen(st, d) \/ st.state[parentOf[d]] = FROZENDIR

(* add_waiter(WAIT_UNFREEZE): at the freeze root above the inode of d.      *)
FreezeRootAbove(st, d) ==
  LET up[e \in Dirs] == IF st.state[e] # "none" THEN e ELSE up[parentOf[e]]
  IN up[parentOf[d]]
-----------------------------------------------------------------------------
(* The calls.  `wait' collects the contexts that maybe_finish_freeze hangs  *)
(* on a frozen parent.                                                      *)
RECURSIVE adjust_nested_auth_pins(_, _, _, _), auth_unpin(_, _), auth_pin(_, _),
          maybe_finish_freeze(_, _)

(* CInode::auth_pin and auth_unpin count at the inode and its dirfrag.      *)
inode_auth_pin(st, d) ==
  adjust_nested_auth_pins([st EXCEPT !.inode_pins[d] = @ + 1], parentOf[d], 1, 1)

inode_auth_unpin(st, d) ==
  adjust_nested_auth_pins([st EXCEPT !.inode_pins[d] = @ - 1], parentOf[d], -1, -1)

(* CInode::adjust_nested_auth_pins passes the change on to the dirfrag.     *)
Nest(st, d, inc) == adjust_nested_auth_pins(st, parentOf[d], inc, 0)

auth_pin(st, d) ==
  LET st1 == [st EXCEPT !.auth_pins[d] = @ + 1]
  IN IF d \notin st.subtree_root /\ get_cum_auth_pins(st1, d) = 1
     THEN Nest(st1, d, 1) ELSE st1

auth_unpin(st, d) ==
  LET st1 == [st EXCEPT !.auth_pins[d] = @ - 1]
      newcum == get_cum_auth_pins(st1, d)
      st2 == maybe_finish_freeze(st1, d)
  IN IF d \notin st.subtree_root /\ newcum = 0 THEN Nest(st2, d, -1) ELSE st2

(* Mutant: the cumulative count is taken after the freeze finished.         *)
adjust_nested_auth_pins_LateCount(st, d, inc, dirinc) ==
  LET st1 == [st EXCEPT !.nested_auth_pins[d] = @ + inc, !.dir_auth_pins[d] = @ + dirinc]
      st2 == maybe_finish_freeze(st1, d)
      newcum == get_cum_auth_pins(st2, d)
  IN CASE d \in st.subtree_root -> st2
       [] d \notin st.subtree_root /\ newcum = 0 -> Nest(st2, d, -1)
       [] d \notin st.subtree_root /\ newcum # 0 /\ newcum = inc -> Nest(st2, d, 1)
       [] OTHER -> st2

adjust_nested_auth_pins(st, d, inc, dirinc) ==
  LET st1 == [st EXCEPT !.nested_auth_pins[d] = @ + inc, !.dir_auth_pins[d] = @ + dirinc]
      newcum == get_cum_auth_pins(st1, d)
      st2 == maybe_finish_freeze(st1, d)
  IN CASE d \in st.subtree_root -> st2
       [] d \notin st.subtree_root /\ newcum = 0 -> Nest(st2, d, -1)
       [] d \notin st.subtree_root /\ newcum # 0 /\ newcum = inc -> Nest(st2, d, 1)
       [] OTHER -> st2

(* _freeze_tree and _freeze_dir.                                            *)
Freeze(st, d, x) ==
  LET st1 == [st EXCEPT !.state[d] = x]
  IN IF d \notin st.subtree_root THEN inode_auth_pin(st1, d) ELSE st1

maybe_finish_freeze(st, d) ==
  CASE st.auth_pins[d] # 1 \/ st.dir_auth_pins[d] # 0 -> st
    [] st.auth_pins[d] = 1 /\ st.dir_auth_pins[d] = 0 /\ st.state[d] = FREEZINGDIR ->
         auth_unpin(Freeze(st, d, FROZENDIR), d)
    [] st.auth_pins[d] = 1 /\ st.nested_auth_pins[d] = 0 /\ st.state[d] = FREEZINGTREE ->
         IF d \notin st.subtree_root /\ InodeFrozen(st, d)
         THEN [auth_pin(st, d) EXCEPT !.wait = @ \cup {<<d, FreezeRootAbove(st, d)>>}]
         ELSE auth_unpin(Freeze(st, d, FROZENTREE), d)
    [] OTHER -> st
-----------------------------------------------------------------------------
Init ==
  /\ s = [auth_pins |-> [d \in Dirs |-> 0], nested_auth_pins |-> [d \in Dirs |-> 0],
          dir_auth_pins |-> [d \in Dirs |-> 0], inode_pins |-> [d \in Dirs |-> 0],
          state |-> [d \in Dirs |-> "none"], subtree_root |-> {Root}, wait |-> {}]
  /\ held = [dir |-> [d \in Dirs |-> 0], file |-> [d \in Dirs |-> 0]]
  /\ waiters = {}
  /\ finished = {}
  /\ ops = 0

(* The contexts hung during the handler join the ones that wait; the ones   *)
(* that wait at an unfrozen directory are queued.                           *)
Become(st, unfrozen) ==
  /\ s' = [st EXCEPT !.wait = {}]
  /\ waiters' = {w \in waiters \cup st.wait : w[2] \notin unfrozen}
  /\ finished' = finished \cup {w[1] : w \in {x \in waiters : x[2] \in unfrozen}}

(* A request pins a dirfrag, or a file (an inode or dentry) in it.          *)
PinDir(d) ==
  /\ can_auth_pin(s, d) /\ held.dir[d] < MaxPins
  /\ Become(auth_pin(s, d), {})
  /\ held' = [held EXCEPT !.dir[d] = @ + 1]
  /\ UNCHANGED ops

PinFile(d) ==
  /\ can_auth_pin(s, d) /\ held.file[d] < MaxPins
  /\ Become(adjust_nested_auth_pins(s, d, 1, 1), {})
  /\ held' = [held EXCEPT !.file[d] = @ + 1]
  /\ UNCHANGED ops

UnpinDir(d) ==
  /\ held.dir[d] > 0
  /\ Become(auth_unpin(s, d), {})
  /\ held' = [held EXCEPT !.dir[d] = @ - 1]
  /\ UNCHANGED ops

UnpinFile(d) ==
  /\ held.file[d] > 0
  /\ Become(adjust_nested_auth_pins(s, d, -1, -1), {})
  /\ held' = [held EXCEPT !.file[d] = @ - 1]
  /\ UNCHANGED ops

(* freeze_tree and freeze_dir; their callers check the two assertions.  The *)
(* export that calls freeze_tree has just locked the inode of the           *)
(* directory, so the inode is not frozen then (it may be later).            *)
freeze_tree(d) ==
  /\ ops < MaxOps /\ ops' = ops + 1
  /\ ~is_frozen(s, d) /\ ~is_freezing(s, d)
  /\ d \in s.subtree_root \/ ~InodeFrozen(s, d)
  /\ LET st == auth_pin(s, d)
     IN Become(IF is_freezeable(st, d) THEN auth_unpin(Freeze(st, d, FROZENTREE), d)
               ELSE [st EXCEPT !.state[d] = FREEZINGTREE], {})
  /\ UNCHANGED held

freeze_dir(d) ==
  /\ ops < MaxOps /\ ops' = ops + 1
  /\ ~is_frozen(s, d) /\ ~is_freezing(s, d)
  /\ LET st == auth_pin(s, d)
     IN Become(IF is_freezeable_dir(st, d) THEN auth_unpin(Freeze(st, d, FROZENDIR), d)
               ELSE [st EXCEPT !.state[d] = FREEZINGDIR], {})
  /\ UNCHANGED held

(* unfreeze_tree and unfreeze_dir: thaw, or stop freezing.                  *)
Thaw(d) ==
  LET st == [s EXCEPT !.state[d] = "none"]
  IN IF d \notin s.subtree_root THEN inode_auth_unpin(st, d) ELSE st

Unfreeze(d) ==
  /\ s.state[d] \in Frozen
  /\ Become(Thaw(d), {d})
  /\ UNCHANGED <<held, ops>>

StopFreezing(d) ==
  /\ s.state[d] \in Freezing
  /\ Become(auth_unpin([s EXCEPT !.state[d] = "none"], d), {d})
  /\ UNCHANGED <<held, ops>>

(* C_Dir_AuthUnpin runs.                                                    *)
RunWaiter(d) ==
  /\ d \in finished
  /\ s' = [auth_unpin(s, d) EXCEPT !.wait = {}]
  /\ waiters' = waiters \cup auth_unpin(s, d).wait
  /\ finished' = finished \ {d}
  /\ UNCHANGED <<held, ops>>

(* Mutant: the pin on the inode of a frozen directory is left behind.       *)
NewSubtreeRoot_KeepsInodePin(st, d) ==
  LET st1 == [st EXCEPT !.subtree_root = @ \cup {d}]
  IN IF get_cum_auth_pins(st, d) > 0 THEN Nest(st1, d, -1) ELSE st1

(* set_dir_auth, when the directory becomes a subtree root ...              *)
NewSubtreeRoot(st, d) ==
  LET st1 == [st EXCEPT !.subtree_root = @ \cup {d}]
      st2 == IF get_cum_auth_pins(st, d) > 0 THEN Nest(st1, d, -1) ELSE st1
  IN IF st.state[d] \in Frozen THEN inode_auth_unpin(st2, d) ELSE st2

(* ... and when it stops being one.                                         *)
OldSubtreeRoot(st, d) ==
  LET st1 == [st EXCEPT !.subtree_root = @ \ {d}]
      st2 == IF get_cum_auth_pins(st, d) > 0 THEN Nest(st1, d, 1) ELSE st1
  IN IF st.state[d] \in Frozen THEN inode_auth_pin(st2, d) ELSE st2

Split(d) ==
  /\ ops < MaxOps /\ ops' = ops + 1
  /\ d \notin s.subtree_root
  /\ Become(NewSubtreeRoot(s, d), {})
  /\ UNCHANGED held

(* A bound of a frozen tree is an EXPORTBOUND, which does not merge.        *)
Merge(d) ==
  /\ ops < MaxOps /\ ops' = ops + 1
  /\ d \in s.subtree_root \ {Root}
  /\ ~InTree(s, parentOf[d], FROZENTREE)
  /\ Become(OldSubtreeRoot(s, d), {})
  /\ UNCHANGED held

Next ==
  \E d \in Dirs :
    \/ PinDir(d) \/ PinFile(d) \/ UnpinDir(d) \/ UnpinFile(d)
    \/ freeze_tree(d) \/ freeze_dir(d) \/ Unfreeze(d) \/ StopFreezing(d)
    \/ RunWaiter(d) \/ Split(d) \/ Merge(d)

(* Requests finish, whoever froze a directory thaws it, queued contexts     *)
(* run.  Nobody is obliged to stop a freeze, to pin, split or merge.        *)
Fairness ==
  \A d \in Dirs :
    WF_vars(UnpinDir(d)) /\ WF_vars(UnpinFile(d)) /\ WF_vars(Unfreeze(d))
    /\ WF_vars(RunWaiter(d))

Spec == Init /\ [][Next]_vars /\ Fairness
-----------------------------------------------------------------------------
(* What the counters are for: dir_auth_pins counts the pinned inodes of the *)
(* dirfrag, nested_auth_pins those and one per child in the same subtree    *)
(* that is pinned or has something pinned beneath it.                       *)
PinsCountWhatIsPinned ==
  \A d \in Dirs :
    LET frozenBelow == Cardinality({c \in Children(d) : s.inode_pins[c] = 1})
        pinnedBelow == {c \in Children(d) \ s.subtree_root : get_cum_auth_pins(s, c) > 0}
    IN /\ s.inode_pins[d] \in {0, 1}
       /\ s.dir_auth_pins[d] = held.file[d] + frozenBelow
       /\ s.nested_auth_pins[d] = s.dir_auth_pins[d] + Cardinality(pinnedBelow)

(* "auth_pins only exist in auth regions, and they prevent a freeze": no    *)
(* request holds a pin anywhere in a frozen tree, or in a frozen dir.  "The *)
(* parent inode of a frozen directory is auth_pinned", once, while the      *)
(* directory is not a subtree root; and nothing is frozen on its own inside *)
(* a frozen tree.                                                           *)
FrozenIsStill ==
  /\ \A d \in Dirs : is_frozen(s, d) => held.dir[d] = 0 /\ held.file[d] = 0
  /\ \A d \in Dirs \ {Root} :
       LET pins == d \notin s.subtree_root /\ s.state[d] \in Frozen
       IN /\ s.inode_pins[d] = (IF pins THEN 1 ELSE 0)
          /\ pins => ~InTree(s, parentOf[d], FROZENTREE)

(* A freeze ends: frozen, or stopped by its owner.                          *)
FreezesEnd ==
  \A d \in Dirs : s.state[d] \in Freezing
                  ~> s.state[d] \notin Freezing
=============================================================================
