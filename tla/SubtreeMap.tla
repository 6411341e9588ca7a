----------------------------- MODULE SubtreeMap -----------------------------
(***************************************************************************)
(* The subtree map of one MDS: MDCache::subtrees and CDir::dir_auth.       *)
(*                                                                         *)
(* A directory fragment (dirfrag) either names its authority (dir_auth)    *)
(* and is then the root of a subtree, or inherits it from the dirfrag that *)
(* holds its inode.  `subtrees' maps every root to its bounds, the roots   *)
(* nested directly beneath it.  The two describe the same partition twice, *)
(* and every operation of MDCache keeps both by hand.                      *)
(*                                                                         *)
(* An operation with a loop is a sequence of steps, one per iteration, so  *)
(* that every order of the pointer-ordered sets of the code is explored.   *)
(* The MDS lock is held throughout: no other operation starts meanwhile    *)
(* (op.name # "idle").                                                     *)
(***************************************************************************)
EXTENDS Integers

CONSTANTS Dirs,       \* the dirfrags
          Inodes,     \* the directory inodes
          ino,        \* dirfrag -> its inode
          Root,       \* the dirfrag of the base inode
          Home,       \* inode -> the dirfrag that first holds it
          Movable,    \* the inodes that are renamed
          Ranks,      \* the MDS ranks
          Ambiguous,  \* the pairs <<from, to>> of ranks that migrate to each other
          MaxOps      \* bound: how many operations run

CDIR_AUTH_UNKNOWN == -1
CDIR_AUTH_DEFAULT == <<-1, -1>>

Unambiguous == {<<r, CDIR_AUTH_UNKNOWN>> : r \in Ranks}
Auths == Unambiguous \cup Ambiguous

(* Every dirfrag is at some depth beneath the base inode, as far as Home    *)
(* goes: no set of dirfrags contains the parents of all its members.        *)
ASSUME TreeAssumption ==
  /\ ino \in [Dirs -> Inodes]
  /\ Root \in Dirs
  /\ \A d \in Dirs : ino[d] = ino[Root] => d = Root
  /\ Home \in [Inodes \ {ino[Root]} -> Dirs]
  /\ \A S \in SUBSET (Dirs \ {Root}) : S # {} => \E d \in S : Home[ino[d]] \notin S
  /\ Movable \subseteq Inodes \ {ino[Root]}
  /\ Ranks \subseteq Nat /\ Ranks # {}
  /\ Ambiguous \subseteq Ranks \X Ranks

VARIABLES cached,     \* the dirfrags in the cache
          parent,     \* inode -> the dirfrag holding it (the base inode excepted)
          dir_auth,   \* CDir::dir_auth
          subtrees,   \* MDCache::subtrees
          exportbound,\* the dirfrags with STATE_EXPORTBOUND
          op,         \* the operation in progress
          before,     \* history: the authorities when the operation in progress
                      \* started, empty between operations
          ops         \* the number of operations started

vars == <<cached, parent, dir_auth, subtrees, exportbound, op, before, ops>>

idle == [name |-> "idle"]
-----------------------------------------------------------------------------
(* The tree.  st is a record of the two representations.                    *)

is_base(d) == d = Root

get_parent_dir(d) == parent[ino[d]]

DirfragsOf(i) == {d \in cached : ino[d] = i}

is_subtree_root(st, d) == st.auth[d] # CDIR_AUTH_DEFAULT

get_subtree_root(st, d) ==
  LET up[x \in Dirs] == IF is_subtree_root(st, x) THEN x ELSE up[get_parent_dir(x)]
  IN up[d]

authority(st, d) == st.auth[get_subtree_root(st, d)]

(* d lies at or beneath a.                                                  *)
Beneath(d, a) ==
  LET up[x \in Dirs] == x = a \/ (~is_base(x) /\ up[get_parent_dir(x)]) IN up[d]

Now == [auth |-> dir_auth, sub |-> subtrees]

Become(st) == \E s \in {st} : dir_auth' = s.auth /\ subtrees' = s.sub

Authorities == [d \in cached |-> authority(Now, d)]
-----------------------------------------------------------------------------
(* The primitives, as functions from a map to the next one.                 *)

(* Mutant: the nested bounds stay with the enclosing subtree.               *)
adjust_subtree_auth_LeavesBounds(st, d, a) ==
  LET root == IF is_base(d) THEN d ELSE get_subtree_root(st, d)
  IN IF root = d THEN [st EXCEPT !.auth[d] = a]
     ELSE [auth |-> [st.auth EXCEPT ![d] = a],
           sub |-> [r \in DOMAIN st.sub \cup {d} |->
                      CASE r = d -> {} [] r = root -> st.sub[r] \cup {d}
                        [] OTHER -> st.sub[r]]]

adjust_subtree_auth(st, d, a) ==
  LET root == IF is_base(d) THEN d ELSE get_subtree_root(st, d)
      auth == [st.auth EXCEPT ![d] = a]
      mine == {b \in st.sub[root] :
                 get_subtree_root([st EXCEPT !.auth = auth], get_parent_dir(b)) = d}
  IN IF root = d THEN [st EXCEPT !.auth = auth]
     ELSE [auth |-> auth,
           sub |-> [r \in DOMAIN st.sub \cup {d} |->
                      CASE r = d -> mine [] r = root -> (st.sub[r] \ mine) \cup {d}
                        [] OTHER -> st.sub[r]]]

try_subtree_merge_at(st, d) ==
  LET up == IF is_base(d) THEN d ELSE get_subtree_root(st, get_parent_dir(d))
  IN IF /\ up # d
        /\ st.auth[up] = st.auth[d]
        /\ st.auth[d][2] = CDIR_AUTH_UNKNOWN
        /\ d \notin exportbound
     THEN [auth |-> [st.auth EXCEPT ![d] = CDIR_AUTH_DEFAULT],
           sub |-> [r \in DOMAIN st.sub \ {d} |->
                      IF r = up THEN (st.sub[up] \ {d}) \cup st.sub[d] ELSE st.sub[r]]]
     ELSE st
-----------------------------------------------------------------------------
Init ==
  /\ cached = Dirs
  /\ parent = Home
  /\ dir_auth = [d \in Dirs |-> IF d = Root THEN <<CHOOSE r \in Ranks : TRUE,
                                                   CDIR_AUTH_UNKNOWN>>
                                            ELSE CDIR_AUTH_DEFAULT]
  /\ subtrees = [r \in {Root} |-> {}]
  /\ exportbound = {}
  /\ op = idle
  /\ before = <<>>
  /\ ops = 0

(* An operation starts: nothing else runs, and the bound is not reached.    *)
Start ==
  /\ ops < MaxOps
  /\ ops' = ops + 1
  /\ before' = IF op' = idle THEN <<>> ELSE Authorities

End ==
  /\ op' = idle
  /\ before' = <<>>
  /\ UNCHANGED <<cached, parent, dir_auth, subtrees, exportbound, ops>>

(* The Migrator marks the bounds of an export while it runs, and clears the *)
(* marks when it ends.                                                      *)
MarkExportBounds(d) ==
  /\ op = idle
  /\ d \in DOMAIN subtrees
  /\ exportbound' = IF exportbound = {} THEN subtrees[d] ELSE {}
  /\ exportbound' # exportbound
  /\ UNCHANGED <<cached, parent, dir_auth, subtrees, op, before, ops>>

(* adjust_subtree_auth(dir, auth) as the Migrator and the replica code call *)
(* it: for a new delegation, an ambiguous one while a migration is under    *)
(* way, and the final one.                                                  *)
AdjustAuth(d, a) ==
  /\ op = idle
  /\ d \in cached
  /\ Become(adjust_subtree_auth(Now, d, a))
  /\ UNCHANGED <<cached, parent, exportbound, op>>
  /\ Start

(* try_subtree_merge: the root first, then the old bounds.                  *)
try_subtree_merge(d) ==
  /\ op = idle
  /\ d \in DOMAIN subtrees
  /\ Become(try_subtree_merge_at(Now, d))
  /\ op' = [name |-> "merge", todo |-> subtrees[d]]
  /\ UNCHANGED <<cached, parent, exportbound>>
  /\ Start

MergeAtBound ==
  /\ op.name = "merge"
  /\ \E b \in op.todo :
       /\ Become(try_subtree_merge_at(Now, b))
       /\ op' = [op EXCEPT !.todo = @ \ {b}]
  /\ UNCHANGED <<cached, parent, exportbound, before, ops>>

MergeEnds ==
  /\ op.name = "merge" /\ op.todo = {}
  /\ End
-----------------------------------------------------------------------------
(* adjust_bounded_subtree_auth: authority a from d down to the bounds.      *)
(* Its callers in MDCache pass one rank, and bounds that are beneath d and  *)
(* not beneath one another; nothing in between is being exported.           *)
Region(d, bounds) ==
  {x \in cached : Beneath(x, d) /\ \A b \in bounds : ~Beneath(x, b)}

BoundSets(d) ==
  LET below == {x \in cached \ {d} : Beneath(x, d)}
  IN {B \in SUBSET below : \A b, c \in B : b # c => ~Beneath(b, c)}

(* Mutant: a root keeps its old authority while its bounds are adjusted.    *)
adjust_bounded_subtree_auth_NewOnly(d, bounds, a) ==
  /\ op = idle
  /\ d \in cached
  /\ exportbound \cap Region(d, bounds) = {}
  /\ Become(IF d \in DOMAIN subtrees THEN Now ELSE adjust_subtree_auth(Now, d, a))
  /\ op' = [name |-> "bounds", dir |-> d, bounds |-> bounds, todo |-> bounds,
            auth |-> a, oldauth |-> authority(Now, d), bound |-> d, copy |-> {}]
  /\ UNCHANGED <<cached, parent, exportbound>>
  /\ Start

adjust_bounded_subtree_auth(d, bounds, a) ==
  /\ op = idle
  /\ d \in cached
  /\ exportbound \cap Region(d, bounds) = {}
  /\ Become(adjust_subtree_auth(Now, d, a))
  /\ op' = [name |-> "bounds", dir |-> d, bounds |-> bounds, todo |-> bounds,
            auth |-> a, oldauth |-> authority(Now, d), bound |-> d, copy |-> {}]
  /\ UNCHANGED <<cached, parent, exportbound>>
  /\ Start

(* One iteration over the requested bounds: it is there already, it is new  *)
(* within the subtree of dir, or it lies beneath an intervening subtree.    *)
AdjustBound ==
  /\ op.name = "bounds"
  /\ \E b \in op.todo :
       LET within == get_subtree_root(Now, b) = op.dir
           t == get_subtree_root(Now, get_parent_dir(b))
           known == b \in subtrees[op.dir]
       IN /\ Become(CASE known -> Now
                      [] ~known /\ within -> adjust_subtree_auth(Now, b, op.oldauth)
                      [] ~known /\ ~within /\ b \in subtrees[t] -> Now
                      [] OTHER -> adjust_subtree_auth(Now, b, authority(Now, t)))
          /\ op' = IF known \/ within
                   THEN [op EXCEPT !.todo = @ \ {b}]
                   ELSE [op EXCEPT !.name = "swallow", !.todo = @ \ {b}, !.bound = b]
  /\ UNCHANGED <<cached, parent, exportbound, before, ops>>

(* Mutant: the intervening subtree keeps its authority, and cannot merge.   *)
SwallowAbove_KeepsAuth ==
  /\ op.name = "swallow"
  /\ LET t == CHOOSE x \in subtrees[op.dir] : Beneath(op.bound, x)
         st == try_subtree_merge_at(Now, t)
         settled == get_subtree_root(st, get_parent_dir(op.bound)) = op.dir
     IN /\ Become(st)
        /\ op' = [op EXCEPT !.name = IF settled THEN "bounds" ELSE "swallow"]
  /\ UNCHANGED <<cached, parent, exportbound, before, ops>>

(* One turn of the while (1): the outermost subtree between dir and the     *)
(* bound takes dir's authority and merges into it.                          *)
SwallowAbove ==
  /\ op.name = "swallow"
  /\ LET t == CHOOSE x \in subtrees[op.dir] : Beneath(op.bound, x)
         st == try_subtree_merge_at(adjust_subtree_auth(Now, t, op.auth), t)
         settled == get_subtree_root(st, get_parent_dir(op.bound)) = op.dir
     IN /\ Become(st)
        /\ op' = [op EXCEPT !.name = IF settled THEN "bounds" ELSE "swallow"]
  /\ UNCHANGED <<cached, parent, exportbound, before, ops>>

BoundsDone ==
  /\ op.name = "bounds" /\ op.todo = {}
  /\ op' = [op EXCEPT !.name = "strays", !.todo = subtrees[op.dir],
                      !.copy = subtrees[op.dir]]
  /\ UNCHANGED <<cached, parent, dir_auth, subtrees, exportbound, before, ops>>

(* One bound of the copy: a stray, if it was not requested, is swallowed.   *)
SwallowStray ==
  /\ op.name = "strays"
  /\ \E s \in op.todo :
       /\ Become(IF s \in op.bounds THEN Now
                 ELSE try_subtree_merge_at(adjust_subtree_auth(Now, s, op.auth), s))
       /\ op' = [op EXCEPT !.todo = @ \ {s}]
  /\ UNCHANGED <<cached, parent, exportbound, before, ops>>

(* Swallowing may have added bounds: again, until a pass changes nothing.   *)
StraysDone ==
  /\ op.name = "strays" /\ op.todo = {}
  /\ op' = IF subtrees[op.dir] \in {{}, op.copy}
           THEN [op EXCEPT !.name = "verify"]
           ELSE [op EXCEPT !.todo = subtrees[op.dir], !.copy = subtrees[op.dir]]
  /\ UNCHANGED <<cached, parent, dir_auth, subtrees, exportbound, before, ops>>

(* verify_subtree_bounds asserts (see BoundsMatchAuth), and the function   *)
(* returns.                                                                 *)
BoundedEnds ==
  /\ op.name = "verify"
  /\ End
-----------------------------------------------------------------------------
(* A rename moves an inode to newdir and runs adjust_subtree_after_rename:  *)
(* its subtree roots first, then the dirfrags that inherit.                 *)
Rename(i, newdir) ==
  /\ op = idle
  /\ DirfragsOf(i) # {}
  /\ newdir \in cached \ {parent[i]}
  /\ \A d \in DirfragsOf(i) : ~Beneath(newdir, d)
  /\ parent' = [parent EXCEPT ![i] = newdir]
  /\ op' = [name |-> "rename", olddir |-> parent[i], newdir |-> newdir,
            roots |-> DirfragsOf(i) \cap DOMAIN subtrees,
            nested |-> DirfragsOf(i) \ DOMAIN subtrees]
  /\ UNCHANGED <<cached, dir_auth, subtrees, exportbound>>
  /\ Start

oldparent == get_subtree_root(Now, op.olddir)
newparent == get_subtree_root(Now, op.newdir)

MovedRoot(d) ==
  IF oldparent = newparent THEN Now
  ELSE try_subtree_merge_at(
         [Now EXCEPT !.sub[oldparent] = @ \ {d}, !.sub[newparent] = @ \cup {d}], d)

tomove == {b \in subtrees[oldparent] :
             get_subtree_root(Now, get_parent_dir(b)) # oldparent}

MovedNested(d) ==
  LET st == [Now EXCEPT !.sub[oldparent] = @ \ tomove, !.sub[newparent] = @ \cup tomove]
  IN CASE oldparent = newparent -> Now
       [] oldparent # newparent /\ authority(Now, oldparent) = authority(Now, newparent) -> st
       [] OTHER -> try_subtree_merge_at(
                     adjust_subtree_auth(st, d, authority(Now, oldparent)), d)

RenameRoot ==
  /\ op.name = "rename"
  /\ \E d \in op.roots :
       /\ Become(MovedRoot(d))
       /\ op' = [op EXCEPT !.roots = @ \ {d}]
  /\ UNCHANGED <<cached, parent, exportbound, before, ops>>

RenameNested ==
  /\ op.name = "rename" /\ op.roots = {}
  /\ \E d \in op.nested :
       /\ Become(MovedNested(d))
       /\ op' = [op EXCEPT !.nested = @ \ {d}]
  /\ UNCHANGED <<cached, parent, exportbound, before, ops>>

RenameEnds ==
  /\ op.name = "rename" /\ op.roots = {} /\ op.nested = {}
  /\ End
-----------------------------------------------------------------------------
(* trim_dirfrag: an unreferenced leaf leaves the cache, and the subtree map *)
(* if it is a root (remove_subtree).  A bound of an export is pinned.       *)
trim_dirfrag(d) ==
  /\ op = idle
  /\ d \in cached \ ({Root} \cup exportbound)
  /\ \A x \in cached \ {d} : ~Beneath(x, d)
  /\ cached' = cached \ {d}
  /\ dir_auth' = [dir_auth EXCEPT ![d] = CDIR_AUTH_DEFAULT]
  /\ subtrees' = IF d \notin DOMAIN subtrees THEN subtrees
                 ELSE LET up == get_subtree_root(Now, get_parent_dir(d))
                      IN [r \in DOMAIN subtrees \ {d} |->
                            IF r = up THEN subtrees[up] \ {d} ELSE subtrees[r]]
  /\ UNCHANGED <<parent, exportbound, op>>
  /\ Start

(* A dirfrag is opened again (a fresh CDir has the default dir_auth).       *)
OpenDirfrag(d) ==
  /\ op = idle
  /\ d \in Dirs \ cached
  /\ get_parent_dir(d) \in cached
  /\ cached' = cached \cup {d}
  /\ UNCHANGED <<parent, dir_auth, subtrees, exportbound, op, before, ops>>

Next ==
  \/ \E d \in Dirs : MarkExportBounds(d)
  \/ \E d \in Dirs, a \in Auths : AdjustAuth(d, a)
  \/ \E d \in Dirs : try_subtree_merge(d)
  \/ MergeAtBound
  \/ MergeEnds
  \/ \E d \in Dirs, a \in Unambiguous : \E B \in BoundSets(d) :
       adjust_bounded_subtree_auth(d, B, a)
  \/ AdjustBound
  \/ SwallowAbove
  \/ BoundsDone
  \/ SwallowStray
  \/ StraysDone
  \/ BoundedEnds
  \/ \E i \in Movable, d \in Dirs : Rename(i, d)
  \/ RenameRoot
  \/ RenameNested
  \/ RenameEnds
  \/ \E d \in Dirs : trim_dirfrag(d)
  \/ \E d \in Dirs : OpenDirfrag(d)

(* A loop that has begun runs on: the thread holds the MDS lock.            *)
Step == MergeAtBound \/ MergeEnds \/ AdjustBound \/ SwallowAbove \/ BoundsDone
        \/ SwallowStray \/ StraysDone \/ BoundedEnds
        \/ RenameRoot \/ RenameNested \/ RenameEnds

Spec == Init /\ [][Next]_vars /\ WF_vars(Step)
-----------------------------------------------------------------------------
(* Between operations the roots are the cached dirfrags with a dir_auth of  *)
(* their own, and the bounds kept by hand are the ones dir_auth defines:    *)
(* the roots whose parent dirfrag belongs to the subtree (what              *)
(* show_subtrees and get_subtree_root rely on).  At the end of              *)
(* adjust_bounded_subtree_auth the bounds are exactly the ones requested    *)
(* (verify_subtree_bounds), and the assertions of                           *)
(* adjust_subtree_after_rename hold: a moved root was a bound of the old    *)
(* parent, and an old bound that moved went to the new parent.              *)
BoundsMatchAuth ==
  /\ op = idle =>
       /\ DOMAIN subtrees = {d \in cached : dir_auth[d] # CDIR_AUTH_DEFAULT}
       /\ \A r \in DOMAIN subtrees :
            subtrees[r] = {b \in DOMAIN subtrees \ {Root} :
                             get_subtree_root(Now, get_parent_dir(b)) = r}
  /\ op.name = "verify" => subtrees[op.dir] = op.bounds
  /\ op.name = "rename" /\ oldparent # newparent =>
       /\ op.roots \subseteq subtrees[oldparent]
       /\ op.roots = {} /\ op.nested # {} =>
            \A b \in tomove : get_subtree_root(Now, get_parent_dir(b)) = newparent

(* adjust_bounded_subtree_auth gives its region the new authority, and no   *)
(* dirfrag outside it another one.  Beneath a requested bound that an       *)
(* intervening subtree held, the old authority of dir is the other outcome: *)
(* when two of them lay beneath one such subtree, the second is no longer   *)
(* recognised as its own.  try_subtree_merge and                            *)
(* adjust_subtree_after_rename redraw subtrees, and leave every dirfrag     *)
(* with the authority it had.                                               *)
AuthorityChangesAsAsked ==
  /\ op.name = "verify" =>
       \A d \in cached :
         IF d \in Region(op.dir, op.bounds) THEN authority(Now, d) = op.auth
         ELSE \/ authority(Now, d) = before[d]
              \/ /\ \E b, c \in op.bounds : b # c
                 /\ Beneath(d, op.dir) /\ authority(Now, d) = op.oldauth
  /\ op.name = "merge" => Authorities = before
  /\ op.name = "rename" /\ op.roots = {} /\ op.nested = {} => Authorities = before

(* Every operation ends, the two swallowing loops of                        *)
(* adjust_bounded_subtree_auth included.                                    *)
OperationsEnd == []<>(op = idle)
=============================================================================
