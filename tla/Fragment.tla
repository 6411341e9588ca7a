------------------------------ MODULE Fragment ------------------------------
(***************************************************************************)
(* Fragmentation of a directory (MDCache.cc, "FRAGMENT"): the directory is *)
(* split or merged while it is in use, its dirfrags are frozen, journaled  *)
(* (EFragment), stored under their new names, and the objects of the old   *)
(* ones removed.  The MDS may crash at any point; journal replay and       *)
(* rollback_uncommitted_fragments bring the directory back.                *)
(*                                                                         *)
(* m is the daemon's memory, with the journal entries that are not safe    *)
(* yet (pending), the operations on objects under way (objecter) and the   *)
(* contexts that wait (ctx); a crash loses all of it.  The journal, the    *)
(* objects and the dirfragtree in the directory's own stored inode stay.   *)
(*                                                                         *)
(* External: MDLog, LogSegment and the replay of entries (EMetaBlob,       *)
(* EFragment), and the Objecter.                                           *)
(***************************************************************************)
EXTENDS DirFrag

CONSTANTS Stored,      \* the names a stored directory has in it
          Loads        \* the instances: the directory to begin with ("new", "whole"
                       \*   or "split"), whether writes are small, and the bounds:
                       \*   updates, fragmentations and crashes in a behaviour

VARIABLES m, journal, objs, disk_tree,
          contents,    \* what the safe updates made of the directory
          left,        \* how much of each bound is left
          ghost        \* ahead: the stored tree, or the trimmed journal, is ahead of a
                       \*   PREPARE or ROLLBACK that is not safe; exposed: names whose
                       \*   update only a result dirfrag has; forgotten, astray: the
                       \*   crashes that met them

vars == <<m, journal, objs, disk_tree, contents, left, ghost>>

NoFragment == [mdr |-> 0]
NoUncommitted == [ls |-> 0]

Fresh(tree, last, small) ==
  [dirs |-> Empty, dirfragtree |-> tree, tree_dirty |-> 0,
   fragments |-> NoFragment, uncommitted |-> NoUncommitted, ctx |-> {},
   pending |-> <<>>, objecter |-> [f \in Frags |-> <<>>],
   last |-> last, small_writes |-> small, asserted |-> ""]

Submit(st, entry) ==
  [st EXCEPT !.pending = Append(@, [entry EXCEPT !.id = st.last + 1]), !.last = @ + 1]

Entry(type, st) ==
  [type |-> type, id |-> 0, tree |-> st.dirfragtree, frag |-> "", name |-> "", val |-> 0,
   versions |-> Empty, frags |-> {}, rollback |-> Empty]

Gather(st, kind, mdr, subs, frags) ==
  [st EXCEPT !.ctx = @ \cup {[kind |-> kind, mdr |-> mdr, subs |-> subs, frags |-> frags]}]

ForAll(st, frags, Op(_, _)) == FoldLeft(Op, st, SetToSeq(frags))
-----------------------------------------------------------------------------
(* Changing the fragments.                                                  *)
adjust_dir_fragments(st, srcs, bits, replay) ==
  LET tree == [st EXCEPT !.dirfragtree = IF bits > 0 THEN Halves ELSE {Whole}]
  IN  CASE srcs = {} -> tree
        [] srcs # {} /\ bits > 0 -> split(tree, replay)
        [] OTHER -> merge(tree, srcs, replay)

Cached(st) == DOMAIN st.dirs

force_dir_fragment(st, f) ==
  CASE f \in Cached(st) -> st
    [] f \notin Cached(st) /\ Whole \in Cached(st) -> adjust_dir_fragments(st, {Whole}, 1, TRUE)
    [] f = Whole /\ Cached(st) \cap Halves # {} ->
         adjust_dir_fragments(st, Cached(st) \cap Halves, 0, TRUE)
    [] OTHER -> st

-----------------------------------------------------------------------------
(* Uncommitted fragmentations.                                              *)
add_uncommitted_fragment(st, bits, old_frags, rollback, ls) ==
  [Assert_(st, st.uncommitted.ls = 0, "add_uncommitted_fragment") EXCEPT
     !.uncommitted = [ls |-> ls, bits |-> bits, old_frags |-> old_frags, rollback |-> rollback,
                      committed |-> FALSE]]

finish_uncommitted_fragment(st, op) ==
  CASE st.uncommitted.ls = 0 -> st
    [] st.uncommitted.ls # 0 /\ op # "FINISH" -> [st EXCEPT !.uncommitted.committed = TRUE]
    [] OTHER -> [st EXCEPT !.uncommitted = NoUncommitted]

(* Mutant: a fragmentation that was rolled back is taken for ended.         *)
rollback_uncommitted_fragment_Ended(st, old_frags) == [st EXCEPT !.uncommitted = NoUncommitted]

rollback_uncommitted_fragment(st, old_frags) ==
  IF st.uncommitted.ls = 0 THEN st
  ELSE [st EXCEPT !.uncommitted.old_frags = old_frags, !.uncommitted.committed = TRUE]

_fragment_committed(st, result) ==
  LET old == st.uncommitted.old_frags
      Purge(s, f) == Send(s, f, <<RemoveOp>>)
  IN  IF st.uncommitted.ls = 0 THEN Assert_(st, FALSE, "_fragment_committed")
      ELSE Gather(ForAll(st, old, Purge), "finish", 0, {<<"removed", f, 0>> : f \in old}, result)

MarkResult(st, result) ==
  LET Mark(s, f) == [auth_pin(s, f) EXCEPT !.dirs[f].fragmenting = TRUE]
  IN  ForAll(st, result, Mark)

_fragment_finish(st, result) ==
  LET Unmark(s, f) == auth_unpin([s EXCEPT !.dirs[f].fragmenting = FALSE], f)
      logged == Submit(ForAll(st, result, Unmark), Entry("FINISH", st))
  IN  IF st.uncommitted.ls = 0 THEN Assert_(st, FALSE, "_fragment_finish")
      ELSE finish_uncommitted_fragment(logged, "FINISH")

_fragment_stored(st) ==
  LET Thaw(s, f) ==
        unfreeze_dir([Assert_(s, \A n \in DOMAIN s.dirs[f].items : s.dirs[f].items[n].fragmenting,
                              "_fragment_stored")
                      EXCEPT !.dirs[f].items = [n \in DOMAIN @ |-> [@[n] EXCEPT !.fragmenting = FALSE]]],
                     f)
      logged == Submit(st, [Entry("COMMIT", st) EXCEPT !.frags = st.fragments.result])
  IN  [ForAll(logged, st.fragments.result, Thaw) EXCEPT !.fragments = NoFragment]

_fragment_logged(st, ls) ==
  LET result == st.fragments.result
      marked == [MarkResult(st, result) EXCEPT !.tree_dirty = ls]
      Store(s, f) == commit(s, f)
  IN  Gather(ForAll(marked, result, Store), "store", st.fragments.mdr,
             {<<"commit", f, st.dirs[f].version>> : f \in result}, {})
-----------------------------------------------------------------------------
(* The stages up to the journal.                                            *)
fragment_unmark_unfreeze_dirs(st, dirs) ==
  LET Clear(s, f) == [s EXCEPT !.dirs[f].fragmenting = FALSE, !.dirs[f].dnpinned = FALSE,
                               !.dirs[f].items = [n \in DOMAIN @ |-> [@[n] EXCEPT !.fragmenting = FALSE]]]
      Undo(s, f) == unfreeze_dir(IF s.dirs[f].dnpinned THEN Clear(s, f)
                                 ELSE auth_unpin(Clear(s, f), f), f)
  IN  ForAll(st, dirs, Undo)

Aborted(st, mdr) == st.fragments.mdr # mdr

fragment_frozen(st, mdr) == IF Aborted(st, mdr) THEN st ELSE [st EXCEPT !.fragments.all_frozen = TRUE]

(* Mutant: a dirfrag that was never stored is not stored first.             *)
MustStore_Never(f, dir) == FALSE

MustStore(f, dir) == f = Whole /\ dir.item_new # 0

fragment_mark_and_complete(st, mdr) ==
  LET Load(s, f) == IF s.dirs[f].complete THEN s ELSE fetch(s, f)
      Store(s, f) == IF MustStore(f, s.dirs[f])
                     THEN commit(Assert_(s, s.dirs[f].dirty, "fragment_mark_and_complete"), f) ELSE s
      Pin(s, f) ==
        IF s.dirs[f].dnpinned THEN s
        ELSE auth_unpin([s EXCEPT !.dirs[f].dnpinned = TRUE, !.dirs[f].items =
                           [n \in DOMAIN @ |-> [@[n] EXCEPT !.fragmenting = TRUE]]], f)
      dirs == st.fragments.dirs
      absent == {f \in dirs : ~st.dirs[f].complete}
      unstored == {f \in dirs : MustStore(f, st.dirs[f])}
      asked == ForAll(ForAll(st, dirs, Load), dirs, Store)
      marked == ForAll(asked, dirs \ (absent \cup unstored), Pin)
      freezing == {f \in dirs : marked.dirs[f].freeze # "frozen"}
  IN  CASE Aborted(st, mdr) -> st
        [] ~Aborted(st, mdr) /\ absent \cup unstored # {} ->
             Gather(marked, "marking", mdr, {<<"complete", f, 0>> : f \in absent} \cup
                      {<<"commit", f, st.dirs[f].version>> : f \in unstored}, {})
        [] ~Aborted(st, mdr) /\ absent \cup unstored = {} /\ freezing # {} ->
             Gather(marked, "frozen", mdr, {<<"frozen", f, 0>> : f \in freezing}, {})
        [] OTHER -> fragment_frozen(marked, mdr)

can_fragment(st, dirs) ==
  \A f \in dirs : ~st.dirs[f].fragmenting /\ ~st.dirs[f].bad /\ can_auth_pin(st, f)

(* fragment_freeze_dirs: one pin until marked, one while freezing.          *)
fragment_freeze_dirs(st, dirs) ==
  LET Freeze(s, f) == [auth_pin(auth_pin(s, f), f) EXCEPT
                         !.dirs[f].fragmenting = TRUE, !.dirs[f].freeze = "freezing"]
  IN  ForAll(st, dirs, Freeze)

StartFragment(st, dirs, bits, mdr) ==
  LET info == [mdr |-> mdr, bits |-> bits, dirs |-> dirs, result |-> {}, all_frozen |-> FALSE]
      ok == Assert_(st, st.fragments.mdr = 0, "fragments")
  IN  fragment_mark_and_complete(fragment_freeze_dirs([ok EXCEPT !.fragments = info], dirs), mdr)

dispatch_fragment_dir(st) ==
  LET info == st.fragments
      split_ == adjust_dir_fragments(st, info.dirs, info.bits, FALSE)
      result == Cached(split_)
      rollback == [f \in info.dirs |-> st.dirs[f].version]
      ok == Assert_(split_, split_.dirfragtree \cap info.dirs = {}, "is_leaf")
      noted == add_uncommitted_fragment([ok EXCEPT !.fragments.result = result],
                                        info.bits, info.dirs, rollback, st.last + 1)
  IN  Submit(noted, [Entry("PREPARE", noted) EXCEPT
                       !.val = info.bits, !.frags = info.dirs, !.rollback = rollback,
                       !.versions = [f \in result |-> noted.dirs[f].version]])
-----------------------------------------------------------------------------
(* Recovery.  Replaying an entry (external) makes the cached dirfrags the   *)
(* leaves of the tree it holds, and opens the dirfrags it tells of.         *)
rollback_uncommitted_fragments(st) ==
  LET uf == st.uncommitted
      ls == st.last + 1
      Back(s, f) ==
        LET forced == force_dir_fragment(s, f)
            dir == forced.dirs[f]
        IN  IF f \notin Cached(forced) THEN Assert_(forced, FALSE, "force_dir_fragment")
            ELSE With(forced, f, _mark_dirty([dir EXCEPT !.version = uf.rollback[f],
                                                         !.projected_version = uf.rollback[f]], ls))
      forced == ForAll(st, uf.old_frags, Back)
      back == Assert_(forced, forced.dirfragtree \cap st.dirfragtree = {}, "is_leaf")
      entry == [Entry("ROLLBACK", back) EXCEPT !.frags = uf.old_frags, !.versions = uf.rollback]
      rolled == [Submit(MarkResult(back, uf.old_frags), entry) EXCEPT
                   !.tree_dirty = ls, !.uncommitted.old_frags = st.dirfragtree]
  IN  CASE uf.ls = 0 -> st
        [] uf.ls # 0 /\ uf.committed ->
             _fragment_committed(MarkResult(st, Cached(st)), Cached(st))
        [] OTHER -> _fragment_committed(rolled, uf.old_frags)

ReplayFragment(st, e) ==
  CASE e.type = "PREPARE" ->
         adjust_dir_fragments(add_uncommitted_fragment(st, e.val, e.frags, e.rollback, e.id),
                              Cached(st), e.val, TRUE)
    [] e.type = "ROLLBACK" ->
         rollback_uncommitted_fragment(ForAll(st, e.frags, force_dir_fragment), st.dirfragtree)
    [] e.type \in {"COMMIT", "FINISH"} -> finish_uncommitted_fragment(st, e.type)
    [] OTHER -> st

ReplayDir(st, e, f) ==
  LET forced == force_dir_fragment(st, f)
      old == IF f \in Cached(forced) THEN forced.dirs[f] ELSE NewDir(0)
      dir == [old EXCEPT !.version = e.versions[f], !.projected_version = e.versions[f],
                         !.complete = @ \/ e.type = "mkdir"]
      dirty == IF e.type = "PREPARE" THEN dir ELSE _mark_dirty(dir, e.id)
  IN  With(forced, f, IF e.type # "update" THEN dirty
                      ELSE [dirty EXCEPT !.items = e.name :>
                              Dentry(e.val, e.versions[f], e.id, FALSE, FALSE) @@ @])

Replay(st, e) ==
  LET done == ReplayFragment(st, e)
      placed == ForAll([done EXCEPT !.dirfragtree = e.tree, !.tree_dirty = e.id],
                       IF Cached(done) = {} THEN {} ELSE e.tree, force_dir_fragment)
      Dir(s, f) == ReplayDir(s, e, f)
  IN  IF e.type \in {"COMMIT", "FINISH"} THEN done ELSE ForAll(placed, DOMAIN e.versions, Dir)

Recovered(tree, log, last, small) ==
  rollback_uncommitted_fragments(FoldLeft(Replay, Fresh(tree, last, small), log))
-----------------------------------------------------------------------------
Running == m.asserted = ""

Obj(v, names) == [exists |-> v # 0, header |-> v, omap |-> [n \in names |-> 1]]

InitObjs(start) ==
  [f \in Frags |->
     CASE start = "whole" /\ f = Whole -> Obj(1, Stored)
       [] start = "split" /\ f # Whole -> Obj(1, {n \in Stored : half[n] = f})
       [] OTHER -> Obj(0, {})]

(* mkdir has journaled the new directory, or it is stored.                  *)
Init ==
  \E load \in Loads :
    LET start == load.start
        tree == IF start = "split" THEN Halves ELSE {Whole}
        mkdir == [Entry("mkdir", Fresh(tree, 0, FALSE)) EXCEPT !.id = 1, !.versions = Whole :> 1]
    IN  /\ journal = IF start = "new" THEN <<mkdir>> ELSE <<>>
        /\ objs = InitObjs(start)
        /\ disk_tree = tree
        /\ contents = [n \in Names |-> IF start # "new" /\ n \in Stored THEN 1 ELSE 0]
        /\ left = [updates |-> load.updates, refrags |-> load.refrags, crashes |-> load.crashes]
        /\ m = Recovered(tree, journal, Len(journal), load.small)
        /\ ghost = [ahead |-> FALSE, exposed |-> {}, forgotten |-> {}, astray |-> FALSE]

Disk == <<journal, objs, disk_tree, contents, ghost>>

(* What a crash would find: the fragmentation in the journal that is not    *)
(* decided there (its old dirfrags), and whether an entry tells the tree.   *)
Undecided ==
  UNION {journal[i].frags : i \in {k \in DOMAIN journal :
    /\ journal[k].type = "PREPARE"
    /\ \A j \in k + 1 .. Len(journal) : journal[j].type \notin {"COMMIT", "ROLLBACK"}}}

TellsTree == \E i \in DOMAIN journal : journal[i].type \notin {"COMMIT", "FINISH"}

Unsafe == \E i \in DOMAIN m.pending : m.pending[i].type \in {"PREPARE", "ROLLBACK"}

(* A request opens and fetches the dirfrag it looks a name up in.           *)
Load(f) ==
  /\ Running /\ f \in m.dirfragtree
  /\ LET open == IF f \in Cached(m) THEN m ELSE With(m, f, NewDir(0))
     IN  /\ ~open.dirs[f].complete /\ ~open.dirs[f].fetching /\ can_auth_pin(open, f)
         /\ m' = fetch(open, f)
  /\ UNCHANGED <<Disk, left>>

Updating(n) == \E i \in DOMAIN m.pending : m.pending[i].type = "update" /\ m.pending[i].name = n

(* A request links or unlinks a name: it pins the dirfrag, adds a null      *)
(* dentry if there is none, projects and journals the change.               *)
StartUpdate(n) ==
  LET f == pick_dirfrag(m, n)
      dir == m.dirs[f]
      add == [add_dentry(dir, n, 0) EXCEPT !.items[n].new = TRUE]
      ready == IF n \in DOMAIN dir.items THEN dir ELSE add
      v == dir.projected_version + 1
      val == IF ready.items[n].val = 0 THEN m.last + 2 ELSE 0
      pinned == auth_pin(With(m, f, [ready EXCEPT !.projected_version = v]), f)
  IN  /\ Running /\ left.updates > 0
      /\ f \in Cached(m) /\ can_auth_pin(m, f) /\ ~dir.bad
      /\ dir.complete \/ n \in DOMAIN dir.items
      /\ ~Updating(n)
      /\ m' = Submit(pinned, [Entry("update", m) EXCEPT !.frag = f, !.name = n, !.val = val,
                                                       !.versions = f :> v])
      /\ left' = [left EXCEPT !.updates = @ - 1]
      /\ UNCHANGED Disk

try_remove_unlinked_dn(dir, n) ==
  IF dir.items[n].val = 0 /\ dir.items[n].new /\ ~dir.items[n].fragmenting
  THEN remove_dentry(dir, n) ELSE dir

ApplyUpdate(st, e) ==
  LET f == e.frag
      dn == [st.dirs[f].items[e.name] EXCEPT !.val = e.val, !.version = e.versions[f],
                                             !.item_dirty = e.id]
      dir == _mark_dirty([st.dirs[f] EXCEPT !.version = e.versions[f], !.items[e.name] = dn], e.id)
      ok == Assert_(st, /\ st.dirs[f].version < e.versions[f]
                        /\ e.versions[f] <= st.dirs[f].projected_version, "mark_dirty")
  IN  auth_unpin([With(ok, f, try_remove_unlinked_dn(dir, e.name)) EXCEPT !.tree_dirty = e.id], f)

(* The next journal entry is safe and what waits for it runs.               *)
LogSafe ==
  /\ Running /\ m.pending # <<>>
  /\ LET e == Head(m.pending)
         st == [m EXCEPT !.pending = Tail(@)]
     IN  /\ journal' = Append(journal, e)
         /\ m' = CASE e.type = "update" -> ApplyUpdate(st, e)
                   [] e.type = "PREPARE" -> _fragment_logged(st, e.id)
                   [] e.type = "COMMIT" -> _fragment_committed(st, e.frags)
                   [] OTHER -> st
         /\ contents' = IF e.type = "update" THEN [contents EXCEPT ![e.name] = e.val] ELSE contents
         /\ ghost' = [ghost EXCEPT
              !.ahead = @ /\ e.type \notin {"PREPARE", "ROLLBACK"},
              !.exposed = IF e.type \in {"COMMIT", "ROLLBACK"} THEN {} ELSE @ \ {e.name},
              !.forgotten = @ \ {e.name}]
  /\ UNCHANGED <<objs, disk_tree, left>>

InObject(obj, n) == IF n \in DOMAIN obj.omap THEN obj.omap[n] ELSE 0

WriteOmap(omap, set) ==
  LET new == set @@ omap
  IN  Restrict(new, {n \in DOMAIN new : new[n] # 0})

(* The next operation on an object is carried out and its completion runs.  *)
(* The object of the dirfrag "*" holds the backtrace: it is emptied, not    *)
(* removed.                                                                 *)
OsdApplies(f) ==
  /\ Running /\ m.objecter[f] # <<>>
  /\ LET op == Head(m.objecter[f])
         obj == objs[f]
         st == [m EXCEPT !.objecter[f] = Tail(@)]
     IN  \/ /\ op.kind = "read"
            /\ m' = _omap_fetched(st, f, obj)
            /\ UNCHANGED objs
         \/ /\ op.kind = "remove"
            /\ m' = Wake(st, {<<"removed", f, 0>>})
            /\ objs' = [objs EXCEPT ![f] = [Obj(0, {}) EXCEPT !.exists = f = Whole /\ obj.exists]]
         \/ /\ op.kind = "write"
            /\ LET ok == Assert_(st, op.stat => obj.exists, "handle_write_error")
               IN  m' = IF op.header # 0 THEN _committed(ok, f, op.header) ELSE ok
            /\ objs' = [objs EXCEPT ![f] = [exists |-> TRUE, omap |-> WriteOmap(@.omap, op.set),
                                            header |-> IF op.header # 0 THEN op.header ELSE @.header]]
  /\ UNCHANGED <<journal, disk_tree, contents, left, ghost>>

Expiring(dir) ==
  {dir.item_dirty, dir.item_new} \cup {dir.items[n].item_dirty : n \in DOMAIN dir.items}

(* A LogSegment that expires (external) commits the dirfrags on its lists.  *)
Commit(f) ==
  /\ Running /\ f \in Cached(m) /\ can_auth_pin(m, f)
  /\ Expiring(m.dirs[f]) # {0} /\ m.dirs[f].version \notin m.dirs[f].waiting_for_commit
  /\ m' = commit(m, f)
  /\ UNCHANGED <<Disk, left>>

(* And the directory's own inode, with the dirfragtree, in its parent.      *)
CommitInode ==
  /\ Running /\ m.tree_dirty # 0
  /\ disk_tree' = m.dirfragtree
  /\ m' = [m EXCEPT !.tree_dirty = 0]
  /\ ghost' = [ghost EXCEPT !.ahead = Unsafe]
  /\ UNCHANGED <<journal, objs, contents, left>>

(* The oldest segment has expired.                                          *)
TrimLog ==
  /\ Running /\ journal # <<>>
  /\ Head(journal).id \notin {m.tree_dirty, m.uncommitted.ls}
                             \cup UNION {Expiring(m.dirs[f]) : f \in Cached(m)}
  /\ journal' = Tail(journal)
  /\ LET e == Head(journal)
     IN  ghost' = [ghost EXCEPT
           !.ahead = @ \/ (e.type = "PREPARE" /\ Unsafe),
           !.exposed = IF /\ e.type = "update"
                          /\ \E f \in Undecided \cap {Whole, half[e.name]} :
                               InObject(objs[f], e.name) # e.val
                          /\ \A j \in 2 .. Len(journal) : journal[j].name # e.name
                       THEN @ \cup {e.name} ELSE @]
  /\ UNCHANGED <<m, objs, disk_tree, contents, left>>

TrimmedDir(dir, n) ==
  [remove_dentry(dir, n) EXCEPT !.complete = @ /\ dir.items[n].val = 0]

trim_dentry(f, n) ==
  /\ Running /\ f \in Cached(m) /\ n \in DOMAIN m.dirs[f].items
  /\ LET dn == m.dirs[f].items[n]
     IN  dn.item_dirty = 0 /\ ~dn.fragmenting /\ ~Updating(n)
  /\ m' = With(m, f, TrimmedDir(m.dirs[f], n))
  /\ UNCHANGED <<Disk, left>>

(* With its dirfrags; the next lookup reads it from its parent.             *)
trim_inode ==
  /\ Running /\ Cached(m) # {} /\ m.tree_dirty = 0
  /\ \A f \in Cached(m) : LET dir == m.dirs[f]
                         IN  DOMAIN dir.items = {} /\ ~dir.dirty /\ dir.auth_pins = 0 /\ can_auth_pin(m, f)
  /\ m' = [m EXCEPT !.dirs = Empty, !.dirfragtree = disk_tree]
  /\ UNCHANGED <<Disk, left>>

Start(dirs, bits) ==
  /\ Running /\ left.refrags > 0
  /\ dirs \subseteq Cached(m) /\ can_fragment(m, dirs)
  /\ m' = StartFragment(m, dirs, bits, left.refrags)
  /\ left' = [left EXCEPT !.refrags = @ - 1]
  /\ UNCHANGED Disk

split_dir == Start({Whole}, 1)

merge_dir == Start(Halves, -1)

RunContext ==
  /\ Running
  /\ \E c \in m.ctx :
       LET st == [m EXCEPT !.ctx = @ \ {c}]
       IN  /\ c.subs = {}
           /\ m' = CASE c.kind = "marking" -> fragment_mark_and_complete(st, c.mdr)
                     [] c.kind = "frozen" -> fragment_frozen(st, c.mdr)
                     [] c.kind = "store" -> _fragment_stored(st)
                     [] c.kind = "finish" -> _fragment_finish(st, c.frags)
  /\ UNCHANGED <<Disk, left>>

CanDispatch == m.fragments.mdr # 0 /\ m.fragments.all_frozen /\ m.fragments.result = {}

(* The Locker (external) grants the locks on the inode, or the request is   *)
(* aborted since the inode cannot be pinned.                                *)
Dispatch ==
  /\ Running /\ CanDispatch
  /\ m' = dispatch_fragment_dir(m)
  /\ UNCHANGED <<Disk, left>>

DispatchAborted ==
  /\ Running /\ CanDispatch
  /\ m' = [fragment_unmark_unfreeze_dirs(m, m.fragments.dirs) EXCEPT !.fragments = NoFragment]
  /\ UNCHANGED <<Disk, left>>

(* The pins have not changed for long and somebody waits, in this tree or   *)
(* for its parent to freeze.                                                *)
find_stale_fragment_freeze ==
  /\ Running /\ m.fragments.mdr # 0 /\ ~m.fragments.all_frozen
  /\ \A f \in m.fragments.dirs : m.dirs[f].dnpinned
  /\ LET erased == [m EXCEPT !.fragments = NoFragment]
     IN  m' = fragment_unmark_unfreeze_dirs(erased, m.fragments.dirs)
  /\ UNCHANGED <<Disk, left>>

(* A crash, journal replay, and reopen_log.                                 *)
Restart ==
  /\ Running /\ left.crashes > 0
  /\ m' = Recovered(disk_tree, journal, m.last, m.small_writes)
  /\ left' = [left EXCEPT !.crashes = @ - 1]
  /\ ghost' = [ahead |-> FALSE, exposed |-> {},
               forgotten |-> ghost.forgotten \cup (IF Undecided # {} THEN ghost.exposed ELSE {}),
               astray |-> ghost.astray \/ (ghost.ahead /\ ~TellsTree)]
  /\ UNCHANGED <<journal, objs, disk_tree, contents>>

Next ==
  \/ \E f \in Frags : Load(f) \/ OsdApplies(f) \/ Commit(f)
  \/ \E f \in Frags, n \in Names : trim_dentry(f, n)
  \/ \E n \in Names : StartUpdate(n)
  \/ LogSafe \/ CommitInode \/ TrimLog \/ trim_inode
  \/ split_dir \/ merge_dir \/ RunContext
  \/ Dispatch \/ DispatchAborted \/ find_stale_fragment_freeze
  \/ Restart

Spec == Init /\ [][Next]_vars
-----------------------------------------------------------------------------
(* What a lookup finds: a dentry in the cache; nothing, if the dirfrag is   *)
(* complete; else what the object has once the writes under way are done.   *)
Written(f) ==
  LET Op(o, op) == CASE op.kind = "write" ->
                          [header |-> IF op.header # 0 THEN op.header ELSE o.header,
                           omap |-> WriteOmap(o.omap, op.set), exists |-> TRUE]
                     [] op.kind = "remove" -> Obj(0, {})
                     [] OTHER -> o
  IN  FoldLeft(Op, objs[f], m.objecter[f])

Finds(n, val) ==
  LET f == pick_dirfrag(m, n)
      obj == Written(f)
  IN  CASE f \in Cached(m) /\ n \in DOMAIN m.dirs[f].items -> m.dirs[f].items[n].val = val
        [] f \in Cached(m) /\ n \notin DOMAIN m.dirs[f].items /\ m.dirs[f].complete ->
             val = 0 /\ ~m.dirs[f].bad
        [] OTHER -> obj.header # 0 /\ val = InObject(obj, n)

(* Whatever splits, merges, commits, trimming and crashes do, but for two   *)
(* windows the code leaves open, no assertion                               *)
(* of CDir or of the fragmentation code fails (versions only grow, a commit *)
(* is of something newer, old fragments have no pins, every dentry of a     *)
(* result was marked, no write meets a missing object), every name resolves *)
(* to what the safe updates made of it, and the dirfrag it hashes to can be *)
(* read (CDir::_omap_fetched never meets a missing object, the bad dirfrag  *)
(* that the comment in fragment_mark_and_complete is about).  The windows:  *)
(* an uncommitted fragmentation keeps the segment of its PREPARE, not the   *)
(* older ones, so an update whose segment expired because the result        *)
(* dirfrag was stored is forgotten by the rollback of a crash (forgotten);  *)
(* and the directory's inode may be stored, or the PREPARE trimmed, before  *)
(* the PREPARE or ROLLBACK that goes with the tree is safe: a crash that    *)
(* finds no other entry of the directory takes up the wrong tree (astray).  *)
NothingLost ==
  ghost.astray \/ (Running /\ \A n \in Names \ ghost.forgotten : Finds(n, contents[n]))

(* Once a fragmentation is finished or rolled back and finished, nothing is *)
(* left in the objects of dirfrags that are no longer leaves, nor is        *)
(* anything about to be written there (_fragment_committed purges them all; *)
(* the segment of the PREPARE is kept until then, so a crash before that    *)
(* purges again), short of a crash that took up the wrong tree.             *)
OrphansAreGone ==
  Running /\ ~ghost.astray /\ m.uncommitted.ls = 0 =>
    \A f \in Frags \ m.dirfragtree : Written(f).omap = Empty /\ Written(f).header = 0

Quiet ==
  /\ m.pending = <<>> /\ (\A f \in Frags : m.objecter[f] = <<>>)
  /\ (\A c \in m.ctx : c.subs # {}) /\ ~CanDispatch

(* When nothing is left to happen by itself, no fragmentation is under way, *)
(* whatever raced with it: no dirfrag is frozen, pinned or marked, and no   *)
(* context waits for ever.                                                  *)
NothingStaysFrozen ==
  Running /\ Quiet =>
    /\ m.fragments = NoFragment /\ m.uncommitted = NoUncommitted /\ m.ctx = {}
    /\ \A f \in Cached(m) :
         LET dir == m.dirs[f]
         IN  /\ dir.freeze = "none" /\ dir.auth_pins = 0 /\ ~dir.fragmenting /\ ~dir.dnpinned
             /\ \A n \in DOMAIN dir.items : ~dir.items[n].fragmenting
=============================================================================
