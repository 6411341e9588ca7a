------------------------------- MODULE DirFrag -------------------------------
(***************************************************************************)
(* The dirfrags of one directory in the memory of the MDS that is their    *)
(* authority, and how they are fetched from and committed to their objects *)
(* (CDir.cc, "FETCH and COMMIT", split and merge).                         *)
(*                                                                         *)
(* The directory is whole (the dirfrag "*", frag_t()) or split in two by   *)
(* one bit ("0" and "1"): enough for every case of the code, which treats  *)
(* deeper trees alike.  A dentry's value is the inode linked, 0 if null.   *)
(* The calls are operators on `st', all of the daemon's memory (Fragment   *)
(* has the rest of it).                                                    *)
(*                                                                         *)
(* A LogSegment holds one journal entry and is named by its number; 0 says *)
(* that an item is on no list of a segment.  Pins on dentries count as     *)
(* pins of the dirfrag.                                                    *)
(***************************************************************************)
EXTENDS Integers, Sequences, FiniteSets, Functions, SequencesExt, TLC

CONSTANTS Names,    \* names of dentries
          half      \* name -> "0" or "1", by its hash

Whole == "*"
Halves == {"0", "1"}
Frags == {Whole} \cup Halves

ASSUME NamesAssumption == half \in [Names -> Halves]

Empty == <<>>

pick_dirfrag(st, n) == IF st.dirfragtree = {Whole} THEN Whole ELSE half[n]

(* CDir's constructor; the version is 0 until a fetch, or what set_version  *)
(* gives it.                                                                *)
NewDir(v) ==
  [version |-> v, projected_version |-> v, committing_version |-> 0, committed_version |-> 0,
   complete |-> FALSE, bad |-> FALSE, fetching |-> FALSE,
   dirty |-> FALSE, item_dirty |-> 0, item_new |-> 0,
   freeze |-> "none", fragmenting |-> FALSE, dnpinned |-> FALSE,
   auth_pins |-> 0, waiting_for_commit |-> {}, items |-> Empty]

Dentry(val, v, ls, new, frag) ==
  [val |-> val, version |-> v, item_dirty |-> ls, new |-> new, fragmenting |-> frag]

Assert_(st, cond, what) == IF cond \/ st.asserted # "" THEN st ELSE [st EXCEPT !.asserted = what]

With(st, f, dir) == [st EXCEPT !.dirs = f :> dir @@ @]

(* What a gather waits for has happened.                                    *)
Wake(st, subs) == [st EXCEPT !.ctx = {[c EXCEPT !.subs = @ \ subs] : c \in @}]
-----------------------------------------------------------------------------
(* Pins and the freezing of a dirfrag (the counting up the tree is          *)
(* CDirFreeze's).                                                           *)
auth_pin(st, f) == [st EXCEPT !.dirs[f].auth_pins = @ + 1]

can_auth_pin(st, f) == st.dirs[f].freeze = "none"

auth_unpin(st, f) ==
  LET left == [st EXCEPT !.dirs[f].auth_pins = @ - 1]
  IN  IF left.dirs[f].auth_pins = 1 /\ left.dirs[f].freeze = "freezing"
      THEN Wake([left EXCEPT !.dirs[f].freeze = "frozen", !.dirs[f].auth_pins = 0],
                {<<"frozen", f, 0>>})
      ELSE left

(* Mutant: giving up a freeze that has not ended leaves its pin.            *)
unfreeze_dir_KeepsPin(st, f) ==
  Wake([st EXCEPT !.dirs[f].freeze = "none"], {<<"frozen", f, 0>>})

unfreeze_dir(st, f) ==
  LET thawed == [st EXCEPT !.dirs[f].freeze = "none"]
  IN  IF st.dirs[f].freeze = "frozen" THEN thawed
      ELSE auth_unpin(Wake(Assert_(thawed, st.dirs[f].freeze = "freezing", "unfreeze_dir"),
                           {<<"frozen", f, 0>>}), f)
-----------------------------------------------------------------------------
(* Dirty and clean.                                                         *)

_mark_dirty(dir, ls) ==
  [dir EXCEPT !.dirty = TRUE, !.item_dirty = ls,
              !.item_new = IF dir.committed_version = 0 /\ @ = 0 THEN ls ELSE @]

mark_clean(dir) ==
  IF dir.dirty THEN [dir EXCEPT !.dirty = FALSE, !.item_dirty = 0, !.item_new = 0] ELSE dir

add_dentry(dir, n, val) ==
  [dir EXCEPT !.items = n :> Dentry(val, dir.projected_version, 0, FALSE, dir.dnpinned) @@ @]

remove_dentry(dir, n) == [dir EXCEPT !.items = Restrict(@, DOMAIN @ \ {n})]
-----------------------------------------------------------------------------
(* Fetch.  Operations on an object are carried out in order, so the read    *)
(* queues behind the writes.                                                *)
ReadOp == [kind |-> "read", set |-> Empty, header |-> 0, stat |-> FALSE]
RemoveOp == [ReadOp EXCEPT !.kind = "remove"]

Send(st, f, ops) == [st EXCEPT !.objecter[f] = @ \o ops]

fetch(st, f) ==
  IF st.dirs[f].fetching THEN st
  ELSE Send([auth_pin(st, f) EXCEPT !.dirs[f].fetching = TRUE], f, <<ReadOp>>)

(* "Items that are marked dirty from the journal should be marked clean if  *)
(* they appear on disk."                                                    *)
Underwater(dir, obj, n) ==
  /\ dir.committed_version = 0
  /\ n \in DOMAIN obj.omap /\ dir.items[n].version <= obj.header

(* The dentries cached stay; the others are added.                          *)
Loaded(dir, obj) ==
  LET Fresh(n) == Dentry(obj.omap[n], dir.projected_version, 0, FALSE, dir.dnpinned)
      Kept(n) == IF Underwater(dir, obj, n) THEN [dir.items[n] EXCEPT !.item_dirty = 0]
                 ELSE dir.items[n]
  IN  [n \in DOMAIN dir.items \cup DOMAIN obj.omap |->
         IF n \in DOMAIN dir.items THEN Kept(n) ELSE Fresh(n)]

_omap_fetched(st, f, obj) ==
  LET dir == st.dirs[f]
      known == IF dir.version # 0 THEN dir
               ELSE [dir EXCEPT !.version = obj.header, !.projected_version = obj.header,
                                !.committing_version = obj.header, !.committed_version = obj.header]
      full == IF obj.header = 0 THEN [dir EXCEPT !.bad = TRUE]
              ELSE [known EXCEPT !.items = Loaded(known, obj)]
      done == With(Assert_(st, dir.freeze # "frozen", "_omap_fetched"), f,
                   [full EXCEPT !.complete = TRUE, !.fetching = FALSE])
  IN  Wake(auth_unpin(done, f), {<<"complete", f, 0>>})
-----------------------------------------------------------------------------
(* Commit.                                                                  *)

ToStore(dir) ==
  {n \in DOMAIN dir.items : dir.items[n].item_dirty # 0
                            \/ (dir.items[n].fragmenting /\ dir.items[n].val # 0)}

(* One operation, or with small writes one per dentry and the header last.  *)
_omap_commit(st, f) ==
  LET dir == st.dirs[f]
      set == [n \in ToStore(dir) |-> dir.items[n].val]
      Op(names, v) == [kind |-> "write", set |-> Restrict(set, names), header |-> v,
                       stat |-> dir.item_new = 0 /\ ~dir.fragmenting]
      parts == [i \in 1 .. Cardinality(DOMAIN set) |-> Op({SetToSeq(DOMAIN set)[i]}, 0)]
      encoded == [st EXCEPT !.dirs[f].items =
                    [n \in DOMAIN @ |-> IF n \in DOMAIN set /\ set[n] # 0
                                        THEN [@[n] EXCEPT !.new = FALSE] ELSE @[n]]]
  IN  Send(encoded, f, IF st.small_writes THEN Append(parts, Op({}, dir.version))
                       ELSE <<Op(DOMAIN set, dir.version)>>)

_commit(st, f, want) ==
  LET dir == st.dirs[f]
  IN  IF \/ dir.committed_version >= want \/ dir.committing_version >= want
         \/ dir.committing_version > dir.committed_version
      THEN st
      ELSE _omap_commit([st EXCEPT !.dirs[f].committing_version = dir.version], f)

commit(st, f) ==
  LET want == st.dirs[f].version
      pinned == IF st.dirs[f].waiting_for_commit = {} THEN auth_pin(st, f) ELSE st
  IN  IF want <= st.dirs[f].committed_version THEN Assert_(st, FALSE, "commit")
      ELSE _commit([pinned EXCEPT !.dirs[f].waiting_for_commit = @ \cup {want}], f, want)

StoredDentry(dn, v) == IF v >= dn.version THEN [dn EXCEPT !.item_dirty = 0] ELSE dn

_committed(st, f, v) ==
  LET dir == [st.dirs[f] EXCEPT !.committed_version = v, !.item_new = 0,
                                !.items = [n \in DOMAIN @ |-> StoredDentry(@[n], v)]]
      waiting == {w \in dir.waiting_for_commit : w > v}
      clean == IF v = dir.version THEN mark_clean(dir) ELSE dir
      noted == Wake(With(Assert_(st, v > st.dirs[f].committed_version
                                     /\ v <= dir.committing_version, "_committed"), f,
                         [clean EXCEPT !.waiting_for_commit = waiting]),
                    {<<"commit", f, w>> : w \in dir.waiting_for_commit \ waiting})
  IN  IF waiting # {} THEN _commit(noted, f, CHOOSE w \in waiting : \A u \in waiting : w <= u)
      ELSE auth_unpin(noted, f)
-----------------------------------------------------------------------------
(* Split and merge.  In replay nothing is frozen and completeness is kept   *)
(* by a split, lost by a merge.                                             *)
finish_old_fragment(st, f, replay) ==
  Assert_(st, st.dirs[f].auth_pins = 0 /\ (replay \/ st.dirs[f].freeze = "frozen"),
          "finish_old_fragment")

split(st, replay) ==
  LET dir == st.dirs[Whole]
      Sub(h) == [NewDir(dir.version) EXCEPT
                   !.complete = dir.complete \/ ~replay, !.dirty = dir.dirty,
                   !.freeze = IF replay THEN "none" ELSE "frozen",
                   !.items = Restrict(dir.items, {n \in DOMAIN dir.items : half[n] = h})]
      ok == Assert_(finish_old_fragment(st, Whole, replay), replay \/ dir.complete, "split")
  IN  [ok EXCEPT !.dirs = [h \in Halves |-> Sub(h)]]

merge(st, srcs, replay) ==
  LET versions == {st.dirs[f].version : f \in srcs}
      names == UNION {DOMAIN st.dirs[f].items : f \in srcs}
      all == [NewDir(CHOOSE v \in versions : \A u \in versions : u <= v) EXCEPT
                !.complete = ~replay, !.dirty = \E f \in srcs : st.dirs[f].dirty,
                !.freeze = IF replay THEN "none" ELSE "frozen",
                !.items = [n \in names |-> st.dirs[half[n]].items[n]]]
      Old(s, f) == Assert_(finish_old_fragment(s, f, replay), replay \/ st.dirs[f].complete, "merge")
  IN  [FoldLeft(Old, st, SetToSeq(srcs)) EXCEPT !.dirs = Whole :> all]
=============================================================================
