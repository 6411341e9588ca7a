---------------------------- MODULE ClientDentries ----------------------------
(***************************************************************************)
(* The client's cache of one name of a directory (src/client/Client.cc):    *)
(* what a lookup or a readdir may be answered with, and how the traces of   *)
(* the replies, lease revocations and trimming change it.  Operators from   *)
(* an inode record to an inode record, as in ClientCaps.                    *)
(*                                                                         *)
(* Fields of the record of a directory:                                     *)
(*   shared_gen, complete   in->shared_gen and the flag I_COMPLETE          *)
(*   dn           the Dentry: what it is linked to, None when there is no   *)
(*                Dentry, Null when it has no inode; lease_mds; and         *)
(*                cap_shared_gen                                            *)
(*   pinned       another dentry of the directory is in the cache           *)
(*   release_count   of the Dir, zero when the Dir is not open              *)
(*   ver          in->version                                               *)
(*   dirp         the readdir under way, or NoDirp; closed: the Dir was     *)
(*                closed since it began                                     *)
(*   unsure       complete was set by a readdir during which the Dir was    *)
(*                closed                                                    *)
(*   lost         the MDS has forgotten the lease that dn records           *)
(***************************************************************************)
EXTENDS ClientCaps

Null == 0

NoDirp == [gen |-> None, release_count |-> 0, closed |-> FALSE]
NoDentry == [to |-> None, lease |-> None, gen |-> 0]

DirOpen(in) == in.pinned \/ in.dn.to # None

\* unlink(dn, true, true): the dentry stays, without inode and lease.
unlink_keep(in) == [in EXCEPT !.dn.to = Null, !.dn.lease = None, !.lost = FALSE]

\* A Dir without dentries is closed; the next one counts from zero.
close_dir(in) ==
  IF DirOpen(in) THEN in
  ELSE [in EXCEPT !.release_count = 0, !.dirp.closed = in.dirp.gen # None]

\* unlink(dn, false, false): the dentry goes, and the Dir if it is empty.
unlink_drop(in) == close_dir([in EXCEPT !.dn = NoDentry, !.lost = FALSE])

(* Mutant: a readdir under way does not learn of the trimmed dentry. *)
trim_dentry_uncounted(in) == unlink_drop([in EXCEPT !.complete = FALSE])

trim_dentry(in) ==
  unlink_drop([in EXCEPT !.release_count = @ + 1, !.complete = FALSE])

\* trim_dentry of the other dentry.
trim_other(in) ==
  close_dir([in EXCEPT !.release_count = @ + 1, !.complete = FALSE, !.pinned = FALSE])

link(in, ino) ==
  [in EXCEPT !.dn = IF @.to = None THEN [NoDentry EXCEPT !.to = ino] ELSE [@ EXCEPT !.to = ino]]

update_dentry_lease(in, r, lease) ==
  [in EXCEPT !.dn.lease = IF lease THEN r ELSE @,
             !.dn.gen = in.shared_gen,
             !.lost = @ /\ ~lease]

insert_dentry_inode(in, r, ino, lease) ==
  LET i1 == IF in.dn.to \notin {None, Null, ino} THEN unlink_keep(in) ELSE in
  IN update_dentry_lease(link(i1, ino), r, lease)

\* The attributes of a reply count when they are newer; an empty directory of
\* which the MDS issues FILE_SHARED is complete.
add_update_inode(in, r, m) ==
  LET newer == m.ver > in.ver
      i1 == IF newer THEN [update_inode(in, m.val) EXCEPT !.ver = m.ver] ELSE in
      i2 == add_update_cap([i1 EXCEPT !.here = TRUE], r, m.id, m.caps, m.seq, m.mseq, m.auth)
  IN CASE m.caps = {} -> [in EXCEPT !.here = TRUE]
       [] m.caps # {} /\ newer /\ "S" \in m.caps /\ m.empty ->
            [IF in.dn.to = None THEN i2 ELSE unlink_keep(i2) EXCEPT !.complete = TRUE,
                                                                      !.unsure = FALSE]
       [] OTHER -> i2

insert_readdir_results(in, r, m) ==
  IF m.target = Null THEN [in EXCEPT !.pinned = @ \/ m.other]
  ELSE LET i1 == IF in.dn.to \notin {None, m.target} THEN unlink_keep(in) ELSE in
       IN update_dentry_lease(link(i1, m.target), r, m.lease)

NoTrace(in, m) ==
  LET i1 == [in EXCEPT !.release_count = @ + 1, !.complete = FALSE]
  IN CASE m.op \notin {"create", "unlink"} \/ in.dn.to = None -> in
       [] m.op = "unlink" /\ m.result = 0 /\ in.dn.to # None -> unlink_keep(i1)
       [] OTHER -> i1

insert_trace(in, r, m) ==
  LET i1 == add_update_inode(in, r, m)
  IN CASE ~m.trace -> NoTrace(in, m)
       [] m.trace /\ m.op = "readdir" -> insert_readdir_results(i1, r, m)
       [] m.trace /\ m.op \in {"getattr", "open"} -> i1
       [] m.trace /\ m.op \in {"lookup", "create", "unlink"} /\ m.target # Null ->
            insert_dentry_inode(i1, r, m.target, m.lease)
       [] OTHER -> IF i1.dn.to \in {None, Null} THEN i1 ELSE unlink_keep(i1)

\* A lease revocation is answered whatever the client has.
handle_lease(in, r) ==
  Send(IF in.here /\ in.dn.to # None THEN [in EXCEPT !.dn.lease = None, !.lost = FALSE] ELSE in,
       r, [type |-> "lease_release"])

\* _lookup: the dentry may be used, or its absence is known.
hit_dn(in) ==
  /\ in.dn.to # None
  /\ \/ in.dn.lease # None
     \/ "S" \in caps_issued(in) /\ in.dn.gen = in.shared_gen

ENOENT_locally(in) == in.dn.to = None /\ "S" \in caps_issued(in) /\ in.complete

\* readdir_r_cb and _readdir_cache_cb: a complete directory is listed from the
\* cache, without null dentries and those of an earlier issue.
cached_listing(in) == "S" \in caps_issued(in) /\ in.complete
_readdir_cache_cb(in) ==
  IF in.dn.to = None \/ in.dn.gen # in.shared_gen THEN Null ELSE in.dn.to

opendir(in) == [NoDirp EXCEPT !.gen = in.shared_gen, !.release_count = IF DirOpen(in) THEN in.release_count ELSE 0]

\* readdir_r_cb after the last chunk.
readdir_end(in) ==
  LET unchanged == /\ DirOpen(in)
                   /\ in.shared_gen = in.dirp.gen
                   /\ in.release_count = in.dirp.release_count
  IN [in EXCEPT !.dirp = NoDirp, !.complete = @ \/ unchanged,
                !.unsure = IF in.complete THEN @ ELSE in.dirp.closed]

get_or_create(in) == IF in.dn.to = None THEN link(in, Null) ELSE in

\* FILE_SHARED is given back with the request, unless it is in use; what the
\* client has is reported in any case.
encode_inode_release(in, r) ==
  LET cap == in.caps[r]
      released == "S" \in cap.issued \ (in.dirty \cup get_caps_used(in))
      i1 == IF released THEN [in EXCEPT !.caps[r].issued = @ \ {"S"}, !.caps[r].implemented = @ \ {"S"}]
            ELSE in
  IN [in |-> i1, released |-> released,
      rel |-> IF Has(in, r) THEN <<[id |-> cap.id, seq |-> cap.seq, mseq |-> cap.mseq, dn |-> FALSE,
                                    caps |-> i1.caps[r].implemented, wanted |-> cap.wanted]>>
              ELSE <<>>]

\* And with it the lease, which the Dentry goes on recording.
encode_dentry_release(in, r) ==
  LET e == encode_inode_release(in, r)
  IN IF e.released /\ in.dn.lease = r
       THEN [e EXCEPT !.in.lost = TRUE, !.rel[1].dn = TRUE]
       ELSE e

\* trim_cache_for_reconnect: the dentries of a directory with a cap there.
trim_cache_for_reconnect(in, r) ==
  LET i1 == IF in.dn.to # None THEN trim_dentry(in) ELSE in
  IN CASE ~Has(in, r) -> in
       [] Has(in, r) /\ in.pinned -> trim_other(i1)
       [] OTHER -> i1
=============================================================================
