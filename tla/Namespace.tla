------------------------------- MODULE Namespace -------------------------------
(***************************************************************************)
(* The namespace an MDS serves: the handlers of client requests that read  *)
(* and change directories (Server.cc), with the path traversal and the     *)
(* stray inodes of MDCache.cc and the linking of dentries of CDir.cc.      *)
(*                                                                         *)
(* A handler changes nothing at once.  It takes locks, pushes projected    *)
(* linkages and inodes, submits a journal entry and, mostly, replies       *)
(* early; when the entry is durable its completion pops the projections,   *)
(* in order, into the linked state.  So there are two namespaces: `ns', the *)
(* linked one, and `proj', the projected one.  An entry becomes durable    *)
(* and is completed in one step (Finish): a crash between the two leaves   *)
(* what a crash after the second does, so ns is also what a replay of the  *)
(* journal rebuilds.  The locks that are held are those of the entries in  *)
(* the log.  A request that cannot have all of its locks waits and is      *)
(* dispatched again from its beginning, as if it came then.  The rules by  *)
(* which locks conflict are those of the Locker, which is not part of this *)
(* repository: a lock early_reply marked "done" can be taken again by the  *)
(* client whose request holds it.                                          *)
(*                                                                         *)
(* A namespace is [dn |-> linkage of each dentry, in |-> type, nlink and   *)
(* primary dentry of each inode, fr |-> number of entries the fnode of     *)
(* each directory counts].                                                 *)
(***************************************************************************)
EXTENDS Integers, SequencesExt

CONSTANTS Clients, Names, Inos,   \* Inos = 1..n, 1 the root
          Loads,                  \* the namespaces to start from, each with the
                                  \* operations the clients use and a bound on
                                  \* how many of them change something
          Opened,                 \* the types of the inodes each client starts with
          MaxCrash                \* bound: crashes

VARIABLES ns, proj, log, req, replay, caps, purging, purged, reint,
          may, ops, crashes, unordered, failed

vars == <<ns, proj, log, req, replay, caps, purging, purged, reint,
          may, ops, crashes, unordered, failed>>

MDS == "mds"
Root == 1
Stray == 0
Slots == (Inos \X Names) \cup ({Stray} \X Inos)
NoSlot == <<>>

Null == [kind |-> "null", ino |-> 0]
Primary(i) == [kind |-> "primary", ino |-> i]
Remote(i) == [kind |-> "remote", ino |-> i]

Creations == {"mknod", "mkdir", "symlink", "openc"}

NoInode == [type |-> "none", nlink |-> 0, parent |-> NoSlot]

(***************************************************************************)
(* Linked and projected state                                              *)
(***************************************************************************)
Apply(n, up) == [dn |-> up.dn @@ n.dn, in |-> up.in @@ n.in, fr |-> up.fr @@ n.fr]

Submit(e) == log' = Append(log, e) /\ proj' = Apply(proj, e.up)

(* The dentries from inode i to the root, or to where the chain ends. *)
RECURSIVE Chain(_, _, _)
Chain(n, i, depth) ==
  IF depth = 0 \/ i = Stray \/ n.in[i].parent = NoSlot THEN <<>>
  ELSE <<n.in[i].parent>> \o Chain(n, n.in[i].parent[1], depth - 1)

make_trace(n, i) == Chain(n, i, Cardinality(Inos))

Ancestors(n, i) == {s[1] : s \in Range(make_trace(n, i))}

in_stray(n, i) == i # Stray /\ n.in[i].parent # NoSlot /\ n.in[i].parent[1] = Stray

(***************************************************************************)
(* Locks, external: which a client's request may take beside the log's.    *)
(***************************************************************************)
dnlock(s) == <<"dn", s>>
linklock(i) == <<"link", i>>
snaplock(i) == <<"snap", i>>
filelock(i) == <<"file", i>>
authlock(i) == <<"auth", i>>

XlockedByOther(c, l) == \E k \in DOMAIN log : l \in log[k].x /\ ~(log[k].c = c /\ l \in log[k].done)

can_read(c, s) == ~XlockedByOther(c, dnlock(s))

acquire_locks(c, rd, wr, x) ==
  /\ \A l \in rd \cup wr \cup x : ~XlockedByOther(c, l)
  /\ \A k \in DOMAIN log :
       /\ rd \cap log[k].wr = {}
       /\ wr \cap log[k].rd = {}
       /\ x \cap (log[k].rd \cup log[k].wr) = {}

include_snap_rdlocks(i) == {snaplock(j) : j \in ({i} \cup Ancestors(proj, i)) \ {Stray}}

(* CDentry::get_linkage(client, mdr): the projected linkage is for the      *)
(* client that holds the dentry's lock.                                     *)
get_linkage(c, s) ==
  IF \E k \in DOMAIN log : dnlock(s) \in log[k].x /\ log[k].c # c THEN ns.dn[s] ELSE proj.dn[s]

(***************************************************************************)
(* What a handler comes to: an answer, "wait", or an entry to journal.     *)
(***************************************************************************)
Answer(r, sees) == [r |-> r, journal |-> FALSE, sees |-> sees]

(* The result of the first check that fails, or ok. *)
Checked(checks, ok) ==
  LET k == SelectInSeq(checks, LAMBDA check : check[1])
  IN  IF k = 0 THEN ok ELSE Answer(checks[k][2], {})

(* An answer, or an entry to journal, once the locks are taken. *)
Locked(c, rd, wr, x, o) == IF acquire_locks(c, rd, wr, x) THEN o ELSE Answer("wait", {})

Journal(c, rd, wr, x, sees, stray, up) ==
  Locked(c, rd, wr, x, [r |-> "ok", journal |-> TRUE, rd |-> rd, wr |-> wr, x |-> x,
                        sees |-> sees, stray |-> stray, up |-> up])

(* The fnode counts a handler projects: linkunlink is a list of             *)
(* <<directory, +1 or -1>>.                                                 *)
predirty_journal_parents(linkunlink) ==
  Restrict(FoldLeft(LAMBDA f, d : [f EXCEPT ![d[1]] = @ + d[2]], proj.fr, linkunlink),
           {d[1] : d \in Range(linkunlink)})

is_dir(i) == i = Stray \/ proj.in[i].type = "dir"
get_inode(i) == i = Stray \/ (proj.in[i].type \in {"dir", "file"} /\ i \notin purging)

_dir_is_nonempty_unlocked(i) == is_dir(i) /\ proj.fr[i] # 0

(* Clients send the inode of a directory and one name in it. *)
path_traverse(c, s, forward) ==
  << <<~get_inode(s[1]), "ESTALE">>,
     <<~is_dir(s[1]), "ENOTDIR">>,
     <<~can_read(c, s) /\ (forward \/ proj.dn[s] = Null), "wait">>,
     <<proj.dn[s] = Null, "ENOENT">> >>

traverse_to_auth_dir(s) == << <<~get_inode(s[1]), "ESTALE">>, <<~is_dir(s[1]), "ENOTDIR">> >>

prepare_null_dentry(c, s, okexist) == << <<~okexist /\ get_linkage(c, s) # Null, "EEXIST">> >>

rdlock_path_xlock_dentry(c, s, okexist) ==
  traverse_to_auth_dir(s)
    \o << <<c # MDS /\ in_stray(proj, s[1]), "ENOENT">> >>
    \o prepare_null_dentry(c, s, okexist)

(* Of an inode, or of a dentry in a directory: what is checked, and the     *)
(* locks.                                                                   *)
rdlock_path_pin_ref(c, q) ==
  IF "dn" \in DOMAIN q THEN path_traverse(c, q.dn, TRUE) ELSE << <<~get_inode(q.ino), "ESTALE">> >>

PinRefLocks(q) ==
  IF "dn" \in DOMAIN q THEN {dnlock(q.dn)} \cup include_snap_rdlocks(proj.dn[q.dn].ino)
  ELSE include_snap_rdlocks(q.ino)

(* Mutant: starts from the linked inode. *)
project_inode_Linked(i, nlink, s) == i :> [ns.in[i] EXCEPT !.nlink = @ + nlink, !.parent = s]

(* The inode with its link count changed and its primary dentry at s. *)
project_inode(i, nlink, s) == i :> [proj.in[i] EXCEPT !.nlink = @ + nlink, !.parent = s]

(***************************************************************************)
(* The handlers of client c's request q                                    *)
(***************************************************************************)
handle_client_getattr(c, q) ==
  LET i == proj.dn[q.dn].ino
  IN  Checked(rdlock_path_pin_ref(c, q),
        Locked(c, PinRefLocks(q) \cup {linklock(i), authlock(i), filelock(i)}, {}, {}, Answer("ok", {i})))

handle_client_readdir(c, q) ==
  Checked(rdlock_path_pin_ref(c, q) \o << <<~is_dir(q.ino), "ENOTDIR">> >>,
    Locked(c, PinRefLocks(q) \cup {filelock(q.ino)}, {}, {},
           Answer("ok", {get_linkage(c, <<q.ino, nm>>).ino : nm \in Names} \ {0})))

handle_client_setattr(c, q) ==
  Checked(rdlock_path_pin_ref(c, q),
    Journal(c, PinRefLocks(q), {}, {authlock(q.ino)}, {q.ino}, 0,
            [dn |-> <<>>, in |-> project_inode(q.ino, 0, proj.in[q.ino].parent), fr |-> <<>>]))

(* The inode numbers left (a bound: with none left, creations wait). *)
FreeInos == {i \in Inos : proj.in[i].type = "none" /\
               \A c \in Clients : \A k \in DOMAIN replay[c] : replay[c][k].op \in Creations => replay[c][k].ino # i}

(* The inode number comes from those preallocated for the session; a replay *)
(* gets the one it asks for, if it is still among them.                     *)
prepare_new_inode(q) == IF q.ino # 0 /\ proj.in[q.ino].type = "none" THEN q.ino ELSE Min(FreeInos)

Create(c, q, type, okexist) ==
  LET d == q.dn[1]
      i == prepare_new_inode(q)
  IN  Checked(rdlock_path_xlock_dentry(c, q.dn, okexist) \o << <<(q.ino = 0 \/ proj.in[q.ino].type # "none") /\ FreeInos = {}, "wait">> >>,
        Journal(c, {authlock(d)} \cup include_snap_rdlocks(d), {filelock(d)}, {dnlock(q.dn)}, {i}, 0,
                [dn |-> q.dn :> Primary(i),
                 in |-> i :> [type |-> type, nlink |-> 1, parent |-> q.dn],
                 fr |-> predirty_journal_parents(<< <<d, 1>> >>)]))

handle_client_mknod(c, q) == Create(c, q, "file", FALSE)

handle_client_mkdir(c, q) == Create(c, q, "dir", FALSE)

handle_client_symlink(c, q) == Create(c, q, "file", FALSE)

(* The truncation is an update of the inode only.                           *)
do_open_truncate(c, q, i) ==
  Journal(c, PinRefLocks(q), {}, {filelock(i)}, {i}, 0,
          [dn |-> <<>>, in |-> project_inode(i, 0, proj.in[i].parent), fr |-> <<>>])

handle_client_open(c, q) ==
  LET i == IF "dn" \in DOMAIN q THEN proj.dn[q.dn].ino ELSE q.ino
  IN  Checked(rdlock_path_pin_ref(c, q),
        IF q.trunc THEN do_open_truncate(c, q, i)
        ELSE Locked(c, PinRefLocks(q), {}, {}, Answer("ok", {i})))

(* What an open with O_CREAT and without O_EXCL finds.                      *)
Existing(c, q) == Checked(path_traverse(c, q.dn, TRUE), Answer("ok", {})).r

(* Without O_EXCL a name that exists is opened; under its lock it must      *)
(* still be free: "assert(req->head.args.open.flags & O_EXCL)".             *)
handle_client_openc(c, q) ==
  LET made == Create(c, q, "file", ~q.excl)
  IN  CASE ~q.excl /\ Existing(c, q) = "ok" -> handle_client_open(c, q)
        [] ~q.excl /\ Existing(c, q) \notin {"ok", "ENOENT"} -> Answer(Existing(c, q), {})
        [] OTHER -> IF made.journal /\ proj.dn[q.dn] # Null THEN Answer("assert", {}) ELSE made

_link_local(q) ==
  [dn |-> q.dn :> Remote(q.ino),
   in |-> project_inode(q.ino, 1, proj.in[q.ino].parent),
   fr |-> predirty_journal_parents(<< <<q.dn[1], 1>> >>)]

handle_client_link(c, q) ==
  LET d == q.dn[1]
  IN  Checked(rdlock_path_xlock_dentry(c, q.dn, FALSE) \o
        << <<~get_inode(q.ino), "ESTALE">>, <<is_dir(q.ino), "EINVAL">> >>,
        Journal(c, include_snap_rdlocks(d) \cup include_snap_rdlocks(q.ino), {filelock(d)},
                {dnlock(q.dn), linklock(q.ino)}, {q.ino}, 0, _link_local(q)))

(* The dentry an inode that loses its primary dentry moves to. *)
prepare_stray_dentry(i) == <<Stray, i>>

_unlink_local(q) ==
  LET i == proj.dn[q.dn].ino
      primary == proj.dn[q.dn].kind = "primary"
      straydn == prepare_stray_dentry(i)
  IN  [dn |-> q.dn :> Null @@ (IF primary THEN straydn :> Primary(i) ELSE <<>>),
       in |-> project_inode(i, -1, IF primary THEN straydn ELSE proj.in[i].parent),
       fr |-> predirty_journal_parents(
                << <<q.dn[1], -1>> >> \o (IF primary THEN << <<Stray, 1>> >> ELSE <<>>))]

(* unlink and rmdir. *)
handle_client_unlink(c, q) ==
  LET i == proj.dn[q.dn].ino
      primary == proj.dn[q.dn].kind = "primary"
  IN  Checked(path_traverse(c, q.dn, TRUE) \o
        << <<q.op = "rmdir" /\ ~is_dir(i), "ENOTDIR">>,
           <<q.op = "unlink" /\ is_dir(i), "EISDIR">>,
           <<_dir_is_nonempty_unlocked(i), "ENOTEMPTY">> >>,
        Journal(c, include_snap_rdlocks(i) \cup (IF is_dir(i) THEN {filelock(i)} ELSE {}),
                {filelock(q.dn[1])} \cup (IF primary THEN {filelock(Stray)} ELSE {}),
                {dnlock(q.dn), linklock(i)} \cup (IF primary THEN {dnlock(prepare_stray_dentry(i))} ELSE {}),
                {}, IF primary THEN i ELSE 0, _unlink_local(q)))

(* The dentries rename locks so that source and destination share an        *)
(* ancestor: from each directory up to the first one above both.            *)
RenameTraces(srcdir, destdir) ==
  LET Bases(i) == <<i>> \o [k \in DOMAIN make_trace(proj, i) |-> make_trace(proj, i)[k][1]]
      common == SelectInSeq(Bases(srcdir), LAMBDA i : i \in Range(Bases(destdir)))
      Below(i, a) == {make_trace(proj, i)[k] : k \in 1..(SelectInSeq(Bases(i), LAMBDA j : j = a) - 1)}
  IN  IF srcdir = destdir \/ common = 0 THEN {}
      ELSE Below(srcdir, Bases(srcdir)[common]) \cup Below(destdir, Bases(srcdir)[common])

(* "dest a child of src": climbs the linked parents. *)
DestInsideSrc(q) == q.src \in Range(make_trace(ns, q.dn[1]))

(* What rename makes of its dentries: the inode of the source, the one it   *)
(* overwrites, whether both are the same, whether the one overwritten moves *)
(* to the stray directory, and whether this is a reintegration.             *)
RenameCase(q) ==
  LET src == proj.dn[q.src]
      dest == proj.dn[q.dn]
      linkmerge == src.ino = dest.ino /\ (src.kind = "primary" \/ dest.kind = "primary")
  IN  [src |-> src, dest |-> dest, srci |-> src.ino, oldin |-> dest.ino,
       linkmerge |-> linkmerge,
       to_stray |-> dest.kind = "primary" /\ ~linkmerge,
       silent |-> q.src[1] = Stray,
       move_dir |-> src.kind = "primary" /\ is_dir(src.ino)]

RenameInodes(q, k) ==
  project_inode(k.srci, 0, IF k.src.kind = "primary" THEN q.dn ELSE proj.in[k.srci].parent)
    @@ (IF k.dest = Null \/ k.linkmerge THEN <<>>
        ELSE project_inode(k.oldin, IF k.silent THEN 0 ELSE -1,
                           IF k.to_stray THEN prepare_stray_dentry(k.oldin) ELSE proj.in[k.oldin].parent))

_rename_prepare(q, k) ==
  [dn |-> q.dn :> k.src @@ q.src :> Null
            @@ (IF k.to_stray THEN prepare_stray_dentry(k.oldin) :> Primary(k.oldin) ELSE <<>>),
   in |-> RenameInodes(q, k),
   fr |-> predirty_journal_parents(
            (IF k.dest # Null THEN << <<q.dn[1], -1>> >> ELSE <<>>)
              \o (IF k.to_stray THEN << <<Stray, 1>> >> ELSE <<>>)
              \o << <<q.src[1], -1>>, <<q.dn[1], 1>> >>)]

RenameLocks(c, q, k) ==
  LET sdir == q.src[1]
      ddir == q.dn[1]
      traces == IF c = MDS THEN Range(make_trace(proj, ddir)) ELSE RenameTraces(sdir, ddir)
      x == {dnlock(q.dn), dnlock(q.src), linklock(k.srci)}
             \cup (IF k.dest # Null THEN {linklock(k.oldin)} ELSE {})
             \cup (IF k.to_stray THEN {dnlock(prepare_stray_dentry(k.oldin))} ELSE {})
             \cup (IF k.move_dir THEN {snaplock(k.srci)} ELSE {})
  IN  [x |-> x,
       wr |-> {filelock(ddir), filelock(sdir)} \cup (IF k.to_stray THEN {filelock(Stray)} ELSE {}),
       rd |-> ({dnlock(s) : s \in traces}
                 \cup include_snap_rdlocks(ddir) \cup include_snap_rdlocks(sdir)
                 \cup (IF k.move_dir THEN {} ELSE {snaplock(k.srci)})
                 \cup (IF k.dest # Null /\ is_dir(k.oldin) THEN {filelock(k.oldin)} ELSE {})) \ x]

handle_client_rename(c, q) ==
  LET k == RenameCase(q)
      l == RenameLocks(c, q, k)
      over == k.dest # Null
  IN  Checked(rdlock_path_xlock_dentry(c, q.dn, TRUE) \o path_traverse(c, q.src, FALSE) \o
        << <<over /\ is_dir(k.oldin) /\ ~is_dir(k.srci), "EISDIR">>,
           <<over /\ ~is_dir(k.oldin) /\ is_dir(k.srci), "ENOTDIR">>,
           <<over /\ _dir_is_nonempty_unlocked(k.oldin), "ENOTEMPTY">>,
           <<k.srci = k.oldin /\ ~k.silent, "ok">>,
           <<DestInsideSrc(q), "EINVAL">>,
           <<c = MDS /\ k.dest # Remote(k.srci), "EINVAL">> >>,
        Journal(c, l.rd, l.wr, l.x, {k.srci}, IF k.to_stray THEN k.oldin ELSE 0, _rename_prepare(q, k)))

dispatch_client_request(c, q) ==
  CASE q.op = "lookup" -> handle_client_getattr(c, q)
    [] q.op = "readdir" -> handle_client_readdir(c, q)
    [] q.op = "setattr" -> handle_client_setattr(c, q)
    [] q.op = "mknod" -> handle_client_mknod(c, q)
    [] q.op = "mkdir" -> handle_client_mkdir(c, q)
    [] q.op = "symlink" -> handle_client_symlink(c, q)
    [] q.op = "open" -> handle_client_open(c, q)
    [] q.op = "openc" -> handle_client_openc(c, q)
    [] q.op = "link" -> handle_client_link(c, q)
    [] q.op \in {"unlink", "rmdir"} -> handle_client_unlink(c, q)
    [] q.op = "rename" -> handle_client_rename(c, q)

(***************************************************************************)
(* Journaling and replies                                                  *)
(***************************************************************************)
(* Mutant: all of them. *)
set_xlocks_done_All(q, x) == x

(* The xlocks early_reply opens to the client's next requests: not the      *)
(* dentries of a rename.                                                    *)
set_xlocks_done(q, x) == {l \in x : ~(q.op = "rename" /\ l[1] = "dn")}

(* Mutant: an early reply drops the other locks too. *)
journal_and_reply_DropsLocks(c, q, o, how) ==
  [c |-> c, q |-> IF q.op \in Creations THEN [q EXCEPT !.ino = Max(o.sees)] ELSE q, how |-> how, up |-> o.up,
   stray |-> o.stray, sees |-> o.sees, rd |-> {}, wr |-> {}, x |-> {}, done |-> {}]

(* What the log keeps of request q of client c.  Locks are held until the   *)
(* entry is finished; an early reply drops the read locks.  A request of    *)
(* the MDS itself, a replayed one ("replay") and one that allocated its     *)
(* inode from the table ("late") are answered only then.                    *)
journal_and_reply(c, q, o, how) ==
  [c |-> c, q |-> IF q.op \in Creations THEN [q EXCEPT !.ino = Max(o.sees)] ELSE q, how |-> how, up |-> o.up,
   stray |-> o.stray, sees |-> o.sees,
   rd |-> IF how = "early" THEN {} ELSE o.rd, wr |-> o.wr, x |-> o.x,
   done |-> IF how = "early" THEN set_xlocks_done(q, o.x) ELSE {}]

NoReq == [st |-> "none"]

(* The reply's trace gives the client its inodes, with caps. *)
set_trace_dist(c, sees) == caps' = [caps EXCEPT ![c] = @ \cup sees]

(* A rename into a directory whose own creation is still in the log, or     *)
(* below one.                                                               *)
IntoNew(q) ==
  q.op = "rename" /\ \E i \in {q.dn[1]} \cup Ancestors(proj, q.dn[1]) :
                        i \notin {Root, Stray} /\ ns.in[i].parent = NoSlot

(* Early replies after which another client's request is not kept back until *)
(* this one is durable: such a rename; and an open with O_CREAT and O_TRUNC *)
(* of a name that exists, which locks the file and not the dentry.          *)
Unordered(q, o) ==
  (IF IntoNew(q) THEN {"into_new"} ELSE {})
    \cup (IF q.op = "openc" /\ o.up.dn = <<>> THEN {"truncated"} ELSE {})

handle_client_request(c, q) ==
  \E o \in {dispatch_client_request(c, q)} :
    /\ o.r # "wait"
    /\ failed' = IF o.r = "assert" THEN "assert" ELSE failed
    /\ \/ /\ ~o.journal
          /\ req' = [req EXCEPT ![c] = NoReq]
          /\ set_trace_dist(c, o.sees)
          /\ UNCHANGED <<proj, log, unordered>>
       \/ /\ o.journal
          /\ Submit(journal_and_reply(c, q, o, "early"))
          /\ req' = [req EXCEPT ![c] = NoReq]
          /\ set_trace_dist(c, o.sees)
          /\ unordered' = unordered \cup Unordered(q, o)
       \/ /\ o.journal /\ q.op \in Creations /\ o.up.dn # <<>>
          /\ Submit(journal_and_reply(c, q, o, "late"))
          /\ req' = [req EXCEPT ![c] = [st |-> "log", q |-> q]]
          /\ UNCHANGED <<caps, unordered>>

(***************************************************************************)
(* Strays.  What eval_stray decides for inode i in the state after a step: *)
(* linked namespace n, log l and caps cp.                                  *)
(***************************************************************************)
Touches(e, i) == i \in DOMAIN e.up.in \/ \E l \in e.rd \cup e.wr \cup e.x : l[1] # "dn" /\ l[2] = i

(* Mutant: caps do not count. *)
Referenced_NotByCaps(l, cp, i) == \E e \in Range(l) : Touches(e, i)

Referenced(l, cp, i) ==
  \/ \E c \in Clients : i \in cp[c]
  \/ \E e \in Range(l) : Touches(e, i)

MayPurge(n, l, cp, i) ==
  proj.dn[<<Stray, i>>] = Primary(i) /\ n.in[i].nlink = 0 /\ ~Referenced(l, cp, i)

(* The remote dentry that may take the primary link: linked, not projected. *)
RemoteParents(n, l, i) ==
  IF proj.dn[<<Stray, i>>] # Primary(i) \/ n.in[i].nlink = 0 THEN {}
  ELSE {s \in Inos \X Names : n.dn[s] = Remote(i) /\ \A e \in Range(l) : s \notin DOMAIN e.up.dn}

(* Begins to delete the inode's objects; that it does is not journaled. *)
purge_stray(i) == purging' = purging \cup {i} /\ purged' = purged \cup {i} /\ UNCHANGED reint

eval_stray(n, l, cp, i) ==
  IF i \notin purging /\ MayPurge(n, l, cp, i) THEN purge_stray(i)
  ELSE /\ \/ reint' = reint
          \/ \E s \in RemoteParents(n, l, i) : reint' = reint \cup {<<i, s>>}
       /\ UNCHANGED <<purging, purged>>

(***************************************************************************)
(* Actions                                                                 *)
(***************************************************************************)
Recovering == \E c \in Clients : replay[c] # <<>>

(* The requests a client can make: of the inodes it holds, and of names     *)
(* that are or were there unless it means to create one.                    *)
Requests(c) ==
  LET dirs == {i \in caps[c] : proj.in[i].type # "file"}
      slots == dirs \X Names
      there == {s \in slots : proj.dn[s] # Null \/ ns.dn[s] # Null}
      all ==
      {[op |-> o, dn |-> s] : o \in {"lookup", "unlink", "rmdir"}, s \in there}
      \cup {[op |-> "readdir", ino |-> i] : i \in dirs}
      \cup {[op |-> "setattr", ino |-> i] : i \in caps[c]}
      \cup {[op |-> "link", dn |-> s, ino |-> i] : s \in slots, i \in caps[c] \ dirs}
      \cup {[op |-> "rename", dn |-> s, src |-> t] : s \in slots, t \in there}
      \cup {[op |-> o, dn |-> s, ino |-> 0] : o \in Creations \ {"openc"}, s \in slots}
      \cup {[op |-> "open", ino |-> i, trunc |-> t] : i \in caps[c] \ dirs, t \in BOOLEAN}
      \cup {[op |-> "openc", dn |-> s, ino |-> 0, excl |-> f = "excl", trunc |-> f = "trunc"] :
              s \in slots, f \in {"", "excl", "trunc"}}
  IN  {q \in all : q.op \in may}

Call(c) ==
  /\ ops > 0 /\ ~Recovering /\ req[c] = NoReq
  /\ \E q \in Requests(c) : handle_client_request(c, q)
  /\ ops' = IF log' = log THEN ops ELSE ops - 1
  /\ UNCHANGED <<ns, replay, purging, purged, reint, may, crashes>>

(* A request that was not yet answered when the daemon died is sent again. *)
Resend(c) ==
  /\ ~Recovering /\ req[c].st = "resend"
  /\ handle_client_request(c, req[c].q)
  /\ UNCHANGED <<ns, replay, purging, purged, reint, may, ops, crashes>>

(* The completions of a durable entry e: the projections are popped, the    *)
(* locks dropped, a reply still owed is sent and a new stray looked at.     *)
C_MDS_mknod_finish(e) ==
  /\ ns' = Apply(ns, e.up)
  /\ IF e.how = "late"
     THEN set_trace_dist(e.c, e.sees) /\ req' = [req EXCEPT ![e.c] = NoReq]
     ELSE UNCHANGED <<caps, req>>
  /\ UNCHANGED <<purging, purged, reint>>

C_MDS_openc_finish(e) ==
  /\ ns' = Apply(ns, e.up)
  /\ IF e.how = "late"
     THEN set_trace_dist(e.c, e.sees) /\ req' = [req EXCEPT ![e.c] = NoReq]
     ELSE UNCHANGED <<caps, req>>
  /\ UNCHANGED <<purging, purged, reint>>

C_MDS_inode_update_finish(e) ==
  /\ ns' = Apply(ns, e.up)
  /\ UNCHANGED <<caps, req, purging, purged, reint>>

_link_local_finish(e) ==
  /\ ns' = Apply(ns, e.up)
  /\ UNCHANGED <<caps, req, purging, purged, reint>>

_unlink_local_finish(e) ==
  /\ ns' = Apply(ns, e.up)
  /\ UNCHANGED <<caps, req>>
  /\ IF e.stray # 0 THEN eval_stray(ns', log', caps, e.stray) ELSE UNCHANGED <<purging, purged, reint>>

_rename_apply(e) == ns' = Apply(ns, e.up)

_rename_finish(e) ==
  /\ _rename_apply(e)
  /\ UNCHANGED <<caps, req>>
  /\ IF e.stray # 0 THEN eval_stray(ns', log', caps, e.stray) ELSE UNCHANGED <<purging, purged, reint>>

_purge_stray_logged(e) ==
  /\ ns' = Apply(ns, e.up)
  /\ purging' = purging \ DOMAIN e.up.in
  /\ UNCHANGED <<caps, req, purged, reint>>

(* The oldest entry is durable and its completion runs. *)
Finish ==
  /\ log # <<>>
  /\ LET e == Head(log)
     IN  /\ log' = Tail(log)
         /\ \/ e.q.op \in Creations \ {"openc"} /\ C_MDS_mknod_finish(e)
            \/ e.q.op = "openc" /\ e.up.dn # <<>> /\ C_MDS_openc_finish(e)
            \/ /\ e.q.op \in {"setattr", "open"} \/ (e.q.op = "openc" /\ e.up.dn = <<>>)
               /\ C_MDS_inode_update_finish(e)
            \/ e.q.op = "link" /\ _link_local_finish(e)
            \/ e.q.op \in {"unlink", "rmdir"} /\ _unlink_local_finish(e)
            \/ e.q.op = "rename" /\ _rename_finish(e)
            \/ e.q.op = "purge" /\ _purge_stray_logged(e)
  /\ UNCHANGED <<proj, replay, may, ops, crashes, unordered, failed>>

(* The inodes the client's unfinished requests hold. *)
Held(q) == {q[f] : f \in {"ino"} \cap DOMAIN q} \cup {q[f][1] : f \in {"dn", "src"} \cap DOMAIN q}

(* A client forgets an inode, and so lets go of its caps (to the MDS that   *)
(* matters for a stray only).                                               *)
ReleaseCaps(c, i) ==
  /\ i \in caps[c] /\ in_stray(ns, i)
  /\ req[c] # NoReq => i \notin Held(req[c].q)
  /\ \A e \in Range(log) : e.c = c => i \notin Held(e.q)
  /\ \A q \in Range(replay[c]) : i \notin Held(q)
  /\ caps' = [caps EXCEPT ![c] = @ \ {i}]
  /\ eval_stray(ns, log, caps', i)
  /\ UNCHANGED <<ns, proj, log, req, replay, may, ops, crashes, unordered, failed>>

(* The other occasions on which strays are looked at: the scan at startup,  *)
(* the list of delayed ones, the trimming of the cache.                     *)
EvalStray(i) ==
  /\ eval_stray(ns, log, caps, i)
  /\ <<purging', reint'>> # <<purging, reint>>
  /\ UNCHANGED <<ns, proj, log, req, replay, caps, may, ops, crashes, unordered, failed>>

(* The objects of a stray are gone: its dentry is removed. *)
_purge_stray_purged(i) ==
  /\ i \in purging /\ \A e \in Range(log) : e.q.op # "purge" \/ i \notin DOMAIN e.up.in
  /\ Submit(
       [c |-> MDS, q |-> [op |-> "purge"], how |-> "mds", stray |-> 0, sees |-> {},
        rd |-> {}, wr |-> {}, x |-> {}, done |-> {},
        up |-> [dn |-> <<Stray, i>> :> Null, in |-> i :> [NoInode EXCEPT !.type = "gone"],
                fr |-> predirty_journal_parents( << <<Stray, -1>> >>)]])
  /\ UNCHANGED <<ns, req, replay, caps, purging, purged, reint, may, ops, crashes, unordered, failed>>

(* The rename an MDS asks itself for, so that a stray takes the place of    *)
(* one of its remote dentries.                                              *)
reintegrate_stray(r) ==
  LET q == [op |-> "rename", dn |-> r[2], src |-> <<Stray, r[1]>>]
      o == handle_client_rename(MDS, q)
  IN  /\ r \in reint /\ ~Recovering /\ o.r # "wait"
      /\ reint' = reint \ {r}
      /\ IF o.journal THEN Submit(journal_and_reply(MDS, q, o, "mds")) ELSE UNCHANGED <<proj, log>>
      /\ UNCHANGED <<ns, req, replay, caps, purging, purged, may, ops, crashes, unordered, failed>>

(* A request answered early and lost in a crash is sent again, before any   *)
(* new one.                                                                 *)
Replay(c) ==
  LET q == Head(replay[c])
      o == dispatch_client_request(c, q)
  IN  /\ replay[c] # <<>> /\ o.r # "wait"
      /\ replay' = [replay EXCEPT ![c] = Tail(@)]
      /\ IF o.journal THEN Submit(journal_and_reply(c, q, o, "replay")) ELSE UNCHANGED <<proj, log>>
      /\ failed' = CASE o.r = "ok" -> failed [] o.r = "assert" -> "assert" [] OTHER -> "replay"
      /\ UNCHANGED <<ns, req, caps, purging, purged, reint, may, ops, crashes, unordered>>

(* The daemon dies; its successor has what the journal holds. *)
Crash ==
  LET Unsafe(c) == SelectSeq(log, LAMBDA e : e.c = c /\ e.how \in {"early", "replay"})
  IN  /\ crashes < MaxCrash /\ <<log, purging, reint>> # <<<<>>, {}, {}>>
      /\ crashes' = crashes + 1
      /\ log' = <<>> /\ proj' = ns /\ purging' = {} /\ reint' = {}
      /\ replay' = [c \in Clients |-> [k \in DOMAIN Unsafe(c) |-> Unsafe(c)[k].q] \o replay[c]]
      /\ req' = [c \in Clients |-> IF req[c].st = "log" THEN [req[c] EXCEPT !.st = "resend"] ELSE req[c]]
      /\ UNCHANGED <<ns, caps, purged, may, ops, unordered, failed>>

Init ==
  /\ \E load \in Loads : ns = load.tree /\ may = load.ops /\ ops = load.max
  /\ proj = ns /\ log = <<>>
  /\ req = [c \in Clients |-> NoReq]
  /\ replay = [c \in Clients |-> <<>>]
  /\ caps = [c \in Clients |-> {i \in Inos : ns.in[i].type \in Opened[c]}]
  /\ purging = {} /\ purged = {} /\ reint = {}
  /\ crashes = 0 /\ unordered = {} /\ failed = "no"

Next ==
  \/ \E c \in Clients : Call(c) \/ Resend(c) \/ Replay(c) \/ \E i \in Inos : ReleaseCaps(c, i)
  \/ \E i \in Inos : EvalStray(i) \/ _purge_stray_purged(i)
  \/ \E r \in reint : reintegrate_stray(r)
  \/ Finish \/ Crash

Spec == Init /\ [][Next]_vars

(***************************************************************************)
(* Properties of the linked namespace, and so of what a replay of the      *)
(* journal rebuilds; and of the projected one, which the entries of the    *)
(* log make the linked one when nothing else happens.                      *)
(***************************************************************************)
Live == {i \in Inos : ns.in[i].type \in {"file", "dir"}}

Entries(d) == {nm \in (IF d = Stray THEN Inos ELSE Names) : ns.dn[<<d, nm>>] # Null}

(* The link count of an inode is the number of its dentries outside the     *)
(* stray directory, and the fnode of a directory counts its dentries: the   *)
(* handlers, which each add or take one of a projected count, the silent    *)
(* rename of a reintegration and the purge never lose or repeat one,        *)
(* however requests are pipelined, lost and replayed.  Every inode but the  *)
(* root has exactly one primary dentry, the one its parent pointer names,   *)
(* and no dentry names an inode that is gone: a creation, rename or         *)
(* reintegration never takes over a dentry another request has filled.  And *)
(* a directory that was removed has no entries: _dir_is_nonempty is asked   *)
(* under the lock that creations in the directory need, and what comes      *)
(* later is refused because the directory is a stray.                       *)
LinksAreRight ==
  /\ \A i \in Live \ {Root} :
       /\ ns.in[i].nlink = Cardinality({s \in Inos \X Names : ns.dn[s].ino = i})
       /\ ns.dn[ns.in[i].parent] = Primary(i)
  /\ \A d \in {Stray} \cup Inos : ns.fr[d] = Cardinality(Entries(d))
  /\ \A s \in Slots : ns.dn[s] # Null =>
       /\ ns.dn[s].ino \in Live
       /\ ns.dn[s].kind = "primary" => ns.in[ns.dn[s].ino].parent = s
  /\ \A d \in Inos : Entries(d) # {} => d \in Live /\ ~in_stray(ns, d)

(* Every directory can be reached from the root, or from the stray          *)
(* directory: "cannot rename item to be a child of itself".                 *)
Tree ==
  \A i \in Live \ {Root} : ns.in[i].type = "dir" => Ancestors(ns, i) \cap {Root, Stray} # {}

(* The same, unless a directory was renamed into one whose creation was not *)
(* yet finished: two renames, of one client or of two, cannot each pass the *)
(* check on linked parents and close a loop together, because a rename      *)
(* holds the dentries between source and destination until it is finished.  *)
TreeUnlessIntoNew == "into_new" \in unordered \/ Tree

(* An inode whose objects eval_stray has begun to delete is never linked    *)
(* again, by a client that still held it, by a replayed request or after a  *)
(* crash that forgot the purge.                                             *)
PurgedNeverComesBack == \A i \in purged : ns.in[i].nlink = 0

(* A request that was answered early succeeds again when a crash lost it    *)
(* and the client replays it: no client is ever let to build on what        *)
(* another client's unfinished request did.  Nor does an open with O_CREAT   *)
(* and without O_EXCL ever find, under its locks, a name that was not there *)
(* when it looked (handle_client_openc's assertion).  Not so after an early  *)
(* reply of those that Unordered names.                                     *)
ReplaySucceeds == failed # "assert" /\ (unordered # {} \/ failed = "no")
==============================================================================
