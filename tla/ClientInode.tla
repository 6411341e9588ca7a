----------------------------- MODULE ClientInode -----------------------------
(***************************************************************************)
(* One client, one inode (a file, or a directory with one name that others  *)
(* change, and maybe another that stays),                                   *)
(* and the MDS ranks that issue capabilities on it.  The client is          *)
(* src/client/Client.cc (ClientCaps, ClientDentries); the locks that decide *)
(* what may be issued (Locker), the bookkeeping of what was (Capability)    *)
(* and the migration of an inode (Migrator) are external, and appear as     *)
(* Client.cc meets them.  Other clients appear as changes to the name that  *)
(* the MDS allows when nobody may be caching it.                            *)
(***************************************************************************)
EXTENDS ClientDentries, FiniteSets

CONSTANTS Initially,  \* per kind of inode, what the ranks have issued at first,
                      \* and what the open file handle wants
          Allowed,    \* sets of file capabilities the locks may allow one client
          Budgets     \* bounds, per kind of inode: calls of the application,
                      \* changes of mind of the MDS, migrations and failovers,
                      \* and changes that other clients make to the name

VARIABLES kind,  \* "file" or "dir"
          in,    \* the client's inode record
          io,    \* the read, write and sync under way
          s2c, c2s,  \* per rank, messages to and from the client
          mcap,  \* per rank, the MDS's Capability
          mauth, \* the authoritative rank
          mdb,   \* what the MDS has durably: attributes, version, linkage
          mlog,  \* flushes not yet journaled
          mreq,  \* per rank, requests waiting for locks
          mlease,\* per rank, the dentry lease: "no", "out" or "revoking"
          up,    \* per rank, active (or rejoining)
          ghost, \* what went wrong, or crossed, on the way
          left   \* the budgets

vars == <<kind, in, io, s2c, c2s, mcap, mauth, mdb, mlog, mreq, mlease, up, ghost, left>>
mdsvars == <<mcap, mauth, mdb, mlog, mreq, mlease, up>>

NoMCap == [id |-> 0, pending |-> {}, held |-> {}, held_issue |-> 0, sent |-> <<>>,
           last_sent |-> 0, last_issue |-> 0, mseq |-> 0, wanted |-> {}]

Spend(b) == left[b] > 0 /\ left' = [left EXCEPT ![b] = @ - 1]

\* The client's new inode record, and what it sends.
Client(i) ==
  /\ in' = [i EXCEPT !.out = <<>>]
  /\ c2s' = [r \in Ranks |-> c2s[r] \o
               LET mine == SelectSeq(i.out, LAMBDA o : o.to = r)
               IN [k \in DOMAIN mine |-> mine[k].m]]

ToClient(r, m) == s2c' = [s2c EXCEPT ![r] = Append(@, m)]

----------------------------------------------------------------------------
(* The application's calls. *)

\* Requests that change the name: they wait for its locks at the authority.
Updates == {"create", "unlink"}

Idle == io.rd = "no" /\ io.wr = "no"

Ask(i, r, op, rel) ==
  Send([i EXCEPT !.calls = @ + 1, !.dnrefs = IF op \in Updates THEN @ + 1 ELSE @],
       r, [type |-> "request", op |-> op, rel |-> rel])
Answer(i, op) == [i EXCEPT !.calls = @ - 1, !.dnrefs = IF op \in Updates THEN @ - 1 ELSE @]

\* Or a lookup of the inode's own name, which brings it back.
_getattr(r) ==
  /\ Spend("ops") /\ in.calls = 0
  /\ r \in choose_target_mds(in, "getattr")
  /\ Client(Ask(in, r, "getattr", <<>>))
  /\ UNCHANGED <<kind, io, s2c, mdsvars, ghost>>

\* ceph_caps_for_mode: what an open file or directory wants.
OpenCaps == IF kind = "file" THEN FileCaps ELSE AnyShared

\* Of a directory the mode wants FILE_RD and FILE_CACHE as well, which are not
\* modelled: they may be issued or not.
_open(r) ==
  /\ Spend("ops") /\ in.here /\ in.open = {}
  /\ r \in choose_target_mds(in, "open")
  /\ LET i == [in EXCEPT !.open = OpenCaps]
     IN \/ OpenCaps \subseteq caps_issued(in) /\ Client(check_caps(i, TRUE))
        \/ /\ kind = "dir" \/ ~(OpenCaps \subseteq caps_issued(in))
           /\ Client(Ask(i, r, "open", <<>>))
  /\ UNCHANGED <<kind, io, s2c, mdsvars, ghost>>

\* The flush of dirty data that it starts ends with _flushed.
_release_fh ==
  /\ Spend("ops") /\ in.open # {} /\ Idle /\ in.calls = 0
  /\ LET i == [in EXCEPT !.open = {}]
     IN Client(IF i.refs["C"] = 0 /\ i.clean THEN _invalidate_inode_cache(i) ELSE check_caps(i, FALSE))
  /\ UNCHANGED <<kind, io, s2c, mdsvars, ghost>>

_setattr ==
  /\ Spend("ops") /\ kind = "file" /\ in.here /\ "A" \in caps_issued(in)
  /\ Client(mark_caps_dirty(in, "A"))
  /\ UNCHANGED <<kind, io, s2c, mdsvars, ghost>>

\* A read from the cache, or a synchronous one, starts; it ends with _read_done.
_read ==
  /\ Spend("ops") /\ kind = "file" /\ in.open # {} /\ in.calls = 0 /\ io.rd = "no"
  /\ get_caps(in, {"R"}, {"C"})
  /\ LET i == get_cap_ref(in, {"R"})
     IN IF "C" \in caps_issued(in)
          THEN /\ Client([get_cap_ref(i, {"C"}) EXCEPT !.clean = TRUE])
               /\ io' = [io EXCEPT !.rd = "async"]
          ELSE /\ Client(i)
               /\ io' = [io EXCEPT !.rd = "sync"]
  /\ UNCHANGED <<kind, s2c, mdsvars, ghost>>

_read_done ==
  /\ io.rd # "no"
  /\ Client(put_cap_ref(IF io.rd = "async" THEN put_cap_ref(in, {"C"}) ELSE in, {"R"}))
  /\ io' = [io EXCEPT !.rd = "no"]
  /\ UNCHANGED <<kind, s2c, mdsvars, ghost, left>>

\* A buffered write completes at once; a synchronous one waits for the OSDs.
_write ==
  /\ Spend("ops") /\ kind = "file" /\ in.open # {} /\ in.calls = 0 /\ io.wr = "no"
  /\ get_caps(in, {"W"}, {"B"})
  /\ LET i == get_cap_ref(in, {"W"})
         b == IF i.tx THEN i ELSE [get_cap_ref(i, {"C", "B"}) EXCEPT !.tx = TRUE]
     IN IF "B" \in caps_issued(in)
          THEN /\ Client(put_cap_ref(mark_caps_dirty(b, "W"), {"W"}))
               /\ UNCHANGED io
          ELSE /\ Client(get_cap_ref(i, {"B"}))
               /\ io' = [io EXCEPT !.wr = "sync"]
  /\ UNCHANGED <<kind, s2c, mdsvars, ghost>>

_write_done ==
  /\ io.wr = "sync"
  /\ Client(put_cap_ref(mark_caps_dirty(in, "W"), {"W"}))
  /\ io' = [io EXCEPT !.wr = "no"]
  /\ UNCHANGED <<kind, s2c, mdsvars, ghost, left>>

\* The write is safe on the OSDs, after or before it is acknowledged.
sync_write_commit ==
  /\ in.refs["B"] > (IF in.tx THEN 1 ELSE 0)
  /\ Client(put_cap_ref(in, {"B"}))
  /\ UNCHANGED <<kind, io, s2c, mdsvars, ghost, left>>

\* The object cacher has written everything out.
_flushed ==
  /\ in.tx
  /\ Client(put_cap_ref([in EXCEPT !.tx = FALSE, !.clean = TRUE], {"C", "B"}))
  /\ UNCHANGED <<kind, io, s2c, mdsvars, ghost, left>>

\* _sync_fs: every dirty inode is flushed, and what is being flushed awaited.
_sync_fs ==
  /\ Spend("ops") /\ kind = "file" /\ in.here /\ io.sync = None
  /\ LET i == flush_all_caps(in)
     IN /\ Client(i)
        /\ io' = [io EXCEPT !.sync = i.last_seq, !.synced = in.val,
                            !.mine = IF in.queue = "none" THEN {} ELSE caps_dirty(in)]
  /\ UNCHANGED <<kind, s2c, mdsvars, ghost>>

\* _fsync of dirty attributes: every MDS that issued a cap is sent what is being
\* flushed, which is not what is dirty.  The wait for the data changes nothing.
_fsync ==
  /\ Spend("ops") /\ kind = "file" /\ in.open # {} /\ io.sync = None /\ "A" \in in.dirty
  /\ LET i == FoldLeft(LAMBDA j, r : IF Has(j, r) THEN flush_caps(j, r) ELSE j,
                       in, SetToSortSeq(Ranks, <))
     IN Client(i) /\ io' = [io EXCEPT !.sync = i.last_tid]
  /\ ghost' = [ghost EXCEPT !.fsynced = \E r \in Ranks : Has(in, r) /\ in.auth # r]
  /\ UNCHANGED <<kind, s2c, mdsvars>>

\* There is something to wait for.
wait_sync_caps(want) == in.list # None /\ in.seq <= want

_sync_done ==
  /\ io.sync # None
  /\ ~wait_sync_caps(io.sync)
  /\ io' = [io EXCEPT !.sync = None, !.synced = [b \in Flushable |-> 0], !.mine = {}]
  /\ ghost' = [ghost EXCEPT !.unsynced = \/ @
                                         \/ /\ in.seq <= io.sync \* not flushed again since
                                            /\ \E b \in io.mine : mdb.val[b] < io.synced[b]]
  /\ UNCHANGED <<kind, in, s2c, c2s, mdsvars, left>>

\* A dentry that nothing pins, when the cache is full.
trim_cache ==
  /\ Spend("ops") /\ in.here
  /\ \/ in.dn.to # None /\ in.dnrefs = 0 /\ Client(trim_dentry(in))
     \/ in.pinned /\ Client(trim_other(in))
  /\ UNCHANGED <<kind, io, s2c, mdsvars, ghost>>

\* The MDS recalls caps (handle_client_session).
trim_caps(r) ==
  /\ Spend("ops") /\ in.here /\ Has(in, r)
  /\ Disposable(in, r) /\ Client(remove_cap(in, r, TRUE))
  /\ UNCHANGED <<kind, io, s2c, mdsvars, ghost>>

\* The last reference to the inode goes.
put_inode ==
  /\ Spend("ops") /\ in.here /\ in.open = {} /\ Idle /\ in.calls = 0 /\ in.dirp = NoDirp
  /\ caps_used(in) = {} /\ caps_dirty(in) = {} /\ ~DirOpen(in)
  /\ Client([remove_all_caps(in) EXCEPT !.here = FALSE, !.clean = FALSE, !.queue = "none",
                                        !.complete = FALSE, !.ver = 0])
  /\ UNCHANGED <<kind, io, s2c, mdsvars, ghost>>

tick ==
  /\ \/ /\ in.queue = "delayed_caps"
        /\ Client(check_caps([in EXCEPT !.queue = "cap_list"], TRUE))
     \/ /\ \E r \in Ranks : in.rel[r] # <<>> /\ up[r]
        /\ Client(flush_cap_releases(in, up))
  /\ UNCHANGED <<kind, io, s2c, mdsvars, ghost, left>>

----------------------------------------------------------------------------
(* Calls on the directory. *)

\* The dentry, or the listing, that an answer comes from is one the MDS counts on
\* the client to keep: see CachedAnswersAreCurrent.
KnownName == IF in.dn.lease # None THEN ~in.lost ELSE ~ghost.regranted
KnownListing == ~in.unsure /\ ~ghost.regranted

Answered(ino, known) ==
  /\ ghost' = [ghost EXCEPT !.stale = @ \/ (ino # mdb.link /\ known /\ ~ghost.crossed)]
  /\ UNCHANGED <<in, c2s>>

_lookup(r) ==
  /\ Spend("ops") /\ kind = "dir" /\ in.here /\ in.calls < 2
  /\ r \in choose_target_mds(in, "lookup")
  /\ \/ hit_dn(in) /\ Answered(in.dn.to, KnownName)
     \/ ENOENT_locally(in) /\ Answered(Null, KnownListing)
     \/ ~ENOENT_locally(in) /\ Client(Ask(in, r, "lookup", <<>>)) /\ UNCHANGED ghost
  /\ UNCHANGED <<kind, io, s2c, mdsvars>>

readdir_r_cb(r) ==
  /\ Spend("ops") /\ kind = "dir" /\ in.here /\ in.calls < 2 /\ in.dirp = NoDirp
  /\ r \in choose_target_mds(in, "readdir")
  /\ IF cached_listing(in) THEN Answered(_readdir_cache_cb(in), KnownListing)
     ELSE /\ Client(Ask([in EXCEPT !.dirp = opendir(in)], r, "readdir", <<>>))
          /\ UNCHANGED ghost
  /\ UNCHANGED <<kind, io, s2c, mdsvars>>

\* _mknod and _unlink: FILE_SHARED is dropped with the request.
_mknod(r) ==
  /\ Spend("ops") /\ kind = "dir" /\ in.here /\ in.calls < 2
  /\ r \in choose_target_mds(in, "create")
  /\ LET e == encode_dentry_release(get_or_create(in), r)
     IN Client(Ask(e.in, r, "create", e.rel))
  /\ UNCHANGED <<kind, io, s2c, mdsvars, ghost>>

_unlink(r) ==
  /\ Spend("ops") /\ kind = "dir" /\ in.here /\ in.calls < 2
  /\ r \in choose_target_mds(in, "unlink")
  /\ in.dn.to \notin {None, Null}  \* _lookup has found it
  /\ LET e == encode_dentry_release(in, r)
     IN Client(Ask(e.in, r, "unlink", e.rel))
  /\ UNCHANGED <<kind, io, s2c, mdsvars, ghost>>

----------------------------------------------------------------------------
(* Messages to the client. *)

\* The next chunk of a directory.
_readdir_get_frag(i) ==
  \E t \in choose_target_mds(i, "readdir_next") : Client(Ask(i, t, "readdir_next", <<>>))

\* A reply ends a call; a readdir goes on until its last chunk.
handle_client_reply(r, m) ==
  LET i == Answer(insert_trace(in, r, m), m.op)
  IN CASE m.op = "readdir" /\ ~m.end -> _readdir_get_frag(i)
       [] m.op = "readdir" /\ m.end -> Client(readdir_end(i))
       [] OTHER -> Client(i)

\* The request is sent to another rank, with that rank's releases.
handle_client_request_forward(m) ==
  LET i == Answer(in, m.op)
      e == encode_dentry_release(i, m.to)
  IN Client(IF m.op \in Updates THEN Ask(e.in, m.to, m.op, e.rel) ELSE Ask(i, m.to, m.op, <<>>))

\* A migration crosses other messages: the client drops the old cap with bits
\* it still has to give back, or hears of the migration from one MDS before
\* what the other had issued earlier.
Crossed(r, m) ==
  /\ m.type \in {"export", "import"}
  /\ \/ Revoking(in.caps[IF m.type = "export" THEN r ELSE m.peer]) # {}
     \/ \E j \in DOMAIN s2c[m.peer] : s2c[m.peer][j].type \in {"grant", "reply"}

\* An import comes before the reply that brings the inode in.
Early(m) == m.type = "import" /\ ~in.here /\ in.calls > 0

\* A grant brings FILE_SHARED back, and shared_gen stays.
Regranted(r, m) == m.type = "grant" /\ Has(in, r) /\ "S" \in m.caps \ caps_issued(in)

Receive(r) ==
  /\ s2c[r] # <<>>
  /\ LET m == Head(s2c[r])
     IN CASE m.type = "reply" -> handle_client_reply(r, m)
          [] m.type = "forward" -> handle_client_request_forward(m)
          [] m.type = "lease_revoke" -> Client(handle_lease(in, r))
          [] m.type \in {"grant", "import", "export", "flush_ack"} -> Client(handle_caps(in, r, m, up))
  /\ s2c' = [s2c EXCEPT ![r] = Tail(@)]
  /\ ghost' = [ghost EXCEPT !.crossed = @ \/ Crossed(r, Head(s2c[r])),
                            !.early = @ \/ Early(Head(s2c[r])),
                            !.regranted = /\ in'.shared_gen = in.shared_gen
                                          /\ @ \/ Regranted(r, Head(s2c[r]))]
  /\ UNCHANGED <<kind, io, mdsvars, left>>

----------------------------------------------------------------------------
(* Capability: what was issued, as far as the MDS can know (external).  The *)
(* client holds what it last confirmed, and what was sent to it since.      *)

issued(k) == k.held \cup UNION {k.sent[j].caps : j \in DOMAIN k.sent}

issue(k, p) ==
  [k EXCEPT !.pending = p, !.last_sent = @ + 1,
            !.sent = Append(@, [caps |-> p, seq |-> k.last_sent + 1, last_issue |-> k.last_issue])]

\* A reply or an import: the client's releases name it.
set_last_issue(k) ==
  [k EXCEPT !.last_issue = k.last_sent, !.sent[Len(k.sent)].last_issue = k.last_sent]

confirm_receipt(k, seq, caps) ==
  LET seen == SelectSeq(k.sent, LAMBDA v : v.seq <= seq)
  IN [k EXCEPT !.held = caps, !.held_issue = IF seen = <<>> THEN @ ELSE Last(seen).last_issue,
               !.sent = SelectSeq(@, LAMBDA v : v.seq > seq),
               !.pending = IF seq = k.last_sent THEN @ \cap caps ELSE @]

clean_revoke_from(k, seq) ==
  [k EXCEPT !.held = IF k.held_issue <= seq THEN @ \cap k.pending ELSE @,
            !.sent = SelectSeq(@, LAMBDA v : v.last_issue > seq)]

----------------------------------------------------------------------------
(* The MDS ranks (external: Locker, Migrator, and the replies of Server). *)

MCap(r) == IF mcap[r].id # 0 THEN mcap[r] ELSE [NoMCap EXCEPT !.id = mdb.nid]

\* What the locks may let rank r have issued next: bits being revoked are not
\* issued again before they are given back.
Allowable(r) ==
  LET k == mcap[r]
      gone == issued(k) \ k.pending
      all == IF kind = "dir" THEN {{}, {"S"}}
             ELSE IF r = mauth THEN Allowed ELSE {{}, {"R", "C"}}
  IN {p \in all \cup {k.pending} : p \cap gone = {}}

Val == mdb.val

\* Locker::issue_caps, with a reason: bits to be revoked, or wanted bits.
issue_caps(r) ==
  /\ Spend("issues") /\ up[r] /\ mcap[r].id # 0
  /\ \E p \in Allowable(r) :
       LET k == mcap[r]
           q == IF k.pending \subseteq p THEN p ELSE k.pending \cap p
           n == issue(k, q)
       IN /\ q # k.pending
          /\ k.pending \subseteq p => (p \ k.pending) \cap k.wanted # {}
          /\ mcap' = [mcap EXCEPT ![r] = n]
          /\ ToClient(r, [type |-> "grant", id |-> k.id, seq |-> n.last_sent, caps |-> q,
                          wanted |-> k.wanted, val |-> Val])
  /\ UNCHANGED <<kind, in, io, c2s, mauth, mdb, mlog, mreq, mlease, up, ghost>>

revoke_client_leases(r) ==
  /\ Spend("issues") /\ up[r] /\ mlease[r] = "out"
  /\ mlease' = [mlease EXCEPT ![r] = "revoking"]
  /\ ToClient(r, [type |-> "lease_revoke"])
  /\ UNCHANGED <<kind, in, io, c2s, mcap, mauth, mdb, mlog, mreq, up, ghost>>

\* Nobody may be caching the name.
Free == \A r \in Ranks : "S" \notin issued(mcap[r]) /\ mlease[r] = "no"

Relinked(ino) == [mdb EXCEPT !.link = ino, !.ver = @ + 1]

\* Another client creates or unlinks the name.
OtherClient ==
  /\ Spend("changes") /\ kind = "dir" /\ Free /\ up[mauth]
  /\ mdb' = Relinked(IF mdb.link = Null THEN mdb.ver ELSE Null)
  /\ UNCHANGED <<kind, in, io, s2c, c2s, mcap, mauth, mlog, mreq, mlease, up, ghost>>

\* What a request does to the name, and its result.
Handled(op) ==
  CASE op = "create" /\ mdb.link = Null -> [db |-> Relinked(mdb.ver), result |-> 0]
    [] op = "create" /\ mdb.link # Null -> [db |-> mdb, result |-> -17]
    [] op = "unlink" /\ mdb.link # Null -> [db |-> Relinked(Null), result |-> 0]
    [] op \in {"unlink", "lookup"} /\ mdb.link = Null -> [db |-> mdb, result |-> -2]
    [] OTHER -> [db |-> mdb, result |-> 0]

\* A reply with a trace: FILE_SHARED, or else a lease on the dentry, is issued
\* with it.  Errors have no trace, except that of a lookup, which may.
MdsReply(r, op) ==
  LET h == Handled(op)
      k == MCap(r)
  IN \E trace \in IF h.result = 0 THEN {TRUE} ELSE IF op = "lookup" THEN BOOLEAN ELSE {FALSE},
        p \in {q \in Allowable(r) : k.pending \subseteq q}, lease \in BOOLEAN :
       LET n == [set_last_issue(issue(k, p)) EXCEPT !.wanted = IF op = "open" THEN OpenCaps ELSE @]
       IN /\ trace \/ p = k.pending
          /\ lease => /\ trace /\ kind = "dir" /\ "S" \notin p
                      /\ op # "getattr" /\ mlease[r] # "revoking"
          /\ mcap' = [mcap EXCEPT ![r] = IF trace /\ p # {} THEN n ELSE @]
          /\ mdb' = [h.db EXCEPT !.nid = IF trace /\ p # {} /\ k.id = @ THEN @ + 1 ELSE @]
          /\ mlease' = IF lease THEN [mlease EXCEPT ![r] = "out"] ELSE mlease
          /\ ToClient(r, [type |-> "reply", op |-> IF op = "readdir_next" THEN "readdir" ELSE op,
                          result |-> h.result, trace |-> trace, lease |-> lease,
                          target |-> IF op = "readdir_next" THEN Null ELSE h.db.link,
                          end |-> op = "readdir_next",
                          id |-> k.id, caps |-> p, seq |-> n.last_sent, mseq |-> k.mseq,
                          auth |-> r = mauth, ver |-> h.db.ver, val |-> Val,
                          other |-> op = "readdir_next" /\ mdb.other,
                          empty |-> h.db.link = Null /\ ~mdb.other])

MdsUpdate(r) ==
  /\ up[r] /\ r = mauth /\ Free
  /\ \E j \in DOMAIN mreq[r] :
       /\ mreq' = [mreq EXCEPT ![r] = RemoveAt(@, j)]
       /\ MdsReply(r, mreq[r][j])
  /\ UNCHANGED <<kind, in, io, c2s, mauth, mlog, up, ghost, left>>

\* Waiting requests follow the authority.
MdsForward(r) ==
  /\ up[r] /\ r # mauth /\ mreq[r] # <<>>
  /\ mreq' = [mreq EXCEPT ![r] = Tail(@)]
  /\ ToClient(r, [type |-> "forward", op |-> Head(mreq[r]), to |-> mauth])
  /\ UNCHANGED <<kind, in, io, c2s, mcap, mauth, mdb, mlog, mlease, up, ghost, left>>

Current(k, m) == k.id # 0 /\ k.id = m.id /\ m.mseq >= k.mseq

handle_client_caps(r, m) ==
  LET k == mcap[r]
  IN IF Current(k, m)
       THEN /\ mcap' = [mcap EXCEPT ![r] = [confirm_receipt(k, m.seq, m.caps) EXCEPT !.wanted = m.wanted]]
            /\ mlog' = IF m.dirty # {} /\ r = mauth
                         THEN Append(mlog, [dirty |-> m.dirty, tid |-> m.tid, val |-> m.val]) ELSE mlog
       ELSE UNCHANGED <<mcap, mlog>>

_do_cap_release(k, rel) ==
  CASE ~Current(k, rel) -> k
    [] Current(k, rel) /\ rel.seq = k.last_issue -> NoMCap
    [] OTHER -> clean_revoke_from(k, rel.seq)

process_request_cap_release(k, v) == IF Current(k, v) THEN confirm_receipt(k, v.seq, v.caps) ELSE k

handle_client_request(r, m) ==
  CASE m.op \in Updates ->
         /\ mcap' = [mcap EXCEPT ![r] = FoldLeft(process_request_cap_release, @, m.rel)]
         /\ mlease' = [mlease EXCEPT ![r] = IF \E j \in DOMAIN m.rel : m.rel[j].dn THEN "no" ELSE @]
         /\ mreq' = [mreq EXCEPT ![r] = Append(@, m.op)]
         /\ UNCHANGED <<s2c, mdb>>
    [] auth_is_best(m.op) /\ m.op \notin Updates /\ r # mauth ->
         /\ ToClient(r, [type |-> "forward", op |-> m.op, to |-> mauth])
         /\ UNCHANGED <<mcap, mlease, mreq, mdb>>
    [] OTHER -> MdsReply(r, m.op) /\ UNCHANGED mreq

\* The authority has moved since the client gave something back.
AckLost(r, m) ==
  LET k == mcap[r]
  IN CASE m.type = "update" -> ~Current(k, m)
       [] m.type = "request" -> \E j \in DOMAIN m.rel : ~Current(k, m.rel[j])
       [] m.type = "release" -> \E j \in DOMAIN m.caps : m.caps[j].id = k.id /\ ~Current(k, m.caps[j])
       [] OTHER -> FALSE

MdsReceive(r) ==
  /\ up[r] /\ c2s[r] # <<>>
  /\ LET m == Head(c2s[r])
     IN CASE m.type = "request" -> handle_client_request(r, m) /\ UNCHANGED mlog
          [] m.type = "update" -> handle_client_caps(r, m) /\ UNCHANGED <<s2c, mdb, mreq, mlease>>
          [] m.type = "release" ->
               /\ mcap' = [mcap EXCEPT ![r] = FoldLeft(_do_cap_release, @, m.caps)]
               /\ UNCHANGED <<s2c, mdb, mlog, mreq, mlease>>
          [] m.type = "lease_release" ->
               /\ mlease' = [mlease EXCEPT ![r] = IF @ = "revoking" THEN "no" ELSE @]
               /\ UNCHANGED <<s2c, mdb, mcap, mlog, mreq>>
  /\ c2s' = [c2s EXCEPT ![r] = Tail(@)]
  /\ ghost' = [ghost EXCEPT !.crossed = @ \/ AckLost(r, Head(c2s[r]))]
  /\ UNCHANGED <<kind, in, io, mauth, up, left>>

\* A flush is durable, and acknowledged.
_finish_flush ==
  /\ mlog # <<>> /\ up[mauth]
  /\ LET f == Head(mlog)
     IN /\ mdb' = [mdb EXCEPT !.ver = @ + 1,
                     !.val = [b \in Flushable |->
                        IF b \in f.dirty THEN IF b = "W" /\ f.val[b] < @[b] THEN @[b] ELSE f.val[b] ELSE @[b]]]
        /\ ToClient(mauth, [type |-> "flush_ack", dirty |-> f.dirty, tid |-> f.tid])
  /\ mlog' = Tail(mlog)
  /\ UNCHANGED <<kind, in, io, c2s, mcap, mauth, mreq, mlease, up, ghost, left>>

\* The authority moves from a to b; the client hears of it from both
\* (do_cap_import).  Capability::merge keeps what was issued in view.
Export(a, b) ==
  /\ Spend("moves") /\ a = mauth /\ b # a /\ up[a] /\ up[b] /\ mlog = <<>>
  /\ mauth' = b
  /\ LET x == mcap[a]
         k == MCap(b)
         newpending == x.pending \cup k.pending
         k1 == IF issued(x) \subseteq newpending THEN k ELSE issue(k, issued(x) \cup newpending)
         n == [set_last_issue(issue(k1, newpending)) EXCEPT !.wanted = @ \cup x.wanted, !.mseq = x.mseq + 1]
     IN IF x.id = 0 THEN UNCHANGED <<s2c, mcap, mdb>>
        ELSE /\ mcap' = [mcap EXCEPT ![a] = NoMCap, ![b] = n]
             /\ mdb' = [mdb EXCEPT !.nid = IF k.id = @ THEN @ + 1 ELSE @]
             /\ s2c' = [s2c EXCEPT
                  ![a] = Append(@, [type |-> "export", id |-> x.id, mseq |-> x.mseq, peer |-> b,
                                    peer_id |-> n.id, peer_seq |-> k.last_sent + 1, peer_mseq |-> n.mseq]),
                  ![b] = Append(@, [type |-> "import", id |-> n.id, seq |-> n.last_sent, caps |-> n.pending,
                                    wanted |-> n.wanted, mseq |-> n.mseq, peer |-> a, peer_id |-> x.id,
                                    val |-> Val])]
  /\ UNCHANGED <<kind, in, io, c2s, mlog, mreq, mlease, up, ghost>>

\* The authoritative MDS fails and its successor asks what the client holds:
\* what was not journaled is lost, and so is what was on the wire.
Failover(a) ==
  /\ Spend("moves") /\ a = mauth /\ up[a] /\ in.calls = 0
  /\ LET i == send_reconnect(trim_cache_for_reconnect(in, a), a)
         cap == i.caps[a]
     IN /\ in' = [i EXCEPT !.lost = @ \/ i.dn.lease = a]
        /\ mcap' = [mcap EXCEPT ![a] = IF Has(i, a) THEN [NoMCap EXCEPT !.id = cap.id, !.pending = cap.issued,
                                          !.held = cap.issued, !.wanted = caps_wanted(i)]
                                       ELSE NoMCap]
        /\ ghost' = [ghost EXCEPT !.crossed = @ \/ Revoking(cap) # {}]
  /\ s2c' = [s2c EXCEPT ![a] = <<>>]
  /\ c2s' = [c2s EXCEPT ![a] = <<>>]
  /\ mlog' = <<>>
  /\ mlease' = [mlease EXCEPT ![a] = "no"]
  /\ up' = [up EXCEPT ![a] = FALSE]
  /\ UNCHANGED <<kind, io, mauth, mdb, mreq>>

\* It is active: the client flushes again what was not acknowledged.
Active(a) ==
  /\ ~up[a]
  /\ up' = [up EXCEPT ![a] = TRUE]
  /\ Client(kick_flushing_caps(in, a))
  /\ UNCHANGED <<kind, io, s2c, mcap, mauth, mdb, mlog, mreq, mlease, ghost, left>>

----------------------------------------------------------------------------

Zero == [b \in Flushable |-> 0]

InodeRecord(p, open) ==
  [here |-> TRUE,
   caps |-> [r \in Ranks |->
     IF r # 0 /\ p[r] = {} THEN NoCap
     ELSE [NoCap EXCEPT !.id = r + 1, !.issued = p[r], !.implemented = p[r], !.seq = 1,
                        !.issue_seq = 1, !.wanted = open]],
   auth |-> 0, open |-> open, refs |-> [b \in {"R", "C", "W", "B"} |-> 0],
   clean |-> FALSE, tx |-> FALSE, dirty |-> {}, flushing |-> {}, tid |-> Zero, last_tid |-> 0,
   list |-> None, seq |-> 0, last_seq |-> 0, queue |-> "cap_list", val |-> Zero,
   shared_gen |-> 1, complete |-> FALSE, dn |-> NoDentry, pinned |-> FALSE, release_count |-> 0,
   ver |-> 1, dirp |-> NoDirp, unsure |-> FALSE, lost |-> FALSE, calls |-> 0, dnrefs |-> 0,
   rel |-> [r \in Ranks |-> <<>>], out |-> <<>>, bad |-> FALSE]

Init ==
  /\ kind \in {"file", "dir"}
  /\ \E h \in Initially[kind], other \in BOOLEAN, pinned \in BOOLEAN, ino \in {Null, 1} :
       /\ kind = "file" => ~other /\ ino = Null
       /\ pinned => other
       /\ mauth \in {r \in Ranks : r = 0 \/ h.caps[r] # {}}
       /\ in = [InodeRecord(h.caps, h.open) EXCEPT !.auth = mauth, !.pinned = pinned,
                                                   !.dn = IF pinned THEN [NoDentry EXCEPT !.to = ino, !.gen = 1] ELSE @]
       /\ mcap = [r \in Ranks |->
            IF ~Has(in, r) THEN NoMCap
            ELSE [NoMCap EXCEPT !.id = r + 1, !.pending = h.caps[r], !.held = h.caps[r], !.last_sent = 1,
                                !.last_issue = 1, !.held_issue = 1, !.wanted = in.caps[r].wanted]]
       /\ mdb = [val |-> Zero, ver |-> 2, link |-> ino, other |-> other, nid |-> 1 + Cardinality(Ranks)]
  /\ io = [rd |-> "no", wr |-> "no", sync |-> None, synced |-> Zero, mine |-> {}]
  /\ s2c = [r \in Ranks |-> <<>>] /\ c2s = [r \in Ranks |-> <<>>]
  /\ mlog = <<>> /\ mreq = [r \in Ranks |-> <<>>]
  /\ mlease = [r \in Ranks |-> "no"] /\ up = [r \in Ranks |-> TRUE]
  /\ ghost = [stale |-> FALSE, unsynced |-> FALSE, crossed |-> FALSE, early |-> FALSE,
              fsynced |-> FALSE, regranted |-> FALSE]
  /\ left \in Budgets[kind]

Application ==
  \/ \E r \in Ranks : _getattr(r) \/ _open(r) \/ _lookup(r) \/ readdir_r_cb(r) \/ _mknod(r) \/ _unlink(r)
                     \/ trim_caps(r)
  \/ _release_fh \/ _setattr \/ _read \/ _write \/ _sync_fs \/ _fsync \/ trim_cache \/ put_inode

Mds ==
  \/ \E r \in Ranks : issue_caps(r) \/ revoke_client_leases(r) \/ Failover(r)
                        \/ \E b \in Ranks : Export(r, b)
  \/ OtherClient

\* What happens by itself.
Progress ==
  \/ _read_done \/ _write_done \/ sync_write_commit \/ _flushed \/ _sync_done \/ tick \/ _finish_flush
  \/ \E r \in Ranks : Receive(r) \/ MdsReceive(r) \/ MdsUpdate(r) \/ MdsForward(r) \/ Active(r)

Next == Application \/ Mds \/ Progress

Spec == Init /\ [][Next]_vars

----------------------------------------------------------------------------

\* No assertion of the client's capability code fails: a message that is not
\* newer than the cap only comes from the auth MDS and for the same cap
\* (add_update_cap), and a failover or an import sends flushes to the auth MDS
\* only (flush_caps).  Two cases do fail, and are set apart: an import for an
\* inode that was forgotten and is being looked up (ghost.early), and _fsync
\* with dirty attributes when two MDSs have issued caps, because it calls
\* flush_caps for each of them (ghost.fsynced).
NoAssert == ghost.early \/ ghost.fsynced \/ ~in.bad

InUse ==
  caps_issued(in) \cup (IF in.tx THEN {"B", "C"} ELSE {}) \cup (IF in.clean THEN {"C"} ELSE {})
    \cup (IF io.wr # "no" THEN {"W"} ELSE {}) \cup (IF io.rd # "no" THEN {"R"} ELSE {})

\* The client never caches, buffers, reads or writes, nor believes it may,
\* under a capability that no MDS counts as issued to it: check_caps gives
\* revoked bits back when the last use of them has ended.  Not so when a
\* migration crosses other messages, or a failover a revocation: see Crossed.
UsesOnlyWhatIsIssued ==
  ghost.crossed \/ InUse \subseteq UNION {issued(mcap[r]) : r \in Ranks}

\* A change the MDS does not have durably is dirty or being flushed, whatever
\* acknowledgements, migrations and failovers come in between, and an inode
\* with a flush under way is on the list that is flushed again when its auth
\* MDS fails over (mark_caps_flushing, handle_cap_flush_ack, add_update_cap).
\* When _sync_fs returns, the changes made before it was called are durable at
\* the MDS, if the inode was on a list that flush_caps walks, and was not
\* flushed again while wait_sync_caps waited.
ChangesAreNotLost ==
  /\ \A b \in Flushable : in.val[b] > mdb.val[b] => b \in caps_dirty(in)
  /\ in.flushing # {} => in.list = in.auth
  /\ ~ghost.unsynced

\* A lookup or a readdir that is answered from the cache gives what the MDS
\* would, whatever dentries were trimmed, revoked or replaced in between
\* (_lookup, readdir_r_cb, shared_gen, release_count).  The code is stale in
\* these cases, which are set apart: FILE_SHARED comes back with a grant to an
\* open directory, for which handle_cap_grant does not raise shared_gen
\* (ghost.regranted); a listing says complete although its Dir was closed
\* meanwhile and the next one counts releases from zero (in.unsure); a dentry
\* goes on recording a lease that was given back with a request, or that the
\* MDS forgot when it failed (in.lost); and crossed migrations (Crossed).
CachedAnswersAreCurrent == ~ghost.stale

\* Nothing will happen unless somebody asks for something.
Quiet ==
  /\ Idle /\ ~in.tx /\ in.refs["B"] = 0 /\ in.queue # "delayed_caps" /\ mlog = <<>>
  /\ \A r \in Ranks : up[r] /\ s2c[r] = <<>> /\ c2s[r] = <<>> /\ in.rel[r] = <<>>

\* No revocation stays unanswered, no flush unacknowledged and no sync asleep
\* when every message has been handled and every timer has fired: the last
\* use of a revoked bit answers for it (put_cap_ref).  A revocation by another
\* MDS of what the auth MDS issues as well may wait for the next check_caps,
\* and one that a migration or a failover crosses may stay (Crossed).
NothingIsForgotten ==
  Quiet =>
    /\ \A r \in Ranks :
         \/ ghost.crossed
         \/ issued(mcap[r]) \ mcap[r].pending
              \subseteq IF in.auth \in {None, r} THEN {} ELSE in.caps[in.auth].issued
    /\ in.flushing = {}
    /\ io.sync # None => ~wait_sync_caps(io.sync)
=============================================================================
