------------------------------ MODULE ClientCaps ------------------------------
(***************************************************************************)
(* The client's handling of the capabilities of one inode                   *)
(* (src/client/Client.cc), as operators from an inode record to an inode    *)
(* record.  What an operator sends is appended to the field out, for the    *)
(* action that uses it to put on the wire.                                  *)
(*                                                                         *)
(* Capability bits: "A" AUTH_EXCL, "R" FILE_RD, "C" FILE_CACHE, "W" FILE_WR,*)
(* "B" FILE_BUFFER of a file, "S" FILE_SHARED of a directory.               *)
(*                                                                         *)
(* The inode record in:                                                     *)
(*   here         the inode is in inode_map                                 *)
(*   caps, auth   in->caps and the rank of in->auth_cap                     *)
(*   open, refs   what the open file handle wants, {} if none is open; and  *)
(*                cap_refs                                                  *)
(*   clean, tx    the object set holds clean objects; it holds dirty ones   *)
(*                (oset.dirty_or_tx)                                        *)
(*   dirty, flushing, tid, last_tid      dirty_caps, flushing_caps,         *)
(*                flushing_cap_tid per bit, last_flush_tid                  *)
(*   list, seq, last_seq      the session whose flushing_caps list the      *)
(*                inode is on, flushing_cap_seq, last_flush_seq             *)
(*   queue        the list cap_item is on: "delayed_caps", "cap_list", none *)
(*   val          how often the attributes that A and W cover were changed  *)
(*   shared_gen, complete, dn   the directory's part (ClientDentries)       *)
(*   calls, dnrefs   requests about the inode without a reply (each pins    *)
(*                it), and those that pin the dentry                        *)
(*   rel          per session, the cap releases not sent yet                *)
(*   out, bad     what is to be sent; an assertion of the code failed       *)
(***************************************************************************)
EXTENDS Integers, SequencesExt

CONSTANT Ranks \* the MDS ranks the client has a session with, naturals

None == -1

FileCaps == {"A", "R", "C", "W", "B"}
AnyShared == {"S"}
Flushable == {"A", "W"}

NoCap == [id |-> 0, issued |-> {}, implemented |-> {}, seq |-> 0,
          issue_seq |-> 0, mseq |-> 0, wanted |-> {}]

Has(in, r) == in.caps[r].id # 0
Revoking(cap) == cap.implemented \ cap.issued

is_any_caps(in) == \E r \in Ranks : Has(in, r)
caps_dirty(in) == in.dirty \cup in.flushing
caps_implemented(in) == UNION {in.caps[r].implemented : r \in Ranks}

\* What the auth MDS is revoking does not count, whoever else issued it.
caps_issued(in) ==
  UNION {in.caps[r].issued : r \in Ranks}
    \ (IF in.auth = None THEN {} ELSE Revoking(in.caps[in.auth]))

caps_used(in) == {b \in DOMAIN in.refs : in.refs[b] > 0}
caps_wanted(in) == caps_used(in) \cup in.open

get_caps_used(in) == caps_used(in) \cup (IF in.clean \/ in.tx THEN {"C"} ELSE {})

Send(in, r, m) == [in EXCEPT !.out = Append(@, [to |-> r, m |-> m])]

\* A tid is kept, and compared, as a uint16_t.
uint16_t(tid) == tid % 65536

mark_caps_dirty(in, b) == [in EXCEPT !.val[b] = @ + 1, !.dirty = @ \cup {b}]

mark_caps_flushing(in) ==
  [in EXCEPT !.flushing = @ \cup in.dirty, !.dirty = {},
             !.seq = in.last_seq + 1, !.last_seq = @ + 1, !.list = in.auth]

send_cap(in, r, used, want, retain, flush) ==
  LET cap == in.caps[r]
      keep == cap.issued \cap retain
      impl == cap.implemented \cap (keep \cup used)
      tid == IF flush = {} THEN 0 ELSE in.last_tid + 1
  IN Send([in EXCEPT
             !.caps[r] = [@ EXCEPT !.issued = keep, !.implemented = impl, !.wanted = want],
             !.last_tid = IF flush = {} THEN @ ELSE tid,
             !.tid = [b \in Flushable |-> IF b \in flush THEN uint16_t(tid) ELSE @[b]]],
          r, [type |-> "update", id |-> cap.id, seq |-> cap.seq, mseq |-> cap.mseq,
              caps |-> impl, wanted |-> want, dirty |-> flush, tid |-> tid,
              val |-> in.val])

(* Mutant: a revocation is acknowledged while the bits are still in use. *)
check_cap_ack_early(in, r, used, wanted, retain, is_delayed) ==
  LET cap == in.caps[r]
      mine == IF in.auth \in {None, r} THEN used ELSE used \ in.caps[in.auth].issued
      urgent == Revoking(cap) # {} \/ wanted \ (cap.wanted \cup cap.issued) # {}
      flush == IF in.auth = r THEN in.dirty ELSE {}
  IN IF ~Has(in, r) \/ (~urgent /\ ~is_delayed) THEN in
     ELSE send_cap(IF flush # {} THEN mark_caps_flushing(in) ELSE in,
                   r, {}, wanted, retain, flush)

\* One turn of check_caps' loop over in->caps.
check_cap(in, r, used, wanted, retain, is_delayed) ==
  LET cap == in.caps[r]
      mine == IF in.auth \in {None, r} THEN used ELSE used \ in.caps[in.auth].issued
      urgent == \/ Revoking(cap) # {} /\ Revoking(cap) \cap mine = {}
                \/ wanted \ (cap.wanted \cup cap.issued) # {}
      idle == wanted = cap.wanted /\ cap.issued \subseteq retain /\ in.dirty = {}
      flush == IF in.auth = r THEN in.dirty ELSE {}
  IN IF ~Has(in, r) \/ (~urgent /\ (idle \/ ~is_delayed)) THEN in
     ELSE send_cap(IF flush # {} THEN mark_caps_flushing(in) ELSE in,
                   r, mine, wanted, retain, flush)

check_caps(in, is_delayed) ==
  LET wanted == caps_wanted(in)
      used == get_caps_used(in)
      retain == wanted \cup used \cup AnyShared \cup (IF wanted # {} THEN FileCaps ELSE {})
  IN IF ~is_any_caps(in) THEN in
     ELSE FoldLeft(LAMBDA i, r : check_cap(i, r, used, wanted, retain, is_delayed),
                   [in EXCEPT !.queue = IF is_delayed THEN @ ELSE "delayed_caps"],
                   SetToSortSeq(Ranks, <))

_invalidate_inode_cache(in) == check_caps([in EXCEPT !.clean = FALSE], FALSE)

_release(in) == IF in.refs["C"] = 0 THEN _invalidate_inode_cache(in) ELSE in

\* Nothing is dirty; otherwise the writeout starts, and ends with _flushed.
_flush(in) == ~in.tx

get_cap_ref(in, bits) == [in EXCEPT !.refs = [b \in DOMAIN @ |-> IF b \in bits THEN @[b] + 1 ELSE @[b]]]

(* Mutant: the last use of a revoked bit does not answer the revocation. *)
put_cap_ref_unchecked(in, bits) ==
  [in EXCEPT !.refs = [b \in DOMAIN @ |-> IF b \in bits THEN @[b] - 1 ELSE @[b]]]

put_cap_ref(in, bits) ==
  LET put == [in EXCEPT !.refs = [b \in DOMAIN @ |-> IF b \in bits THEN @[b] - 1 ELSE @[b]]]
      last == {b \in bits : put.refs[b] = 0}
      drop == (last \ caps_issued(put))
                \cup (IF "C" \in last /\ "C" \notin caps_wanted(put) THEN {"C"} ELSE {})
  IN CASE "C" \in drop -> _invalidate_inode_cache(put)
       [] drop = {} -> put
       [] OTHER -> check_caps(put, FALSE)

\* get_caps would not wait.
get_caps(in, need, want) ==
  /\ need \subseteq caps_issued(in)
  /\ (caps_implemented(in) \ caps_issued(in)) \cap (want \ need) = {}

check_cap_issue(in, issued) ==
  IF "S" \in issued /\ "S" \notin caps_issued(in)
    THEN [in EXCEPT !.shared_gen = @ + 1, !.complete = FALSE]
    ELSE in

\* A non-auth MDS is revoking what the auth one has just issued.
OtherRevokes(in, r, issued) ==
  in.auth = r /\ \E o \in Ranks \ {r} : Revoking(in.caps[o]) \cap issued # {}

add_update_cap(in, r, id, caps, seq0, mseq0, auth0) ==
  LET cap == in.caps[r]
      old == Has(in, r) /\ seq0 <= cap.seq  \* sent before the import message
      issued == IF old THEN caps \cup cap.issued ELSE caps
      seq == IF old THEN cap.seq ELSE seq0
      mseq == IF old THEN cap.mseq ELSE mseq0
      i1 == check_cap_issue(in, issued)
      moves == /\ auth0 \/ old
               /\ in.auth # r
               /\ in.auth = None \/ in.caps[in.auth].mseq < mseq
      i2 == [i1 EXCEPT
               !.queue = IF Has(in, r) THEN @ ELSE "cap_list",
               !.bad = @ \/ (old /\ (in.auth # r \/ cap.id # id)),
               !.list = IF moves /\ in.auth # None /\ @ # None THEN r ELSE @,
               !.auth = IF moves THEN r ELSE @,
               !.caps[r] = [@ EXCEPT !.id = id, !.issued = @ \cup issued,
                            !.implemented = @ \cup issued, !.seq = seq,
                            !.issue_seq = seq, !.mseq = mseq]]
  IN IF issued \ cap.issued # {} /\ OtherRevokes(i2, r, issued) THEN check_caps(i2, TRUE) ELSE i2

enqueue_cap_release(in, r, id, seq, mseq) ==
  [in EXCEPT !.rel[r] = Append(@, [id |-> id, seq |-> seq, mseq |-> mseq])]

remove_cap(in, r, queue_release) ==
  LET cap == in.caps[r]
      i1 == IF queue_release THEN enqueue_cap_release(in, r, cap.id, cap.issue_seq, cap.mseq) ELSE in
  IN [i1 EXCEPT !.caps[r] = NoCap,
                !.auth = IF @ = r THEN None ELSE @,
                !.list = IF in.auth = r THEN None ELSE @]

remove_all_caps(in) ==
  FoldLeft(LAMBDA i, r : IF Has(i, r) THEN remove_cap(i, r, TRUE) ELSE i,
           in, SetToSortSeq(Ranks, <))

flush_cap_releases(in, up) ==
  FoldLeft(LAMBDA i, r : IF i.rel[r] = <<>> \/ ~up[r] THEN i
                         ELSE Send([i EXCEPT !.rel[r] = <<>>], r, [type |-> "release", caps |-> i.rel[r]]),
           in, SetToSortSeq(Ranks, <))

\* flush_caps(): a delayed inode leaves its list, and joins no other.
flush_all_caps(in) ==
  CASE in.queue = "delayed_caps" -> check_caps([in EXCEPT !.queue = "none"], TRUE)
    [] in.queue = "cap_list" -> check_caps(in, TRUE)
    [] OTHER -> in

\* flush_caps(in, session): what is being flushed is sent (again).
flush_caps(in, r) ==
  LET i1 == [in EXCEPT !.bad = @ \/ in.auth # r]
      cap == in.caps[r]
  IN send_cap(i1, r, get_caps_used(in), caps_wanted(in), cap.issued \cup cap.implemented, in.flushing)

kick_flushing_caps(in, r) ==
  IF in.list = r /\ in.flushing # {} THEN flush_caps(in, r) ELSE in

\* Attributes the client has no right to keep are the MDS's; sizes and times
\* of a file it may write only grow.
update_inode_file_bits(in, val, issued) ==
  [in EXCEPT !.val["W"] =
     IF issued \cap {"W", "B", "A"} # {} THEN IF val["W"] > @ THEN val["W"] ELSE @ ELSE val["W"]]

update_inode(in, val) ==
  LET issued == caps_issued(in) \cup caps_implemented(in) \cup caps_dirty(in)
  IN update_inode_file_bits([in EXCEPT !.val["A"] = IF "A" \in issued THEN @ ELSE val["A"]],
                            val, issued)

handle_cap_grant(in, r, m) ==
  LET cap == in.caps[r]
      used == get_caps_used(in)
      revoked == cap.issued \ m.caps
      held == caps_issued(in) \cup caps_implemented(in) \cup caps_dirty(in)
      imported == m.type = "import" /\ m.wanted # caps_wanted(in)
      i1 == check_cap_issue([update_inode(in, m.val) EXCEPT !.caps[r].seq = m.seq], held)
      i2 == [i1 EXCEPT !.caps[r] = [@ EXCEPT !.issued = m.caps,
                                             !.implemented = @ \cup m.caps]]
      Check(i, needed) == IF needed THEN check_caps(i, FALSE) ELSE i
  IN CASE revoked # {} /\ "B" \in used \ m.caps /\ ~_flush(in) -> \* _flushed will answer
            Check(i2, imported)
       [] revoked # {} /\ ~("B" \in used \ m.caps /\ ~_flush(in)) /\ "C" \in revoked ->
            Check(_release(i2), imported)
       [] revoked # {} /\ ~("B" \in used \ m.caps /\ ~_flush(in)) /\ "C" \notin revoked ->
            check_caps([i2 EXCEPT !.caps[r].wanted = {}], FALSE)
       [] revoked = {} /\ cap.issued = m.caps -> Check(i1, imported)
       [] OTHER -> Check(i2, imported \/ OtherRevokes(i2, r, m.caps))

handle_cap_import(in, r, m) ==
  LET i1 == add_update_cap(in, r, m.id, m.caps, m.seq, m.mseq, TRUE)
      i2 == IF Has(i1, m.peer) /\ i1.caps[m.peer].id = m.peer_id
              THEN remove_cap(i1, m.peer, FALSE) ELSE i1
  IN IF i2.auth = r /\ i2.flushing # {} THEN flush_caps(i2, r) ELSE i2

(* Mutant: the peer's cap does not become the auth cap before the import. *)
handle_cap_export_auth_later(in, r, m) ==
  LET cap == in.caps[r]
      i1 == IF in.caps[m.peer].id = m.peer_id /\ in.caps[m.peer].seq >= m.peer_seq THEN in
            ELSE [in EXCEPT !.caps[m.peer] = [@ EXCEPT !.id = m.peer_id,
                                 !.seq = m.peer_seq - 1, !.issue_seq = m.peer_seq - 1,
                                 !.mseq = m.peer_mseq, !.issued = @ \cup cap.issued,
                                 !.implemented = @ \cup cap.issued]]
  IN IF Has(in, r) /\ cap.id = m.id THEN remove_cap(i1, r, FALSE) ELSE in

handle_cap_export(in, r, m) ==
  LET cap == in.caps[r]
      tcap == in.caps[m.peer]
      i1 == CASE ~Has(in, m.peer) ->
                   add_update_cap(in, m.peer, m.peer_id, cap.issued, m.peer_seq - 1, m.peer_mseq,
                                  in.auth = r)
              [] Has(in, m.peer) /\ (tcap.id # m.peer_id \/ tcap.seq < m.peer_seq) ->
                   [in EXCEPT !.caps[m.peer] = [@ EXCEPT !.id = m.peer_id,
                                 !.seq = m.peer_seq - 1, !.issue_seq = m.peer_seq - 1,
                                 !.mseq = m.peer_mseq, !.issued = @ \cup cap.issued,
                                 !.implemented = @ \cup cap.issued],
                              !.auth = IF @ = r THEN m.peer ELSE @,
                              !.list = IF in.auth \in {r, m.peer} /\ @ # None THEN m.peer ELSE @]
              [] OTHER -> in
  IN IF Has(in, r) /\ cap.id = m.id THEN remove_cap(i1, r, FALSE) ELSE in

(* Mutant: an acknowledgement of an older flush cleans the bit as well. *)
handle_cap_flush_ack_any_tid(in, m) ==
  [in EXCEPT !.flushing = @ \ m.dirty, !.list = IF in.flushing \subseteq m.dirty THEN None ELSE @]

handle_cap_flush_ack(in, m) ==
  LET cleaned == {b \in m.dirty : in.tid[b] = uint16_t(m.tid)}
  IN IF cleaned = {} \/ in.flushing = {} THEN in
     ELSE [in EXCEPT !.flushing = @ \ cleaned,
                     !.list = IF in.flushing \subseteq cleaned THEN None ELSE @]

\* handle_caps: an inode that is gone gives back what is imported for it, and
\* the releases the MDS may be waiting for are sent.
handle_caps(in, r, m, up) ==
  LET i1 == IF m.type = "import" THEN handle_cap_import(in, r, m) ELSE in
  IN CASE ~in.here -> flush_cap_releases(
                        IF m.type = "import" THEN enqueue_cap_release(in, r, m.id, m.seq, m.mseq) ELSE in, up)
       [] in.here /\ m.type = "export" -> handle_cap_export(in, r, m)
       [] in.here /\ m.type # "export" /\ ~Has(i1, r) -> i1
       [] in.here /\ m.type \in {"grant", "import"} /\ Has(i1, r) -> handle_cap_grant(i1, r, m)
       [] in.here /\ m.type = "flush_ack" /\ Has(i1, r) -> handle_cap_flush_ack(i1, m)

auth_is_best(op) == op \in {"create", "unlink", "open", "readdir", "readdir_next"}

\* Where a request about the inode goes.
choose_target_mds(in, op) ==
  LET held == {r \in Ranks : Has(in, r)}
  IN CASE auth_is_best(op) /\ in.auth # None -> {in.auth}
       [] ~(auth_is_best(op) /\ in.auth # None) /\ held # {} -> {Min(held)} \* caps.begin()
       [] OTHER -> Ranks \* get_random_up_mds

\* trim_caps: a non-auth cap whose bits nobody needs from it.
Disposable(in, r) ==
  /\ Has(in, r) /\ in.auth # r
  /\ \E o \in Ranks \ {r} : Has(in, o)
  /\ get_caps_used(in) \cap (in.caps[r].issued \cup in.caps[r].implemented)
       \subseteq (IF in.auth = None THEN {} ELSE in.caps[in.auth].issued)

\* send_reconnect: every cap of the session is reported as if it were new;
\* releases that were not sent are forgotten.
send_reconnect(in, r) ==
  [in EXCEPT !.rel[r] = <<>>,
             !.caps[r] = [@ EXCEPT !.seq = 0, !.issue_seq = 0, !.mseq = 0]]
=============================================================================
