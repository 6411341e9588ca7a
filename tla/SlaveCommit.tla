------------------------------ MODULE SlaveCommit ------------------------------
(***************************************************************************)
(* One request that updates several ranks (remote link/unlink, rmdir,      *)
(* rename): the master's prepare / EUpdate / finish exchange with its      *)
(* slaves (Server), the crash of any rank, and the resolve stage that      *)
(* settles prepared slave updates (MDCache, MDS::handle_mds_map).          *)
(*                                                                         *)
(* mds[r] is the memory of the daemon holding rank r.  A handler is an     *)
(* operator from that record to its new value; what it sends collects in   *)
(* `out' and reaches the channels when the step ends.  disk[r] is the last *)
(* entry about the request in r's journal and `log' the entries submitted  *)
(* and not yet safe, lost in a crash.  maps is the monitor's history of    *)
(* MDSMaps: a rank's state in it, and the instance that holds the rank.    *)
(*                                                                         *)
(* RECONNECT and REJOIN are one state, CLIENTREPLAY and ACTIVE another.    *)
(* The rejoin exchange, migrations, locks, caps and the notifies to        *)
(* bystanders of a rename are left out.                                    *)
(***************************************************************************)
EXTENDS Integers, Sequences, FiniteSets, SequencesExt

CONSTANTS Ranks,    \* 0 .. n-1
          Master,   \* the rank the client's request goes to
          NoRank,   \* MDS_RANK_NONE
          Ops       \* the updates considered, each with its crashes

REPLAY  == 1
RESOLVE == 2
REJOIN  == 3
ACTIVE  == 4

(* An update: its witnesses, those of them that journal their part (the     *)
(* others have no auth subtree, or an empty metablob), and for a rename the *)
(* authority of the source dentry, prepared last; the ranks that may crash  *)
(* during it, and how many crashes there may be.                            *)
OpType == [name : {"link", "rmdir", "rename"}, witnesses : SUBSET (Ranks \ {Master}),
           journaled : SUBSET (Ranks \ {Master}), srcauth : Ranks \cup {NoRank},
           mayfail : SUBSET Ranks, maxfail : Nat]

ASSUME OpsAssumption ==
  /\ Master \in Ranks /\ NoRank \notin Ranks
  /\ \A o \in Ops : /\ o \in OpType
                    /\ o.witnesses # {} /\ o.journaled \subseteq o.witnesses
                    /\ o.srcauth # NoRank => o.name = "rename" /\ o.srcauth \in o.journaled
                    /\ o.name = "link" => Cardinality(o.witnesses) = 1 /\ o.journaled = o.witnesses

VARIABLES op, maps, mds, net, disk, fails

vars == <<op, maps, mds, net, disk, fails>>

RankSeq == SetToSortSeq(Ranks, <)

NoRequest == [live |-> FALSE, is_ambiguous_auth |-> FALSE, witnessed |-> {},
              waiting_on_slave |-> {}, slaves |-> {}, committing |-> FALSE]

NoUmaster == [live |-> FALSE, slaves |-> {}, safe |-> FALSE, committing |-> FALSE,
              recovering |-> FALSE]

NoSlave == [live |-> FALSE, request |-> FALSE, commit |-> FALSE, rollback |-> FALSE,
            journaled |-> FALSE, aborted |-> FALSE, frozen |-> FALSE]

NoResolve == [kind |-> "none", from |-> NoRank, inst |-> 0]

(* A daemon that has just taken rank r, its journal replayed: an EUpdate    *)
(* with had_slaves and no ECommitted is an uncommitted master whose slaves  *)
(* are unknown, a PREPARE without COMMIT or ROLLBACK an uncommitted slave   *)
(* update.                                                                  *)
Booted(r, epoch, want) ==
  [epoch |-> epoch, want |-> want, asserted |-> "",
   mdr |-> NoRequest,
   umaster |-> IF disk[r] = "updated" THEN [NoUmaster EXCEPT !.live = TRUE, !.safe = TRUE]
               ELSE NoUmaster,
   pending_masters |-> FALSE,
   waiting_for_active_peer |-> [p \in Ranks |-> 0], retries |-> 0,
   slave |-> NoSlave, ambiguous |-> FALSE, uncommitted |-> disk[r] = "prepared",
   resolve_gather |-> {}, resolve_ack_gather |-> {}, need_resolve_rollback |-> FALSE,
   delayed_resolve |-> [p \in Ranks |-> NoResolve],
   waiting_for_replay |-> <<>>, waiting_for_resolve |-> <<>>,
   log |-> <<>>, out |-> [p \in Ranks |-> <<>>]]

Newest == maps[Len(maps)]

(***************************************************************************)
(* Helpers on the record of one daemon                                     *)
(***************************************************************************)
MapOf(st) == maps[st.epoch]
StateOf(st, r) == MapOf(st).state[r]

is_resolving(map) == /\ \E r \in Ranks : map.state[r] = RESOLVE
                     /\ \A r \in Ranks : map.state[r] # REPLAY

Asserted(st, what) == [st EXCEPT !.asserted = what]

Submit(st, entry) == [st EXCEPT !.log = Append(@, entry)]

(* To the instance that holds rank d in the sender's map; the peer gets the *)
(* sender's map first if it has not seen it.                                *)
send_message_mds(st, d, kind) ==
  [st EXCEPT !.out[d] = Append(@, [kind |-> kind, to |-> MapOf(st).inst[d], epoch |-> st.epoch])]

(* On the connection a message came from: to that instance, without a map. *)
send_message(st, m, kind) ==
  [st EXCEPT !.out[m.from] = Append(@, [kind |-> kind, to |-> m.inst, epoch |-> 0])]

(***************************************************************************)
(* MDCache: uncommitted masters                                            *)
(***************************************************************************)
log_master_commit(st) == Submit([st EXCEPT !.umaster.committing = TRUE], "ECommitted")

_logged_master_commit(st) ==
  IF st.umaster.live THEN [st EXCEPT !.umaster = NoUmaster]
  ELSE Asserted(st, "_logged_master_commit")

(* Mutant: ECommitted is logged at the first slave's OP_COMMITTED. *)
committed_master_slave_First(st, from) ==
  IF ~st.umaster.live THEN Asserted(st, "committed_master_slave")
  ELSE log_master_commit([st EXCEPT !.umaster.slaves = @ \ {from}])

committed_master_slave(st, from) ==
  LET left == [st EXCEPT !.umaster.slaves = @ \ {from}]
  IN  CASE ~st.umaster.live -> Asserted(st, "committed_master_slave")
        [] st.umaster.live /\ ~left.umaster.recovering /\ left.umaster.slaves = {} ->
             log_master_commit(left)
        [] OTHER -> left

(* Mutant: does not look whether ECommitted is already being logged. *)
finish_committed_masters_Again(st) ==
  LET done == [st EXCEPT !.umaster.recovering = FALSE]
  IN  IF st.umaster.live /\ st.umaster.slaves = {} THEN log_master_commit(done) ELSE done

finish_committed_masters(st) ==
  LET done == [st EXCEPT !.umaster.recovering = FALSE]
  IN  IF st.umaster.live /\ ~st.umaster.committing /\ st.umaster.slaves = {}
      THEN log_master_commit(done) ELSE done

(***************************************************************************)
(* MDCache: resolve                                                        *)
(***************************************************************************)
maybe_resolve_finish(r, st) ==
  IF st.resolve_gather # {} THEN st
  ELSE LET done == finish_committed_masters(st)
       IN  IF StateOf(st, r) = RESOLVE THEN [done EXCEPT !.want = REJOIN] ELSE done

(* Mutant: an EUpdate that is being journaled is not waited for. *)
handle_resolve_slaves_Eager(st, m) ==
  send_message(st, m, IF st.umaster.live /\ st.umaster.safe THEN "ACKCOMMIT" ELSE "ACKABORT")

handle_resolve_slaves(st, m) ==
  LET asked == [st EXCEPT !.pending_masters = @ \/ (st.umaster.live /\ ~st.umaster.safe)]
  IN  CASE asked.pending_masters -> [asked EXCEPT !.delayed_resolve[m.from] = m]
        [] ~asked.pending_masters /\ st.umaster.live ->
             send_message([st EXCEPT !.umaster.slaves = @ \cup {m.from}], m, "ACKCOMMIT")
        [] OTHER -> send_message(st, m, "ACKABORT")

handle_resolve_subtrees(r, st, m) ==
  IF st.resolve_ack_gather # {} \/ st.need_resolve_rollback
  THEN [st EXCEPT !.delayed_resolve[m.from] = m]
  ELSE maybe_resolve_finish(r, [st EXCEPT !.resolve_gather = @ \ {m.from}])

handle_resolve(r, st, m) ==
  LET now == [st EXCEPT !.delayed_resolve[m.from] = NoResolve]
  IN  CASE StateOf(st, r) < RESOLVE /\ st.want = RESOLVE ->
             [st EXCEPT !.waiting_for_resolve = Append(@, m)]
        [] StateOf(st, r) < RESOLVE /\ st.want # RESOLVE -> st
        [] OTHER -> IF m.kind = "SLAVERESOLVE" THEN handle_resolve_slaves(now, m)
                    ELSE handle_resolve_subtrees(r, now, m)

process_delayed_resolve(r, st) ==
  LET Again(s, p) == IF st.delayed_resolve[p] = NoResolve THEN s
                     ELSE handle_resolve(r, s, st.delayed_resolve[p])
  IN  FoldLeft(Again, [st EXCEPT !.delayed_resolve = [p \in Ranks |-> NoResolve]], RankSeq)

send_subtree_resolves(r, st) ==
  LET to == {p \in Ranks \ {r} : StateOf(st, r) = RESOLVE \/ StateOf(st, p) = RESOLVE}
      Send(s, p) == IF p \in to THEN send_message_mds(s, p, "RESOLVE") ELSE s
  IN  FoldLeft(Send, st, RankSeq)

send_slave_resolves(r, st) ==
  LET ask == IF StateOf(st, r) = RESOLVE THEN st.uncommitted
             ELSE /\ st.slave.live /\ st.slave.commit
                  /\ StateOf(st, Master) = RESOLVE \/ st.ambiguous
  IN  IF ask THEN [send_message_mds(st, Master, "SLAVERESOLVE") EXCEPT !.resolve_ack_gather = {Master}]
      ELSE st

send_resolves(r, st) ==
  LET asked == send_slave_resolves(r, st)
  IN  IF asked.resolve_ack_gather # {} \/ asked.need_resolve_rollback THEN asked
      ELSE send_subtree_resolves(r, asked)

(* Mutant: the resolves that came before the acks are not looked at again. *)
ResolvesSettled_NoDelayed(r, st) ==
  IF st.resolve_ack_gather # {} \/ st.need_resolve_rollback THEN st
  ELSE send_subtree_resolves(r, st)

(* What handle_resolve_ack and finish_rollback end with. *)
ResolvesSettled(r, st) ==
  IF st.resolve_ack_gather # {} \/ st.need_resolve_rollback THEN st
  ELSE process_delayed_resolve(r, send_subtree_resolves(r, st))

finish_rollback(r, st) ==
  CASE ~st.need_resolve_rollback -> Asserted(st, "finish_rollback")
    [] st.need_resolve_rollback /\ StateOf(st, r) = RESOLVE /\ ~st.uncommitted ->
         Asserted(st, "finish_uncommitted_slave_update")
    [] OTHER -> ResolvesSettled(r, [st EXCEPT !.need_resolve_rollback = FALSE,
                    !.uncommitted = @ /\ StateOf(st, r) # RESOLVE])

logged_master_update(r, st) ==
  LET safe == [st EXCEPT !.umaster.safe = TRUE, !.pending_masters = FALSE]
  IN  CASE ~st.umaster.live -> Asserted(st, "logged_master_update")
        [] st.umaster.live /\ st.pending_masters -> process_delayed_resolve(r, safe)
        [] OTHER -> safe

(***************************************************************************)
(* Server and MDCache: the slave's request                                 *)
(***************************************************************************)
(* request_finish, no slave_commit left. *)
request_cleanup_slave(st) == [st EXCEPT !.slave = NoSlave]

_committed_slave(st) == request_cleanup_slave(send_message_mds(st, Master, "COMMITTED"))

(* The rollback is done; finish says whether the request ends with it. *)
rollback_finish(r, st, finish) ==
  LET undone == IF finish THEN request_cleanup_slave(st)
                ELSE [st EXCEPT !.slave.frozen = FALSE]
  IN  finish_rollback(r, undone)

do_link_rollback(st) == Submit([st EXCEPT !.need_resolve_rollback = TRUE], "ROLLBACK")

do_rmdir_rollback(r, st) ==
  LET added == [st EXCEPT !.need_resolve_rollback = TRUE]
  IN  IF st.slave.journaled THEN Submit(added, "ROLLBACK") ELSE rollback_finish(r, added, TRUE)

do_rename_rollback(r, st, finish) ==
  LET added == [st EXCEPT !.need_resolve_rollback = TRUE]
  IN  IF st.slave.journaled
      THEN Submit([added EXCEPT !.slave.journaled = FALSE],
                  IF finish THEN "ROLLBACK" ELSE "ROLLBACK_keep")
      ELSE rollback_finish(r, added, finish)

_commit_slave_link(st, aborted) == IF aborted THEN do_link_rollback(st) ELSE Submit(st, "COMMIT")

_commit_slave_rmdir(r, st, aborted) ==
  CASE aborted -> do_rmdir_rollback(r, st)
    [] ~aborted /\ st.slave.journaled -> Submit(st, "COMMIT")
    [] OTHER -> _committed_slave(st)

_commit_slave_rename(r, st, aborted) ==
  CASE ~aborted /\ st.slave.journaled -> Submit(st, "COMMIT")
    [] ~aborted /\ ~st.slave.journaled -> _committed_slave(st)
    [] aborted /\ ~st.slave.rollback -> request_cleanup_slave(st)
    [] aborted /\ st.slave.rollback /\ ~st.ambiguous -> do_rename_rollback(r, st, TRUE)
    [] OTHER -> do_rename_rollback(r, [st EXCEPT !.ambiguous = FALSE, !.slave.rollback = FALSE], FALSE)

request_finish(r, st) ==
  LET taken == [st EXCEPT !.slave.commit = FALSE, !.slave.aborted = FALSE]
  IN  CASE ~st.slave.commit -> request_cleanup_slave(st)
        [] st.slave.commit /\ op.name = "link" -> _commit_slave_link(taken, st.slave.aborted)
        [] st.slave.commit /\ op.name = "rmdir" -> _commit_slave_rmdir(r, taken, st.slave.aborted)
        [] OTHER -> _commit_slave_rename(r, taken, st.slave.aborted)

(* _logged_slave_link, _logged_slave_rmdir and _logged_slave_rename. *)
logged_slave(r, st) ==
  LET done == [st EXCEPT !.slave.request = FALSE]
  IN  IF st.slave.aborted THEN request_finish(r, done)
      ELSE send_message_mds(done, Master, "PREPACK")

handle_slave_link_prep(st) ==
  Submit([st EXCEPT !.slave.commit = TRUE, !.slave.rollback = TRUE, !.slave.journaled = TRUE], "PREPARE")

(* A rank without an auth subtree beneath the directory journals nothing. *)
handle_slave_rmdir_prep(r, st) ==
  IF r \in op.journaled THEN handle_slave_link_prep(st)
  ELSE logged_slave(r, [st EXCEPT !.slave.commit = TRUE, !.slave.rollback = TRUE])

(* The source authority first freezes the inode; with other witnesses, it   *)
(* then sends their list and waits for a second prepare.                    *)
handle_slave_rename_prep(r, st) ==
  LET freezing == r = op.srcauth /\ ~st.slave.frozen
      ready == [st EXCEPT !.slave.commit = TRUE, !.slave.frozen = @ \/ freezing]
  IN  IF freezing /\ Cardinality(op.witnesses) > 1
      THEN [send_message_mds(ready, Master, "WITNESSES") EXCEPT !.slave.request = FALSE]
      ELSE handle_slave_rmdir_prep(r, ready)

dispatch_slave_request(r, st, m) ==
  CASE st.slave.aborted \/ m.kind = "FINISH" -> request_finish(r, st)
    [] ~(st.slave.aborted \/ m.kind = "FINISH") /\ op.name = "link" -> handle_slave_link_prep(st)
    [] ~(st.slave.aborted \/ m.kind = "FINISH") /\ op.name = "rmdir" -> handle_slave_rmdir_prep(r, st)
    [] OTHER -> handle_slave_rename_prep(r, st)

handle_slave_request(r, st, m) ==
  LET started == [st EXCEPT !.slave.live = TRUE, !.slave.request = TRUE]
  IN  CASE ~st.slave.live /\ m.kind = "FINISH" -> st
        [] st.slave.live /\ st.slave.request -> Asserted(st, "handle_slave_request")
        [] ~st.slave.request /\ StateOf(st, r) # ACTIVE /\ (st.slave.live \/ m.kind = "PREP") ->
             [st EXCEPT !.slave.live = TRUE, !.waiting_for_replay = Append(@, m)]
        [] OTHER -> dispatch_slave_request(r, started, m)

(***************************************************************************)
(* Server and MDCache: the master's request                                *)
(***************************************************************************)
wait_for_active_peer(st, who) == [st EXCEPT !.waiting_for_active_peer[who] = @ + 1]

(* _link_remote, _rmdir_prepare_witness and _rename_prepare_witness. *)
prepare_witness(st, who) ==
  CASE StateOf(st, who) # ACTIVE /\ st.mdr.waiting_on_slave = {} -> wait_for_active_peer(st, who)
    [] StateOf(st, who) # ACTIVE /\ st.mdr.waiting_on_slave # {} -> st
    [] StateOf(st, who) = ACTIVE /\ who \in st.mdr.waiting_on_slave -> Asserted(st, "prepare_witness")
    [] OTHER -> [send_message_mds(st, who, "PREP") EXCEPT !.mdr.waiting_on_slave = @ \cup {who}]

(* The loop over the witnesses stops at the first one that is not active. *)
prepare_witnesses(st) ==
  LET ask == op.witnesses \ ({op.srcauth} \cup st.mdr.witnessed \cup st.mdr.waiting_on_slave)
      Try(s, p) == IF p \in ask /\ \A q \in ask : q < p => StateOf(st, q) = ACTIVE
                   THEN prepare_witness(s, p) ELSE s
  IN  FoldLeft(Try, st, RankSeq)

(* _unlink_local, and the ends of _link_remote and handle_client_rename:    *)
(* EUpdate and add_uncommitted_master.                                      *)
journal_update(st) ==
  Submit([st EXCEPT !.mdr.committing = TRUE,
                    !.umaster = [NoUmaster EXCEPT !.live = TRUE, !.slaves = st.mdr.witnessed]],
         "EUpdate")

_link_remote(st) ==
  LET linkauth == CHOOSE w \in op.witnesses : TRUE
  IN  IF linkauth \in st.mdr.witnessed THEN journal_update(st) ELSE prepare_witness(st, linkauth)

(* Some witness is not prepared yet. *)
Awaited(st) == op.witnesses \ ({op.srcauth} \cup st.mdr.witnessed) # {} \/ st.mdr.waiting_on_slave # {}

handle_client_unlink(st) == IF Awaited(st) THEN prepare_witnesses(st) ELSE journal_update(st)

handle_client_rename(st) ==
  CASE op.srcauth # NoRank /\ ~st.mdr.is_ambiguous_auth ->
         prepare_witness([st EXCEPT !.mdr.is_ambiguous_auth = TRUE], op.srcauth)
    [] (op.srcauth # NoRank => st.mdr.is_ambiguous_auth) /\ Awaited(st) -> prepare_witnesses(st)
    [] OTHER -> IF op.srcauth \in op.witnesses \ st.mdr.witnessed
                THEN prepare_witness(st, op.srcauth) ELSE journal_update(st)

dispatch_client_request(st) ==
  CASE ~st.mdr.live -> st
    [] st.mdr.live /\ op.name = "link" -> _link_remote(st)
    [] st.mdr.live /\ op.name = "rmdir" -> handle_client_unlink(st)
    [] OTHER -> handle_client_rename(st)

(* handle_slave_link_prep_ack, handle_slave_rmdir_prep_ack and              *)
(* handle_slave_rename_prep_ack.                                            *)
handle_slave_prep_ack(st, m) ==
  LET acked == [st EXCEPT !.mdr.slaves = @ \cup {m.from}, !.mdr.waiting_on_slave = @ \ {m.from},
                  !.mdr.witnessed = IF m.kind = "PREPACK" THEN @ \cup {m.from} ELSE @]
  IN  IF \/ op.name # "rmdir" /\ m.from \in st.mdr.witnessed
         \/ m.from \notin st.mdr.waiting_on_slave
      THEN Asserted(st, "handle_slave_prep_ack")
      ELSE IF acked.mdr.waiting_on_slave = {} THEN dispatch_client_request(acked) ELSE acked

handle_slave_request_reply(r, st, m) ==
  CASE StateOf(st, r) # ACTIVE -> [st EXCEPT !.waiting_for_replay = Append(@, m)]
    [] StateOf(st, r) = ACTIVE /\ m.kind = "COMMITTED" -> committed_master_slave(st, m.from)
    [] StateOf(st, r) = ACTIVE /\ m.kind # "COMMITTED" /\ ~st.mdr.live -> Asserted(st, "request_get")
    [] OTHER -> handle_slave_prep_ack(st, m)

(* request_cleanup and request_drop_foreign_locks. *)
request_cleanup(st) ==
  LET Send(s, p) == IF p \in st.mdr.slaves THEN send_message_mds(s, p, "FINISH") ELSE s
  IN  [FoldLeft(Send, st, RankSeq) EXCEPT !.mdr = NoRequest]

(* _link_remote_finish, _unlink_local_finish and _rename_finish. *)
update_finish(r, st) == request_cleanup(logged_master_update(r, st))

(***************************************************************************)
(* MDCache: resolve acks and failures                                      *)
(***************************************************************************)
resolve_ack_commit(r, st) ==
  CASE st.ambiguous -> [st EXCEPT !.ambiguous = FALSE]
    [] ~st.ambiguous /\ StateOf(st, r) = RESOLVE ->
         IF st.uncommitted THEN Submit([st EXCEPT !.uncommitted = FALSE], "COMMIT_resolve")
         ELSE Asserted(st, "get_uncommitted_slave_update")
    [] OTHER -> IF st.slave.live /\ ~st.slave.request THEN request_finish(r, st)
                ELSE Asserted(st, "resolve_ack_commit")

resolve_ack_abort(r, st) ==
  CASE StateOf(st, r) = RESOLVE ->
         IF st.uncommitted THEN Submit([st EXCEPT !.need_resolve_rollback = TRUE], "ROLLBACK_resolve")
         ELSE Asserted(st, "get_uncommitted_slave_update")
    [] StateOf(st, r) # RESOLVE /\ ~st.slave.live -> Asserted(st, "request_get")
    [] StateOf(st, r) # RESOLVE /\ st.slave.live /\ st.slave.request ->
         [st EXCEPT !.slave.aborted = TRUE, !.need_resolve_rollback = @ \/ st.slave.commit]
    [] OTHER -> request_finish(r, [st EXCEPT !.slave.aborted = TRUE])

(* An ambiguous slave update still waits for its ack. *)
AckTaken(st, from) ==
  [st EXCEPT !.resolve_ack_gather = IF st.ambiguous THEN @ ELSE @ \ {from}]

handle_resolve_ack(r, st, m) ==
  LET done == IF m.kind = "ACKCOMMIT" THEN resolve_ack_commit(r, st) ELSE resolve_ack_abort(r, st)
  IN  CASE m.from \notin st.resolve_ack_gather \/ StateOf(st, m.from) < RESOLVE -> st
        [] /\ m.from \in st.resolve_ack_gather /\ StateOf(st, m.from) >= RESOLVE
           /\ st.ambiguous /\ (StateOf(st, r) # ACTIVE \/ StateOf(st, m.from) # ACTIVE) ->
             Asserted(st, "handle_resolve_ack")
        [] OTHER -> ResolvesSettled(r, AckTaken(done, m.from))

(* A slave's request when `who' has failed. *)
slave_failure(r, st, who) ==
  CASE ~st.slave.live -> st
    [] st.slave.live /\ who = Master /\ ~st.slave.commit ->
         IF st.slave.request THEN [st EXCEPT !.slave.aborted = TRUE] ELSE request_cleanup_slave(st)
    [] st.slave.live /\ who = op.srcauth /\ st.slave.commit /\ StateOf(st, Master) = ACTIVE ->
         [st EXCEPT !.ambiguous = TRUE]
    [] OTHER -> st

(* The master's request, not yet committing, when a slave has failed. *)
master_failure(st, who) ==
  LET undo == IF who = op.srcauth
              THEN [st EXCEPT !.mdr.is_ambiguous_auth = FALSE, !.mdr.witnessed = {},
                              !.pending_masters = FALSE]
              ELSE st
      lost == CASE who \notin undo.mdr.witnessed -> undo
                [] who \in undo.mdr.witnessed /\ op.srcauth \in undo.mdr.waiting_on_slave ->
                     [undo EXCEPT !.pending_masters = TRUE]
                [] OTHER -> [undo EXCEPT !.mdr.witnessed = @ \ {who}]
      left == [lost EXCEPT !.mdr.waiting_on_slave = @ \ {who}]
      unexpected == \/ who = op.srcauth /\ who \in st.mdr.witnessed
                    \/ who \in undo.mdr.witnessed /\ op.srcauth \in undo.mdr.witnessed
                    \/ lost.pending_masters /\ ~undo.pending_masters
                       /\ undo.mdr.waiting_on_slave # {op.srcauth}
  IN  CASE unexpected -> Asserted(st, "master_failure")
        [] ~unexpected /\ who \in lost.mdr.waiting_on_slave /\ left.mdr.waiting_on_slave = {} ->
             wait_for_active_peer(left, who)
        [] OTHER -> left

handle_mds_failure(r, st, who) ==
  LET noted == [st EXCEPT !.resolve_gather = @ \cup {who},
                          !.delayed_resolve[who] = NoResolve,
                          !.ambiguous = @ /\ who # Master]
      mine == slave_failure(r, noted, who)
      asked == IF mine.mdr.live /\ ~mine.mdr.committing THEN master_failure(mine, who) ELSE mine
  IN  IF who \in asked.umaster.slaves
      THEN [asked EXCEPT !.umaster.recovering = TRUE, !.umaster.slaves = @ \ {who}]
      ELSE asked

(***************************************************************************)
(* MDS                                                                     *)
(***************************************************************************)
is_stale_message(st, m) == MapOf(st).inst[m.from] # m.inst

_dispatch(r, st, m) ==
  CASE is_stale_message(st, m) -> st
    [] ~is_stale_message(st, m) /\ m.kind \in {"PREP", "FINISH"} -> handle_slave_request(r, st, m)
    [] ~is_stale_message(st, m) /\ m.kind \in {"PREPACK", "WITNESSES", "COMMITTED"} ->
         handle_slave_request_reply(r, st, m)
    [] ~is_stale_message(st, m) /\ m.kind \in {"SLAVERESOLVE", "RESOLVE"} -> handle_resolve(r, st, m)
    [] OTHER -> handle_resolve_ack(r, st, m)

RetryMessages(r, st, waiters) == 
  LET Again(s, m) == IF s.asserted # "" THEN s ELSE _dispatch(r, s, m)
  IN  FoldLeft(Again, st, waiters)

(* resolve_start and active_start: the rank's own state changed. *)
StateChange(r, st) ==
  LET resolving == StateOf(st, r) = RESOLVE
      waiters == CASE resolving -> st.waiting_for_resolve
                   [] StateOf(st, r) = ACTIVE -> st.waiting_for_replay
                   [] OTHER -> <<>>
  IN  RetryMessages(r, [st EXCEPT !.want = StateOf(st, r),
                                  !.resolve_gather = IF resolving THEN Ranks \ {r} ELSE @,
                                  !.waiting_for_resolve = IF resolving THEN <<>> ELSE @,
                                  !.waiting_for_replay = IF StateOf(st, r) = ACTIVE THEN <<>> ELSE @],
                    waiters)

handle_mds_recovery(st, who) ==
  [st EXCEPT !.retries = @ + st.waiting_for_active_peer[who], !.waiting_for_active_peer[who] = 0]

(* The handling of the next map, in the order of the code. *)
NewMap(r) ==
  LET old == MapOf(mds[r])
      new == maps[mds[r].epoch + 1]
      Change(s) == IF old.state[r] # new.state[r] THEN StateChange(r, s) ELSE s
      Resolve(s) == IF new.state[r] >= RESOLVE /\ ~is_resolving(old) /\ is_resolving(new)
                    THEN send_resolves(r, s) ELSE s
      Recover(s, p) == IF /\ old.state[r] = ACTIVE /\ new.state[r] = ACTIVE
                          /\ p # r /\ old.state[p] # ACTIVE /\ new.state[p] = ACTIVE
                       THEN handle_mds_recovery(s, p) ELSE s
      Lose(s, p) == IF p # r /\ old.inst[p] # new.inst[p] THEN handle_mds_failure(r, s, p) ELSE s
      resolved == Resolve(Change([mds[r] EXCEPT !.epoch = @ + 1]))
  IN  FoldLeft(Lose, FoldLeft(Recover, resolved, RankSeq), RankSeq)

(***************************************************************************)
(* Steps                                                                   *)
(***************************************************************************)
Up(r) == mds[r].asserted = ""

(* What the handlers sent reaches the channels; what goes to an instance    *)
(* that is gone is lost.  A failed assertion ends the daemon.               *)
Step(r, st, chan) ==
  LET live(d) == SelectSeq(st.out[d], LAMBDA m : m.to = Newest.inst[d])
      sent(d) == [i \in DOMAIN live(d) |->
                    [kind |-> live(d)[i].kind, from |-> r, inst |-> Newest.inst[r],
                     epoch |-> live(d)[i].epoch]]
  IN  /\ mds' = [mds EXCEPT ![r] = [st EXCEPT !.out = [p \in Ranks |-> <<>>]]]
      /\ net' = [c \in DOMAIN chan |-> IF c[1] = r THEN chan[c] \o sent(c[2]) ELSE chan[c]]

Init == /\ op \in Ops
        /\ maps = <<[state |-> [r \in Ranks |-> ACTIVE], inst |-> [r \in Ranks |-> 1]]>>
        /\ disk = [r \in Ranks |-> "none"]
        /\ mds = [r \in Ranks |-> Booted(r, 1, ACTIVE)]
        /\ net = [c \in Ranks \X Ranks |-> <<>>]
        /\ fails = 0

(* The client's request, sent again to a new instance of the master that    *)
(* does not know it as completed.                                           *)
handle_client_request ==
  LET st == mds[Master]
  IN  /\ Up(Master)
      /\ StateOf(st, Master) = ACTIVE
      /\ disk[Master] = "none" /\ ~st.mdr.live
      /\ Step(Master, dispatch_client_request([st EXCEPT !.mdr.live = TRUE]), net)
      /\ UNCHANGED <<op, maps, disk, fails>>

(* C_MDS_RetryRequest, queued when the awaited peer became active. *)
RetryRequest ==
  /\ Up(Master) /\ mds[Master].retries > 0
  /\ Step(Master, dispatch_client_request([mds[Master] EXCEPT !.retries = @ - 1]), net)
  /\ UNCHANGED <<op, maps, disk, fails>>

(* A message is delivered after the map its sender sent ahead of it. *)
ms_dispatch(s, d) ==
  LET m == Head(net[<<s, d>>])
  IN  /\ Up(d) /\ net[<<s, d>>] # <<>>
      /\ m.epoch <= mds[d].epoch
      /\ Step(d, _dispatch(d, mds[d], [kind |-> m.kind, from |-> m.from, inst |-> m.inst]),
              [net EXCEPT ![<<s, d>>] = Tail(@)])
      /\ UNCHANGED <<op, maps, disk, fails>>

(* The first entry submitted is safe: its completion runs. *)
Logged(r, st, entry) ==
  CASE entry = "EUpdate" -> update_finish(r, st)
    [] entry = "ECommitted" -> _logged_master_commit(st)
    [] entry = "PREPARE" -> logged_slave(r, st)
    [] entry = "COMMIT" -> _committed_slave(st)
    [] entry = "COMMIT_resolve" -> send_message_mds(st, Master, "COMMITTED")
    [] entry = "ROLLBACK_resolve" -> finish_rollback(r, st)
    [] OTHER -> rollback_finish(r, st, entry = "ROLLBACK")

Durable(entry) ==
  CASE entry = "EUpdate" -> "updated"
    [] entry \in {"ECommitted", "COMMIT", "COMMIT_resolve"} -> "committed"
    [] entry = "PREPARE" -> "prepared"
    [] OTHER -> "rolledback"

LogSafe(r) ==
  LET entry == Head(mds[r].log)
  IN  /\ Up(r) /\ mds[r].log # <<>>
      /\ disk' = [disk EXCEPT ![r] = Durable(entry)]
      /\ Step(r, Logged(r, [mds[r] EXCEPT !.log = Tail(@)], entry), net)
      /\ UNCHANGED <<op, maps, fails>>

handle_mds_map(r) ==
  /\ Up(r) /\ mds[r].epoch < Len(maps)
  /\ Step(r, NewMap(r), net)
  /\ UNCHANGED <<op, maps, disk, fails>>

replay_done(r) ==
  /\ Up(r) /\ StateOf(mds[r], r) = REPLAY /\ mds[r].want = REPLAY
  /\ mds' = [mds EXCEPT ![r].want = RESOLVE]
  /\ UNCHANGED <<op, maps, net, disk, fails>>

(* The rejoin exchange (not modelled) ends once everybody has resolved. *)
rejoin_done(r) ==
  /\ Up(r) /\ StateOf(mds[r], r) = REJOIN /\ mds[r].want = REJOIN
  /\ \A p \in Ranks : mds[p].resolve_gather = {} /\ StateOf(mds[p], p) >= REJOIN
  /\ mds' = [mds EXCEPT ![r].want = ACTIVE]
  /\ UNCHANGED <<op, maps, net, disk, fails>>

(* The monitor grants the state a beacon asks for. *)
Publish(r) ==
  /\ Up(r) /\ mds[r].want > Newest.state[r]
  /\ maps' = Append(maps, [Newest EXCEPT !.state[r] = mds[r].want])
  /\ UNCHANGED <<op, mds, net, disk, fails>>

(* The daemon dies and a standby takes the rank.  Channels to the dead      *)
(* instance are lost.                                                       *)
Fail(r) ==
  /\ Up(r) /\ r \in op.mayfail
  /\ fails < op.maxfail /\ fails' = fails + 1
  /\ maps' = Append(maps, [Newest EXCEPT !.state[r] = REPLAY, !.inst[r] = @ + 1])
  /\ mds' = [mds EXCEPT ![r] = Booted(r, Len(maps) + 1, REPLAY)]
  /\ net' = [c \in DOMAIN net |-> IF c[2] = r THEN <<>> ELSE net[c]]
  /\ UNCHANGED <<op, disk>>

Next == \/ handle_client_request \/ RetryRequest
        \/ \E s, d \in Ranks : ms_dispatch(s, d)
        \/ \E r \in Ranks : \/ LogSafe(r) \/ handle_mds_map(r) \/ replay_done(r)
                            \/ rejoin_done(r) \/ Publish(r) \/ Fail(r)

Spec == Init /\ [][Next]_vars

(* Neither has crashed so far.                                              *)
MasterStayed == Newest.inst[Master] = 1
SourceStayed == op.srcauth = NoRank \/ Newest.inst[op.srcauth] = 1

AU == INSTANCE AtomicUpdate WITH
        witnesses <- op.journaled,
        master <- disk[Master],
        slave <- [s \in op.journaled |-> disk[s]]

(* The journals of the ranks implement AtomicUpdate: the master's EUpdate   *)
(* becomes durable only with all journaling witnesses prepared, a slave     *)
(* commits only after it and rolls back only before it.  That covers any    *)
(* one crash, and several of slaves, with two exceptions in which the code  *)
(* does lose atomicity.  When the authority of a rename's source crashes,   *)
(* "all witnesses will rollback" (MDCache::handle_mds_failure), but the ack *)
(* of one that has since rolled back may still be on its way: the master    *)
(* counts it as prepared and journals EUpdate.  And when the master crashes *)
(* and a slave that was journaling its commit does too, the master has      *)
(* forgotten the update (see below) and tells the slave to roll it back.    *)
AtomicUpdateSpec ==
  AU!Init /\ [][(SourceStayed /\ (MasterStayed \/ fails <= 1))' => [AU!Next]_(AU!vars)]_vars

(* "we need to make sure slaves journal commits before we forget we         *)
(* mastered them" (MDCache.cc, above log_master_commit): ECommitted in the  *)
(* master's journal means that nobody will ask it again, as long as the     *)
(* master itself has not crashed.  After a crash of the master it does not  *)
(* hold: a survivor that is journaling its commit has left the slave        *)
(* updates its resolve lists, so the new master takes it for committed.     *)
ForgottenOnlyWhenCommitted ==
  MasterStayed /\ disk[Master] = "committed" => \A s \in op.journaled : disk[s] = "committed"

(* While the master stays, no daemon fails an assertion of the handlers     *)
(* above, whoever else crashes: replies, commits and acks find the request  *)
(* or the uncommitted update they are about (request_get,                   *)
(* committed_master_slave, handle_resolve_ack, finish_rollback), and no     *)
(* slave gets a request while busy with another.  A new master may fail     *)
(* one: the ack of a slave that was journaling its PREPARE goes to it, is   *)
(* kept until it is active, and handle_slave_request_reply finds no request.*)
NoAssert == MasterStayed => \A r \in Ranks : Up(r)

(* No message, journal entry, map, request of a state or retry is left to   *)
(* be handled: nothing more happens by itself.                              *)
Quiet ==
  /\ \A c \in Ranks \X Ranks : net[c] = <<>>
  /\ \A r \in Ranks :
       LET st == mds[r]
       IN  /\ st.log = <<>> /\ st.epoch = Len(maps) /\ st.want <= Newest.state[r]
           /\ ~(Newest.state[r] = REPLAY /\ st.want = REPLAY)
           /\ st.retries = 0
  /\ ~ \E r \in Ranks : Newest.state[r] = REJOIN
       /\ \A p \in Ranks : mds[p].resolve_gather = {} /\ Newest.state[p] >= REJOIN
  /\ ~(Newest.state[Master] = ACTIVE /\ disk[Master] = "none" /\ ~mds[Master].mdr.live)

(* Unless the source authority of a rename crashes, nobody is left waiting: *)
(* when there is nothing more to do, every rank is active, the update is    *)
(* durable, all slaves have committed (their commit, or a resolve ack,      *)
(* reached them) and the master has forgotten the update                    *)
(* (maybe_resolve_finish, handle_mds_recovery, _logged_master_commit).  If  *)
(* it does crash, a witness told to abort while it journals its PREPARE     *)
(* never takes the ack as handled (the `aborted' branch of                  *)
(* handle_resolve_ack) nor sends its resolve, and the new source authority  *)
(* stays in resolve; but in no case is a slave left prepared.               *)
Settled ==
  Quiet => /\ \A s \in Ranks \ {Master} : disk[s] # "prepared"
           /\ SourceStayed => /\ \A r \in Ranks : Newest.state[r] = ACTIVE
                              /\ disk[Master] = "committed" /\ ~mds[Master].umaster.live
=============================================================================
