------------------------------ MODULE MetaServer ------------------------------
(***************************************************************************)
(* The sessions and client requests of one MDS daemon (Server.cc, with     *)
(* MDS.cc for the states it boots through and MDCache.cc for the requests  *)
(* under way).  A handler is an operator from the daemon's record to its   *)
(* new value; what it sends collects in `out', one sequence per client.    *)
(*                                                                         *)
(* A session is in the SessionMap unless "closed"; `since' is the          *)
(* connection it was added on, so a message of an older connection belongs *)
(* to a session that is gone.  log holds journal entries submitted and not *)
(* yet written, safe those written whose completion has not run.  An       *)
(* operation is known by what decides its handling: "read" changes         *)
(* nothing, "mut" changes metadata, "mk" makes an inode, "create" opens    *)
(* the file it makes.                                                      *)
(***************************************************************************)
EXTENDS MetaClient

CONSTANTS Clients

NewMetaSession == [state |-> "closed", sseq |-> 0, push |-> 0, completed |-> {}, since |-> 0]

InSessionMap(sv) == {c \in Clients : sv.sess[c].state # "closed"}

MayWrite(op) == op # "read"
MakesInode(op) == op \in {"mk", "create"}

ServerAssert(sv, ok, what) == IF ok THEN sv ELSE [sv EXCEPT !.asserted = what]

(* Nothing leaves on the connections of a session that was killed. *)
ServerSend(sv, c, con, m) ==
  IF con < sv.sess[c].since THEN sv
  ELSE [sv EXCEPT !.out[c] = Append(@, m @@ [con |-> con])]

(* A daemon that takes the rank and has loaded the tables: the sessions and *)
(* the completed requests its journal holds.                                *)
Booted(disk, inst) ==
  [inst |-> inst, epoch |-> 0, state |-> REPLAY, want |-> REPLAY,
   sess |-> [c \in Clients |-> IF disk.sess[c].open
                               THEN [NewMetaSession EXCEPT !.state = "open",
                                                           !.completed = disk.sess[c].completed]
                               ELSE NewMetaSession],
   gather |-> {}, active |-> {}, log |-> <<>>, safe |-> <<>>, replay_queue |-> <<>>,
   finished |-> <<>>, waiting_for_active |-> <<>>, waiting_for_reconnect |-> <<>>,
   out |-> [c \in Clients |-> <<>>], asserted |-> ""]

(* The session of the connection a message came on: a killed one stays so   *)
(* for the connections it had.                                              *)
SessionOf(sv, m) ==
  IF m.con < sv.sess[m.c].since THEN [NewMetaSession EXCEPT !.state = "killing"] ELSE sv.sess[m.c]

have_completed_request(sess, t) == \E x \in sess.completed : x.t = t

set_state(sv, c, state) == [sv EXCEPT !.sess[c].state = state, !.sess[c].sseq = @ + 1]

Submit(sv, e) == [sv EXCEPT !.log = Append(@, e)]

request_state(sv, s) == [sv EXCEPT !.want = s]

queue_one_replay(sv) ==
  IF sv.replay_queue = <<>> THEN sv
  ELSE [sv EXCEPT !.finished = Append(@, Head(sv.replay_queue)), !.replay_queue = Tail(@)]

(***************************************************************************)
(* Requests under way (MDCache)                                            *)
(***************************************************************************)
request_cleanup(sv, mdr) ==
  LET gone == [sv EXCEPT !.active = @ \ {mdr}]
  IN  IF mdr.replay /\ gone.active = {} THEN queue_one_replay(gone) ELSE gone

(* A request already journaling is left to finish. *)
request_kill(sv, mdr) == IF mdr.committing THEN sv ELSE request_cleanup(sv, mdr)

KillRequests(sv, c) ==
  FoldSet(LAMBDA mdr, s : request_kill(s, mdr), sv, {x \in sv.active : x.c = c})

(***************************************************************************)
(* Sessions                                                                *)
(***************************************************************************)
journal_close_session(sv, c, state) ==
  LET set == set_state(sv, c, state)
  IN  KillRequests(Submit(set, [k |-> "close", c |-> c, sseq |-> set.sess[c].sseq]), c)

kill_session(sv, c) ==
  IF sv.sess[c].state \in {"opening", "open", "stale"} THEN journal_close_session(sv, c, "killing")
  ELSE ServerAssert(sv, sv.sess[c].state \in {"closing", "closed", "killing"}, "kill_session")

reconnect_gather_finish(sv) == request_state(sv, REJOIN)

request_open(sv, m) ==
  LET sess  == SessionOf(sv, m)
      added == IF sess.state = "closed"
               THEN [sv EXCEPT !.sess[m.c] = [NewMetaSession EXCEPT !.since = m.con]] ELSE sv
      set   == set_state(added, m.c, "opening")
  IN  IF sess.state \in {"opening", "open", "stale", "killing"} THEN sv
      ELSE Submit(set, [k |-> "open", c |-> m.c, sseq |-> set.sess[m.c].sseq])

request_renewcaps(sv, m) ==
  LET sess == SessionOf(sv, m)
      on   == IF sess.state = "stale" THEN set_state(sv, m.c, "open") ELSE sv
  IN  IF sess.state \in {"open", "stale"} THEN ServerSend(on, m.c, m.con, SessionMsg("RENEWCAPS", m.seq))
      ELSE sv

request_close(sv, m) ==
  LET sess == SessionOf(sv, m)
  IN  IF sess.state \in {"closed", "closing", "killing"} \/ m.seq < sess.push THEN sv
      ELSE ServerAssert(journal_close_session(sv, m.c, "closing"), m.seq = sess.push,
                        "handle_client_session: push seq")

server_handle_client_session(sv, m) ==
  CASE m.op = "REQUEST_OPEN" -> request_open(sv, m)
    [] m.op = "REQUEST_RENEWCAPS" -> request_renewcaps(sv, m)
    [] m.op = "REQUEST_CLOSE" -> request_close(sv, m)

(* con is the session's connection: the client's current one. *)
session_closed(sv, c, con) ==
  LET left == [sv EXCEPT !.gather = @ \ {c}]
      fin  == IF c \in sv.gather /\ left.gather = {} THEN reconnect_gather_finish(left) ELSE left
      killed == sv.sess[c].state = "killing"
      told == IF killed THEN [k |-> "reset"] ELSE SessionMsg("CLOSE", 0)
  IN  [ServerSend(fin, c, con, told) EXCEPT
         !.sess[c] = [NewMetaSession EXCEPT !.since = IF killed THEN con + 1 ELSE 0]]

_session_logged(sv, e, con) ==
  CASE sv.sess[e.c].sseq # e.sseq -> sv
    [] sv.sess[e.c].sseq = e.sseq /\ e.k = "open" ->
         ServerSend(ServerAssert(set_state(sv, e.c, "open"), sv.sess[e.c].state = "opening",
                                 "_session_logged: opening"),
                    e.c, con, SessionMsg("OPEN", 0))
    [] sv.sess[e.c].sseq = e.sseq /\ e.k = "close" ->
         ServerAssert(session_closed(sv, e.c, con), sv.sess[e.c].state \in {"closing", "killing"},
                      "_session_logged: closing")

(* The two halves of find_idle_sessions for one session. *)
mark_stale(sv, c, con) ==
  ServerSend(set_state(sv, c, "stale"), c, con, SessionMsg("STALE", sv.sess[c].push))

autoclose(sv, c) == kill_session(sv, c)

(***************************************************************************)
(* Reconnect                                                               *)
(***************************************************************************)
reconnect_clients(sv) ==
  LET gather == InSessionMap(sv)
  IN  IF gather = {} THEN reconnect_gather_finish(sv) ELSE [sv EXCEPT !.gather = gather]

handle_client_reconnect(sv, m) ==
  LET deny == sv.state # RECONNECT \/ SessionOf(sv, m).state = "closed"
      left == [ServerSend(sv, m.c, m.con, SessionMsg("OPEN", 0)) EXCEPT !.gather = @ \ {m.c}]
  IN  IF sv.state # RECONNECT /\ sv.want = RECONNECT
      THEN [sv EXCEPT !.waiting_for_reconnect = Append(@, m)]
      ELSE IF deny THEN ServerSend(sv, m.c, m.con, SessionMsg("CLOSE", 0))
      ELSE IF left.gather = {} THEN reconnect_gather_finish(left) ELSE left

reconnect_tick(sv) ==
  LET killed == FoldSet(LAMBDA c, s : kill_session(s, c), sv, sv.gather)
  IN  reconnect_gather_finish([killed EXCEPT !.gather = {}])

(***************************************************************************)
(* Requests                                                                *)
(***************************************************************************)
trim_completed_requests(sv, c, oldest) ==
  [sv EXCEPT !.sess[c].completed = {x \in @ : x.t >= oldest}]

ReplyMsg(t, safe) == [k |-> "reply", t |-> t, safe |-> safe]

(* The answer from the list of completed requests alone, without a trace. *)
AnswerCompleted(sv, m) ==
  LET told == ServerSend(sv, m.c, m.con, ReplyMsg(m.t, TRUE))
  IN  IF m.replay THEN queue_one_replay(told) ELSE told

(* An operation that completed is answered without being done again: at     *)
(* once, or, when the client needs the inode it made, as a lookup or open.  *)
AnswersAtOnce(sv, m, created) ==
  m.replay \/ ((~created \/ sv.state # CLIENTREPLAY) /\ m.what # "create")

request_start(sv, m, done) ==
  IF \E x \in sv.active : x.c = m.c /\ x.t = m.t THEN sv
  ELSE [sv EXCEPT !.active = @ \cup
          {[c |-> m.c, t |-> m.t, what |-> m.what, con |-> m.con,
            since |-> sv.sess[m.c].since, replay |-> m.replay, has_completed |-> done,
            oldest |-> m.oldest, committing |-> FALSE, made |-> FALSE]}]

(* Mutant: only replayed requests are looked up among the completed. *)
handle_client_request_NoRetry(sv, m) ==
  LET sess == SessionOf(sv, m)
      done == m.replay /\ have_completed_request(sess, m.t)
  IN  IF sess.state \in {"closed", "closing", "killing"} THEN sv
      ELSE IF done THEN AnswerCompleted(sv, m)
      ELSE request_start(trim_completed_requests(sv, m.c, m.oldest), m, done)

handle_client_request(sv, m) ==
  LET sess == SessionOf(sv, m)
      done == (m.replay \/ m.retry > 0) /\ have_completed_request(sess, m.t)
      created == \E x \in sess.completed : x.t = m.t /\ x.created
  IN  IF sess.state \in {"closed", "closing", "killing"} THEN sv
      ELSE IF done /\ AnswersAtOnce(sv, m, created) THEN AnswerCompleted(sv, m)
      ELSE request_start(trim_completed_requests(sv, m.c, m.oldest), m, done)

reply_client_request(sv, mdr) ==
  LET op    == mdr.what
      mine  == sv.sess[mdr.c].since = mdr.since /\ sv.sess[mdr.c].state # "closed"
      looked == mdr.has_completed /\ op = "mk"     \* it was made a lookup
      noted == IF MayWrite(op) /\ ~looked /\ mine
               THEN [sv EXCEPT !.sess[mdr.c].completed =
                       {x \in @ : x.t # mdr.t} \cup {[t |-> mdr.t, created |-> mdr.made]}]
               ELSE sv
      told  == ServerSend(noted, mdr.c, mdr.con, ReplyMsg(mdr.t, TRUE))
      next  == IF mdr.has_completed /\ sv.state = CLIENTREPLAY THEN queue_one_replay(told) ELSE told
  IN  request_cleanup(next, mdr)

early_reply(sv, mdr, alloc_ino) ==
  IF alloc_ino \/ mdr.replay THEN sv ELSE ServerSend(sv, mdr.c, mdr.con, ReplyMsg(mdr.t, FALSE))

journal_and_reply(sv, mdr, alloc_ino) ==
  LET now    == [mdr EXCEPT !.committing = TRUE, !.made = MakesInode(mdr.what)]
      early  == early_reply([sv EXCEPT !.active = (@ \ {mdr}) \cup {now}], mdr, alloc_ino)
      logged == Submit(early, [k |-> "update", c |-> mdr.c, mdr |-> now])
  IN  IF mdr.replay THEN queue_one_replay(logged) ELSE logged

(* The operation has its locks: it is answered from the cache or journaled. *)
dispatch_client_request(sv, mdr, alloc_ino) ==
  IF mdr.has_completed \/ ~MayWrite(mdr.what) THEN reply_client_request(sv, mdr)
  ELSE journal_and_reply(sv, mdr, alloc_ino)

(***************************************************************************)
(* Messages and the states a daemon boots through                          *)
(***************************************************************************)
ForReplay(sv, m) ==
  m.replay \/ (m.retry > 0 /\ have_completed_request(SessionOf(sv, m), m.t))

WaitsForActive(sv, m) ==
  /\ sv.state # ACTIVE
  /\ ~(/\ sv.state = CLIENTREPLAY
       /\ \/ m.k = "session" /\ m.op # "REQUEST_CLOSE"
          \/ m.k = "request" /\ (m.replay \/ have_completed_request(SessionOf(sv, m), m.t)))

server_dispatch(sv, m) ==
  CASE m.k = "reconnect" -> handle_client_reconnect(sv, m)
    [] m.k = "request" /\ sv.state # ACTIVE /\ RECONNECT \in {sv.state, sv.want} /\ ForReplay(sv, m) ->
         [sv EXCEPT !.replay_queue = Append(@, m)]
    [] m.k # "reconnect"
       /\ ~(m.k = "request" /\ sv.state # ACTIVE /\ RECONNECT \in {sv.state, sv.want} /\ ForReplay(sv, m)) ->
         IF WaitsForActive(sv, m) THEN [sv EXCEPT !.waiting_for_active = Append(@, m)]
         ELSE IF m.k = "session" THEN server_handle_client_session(sv, m)
         ELSE handle_client_request(sv, m)

(* The completion of a journal entry. *)
Logged(sv, e, con) ==
  IF e.k = "update" THEN reply_client_request(sv, e.mdr) ELSE _session_logged(sv, e, con)

replay_done(sv) == request_state(sv, RECONNECT)

rejoin_done(sv) == request_state(sv, IF sv.replay_queue = <<>> THEN ACTIVE ELSE CLIENTREPLAY)

clientreplay_done(sv) == request_state(sv, ACTIVE)

reconnect_start(sv) ==
  FoldLeft(server_dispatch, [reconnect_clients(sv) EXCEPT !.waiting_for_reconnect = <<>>],
           sv.waiting_for_reconnect)

active_start(sv) ==
  FoldLeft(server_dispatch, [sv EXCEPT !.waiting_for_active = <<>>], sv.waiting_for_active)

server_handle_mds_map(sv, m) ==
  LET new == [sv EXCEPT !.epoch = m.epoch, !.state = m.state]
  IN  CASE m.state = sv.state -> new
        [] m.state # sv.state /\ m.state = RECONNECT -> reconnect_start(new)
        [] m.state # sv.state /\ m.state = CLIENTREPLAY -> queue_one_replay(new)
        [] m.state # sv.state /\ m.state = ACTIVE -> active_start(new)
        [] OTHER -> new
================================================================================
