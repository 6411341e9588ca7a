------------------------------ MODULE MetaClient ------------------------------
(***************************************************************************)
(* The requests and the session a client (Client.cc) keeps with one rank.  *)
(* A handler is an operator from the client's record to its new value; the *)
(* messages it sends collect in `out'.                                     *)
(*                                                                         *)
(* Every request has a caller thread, which runs make_request under        *)
(* client_lock and gives the lock up only where it waits; `at' says where. *)
(* Messages are handled by one dispatch thread, which waits inside         *)
(* handle_client_reply for the caller to take the reply: `blocked' is the  *)
(* tid it waits for.                                                       *)
(*                                                                         *)
(* A connection is a number, 0 when it is marked down.  Caps, leases and   *)
(* the trace of a reply are in other modules; one rank is modelled, so     *)
(* there are no forwards and no export targets to connect to.              *)
(***************************************************************************)
EXTENDS Naturals, Sequences, FiniteSets, FiniteSetsExt, SequencesExt

CONSTANTS Tids      \* 1 .. n; 1 is the getattr of mount()

REPLAY       == 1
RECONNECT    == 2
REJOIN       == 3
CLIENTREPLAY == 4
ACTIVE       == 5

NoTid == 0

NoSession == [state |-> "none", con |-> 0, inst |-> 0, seq |-> 0]

NewRequest == [at |-> "new", live |-> FALSE, retry_attempt |-> 0, sent |-> FALSE,
               oldest |-> 0, got_unsafe |-> FALSE, reply |-> "none", kick |-> FALSE,
               aborted |-> FALSE, result |-> "none", safe |-> FALSE]

(* prog[t] is the operation of the t-th call. *)
NewClient(prog) ==
             [prog |-> prog, map |-> [epoch |-> 1, state |-> ACTIVE, inst |-> 1],
              sess |-> NoSession, last_con |-> 0, req |-> [t \in Tids |-> NewRequest],
              unsafe |-> <<>>, blocked |-> NoTid, unmounting |-> FALSE,
              out |-> <<>>, asserted |-> ""]

mds_requests(cl) == {t \in Tids : cl.req[t].live}

ClientAssert(cl, ok, what) == IF ok THEN cl ELSE [cl EXCEPT !.asserted = what]

(* On the session's connection; nothing leaves a connection marked down. *)
ClientSend(cl, m) ==
  IF cl.sess.con = 0 THEN cl
  ELSE [cl EXCEPT !.out = Append(@, m @@ [con |-> cl.sess.con, inst |-> cl.sess.inst])]

SessionMsg(op, seq) == [k |-> "session", op |-> op, seq |-> seq]

get_connection(cl) ==
  [cl EXCEPT !.last_con = @ + 1, !.sess.con = cl.last_con + 1, !.sess.inst = cl.map.inst]

(***************************************************************************)
(* Callers                                                                 *)
(***************************************************************************)
(* Threads waiting at `where' run their loop again. *)
SignalAll(cl, where) ==
  [cl EXCEPT !.req = [t \in Tids |-> IF @[t].at = where THEN [@[t] EXCEPT !.at = "loop"]
                                     ELSE @[t]]]

build_client_request(cl, t) ==
  [k |-> "request", t |-> t, what |-> cl.prog[t], retry |-> cl.req[t].retry_attempt,
   oldest |-> cl.req[t].oldest, replay |-> FALSE]

(* Mutant: a request resent after its unsafe reply is not marked replayed. *)
send_request_NotMarked(cl, t) ==
  ClientSend([cl EXCEPT !.req[t].retry_attempt = @ + 1, !.req[t].sent = TRUE],
             build_client_request(cl, t))

send_request(cl, t) ==
  ClientSend([cl EXCEPT !.req[t].retry_attempt = @ + 1, !.req[t].sent = TRUE],
             [build_client_request(cl, t) EXCEPT !.replay = cl.req[t].got_unsafe])

have_open_session(cl) == cl.sess.state \in {"open", "stale"}

_open_mds_session(cl) ==
  LET conn == get_connection(ClientAssert(cl, cl.sess.state = "none", "_open_mds_session"))
  IN  ClientSend([conn EXCEPT !.sess.state = "opening", !.sess.seq = 0],
                 SessionMsg("REQUEST_OPEN", 0))

(* Mutant: does not look for a session that is being opened. *)
_get_or_open_mds_session_Again(cl) == _open_mds_session(cl)

_get_or_open_mds_session(cl) == IF cl.sess.state # "none" THEN cl ELSE _open_mds_session(cl)

(* The start of make_request: the tid, and the oldest request outstanding. *)
StartRequest(cl, t) ==
  [cl EXCEPT !.req[t].live = TRUE, !.req[t].at = "loop",
             !.req[t].oldest = Min(mds_requests(cl) \cup {t})]

(* The end of make_request.  The dispatch thread, kicked back, goes on:     *)
(* after a safe reply the request is gone.                                  *)
TakeReply(cl, t) ==
  LET safe == cl.req[t].reply = "safe"
      done == [cl EXCEPT !.req[t].at = "done", !.req[t].reply = "none",
                         !.req[t].result = "ok", !.blocked = NoTid,
                         !.req[t].live = @ /\ ~safe, !.req[t].safe = @ \/ safe]
  IN  ClientAssert(done, cl.blocked = t, "make_request: no dispatch_cond")

RequestAborted(cl, t) ==
  ClientAssert([cl EXCEPT !.req[t].at = "done", !.req[t].live = FALSE,
                          !.req[t].result = "timedout"],
               ~cl.req[t].got_unsafe, "make_request: aborted after a reply")

(* The loop of make_request, from its top to where it waits.  On a session *)
(* that is closing the loop spins.                                          *)
make_request_loop(cl, t) ==
  LET opened == IF have_open_session(cl) THEN cl ELSE _get_or_open_mds_session(cl)
      sent   == [send_request(opened, t) EXCEPT !.req[t].kick = FALSE]
  IN  IF cl.req[t].aborted
      THEN IF cl.req[t].reply # "none" THEN TakeReply(cl, t) ELSE RequestAborted(cl, t)
      ELSE IF cl.map.state # ACTIVE THEN [cl EXCEPT !.req[t].at = "mdsmap"]
      ELSE IF opened.sess.state = "opening" THEN [opened EXCEPT !.req[t].at = "open"]
      ELSE IF ~have_open_session(opened) THEN cl
      ELSE IF cl.req[t].reply # "none" THEN TakeReply(sent, t)
      ELSE [sent EXCEPT !.req[t].at = "reply"]

(* The wait for reply or kick at the bottom of the loop. *)
make_request_woken(cl, t) ==
  IF cl.req[t].reply # "none" THEN TakeReply(cl, t) ELSE make_request_loop(cl, t)

(***************************************************************************)
(* Sessions                                                                *)
(***************************************************************************)
(* Callers are kicked; unsafe requests are given up. *)
kick_requests_closed(cl) ==
  [cl EXCEPT !.unsafe = <<>>, !.req = [t \in Tids |->
     IF cl.req[t].live /\ cl.req[t].sent
     THEN [cl.req[t] EXCEPT !.kick = @ \/ cl.req[t].at \in {"loop", "mdsmap", "open", "reply"},
                            !.live = @ /\ ~cl.req[t].got_unsafe]
     ELSE cl.req[t]]]

_closed_mds_session(cl) ==
  LET woken == SignalAll([cl EXCEPT !.sess.state = "closed", !.sess.con = 0], "open")
  IN  [kick_requests_closed(woken) EXCEPT !.sess = NoSession]

_close_mds_session(cl) ==
  ClientSend([cl EXCEPT !.sess.state = "closing"], SessionMsg("REQUEST_CLOSE", cl.sess.seq))

(* The end of unmount(): requests done, sessions are closed. *)
unmount(cl) ==
  LET going == [cl EXCEPT !.unmounting = TRUE]
  IN  IF mds_requests(cl) = {} /\ cl.sess.state \notin {"none", "closing"}
      THEN _close_mds_session(going) ELSE going

renew_caps(cl) == ClientSend(cl, SessionMsg("REQUEST_RENEWCAPS", 0))

handle_client_session(cl, m) ==
  CASE m.op = "OPEN" ->
         SignalAll([renew_caps(cl) EXCEPT !.sess.state = "open"], "open")
    [] m.op = "CLOSE" -> _closed_mds_session(cl)
    [] m.op = "STALE" -> renew_caps(cl)
    [] m.op = "RENEWCAPS" -> cl

_kick_stale_sessions(cl) == IF cl.sess.state = "stale" THEN _closed_mds_session(cl) ELSE cl

got_mds_push(cl) ==
  LET pushed == [cl EXCEPT !.sess.seq = @ + 1]
  IN  IF cl.sess.state = "closing"
      THEN ClientSend(pushed, SessionMsg("REQUEST_CLOSE", pushed.sess.seq)) ELSE pushed

(* The MDS has dropped the connection and everything on it. *)
ms_handle_remote_reset(cl) ==
  CASE cl.sess.state = "closing" -> _closed_mds_session(cl)
    [] cl.sess.state = "opening" ->     \* waiters are moved to the new session
         LET closed == kick_requests_closed([cl EXCEPT !.sess.con = 0])
         IN  _open_mds_session([closed EXCEPT !.sess = NoSession])
    [] cl.sess.state = "open" -> [cl EXCEPT !.sess.state = "stale"]
    [] OTHER -> cl

(***************************************************************************)
(* Replies                                                                 *)
(***************************************************************************)
(* Mutant: the requests to replay are kept in the wrong order. *)
handle_client_reply_Front(cl, m) ==
  LET rq    == cl.req[m.t]
      first == [cl EXCEPT !.req[m.t].reply = IF m.safe THEN "safe" ELSE "unsafe",
                          !.req[m.t].got_unsafe = ~m.safe, !.blocked = m.t,
                          !.unsafe = IF m.safe THEN @ ELSE <<m.t>> \o @]
      clean == [cl EXCEPT !.req[m.t].live = FALSE, !.req[m.t].safe = TRUE,
                          !.unsafe = SelectSeq(@, LAMBDA t : t # m.t)]
  IN  CASE ~rq.live \/ (rq.got_unsafe /\ ~m.safe) -> cl
        [] rq.live /\ rq.got_unsafe /\ m.safe -> clean
        [] rq.live /\ ~rq.got_unsafe -> first

handle_client_reply(cl, m) ==
  LET rq    == cl.req[m.t]
      first == [cl EXCEPT !.req[m.t].reply = IF m.safe THEN "safe" ELSE "unsafe",
                          !.req[m.t].got_unsafe = ~m.safe, !.blocked = m.t,
                          !.unsafe = IF m.safe THEN @ ELSE Append(@, m.t)]
      clean == [cl EXCEPT !.req[m.t].live = FALSE, !.req[m.t].safe = TRUE,
                          !.unsafe = SelectSeq(@, LAMBDA t : t # m.t)]
  IN  CASE ~rq.live \/ (rq.got_unsafe /\ ~m.safe) -> cl
        [] rq.live /\ rq.got_unsafe /\ m.safe ->
             ClientAssert(clean, rq.reply = "none", "handle_client_reply: reply")
        [] rq.live /\ ~rq.got_unsafe ->
             ClientAssert(first, rq.reply = "none", "handle_client_reply: reply")

(***************************************************************************)
(* MDS recovery                                                            *)
(***************************************************************************)
SendAll(cl, ts) == FoldLeft(send_request, cl, ts)

OldRequests(cl) ==
  {t \in mds_requests(cl) : ~cl.req[t].got_unsafe /\ cl.req[t].sent /\ cl.req[t].retry_attempt > 0}

(* Mutant: only the requests with an unsafe reply are resent. *)
resend_unsafe_requests_Only(cl) == SendAll(cl, cl.unsafe)

(* First those with an unsafe reply, in the order of the replies, then the  *)
(* others that were sent.                                                   *)
resend_unsafe_requests(cl) ==
  SendAll(SendAll(cl, cl.unsafe), SetToSortSeq(OldRequests(cl), <))

send_reconnect(cl) ==
  ClientSend(resend_unsafe_requests([cl EXCEPT !.sess.seq = 0]), [k |-> "reconnect"])

kick_requests(cl) ==
  SendAll(cl, SetToSortSeq({t \in mds_requests(cl) : /\ ~cl.req[t].got_unsafe /\ cl.req[t].sent
                                                     /\ cl.req[t].retry_attempt = 0}, <))

(* One session of handle_mds_map: the daemon has changed or its state has. *)
SessionOnMap(cl, old) ==
  LET down == IF cl.sess.inst # cl.map.inst THEN [cl EXCEPT !.sess.con = 0, !.sess.inst = cl.map.inst]
              ELSE cl
      rec  == IF cl.map.state = RECONNECT THEN send_reconnect(get_connection(down)) ELSE down
  IN  IF cl.sess.inst = cl.map.inst /\ cl.map.state = old.state THEN cl
      ELSE IF cl.map.state >= ACTIVE /\ old.state < ACTIVE
           THEN SignalAll(kick_requests(rec), "open") ELSE rec

handle_mds_map(cl, m) ==
  LET new == [cl EXCEPT !.map = m]
  IN  IF m.epoch < cl.map.epoch THEN cl
      ELSE SignalAll(IF new.sess.state = "none" THEN new ELSE SessionOnMap(new, cl.map), "mdsmap")

(* The part of tick() that gives up a mount, and its renewal of caps. *)
tick_abort(cl) ==
  LET t == Min(mds_requests(cl))
      kicked == [cl EXCEPT !.req[t].aborted = TRUE, !.req[t].kick = TRUE]
  IN  SignalAll(SignalAll(kicked, "mdsmap"), "open")

tick_renew(cl) == IF cl.sess.state # "none" /\ cl.map.state >= REJOIN THEN renew_caps(cl) ELSE cl
================================================================================
