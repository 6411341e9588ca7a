----------------------------- MODULE ClientServer -----------------------------
(***************************************************************************)
(* Clients (MetaClient) and the MDS daemon of one rank (MetaServer), the   *)
(* connections between them, the journal on disk, the monitor that         *)
(* publishes the rank's state, and the crash of the daemon, whose place a  *)
(* standby takes.                                                          *)
(***************************************************************************)
EXTENDS MetaServer

CONSTANTS Programs,   \* the calls a client may make
          MaxEvents,  \* calls, crashes, messages with a push seq, sessions found
                      \* idle, renewals by tick() and timeouts, together
          MaxCrash    \* crashes

VARIABLES cl, sv, disk, maps, up, down, events,
          after     \* for a call, the calls that had returned when it was made

vars == <<cl, sv, disk, maps, up, down, events, after>>

Newest == maps[Len(maps)]

(* What the journal holds: the sessions, how often each was closed, and the *)
(* updates in their order.                                                  *)
EmptyDisk == [sess |-> [c \in Clients |-> [open |-> FALSE, completed |-> {}]],
              closed |-> [c \in Clients |-> 0], done |-> <<>>]

(* A file system that is up, and no client has mounted it yet. *)
Init ==
  /\ cl \in [Clients -> {NewClient(p) : p \in Programs}]
  /\ disk = EmptyDisk
  /\ sv = [Booted(EmptyDisk, 1) EXCEPT !.epoch = 1, !.state = ACTIVE, !.want = ACTIVE]
  /\ maps = <<[epoch |-> 1, state |-> ACTIVE, inst |-> 1]>>
  /\ up = [c \in Clients |-> <<>>]
  /\ down = [c \in Clients |-> <<>>]
  /\ after = [c \in Clients |-> [t \in Tids |-> {}]]
  /\ events = 0

(***************************************************************************)
(* Connections.  What is in flight on a connection is lost when either end *)
(* marks it down, and nothing reaches a daemon that was replaced.          *)
(***************************************************************************)
ClientStep(c, rest, new) ==
  /\ cl' = [cl EXCEPT ![c] = [new EXCEPT !.out = <<>>]]
  /\ up' = [up EXCEPT ![c] = SelectSeq(@ \o new.out,
                               LAMBDA m : m.con = new.sess.con /\ m.inst = sv.inst)]
  /\ down' = [down EXCEPT ![c] = SelectSeq(rest, LAMBDA m : m.con = new.sess.con)]
  /\ UNCHANGED <<sv, disk, maps>>

ServerStep(new) ==
  /\ sv' = [new EXCEPT !.out = [c \in Clients |-> <<>>]]
  /\ down' = [c \in Clients |-> down[c] \o SelectSeq(new.out[c], LAMBDA m : m.con \in {cl[c].sess.con} \ {0})]
  /\ UNCHANGED <<cl, maps, after>>

Event == events < MaxEvents /\ events' = events + 1

(***************************************************************************)
(* Client steps                                                            *)
(***************************************************************************)
Mounted(c) == cl[c].req[1].result = "ok"

(* The next call; tid 1 is mount's, the others are made once mounted. *)
Call(c, t) ==
  /\ cl[c].req[t].at = "new"
  /\ \A s \in Tids : s < t => cl[c].req[s].at # "new"
  /\ t # 1 => Mounted(c) /\ ~cl[c].unmounting
  /\ ClientStep(c, down[c], make_request_loop(StartRequest(cl[c], t), t))
  /\ after' = [after EXCEPT ![c][t] = {s \in Tids : cl[c].req[s].at = "done"}]
  /\ Event

Caller(c, t) ==
  /\ \/ /\ cl[c].req[t].at = "loop"
        /\ ClientStep(c, down[c], make_request_loop(cl[c], t))
     \/ /\ cl[c].req[t].at = "reply" /\ (cl[c].req[t].reply # "none" \/ cl[c].req[t].kick)
        /\ ClientStep(c, down[c], make_request_woken(cl[c], t))
  /\ UNCHANGED <<events, after>>

ClientDispatch(c) ==
  LET m == Head(down[c])
  IN  /\ cl[c].blocked = NoTid /\ down[c] # <<>>
      /\ ClientStep(c, Tail(down[c]),
           CASE m.k = "session" -> handle_client_session(cl[c], m)
             [] m.k = "reply" -> handle_client_reply(cl[c], m)
             [] m.k = "push" -> got_mds_push(cl[c])
             [] m.k = "reset" -> ms_handle_remote_reset(cl[c]))
      /\ UNCHANGED <<events, after>>

ClientMap(c) ==
  /\ cl[c].blocked = NoTid /\ cl[c].map.epoch < Len(maps)
  /\ ClientStep(c, down[c], handle_mds_map(cl[c], maps[cl[c].map.epoch + 1]))
  /\ UNCHANGED <<events, after>>

MountTimesOut(c) ==
  /\ ~Mounted(c) /\ cl[c].req[1].live /\ ~cl[c].req[1].aborted
  /\ ClientStep(c, down[c], tick_abort(cl[c]))
  /\ Event /\ UNCHANGED after

RenewCaps(c) ==
  /\ cl[c].sess.state # "none"
  /\ ClientStep(c, down[c], tick_renew(cl[c]))
  /\ Event /\ UNCHANGED after

KickStaleSessions(c) ==
  /\ cl[c].sess.state = "stale"
  /\ ClientStep(c, down[c], _kick_stale_sessions(cl[c]))
  /\ UNCHANGED <<events, after>>

Unmount(c) ==
  /\ Mounted(c)
  /\ cl[c].unmounting => mds_requests(cl[c]) = {} /\ cl[c].sess.state \notin {"none", "closing"}
  /\ ClientStep(c, down[c], unmount(cl[c]))
  /\ UNCHANGED <<events, after>>

(***************************************************************************)
(* Daemon steps                                                            *)
(***************************************************************************)
(* The connection of c's session, if it is to this daemon. *)
Con(c) == IF cl[c].sess.inst = sv.inst THEN cl[c].sess.con ELSE 0

ServerDispatch(c) ==
  /\ up[c] # <<>>
  /\ up' = [up EXCEPT ![c] = Tail(@)]
  /\ ServerStep(server_dispatch(sv, Head(up[c]) @@ [c |-> c]))
  /\ UNCHANGED <<disk, events>>

(* _advance_queues: a queued context retries the message it holds. *)
RunQueued ==
  /\ sv.finished # <<>>
  /\ ServerStep(server_dispatch([sv EXCEPT !.finished = Tail(@)], Head(sv.finished)))
  /\ UNCHANGED <<disk, up, events>>

Execute(mdr) ==
  /\ ~mdr.committing
  /\ \E alloc_ino \in IF MakesInode(mdr.what) THEN BOOLEAN ELSE {FALSE} :
       ServerStep(dispatch_client_request(sv, mdr, alloc_ino))
  /\ UNCHANGED <<disk, up, events>>

(* An entry reaches the disk. *)
OnDisk(d, e) ==
  CASE e.k = "open" -> [d EXCEPT !.sess[e.c].open = TRUE]
    [] e.k = "close" -> [d EXCEPT !.sess[e.c] = [open |-> FALSE, completed |-> {}],
                                  !.closed[e.c] = @ + 1]
    [] e.k = "update" ->
         [d EXCEPT !.done = Append(@, [c |-> e.c, t |-> e.mdr.t, session |-> d.closed[e.c]]),
                   !.sess[e.c].completed =
                      IF d.sess[e.c].open
                      THEN {x \in @ : x.t >= e.mdr.oldest}
                           \cup {[t |-> e.mdr.t, created |-> e.mdr.made]}
                      ELSE @]

JournalWrite ==
  /\ sv.log # <<>>
  /\ disk' = OnDisk(disk, Head(sv.log))
  /\ sv' = [sv EXCEPT !.log = Tail(@), !.safe = Append(@, Head(sv.log))]
  /\ UNCHANGED <<cl, maps, up, down, events, after>>

JournalSafe ==
  /\ sv.safe # <<>>
  /\ ServerStep(Logged([sv EXCEPT !.safe = Tail(@)], Head(sv.safe), Con(Head(sv.safe).c)))
  /\ UNCHANGED <<disk, up, events>>

ServerMap ==
  /\ sv.epoch < Len(maps)
  /\ ServerStep(server_handle_mds_map(sv, maps[sv.epoch + 1]))
  /\ UNCHANGED <<disk, up, events>>

ReplayDone ==
  /\ sv.state = REPLAY /\ sv.want = REPLAY
  /\ ServerStep(replay_done(sv)) /\ UNCHANGED <<disk, up, events>>

ReconnectTick ==
  /\ sv.state = RECONNECT /\ sv.gather # {}
  /\ ServerStep(reconnect_tick(sv)) /\ UNCHANGED <<disk, up, events>>

RejoinDone ==
  /\ sv.state = REJOIN /\ sv.want = REJOIN
  /\ ServerStep(rejoin_done(sv)) /\ UNCHANGED <<disk, up, events>>

(* The test at the end of MDS::_dispatch. *)
ClientReplayDone ==
  /\ sv.state = CLIENTREPLAY /\ sv.want = CLIENTREPLAY
  /\ sv.finished = <<>> /\ sv.replay_queue = <<>> /\ sv.active = {}
  /\ ServerStep(clientreplay_done(sv)) /\ UNCHANGED <<disk, up, events>>

(* find_idle_sessions runs in an active daemon. *)
SessionStale(c) ==
  /\ sv.state = ACTIVE /\ sv.sess[c].state = "open"
  /\ ServerStep(mark_stale(sv, c, Con(c))) /\ Event
  /\ UNCHANGED <<disk, up>>

SessionAutoclose(c) ==
  /\ sv.state = ACTIVE /\ sv.sess[c].state = "stale"
  /\ ServerStep(autoclose(sv, c)) /\ Event
  /\ UNCHANGED <<disk, up>>

(* A cap or lease message to a client. *)
Push(c) ==
  /\ sv.state = ACTIVE /\ sv.sess[c].state \in {"open", "stale"}
  /\ ServerStep(ServerSend([sv EXCEPT !.sess[c].push = @ + 1], c, Con(c), [k |-> "push"]))
  /\ Event /\ UNCHANGED <<disk, up>>

(***************************************************************************)
(* The monitor, and the crash                                              *)
(***************************************************************************)
Publish ==
  /\ sv.want > Newest.state
  /\ maps' = Append(maps, [epoch |-> Len(maps) + 1, state |-> sv.want, inst |-> sv.inst])
  /\ UNCHANGED <<cl, sv, disk, up, down, events, after>>

Crash ==
  /\ sv.inst <= MaxCrash /\ Event
  /\ sv' = [Booted(disk, sv.inst + 1) EXCEPT !.epoch = Len(maps) + 1]
  /\ maps' = Append(maps, [epoch |-> Len(maps) + 1, state |-> REPLAY, inst |-> sv.inst + 1])
  /\ up' = [c \in Clients |-> <<>>]
  /\ UNCHANGED <<cl, disk, down, after>>

(***************************************************************************)
(* Specification.  Work is what the threads of client and daemon do once   *)
(* they have something to do: a caller or the dispatch thread that is      *)
(* runnable, a message that arrived, the journal, a step of the boot, the  *)
(* reconnect timeout, the monitor.  Calls, crashes, timeouts and unmounts  *)
(* may never come.                                                         *)
(***************************************************************************)
ClientWork(c) ==
  \/ \E t \in Tids : Caller(c, t)
  \/ ClientDispatch(c) \/ ClientMap(c)

ClientEvent(c) ==
  \/ \E t \in Tids : Call(c, t)
  \/ MountTimesOut(c) \/ RenewCaps(c) \/ KickStaleSessions(c) \/ Unmount(c)

DaemonWork ==
  \/ \E c \in Clients : ServerDispatch(c)
  \/ \E mdr \in sv.active : Execute(mdr)
  \/ RunQueued \/ JournalWrite \/ JournalSafe \/ ServerMap
  \/ ReplayDone \/ ReconnectTick \/ RejoinDone \/ ClientReplayDone

DaemonEvent == Crash \/ \E c \in Clients : SessionStale(c) \/ SessionAutoclose(c) \/ Push(c)

Work == (\E c \in Clients : ClientWork(c)) \/ DaemonWork \/ Publish

Next == Work \/ (\E c \in Clients : ClientEvent(c)) \/ DaemonEvent

Spec == Init /\ [][Next]_vars

(***************************************************************************)
(* Properties                                                              *)
(***************************************************************************)
(* No assert of the modelled code fails on either side: an aborted request *)
(* has no reply, a reply finds a caller to take it, a session entry        *)
(* completes in the state it was written for, a close never counts more    *)
(* pushed messages than were sent.                                         *)
NoAssert == sv.asserted = "" /\ \A c \in Clients : cl[c].asserted = ""

Done(c, t) == {i \in DOMAIN disk.done : disk.done[i].c = c /\ disk.done[i].t = t}

(* Within one session no operation is journaled twice, however often it is  *)
(* resent: on the kick after a lost session, on the reconnect after a       *)
(* crash, as a retry or marked replayed (make_request; completed_requests). *)
OncePerSession ==
  \A i, j \in DOMAIN disk.done : disk.done[i] = disk.done[j] => i = j

GivenUp(c, t) == cl[c].req[t].got_unsafe /\ ~cl[c].req[t].live /\ ~cl[c].req[t].safe

(* A client told that an operation is safe forgets it; the operation is in  *)
(* the journal by then, across crashes, early replies and resends.  And an  *)
(* operation called after another had returned is never journaled before    *)
(* it, even when the daemon crashes with both and the client replays them   *)
(* (resend_unsafe_requests; clientreplay), unless the client lost the       *)
(* session and gave the first one up.                                       *)
DurableInOrder ==
  /\ \A c \in Clients, t \in Tids :
       cl[c].req[t].safe /\ MayWrite(cl[c].prog[t]) => Done(c, t) # {}
  /\ \A c \in Clients : \A t \in Tids : \A s \in after[c][t] :
       MayWrite(cl[c].prog[s]) /\ cl[c].req[s].result = "ok" /\ ~GivenUp(c, s) =>
          \A i \in Done(c, t) : \E j \in Done(c, s) : j < i

(* A daemon turns active only when what its connected clients saw done is   *)
(* done again: no call can find the file system without an operation that   *)
(* returned before (clientreplay_done; rejoin_done).                        *)
ReplayedBeforeActive ==
  sv.state = ACTIVE =>
    \A c \in InSessionMap(sv) :
      cl[c].sess.state = "open" /\ cl[c].sess.inst = sv.inst /\ sv.sess[c].state = "open" =>
        \A t \in Range(cl[c].unsafe) :
          Done(c, t) # {} \/ \E e \in Range(sv.log) : e.k = "update" /\ e.c = c /\ e.mdr.t = t

(* The three ways a call is known to hang.  The MDS closed the session: the *)
(* client waits for kick_stale_sessions.  A completed request that was not  *)
(* marked replayed is answered from the replay queue, and nothing takes the *)
(* next one.  A reply comes while its caller waits for a map: the dispatch  *)
(* thread waits for the caller, and maps wait for the dispatch thread.      *)
SessionLost(c) == cl[c].sess.state = "stale"
ReplayStalled == /\ sv.state = CLIENTREPLAY /\ sv.active = {} /\ sv.finished = <<>>
                 /\ sv.replay_queue # <<>>
DispatcherStuck(c) == cl[c].blocked # NoTid /\ cl[c].req[cl[c].blocked].at \in {"mdsmap", "open"}

(* A thread can run: the guards of the steps of client and daemon that      *)
(* handle what has come, which no timeout and no operator starts.           *)
ClientHasWork(c) ==
  \/ \E t \in Tids : LET rq == cl[c].req[t]
                     IN  rq.at = "loop" \/ (rq.at = "reply" /\ (rq.reply # "none" \/ rq.kick))
  \/ cl[c].blocked = NoTid /\ (down[c] # <<>> \/ cl[c].map.epoch < Len(maps))

DaemonHasWork ==
  \/ \E c \in Clients : up[c] # <<>>
  \/ \E mdr \in sv.active : ~mdr.committing
  \/ sv.finished # <<>> \/ sv.log # <<>> \/ sv.safe # <<>>
  \/ sv.epoch < Len(maps) \/ sv.want > Newest.state
  \/ sv.want = sv.state /\ sv.state \in {REPLAY, RECONNECT, REJOIN}
  \/ sv.want = sv.state /\ sv.state = CLIENTREPLAY /\ sv.replay_queue = <<>> /\ sv.active = {}

(* No call is forgotten: whatever crashes, lost sessions and reconnects     *)
(* came before, when no thread has anything left to do every call was       *)
(* answered and made safe, given up or timed out, except in those cases.    *)
NoCallHangs ==
  \/ \A c \in Clients : mds_requests(cl[c]) = {} \/ SessionLost(c) \/ DispatcherStuck(c)
  \/ ReplayStalled
  \/ \E c \in Clients : ClientHasWork(c)
  \/ DaemonHasWork
================================================================================
