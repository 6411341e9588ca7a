------------------------------ MODULE Dispatch ------------------------------
(***************************************************************************)
(* How an MDS takes in the messages of its peers (MDS::_dispatch), sets    *)
(* them aside while its beacons go unanswered (waiting_for_nolaggy), and   *)
(* runs the contexts its handlers queue (finished_queue, ProgressThread).  *)
(*                                                                         *)
(* mds_lock covers a whole dispatch, but the beacon has a lock of its own: *)
(* `laggy' may change between any two steps of a dispatch, and every       *)
(* is_laggy() call is a step of its own.  Three threads take the lock: the *)
(* messenger's, the timer's (tick) and the progress thread.                *)
(***************************************************************************)
EXTENDS Integers, Sequences, SequencesExt

CONSTANTS Peers,      \* the other MDSs
          MaxSent,    \* bound: messages of one peer
          MaxFail     \* bound: failures of peers

VARIABLES sent,       \* peer -> how many messages it has sent
          inst,       \* peer -> its instance in our MDSMap
          net,        \* peer -> the messages under way, in order
          laggy,      \* what Beacon::is_laggy() answers
          pc,         \* "idle" (mds_lock free), "advance" or "deferred"
          waiting_for_nolaggy,
          finished_queue, \* the number of queued contexts
          awake,      \* the progress thread is not in cond.Wait
          handled,    \* history: the messages handled, in order
          dropped     \* history: the messages dropped as stale

vars == <<sent, inst, net, laggy, pc, waiting_for_nolaggy, finished_queue,
          awake, handled, dropped>>

Failures == FoldLeft(LAMBDA n, p : n + inst[p], 0, SetToSeq(Peers))

Init ==
  /\ sent = [p \in Peers |-> 0]
  /\ inst = [p \in Peers |-> 0]
  /\ net = [p \in Peers |-> <<>>]
  /\ laggy = FALSE
  /\ pc = "idle"
  /\ waiting_for_nolaggy = <<>>
  /\ finished_queue = 0
  /\ awake = TRUE
  /\ handled = <<>>
  /\ dropped = {}

(* A peer sends its next message (its instance is the current one).         *)
Send(p) ==
  /\ sent[p] < MaxSent
  /\ sent' = [sent EXCEPT ![p] = @ + 1]
  /\ net' = [net EXCEPT ![p] = Append(@, [from |-> p, inst |-> inst[p],
                                          seq |-> sent[p] + 1])]
  /\ UNCHANGED <<inst, laggy, pc, waiting_for_nolaggy, finished_queue,
                 awake, handled, dropped>>

(* The answers to the beacons stop coming, or come again.                   *)
BeaconChanges ==
  /\ laggy' = ~laggy
  /\ UNCHANGED <<sent, inst, net, pc, waiting_for_nolaggy, finished_queue,
                 awake, handled, dropped>>

(* handle_core_message: an MDSMap is handled whether we are laggy or not.   *)
(* In this one the peer has been replaced.                                  *)
NewMap(p) ==
  /\ pc = "idle" /\ Failures < MaxFail
  /\ inst' = [inst EXCEPT ![p] = @ + 1]
  /\ pc' = "advance"
  /\ UNCHANGED <<sent, net, laggy, waiting_for_nolaggy, finished_queue, awake,
                 handled, dropped>>

is_stale_message(m) == m.inst # inst[m.from]

(* handle_deferrable_message: the handler may queue a context, which wakes  *)
(* the progress thread.                                                     *)
handle_deferrable_message(m) ==
  /\ handled' = Append(handled, m)
  /\ \/ UNCHANGED <<finished_queue, awake>>
     \/ /\ finished_queue < 1
        /\ finished_queue' = finished_queue + 1
        /\ awake' = TRUE

(* Mutant: a message is dropped rather than deferred.                       *)
_dispatch_Drops(p) ==
  /\ pc = "idle" /\ net[p] # <<>>
  /\ LET m == Head(net[p])
     IN /\ net' = [net EXCEPT ![p] = Tail(@)]
        /\ IF is_stale_message(m)
           THEN /\ dropped' = dropped \cup {m}
                /\ UNCHANGED <<pc, waiting_for_nolaggy, finished_queue, awake, handled>>
           ELSE /\ pc' = "advance"
                /\ UNCHANGED <<dropped, waiting_for_nolaggy>>
                /\ IF laggy THEN UNCHANGED <<finished_queue, awake, handled>>
                   ELSE handle_deferrable_message(m)
  /\ UNCHANGED <<sent, inst, laggy>>

_dispatch(p) ==
  /\ pc = "idle" /\ net[p] # <<>>
  /\ LET m == Head(net[p])
     IN /\ net' = [net EXCEPT ![p] = Tail(@)]
        /\ IF is_stale_message(m)
           THEN /\ dropped' = dropped \cup {m}
                /\ UNCHANGED <<pc, waiting_for_nolaggy, finished_queue, awake, handled>>
           ELSE /\ pc' = "advance"
                /\ UNCHANGED dropped
                /\ IF laggy
                   THEN /\ waiting_for_nolaggy' = Append(waiting_for_nolaggy, m)
                        /\ UNCHANGED <<finished_queue, awake, handled>>
                   ELSE /\ handle_deferrable_message(m)
                        /\ UNCHANGED waiting_for_nolaggy
  /\ UNCHANGED <<sent, inst, laggy>>
-----------------------------------------------------------------------------
(* _advance_queues: first the contexts, then the messages set aside.        *)
RunContext ==
  /\ pc = "advance" /\ finished_queue > 0
  /\ finished_queue' = finished_queue - 1
  /\ UNCHANGED <<sent, inst, net, laggy, pc, waiting_for_nolaggy, awake,
                 handled, dropped>>

ContextsDone ==
  /\ pc = "advance" /\ finished_queue = 0
  /\ pc' = "deferred"
  /\ UNCHANGED <<sent, inst, net, laggy, waiting_for_nolaggy,
                 finished_queue, awake, handled, dropped>>

(* Mutant: a message set aside is not looked at again for staleness.        *)
HandleDeferred_NoCheck ==
  /\ pc = "deferred" /\ waiting_for_nolaggy # <<>> /\ ~laggy
  /\ waiting_for_nolaggy' = Tail(waiting_for_nolaggy)
  /\ handle_deferrable_message(Head(waiting_for_nolaggy))
  /\ UNCHANGED <<sent, inst, net, laggy, pc, dropped>>

HandleDeferred ==
  /\ pc = "deferred" /\ waiting_for_nolaggy # <<>> /\ ~laggy
  /\ waiting_for_nolaggy' = Tail(waiting_for_nolaggy)
  /\ LET old == Head(waiting_for_nolaggy)
     IN IF is_stale_message(old)
        THEN /\ dropped' = dropped \cup {old}
             /\ UNCHANGED <<finished_queue, awake, handled>>
        ELSE /\ handle_deferrable_message(old)
             /\ UNCHANGED dropped
  /\ UNCHANGED <<sent, inst, net, laggy, pc>>

(* The lock is released: at the end of the dispatch, or in cond.Wait or the *)
(* next turn of the progress thread.                                        *)
QueuesAdvanced ==
  /\ pc = "deferred" /\ (waiting_for_nolaggy = <<>> \/ laggy)
  /\ pc' = "idle"
  /\ UNCHANGED <<sent, inst, net, laggy, waiting_for_nolaggy,
                 finished_queue, awake, handled, dropped>>
-----------------------------------------------------------------------------
(* ProgressThread::entry: sleep while there is nothing it may do.           *)
ProgressThread ==
  /\ pc = "idle" /\ awake
  /\ IF finished_queue = 0 /\ (waiting_for_nolaggy = <<>> \/ laggy)
     THEN awake' = FALSE /\ UNCHANGED pc
     ELSE pc' = "advance" /\ UNCHANGED awake
  /\ UNCHANGED <<sent, inst, net, laggy, waiting_for_nolaggy, finished_queue,
                 handled, dropped>>

(* Mutant: tick does not wake the progress thread.                          *)
tick_NoSignal ==
  /\ pc = "idle" /\ ~laggy /\ ~awake
  /\ UNCHANGED vars

(* MDS::tick bails out while laggy, and otherwise wakes the progress thread *)
(* (the rest of the tick is not about the queues).                          *)
tick ==
  /\ pc = "idle" /\ ~laggy
  /\ awake' = TRUE
  /\ UNCHANGED <<sent, inst, net, laggy, pc, waiting_for_nolaggy,
                 finished_queue, handled, dropped>>

Next ==
  \/ \E p \in Peers : Send(p) \/ NewMap(p) \/ _dispatch(p)
  \/ BeaconChanges
  \/ RunContext \/ ContextsDone \/ HandleDeferred \/ QueuesAdvanced
  \/ ProgressThread
  \/ tick

(* Whoever holds the lock goes on; the progress thread gets the lock if it  *)
(* keeps asking; the timer fires.                                           *)
Fairness ==
  /\ WF_vars(RunContext \/ ContextsDone \/ HandleDeferred \/ QueuesAdvanced)
  /\ SF_vars(ProgressThread)
  /\ SF_vars(tick)

Spec == Init /\ [][Next]_vars /\ Fairness
-----------------------------------------------------------------------------
(* Deferring loses and repeats nothing: of each peer, the messages under    *)
(* way are the last it has sent, in order; each of the earlier ones is set  *)
(* aside, handled or dropped, and only one of these, once.                  *)
EachMessageOnce ==
  LET deferred == ToSet(waiting_for_nolaggy)
      done == ToSet(handled)
      taken == deferred \cup done \cup dropped
  IN /\ \A p \in Peers :
          /\ \A i \in DOMAIN net[p] :
               net[p][i].from = p /\ net[p][i].seq = sent[p] - Len(net[p]) + i
          /\ {m.seq : m \in {x \in taken : x.from = p}} = 1 .. sent[p] - Len(net[p])
     /\ \A m1, m2 \in taken : m1.from = m2.from /\ m1.seq = m2.seq => m1 = m2
     /\ IsInjective(waiting_for_nolaggy) /\ IsInjective(handled)
     /\ deferred \cap done = {} /\ (deferred \cup done) \cap dropped = {}

(* A message set aside is checked again when it is taken up: no handler     *)
(* sees a message of an instance that our map has replaced.                 *)
NoMessageOfAReplacedPeer ==
  [][handled' # handled => ~is_stale_message(Last(handled'))]_vars

(* Once the beacons are answered for good, what was set aside is handled,   *)
(* by a dispatch or by the progress thread that tick wakes; and contexts    *)
(* that handlers queue run, laggy or not.                                   *)
DeferredAreHandled ==
  /\ <>[]~laggy => [](waiting_for_nolaggy # <<>> => <>(waiting_for_nolaggy = <<>>))
  /\ [](finished_queue > 0 => <>(finished_queue = 0))
=============================================================================
