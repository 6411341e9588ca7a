----------------------------- MODULE Heartbeat -----------------------------
(***************************************************************************)
(* The balancer's heartbeat exchange (MDBalancer.cc): rank 0 opens an       *)
(* epoch from its timer, every rank answers with its load, and a rank that  *)
(* holds a load of every rank decides whether to rebalance.                 *)
(*                                                                         *)
(* A load sample is abstracted to the beat it was taken in.  The MDS map    *)
(* reaches each rank at its own pace, and a failed rank is replaced by a    *)
(* fresh instance.  Everything one rank does under mds_lock is one step.    *)
(* mds_bal_max is not negative (unlimited) and mds_bal_max_until is off.    *)
(***************************************************************************)
EXTENDS Integers, Sequences, FiniteSets

CONSTANTS
  N,            \* number of ranks in the cluster (mdsmap->get_num_in_mds)
  mds_bal_max,  \* option: how many times rank 0 may balance
  mds_bal_lua,  \* the values the option may have when it is read:
                \* 0 built-in balancer, 1 Lua, 2 pause then Lua, other none
  Failing,      \* the ranks whose daemon may be replaced
  MaxFail       \* bound: how many times each of them is

Ranks == 0 .. N - 1

ASSUME HeartbeatAssumption ==
  /\ N \in Nat /\ N >= 2
  /\ mds_bal_max \in Nat
  /\ mds_bal_lua \in SUBSET Nat
  /\ Failing \in SUBSET Ranks
  /\ MaxFail \in Nat

NoLoad == -1          \* no entry for that rank in mds_load
SendWaiter == [from |-> -1]   \* a queued C_Bal_SendHeartbeat

VARIABLES
  newest,             \* the monitors' current MDS map
  mdsmap,             \* mdsmap[r]: the map rank r has received
  is_open,            \* is_open[r]: MDCache::open
  waiting_for_open,   \* waiting_for_open[r]: contexts queued until open
  finished_queue,     \* finished_queue[r]: contexts to complete
  draining,           \* draining[r]: inside _advance_queues, mds_lock held
  net,                \* net[s][d]: ordered messages in flight from s to d
  beat_epoch,
  mds_load,           \* mds_load[r][p]: beat of the load of p known at r
  last_epoch_under,
  num_bal_times,      \* static counter of MDBalancer::tick, on each instance
  decision            \* <<r, what>>: what rank r decided in the last step, if
                      \* a rank did

mapvars == <<newest, mdsmap>>
queuevars == <<is_open, waiting_for_open, finished_queue, draining>>
balvars == <<beat_epoch, mds_load, last_epoch_under>>
vars == <<mapvars, queuevars, net, balvars, num_bal_times, decision>>

(* External: MDSMap as the balancer uses it.  A rank is not active while    *)
(* its instance recovers, and the map is degraded while any rank is.        *)
is_degraded(r) == mdsmap[r].recovering # {}
is_active(r) == r \notin mdsmap[r].recovering

(* Mutant: the source's instance is not compared with the map's.            *)
is_stale_message_AnyInstance(r, m) == FALSE

is_stale_message(r, m) == m.inst # mdsmap[r].inst[m.from]

NoDecision == <<>>

Init ==
  /\ newest = [epoch |-> 1, inst |-> [r \in Ranks |-> 1], recovering |-> {}]
  /\ mdsmap = [r \in Ranks |-> newest]
  /\ is_open = [r \in Ranks |-> FALSE]
  /\ waiting_for_open = [r \in Ranks |-> <<>>]
  /\ finished_queue = [r \in Ranks |-> <<>>]
  /\ draining = [r \in Ranks |-> FALSE]
  /\ net = [s \in Ranks |-> [d \in Ranks |-> <<>>]]
  /\ beat_epoch = [r \in Ranks |-> 0]
  /\ mds_load = [r \in Ranks |-> [p \in Ranks |-> NoLoad]]
  /\ last_epoch_under = [r \in Ranks |-> 0]
  /\ num_bal_times = [r \in Ranks |-> mds_bal_max]
  /\ decision = NoDecision

-----------------------------------------------------------------------------
(* The sending half.  A message to an instance the sender's map does not    *)
(* know any more is lost.                                                   *)
Heartbeats(n, r, beat) ==
  [n EXCEPT ![r] =
    [p \in Ranks |->
      IF p # r /\ mdsmap[r].inst[p] = newest.inst[p]
        THEN Append(n[r][p], [from |-> r, inst |-> newest.inst[r], beat |-> beat])
        ELSE n[r][p]]]

OwnLoad(r, beat) == [p \in Ranks |-> IF p = r THEN beat ELSE NoLoad]

(* send_heartbeat called from the timer or from a C_Bal_SendHeartbeat.      *)
(* Only rank 0 is ever there.                                               *)
send_heartbeat(r) ==
  \/ /\ is_degraded(r)
     /\ UNCHANGED <<net, balvars, waiting_for_open>>
  \/ /\ ~is_degraded(r) /\ ~is_open[r]
     /\ waiting_for_open' = [waiting_for_open EXCEPT ![r] = Append(@, SendWaiter)]
     /\ UNCHANGED <<net, balvars>>
  \/ /\ ~is_degraded(r) /\ is_open[r]
     /\ LET beat == IF r = 0 THEN beat_epoch[r] + 1 ELSE beat_epoch[r]
        IN  /\ beat_epoch' = [beat_epoch EXCEPT ![r] = beat]
            /\ mds_load' = [mds_load EXCEPT ![r] = OwnLoad(r, beat)]
            /\ net' = Heartbeats(net, r, beat)
     /\ UNCHANGED <<last_epoch_under, waiting_for_open>>

-----------------------------------------------------------------------------
(* The decision.  Whether the rank's load is above the target is left open. *)
prep_rebalance(r, epoch) ==
  LET OverLongEnough == last_epoch_under[r] = 0 \/ epoch - last_epoch_under[r] >= 2
  IN \/ /\ decision' = <<r, "under">>
        /\ last_epoch_under' = [last_epoch_under EXCEPT ![r] = epoch]
     \/ /\ decision' = <<r, IF OverLongEnough THEN "match" ELSE "short">>
        /\ UNCHANGED last_epoch_under

custom_balancer(r) == decision' = <<r, "lua">> /\ UNCHANGED last_epoch_under

(* pause_balancer spins under mds_lock until the option changes, so nothing *)
(* of this rank comes between the message and custom_balancer.              *)
rebalance(r, epoch) ==
  \/ 0 \in mds_bal_lua /\ prep_rebalance(r, epoch)
  \/ mds_bal_lua \cap {1, 2} # {} /\ custom_balancer(r)
  \/ mds_bal_lua \ {0, 1, 2} # {} /\ decision' = NoDecision /\ UNCHANGED last_epoch_under

(* The receiving half: n is the network with the message taken off.         *)
handle_heartbeat(r, m, n) ==
  \/ /\ ~is_active(r) \/ (is_open[r] /\ is_degraded(r))
     /\ net' = n /\ decision' = NoDecision
     /\ UNCHANGED <<balvars, waiting_for_open>>
  \/ /\ is_active(r) /\ ~is_open[r]
     /\ waiting_for_open' = [waiting_for_open EXCEPT ![r] = Append(@, m)]
     /\ net' = n /\ decision' = NoDecision
     /\ UNCHANGED balvars
  \/ /\ is_active(r) /\ is_open[r] /\ ~is_degraded(r)
     /\ LET epoch == IF m.from = 0 THEN m.beat ELSE beat_epoch[r]
            known == IF m.from = 0 THEN OwnLoad(r, m.beat) ELSE mds_load[r]
            loads == [known EXCEPT ![m.from] = m.beat]
        IN  /\ beat_epoch' = [beat_epoch EXCEPT ![r] = epoch]
            /\ mds_load' = [mds_load EXCEPT ![r] = loads]
            /\ net' = IF m.from = 0 THEN Heartbeats(n, r, epoch) ELSE n
            /\ \/ /\ \A p \in Ranks : loads[p] # NoLoad
                  /\ rebalance(r, epoch)
               \/ /\ \E p \in Ranks : loads[p] = NoLoad
                  /\ decision' = NoDecision /\ UNCHANGED last_epoch_under
     /\ UNCHANGED waiting_for_open

-----------------------------------------------------------------------------
(* Mutant: only a beat that was sent at once is counted.                    *)
tick_CountsSentOnly ==
  /\ ~draining[0] /\ is_active(0)
  /\ num_bal_times[0] # 0
  /\ num_bal_times' = [num_bal_times EXCEPT ![0] = IF is_open[0] THEN @ - 1 ELSE @]
  /\ Len(waiting_for_open[0]) <= mds_bal_max
  /\ send_heartbeat(0)
  /\ decision' = NoDecision
  /\ UNCHANGED <<mapvars, is_open, finished_queue, draining>>

(* MDBalancer::tick on rank 0, the interval having elapsed.                 *)
tick ==
  /\ ~draining[0] /\ is_active(0)
  /\ num_bal_times[0] # 0
  /\ num_bal_times' = [num_bal_times EXCEPT ![0] = @ - 1]
  /\ send_heartbeat(0)
  /\ decision' = NoDecision
  /\ UNCHANGED <<mapvars, is_open, finished_queue, draining>>

(* _dispatch of a message from s, then _advance_queues under the same lock. *)
Dispatch(r, s) ==
  /\ ~draining[r] /\ net[s][r] # <<>>
  /\ LET m == Head(net[s][r])
         n == [net EXCEPT ![s][r] = Tail(@)]
     IN \/ /\ is_stale_message(r, m)
           /\ net' = n /\ decision' = NoDecision
           /\ UNCHANGED <<balvars, waiting_for_open>>
        \/ /\ ~is_stale_message(r, m)
           /\ handle_heartbeat(r, m, n)
  /\ draining' = [draining EXCEPT ![r] = finished_queue[r] # <<>>]
  /\ UNCHANGED <<mapvars, is_open, finished_queue, num_bal_times>>

(* One context of the finished queue; the queue is drained before the rank  *)
(* does anything else.                                                      *)
_advance_queues(r) ==
  /\ finished_queue[r] # <<>>
  /\ finished_queue' = [finished_queue EXCEPT ![r] = Tail(@)]
  /\ draining' = [draining EXCEPT ![r] = Len(finished_queue[r]) > 1]
  /\ LET c == Head(finished_queue[r])
     IN \/ c = SendWaiter /\ send_heartbeat(r) /\ decision' = NoDecision
        \/ /\ c # SendWaiter /\ is_stale_message(r, c)
           /\ decision' = NoDecision
           /\ UNCHANGED <<net, balvars, waiting_for_open>>
        \/ /\ c # SendWaiter /\ ~is_stale_message(r, c)
           /\ handle_heartbeat(r, c, net)
  /\ UNCHANGED <<mapvars, is_open, num_bal_times>>

(* Mutant: the contexts waiting for the cache are not queued.               *)
populate_mydir_ForgetsWaiters(r) ==
  /\ ~draining[r] /\ ~is_open[r] /\ is_active(r)
  /\ is_open' = [is_open EXCEPT ![r] = TRUE]
  /\ waiting_for_open' = [waiting_for_open EXCEPT ![r] = <<>>]
  /\ decision' = NoDecision
  /\ UNCHANGED <<mapvars, draining, net, balvars, num_bal_times, finished_queue>>

(* The end of populate_mydir: the cache is open and its waiters are queued. *)
populate_mydir(r) ==
  /\ ~draining[r] /\ ~is_open[r] /\ is_active(r)
  /\ is_open' = [is_open EXCEPT ![r] = TRUE]
  /\ finished_queue' = [finished_queue EXCEPT ![r] = @ \o waiting_for_open[r]]
  /\ waiting_for_open' = [waiting_for_open EXCEPT ![r] = <<>>]
  /\ decision' = NoDecision
  /\ UNCHANGED <<mapvars, draining, net, balvars, num_bal_times>>

(* A newer map arrives (the part of handle_mds_map the balancer can see).   *)
handle_mds_map(r) ==
  /\ ~draining[r] /\ mdsmap[r].epoch < newest.epoch
  /\ mdsmap' = [mdsmap EXCEPT ![r] = newest]
  /\ decision' = NoDecision
  /\ UNCHANGED <<newest, queuevars, net, balvars, num_bal_times>>

(* External: the monitors replace rank f by a fresh daemon ...              *)
Replace(f) ==
  /\ f \in Failing /\ newest.inst[f] <= MaxFail
  /\ newest' = [epoch |-> newest.epoch + 1,
                inst |-> [newest.inst EXCEPT ![f] = @ + 1],
                recovering |-> newest.recovering \cup {f}]
  /\ mdsmap' = [mdsmap EXCEPT ![f] = newest']
  /\ is_open' = [is_open EXCEPT ![f] = FALSE]
  /\ waiting_for_open' = [waiting_for_open EXCEPT ![f] = <<>>]
  /\ finished_queue' = [finished_queue EXCEPT ![f] = <<>>]
  /\ draining' = [draining EXCEPT ![f] = FALSE]
  /\ net' = [s \in Ranks |-> [net[s] EXCEPT ![f] = <<>>]]
  /\ beat_epoch' = [beat_epoch EXCEPT ![f] = 0]
  /\ mds_load' = [mds_load EXCEPT ![f] = [p \in Ranks |-> NoLoad]]
  /\ last_epoch_under' = [last_epoch_under EXCEPT ![f] = 0]
  /\ num_bal_times' = [num_bal_times EXCEPT ![f] = mds_bal_max]
  /\ decision' = NoDecision

(* ... and it finishes its recovery.                                        *)
Recovered(f) ==
  /\ f \in newest.recovering
  /\ newest' = [newest EXCEPT !.epoch = @ + 1, !.recovering = @ \ {f}]
  /\ decision' = NoDecision
  /\ UNCHANGED <<mdsmap, queuevars, net, balvars, num_bal_times>>

Next ==
  \/ tick
  \/ \E r, s \in Ranks : Dispatch(r, s)
  \/ \E r \in Ranks : _advance_queues(r) \/ populate_mydir(r) \/ handle_mds_map(r)
  \/ \E f \in Ranks : Replace(f) \/ Recovered(f)

(* The timer keeps firing, the messenger delivers, the progress thread      *)
(* runs, caches open, maps arrive and recoveries end.                       *)
Fairness ==
  /\ WF_vars(tick)
  /\ \A r, s \in Ranks : WF_vars(Dispatch(r, s))
  /\ \A r \in Ranks : /\ WF_vars(_advance_queues(r))
                      /\ WF_vars(populate_mydir(r))
                      /\ WF_vars(handle_mds_map(r))
                      /\ WF_vars(Recovered(r))

Spec == Init /\ [][Next]_vars /\ Fairness

-----------------------------------------------------------------------------
Msgs == [from : Ranks, inst : Nat, beat : Nat]
Maps == [epoch : Nat, inst : [Ranks -> Nat], recovering : SUBSET Ranks]

(* The shape of the balancer's state on every rank.                         *)
TypeOK ==
  /\ newest \in Maps /\ mdsmap \in [Ranks -> Maps]
  /\ is_open \in [Ranks -> BOOLEAN] /\ draining \in [Ranks -> BOOLEAN]
  /\ waiting_for_open \in [Ranks -> Seq(Msgs \cup {SendWaiter})]
  /\ finished_queue \in [Ranks -> Seq(Msgs \cup {SendWaiter})]
  /\ net \in [Ranks -> [Ranks -> Seq(Msgs)]]
  /\ beat_epoch \in [Ranks -> Nat]
  /\ mds_load \in [Ranks -> [Ranks -> Nat \cup {NoLoad}]]
  /\ last_epoch_under \in [Ranks -> Nat]
  /\ num_bal_times \in [Ranks -> Nat]

(* send_heartbeat clears mds_load: once a rank holds a load of mds.0 or its *)
(* own, both are of the beat it is in, however late or out of order the     *)
(* other heartbeats, the queued retries and the map changes arrive.  And    *)
(* the gatherer never sees an answer to a beat it has not sent: not after   *)
(* mds.0 is replaced and counts from zero again, while heartbeats of its    *)
(* predecessor are still delivered to, or queued at, the other ranks.       *)
LoadsFollowTheBeat ==
  /\ \A r \in Ranks, p \in Ranks :
       (p \in {0, r} /\ mds_load[r][p] # NoLoad) =>
         (mds_load[r][p] = beat_epoch[r] /\ mds_load[r][r] = beat_epoch[r])
  /\ \A p \in Ranks : mds_load[0][p] <= beat_epoch[0]

(* How many sends of a beat are held back in a queue of contexts.           *)
SendsIn(q) == Cardinality({i \in DOMAIN q : q[i] = SendWaiter})

(* tick counts a balance when it asks for one, send_heartbeat may hold it   *)
(* back until the cache opens: the beats sent and those still waiting never *)
(* exceed what mds_bal_max allows.                                          *)
BeatsWithinMax ==
  beat_epoch[0] + SendsIn(waiting_for_open[0]) + SendsIn(finished_queue[0])
    + num_bal_times[0] <= mds_bal_max

(* As long as no rank is replaced, mds.0 gets the answer of every rank to   *)
(* its last beat, if need be once the caches have opened, and so decides.   *)
RootGathers ==
  [](newest.epoch = 1) =>
    <>[](beat_epoch[0] = mds_bal_max /\ \A p \in Ranks : mds_load[0][p] # NoLoad)
=============================================================================
