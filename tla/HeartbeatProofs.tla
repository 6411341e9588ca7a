-------------------------- MODULE HeartbeatProofs --------------------------
(***************************************************************************)
(* The safety of Heartbeat for every number of ranks, every mds_bal_max,   *)
(* every set of balancers and any number of failures.                      *)
(***************************************************************************)
EXTENDS Heartbeat, FiniteSetTheorems, TLAPS

(* What is known of a heartbeat m under way to, or queued at, rank d: no    *)
(* rank hears itself; mds.0 is told of no beat it has not reached; and a    *)
(* heartbeat of the current mds.0 is of a beat that one has reached, while  *)
(* one of a later beat is of an earlier instance.                           *)
Good(d, m) ==
  /\ m.from # d
  /\ d = 0 => m.beat <= beat_epoch[0]
  /\ m.from = 0 => /\ m.inst <= newest.inst[0]
                   /\ m.inst = newest.inst[0] => m.beat <= beat_epoch[0]

GoodAt(d) == {m \in Msgs : Good(d, m)}

(* Only mds.0 has sends that wait.                                          *)
GoodQueued(d) == GoodAt(d) \cup (IF d = 0 THEN {SendWaiter} ELSE {})

AllGood ==
  \A d \in Ranks :
    /\ \A s \in Ranks : net[s][d] \in Seq(GoodAt(d))
    /\ waiting_for_open[d] \in Seq(GoodQueued(d))
    /\ finished_queue[d] \in Seq(GoodQueued(d))

IInv == TypeOK /\ AllGood /\ LoadsFollowTheBeat

LEMMA RootIsRank == 0 \in Ranks /\ Ranks \subseteq Nat
  BY HeartbeatAssumption DEF Ranks

LEMMA SendWaiterIsNoMessage == SendWaiter \notin Msgs
  BY RootIsRank DEF SendWaiter, Msgs

(* Sequences over a set are sequences over a larger one, and stay sequences *)
(* over it when an element of it is appended, or the first one removed.     *)
LEMMA SeqFacts ==
  ASSUME NEW S, NEW s \in Seq(S)
  PROVE  /\ \A T : S \subseteq T => s \in Seq(T)
         /\ \A x \in S : Append(s, x) \in Seq(S)
         /\ s # <<>> => Head(s) \in S /\ Tail(s) \in Seq(S)
         /\ \A t \in Seq(S) : s \o t \in Seq(S)
  OBVIOUS

LEMMA EmptyIsSeq == \A S : <<>> \in Seq(S)
  OBVIOUS

(* What Heartbeats adds to a network n whose queues are over the sets G[d], *)
(* the new heartbeats being in these too.                                   *)
LEMMA HeartbeatsSent ==
  ASSUME NEW G, NEW n \in [Ranks -> [Ranks -> Seq(Msgs)]], NEW r \in Ranks, NEW beat \in Nat,
         newest \in Maps,
         \A s, d \in Ranks : n[s][d] \in Seq(G[d]),
         \A p \in Ranks \ {r} :
           mdsmap[r].inst[p] = newest.inst[p] =>
             [from |-> r, inst |-> newest.inst[r], beat |-> beat] \in G[p]
  PROVE  /\ Heartbeats(n, r, beat) \in [Ranks -> [Ranks -> Seq(Msgs)]]
         /\ \A s, d \in Ranks : Heartbeats(n, r, beat)[s][d] \in Seq(G[d])
  <1> DEFINE h == [from |-> r, inst |-> newest.inst[r], beat |-> beat]
             row == [p \in Ranks |->
                      IF p # r /\ mdsmap[r].inst[p] = newest.inst[p] THEN Append(n[r][p], h)
                      ELSE n[r][p]]
  <1>1. Heartbeats(n, r, beat) = [n EXCEPT ![r] = row]
    BY DEF Heartbeats
  <1>2. h \in Msgs
    BY DEF Msgs, Maps
  <1>3. ASSUME NEW p \in Ranks PROVE row[p] \in Seq(Msgs) /\ row[p] \in Seq(G[p])
    <2>1. CASE p # r /\ mdsmap[r].inst[p] = newest.inst[p]
      <3>1. row[p] = Append(n[r][p], h) /\ h \in G[p]
        BY <2>1
      <3>2. n[r][p] \in Seq(Msgs) /\ n[r][p] \in Seq(G[p])
        OBVIOUS
      <3> HIDE DEF h, row
      <3>3. Append(n[r][p], h) \in Seq(Msgs)
        BY <3>2, <1>2, SeqFacts
      <3>4. Append(n[r][p], h) \in Seq(G[p])
        BY <3>1, <3>2, SeqFacts, Zenon
      <3> QED BY <3>1, <3>3, <3>4
    <2>2. CASE ~(p # r /\ mdsmap[r].inst[p] = newest.inst[p])
      BY <2>2
    <2> QED BY <2>1, <2>2
  <1>4. row \in [Ranks -> Seq(Msgs)]
    BY <1>3
  <1> HIDE DEF row
  <1> QED BY <1>1, <1>3, <1>4, Zenon

-----------------------------------------------------------------------------
LEMMA InitEstablishes == Init => IInv
  <1> SUFFICES ASSUME Init PROVE IInv
    OBVIOUS
  <1> USE RootIsRank
  <1>1. TypeOK
    <2>1. newest \in Maps
      BY DEF Init, Maps
    <2>2. mdsmap \in [Ranks -> Maps]
      BY <2>1 DEF Init
    <2> QED BY <2>1, <2>2, HeartbeatAssumption DEF Init, TypeOK, NoLoad
  <1>2. AllGood
    BY DEF Init, AllGood
  <1>3. LoadsFollowTheBeat
    BY DEF Init, LoadsFollowTheBeat, NoLoad
  <1> QED BY <1>1, <1>2, <1>3 DEF IInv

(* send_heartbeat on mds.0, from tick or from a queued send.  The queue of  *)
(* contexts may lose its first one in the same step.                        *)
LEMMA SendKeeps ==
  ASSUME IInv, send_heartbeat(0),
         UNCHANGED <<mapvars, is_open>>,
         draining' \in [Ranks -> BOOLEAN], num_bal_times' \in [Ranks -> Nat],
         finished_queue' \in [Ranks -> Seq(Msgs \cup {SendWaiter})],
         \A d \in Ranks : finished_queue'[d] \in Seq(GoodQueued(d))
  PROVE  IInv'
  <1> USE RootIsRank
  <1>0. beat_epoch[0] \in Nat /\ newest \in Maps /\ newest.inst[0] \in Nat
    BY DEF IInv, TypeOK, Maps
  <1>1. CASE is_degraded(0) /\ UNCHANGED <<net, balvars, waiting_for_open>>
    <2>1. TypeOK'
      BY <1>1, Zenon DEF IInv, TypeOK, mapvars, balvars
    <2>2. \A d \in Ranks : GoodAt(d)' = GoodAt(d) /\ GoodQueued(d)' = GoodQueued(d)
      BY <1>1 DEF GoodAt, Good, GoodQueued, mapvars, balvars
    <2>3. AllGood'
      BY <1>1, <2>2, Zenon DEF IInv, AllGood
    <2>4. LoadsFollowTheBeat'
      BY <1>1 DEF IInv, LoadsFollowTheBeat, balvars
    <2> QED BY <2>1, <2>3, <2>4 DEF IInv
  <1>2. CASE /\ waiting_for_open' = [waiting_for_open EXCEPT ![0] = Append(@, SendWaiter)]
             /\ UNCHANGED <<net, balvars>>
    <2>1. /\ Append(waiting_for_open[0], SendWaiter) \in Seq(Msgs \cup {SendWaiter})
          /\ Append(waiting_for_open[0], SendWaiter) \in Seq(GoodQueued(0))
      <3>1. /\ waiting_for_open[0] \in Seq(Msgs \cup {SendWaiter})
            /\ waiting_for_open[0] \in Seq(GoodQueued(0))
        BY DEF IInv, TypeOK, AllGood
      <3>2. SendWaiter \in GoodQueued(0)
        BY DEF GoodQueued
      <3> QED BY <3>1, <3>2, SeqFacts
    <2>2. TypeOK'
      BY <1>2, <2>1, Zenon DEF IInv, TypeOK, mapvars, balvars
    <2>3. \A d \in Ranks : GoodAt(d)' = GoodAt(d) /\ GoodQueued(d)' = GoodQueued(d)
      BY <1>2 DEF GoodAt, Good, GoodQueued, mapvars, balvars
    <2>4. AllGood'
      BY <1>2, <2>1, <2>3, Zenon DEF IInv, TypeOK, AllGood
    <2>5. LoadsFollowTheBeat'
      BY <1>2, Zenon DEF IInv, LoadsFollowTheBeat, balvars
    <2> QED BY <2>2, <2>4, <2>5 DEF IInv
  <1>3. CASE /\ beat_epoch' = [beat_epoch EXCEPT ![0] = beat_epoch[0] + 1]
             /\ mds_load' = [mds_load EXCEPT ![0] = OwnLoad(0, beat_epoch[0] + 1)]
             /\ net' = Heartbeats(net, 0, beat_epoch[0] + 1)
             /\ UNCHANGED <<last_epoch_under, waiting_for_open>>
    <2> DEFINE beat == beat_epoch[0] + 1
               h == [from |-> 0, inst |-> newest.inst[0], beat |-> beat]
               G == [d \in Ranks |-> GoodAt(d)']
    <2>1. beat \in Nat /\ beat_epoch'[0] = beat /\ beat_epoch' \in [Ranks -> Nat]
          /\ \A r \in Ranks \ {0} : beat_epoch'[r] = beat_epoch[r]
      BY <1>3, <1>0 DEF IInv, TypeOK
    <2>2. \A d \in Ranks : GoodAt(d) \subseteq GoodAt(d)' /\ GoodQueued(d) \subseteq GoodQueued(d)'
      <3>1. \A m \in Msgs : m.beat \in Nat
        BY DEF Msgs
      <3>2. \A d \in Ranks : GoodAt(d) \subseteq GoodAt(d)'
        BY <1>0, <2>1, <3>1 DEF GoodAt, Good, mapvars
      <3> QED BY <3>2 DEF GoodQueued
    <2>3. \A p \in Ranks \ {0} : h \in GoodAt(p)'
      <3>1. h \in Msgs
        BY <1>0, <2>1 DEF Msgs
      <3> QED BY <1>0, <2>1, <3>1 DEF GoodAt, Good, mapvars
    <2>4. \A s, d \in Ranks : net[s][d] \in Seq(G[d])
      BY <2>2, SeqFacts, Zenon DEF IInv, AllGood
    <2>5. /\ net' \in [Ranks -> [Ranks -> Seq(Msgs)]]
          /\ \A s, d \in Ranks : net'[s][d] \in Seq(G[d])
      <3>1. \A p \in Ranks \ {0} : mdsmap[0].inst[p] = newest.inst[p] => h \in G[p]
        BY <2>3
      <3>2. net \in [Ranks -> [Ranks -> Seq(Msgs)]]
        BY DEF IInv, TypeOK
      <3>3. net' = Heartbeats(net, 0, beat)
        BY <1>3
      <3> HIDE DEF G, beat
      <3> QED BY <1>0, <2>1, <2>4, <3>1, <3>2, <3>3, HeartbeatsSent, Zenon
    <2>6. OwnLoad(0, beat) \in [Ranks -> Nat \cup {NoLoad}]
      BY <2>1 DEF OwnLoad
    <2>7. TypeOK'
      BY <1>3, <2>1, <2>5, <2>6, Zenon DEF IInv, TypeOK, mapvars
    <2>8. AllGood'
      BY <1>3, <2>2, <2>5, SeqFacts, Zenon DEF IInv, AllGood
    <2>9. LoadsFollowTheBeat'
      <3>1. /\ mds_load'[0][0] = beat
            /\ \A p \in Ranks \ {0} : mds_load'[0][p] = NoLoad
            /\ \A r \in Ranks \ {0} : mds_load'[r] = mds_load[r]
        BY <1>3 DEF IInv, TypeOK, OwnLoad
      <3> HIDE DEF beat
      <3>2. \A p \in Ranks : mds_load'[0][p] <= beat_epoch'[0]
        <4> TAKE p \in Ranks
        <4>1. mds_load'[0][p] \in {beat, -1}
          BY <3>1 DEF NoLoad
        <4>2. beat \in Nat /\ beat_epoch'[0] = beat
          BY <2>1
        <4> QED BY <4>1, <4>2
      <3>3. ASSUME NEW r \in Ranks, NEW p \in Ranks, p \in {0, r}, mds_load'[r][p] # NoLoad
            PROVE  mds_load'[r][p] = beat_epoch'[r] /\ mds_load'[r][r] = beat_epoch'[r]
        <4>1. CASE r = 0
          BY <2>1, <3>1, <3>3, <4>1
        <4>2. CASE r # 0
          <5>1. mds_load'[r] = mds_load[r] /\ beat_epoch'[r] = beat_epoch[r]
            BY <2>1, <3>1, <4>2, Zenon
          <5> QED BY <3>3, <5>1, Zenon DEF IInv, LoadsFollowTheBeat
        <4> QED BY <4>1, <4>2
      <3> QED BY <3>2, <3>3 DEF LoadsFollowTheBeat
    <2> QED BY <2>7, <2>8, <2>9 DEF IInv
  <1> QED BY <1>1, <1>2, <1>3 DEF send_heartbeat

(* The decision changes last_epoch_under only.                              *)
LEMMA RebalanceTyped ==
  ASSUME TypeOK, NEW r \in Ranks, NEW epoch \in Nat, rebalance(r, epoch)
  PROVE  last_epoch_under' \in [Ranks -> Nat]
  BY SMTT(20) DEF TypeOK, rebalance, prep_rebalance, custom_balancer

(* handle_heartbeat of a heartbeat that is not stale.  The beat of mds.0    *)
(* stays: it hears of none but its own.                                     *)
LEMMA HandleKeeps ==
  ASSUME IInv, NEW r \in Ranks, NEW m \in GoodAt(r), ~is_stale_message(r, m),
         NEW n \in [Ranks -> [Ranks -> Seq(Msgs)]],
         \A s, d \in Ranks : n[s][d] \in Seq(GoodAt(d)),
         handle_heartbeat(r, m, n),
         UNCHANGED <<mapvars, is_open, num_bal_times>>,
         draining' \in [Ranks -> BOOLEAN],
         finished_queue' \in [Ranks -> Seq(Msgs \cup {SendWaiter})],
         \A d \in Ranks : finished_queue'[d] \in Seq(GoodQueued(d))
  PROVE  IInv' /\ beat_epoch'[0] = beat_epoch[0]
  <1> USE RootIsRank
  <1>0. /\ m \in Msgs /\ Good(r, m) /\ m.from \in Ranks /\ m.beat \in Nat
        /\ newest \in Maps /\ mdsmap[r] \in Maps
    BY DEF GoodAt, Msgs, IInv, TypeOK
  <1>1. ASSUME newest' = newest, beat_epoch'[0] = beat_epoch[0], NEW d \in Ranks
        PROVE  GoodAt(d)' = GoodAt(d) /\ GoodQueued(d)' = GoodQueued(d)
    BY <1>1 DEF GoodAt, Good, GoodQueued
  <1>2. CASE net' = n /\ UNCHANGED <<balvars, waiting_for_open>>
    <2>1. TypeOK'
      BY <1>2, Zenon DEF IInv, TypeOK, mapvars, balvars
    <2>2. AllGood'
      BY <1>1, <1>2, SMTT(20) DEF IInv, AllGood, mapvars, balvars
    <2>3. LoadsFollowTheBeat'
      BY <1>2, Zenon DEF IInv, LoadsFollowTheBeat, balvars
    <2> QED BY <1>2, <2>1, <2>2, <2>3 DEF IInv, balvars
  <1>3. CASE /\ waiting_for_open' = [waiting_for_open EXCEPT ![r] = Append(@, m)]
             /\ net' = n /\ UNCHANGED balvars
    <2>1. /\ Append(waiting_for_open[r], m) \in Seq(Msgs \cup {SendWaiter})
          /\ Append(waiting_for_open[r], m) \in Seq(GoodQueued(r))
      <3>1. /\ waiting_for_open[r] \in Seq(Msgs \cup {SendWaiter})
            /\ waiting_for_open[r] \in Seq(GoodQueued(r))
        BY DEF IInv, TypeOK, AllGood
      <3>2. m \in GoodQueued(r) /\ m \in Msgs \cup {SendWaiter}
        BY <1>0 DEF GoodQueued
      <3> QED BY <3>1, <3>2, SeqFacts
    <2>2. TypeOK'
      BY <1>3, <2>1, Zenon DEF IInv, TypeOK, mapvars, balvars
    <2>3. AllGood'
      BY <1>1, <1>3, <2>1, Zenon DEF IInv, TypeOK, AllGood, mapvars, balvars
    <2>4. LoadsFollowTheBeat'
      BY <1>3, Zenon DEF IInv, LoadsFollowTheBeat, balvars
    <2> QED BY <1>3, <2>2, <2>3, <2>4 DEF IInv, balvars
  <1>4. CASE is_active(r) /\ is_open[r] /\ ~is_degraded(r)
    <2> DEFINE epoch == IF m.from = 0 THEN m.beat ELSE beat_epoch[r]
               known == IF m.from = 0 THEN OwnLoad(r, m.beat) ELSE mds_load[r]
               loads == [known EXCEPT ![m.from] = m.beat]
    <2>1. /\ beat_epoch' = [beat_epoch EXCEPT ![r] = epoch]
          /\ mds_load' = [mds_load EXCEPT ![r] = loads]
          /\ net' = IF m.from = 0 THEN Heartbeats(n, r, epoch) ELSE n
          /\ waiting_for_open' = waiting_for_open
          /\ rebalance(r, epoch) \/ UNCHANGED last_epoch_under
      BY <1>4 DEF handle_heartbeat
    <2>2. epoch \in Nat /\ known \in [Ranks -> Nat \cup {NoLoad}]
      BY <1>0, Zenon DEF IInv, TypeOK, OwnLoad
    <2>3. /\ beat_epoch'[0] = beat_epoch[0] /\ beat_epoch' \in [Ranks -> Nat]
          /\ beat_epoch'[r] = epoch
          /\ \A q \in Ranks \ {r} : beat_epoch'[q] = beat_epoch[q]
      BY <1>0, <2>1, <2>2, Zenon DEF IInv, TypeOK, Good
    <2>4. \A d \in Ranks : GoodAt(d)' = GoodAt(d) /\ GoodQueued(d)' = GoodQueued(d)
      BY <1>1, <2>3 DEF mapvars
    <2>5. /\ net' \in [Ranks -> [Ranks -> Seq(Msgs)]]
          /\ \A s, d \in Ranks : net'[s][d] \in Seq(GoodAt(d))
      <3>1. CASE m.from # 0
        BY <2>1, <3>1
      <3>2. CASE m.from = 0
        <4> DEFINE h == [from |-> r, inst |-> newest.inst[r], beat |-> epoch]
                   G == [d \in Ranks |-> GoodAt(d)]
        <4>1. r # 0 /\ m.inst = mdsmap[r].inst[0] /\ epoch = m.beat
          BY <1>0, <3>2 DEF Good, is_stale_message
        <4>2. h \in Msgs
          BY <1>0, <2>2 DEF Msgs, Maps
        <4>3. ASSUME NEW p \in Ranks \ {r}, mdsmap[r].inst[p] = newest.inst[p]
              PROVE  h \in G[p]
          <5>1. p = 0 => epoch <= beat_epoch[0]
            BY <1>0, <3>2, <4>1, <4>3 DEF Good
          <5> QED BY <4>1, <4>2, <5>1 DEF GoodAt, Good
        <4>4. \A s, d \in Ranks : n[s][d] \in Seq(G[d])
          OBVIOUS
        <4>5. net' = Heartbeats(n, r, epoch)
          BY <2>1, <3>2
        <4>6. \A d \in Ranks : G[d] = GoodAt(d)
          OBVIOUS
        <4> HIDE DEF G, epoch
        <4>7. /\ net' \in [Ranks -> [Ranks -> Seq(Msgs)]]
              /\ \A s, d \in Ranks : net'[s][d] \in Seq(G[d])
          BY <1>0, <2>2, <4>3, <4>4, <4>5, HeartbeatsSent, Zenon
        <4> QED BY <4>6, <4>7, Zenon
      <3> QED BY <3>1, <3>2
    <2>6. last_epoch_under' \in [Ranks -> Nat]
      BY <2>1, <2>2, RebalanceTyped, Zenon DEF IInv, TypeOK
    <2>7. loads \in [Ranks -> Nat \cup {NoLoad}]
      BY <1>0, <2>2, SMTT(20)
    <2>8. mds_load' \in [Ranks -> [Ranks -> Nat \cup {NoLoad}]]
      BY <2>1, <2>7, Zenon DEF IInv, TypeOK
    <2>9. TypeOK'
      BY <2>1, <2>3, <2>5, <2>6, <2>8, Zenon DEF IInv, TypeOK, mapvars
    <2>10. AllGood'
      BY <2>1, <2>4, <2>5, Zenon DEF IInv, AllGood
    <2>11. LoadsFollowTheBeat'
      <3>1. /\ mds_load'[r] = loads
            /\ \A q \in Ranks \ {r} : mds_load'[q] = mds_load[q]
        BY <2>1 DEF IInv, TypeOK
      <3>2. loads[m.from] = m.beat /\ \A q \in Ranks \ {m.from} : loads[q] = known[q]
        BY <1>0, <2>2, Zenon
      <3>0. ASSUME NEW q \in Ranks, q # r
            PROVE  /\ \A p \in {0, q} : mds_load'[q][p] # NoLoad =>
                        mds_load'[q][p] = beat_epoch'[q] /\ mds_load'[q][q] = beat_epoch'[q]
                   /\ q = 0 => \A p \in Ranks : mds_load'[0][p] <= beat_epoch'[0]
        <4>1. mds_load'[q] = mds_load[q] /\ beat_epoch'[q] = beat_epoch[q]
          BY <2>3, <3>0, <3>1
        <4> QED BY <4>1, Zenon DEF IInv, LoadsFollowTheBeat
      <3> SUFFICES /\ \A p \in {0, r} : loads[p] # NoLoad => loads[p] = epoch /\ loads[r] = epoch
                   /\ r = 0 => \A p \in Ranks : loads[p] <= beat_epoch[0]
        <4> HIDE DEF loads, epoch
        <4> QED BY <2>3, <3>0, <3>1, Zenon DEF LoadsFollowTheBeat
      <3>3. CASE m.from = 0
        <4>1. /\ r # 0 /\ epoch = m.beat /\ loads[r] = epoch /\ loads[0] = epoch
          BY <1>0, <3>2, <3>3 DEF Good, OwnLoad
        <4> HIDE DEF loads, epoch
        <4> QED BY <4>1
      <3>4. CASE m.from # 0
        <4>1. /\ epoch = beat_epoch[r] /\ m.from # r /\ loads[r] = mds_load[r][r]
              /\ loads[0] = mds_load[r][0] /\ loads[m.from] = m.beat
              /\ \A q \in Ranks \ {m.from} : loads[q] = mds_load[r][q]
              /\ r = 0 => m.beat <= beat_epoch[0]
          BY <1>0, <3>2, <3>4 DEF Good
        <4> HIDE DEF loads, epoch
        <4>2. \A p \in {0, r} : loads[p] # NoLoad => loads[p] = epoch /\ loads[r] = epoch
          BY <4>1 DEF IInv, LoadsFollowTheBeat
        <4>3. ASSUME r = 0 PROVE \A p \in Ranks : loads[p] <= beat_epoch[0]
          BY <4>1, <4>3, Zenon DEF IInv, LoadsFollowTheBeat
        <4> QED BY <4>2, <4>3
      <3> QED BY <3>3, <3>4, SMTT(20)
    <2> QED BY <2>3, <2>9, <2>10, <2>11 DEF IInv
  <1> QED BY <1>2, <1>3, <1>4 DEF handle_heartbeat

LEMMA TickKeeps == ASSUME IInv, tick PROVE IInv'
  <1>1. num_bal_times' \in [Ranks -> Nat]
    BY RootIsRank DEF tick, IInv, TypeOK
  <1> QED BY <1>1, SendKeeps, Zenon DEF tick, IInv, TypeOK, AllGood

LEMMA DispatchKeeps ==
  ASSUME IInv, NEW r \in Ranks, NEW s \in Ranks, Dispatch(r, s)
  PROVE  IInv' /\ beat_epoch'[0] = beat_epoch[0]
  <1> DEFINE m == Head(net[s][r])
             n == [net EXCEPT ![s][r] = Tail(@)]
  <1>1. m \in GoodAt(r) /\ Tail(net[s][r]) \in Seq(GoodAt(r)) /\ Tail(net[s][r]) \in Seq(Msgs)
    BY SeqFacts DEF Dispatch, IInv, AllGood, TypeOK
  <1>2. n \in [Ranks -> [Ranks -> Seq(Msgs)]]
    BY <1>1, SMTT(20) DEF IInv, TypeOK
  <1>3. \A x, d \in Ranks : n[x][d] \in Seq(GoodAt(d))
    BY <1>1 DEF IInv, TypeOK, AllGood
  <1>4. /\ draining' \in [Ranks -> BOOLEAN] /\ finished_queue' = finished_queue
        /\ UNCHANGED <<mapvars, is_open, num_bal_times>>
    BY DEF Dispatch, IInv, TypeOK
  <1>5. CASE is_stale_message(r, m)
    <2>1. net' = n /\ UNCHANGED <<balvars, waiting_for_open>>
      BY <1>5, Zenon DEF Dispatch, handle_heartbeat
    <2>2. TypeOK'
      BY <1>2, <1>4, <2>1, Zenon DEF IInv, TypeOK, mapvars, balvars
    <2>3. \A d \in Ranks : GoodAt(d)' = GoodAt(d) /\ GoodQueued(d)' = GoodQueued(d)
      BY <1>4, <2>1 DEF GoodAt, Good, GoodQueued, mapvars, balvars
    <2>4. AllGood'
      BY <1>3, <1>4, <2>1, <2>3 DEF IInv, AllGood
    <2>5. LoadsFollowTheBeat' /\ beat_epoch'[0] = beat_epoch[0]
      BY <2>1 DEF IInv, LoadsFollowTheBeat, balvars
    <2> QED BY <2>2, <2>4, <2>5 DEF IInv
  <1>6. CASE ~is_stale_message(r, m)
    <2>1. handle_heartbeat(r, m, n)
      BY <1>6 DEF Dispatch
    <2>2. /\ finished_queue' \in [Ranks -> Seq(Msgs \cup {SendWaiter})]
          /\ \A d \in Ranks : finished_queue'[d] \in Seq(GoodQueued(d))
      BY <1>4, Zenon DEF IInv, TypeOK, AllGood
    <2> HIDE DEF m, n
    <2> QED BY <1>1, <1>2, <1>3, <1>4, <1>6, <2>1, <2>2, HandleKeeps, Zenon
  <1> QED BY <1>5, <1>6

LEMMA AdvanceKeeps ==
  ASSUME IInv, NEW r \in Ranks, _advance_queues(r)
  PROVE  /\ IInv'
         /\ Head(finished_queue[r]) # SendWaiter => beat_epoch'[0] = beat_epoch[0]
         /\ Head(finished_queue[r]) = SendWaiter => r = 0
  <1> DEFINE c == Head(finished_queue[r])
  <1>1. /\ c \in GoodQueued(r)
        /\ Tail(finished_queue[r]) \in Seq(GoodQueued(r))
        /\ Tail(finished_queue[r]) \in Seq(Msgs \cup {SendWaiter})
    BY SeqFacts DEF _advance_queues, IInv, AllGood, TypeOK
  <1>2. /\ finished_queue' = [finished_queue EXCEPT ![r] = Tail(@)]
        /\ draining' \in [Ranks -> BOOLEAN]
        /\ UNCHANGED <<mapvars, is_open, num_bal_times>>
    BY DEF _advance_queues, IInv, TypeOK
  <1>3. finished_queue' \in [Ranks -> Seq(Msgs \cup {SendWaiter})]
    BY <1>1, <1>2 DEF IInv, TypeOK
  <1>4. \A d \in Ranks : finished_queue'[d] \in Seq(GoodQueued(d))
    BY <1>1, <1>2 DEF IInv, TypeOK, AllGood
  <1>5. CASE c = SendWaiter /\ send_heartbeat(r)
    <2>1. SendWaiter \notin GoodAt(r)
      BY SendWaiterIsNoMessage DEF GoodAt
    <2>2. r = 0
      BY <1>1, <1>5, <2>1 DEF GoodQueued
    <2>3. IInv'
      BY <1>2, <1>3, <1>4, <1>5, <2>2, SendKeeps, Zenon DEF IInv, TypeOK
    <2> QED BY <1>5, <2>2, <2>3
  <1>6. CASE c # SendWaiter /\ is_stale_message(r, c) /\ UNCHANGED <<net, balvars, waiting_for_open>>
    <2>1. TypeOK'
      BY <1>2, <1>3, <1>6, Zenon DEF IInv, TypeOK, mapvars, balvars
    <2>2. \A d \in Ranks : GoodAt(d)' = GoodAt(d) /\ GoodQueued(d)' = GoodQueued(d)
      BY <1>2, <1>6 DEF GoodAt, Good, GoodQueued, mapvars, balvars
    <2>3. AllGood'
      BY <1>4, <1>6, <2>2 DEF IInv, AllGood
    <2>4. LoadsFollowTheBeat'
      BY <1>6 DEF IInv, LoadsFollowTheBeat, balvars
    <2> QED BY <1>6, <2>1, <2>3, <2>4 DEF IInv, balvars
  <1>7. CASE c # SendWaiter /\ ~is_stale_message(r, c) /\ handle_heartbeat(r, c, net)
    <2>1. c \in GoodAt(r)
      BY <1>1, <1>7 DEF GoodQueued
    <2>2. /\ net \in [Ranks -> [Ranks -> Seq(Msgs)]]
          /\ \A s, d \in Ranks : net[s][d] \in Seq(GoodAt(d))
      BY Zenon DEF IInv, TypeOK, AllGood
    <2> HIDE DEF c
    <2>3. IInv' /\ beat_epoch'[0] = beat_epoch[0]
      BY <1>2, <1>3, <1>4, <1>7, <2>1, <2>2, HandleKeeps, Zenon
    <2> QED BY <1>7, <2>3 DEF c
  <1> QED BY <1>5, <1>6, <1>7 DEF _advance_queues

LEMMA OpenKeeps == ASSUME IInv, NEW r \in Ranks, populate_mydir(r) PROVE IInv'
  <1>1. /\ finished_queue' = [finished_queue EXCEPT ![r] = @ \o waiting_for_open[r]]
        /\ waiting_for_open' = [waiting_for_open EXCEPT ![r] = <<>>]
        /\ is_open' = [is_open EXCEPT ![r] = TRUE]
        /\ UNCHANGED <<mapvars, draining, net, balvars, num_bal_times>>
    BY DEF populate_mydir
  <1>2. /\ finished_queue[r] \o waiting_for_open[r] \in Seq(GoodQueued(r))
        /\ finished_queue[r] \o waiting_for_open[r] \in Seq(Msgs \cup {SendWaiter})
    BY SeqFacts DEF IInv, AllGood, TypeOK
  <1>3. TypeOK'
    <2>1. /\ finished_queue' \in [Ranks -> Seq(Msgs \cup {SendWaiter})]
          /\ is_open' \in [Ranks -> BOOLEAN]
      BY <1>1, <1>2 DEF IInv, TypeOK
    <2>2. waiting_for_open' \in [Ranks -> Seq(Msgs \cup {SendWaiter})]
      BY <1>1, EmptyIsSeq DEF IInv, TypeOK
    <2> QED BY <1>1, <2>1, <2>2, Zenon DEF IInv, TypeOK, mapvars, balvars
  <1>4. \A d \in Ranks : GoodAt(d)' = GoodAt(d) /\ GoodQueued(d)' = GoodQueued(d)
    BY <1>1 DEF GoodAt, Good, GoodQueued, mapvars, balvars
  <1>5. AllGood'
    <2>1. \A d \in Ranks : waiting_for_open'[d] \in {<<>>, waiting_for_open[d]}
      BY <1>1 DEF IInv, TypeOK
    <2>2. \A d \in Ranks : finished_queue'[d] \in Seq(GoodQueued(d))
      BY <1>1, <1>2 DEF IInv, TypeOK, AllGood
    <2> QED BY <1>1, <1>4, <2>1, <2>2, EmptyIsSeq DEF IInv, AllGood
  <1>6. LoadsFollowTheBeat'
    BY <1>1 DEF IInv, LoadsFollowTheBeat, balvars
  <1> QED BY <1>3, <1>5, <1>6 DEF IInv

(* Maps that arrive and recoveries that end move no heartbeat.              *)
LEMMA MapKeeps ==
  ASSUME IInv, NEW r \in Ranks, handle_mds_map(r) \/ Recovered(r) \/ UNCHANGED vars
  PROVE  IInv'
  <1>0. newest \in Maps /\ mdsmap \in [Ranks -> Maps]
    BY DEF IInv, TypeOK
  <1>1. UNCHANGED <<queuevars, net, balvars, num_bal_times>> /\ newest'.inst = newest.inst
    BY <1>0, Zenon DEF handle_mds_map, Recovered, vars, mapvars, Maps
  <1>2. newest' \in Maps /\ mdsmap' \in [Ranks -> Maps]
    <2>1. CASE handle_mds_map(r)
      BY <1>0, <2>1 DEF handle_mds_map
    <2>2. CASE Recovered(r)
      <3>1. /\ newest' = [newest EXCEPT !.epoch = @ + 1, !.recovering = @ \ {r}]
            /\ mdsmap' = mdsmap
        BY <2>2 DEF Recovered
      <3>2. /\ newest.epoch \in Nat /\ newest.inst \in [Ranks -> Nat]
            /\ newest.recovering \in SUBSET Ranks
        BY <1>0 DEF Maps
      <3>3. newest' = [epoch |-> newest.epoch + 1, inst |-> newest.inst,
                       recovering |-> newest.recovering \ {r}]
        BY <1>0, <3>1, Zenon DEF Maps
      <3> QED BY <1>0, <3>1, <3>2, <3>3 DEF Maps
    <2>3. CASE UNCHANGED vars
      BY <1>0, <2>3 DEF vars, mapvars
    <2> QED BY <2>1, <2>2, <2>3
  <1>3. TypeOK'
    BY <1>1, <1>2, SMTT(20) DEF IInv, TypeOK, queuevars, balvars
  <1>4. \A d \in Ranks : GoodAt(d)' = GoodAt(d) /\ GoodQueued(d)' = GoodQueued(d)
    BY <1>1 DEF GoodAt, Good, GoodQueued, balvars
  <1>5. AllGood'
    BY <1>1, <1>4 DEF IInv, AllGood, queuevars
  <1>6. LoadsFollowTheBeat'
    BY <1>1 DEF IInv, LoadsFollowTheBeat, balvars
  <1> QED BY <1>3, <1>5, <1>6 DEF IInv

(* A new mds.0 starts from beat zero with empty queues; the heartbeats of   *)
(* its predecessor that are left carry an older instance.                   *)
LEMMA ReplaceKeeps == ASSUME IInv, NEW f \in Ranks, Replace(f) PROVE IInv'
  <1> USE RootIsRank
  <1>1. /\ newest' = [epoch |-> newest.epoch + 1,
                      inst |-> [newest.inst EXCEPT ![f] = @ + 1],
                      recovering |-> newest.recovering \cup {f}]
        /\ mdsmap' = [mdsmap EXCEPT ![f] = newest']
        /\ is_open' = [is_open EXCEPT ![f] = FALSE]
        /\ waiting_for_open' = [waiting_for_open EXCEPT ![f] = <<>>]
        /\ finished_queue' = [finished_queue EXCEPT ![f] = <<>>]
        /\ draining' = [draining EXCEPT ![f] = FALSE]
        /\ net' = [s \in Ranks |-> [net[s] EXCEPT ![f] = <<>>]]
        /\ beat_epoch' = [beat_epoch EXCEPT ![f] = 0]
        /\ mds_load' = [mds_load EXCEPT ![f] = [p \in Ranks |-> NoLoad]]
        /\ last_epoch_under' = [last_epoch_under EXCEPT ![f] = 0]
        /\ num_bal_times' = [num_bal_times EXCEPT ![f] = mds_bal_max]
    BY SMTT(20) DEF Replace
  <1>2. newest' \in Maps /\ newest \in Maps
    <2>1. newest \in Maps
      BY DEF IInv, TypeOK
    <2>2. /\ newest.epoch \in Nat
          /\ newest.inst \in [Ranks -> Nat]
          /\ newest.recovering \in SUBSET Ranks
      BY <2>1 DEF Maps
    <2>3. [newest.inst EXCEPT ![f] = @ + 1] \in [Ranks -> Nat]
      BY <2>2
    <2> QED BY <1>1, <2>1, <2>2, <2>3 DEF Maps
  <1>3. TypeOK'
    <2>1. mdsmap' \in [Ranks -> Maps]
      BY <1>1, <1>2 DEF IInv, TypeOK
    <2>2. net' \in [Ranks -> [Ranks -> Seq(Msgs)]]
      BY <1>1 DEF IInv, TypeOK
    <2>3. mds_load' \in [Ranks -> [Ranks -> Nat \cup {NoLoad}]]
      BY <1>1 DEF IInv, TypeOK
    <2>4. /\ waiting_for_open' \in [Ranks -> Seq(Msgs \cup {SendWaiter})]
          /\ finished_queue' \in [Ranks -> Seq(Msgs \cup {SendWaiter})]
      BY <1>1, EmptyIsSeq, Zenon DEF IInv, TypeOK
    <2>5. /\ is_open' \in [Ranks -> BOOLEAN] /\ draining' \in [Ranks -> BOOLEAN]
      BY <1>1, SMTT(20) DEF IInv, TypeOK
    <2>6. /\ beat_epoch' \in [Ranks -> Nat] /\ last_epoch_under' \in [Ranks -> Nat]
          /\ num_bal_times' \in [Ranks -> Nat]
      BY <1>1, HeartbeatAssumption, Zenon DEF IInv, TypeOK
    <2> QED BY <1>2, <2>1, <2>2, <2>3, <2>4, <2>5, <2>6, Zenon DEF TypeOK
  <1>4. /\ newest.inst[0] \in Nat
        /\ newest'.inst[0] = IF f = 0 THEN newest.inst[0] + 1 ELSE newest.inst[0]
        /\ f # 0 => beat_epoch'[0] = beat_epoch[0]
    BY <1>1, Zenon DEF IInv, TypeOK, Maps
  <1>5. ASSUME NEW d \in Ranks, d # f
        PROVE  GoodAt(d) \subseteq GoodAt(d)' /\ GoodQueued(d) \subseteq GoodQueued(d)'
    <2>1. \A m \in Msgs : m.inst \in Nat
      BY DEF Msgs
    <2>2. GoodAt(d) \subseteq GoodAt(d)'
      BY <1>4, <1>5, <2>1 DEF GoodAt, Good
    <2> QED BY <2>2 DEF GoodQueued
  <1>6. AllGood'
    <2> SUFFICES ASSUME NEW d \in Ranks
                 PROVE  /\ \A s \in Ranks : net'[s][d] \in Seq(GoodAt(d)')
                        /\ waiting_for_open'[d] \in Seq(GoodQueued(d)')
                        /\ finished_queue'[d] \in Seq(GoodQueued(d)')
      BY DEF AllGood
    <2>1. CASE d = f
      <3>1. /\ waiting_for_open'[d] = <<>> /\ finished_queue'[d] = <<>>
            /\ \A s \in Ranks : net'[s][d] = <<>>
        BY <1>1, <2>1 DEF IInv, TypeOK
      <3> QED BY <3>1, EmptyIsSeq, Zenon
    <2>2. CASE d # f
      <3>1. /\ /\ waiting_for_open'[d] = waiting_for_open[d]
            /\ finished_queue'[d] = finished_queue[d]
            /\ \A s \in Ranks : net'[s][d] = net[s][d]
        BY <1>1, <2>2 DEF IInv, TypeOK
      <3>2. /\ \A s \in Ranks : net[s][d] \in Seq(GoodAt(d))
            /\ waiting_for_open[d] \in Seq(GoodQueued(d))
            /\ finished_queue[d] \in Seq(GoodQueued(d))
        BY DEF IInv, AllGood
      <3> QED BY <1>5, <2>2, <3>1, <3>2, SeqFacts, Zenon
    <2> QED BY <2>1, <2>2
  <1>7. LoadsFollowTheBeat'
    <2>1. \A q \in Ranks \ {f} : mds_load'[q] = mds_load[q] /\ beat_epoch'[q] = beat_epoch[q]
      BY <1>1 DEF IInv, TypeOK
    <2>2. beat_epoch'[f] = 0 /\ \A p \in Ranks : mds_load'[f][p] = NoLoad
      BY <1>1 DEF IInv, TypeOK
    <2>3. \A r \in Ranks, p \in Ranks :
            (p \in {0, r} /\ mds_load'[r][p] # NoLoad) =>
              (mds_load'[r][p] = beat_epoch'[r] /\ mds_load'[r][r] = beat_epoch'[r])
      <3> TAKE r \in Ranks, p \in Ranks
      <3>1. CASE r = f
        BY <2>2, <3>1
      <3>2. CASE r # f
        BY <2>1, <3>2 DEF IInv, LoadsFollowTheBeat
      <3> QED BY <3>1, <3>2
    <2>4. \A p \in Ranks : mds_load'[0][p] <= beat_epoch'[0]
      <3>1. CASE f = 0
        BY <2>2, <3>1 DEF NoLoad
      <3>2. CASE f # 0
        BY <2>1, <3>2 DEF IInv, LoadsFollowTheBeat
      <3> QED BY <3>1, <3>2
    <2> QED BY <2>3, <2>4 DEF LoadsFollowTheBeat
  <1> QED BY <1>3, <1>6, <1>7 DEF IInv

LEMMA NextKeeps == IInv /\ [Next]_vars => IInv'
  <1> SUFFICES ASSUME IInv, [Next]_vars PROVE IInv'
    OBVIOUS
  <1>1. CASE UNCHANGED vars
    BY <1>1, MapKeeps, RootIsRank
  <1>2. CASE Next
    BY <1>2, TickKeeps, DispatchKeeps, AdvanceKeeps, OpenKeeps, MapKeeps, ReplaceKeeps DEF Next
  <1> QED BY <1>1, <1>2

(* The state keeps its shape.                                               *)
THEOREM TypeCorrect == Spec => []TypeOK
  <1>1. IInv => TypeOK
    BY DEF IInv
  <1> QED BY InitEstablishes, NextKeeps, <1>1, PTL DEF Spec

(* The loads a rank has of itself and of mds.0 are of the beat it is in,    *)
(* and mds.0 never holds an answer to a beat it has not sent, however       *)
(* heartbeats, queued retries, maps and failures interleave.                *)
THEOREM LoadsFollowTheBeatAlways == Spec => []LoadsFollowTheBeat
  <1>1. IInv => LoadsFollowTheBeat
    BY DEF IInv
  <1> QED BY InitEstablishes, NextKeeps, <1>1, PTL DEF Spec

-----------------------------------------------------------------------------
(* How the number of sends held back changes with the queue.                *)
Sends(q) == {i \in DOMAIN q : q[i] = SendWaiter}

LEMMA SendsFinite ==
  ASSUME NEW S, NEW q \in Seq(S)
  PROVE  IsFiniteSet(Sends(q)) /\ SendsIn(q) = Cardinality(Sends(q)) /\ SendsIn(q) \in Nat
  <1>1. IsFiniteSet(1 .. Len(q))
    BY FS_Interval
  <1>2. Sends(q) \in SUBSET (1 .. Len(q))
    BY DEF Sends
  <1>3. IsFiniteSet(Sends(q))
    BY <1>1, <1>2, FS_Subset
  <1> QED BY <1>3, FS_CardinalityType DEF SendsIn, Sends

LEMMA SendsInEmpty == SendsIn(<<>>) = 0
  <1>1. {i \in DOMAIN <<>> : <<>>[i] = SendWaiter} = {}
    OBVIOUS
  <1> QED BY <1>1, FS_EmptySet DEF SendsIn

LEMMA SendsInAppend ==
  ASSUME NEW S, NEW q \in Seq(S), NEW x \in S
  PROVE  SendsIn(Append(q, x)) = SendsIn(q) + IF x = SendWaiter THEN 1 ELSE 0
  <1> DEFINE k == Len(q) + 1
  <1>1. Append(q, x) \in Seq(S) /\ k \in Nat /\ k \notin Sends(q)
    BY DEF Sends
  <1>2. SendsIn(q) \in Nat /\ IsFiniteSet(Sends(q)) /\ SendsIn(q) = Cardinality(Sends(q))
        /\ SendsIn(Append(q, x)) = Cardinality(Sends(Append(q, x)))
    BY <1>1, SendsFinite, Zenon
  <1>3. CASE x = SendWaiter
    <2>1. Sends(Append(q, x)) = Sends(q) \cup {k}
      BY <1>3 DEF Sends
    <2> HIDE DEF k
    <2>2. Cardinality(Sends(q) \cup {k}) = Cardinality(Sends(q)) + 1
      BY <1>1, <1>2, FS_AddElement, Zenon
    <2> QED BY <1>2, <1>3, <2>1, <2>2
  <1>4. CASE x # SendWaiter
    <2>1. Sends(Append(q, x)) = Sends(q)
      BY <1>4 DEF Sends
    <2> QED BY <1>2, <1>4, <2>1
  <1> QED BY <1>3, <1>4

(* The queue t put behind s: its sends move up by the length of s.          *)
LEMMA SendsInConcat ==
  ASSUME NEW S, NEW s \in Seq(S), NEW t \in Seq(S)
  PROVE  SendsIn(s \o t) = SendsIn(s) + SendsIn(t)
  <1> DEFINE moved == {i \in (Len(s) + 1) .. (Len(s) + Len(t)) : t[i - Len(s)] = SendWaiter}
             up == [i \in Sends(t) |-> i + Len(s)]
  <1>1. s \o t \in Seq(S) /\ Len(s) \in Nat /\ Len(t) \in Nat
    OBVIOUS
  <1>2. Sends(s \o t) = Sends(s) \cup moved
    <2>1. DOMAIN (s \o t) = 1 .. (Len(s) + Len(t)) /\ DOMAIN s = 1 .. Len(s)
      OBVIOUS
    <2>2. \A i \in 1 .. (Len(s) + Len(t)) : (s \o t)[i] = IF i
            <= Len(s) THEN s[i] ELSE t[i - Len(s)]
      OBVIOUS
    <2> QED BY <1>1, <2>1, <2>2 DEF Sends
  <1>3. Sends(s) \cap moved = {}
    BY <1>1 DEF Sends
  <1>4. up \in Bijection(Sends(t), moved)
    <2>1. \A i \in Sends(t) : i \in 1 .. Len(t) /\ t[i] = SendWaiter
      BY DEF Sends
    <2>2. up \in [Sends(t) -> moved]
      BY <1>1, <2>1
    <2>3. \A i, j \in Sends(t) : up[i] = up[j] => i = j
      BY <1>1, <2>1
    <2>4. \A k \in moved : \E i \in Sends(t) : up[i] = k
      <3> TAKE k \in moved
      <3>1. k - Len(s) \in Sends(t)
        BY <1>1 DEF Sends
      <3>2. up[k - Len(s)] = k
        BY <1>1, <3>1
      <3> QED BY <3>1, <3>2
    <2> HIDE DEF moved, up
    <2> QED BY <2>2, <2>3, <2>4 DEF Bijection, Injection, Surjection, IsInjective
  <1> HIDE DEF moved, up
  <1>5. /\ IsFiniteSet(Sends(s)) /\ SendsIn(s) = Cardinality(Sends(s)) /\ SendsIn(s) \in Nat
        /\ IsFiniteSet(Sends(t)) /\ SendsIn(t) = Cardinality(Sends(t)) /\ SendsIn(t) \in Nat
        /\ SendsIn(s \o t) = Cardinality(Sends(s \o t))
    BY <1>1, SendsFinite, Zenon
  <1>6. IsFiniteSet(moved) /\ Cardinality(moved) = Cardinality(Sends(t))
    BY <1>4, <1>5, FS_Bijection DEF ExistsBijection
  <1>7. Cardinality(Sends(s) \cup moved)
          = Cardinality(Sends(s)) + Cardinality(moved) - Cardinality({})
    BY <1>3, <1>5, <1>6, FS_Union
  <1> QED BY <1>2, <1>5, <1>6, <1>7, FS_EmptySet

LEMMA SendsInTail ==
  ASSUME NEW S, NEW q \in Seq(S), q # <<>>
  PROVE  SendsIn(q) = SendsIn(Tail(q)) + IF Head(q) = SendWaiter THEN 1 ELSE 0
  <1> DEFINE h == Append(<<>>, Head(q))
  <1>1. Head(q) \in S /\ Tail(q) \in Seq(S) /\ <<>> \in Seq(S)
    BY SeqFacts, EmptyIsSeq
  <1>2. h \in Seq(S) /\ q = h \o Tail(q)
    BY <1>1
  <1>3. SendsIn(h) = IF Head(q) = SendWaiter THEN 1 ELSE 0
    <2>1. SendsIn(Append(<<>>, Head(q))) = SendsIn(<<>>) + IF Head(q) = SendWaiter THEN 1 ELSE 0
      BY <1>1, SendsInAppend, Zenon
    <2> QED BY <2>1, SendsInEmpty
  <1>4. SendsIn(Tail(q)) \in Nat
    BY <1>1, SendsFinite, Zenon
  <1> HIDE DEF h
  <1>5. SendsIn(q) = SendsIn(h) + SendsIn(Tail(q))
    BY <1>1, <1>2, SendsInConcat, Zenon
  <1> QED BY <1>3, <1>4, <1>5

(* send_heartbeat on mds.0 sends a beat, holds one back, or does neither.   *)
LEMMA SendCounts ==
  ASSUME IInv, send_heartbeat(0)
  PROVE  beat_epoch'[0] + SendsIn(waiting_for_open'[0])
           <= beat_epoch[0] + SendsIn(waiting_for_open[0]) + 1
  <1> USE RootIsRank
  <1>1. beat_epoch[0] \in Nat /\ SendsIn(waiting_for_open[0]) \in Nat
    BY SendsFinite DEF IInv, TypeOK
  <1>2. CASE UNCHANGED <<balvars, waiting_for_open>>
    BY <1>1, <1>2 DEF balvars
  <1>3. CASE /\ waiting_for_open' = [waiting_for_open EXCEPT ![0] = Append(@, SendWaiter)]
             /\ UNCHANGED balvars
    <2>1. /\ waiting_for_open'[0] = Append(waiting_for_open[0], SendWaiter)
          /\ beat_epoch' = beat_epoch
      BY <1>3 DEF IInv, TypeOK, balvars
    <2>2. SendsIn(waiting_for_open'[0]) = SendsIn(waiting_for_open[0]) + 1
      BY <2>1, SendsInAppend DEF IInv, TypeOK
    <2> QED BY <1>1, <2>1, <2>2
  <1>4. CASE /\ beat_epoch' = [beat_epoch EXCEPT ![0] = beat_epoch[0] + 1]
             /\ UNCHANGED waiting_for_open
    BY <1>1, <1>4 DEF IInv, TypeOK
  <1> QED BY <1>2, <1>3, <1>4 DEF send_heartbeat

(* handle_heartbeat holds back no send: what it queues is the heartbeat.    *)
LEMMA HandleCounts ==
  ASSUME IInv, NEW r \in Ranks, NEW m \in Msgs, NEW n, handle_heartbeat(r, m, n)
  PROVE  SendsIn(waiting_for_open'[0]) = SendsIn(waiting_for_open[0])
  <1> USE RootIsRank
  <1>1. CASE UNCHANGED waiting_for_open
    BY <1>1
  <1>2. CASE waiting_for_open' = [waiting_for_open EXCEPT ![r] = Append(@, m)]
    <2>1. CASE r = 0
      <3>1. /\ waiting_for_open'[0] = Append(waiting_for_open[0], m) /\ m # SendWaiter
            /\ waiting_for_open[0] \in Seq(Msgs \cup {SendWaiter})
        BY <1>2, <2>1, SendWaiterIsNoMessage DEF IInv, TypeOK
      <3>2. SendsIn(waiting_for_open[0]) \in Nat
        BY <3>1, SendsFinite
      <3> QED BY <3>1, <3>2, SendsInAppend
    <2>2. CASE r # 0
      BY <1>2, <2>2 DEF IInv, TypeOK
    <2> QED BY <2>1, <2>2
  <1> QED BY <1>1, <1>2 DEF handle_heartbeat

LEMMA BeatsKept ==
  ASSUME IInv, BeatsWithinMax, [Next]_vars
  PROVE  BeatsWithinMax'
  <1> USE RootIsRank
  <1>0. /\ beat_epoch[0] \in Nat /\ num_bal_times[0] \in Nat /\ mds_bal_max \in Nat
        /\ SendsIn(waiting_for_open[0]) \in Nat /\ SendsIn(finished_queue[0]) \in Nat
    BY SendsFinite, HeartbeatAssumption DEF IInv, TypeOK
  <1>0b. /\ waiting_for_open[0] \in Seq(Msgs \cup {SendWaiter})
         /\ finished_queue[0] \in Seq(Msgs \cup {SendWaiter})
    BY DEF IInv, TypeOK
  <1>0a. /\ beat_epoch'[0] \in Nat /\ num_bal_times'[0] \in Nat
         /\ SendsIn(waiting_for_open'[0]) \in Nat /\ SendsIn(finished_queue'[0]) \in Nat
    <2>1. TypeOK'
      BY NextKeeps DEF IInv
    <2> QED BY <2>1, SendsFinite DEF TypeOK
  <1>00. beat_epoch[0] + SendsIn(waiting_for_open[0]) + SendsIn(finished_queue[0]) + num_bal_times[0]
           <= mds_bal_max
    BY DEF BeatsWithinMax
  <1>1. CASE UNCHANGED <<waiting_for_open, finished_queue, beat_epoch, num_bal_times>>
    BY <1>1 DEF BeatsWithinMax
  <1>2. CASE tick
    <2>1. /\ num_bal_times'[0] = num_bal_times[0] - 1 /\ finished_queue' = finished_queue
          /\ send_heartbeat(0)
      BY <1>2 DEF tick, IInv, TypeOK
    <2>2. beat_epoch'[0] + SendsIn(waiting_for_open'[0])
            <= beat_epoch[0] + SendsIn(waiting_for_open[0]) + 1
      BY <2>1, SendCounts
    <2>3. SendsIn(finished_queue'[0]) + num_bal_times'[0] + 1
            = SendsIn(finished_queue[0]) + num_bal_times[0]
      BY <1>0, <2>1
    <2>4. beat_epoch'[0] + SendsIn(waiting_for_open'[0]) + SendsIn(finished_queue'[0]) + num_bal_times'[0]
            <= mds_bal_max
      BY <1>0, <1>0a, <1>00, <2>2, <2>3
    <2> QED BY <2>4 DEF BeatsWithinMax
  <1>3. ASSUME NEW r \in Ranks, NEW s \in Ranks, Dispatch(r, s) PROVE BeatsWithinMax'
    <2>1. beat_epoch'[0] = beat_epoch[0]
      BY <1>3, DispatchKeeps
    <2>2. UNCHANGED <<finished_queue, num_bal_times>>
      BY <1>3 DEF Dispatch
    <2>3. Head(net[s][r]) \in Msgs
      BY <1>3, SeqFacts DEF Dispatch, IInv, TypeOK
    <2>4. SendsIn(waiting_for_open'[0]) = SendsIn(waiting_for_open[0])
      <3>1. CASE UNCHANGED waiting_for_open
        BY <3>1
      <3>2. CASE handle_heartbeat(r, Head(net[s][r]), [net EXCEPT ![s][r] = Tail(@)])
        BY <2>3, <3>2, HandleCounts, Zenon
      <3> QED BY <1>3, <3>1, <3>2 DEF Dispatch
    <2> QED BY <2>1, <2>2, <2>4 DEF BeatsWithinMax
  <1>4. ASSUME NEW r \in Ranks, _advance_queues(r) PROVE BeatsWithinMax'
    <2> DEFINE c == Head(finished_queue[r])
    <2>1. /\ finished_queue' = [finished_queue EXCEPT ![r] = Tail(@)]
          /\ finished_queue[r] # <<>> /\ UNCHANGED num_bal_times
      BY <1>4 DEF _advance_queues
    <2>2. c \in Msgs \cup {SendWaiter}
      BY <2>1, SeqFacts, SMTT(20) DEF IInv, TypeOK
    <2>3. CASE c = SendWaiter
      <3>1. r = 0
        BY <1>4, <2>3, AdvanceKeeps
      <3>2. send_heartbeat(0)
        BY <1>4, <2>3, <3>1 DEF _advance_queues
      <3>3. beat_epoch'[0] + SendsIn(waiting_for_open'[0])
              <= beat_epoch[0] + SendsIn(waiting_for_open[0]) + 1
        BY <3>2, SendCounts
      <3>4. /\ finished_queue[0] # <<>>
            /\ Head(finished_queue[0]) = SendWaiter
            /\ finished_queue'[0] = Tail(finished_queue[0])
        BY <2>1, <2>3, <3>1 DEF IInv, TypeOK
      <3>5. SendsIn(finished_queue[0]) = SendsIn(Tail(finished_queue[0])) + 1
        BY <1>0b, <3>4, SendsInTail
      <3>6. SendsIn(finished_queue'[0]) + num_bal_times'[0] + 1
              = SendsIn(finished_queue[0]) + num_bal_times[0]
        <4>1. /\ num_bal_times'[0] = num_bal_times[0]
              /\ SendsIn(finished_queue[0]) = SendsIn(finished_queue'[0]) + 1
          BY <2>1, <3>4, <3>5
        <4> QED BY <1>0, <1>0a, <4>1
      <3>7. beat_epoch'[0] + SendsIn(waiting_for_open'[0]) + SendsIn(finished_queue'[0]) + num_bal_times'[0]
              <= mds_bal_max
        BY <1>0, <1>0a, <1>00, <3>3, <3>6
      <3> QED BY <3>7 DEF BeatsWithinMax
    <2>4. CASE c # SendWaiter
      <3>1. beat_epoch'[0] = beat_epoch[0]
        BY <1>4, <2>4, AdvanceKeeps
      <3>2. SendsIn(waiting_for_open'[0]) = SendsIn(waiting_for_open[0])
        <4>1. CASE UNCHANGED waiting_for_open
          BY <4>1
        <4>2. CASE handle_heartbeat(r, c, net)
          BY <2>2, <2>4, <4>2, HandleCounts
        <4> QED BY <1>4, <2>4, <4>1, <4>2 DEF _advance_queues
      <3>3. SendsIn(finished_queue'[0]) = SendsIn(finished_queue[0])
        <4>1. CASE r = 0
          <5>1. /\ finished_queue[0] # <<>>
                /\ Head(finished_queue[0]) # SendWaiter
                /\ finished_queue'[0] = Tail(finished_queue[0])
                /\ Tail(finished_queue[0]) \in Seq(Msgs \cup {SendWaiter})
            BY <2>1, <2>4, <4>1 DEF IInv, TypeOK
          <5>2. SendsIn(Tail(finished_queue[0])) \in Nat
            BY <5>1, SendsFinite, Zenon
          <5>3. SendsIn(finished_queue[0]) = SendsIn(Tail(finished_queue[0])) + 0
            BY <1>0b, <5>1, SendsInTail
          <5> QED BY <5>1, <5>2, <5>3
        <4>2. CASE r # 0
          BY <2>1, <4>2 DEF IInv, TypeOK
        <4> QED BY <4>1, <4>2
      <3> QED BY <2>1, <3>1, <3>2, <3>3 DEF BeatsWithinMax
    <2> QED BY <2>3, <2>4
  <1>5. ASSUME NEW r \in Ranks, populate_mydir(r) PROVE BeatsWithinMax'
    <2>1. /\ finished_queue' = [finished_queue EXCEPT ![r] = @ \o waiting_for_open[r]]
          /\ waiting_for_open' = [waiting_for_open EXCEPT ![r] = <<>>]
          /\ UNCHANGED <<beat_epoch, num_bal_times>>
      BY <1>5 DEF populate_mydir, balvars
    <2>2. CASE r = 0
      <3>1. /\ waiting_for_open'[0] = <<>>
            /\ finished_queue'[0] = finished_queue[0] \o waiting_for_open[0]
        BY <2>1, <2>2 DEF IInv, TypeOK
      <3>2. /\ SendsIn(finished_queue'[0]) = SendsIn(finished_queue[0]) + SendsIn(waiting_for_open[0])
            /\ SendsIn(waiting_for_open'[0]) = 0
        BY <1>0b, <3>1, SendsInConcat, SendsInEmpty
      <3> QED BY <1>0, <2>1, <3>2 DEF BeatsWithinMax
    <2>3. CASE r # 0
      <3>1. waiting_for_open'[0] = waiting_for_open[0] /\ finished_queue'[0] = finished_queue[0]
        BY <2>1, <2>3 DEF IInv, TypeOK
      <3> QED BY <2>1, <3>1 DEF BeatsWithinMax
    <2> QED BY <2>2, <2>3
  <1>6. ASSUME NEW f \in Ranks, Replace(f) PROVE BeatsWithinMax'
    <2>1. CASE f = 0
      <3>1. /\ waiting_for_open'[0] = <<>>
            /\ finished_queue'[0] = <<>>
            /\ beat_epoch'[0] = 0
            /\ num_bal_times'[0] = mds_bal_max
        BY <1>6, <2>1 DEF Replace, IInv, TypeOK
      <3> QED BY <1>0, <3>1, SendsInEmpty DEF BeatsWithinMax
    <2>2. CASE f # 0
      <3>1. /\ waiting_for_open'[0] = waiting_for_open[0]
            /\ finished_queue'[0] = finished_queue[0]
            /\ beat_epoch'[0] = beat_epoch[0]
            /\ num_bal_times'[0] = num_bal_times[0]
        BY <1>6, <2>2 DEF Replace, IInv, TypeOK
      <3> QED BY <3>1 DEF BeatsWithinMax
    <2> QED BY <2>1, <2>2
  <1>7. ASSUME NEW r \in Ranks, handle_mds_map(r) \/ Recovered(r) PROVE BeatsWithinMax'
    BY <1>1, <1>7 DEF handle_mds_map, Recovered, queuevars, balvars
  <1>8. CASE UNCHANGED vars
    BY <1>1, <1>8 DEF vars, queuevars, balvars
  <1> QED BY <1>2, <1>3, <1>4, <1>5, <1>6, <1>7, <1>8 DEF Next

(* tick counts the balance it asks for: the beats mds.0 sent, those held    *)
(* back until its cache opens and those it may still ask for are together   *)
(* no more than mds_bal_max, for any number of ranks and failures.          *)
THEOREM BeatsWithinMaxAlways == Spec => []BeatsWithinMax
  <1>1. Init => BeatsWithinMax
    BY RootIsRank, SendsInEmpty, HeartbeatAssumption DEF Init, BeatsWithinMax
  <1> QED BY <1>1, InitEstablishes, NextKeeps, BeatsKept, PTL DEF Spec

=============================================================================
