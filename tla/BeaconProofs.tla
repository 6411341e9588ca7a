---------------------------- MODULE BeaconProofs ----------------------------
(***************************************************************************)
(* The invariants of Beacon for every interval, grace period and bound.    *)
(***************************************************************************)
EXTENDS Beacon, TLAPS

(* The stamps grow with the numbers and are later than the last one         *)
(* answered; the monitor has seen every beacon it answered, so its own      *)
(* stamp is no earlier; a beacon is sent within the grace period after the  *)
(* last heartbeat_reset, or after a later one.                              *)
StampsGrow ==
  \A p, q \in DOMAIN seq_stamp : p < q => seq_stamp[p] < seq_stamp[q]

StampsUnanswered ==
  \A q \in DOMAIN seq_stamp : seq_stamp[q] > last_acked_stamp

MonitorHasSeen ==
  /\ last_acked_stamp <= mon_stamp
  /\ \A q \in acks \cap DOMAIN seq_stamp : seq_stamp[q] <= mon_stamp

SilentWhileStuck ==
  hb_reset # 0 =>
    /\ last_acked_stamp <= hb_reset + mds_beacon_grace
    /\ \A q \in DOMAIN seq_stamp : seq_stamp[q] <= hb_reset + mds_beacon_grace

IInv == TypeOK /\ StampsGrow /\ StampsUnanswered /\ MonitorHasSeen /\ SilentWhileStuck

(* The initial state satisfies the invariant.                               *)
LEMMA InitEstablishes == Init => IInv
  <1> SUFFICES ASSUME Init PROVE IInv
    OBVIOUS
  <1>1. DOMAIN seq_stamp = {} /\ was_laggy \in BOOLEAN
    BY Zenon DEF Init
  <1>2. TypeOK
    BY <1>1 DEF Init, TypeOK
  <1>3. StampsGrow /\ StampsUnanswered /\ MonitorHasSeen
    BY <1>1 DEF Init, StampsGrow, StampsUnanswered, MonitorHasSeen
  <1>4. SilentWhileStuck
    BY Zenon DEF Init, SilentWhileStuck
  <1> QED BY <1>2, <1>3, <1>4 DEF IInv

(* Sending a beacon keeps it: the new stamp is the latest of all, and an    *)
(* unhealthy MDS adds none.                                                 *)
LEMMA SendKeeps == IInv /\ _send => IInv'
  <1> SUFFICES ASSUME IInv, _send PROVE IInv'
    OBVIOUS
  <1> USE BeaconAssumption
  <1>1. CASE ~is_healthy /\ UNCHANGED <<last_seq, seq_stamp, to_mon>>
    BY <1>1 DEF _send, IInv, TypeOK, StampsGrow, StampsUnanswered, MonitorHasSeen,
                SilentWhileStuck
  <1>2. CASE /\ is_healthy
             /\ \A q \in DOMAIN seq_stamp : seq_stamp[q] < now
             /\ last_acked_stamp < now
             /\ last_seq' = last_seq + 1
             /\ seq_stamp' = [q \in DOMAIN seq_stamp \cup {last_seq + 1} |->
                                IF q = last_seq + 1 THEN now ELSE seq_stamp[q]]
             /\ to_mon' = to_mon \cup {last_seq + 1}
    <2>1. /\ DOMAIN seq_stamp' = DOMAIN seq_stamp \cup {last_seq + 1}
          /\ \A q \in DOMAIN seq_stamp : seq_stamp'[q] = seq_stamp[q]
          /\ seq_stamp'[last_seq + 1] = now
      BY <1>2 DEF IInv, TypeOK
    <2>2. TypeOK'
      BY <1>2, <2>1 DEF _send, IInv, TypeOK
    <2>3. StampsGrow'
      BY <1>2, <2>1 DEF IInv, TypeOK, StampsGrow
    <2>4. StampsUnanswered'
      BY <1>2, <2>1 DEF _send, IInv, TypeOK, StampsUnanswered
    <2>5. MonitorHasSeen'
      BY <1>2, <2>1 DEF _send, IInv, TypeOK, MonitorHasSeen
    <2>6. SilentWhileStuck'
      BY <1>2, <2>1 DEF _send, is_healthy, IInv, TypeOK, SilentWhileStuck
    <2> QED BY <2>2, <2>3, <2>4, <2>5, <2>6 DEF IInv
  <1> QED BY <1>1, <1>2 DEF _send

(* An answer keeps it: what is still remembered was sent later than the     *)
(* beacon that was answered, and the monitor had seen that one.             *)
LEMMA AckKeeps ==
  ASSUME IInv, NEW q \in 1..MaxSeq, handle_mds_beacon(q) PROVE IInv'
  <1> USE BeaconAssumption
  <1>1. CASE q \notin DOMAIN seq_stamp
    BY <1>1 DEF handle_mds_beacon, IInv, TypeOK, StampsGrow, StampsUnanswered,
                MonitorHasSeen, SilentWhileStuck
  <1>2. CASE q \in DOMAIN seq_stamp
    <2>1. /\ DOMAIN seq_stamp' = {p \in DOMAIN seq_stamp : p > q}
          /\ \A p \in DOMAIN seq_stamp' : seq_stamp'[p] = seq_stamp[p]
          /\ last_acked_stamp' = seq_stamp[q]
          /\ seq_stamp[q] \in 1..now
          /\ acks' \subseteq acks
      BY <1>2 DEF handle_mds_beacon, Acked, IInv, TypeOK
    <2>2. TypeOK'
      BY <1>2, <2>1 DEF handle_mds_beacon, IInv, TypeOK
    <2>3. StampsGrow' /\ StampsUnanswered'
      BY <1>2, <2>1 DEF IInv, TypeOK, StampsGrow, StampsUnanswered
    <2>4. MonitorHasSeen'
      BY <1>2, <2>1 DEF handle_mds_beacon, IInv, MonitorHasSeen
    <2>5. SilentWhileStuck'
      BY <1>2, <2>1 DEF handle_mds_beacon, IInv, SilentWhileStuck
    <2> QED BY <2>2, <2>3, <2>4, <2>5 DEF IInv
  <1> QED BY <1>1, <1>2

(* Every step keeps it.                                                     *)
LEMMA NextKeeps == IInv /\ [Next]_vars => IInv'
  <1> SUFFICES ASSUME IInv, [Next]_vars PROVE IInv'
    OBVIOUS
  <1> USE BeaconAssumption
  <1>1. CASE Clock
    BY <1>1 DEF Clock, IInv, TypeOK, StampsGrow, StampsUnanswered, MonitorHasSeen,
                SilentWhileStuck
  <1>2. CASE heartbeat_reset
    BY <1>2 DEF heartbeat_reset, IInv, TypeOK, StampsGrow, StampsUnanswered,
                MonitorHasSeen, SilentWhileStuck
  <1>3. CASE TimerSend \/ send
    BY <1>3, SendKeeps DEF TimerSend, send
  <1>4. ASSUME NEW q \in 1..MaxSeq, MonReceives(q) PROVE IInv'
    BY <1>4 DEF MonReceives, IInv, TypeOK, StampsGrow, StampsUnanswered,
                MonitorHasSeen, SilentWhileStuck
  <1>5. ASSUME NEW q \in 1..MaxSeq, Lose(q) PROVE IInv'
    BY <1>5 DEF Lose, IInv, TypeOK, StampsGrow, StampsUnanswered, MonitorHasSeen,
                SilentWhileStuck
  <1>6. ASSUME NEW q \in 1..MaxSeq, handle_mds_beacon(q) PROVE IInv'
    BY <1>6, AckKeeps
  <1>7. CASE is_laggy
    BY <1>7 DEF is_laggy, IInv, TypeOK, StampsGrow, StampsUnanswered, MonitorHasSeen,
                SilentWhileStuck
  <1>8. CASE UNCHANGED vars
    BY <1>8 DEF vars, IInv, TypeOK, StampsGrow, StampsUnanswered, MonitorHasSeen,
                SilentWhileStuck
  <1> QED BY <1>1, <1>2, <1>3, <1>4, <1>5, <1>6, <1>7, <1>8 DEF Next

(* The invariant holds throughout.                                          *)
LEMMA Invariant == Spec => []IInv
  BY InitEstablishes, NextKeeps, PTL DEF Spec

(* The variables of the beacon keep their types.                            *)
THEOREM TypeCorrect == Spec => []TypeOK
  <1>1. IInv => TypeOK
    BY DEF IInv
  <1> QED BY <1>1, Invariant, PTL

(* The assertion of handle_mds_beacon never fails.                          *)
THEOREM AckAssertionHolds == Spec => []AckAssertion
  <1>1. IInv => AckAssertion
    BY DEF IInv, StampsUnanswered, AckAssertion
  <1> QED BY <1>1, Invariant, PTL

(* An MDS stops serving no later than the monitor replaces it, and also     *)
(* when nobody has taken mds_lock for two grace periods (is_laggy).         *)
THEOREM LaggyInTimeAlways == Spec => []LaggyInTime
  <1>1. ASSUME IInv, last_acked_stamp # 0, now - mon_stamp > mds_beacon_grace
        PROVE  Laggy
    BY <1>1, BeaconAssumption DEF IInv, TypeOK, MonitorHasSeen, Laggy
  <1>2. ASSUME IInv, last_acked_stamp # 0, hb_reset # 0, now - hb_reset > 2 * mds_beacon_grace
        PROVE  Laggy
    BY <1>2, BeaconAssumption DEF IInv, TypeOK, SilentWhileStuck, Laggy
  <1>3. IInv => LaggyInTime
    BY <1>1, <1>2 DEF LaggyInTime
  <1> QED BY <1>3, Invariant, PTL
=============================================================================
