------------------------------- MODULE Beacon -------------------------------
(***************************************************************************)
(* The beacons of an MDS (Beacon.cc) and the monitor that answers them.    *)
(*                                                                         *)
(* The MDS numbers its beacons and remembers when it sent each (seq_stamp) *)
(* until the answer comes.  It holds itself laggy when the last beacon it  *)
(* knows to have arrived was sent more than mds_beacon_grace ago; the      *)
(* monitor replaces an MDS whose last beacon arrived longer ago than that. *)
(* Beacons and answers are lost, delayed, overtaken and repeated (the      *)
(* monitor session is reopened).  A clock reading of a send is later than  *)
(* those of earlier sends.                                                 *)
(***************************************************************************)
EXTENDS Integers

CONSTANTS mds_beacon_interval, mds_beacon_grace,
          MaxTime,  \* bound: the clock
          MaxSeq    \* bound: the beacons sent

ASSUME BeaconAssumption ==
  /\ mds_beacon_interval \in Nat \ {0}
  /\ mds_beacon_grace \in Nat \ {0}
  /\ MaxTime \in Nat \ {0}
  /\ MaxSeq \in Nat \ {0}

VARIABLES now,               \* ceph_clock_now
          last_seq,
          seq_stamp,         \* seq -> when it was sent
          last_acked_stamp,  \* 0: no answer yet
          was_laggy, laggy_until,
          last_mon_reconnect,
          sender,            \* when the timer sends the next beacon
          hb_reset,          \* when heartbeat_reset last ran (0: never)
          to_mon, acks,      \* beacons and answers under way
          mon_stamp          \* when the monitor last received a beacon

vars == <<now, last_seq, seq_stamp, last_acked_stamp, was_laggy, laggy_until,
          last_mon_reconnect, sender, hb_reset, to_mon, acks, mon_stamp>>

Init ==
  /\ now = 1
  /\ last_seq = 0
  /\ seq_stamp = [q \in {} |-> 0]
  /\ last_acked_stamp = 0
  /\ was_laggy = FALSE /\ laggy_until = 0
  /\ last_mon_reconnect = 0
  /\ sender = 1
  /\ hb_reset = 0
  /\ to_mon = {} /\ acks = {}
  /\ mon_stamp = 0

(* Time passes.                                                             *)
Clock ==
  /\ now < MaxTime
  /\ now' = now + 1
  /\ UNCHANGED <<last_seq, seq_stamp, last_acked_stamp, was_laggy, laggy_until,
                 last_mon_reconnect, sender, hb_reset, to_mon, acks, mon_stamp>>

(* MDS::heartbeat_reset, by a thread that has taken mds_lock: the handle of *)
(* the MDS in the heartbeat map is good for another mds_beacon_grace.       *)
heartbeat_reset ==
  /\ hb_reset' = now
  /\ UNCHANGED <<now, last_seq, seq_stamp, last_acked_stamp, was_laggy, laggy_until,
                 last_mon_reconnect, sender, to_mon, acks, mon_stamp>>

(* HeartbeatMap::is_healthy: the handle's timeout has not passed.           *)
is_healthy == hb_reset = 0 \/ now <= hb_reset + mds_beacon_grace

(* Mutant: a beacon is sent whatever the heartbeat map says.                *)
_send_Always ==
  /\ last_seq < MaxSeq
  /\ \A q \in DOMAIN seq_stamp : seq_stamp[q] < now
  /\ last_acked_stamp < now
  /\ sender' = now + mds_beacon_interval
  /\ last_seq' = last_seq + 1
  /\ seq_stamp' = [q \in DOMAIN seq_stamp \cup {last_seq + 1} |->
                     IF q = last_seq + 1 THEN now ELSE seq_stamp[q]]
  /\ to_mon' = to_mon \cup {last_seq + 1}
  /\ UNCHANGED <<now, last_acked_stamp, was_laggy, laggy_until, last_mon_reconnect,
                 hb_reset, acks, mon_stamp>>

(* _send: the timer is set again; an unhealthy MDS keeps silent.            *)
_send ==
  /\ sender' = now + mds_beacon_interval
  /\ \/ /\ ~is_healthy
        /\ UNCHANGED <<last_seq, seq_stamp, to_mon>>
     \/ /\ is_healthy
        /\ last_seq < MaxSeq
        /\ \A q \in DOMAIN seq_stamp : seq_stamp[q] < now
        /\ last_acked_stamp < now
        /\ last_seq' = last_seq + 1
        /\ seq_stamp' = [q \in DOMAIN seq_stamp \cup {last_seq + 1} |->
                           IF q = last_seq + 1 THEN now ELSE seq_stamp[q]]
        /\ to_mon' = to_mon \cup {last_seq + 1}
  /\ UNCHANGED <<now, last_acked_stamp, was_laggy, laggy_until, last_mon_reconnect,
                 hb_reset, acks, mon_stamp>>

(* The timer's call, and request_state's or handle_mds_map's (send).        *)
TimerSend == sender <= now /\ _send
send == sender > now /\ _send

(* The monitor receives a beacon (its last copy or not) and answers it.     *)
MonReceives(q) ==
  /\ q \in to_mon
  /\ mon_stamp' = now
  /\ acks' = acks \cup {q}
  /\ to_mon' \in {to_mon, to_mon \ {q}}
  /\ UNCHANGED <<now, last_seq, seq_stamp, last_acked_stamp, was_laggy, laggy_until,
                 last_mon_reconnect, sender, hb_reset>>

Lose(q) ==
  /\ q \in to_mon \cup acks
  /\ to_mon' = to_mon \ {q}
  /\ acks' = acks \ {q}
  /\ UNCHANGED <<now, last_seq, seq_stamp, last_acked_stamp, was_laggy, laggy_until,
                 last_mon_reconnect, sender, hb_reset, mon_stamp>>

(* Mutant: only the answered beacon is forgotten.                           *)
Acked_OnlyThis(q) == DOMAIN seq_stamp \ {q}

(* The beacons still remembered after the answer to beacon q.               *)
Acked(q) == {p \in DOMAIN seq_stamp : p > q}

(* handle_mds_beacon: an answer to a beacon that is not remembered (dne)    *)
(* changes nothing.                                                         *)
handle_mds_beacon(q) ==
  /\ q \in acks
  /\ acks' \in {acks, acks \ {q}}
  /\ IF q \in DOMAIN seq_stamp
     THEN LET fresh == was_laggy /\ now - seq_stamp[q] < mds_beacon_grace
          IN /\ last_acked_stamp' = seq_stamp[q]
             /\ was_laggy' = (was_laggy /\ ~fresh)
             /\ laggy_until' = IF fresh THEN now ELSE laggy_until
             /\ seq_stamp' = [p \in Acked(q) |-> seq_stamp[p]]
     ELSE UNCHANGED <<last_acked_stamp, was_laggy, laggy_until, seq_stamp>>
  /\ UNCHANGED <<now, last_seq, last_mon_reconnect, sender, hb_reset,
                 to_mon, mon_stamp>>

(* What is_laggy answers.                                                   *)
Laggy == last_acked_stamp # 0 /\ now - last_acked_stamp > mds_beacon_grace

(* is_laggy, called by tick and by every dispatch, when it answers true.    *)
is_laggy ==
  /\ Laggy
  /\ was_laggy' = TRUE
  /\ last_mon_reconnect' =
       IF /\ now - last_acked_stamp > 2 * mds_beacon_grace
          /\ now > last_mon_reconnect + mds_beacon_interval
       THEN now ELSE last_mon_reconnect
  /\ UNCHANGED <<now, last_seq, seq_stamp, last_acked_stamp, laggy_until, sender,
                 hb_reset, to_mon, acks, mon_stamp>>

Next ==
  \/ Clock
  \/ heartbeat_reset
  \/ TimerSend
  \/ send
  \/ \E q \in 1..MaxSeq : MonReceives(q) \/ Lose(q) \/ handle_mds_beacon(q)
  \/ is_laggy

Spec == Init /\ [][Next]_vars
-----------------------------------------------------------------------------
(* The variables have their types.                                          *)
TypeOK ==
  /\ now \in Nat /\ last_seq \in Nat
  /\ DOMAIN seq_stamp \subseteq 1..last_seq
  /\ \A q \in DOMAIN seq_stamp : seq_stamp[q] \in 1..now
  /\ last_acked_stamp \in 0..now /\ laggy_until \in 0..now
  /\ last_mon_reconnect \in 0..now /\ mon_stamp \in 0..now
  /\ sender \in Nat /\ hb_reset \in 0..now
  /\ was_laggy \in BOOLEAN
  /\ to_mon \subseteq 1..last_seq /\ acks \subseteq 1..last_seq

(* assert(seq_stamp[seq] > last_acked_stamp) in handle_mds_beacon, whatever *)
(* answers are lost, repeated or overtaken.                                 *)
AckAssertion ==
  \A q \in acks \cap DOMAIN seq_stamp : seq_stamp[q] > last_acked_stamp

(* An MDS that has been answered once holds itself laggy (and stops serving *)
(* requests) no later than the monitor gives it up; and "avoid sending a    *)
(* beacon so that the MDS will consider us laggy": also when nobody has     *)
(* taken mds_lock for two grace periods, one until the heartbeat map turns  *)
(* unhealthy and the beacons stop, one until the last of them is too old,   *)
(* whatever answers are still on their way.                                 *)
LaggyInTime ==
  last_acked_stamp # 0 =>
    /\ now - mon_stamp > mds_beacon_grace => Laggy
    /\ hb_reset # 0 /\ now - hb_reset > 2 * mds_beacon_grace => Laggy
=============================================================================
