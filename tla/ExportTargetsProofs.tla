------------------------ MODULE ExportTargetsProofs ------------------------
(***************************************************************************)
(* The safety of ExportTargets for every number of ranks, every balancer   *)
(* mode and all values of the removal options.                             *)
(***************************************************************************)
EXTENDS ExportTargets, TLAPS

(* A counter in old_prev_targets never runs ahead of the rounds since its   *)
(* rank was a target: it is reset when the rank leaves the map.             *)
CountsNeverAhead ==
  /\ rounds \in [Ranks -> Nat]
  /\ DOMAIN old_prev_targets \subseteq Ranks
  /\ \A p \in DOMAIN old_prev_targets :
       old_prev_targets[p] \in Nat /\ old_prev_targets[p] <= rounds[p]

TargetsAreRanks ==
  /\ DOMAIN my_targets \subseteq Ranks
  /\ map_targets \subseteq Ranks /\ mon_targets \subseteq Ranks
  /\ to_mon \in Seq(SUBSET Ranks)

IInv == CountsNeverAhead /\ TargetsAreRanks

(* What a round does to the counts of rounds.                               *)
LEMMA RoundCounted ==
  ASSUME IInv, CountRound
  PROVE  /\ rounds' \in [Ranks -> Nat]
         /\ \A p \in Ranks \ DOMAIN my_targets' : rounds'[p] = Saturate(rounds[p] + 1)
         /\ \A p \in Ranks : p \in DOMAIN my_targets' => rounds'[p] = 0
  <1>1. \A p \in Ranks : Saturate(rounds[p] + 1) \in Nat
    BY TargetsAssumption DEF IInv, CountsNeverAhead, Saturate
  <1> QED BY <1>1 DEF CountRound

(* What one call of check_targets with the targets of the next state and a  *)
(* map `map' does: the counters stay behind the rounds, and the request, if *)
(* one is sent, asks for every recent target of the map.                    *)
LEMMA CheckKeeps ==
  ASSUME IInv, NEW map \in SUBSET Ranks, DOMAIN my_targets' \subseteq Ranks,
         check_targets(DOMAIN my_targets', map), CountRound
  PROVE  /\ CountsNeverAhead'
         /\ to_mon' \in Seq(SUBSET Ranks)
         /\ Len(to_mon') > Len(to_mon) =>
              \A p \in map : rounds'[p] < mds_bal_target_removal_min => p \in to_mon'[Len(to_mon')]
  <1> DEFINE need == DOMAIN my_targets'
             prev == new_prev_targets(need, map)
  <1> USE TargetsAssumption
  <1>1. \A p \in Ranks : count(p) \in Nat /\ count(p) <= rounds[p]
    BY DEF IInv, CountsNeverAhead, count
  <1>2. /\ DOMAIN prev = need \cup map
        /\ \A p \in need : prev[p] = 0
        /\ \A p \in map \ need : prev[p] = Saturate(count(p) + 1)
    BY DEF new_prev_targets
  <1>3. /\ rounds' \in [Ranks -> Nat]
        /\ \A p \in need : rounds'[p] = 0
        /\ \A p \in Ranks \ need : rounds'[p] = Saturate(rounds[p] + 1)
    BY RoundCounted
  <1>a. /\ old_prev_targets' = prev
        /\ to_mon' = IF must_send(need, map, prev) THEN Append(to_mon, want_targets(need, prev))
                                                   ELSE to_mon
    BY DEF check_targets
  <1>b. \A p \in Ranks : rounds[p] \in Nat
    BY DEF IInv, CountsNeverAhead
  <1> HIDE DEF need, prev
  <1>4. \A p \in DOMAIN prev : prev[p] \in Nat /\ prev[p] <= rounds'[p]
    <2> SUFFICES ASSUME NEW p \in DOMAIN prev PROVE prev[p] \in Nat /\ prev[p] <= rounds'[p]
      OBVIOUS
    <2>1. CASE p \in need
      BY <2>1, <1>2, <1>3
    <2>2. CASE p \notin need
      <3>1. p \in map \ need /\ p \in Ranks
        BY <2>2, <1>2
      <3> QED BY <3>1, <1>1, <1>2, <1>3, <1>b DEF Saturate
    <2> QED BY <2>1, <2>2
  <1>5. CountsNeverAhead'
    <2>1. DOMAIN prev \subseteq Ranks
      BY <1>2 DEF need
    <2> QED BY <1>3, <1>4, <1>a, <2>1 DEF CountsNeverAhead
  <1>6. want_targets(need, prev) \in SUBSET Ranks
    BY <1>2 DEF want_targets, need
  <1>7. to_mon' \in Seq(SUBSET Ranks)
    BY <1>6, <1>a DEF IInv, TargetsAreRanks
  <1>8. ASSUME Len(to_mon') > Len(to_mon), NEW p \in map,
               rounds'[p] < mds_bal_target_removal_min
        PROVE  p \in to_mon'[Len(to_mon')]
    <2>1. to_mon' = Append(to_mon, want_targets(need, prev))
      BY <1>8, <1>a DEF IInv, TargetsAreRanks
    <2>2. to_mon'[Len(to_mon')] = want_targets(need, prev)
      BY <1>6, <2>1 DEF IInv, TargetsAreRanks
    <2>3. p \in want_targets(need, prev)
      BY <1>2, <1>3, <1>4, <1>8 DEF want_targets
    <2> QED BY <2>2, <2>3
  <1> QED BY <1>5, <1>7, <1>8

(* Decisions that only clear the targets count as a round and send nothing. *)
LEMMA ClearedKeeps == IInv /\ Cleared => IInv' /\ Len(to_mon') <= Len(to_mon)
  <1> SUFFICES ASSUME IInv, Cleared PROVE IInv' /\ Len(to_mon') <= Len(to_mon)
    OBVIOUS
  <1>1. DOMAIN my_targets' = {}
    BY DEF Cleared, NoTargets
  <1>2. /\ UNCHANGED <<old_prev_targets, map_targets, mon_targets, to_mon>>
        /\ CountRound
    BY DEF Cleared
  <1>3. /\ rounds' \in [Ranks -> Nat]
        /\ \A p \in Ranks : rounds'[p] = Saturate(rounds[p] + 1)
    BY <1>1, <1>2, RoundCounted
  <1>4. \A p \in DOMAIN old_prev_targets :
          old_prev_targets[p] <= Saturate(rounds[p] + 1)
    BY TargetsAssumption DEF IInv, CountsNeverAhead, Saturate
  <1>5. CountsNeverAhead'
    BY <1>2, <1>3, <1>4 DEF IInv, CountsNeverAhead
  <1>6. Len(to_mon) \in Nat
    BY DEF IInv, TargetsAreRanks
  <1> QED BY <1>1, <1>2, <1>5, <1>6 DEF IInv, TargetsAreRanks

(* Steps of the monitors, and the thrashing hack, touch neither the         *)
(* counters nor the rounds, and send nothing.                               *)
Quiet == ThrashExport \/ RecordTargets \/ LoseMessage

LEMMA QuietKeeps == IInv /\ Quiet => IInv' /\ Len(to_mon') <= Len(to_mon)
  <1> SUFFICES ASSUME IInv, Quiet PROVE IInv' /\ Len(to_mon') <= Len(to_mon)
    OBVIOUS
  <1>1. CASE ThrashExport
    <2>1. UNCHANGED <<my_targets, old_prev_targets, map_targets, mon_targets, to_mon, rounds>>
      BY <1>1 DEF ThrashExport
    <2>2. Len(to_mon) \in Nat
      BY DEF IInv, TargetsAreRanks
    <2> QED BY <2>1, <2>2 DEF IInv, CountsNeverAhead, TargetsAreRanks
  <1>2. CASE RecordTargets \/ LoseMessage
    <2>1. /\ to_mon # <<>> /\ to_mon' = Tail(to_mon) /\ mon_targets' \in {mon_targets, Head(to_mon)}
          /\ UNCHANGED <<my_targets, old_prev_targets, map_targets, rounds>>
      BY <1>2 DEF RecordTargets, LoseMessage
    <2>2. /\ to_mon' \in Seq(SUBSET Ranks) /\ Len(to_mon') <= Len(to_mon)
          /\ Head(to_mon) \in SUBSET Ranks
      BY <2>1 DEF IInv, TargetsAreRanks
    <2> QED BY <2>1, <2>2 DEF IInv, CountsNeverAhead, TargetsAreRanks
  <1> QED BY <1>1, <1>2 DEF Quiet

(* The steps that call try_rebalance do so with the targets and the map of  *)
(* the state they lead to.                                                  *)
Decides == Overloaded \/ Thrash \/ custom_balancer \/ handle_mds_map

LEMMA DecidesTries ==
  ASSUME IInv, Decides
  PROVE  /\ check_targets(DOMAIN my_targets', map_targets') /\ CountRound
         /\ DOMAIN my_targets' \subseteq Ranks
         /\ map_targets' \subseteq Ranks /\ mon_targets' = mon_targets
  <1> USE TargetsAssumption
  <1>1. CASE Overloaded
    <2>1. my_targets' \in PartialMaps(Ranks \ {whoami}, 1 .. MaxAmount)
      BY <1>1 DEF Overloaded
    <2>2. DOMAIN my_targets' \subseteq Ranks
      BY <2>1 DEF PartialMaps
    <2>3. UNCHANGED <<map_targets, mon_targets>> /\ try_rebalance(my_targets', map_targets, {})
      BY <1>1 DEF Overloaded
    <2> QED BY <2>2, <2>3 DEF IInv, TargetsAreRanks, try_rebalance
  <1>2. CASE Thrash
    <2>1. /\ DOMAIN my_targets' = Ranks /\ UNCHANGED <<map_targets, mon_targets>>
          /\ try_rebalance(my_targets', map_targets, {})
      BY <1>2 DEF Thrash
    <2> QED BY <2>1 DEF IInv, TargetsAreRanks, try_rebalance
  <1>3. CASE custom_balancer
    <2>1. DOMAIN my_targets' \subseteq Ranks
      <3>1. CASE \E targets \in [Ranks -> Amounts] : my_targets' = lua_return(targets)
        BY <3>1 DEF lua_return
      <3>2. CASE \E k \in 0 .. N : my_targets' \in [0 .. k - 1 -> Amounts]
        BY <3>2 DEF Ranks
      <3> QED BY <1>3, <3>1, <3>2 DEF custom_balancer
    <2>2. /\ try_rebalance(my_targets', map_targets, {})
          /\ UNCHANGED <<map_targets, mon_targets>>
      BY <1>3 DEF custom_balancer
    <2> QED BY <2>1, <2>2 DEF IInv, TargetsAreRanks, try_rebalance
  <1>4. CASE handle_mds_map
    <2>1. /\ map_targets' = mon_targets /\ UNCHANGED <<my_targets, mon_targets>>
          /\ try_rebalance(my_targets, mon_targets, exports)
      BY <1>4 DEF handle_mds_map
    <2> QED BY <2>1 DEF IInv, TargetsAreRanks, try_rebalance
  <1> QED BY <1>1, <1>2, <1>3, <1>4 DEF Decides

(* What every step shows: the invariant is kept, and requests keep the      *)
(* recent targets.                                                          *)
LEMMA StepShows ==
  ASSUME IInv, Next
  PROVE  /\ IInv'
         /\ Len(to_mon') > Len(to_mon) =>
              \A p \in map_targets' :
                rounds'[p] < mds_bal_target_removal_min => p \in to_mon'[Len(to_mon')]
  <1>1. CASE Quiet \/ Cleared
    <2>1. IInv' /\ Len(to_mon') <= Len(to_mon)
      BY <1>1, QuietKeeps, ClearedKeeps
    <2>2. Len(to_mon) \in Nat /\ Len(to_mon') \in Nat
      BY <2>1 DEF IInv, TargetsAreRanks
    <2> QED BY <2>1, <2>2
  <1>2. CASE Decides
    <2>1. /\ check_targets(DOMAIN my_targets', map_targets') /\ CountRound
          /\ DOMAIN my_targets' \subseteq Ranks
          /\ map_targets' \subseteq Ranks /\ mon_targets' = mon_targets
      BY <1>2, DecidesTries
    <2>2. /\ CountsNeverAhead'
          /\ to_mon' \in Seq(SUBSET Ranks)
          /\ Len(to_mon') > Len(to_mon) =>
               \A p \in map_targets' :
                 rounds'[p] < mds_bal_target_removal_min => p \in to_mon'[Len(to_mon')]
      BY <2>1, CheckKeeps
    <2>3. TargetsAreRanks'
      BY <2>1, <2>2 DEF IInv, TargetsAreRanks
    <2> QED BY <2>1, <2>2, <2>3 DEF IInv
  <1> QED BY <1>1, <1>2 DEF Next, Quiet, Decides, NotOverloaded, NoScript

(* A balancer that has just been constructed has no targets and no counters.*)
LEMMA InitEstablishes == Init => IInv
  <1> SUFFICES ASSUME Init PROVE IInv
    OBVIOUS
  <1>1. DOMAIN NoTargets = {}
    BY DEF NoTargets
  <1> QED BY <1>1 DEF Init, IInv, CountsNeverAhead, TargetsAreRanks

(* The invariant depends on the balancer's state only.                      *)
LEMMA StutterKeeps == IInv /\ UNCHANGED vars => IInv'
  BY DEF IInv, CountsNeverAhead, TargetsAreRanks, vars

(* The counters of check_targets stay behind the rounds really made, so     *)
(* that no target is forgotten early.                                       *)
THEOREM CountsNeverAheadAlways == Spec => []CountsNeverAhead
  <1>1. IInv /\ [Next]_vars => IInv'
    BY StepShows, StutterKeeps
  <1>2. IInv => CountsNeverAhead
    BY DEF IInv
  <1> QED BY InitEstablishes, <1>1, <1>2, PTL DEF Spec

(* No request of check_targets drops a target of the map that was one       *)
(* within the last mds_bal_target_removal_min decisions and maps.           *)
THEOREM RecentTargetKeptAlways == Spec => RecentTargetKept
  <1>1. IInv /\ [Next]_vars => IInv'
    BY StepShows, StutterKeeps
  <1>2. IInv /\ [Next]_vars =>
          [Len(to_mon') > Len(to_mon) =>
             \A p \in map_targets' :
               rounds'[p] < mds_bal_target_removal_min => p \in to_mon'[Len(to_mon')]]_vars
    BY StepShows
  <1> QED BY InitEstablishes, <1>1, <1>2, PTL DEF Spec, RecentTargetKept

=============================================================================
