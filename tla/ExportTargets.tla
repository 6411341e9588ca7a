--------------------------- MODULE ExportTargets ---------------------------
(***************************************************************************)
(* MDBalancer::check_targets and the control of try_rebalance: a rank sends *)
(* the load of a decision only to ranks that the MDS map lists as its       *)
(* export targets, so it asks the monitors to record them, and stops asking *)
(* for old ones after a while.                                              *)
(*                                                                         *)
(* One rank is modelled with the monitors; a decision of the balancer       *)
(* (built-in, thrashing or Lua) gives my_targets.  Which directories make   *)
(* up an amount is left out.                                                *)
(***************************************************************************)
EXTENDS Integers, Sequences

CONSTANTS
  N,                           \* number of ranks in the cluster
  whoami,
  Modes,                       \* how the options may be set when they are read:
                               \* "builtin", "thrash" or "lua"
  mds_bal_target_removal_min,
  mds_bal_target_removal_max,
  mds_bal_minoffload,
  MaxAmount,                   \* bound on the amounts considered
  MaxInFlight                  \* bound on messages to the monitors in flight

Ranks == 0 .. N - 1

ASSUME TargetsAssumption ==
  /\ N \in Nat \ {0} /\ whoami \in Ranks
  /\ mds_bal_target_removal_min \in Nat /\ mds_bal_target_removal_max \in Nat
  /\ Modes \subseteq {"builtin", "thrash", "lua"}
  /\ mds_bal_minoffload \in Nat \ {0} /\ MaxAmount \in Nat /\ MaxInFlight \in Nat

VARIABLES
  my_targets,        \* map of target to amount; its DOMAIN is the key set
  old_prev_targets,  \* map of rank to number of checks it was no target
  map_targets,       \* export_targets in the MDS map this rank has
  mon_targets,       \* export_targets the monitors have recorded
  to_mon,            \* MMDSLoadTargets in flight
  thrash,            \* mds_thrash_exports as try_rebalance read it last
  exports,           \* <<why, rank>>: exports looked for since the last decision
  rounds,            \* rounds[p]: decisions and maps since p was a target
  lost               \* was a message lost since the last check_targets?

vars == <<my_targets, old_prev_targets, map_targets, mon_targets, to_mon, thrash,
          exports, rounds, lost>>

NoTargets == <<>>
Amounts == 0 .. MaxAmount
PartialMaps(S, T) == UNION {[D -> T] : D \in SUBSET S}

Init ==
  /\ my_targets = NoTargets /\ old_prev_targets = NoTargets
  /\ map_targets = {} /\ mon_targets = {} /\ to_mon = <<>>
  /\ thrash = FALSE /\ exports = {}
  /\ rounds = [p \in Ranks |-> 0] /\ lost = FALSE

-----------------------------------------------------------------------------
(* The counters are compared with the two options only: they may stop at    *)
(* the larger one.                                                          *)
Saturate(n) ==
  IF n <= mds_bal_target_removal_max \/ n <= mds_bal_target_removal_min THEN n ELSE n - 1

count(p) == IF p \in DOMAIN old_prev_targets THEN old_prev_targets[p] ELSE 0

new_prev_targets(need, map) ==
  [p \in need \cup map |->
    IF p \in need THEN 0
                  ELSE Saturate(count(p) + 1)]

(* Mutant: only the targets needed now are asked for.                       *)
want_targets_NeedOnly(need, prev) == need

want_targets(need, prev) ==
  need \cup {p \in DOMAIN prev : prev[p] < mds_bal_target_removal_min}

(* Mutant: the message is sent only to get rid of old targets.              *)
must_send_OldOnly(need, map, prev) ==
  \E p \in DOMAIN prev : prev[p] >= mds_bal_target_removal_max

must_send(need, map, prev) ==
  \/ ~(need \subseteq map)
  \/ \E p \in DOMAIN prev : prev[p] >= mds_bal_target_removal_max

check_targets(need, map) ==
  LET prev == new_prev_targets(need, map)
  IN  /\ Len(to_mon) < MaxInFlight
      /\ old_prev_targets' = prev
      /\ to_mon' = IF must_send(need, map, prev)
                     THEN Append(to_mon, want_targets(need, prev))
                     ELSE to_mon
      /\ lost' = FALSE

targets_ok(need, map) == need \subseteq map

(* Not code: a decision was made, or a map came.                            *)
CountRound ==
  rounds' = [p \in Ranks |-> IF p \in DOMAIN my_targets' THEN 0 ELSE Saturate(rounds[p] + 1)]

WorthIt(targets) == {t \in DOMAIN targets : targets[t] >= mds_bal_minoffload}

(* try_rebalance: nothing unless the map has all targets and the thrashing  *)
(* option is off; then idle imports go back to whoever had them, be they    *)
(* targets or not, and load is looked for to send to each target whose      *)
(* amount is worth it.                                                      *)
try_rebalance(targets, map, before) ==
  /\ check_targets(DOMAIN targets, map)
  /\ CountRound
  /\ thrash' \in {m = "thrash" : m \in Modes}
  /\ \/ /\ targets_ok(DOMAIN targets, map) /\ ~thrash'
        /\ \E idle \in SUBSET (Ranks \ {whoami}) :
             exports' = before \cup ({"idle"} \X idle) \cup ({"target"} \X WorthIt(targets))
     \/ /\ ~targets_ok(DOMAIN targets, map) \/ thrash'
        /\ exports' = before

-----------------------------------------------------------------------------
(* The decisions that end without try_rebalance, with the targets cleared:  *)
(* prep_rebalance on a rank that is not overloaded, or not for long enough, *)
(* and custom_balancer without when/where scripts.                          *)
Cleared ==
  /\ my_targets' = NoTargets /\ exports' = {}
  /\ CountRound
  /\ UNCHANGED <<old_prev_targets, map_targets, mon_targets, to_mon, thrash, lost>>

NotOverloaded == "builtin" \in Modes /\ Cleared
NoScript == "lua" \in Modes /\ Cleared

Overloaded ==
  /\ "builtin" \in Modes
  /\ my_targets' \in PartialMaps(Ranks \ {whoami}, 1 .. MaxAmount)
  /\ try_rebalance(my_targets', map_targets, {})
  /\ UNCHANGED <<map_targets, mon_targets>>

Thrash ==
  /\ "thrash" \in Modes
  /\ my_targets' = [p \in Ranks |-> 0]
  /\ try_rebalance(my_targets', map_targets, {})
  /\ UNCHANGED <<map_targets, mon_targets>>

(* The end of the Lua script: a script that sends load to its own rank has  *)
(* all its targets zeroed.                                                  *)
lua_return(targets) ==
  IF targets[whoami] # 0 THEN [p \in Ranks |-> 0] ELSE targets

(* custom_balancer: every rank becomes a key of my_targets.  When the       *)
(* script fails, the result buffer was never written and what is parsed     *)
(* from it is whatever the stack holds.                                     *)
custom_balancer ==
  /\ "lua" \in Modes
  /\ \/ \E targets \in [Ranks -> Amounts] : my_targets' = lua_return(targets)
     \/ \E k \in 0 .. N : my_targets' \in [0 .. k - 1 -> Amounts]
  /\ try_rebalance(my_targets', map_targets, {})
  /\ UNCHANGED <<map_targets, mon_targets>>

(* The end of handle_mds_map: every new map, whatever changed in it, makes  *)
(* the balancer try again with the targets it has.                          *)
handle_mds_map ==
  /\ map_targets' = mon_targets
  /\ UNCHANGED <<my_targets, mon_targets>>
  /\ try_rebalance(my_targets, mon_targets, exports)

(* The thrashing hack of _dispatch: a random directory to a random rank.    *)
ThrashExport ==
  /\ "thrash" \in Modes
  /\ \E dest \in Ranks \ {whoami} : exports' = exports \cup {<<"thrash", dest>>}
  /\ UNCHANGED <<my_targets, old_prev_targets, map_targets, mon_targets, to_mon, thrash,
                 rounds, lost>>

(* External: the monitors record the targets; or never get the message.     *)
RecordTargets ==
  /\ to_mon # <<>>
  /\ mon_targets' = Head(to_mon) /\ to_mon' = Tail(to_mon)
  /\ UNCHANGED <<my_targets, old_prev_targets, map_targets, thrash, exports, rounds, lost>>

LoseMessage ==
  /\ to_mon # <<>>
  /\ to_mon' = Tail(to_mon) /\ lost' = TRUE
  /\ UNCHANGED <<my_targets, old_prev_targets, map_targets, mon_targets, thrash, exports,
                 rounds>>

Next ==
  \/ NotOverloaded \/ Overloaded \/ Thrash \/ custom_balancer \/ NoScript
  \/ handle_mds_map \/ ThrashExport \/ RecordTargets \/ LoseMessage

NewMap == map_targets # mon_targets /\ handle_mds_map

(* The monitors handle what they get and publish the map they changed (the  *)
(* bound on messages in flight may hold that up, hence strong fairness).    *)
Spec == Init /\ [][Next]_vars /\ WF_vars(RecordTargets) /\ SF_vars(NewMap)

-----------------------------------------------------------------------------
(* The balancer's view of its targets.                                      *)
TypeOK ==
  /\ my_targets \in PartialMaps(Ranks, Amounts)
  /\ DOMAIN old_prev_targets \subseteq Ranks
  /\ \A p \in DOMAIN old_prev_targets : old_prev_targets[p] \in Nat
  /\ map_targets \subseteq Ranks /\ mon_targets \subseteq Ranks
  /\ Len(to_mon) <= MaxInFlight /\ \A i \in DOMAIN to_mon : to_mon[i] \subseteq Ranks
  /\ exports \subseteq {"idle", "target", "thrash"} \X Ranks
  /\ thrash \in BOOLEAN /\ lost \in BOOLEAN

(* check_targets never asks the monitors to drop a rank that was a target   *)
(* within the last removal_min rounds, a round being a decision of the      *)
(* balancer or a new MDS map.  (config_opts.h says of the option "min       *)
(* balance iterations before old target is removed"; handle_mds_map calls   *)
(* try_rebalance for every map, so maps that come between two iterations    *)
(* use it up faster and the bound does not hold for iterations alone.)      *)
RecentTargetKept ==
  [][Len(to_mon') > Len(to_mon) =>
       \A p \in map_targets' :
         rounds'[p] < mds_bal_target_removal_min => p \in to_mon'[Len(to_mon')]]_vars

(* A decision is carried out: the monitors record its targets, and then     *)
(* try_rebalance looks for load to send to each of them whose amount is     *)
(* worth it.  Excepted are a decision that another one replaces, a request  *)
(* lost after the last check (nothing asks again then), and an export held  *)
(* back by mds_thrash_exports.  An older request in flight that leaves a    *)
(* target out, or a map without it, only makes check_targets ask again.     *)
DecisionsAreCarriedOut ==
  \A need \in SUBSET Ranks : \A worth \in SUBSET need :
    LET Decision == DOMAIN my_targets = need /\ WorthIt(my_targets) = worth
    IN  Decision ~> \/ ~Decision \/ lost
                    \/ /\ need \subseteq map_targets
                       /\ thrash \/ {"target"} \X worth \subseteq exports
=============================================================================
