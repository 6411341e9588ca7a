--------------------------- MODULE RebalanceMatch ---------------------------
(***************************************************************************)
(* MDBalancer::prep_rebalance: a rank that holds the loads of the cluster   *)
(* works out the whole transfer of load from exporters to importers and     *)
(* keeps the part that it has to send itself (my_targets).                  *)
(*                                                                         *)
(* The module is the balancer of one rank.  The ranks share nothing: each   *)
(* is called with the loads, import maps, epoch and beat that have reached  *)
(* it, in units of its own (load_fac), so every call takes any of them.     *)
(* Loads are integers, chosen so that the target load is an integer too;    *)
(* each iteration of a loop of the code is a step.                          *)
(***************************************************************************)
EXTENDS Integers, Functions

CONSTANTS
  N,                      \* cluster_size
  whoami,                 \* the rank
  mds_bal_min_rebalance,  \* option, in percent
  Tiny,                   \* the .001 below which a load counts as nothing
  Loads,                  \* the gathered loads considered
  ImportMaps,             \* the gathered import maps: from whom a rank imports
  Epochs                  \* the epochs considered

Ranks == 0 .. N - 1

ASSUME MatchAssumption ==
  /\ N \in Nat \ {0} /\ whoami \in Ranks
  /\ mds_bal_min_rebalance \in Nat /\ Tiny \in Nat
  /\ Loads \subseteq [Ranks -> Nat]
  /\ ImportMaps \subseteq [Ranks -> SUBSET Ranks]
  /\ Epochs \subseteq Nat

VARIABLES
  mds_meta_load,   \* the load of each rank
  target_load,
  mds_import_map,  \* the ranks each rank imports from
  beat_odd,        \* beat % 2 == 1
  last_epoch_under,
  pc,              \* "idle", "imports" (first pass) or "pairs" (second pass)
  exs, ims,        \* exporters and importers the loop has still to visit
  left,            \* left[ex]: import sources of ex still to visit
  exported, imported,
  my_targets       \* my_targets[im]: what this rank is to send to im

inputs == <<mds_meta_load, target_load, mds_import_map, beat_odd, last_epoch_under>>
vars == <<inputs, pc, exs, ims, left, exported, imported, my_targets>>

Zero == [r \in Ranks |-> 0]

get_maxex(ex) == mds_meta_load[ex] - target_load - exported[ex]

(* Mutant: what was already imported is not deducted.                       *)
get_maxim_Gross(im) == target_load - mds_meta_load[im]

get_maxim(im) == target_load - mds_meta_load[im] - imported[im]

importers == {r \in Ranks : mds_meta_load[r] < target_load}
exporters == Ranks \ importers

(* multimap order: by load, ties in the order of insertion (by rank).       *)
Precedes(a, b) ==
  \/ mds_meta_load[a] < mds_meta_load[b]
  \/ mds_meta_load[a] = mds_meta_load[b] /\ a <= b
IsFirst(x, S) == x \in S /\ \A y \in S : Precedes(x, y)
IsLast(x, S) == x \in S /\ \A y \in S : Precedes(y, x)

Init ==
  /\ mds_meta_load = Zero /\ target_load = 0
  /\ mds_import_map = [r \in Ranks |-> {}] /\ beat_odd = FALSE
  /\ last_epoch_under = 0 /\ pc = "idle"
  /\ exs = {} /\ ims = {} /\ left = [r \in Ranks |-> {}]
  /\ exported = Zero /\ imported = Zero /\ my_targets = Zero

(* mds_thrash_exports: every rank is a target, of nothing in particular.    *)
ThrashExports ==
  /\ pc = "idle"
  /\ my_targets' = Zero
  /\ UNCHANGED <<inputs, pc, exs, ims, left, exported, imported>>

(* The loads as prep_rebalance takes them up.  Any load can be scaled so    *)
(* that the average is an integer: the load of r is N times its share.      *)
TakeLoads(loads, imports, odd) ==
  /\ mds_meta_load' = [r \in Ranks |-> N * loads[r]]
  /\ target_load' = SumFunction(loads)
  /\ mds_import_map' = imports
  /\ beat_odd' = odd

Overloaded == 100 * mds_meta_load[whoami] >= target_load * (100 + mds_bal_min_rebalance)

LongEnough(epoch) == last_epoch_under = 0 \/ epoch - last_epoch_under >= 2

(* Under or over, and over for long enough?                                 *)
Decide(epoch) ==
  /\ last_epoch_under' = IF Overloaded' THEN last_epoch_under ELSE epoch
  /\ IF Overloaded' /\ LongEnough(epoch)
       THEN pc' = "imports" /\ exs' = exporters'
       ELSE pc' = "idle" /\ exs' = {}
  /\ left' = mds_import_map'
  /\ UNCHANGED ims

(* Mutant: my_targets is not cleared.                                       *)
prep_rebalance_KeepsTargets(loads, imports, odd, epoch) ==
  /\ pc = "idle"
  /\ TakeLoads(loads, imports, odd) /\ Decide(epoch)
  /\ exported' = Zero /\ imported' = Zero /\ UNCHANGED my_targets

(* The reset, the loads, the early returns and the split.                   *)
prep_rebalance(loads, imports, odd, epoch) ==
  /\ pc = "idle"
  /\ TakeLoads(loads, imports, odd) /\ Decide(epoch)
  /\ my_targets' = Zero /\ exported' = Zero /\ imported' = Zero

Smaller(a, b) == IF a <= b THEN a ELSE b

(* Called only with both bounds at or above zero.                           *)
try_match(ex, im) ==
  LET howmuch == Smaller(get_maxex(ex), get_maxim(im))
  IN  /\ my_targets' = IF ex = whoami THEN [my_targets EXCEPT ![im] = @ + howmuch] ELSE my_targets
      /\ exported' = [exported EXCEPT ![ex] = @ + howmuch]
      /\ imported' = [imported EXCEPT ![im] = @ + howmuch]

-----------------------------------------------------------------------------
(* First pass: the biggest exporter left, one of its import sources.        *)
MatchImportSource ==
  /\ pc = "imports"
  /\ \E ex \in exs :
       /\ IsLast(ex, exs) /\ get_maxex(ex) > Tiny
       /\ \E im \in left[ex] :
            /\ \A other \in left[ex] : im <= other
            /\ left' = [left EXCEPT ![ex] = @ \ {im}]
            /\ \/ get_maxim(im) > Tiny /\ try_match(ex, im)
               \/ get_maxim(im) <= Tiny /\ UNCHANGED <<exported, imported, my_targets>>
  /\ UNCHANGED <<inputs, pc, exs, ims>>

NextExporter ==
  /\ pc = "imports"
  /\ \E ex \in exs : /\ IsLast(ex, exs)
                     /\ get_maxex(ex) <= Tiny \/ left[ex] = {}
                     /\ exs' = exs \ {ex}
  /\ UNCHANGED <<inputs, pc, ims, left, exported, imported, my_targets>>

StartPairs ==
  /\ pc = "imports" /\ exs = {}
  /\ pc' = "pairs" /\ exs' = exporters /\ ims' = importers
  /\ UNCHANGED <<inputs, left, exported, imported, my_targets>>

(* Second pass: the exporter that is next, the importer with the least load.*)
(* The match leaves the difference of the two to the larger one.            *)
CurrentExporter(ex) == IF beat_odd THEN IsLast(ex, exs) ELSE IsFirst(ex, exs)

(* Mutant: both iterators advance, whichever side has something left.       *)
MatchPair_AdvancesBoth ==
  /\ pc = "pairs"
  /\ \E ex \in exs, im \in ims :
       /\ CurrentExporter(ex) /\ IsFirst(im, ims)
       /\ get_maxex(ex) >= Tiny /\ get_maxim(im) >= Tiny
       /\ try_match(ex, im)
       /\ exs' = exs \ {ex} /\ ims' = ims \ {im}
  /\ UNCHANGED <<inputs, pc, left>>

MatchPair ==
  /\ pc = "pairs"
  /\ \E ex \in exs, im \in ims :
       /\ CurrentExporter(ex) /\ IsFirst(im, ims)
       /\ get_maxex(ex) >= Tiny /\ get_maxim(im) >= Tiny
       /\ try_match(ex, im)
       /\ exs' = IF get_maxex(ex) - get_maxim(im) <= Tiny THEN exs \ {ex} ELSE exs
       /\ ims' = IF get_maxim(im) - get_maxex(ex) <= Tiny THEN ims \ {im} ELSE ims
  /\ UNCHANGED <<inputs, pc, left>>

(* The loop ends; try_rebalance takes it from there.                        *)
PairsDone ==
  /\ pc = "pairs"
  /\ \/ exs = {} \/ ims = {}
     \/ \E ex \in exs, im \in ims :
          /\ CurrentExporter(ex) /\ IsFirst(im, ims)
          /\ get_maxex(ex) < Tiny \/ get_maxim(im) < Tiny
  /\ pc' = "idle" /\ exs' = {} /\ ims' = {}
  /\ UNCHANGED <<inputs, left, exported, imported, my_targets>>

Match == MatchImportSource \/ NextExporter \/ StartPairs \/ MatchPair \/ PairsDone

Next ==
  \/ ThrashExports
  \/ \E loads \in Loads, imports \in ImportMaps, odd \in BOOLEAN, epoch \in Epochs :
       prep_rebalance(loads, imports, odd, epoch)
  \/ Match

(* prep_rebalance is straight-line code: once started it goes on.           *)
Spec == Init /\ [][Next]_vars /\ WF_vars(Match)

-----------------------------------------------------------------------------
Excess(r) == IF r \in exporters THEN mds_meta_load[r] - target_load ELSE 0
Room(r) == IF r \in importers THEN target_load - mds_meta_load[r] ELSE 0

(* The balancer's per-epoch state.                                          *)
TypeOK ==
  /\ mds_meta_load \in [Ranks -> Nat] /\ target_load \in Nat
  /\ mds_import_map \in [Ranks -> SUBSET Ranks] /\ beat_odd \in BOOLEAN
  /\ last_epoch_under \in Nat
  /\ pc \in {"idle", "imports", "pairs"}
  /\ exs \subseteq Ranks /\ ims \subseteq Ranks
  /\ left \in [Ranks -> SUBSET Ranks]
  /\ exported \in [Ranks -> Nat] /\ imported \in [Ranks -> Nat]
  /\ my_targets \in [Ranks -> Nat]

(* While prep_rebalance matches, no exporter is made to give away more than *)
(* its load above the target and no importer to take more than its room     *)
(* below it: a round of balancing does not turn one into the other.         *)
NoOvershoot ==
  pc # "idle" => \A r \in Ranks : exported[r] <= Excess(r) /\ imported[r] <= Room(r)

(* What try_rebalance finds to send, on whatever path prep_rebalance was    *)
(* left and whatever earlier calls left behind, takes this rank no lower    *)
(* than the target and no importer higher, by the loads of the last call    *)
(* that looked at any.                                                      *)
SendsOnlyItsExcess ==
  /\ SumFunction(my_targets) <= Excess(whoami)
  /\ \A im \in Ranks : my_targets[im] <= Room(im)

(* Where no rank imports and each is off the target by .001 or more, the    *)
(* loop of the second pass does not stop early: it leaves at most .001 for  *)
(* every rank in excess and room behind.  (An exporter at the target, the   *)
(* first of the "new way", ends the loop with nothing matched.)             *)
PlanBalances ==
  (/\ pc = "pairs" /\ pc' = "idle"
   /\ \A r \in Ranks : mds_import_map[r] = {} /\ Excess(r) + Room(r) >= Tiny)
  => \A r \in Ranks : Excess(r) <= exported[r] + N * Tiny /\ Room(r) <= imported[r] + N * Tiny

(* The loops of prep_rebalance end, and end with a plan that balances.      *)
MatchingIsComplete == [][PlanBalances]_vars /\ []<>(pc = "idle")
=============================================================================
