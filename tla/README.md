# Mantle MDS: specifications, model checking and proofs

This directory models the metadata server (MDS) of the repository, Ceph's MDS
with a balancer whose policy can be written in Lua (Mantle), and the client
library that talks to it. Paths below are relative to `src/src/mds/` unless they
say otherwise; `Client.cc` is `src/src/client/Client.cc`.

## The system and its parts

A cluster has several MDS ranks. Each holds a part of the file system tree in
its cache and is the *authority* for some of its *subtrees*.

| Part | Code | Model |
|---|---|---|
| Balancer heartbeats | `MDBalancer.cc` `tick`, `send_heartbeat`, `handle_heartbeat` | `Heartbeat` |
| Matching exporters with importers | `MDBalancer.cc` `prep_rebalance`, `try_match` | `RebalanceMatch` |
| Export targets, Lua hook | `MDBalancer.cc` `check_targets`, `try_rebalance`, `custom_balancer` | `ExportTargets` |
| Subtree map | `MDCache.cc` 732-1380, `CDir::set_dir_auth` | `SubtreeMap` |
| Auth pins and freezing | `CDir.cc` 2240-2800 | `CDirFreeze` |
| Message dispatch, deferral while laggy, progress thread | `MDS.cc` `_dispatch`, `_advance_queues`, `ProgressThread` | `Dispatch` |
| Beacons | `Beacon.cc` | `Beacon` |
| Multi-rank updates: prepare, commit, rollback, and resolve after crashes | `Server.cc` (link, rmdir, rename and their slave handlers), `MDCache.cc` 2290-3390, parts of `MDS.cc` | `SlaveCommit`, `AtomicUpdate` |
| Sessions and requests, at both ends | `Server.cc`, `MDCache.cc`, `MDS.cc`, `Client.cc` | `MetaClient`, `MetaServer`, `ClientServer` |
| Namespace operations and strays | `Server.cc`, `MDCache.cc`, `CDir.cc` | `Namespace` |
| Capabilities, dentries and leases of a client | `Client.cc` | `ClientCaps`, `ClientDentries`, `ClientInode` |
| Directory storage and fragmentation | `CDir.cc`, `MDCache.cc` | `DirFrag`, `Fragment` |

How they interact: rank 0 opens a heartbeat epoch; every rank answers with its
load; a rank that holds a load of every rank computes the whole matching on its
own (`prep_rebalance`), keeps its part (`my_targets`), has the monitors record
its targets (`check_targets`) and then exports subtrees. An export freezes a
tree (`CDir::freeze_tree`) and moves its authority
(`MDCache::adjust_subtree_auth`). All of it runs in handlers and contexts that
one lock, `mds_lock`, serialises; `Dispatch` models how they get their turn.
Beacons tell the monitors that the daemon is alive, and the daemon that it may
no longer be trusted (`is_laggy`).

A client opens a session and sends requests. The MDS locks, projects the change,
journals it and mostly replies early, before the journal entry is safe; a client
replays what it was told early when the MDS crashes. An operation that touches
objects of several ranks is a request of one of them, the master, with the
others as slaves; when a rank crashes, the resolve stage of recovery settles
what the slaves had prepared. Directories are stored as dirfrags, which are
split and merged while in use.

`Migrator`, `Locker`, `MDLog`, `CInode`, `SessionMap`, the messenger, the object
store and the monitors are not in the repository. Where a model needs them, it
has a definition marked external in `PROJECT.json` that does what the code here
relies on.

`SlaveCommit` implements `AtomicUpdate` (a refinement, checked as a property).
The composed modules are `ClientServer` (client and daemon), `ClientInode`
(capability and dentry code of a client with the ranks) and `Fragment` (the
dirfrags of `DirFrag` under a fragmentation and crashes).

## Modules

A model keeps the control of the code: each action is a whole handler, with all
it calls. Where handlers call each other much (`CDirFreeze`, `SlaveCommit`,
`MetaServer`, `MetaClient`, `ClientCaps`, `ClientDentries`, `DirFrag`), a
function of the code is an operator of the same name from the record of the
daemon's or client's memory to its new value, and an action applies one of them.
A failed assertion of the code is recorded in that record.

### Heartbeat
State: `beat_epoch`, `mds_load`, `last_epoch_under`, `num_bal_times` of each
rank, as in the class; the MDS map each rank has received; the messages in
flight, ordered per pair; the contexts that wait until the cache is open and the
finished queue they move to. A load is the number of the beat it was taken in.
Actions: `tick`, `Dispatch` (`_dispatch` with `handle_heartbeat`),
`_advance_queues`, `populate_mydir` (opens the cache), `handle_mds_map`, and the
external `Replace` and `Recovered`. `pause_balancer` holds `mds_lock`, so it is
no step of its own.

### RebalanceMatch
`prep_rebalance` of one rank, with the branch of `mds_thrash_exports` and the
early returns (not overloaded, or not for long enough), then one step per
iteration of its loops. The ranks share nothing: each rescales the loads that
reached it to its own unit (`load_fac`), with its own idea of beat and imports,
so a call takes any loads, import maps, epoch and beat. What earlier calls left
behind stays. Loads are integers; `Tiny` is the `.001` the code treats as
nothing.

### ExportTargets
One rank and the monitors. A decision of the built-in, thrashing or Lua balancer
sets `my_targets`; `try_rebalance` checks the targets, sends idle imports back
and exports; every new MDS map runs `try_rebalance` again, and
`mds_thrash_exports` exports whatever the targets are. A round is a decision or
a map: both count in `check_targets`. When the Lua script fails, `custom_balancer`
parses a buffer that was never written: the model takes any amounts for the
first ranks.

### SubtreeMap
`subtrees` (root to bounds) and `dir_auth` describe one partition twice. An
operation that loops over a pointer-ordered set takes one step per element, in
any order. The operations: `adjust_subtree_auth`, `try_subtree_merge`,
`adjust_bounded_subtree_auth`, `adjust_subtree_after_rename`, removal of a
dirfrag, `adjust_export_state`.

### CDirFreeze
The counters `auth_pins`, `nested_auth_pins`, `dir_auth_pins` and the states of
freezing, including the freeze that finishes inside an unpin and the correction
of the counters when a directory becomes or stops being a subtree root.

### Dispatch
The messenger, timer and progress threads and `mds_lock`. The beacon has its own
lock, so every `is_laggy()` call is a step.

### Beacon
Sends, acknowledgements in any order, `is_laggy`, `was_laggy`, and a monitor
that replaces a daemon it has not heard of for the grace period. Whoever has
`mds_lock` resets the heartbeat (`heartbeat_reset`); a grace period without that
makes the heartbeat map unhealthy, and `_send` stops sending. Time is an integer,
`MaxTime` and `MaxSeq` bound it.

### SlaveCommit and AtomicUpdate
`AtomicUpdate` says what the journals of the master and its witnesses promise
together: prepares, then the master's `EUpdate`, then the slaves' commits, then
`ECommitted`; or rollbacks before `EUpdate`.

`SlaveCommit` has the message exchange for one request. `mds[r]` is the memory
of the daemon with rank `r`: the request as master (`mdr`) or slave (`slave`),
`uncommitted_masters` (`umaster`), the gathers and delayed messages of resolve,
the contexts waiting for a state or a peer, and the journal entries not yet safe
(`log`). Three handlers of one shape are one operator where link, rmdir and
rename do not differ (`logged_slave`, `rollback_finish`, `prepare_witness`,
`handle_slave_prep_ack`, `update_finish`). The steps are the delivery of a
message, of a map, the completion of a journal write (`LogSafe`), the client's
request and its retries, the end of replay and of rejoin, and, external, the
monitors' new maps and crashes (`Fail`: a standby takes the rank and starts from
the journal). Maps reach every rank one by one and in order. Messages between
two instances are in order; those to or from a replaced instance are lost or
stale. Left out: the rejoin exchange (it ends when everybody has resolved),
subtree claims, the notifies to bystanders of a rename, locks and caps.

### MetaClient, MetaServer, ClientServer
The session and the requests of a client with one rank. `MetaClient` has
`make_request` with its waits (`at` says where a caller is), the dispatch thread
that waits for a caller to take its reply (`blocked`), sessions, the resend and
replay of requests on a reconnect, and `unmount`. `MetaServer` has the session
states with their journal entries, idle sessions, reconnect, the admission of
requests, completed requests, early and safe replies, and the boot states from
replay to active with their queues. `ClientServer` composes them with the
connections, the journal on disk, the monitor's maps and a crash. An operation
is known by what decides its handling (reads, changes, makes an inode, opens
what it makes); what it does to the namespace is in `Namespace`. The client is
given every map in order; `handle_mds_map` would also take one that skips epochs
(`Client.cc:2205`).

### Namespace
The handlers of mknod, mkdir, symlink, link, unlink, rmdir, rename, open and
open with create, lookup, readdir and setattr on one rank, and strays: purge
and reintegration. There are two namespaces, the linked one (`ns`) and the
projected one (`proj`) that journal entries not yet safe have made. A request
takes all of its locks at once or waits and starts again, as the code drops
locks it cannot complete; which locks conflict is external. An entry becomes
durable and is completed in one step: a crash between the two leaves what a
crash after both does. Paths have one level. Left out: `lookup_ino`, layouts and
xattrs, other ranks, snapshots, the truncation of a purge that finds new
references. A symlink is a file here.

### ClientCaps, ClientDentries, ClientInode
One client, one inode, two ranks. `ClientCaps` has `check_caps`, `send_cap`, the
cap messages (grant, revoke, import, export, flush ack), dirty and flushing
bits with their tids, the delayed and flushing lists, cap references, and what
a reconnect sends. `ClientDentries` has one name of a directory: leases,
`shared_gen`, complete listings with `release_count`, the traces of replies,
trimming. `ClientInode` adds opening, reads, writes, `_fsync`, `_sync_fs`,
lookups, readdir, `_mknod` and unlink by threads, `trim_cache`, `trim_caps` and `put_inode` at any time, and the
ranks: an idealised external `Capability`, migrations and a failover. Left out:
`max_size`, `cap_snaps`, quotas, inline data, `O_SYNC`, readahead, full OSDs,
asynchronous invalidation, stale sessions, directory order, lease expiry by time.

### DirFrag and Fragment
One directory, whole or split in two. `DirFrag` has fetch and commit of a
dirfrag with their waiters and versions, underwater dentries, split and merge.
`Fragment` has the fragmentation from `split_dir` and `merge_dir` over freezing,
marking and storing to the removal of the old objects, with the stale freezes
that a timeout cancels, journal entries PREPARE, COMMIT, FINISH and ROLLBACK,
and crash and replay at every point. `TrimLog` expires a segment as soon as
nothing in it is dirty or held: an uncommitted fragmentation holds that of its
PREPARE. The object store applies an operation in
the step that completes it. Left out: replicas (`handle_fragment_notify`),
subtree bounds, `rstat` and `fragstat`, snapshots, bloom filters, deeper splits.

## Runs

| Run | Configuration | Shows |
|---|---|---|
| heartbeat | `Heartbeat.cfg` | the loads a rank holds of itself and of mds.0 belong to its beat, and mds.0 holds no answer to a beat it has not sent (`LoadsFollowTheBeat`); `mds_bal_max` bounds the beats (`BeatsWithinMax`); mds.0 ends up with every load (`RootGathers`) |
| rebalance_match | `RebalanceMatch.cfg` | a matching overshoots nowhere (`NoOvershoot`), the rank's own part is at most its excess and nobody's room (`SendsOnlyItsExcess`), the loops end and balance (`MatchingIsComplete`) |
| export_targets | `ExportTargets.cfg` | no target of the last decisions and maps is given up (`RecentTargetKept`), a decision gets its targets recorded and its exports started (`DecisionsAreCarriedOut`) |
| subtree_map | `SubtreeMap.cfg` | the two representations of the partition agree (`BoundsMatchAuth`), only what was asked for changes authority (`AuthorityChangesAsAsked`), every operation ends (`OperationsEnd`) |
| cdir_freeze | `CDirFreeze.cfg` | the counters count what is pinned (`PinsCountWhatIsPinned`), nothing frozen is pinned (`FrozenIsStill`), every freeze ends (`FreezesEnd`) |
| dispatch | `Dispatch.cfg` | no message is lost or repeated (`EachMessageOnce`) or handled for a replaced peer (`NoMessageOfAReplacedPeer`); what was set aside is handled (`DeferredAreHandled`) |
| beacon | `Beacon.cfg` | the assertion on stamps holds (`AckAssertion`), a daemon is laggy before it is replaced, and two grace periods after `mds_lock` got stuck (`LaggyInTime`) |
| slave_commit | `SlaveCommit.cfg` | no assertion fails (`NoAssert`), nothing is left half done when all is quiet (`Settled`), the master forgets an update only when all slaves have committed (`ForgottenOnlyWhenCommitted`), the journals implement `AtomicUpdate` (`AtomicUpdateSpec`) |
| client_requests | `ClientServer.cfg` | safe means durable and in order (`DurableInOrder`), at most once (`OncePerSession`), replay before new requests (`ReplayedBeforeActive`), no forgotten call (`NoCallHangs`), no failed assertion |
| namespace | `Namespace.cfg` | link and fragment counts and single primary links (`LinksAreRight`), a tree (`TreeUnlessIntoNew`), no life after the purge (`PurgedNeverComesBack`), no replay that fails (`ReplaySucceeds`) |
| client_inode | `ClientInode.cfg` | a client uses only what it is issued (`UsesOnlyWhatIsIssued`), loses no change (`ChangesAreNotLost`), answers from its cache as the MDS would (`CachedAnswersAreCurrent`), forgets no revocation (`NothingIsForgotten`), no failed assertion |
| fragment | `Fragment.cfg` | every name is found again after any crash (`NothingLost`), no orphan objects stay (`OrphansAreGone`), nothing stays frozen (`NothingStaysFrozen`) |

For each property, `PROJECT.json` names a mutation of one definition, a
plausible bug, under which the run finds the property violated: the operator
`definition_Bug` that stands before the definition.

### Bounds

* heartbeat: two ranks, three beats, each rank fails once. Two ranks are mds.0
  and one other; the other ranks treat each other alike. Late heartbeats of a
  replaced daemon and of the previous beat occur.
* rebalance_match: three ranks with loads 0, 1, 2 and 4 and four import maps, so
  one exporter with two importers, and the reverse, with and without a rank at
  the target or within `.001` (one unit) of it; epochs 1 to 3, any number of
  calls.
* export_targets: two ranks, amounts up to 2, two requests in flight, options
  `mds_bal_target_removal_min` 2 and `_max` 3, so that a target can lapse and be
  asked for again.
* subtree_map: five dirfrags, one directory with two of them, three operations.
* cdir_freeze: three nested directories, one pin each, four operations.
* dispatch: two peers with two messages each, one replacement.
* beacon: interval 1, grace 2, time 7, sequence numbers to 3.
* slave_commit: a link with two crashes of the master or the slave, a rename
  with two witnesses and two crashes of the master, or of the witness that is
  not the source's authority, and a rename and an rmdir with one crash of any
  rank.
* client_requests: one client, three requests of two programs (read, change,
  make; read, create, change), four disturbances, of which one crash.
* namespace: two clients, two names, four inodes, three changes (two in the
  largest trees), one crash.
* client_inode: two ranks; the budgets of `MCClientInode` bound the events of
  each kind.
* fragment: two names, which hash to different halves; twelve combinations of a
  start and up to two updates, two fragmentations and two crashes; the log may
  be trimmed at any time.

The constants `Max...` and the budgets and loads of the MC modules are bounds of
the models, not of the code.

### Fairness

* `RebalanceMatch`, `SubtreeMap`: a loop that has begun goes on; its thread
  holds `mds_lock`.
* `Heartbeat`: the timer fires, the messenger delivers between live daemons, the
  progress thread runs, caches open, maps arrive and recoveries end.
* `ExportTargets`: the monitors handle what they receive and publish the map
  they changed. The latter is strong, as the bound on messages in flight may
  disable it for a while; messages may still be lost.
* `Dispatch`: whoever holds the lock goes on. The progress thread and the timer
  get the lock if they keep asking for it, which is strong fairness: others take
  it in between.
* `CDirFreeze`: requests finish and drop their pins, whoever froze a directory
  thaws it, queued contexts run. Nobody has to stop a freeze or to take a pin.

No fairness is assumed of failures, decisions or clients. The other models state
none: for them "everything ends well" is an invariant of quiet states (`Settled`,
`NoCallHangs`, `NothingIsForgotten`, `NothingStaysFrozen`): when no step but a
new disturbance is possible, nothing is left waiting.

## Proofs

The theorems hold for every value of the constants under the assumptions named
in the modules (`...Assumption`), which TLC evaluates on the instances.

| Module | Proves | Argument |
|---|---|---|
| `HeartbeatProofs` | `LoadsFollowTheBeat`, `BeatsWithinMax` | For the first, the inductive invariant adds the types and that every heartbeat on its way, deferred or queued is no newer than the beat of mds.0 (`AllGood`). The second counts the calls of `send_heartbeat` that wait in the contexts and in the finished queue (`SendsIn`): ticks, waiting sends and beats sent balance. |
| `RebalanceMatchProofs` | `NoOvershoot`, `SendsOnlyItsExcess`, `PlanBalances` | Remainders never get negative. What is in `my_targets` is part of what the matching exported from this rank and imported into others (`Share`). The amounts exported and imported have equal sums (`Conserved`), and ranks already passed are exhausted but for `Tiny` (`Progressing`); as all excess equals all room, a pass that runs out of one side leaves at most `N * Tiny` on the other. `PlanBalances` is the safety half of `MatchingIsComplete`. |
| `ExportTargetsProofs` | `RecentTargetKept` | The counts in `old_prev_targets` and the time since a target was needed move together (`CountsNeverAhead`). |
| `DispatchProofs` | `EachMessageOnce`, `NoMessageOfAReplacedPeer` | Each message is in exactly one place: on its way, set aside, being moved or done (`Accounted`, `Apart`). |
| `BeaconProofs` | `AckAssertion`, `LaggyInTime` | Stamps grow with sequence numbers (`StampsGrow`), what the monitor has seen last was sent no later than it was received (`MonitorHasSeen`), and a daemon sends nothing later than a grace period after the last `heartbeat_reset` (`SilentWhileStuck`). |
| `SubtreeMapProofs` | `BoundsMatchAuth`, `AuthorityChangesAsAsked` | The map is right between operations (`Fits`), and each loop has an invariant of its own: a merge has changed no authority yet (`MergeInv`), a bounded adjustment has its handled bounds in place and what lies outside its region unchanged (`BoundedInv`, `AskedAuthority`), a rename is right but for the roots still listed under the old parent (`RenameInv`). |

The library's induction theorems take an operator as a parameter, which the
provers cannot instantiate. Where a proof needs induction over data, it looks at
an extreme counterexample. `WFMin` gives a smallest set (`SmallestSet` in
`RebalanceMatchProofs`), which is enough for sums over finite sets. In a tree of dirfrags it is the topmost one:
`TreeAssumption` says that no set of dirfrags contains the parents of all its
members, so a set of counterexamples has a member whose parent is none. That the
climb of `get_subtree_root` ends, and what an operation does to it, follows
without a bound on the depth of the tree. A rename keeps the tree a tree because
the new directory does not lie beneath the moved one.

Only model-checked:

* liveness (`RootGathers`, `DecisionsAreCarriedOut`, `OperationsEnd`, `FreezesEnd`,
  `DeferredAreHandled`, termination in `MatchingIsComplete`): beyond the prover;
* `CDirFreeze`: its functions call each other recursively, as the code's do, and
  `RECURSIVE` operators are beyond the prover;
* that `SlaveCommit` implements `AtomicUpdate`, and the properties of
  `ClientServer`, `Namespace`, `ClientInode` and `Fragment`: their handlers are
  folds and compositions over large records, and an inductive invariant would
  have to describe every intermediate state of the protocols.

## Not modelled

`PROJECT.json` lists every part with its status. Not modelled are the choice of
directories to export and the popularity counters (real arithmetic), rejoin,
discovery and cache expiry between ranks (they exchange states of objects whose
code is not here), the search by inode number, snapshots, quotas and `rstat`s,
configuration and scripts.

## Known disagreements

Behaviour of the code met while modelling that a reader may not expect. The
properties are stated so as to allow it, or say where they do not apply.

Balancer and dispatch:

* A heartbeat of the previous beat that arrives late is accepted
  (`MDBalancer.cc:406`), so loads of two beats may be compared.
* A rank at the target, or above it by no more than `.001`, counts as an exporter
  and ends the second pass of `prep_rebalance` early (`MDBalancer.cc:831`).
* Ranks whose loads, beats or imports differ compute different plans; together
  they may promise an importer more than its room. Each plan alone is bounded.
* When mds.0 is replaced, its epochs start again and the other ranks keep
  `last_epoch_under`: an overloaded rank does nothing until the new epochs have
  passed the old one (`MDBalancer.cc:747`).
* `mds_bal_target_removal_min` is described as "min balance iterations before old
  target is removed" (`../common/config_opts.h:404`), but `check_targets` also
  counts every new map, so a target may be given up after fewer iterations.
* A rank other than mds.0 may clear the load of a peer that answered before the
  beat of mds.0 arrived (`MDBalancer.cc:317`), and sits that beat out. It takes
  three ranks, so the run does not show it.
* Every new MDS map exports again with the targets of the last decision
  (`MDS.cc:1768`).
* After a laggy phase a new message may overtake older ones of its peer that
  were set aside (`MDS.cc:2695`).
* A rank that skips a map epoch may miss that a peer entered resolve
  (`MDS.cc:1678`).

Subtree map: a second bound beneath one ambiguous subtree is given the authority
of the directory above (`MDCache.cc:1035`).

Multi-rank updates:

* A survivor that is journaling its commit is left out of its own resolve
  message, and the restarted master journals `ECommitted` too early
  (`MDCache.cc:2292`, `2357`, `2642`). If that slave crashes too, it is told to
  roll back an update that is committed. `ForgottenOnlyWhenCommitted` is stated
  for a master that stays, `AtomicUpdateSpec` leaves out a crash of the master
  together with another one.
* When the source authority of a rename crashes, the other witnesses roll back
  (`MDCache.cc:2846`, `Server.cc:7485`), but the ack of one of them may still be
  on its way; the master counts it and journals `EUpdate`. `AtomicUpdateSpec`
  covers the crashes of the other ranks.
* In the same case, a witness told to abort while it journals its PREPARE never
  ends its `resolve_ack_gather` (`MDCache.cc:3291`), and the new source authority
  stays in resolve. `Settled` then only asks that no slave is left prepared.
* A new master that is sent the ack of a slave that was journaling its PREPARE
  fails the assertion of `request_get` once it is active. `NoAssert` is stated
  for a master that stays.
* Killing a session aborts its request; slaves that had prepared get `OP_FINISH`
  (`Server.cc:1625`), and `request_get` may assert (`MDCache.cc:8554`). Session
  kills are not part of `SlaveCommit`.

Server: `handle_client_open` answers `-EROFS` without returning
(`Server.cc:2710`); a rename checks that its target is not beneath its source
before its locks are taken (`Server.cc:5879`), hence `TreeUnlessIntoNew`; a
truncating open with `O_CREAT` that is replayed after others may make another
inode. `ClientServer` names three stalls it excludes from `NoCallHangs`:
`ReplayStalled`, `DispatcherStuck` and `SessionLost`.

Fragmentation: `NothingLost` sets these cases apart, each by a ghost that is set
in that case only.

* An uncommitted fragmentation holds the segment of its PREPARE
  (`MDCache.cc:11341`), not those before it. Once the result dirfrag is stored,
  the segment of an older update may expire; a crash before COMMIT is safe rolls
  back to the old dirfrag, which does not have the update (`forgotten`).
* The directory's inode may be stored with the new tree before the PREPARE is
  safe, and the segment of the PREPARE may be trimmed before recovery's ROLLBACK
  is safe (`MDCache.cc:11475`). A crash then that finds no other entry of the
  directory takes up the wrong tree (`astray`).

A request that a bloom filter lets add a name to an incomplete dirfrag
(`Server.cc:2093`) is left out, as are the parts of `adjust_dir_fragments` about
subtree roots (`MDCache.cc:10554`, `10599`) and the second read of
`_omap_fetched`, from the old format (`CDir.cc:1537`): it is part of the first.

Client (`Client.cc`):

* `handle_cap_grant` passes the old issued bits to `check_cap_issue`, so that
  `FILE_SHARED` granted again does not raise `shared_gen`, and an open directory
  may be answered from a stale cache;
* `_fsync` flushes only bits already flushing, so it does not make dirty
  attributes durable, and asserts on a capability that is not the authority's
  (`Client.cc:3620`), which `NoAssert` sets apart; a second flush overwrites `flushing_cap_seq`, and
  `wait_sync_caps` returns early;
* `send_reconnect` reports `issued`, forgetting revocations not yet answered;
* `flush_caps()` takes inodes off the delayed list without keeping their
  place for `tick`; `_setattr` marks caps dirty without queueing them;
* leases and `dn->lease_mds` survive a failover and a release;
* `release_count` is part of `Dir` and starts again when the directory is
  reopened during a listing;
* a revocation by a rank that is not the authority during a cached read is
  answered only at the next `check_caps`.
