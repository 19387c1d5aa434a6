# Verification of nodeup

TLA+ models of `nodeup`, the command that provisions OpenStack servers with
Chef, deletes and migrates them, and serves a small HTTP API. The models are
written from the Go code under `src/`; TLC checks them on small instances and
TLAPS proves the main properties for every value of the constants.

## 1. The system

| Component | Source | State it keeps | Operations |
|---|---|---|---|
| Create mode | `pkg/nodeup/nodeup.go` | `Exitcode`, `UsePrivateNetwork`, a WaitGroup; per goroutine its place in `bootstrapHost` | `Init`, `bootstrapHost`, `assertBootstrap`, `checkSSHPort`, `GetAddress`, `Stop` |
| Delete mode | `nodeup.go:59-83` | local `exit` | one server and one Chef clean-up per name |
| Name generator | `nodeup.go:197-227` | the names so far | `nameGenerator`, `contains` |
| OpenStack client | `pkg/openstack` | the listing cache of `IDFromName`; otherwise OpenStack's own state | `CreateSever`, `createAdminKey`, `DeleteServer`, `MigrateHost`, `IDFromName`, `HypervisorScheduler` |
| Chef client | `pkg/chef` | none (the Chef server's clients and nodes) | `CleanupNode`, `isClientExist`, file templates |
| SSH client | `pkg/ssh` | one connection | `New`, `TransferFile`, `RunCommandPipe` |
| Migrate mode | `pkg/migrate` | `Exitcode`, a WaitGroup | `Init` |
| Rebalance mode | `pkg/rebalance` | the plan, `Exitcode` | `calculateUsage`, `findMigration`, `rebalance` |
| HTTP daemon | `pkg/rest` | the progress cache, the hypervisor-name cache | `startServer`, `stopServer`, `serverChefRun`, the read-only handlers |
| Command line | `pkg/cmd`, `main.go` | flags and environment, the two clients | `Run`, `makeLog`, `params`, `createConnect` |

How they interact. `cmd.Run` parses the flags, connects and enters one mode,
which ends the process (`os.Exit`). The create and the migrate mode spawn one
goroutine per host and wait on a WaitGroup; these goroutines share the
`NodeUP` struct (`Exitcode`, `UsePrivateNetwork`), the admin keypair in
OpenStack and the names on the Chef server, with no lock anywhere.
`MigrateHost` starts one more goroutine, with which it talks over two
channels. The daemon answers each request in a goroutine of its own, and the
goroutines meet in a cache and in OpenStack.

What is hard about it: failures are signalled in five ways (a return value, a
shared exit code, `log.Fatal`, a panic on a nil result, a signal), and any of
them may happen in any goroutine while the others are in the middle of a host;
several remote systems keep what was done when a later step fails; two checks
are far from the acts they guard; and external systems may never answer what
is waited for. `PROJECT.json` lists these hazards line by line, with the
properties that cover them.

What makes each component correct:

* batch modes: the run waits for every host, ends, and its status tells
  whether a host failed;
* creation: a server exists only with our key, and is deleted exactly when the
  run gives it up for a reason that says so;
* bootstrap: a host reported as done is up, known to Chef and has its gateway;
* migration: a poller does not outlive its `MigrateHost` untold, and a server
  is left migrating only if it was given up or reported failed;
* daemon: the progress entry is true, and nobody is refused, nor a run's mark
  overwritten, without a cause;
* delete mode: status 0 means that every server and every Chef entry seen is
  gone, and an ambiguous name deletes nothing;
* plan: balanced, and every part of it that is carried out helps;
* command line: the mode that runs has the settings and the clients it needs,
  whatever else was asked for; names: as many as asked for;
* scheduler: a usable hypervisor, extreme by the criterion; cached reads:
  answers no older than the times to live add up to.

## 2. Modules

| Module | Models | Kind |
|---|---|---|
| `BatchRun` | what a run of any batch mode promises about its exit status | abstract specification |
| `Provision` | the create mode: `Init`, `bootstrapHost`, `CreateSever`, `createAdminKey`, `assertBootstrap`, `CleanupNode` | detailed specification, implements `BatchRun` |
| `Migration` | the migrate mode, the execution of a rebalance plan, `MigrateHost` and its poller | detailed specification, implements `BatchRun` |
| `Daemon` | start, stop and chef requests on one server, the chef goroutine, the progress cache | detailed specification |
| `DeleteMode` | the delete mode, `IDFromName` with its cached listing, `CleanupNode`, a second run of the command | detailed specification, each run implements `BatchRun` |
| `RebalancePlan` | usage, average, plan and its execution in the rebalance mode | algorithm as operators, in a specification of the run |
| `CachedRead` | a cache with a time to live filled by racing readers: `getHypervisors` | abstract specification |
| `NameCache` | `serverGetHypervisorNameCache` over `IDFromName`, two caches and a clock | detailed specification, implements `CachedRead` |
| `Placement` | `HypervisorScheduler`, `GetHypervisorWithSensitiveCriteria` | pure relation between listing and answer |
| `Launch` | `Run`, `makeLog`, `params`, `createConnect`, both constructors, the name generator | detailed specification |
| `MCProvision`, `MCMigration`, `MCDaemon`, `MCDeleteMode`, `MCRebalancePlan`, `MCNameCache`, `MCLaunch` | constant values for TLC | instances |
| `ProvisionProofs`, `MigrationProofs`, `DaemonProofs`, `DeleteModeProofs`, `RebalancePlanProofs`, `CachedReadProofs`, `NameCacheProofs`, `LaunchProofs` | theorems | proofs |

In all of them a step is the code between two calls that leave the process
(or that block), so goroutines interleave exactly where remote calls let them.
What a remote system answers is chosen freely among the outcomes the code
tells apart. `PROJECT.json`'s `map` gives the lines of every definition.
Definitions marked `Mutant` in the modules are seeded bugs, each of which a
property catches; the specifications do not use them.

### Provision

`pc[w]` is the next remote call of goroutine `w`; `outcome[w]` is what
`bootstrapHost` returns and why. `server`, `keypair`, `chefClient` and
`chefNode` are the remote state. Correspondence: `Lookup` .. `Poll` and `Reap`
are `CreateSever`; `OpenLog` .. `Finish` are the rest of `bootstrapHost`;
`Destroy`, `GetClient`, `DelClient`, `DelNode` are `assertBootstrap` with
`DeleteIfError` and `CleanupNode`; `Leave` is a return with its deferred
`wg.Done`; `Record` is the caller's `o.Exitcode = 1`; `MainExit`, `Signal` and
`Die` are the ways the process ends. Points worth knowing when reading it:

* The wait loop compares `info.Status` with a `status` that is never
  assigned, so the "unchanged" branch is never taken by a status OpenStack
  reports and every turn that finds neither ACTIVE nor ERROR counts.
* `GetServer` errors are logged and the nil result used: `Info` and `Poll` may
  panic. So may every ssh step, since a failed session is used as well.
* `GetAddress` may return no address (only 10.x ones): the loop body never
  runs and the host counts as done. `SuccessMeansConverged` says "with an
  address" for that reason.
* `-ignoreFail` is a variable chosen by `Init`, so one run covers both values.
* A creation may come back with an error although OpenStack carried it out:
  the server is in BUILD, and the run has no id to delete it by.
* The uploads are one step (`Upload`), as are the commands before (`Prepare`)
  and after (`Finish`) the first `chef-client`: they touch nothing that another
  goroutine sees. `Prepare` can only fail on a
  second pass because `sudo mkdir /etc/chef` finds the directory.

### Migration

Job `j` is the `j`-th entry of `-hosts`, or of the plan; two jobs may name one
server. `mode` selects between the two callers of `MigrateHost`:
`migrate.go:39-54` spawns it, `rebalance.go:167-181` calls it. `poller[j]` is
the goroutine of `openstack.go:502-526`, `"send"` its blocked send on the
unbuffered `resCh`, and `stop` the set of jobs whose `doneCh` (a buffer of one)
is filled. `Expire` is the timer and may fire at any time, before or after the
poller has found the server ACTIVE. Servers start in any state, so a
migration begun by someone else is covered. `Request` may come back with an
error of a migration that has begun.

### Daemon

The cache holds one entry per server id, whatever the action, so servers do
not interact and one is enough. `req[r]` is the handler of request `r`,
`run[r]` the goroutine a chef request spawned, `entry` the cached `Progress`.
`Expire` may drop the entry at any moment after it was saved: the model has
no clock, and an entry may live shorter than 60 minutes but is never required
to live longer. A request turned away by `isAlreadyInProgress` is answered
`"busy"`, with whatever HTTP status; `"refused"` is the start of an ACTIVE server.
The states of an entry have names in the model, since `type.go:29` and the code
do not agree about the number of one (section 4). `Schedule` is the one read that can change
something: `HypervisorScheduler` answers a failed listing with `log.Fatal`,
and the whole daemon ends in the middle of its chef runs.

### DeleteMode

`pc` is the next remote call of turn `turn` of the loop over `-deleteNodes`,
or `"exit"` between the loop and `os.Exit`;
`sid` is `serverID`, which a failed lookup leaves empty (`NoId`) while the loop
goes on. `cached` and `listing` are `IDFromName`'s cache: `Expire` may empty
it at any time, so the model covers every delay between two lookups; `listing`
then still holds what the last lookup saw. Other users create and delete
servers (`CloudChange`). `Rerun` is the operator repeating the command after it
ended or was killed: the process starts afresh, OpenStack and the Chef server
do not. A client without its node, or a node without its client, may be there
from the start; `unclean` remembers the latter. Names on the command line are taken as split: a name that keeps the
blank after a comma is a name no server has. `failed`, `found`, `said` and
`unclean` record what happened; no action reads them.

### RebalancePlan

Servers are numbered in listing order. `Used`, `BestWedth`, `Leaving`, `Rooms`
and `Plan` are the functions of `rebalance.go:68-162`. `Turn(s)` is the index
of `s` in `vmByHypervisor`; a room is a hypervisor with the number of a place
above its load. `MigrateVMLists` and `PlaceLists` are all the lists that the
loops may build: blocks of one hypervisor, in any order of the map for those
who leave, descending by load for the places. Which of them it is is
chosen freely in `FindMigration`. `Migrate` is one turn of the loop that
carries the plan out, with `MigrateHost` reduced to what its caller and
OpenStack see of it (module `Migration` has the inside): the server may or may
not move, and success or failure may be reported either way. The plan is a map
from names, as in the code, so of two servers of one name at most one entry is
left, and the lookup of that name is fatal. `ListFails` is a listing that
fails. With an empty listing the mode ends at once, which is left out: `N` is at
least 1. Moves by other users between the
listing and the end are not modelled: the code does not look again.

### CachedRead and NameCache

`NameCache` follows one name. `entry` and `entryExp` are the daemon's cached
answer, `list` and `listExp` the client's cached listing, as far as it concerns
the name; `pc[r]` is the next call of handler `r`, `snap`, `sid` and `got` what
it holds. `Resolve`, `List`, `Keep` are `IDFromName`: the listing is stored
before it is scanned, and several handlers may store older over newer ones.
Servers of the name come, go and migrate at any step. A server in BUILD, in
ERROR or shelved has an empty hypervisor name, which the code stores for an hour
like any other: `Hosts` contains it. `now` is a clock. An
item that is past its expiration cannot be found again and counts as dropped
from the next `Tick` on. The code sets no limit to a remote call; `Flight` is
the assumption that a request's calls take no longer, without which no bound on
an answer's age exists. `left`, `changed` and `soleEnd` record when things last
were true; no action reads them.

`CachedRead` is the same without the inside: a value is fetched when it is
right and stored later. `getHypervisors` is exactly this.

### Placement

`Scheduled` says which orders `sort.Sort` may return for a listing, `Held`
what the loop holds after some turns and `Picked` what it keeps in the end,
`Choice` what the answer is worth. It has no state.

### Launch

One process from `makeLog` to the first goroutine. `modes`, `given`,
`unreadable`, `count` and `mask` are the command line and the environment;
settings that are always required together are one element of `Settings`.
`Required` and `Accepted` are the checks of `params`, `ConnectChef` is the
second copy of their condition in `createConnect`, `Dispatch` is `Run`. A
name is the sequence of its parts, so that the generator's comparison of a
random part with whole names (`Drawn`) is the comparison the code makes. The
password generator may return anything; `MaxNames` bounds the loop for a count
that is never reached.

## 3. Properties and runs

| Run | Instance | Checks |
|---|---|---|
| `provision` | 2 goroutines, 2 hostnames, 2 polls, up to 2 addresses | 10 properties, 511,278 states |
| `provision_exit_race` | 1 poll, 1 address | finds `FailureReported` violated |
| `migration` | 3 jobs on 2 servers, one named twice, both modes | 7 properties, 420,411 states |
| `migration_rollback` | 2 jobs | finds `SuccessMeansMoved` violated |
| `daemon` | 3 chef, 2 start, 1 stop request | 4 properties, 673,018 states |
| `daemon_exclusive` | 2 chef, 2 start, 1 stop request | finds `ChefRunExclusive` violated |
| `delete_mode` | 3 entries, one of them repeated, 3 servers, 2 runs of the command | 6 properties, 2,058,414 states |
| `delete_mode_reported` | 2 entries | finds `ReportedGone` violated |
| `rebalance_plan` | 8 servers, up to 4 hypervisors, every spread, up to 2 of one name | 3 properties, 516,714 states |
| `name_cache` | a hypervisor and the empty name, 2 ids, 2 requests, times to live 2 and 1, flight 1, 6 ticks | 5 properties, 1,494,400 states up to symmetry |
| `launch` | every set of modes, settings and unreadable files, counts -1 to 3, 2 random strings | 4 properties, 490,624 states |
| `launch_target` | the same | finds `TargetGiven` violated |

*Provision.* `WaitIsExact`: `wg.Wait` waits for every host in flight
(`NoneUnderWay`) and for nothing else (`NoneAwaited`). `RecordedFailureReported`:
a bootstrap failure is in the exit status, and so is any failure that was on
record in time.
`SuccessMeansConverged`, `PrivateHostGetsGateway`: what "done" means.
`DeletedExactlyOnFault`: deletion requests match outcomes both ways.
`CreatedWithOurKey`: the keypair protocol of several goroutines. `BoundedWork`:
each step of a goroutine, turns of its loops included, leaves it fewer steps to
make. `Terminates`. `ImplementsBatchRun`.

*Migration.* `ExitLeavesNoneMigrating`, `OrphanToldToStop`,
`RecordedFailureReported` (in the rebalance mode every failure is on record),
`WaitersReleased` (nobody waits for something that nobody will do: a waiting
`MigrateHost` has a poller, `doneCh` has room for the one value sent, `wg.Wait`
returns with the last `Done` and not before), `Terminates`, `ImplementsBatchRun`.

*Daemon.* `InProgressIsTrue`: "chef in progress" is never said of a run that
has ended, whatever was overwritten. `RefusedForCause`: nobody is told "already
running" but while `chef-client` runs or after a start that was accepted; a
request that failed on its way there marks nothing. `OverwrittenForCause`: the
mark of a run under way gives way only to the end of another run, a start or
time.

*Delete mode.* `CleanExitDeleted`, `CleanExitCleaned`: what status 0 means.
`HalfCleanedReported`: a node left without its client, which no later run will
find, was reported once. `DeletesUnambiguous`: no failed, stale or ambiguous
lookup deletes a server. `ImplementsBatchRun`: status 1 exactly when a deletion
failed in some turn.

*Rebalance plan.* `Balanced`: a plan that was carried out leaves no hypervisor
above the least even share, computed independently of `BestWedth`.
`MovesHelp`: every single move does, so that a run may stop anywhere.

*Name cache.* `FreshAnswers`: a hypervisor in an answer had a server of the
name within the hour and one flight. `AnsweredWasSole`: an ambiguous name is
answered only if it was unambiguous within 70 minutes and two flights, since
the ages of the two caches add up. `MissJustified`: a name that one server
bears is "not found" only after a change in the last ten minutes and two
flights. `ImplementsCachedRead`.

*Launch.* `ModeReady` (`ClientsReady` and `SettingsReady`): three functions agree
about the clients every combination of modes needs, and about the settings of
the daemon and of the create mode; about those of the migrate mode they do not
(`TargetGiven`). `AsManyAsAsked`, `TwinsOnlyRedrawn`: what the generator
returns. The daemon's
run also evaluates `PlacementAssumption`, the scheduler's choice over every
listing of up to three hypervisors.

Bounds and why they are enough. Two goroutines suffice for every race of the
create mode, since each shared datum (keypair, exit code, flag, Chef names) is
touched by one step at a time and the properties relate at most two
goroutines; two polls give a counted turn and the last turn; two addresses
give the second pass. Three jobs on two servers give a doubled server and a
bystander, and two turns before the last in the sequential mode. Three chef
requests give a check that passes while one run goes on and another has ended.
A name given twice and borne by two servers makes
every lookup outcome meet every earlier one, and two runs of the command are a
retry. Eight servers on four hypervisors are the smallest numbers with two
senders and two receivers at once; listing the servers hypervisor by hypervisor
loses nothing, since only the order within a hypervisor matters.
Two requests store in either order; the clock runs to 6, one tick past the
bound `NameTTL + ListTTL + 2 * Flight` of `AnsweredWasSole`, so that an answer as
old as the bound allows occurs and one older would be seen; the symmetry is sound because no property of that run is a liveness
property. A count of three with two random strings makes the generator of the
bare mask run out of strings and that of a longer mask repeat one.
The proofs do not depend on any of these bounds. Every run checks deadlock;
the stuttering steps `Halted` and `Idle` mark the states where the process has
ended or every request is served.

Fairness. `Provision` and `Migration` assume weak fairness of each goroutine
(remote calls answer, timers fire, the scheduler runs everybody) and of the
main goroutine, and none of OpenStack's progress, of the signal or of the
choice between outcomes. The other modules have no liveness property and assume nothing: a chef run may
hang for ever, and the generator may never end. A fair goroutine may still panic or be killed:
`Terminates` counts every end of the process.

## 4. Where the code departs from what it says

Five runs expect a violation; `PROJECT.json` has the quotations.

1. `FailureReported`: a failure that `bootstrapHost` (or, in the migrate mode,
   `MigrateHost`) returns is recorded after its `wg.Done`, so the process may
   exit with 0. Bootstrap errors are safe because `assertBootstrap` records
   them earlier, which is half of `RecordedFailureReported`, proved.
2. `SuccessMeansMoved`: ACTIVE is read as migrated, rolled back or not.
3. `ChefRunExclusive`: two chef requests may both pass the check.
4. `ReportedGone`: an error of the Chef server is reported as "successfully
   deleted from chef".
5. `TargetGiven`: with `-migrate -rebalance` the migrate mode runs, and
   `-hosts` and `-hypervisor` were never asked for.

Also seen, without a run of their own:

* `-ignoreFail` is documented as "Don't delete host after fail" (`README.md:49`,
  `cmd.go:122`), and a host without an ssh port (`nodeup.go:128`) or in ERROR
  (`openstack.go:245`) is deleted whatever it says; `DeletedExactlyOnFault` says
  so (`"unreachable"` and `"fault"` are deleted in both cases).
* `type.go:29` documents 100 as the state "In progress", and the code saves and
  tests 99 throughout: a client that waits for 100 never sees it.
* "Infinity loop for find duplicates" (`nodeup.go:211`) finds none unless the
  mask is a bare asterisk (`TwinsOnlyRedrawn`); there it looks until it has
  enough different strings.
* A negative `-count` is not refused and keeps the generator busy for ever.
* A node whose client is already gone, from an earlier deletion that half
  failed, is skipped by the delete mode and reported as deleted.
* An unreadable validation key is only logged; the create mode goes on without.
* The delete mode panics for `-count` above 1 without a mask, which it does not use.
* `-concurrency` and `-prefixCharts` are documented and never read.
* The scheduler's "memory" criterion picks the hypervisor with the *least* free
  memory, since both sorts descend and the last one is kept (`Choice`).
* Two goroutines of one name both find that no server has it, and both create
  one: `isServerExist` is asked long before the creation.
* One failed listing under `/api/hypervisors/sort` or `free` ends the daemon.

## 5. Refinement

`BatchRun` knows jobs with a verdict (`ok`, `failed`, `late`) and an end
(`clean`, `flagged`, `aborted`): a run ends clean only when every job is
decided and no failure was on record, flagged only when there is a failure to
report. `late` is a failure recorded after the job left the group the run waits
for, and it is where the first finding of section 4 lives: the abstract
specification admits a clean end with a late failure because the code does.
`Provision` maps a bootstrap error to `failed` and other failures to `late`;
`Migration` maps failures to `failed` in the rebalance mode, where the caller
records before it waits, and to `late` in the migrate mode. `DeleteMode` decides
one verdict per turn and knows no `late` at all, so that there a clean end and a
failure exclude each other; a rerun of the command starts the next batch.

`CachedRead` knows one cache, a set of values that are right now, and readers
that fetch a right value and store it later. `NameCache` maps the hypervisors
with a server of the name to the right values and every call before the store
to one fetch: the inner cache disappears, because `GetServerDetail` is asked
for the present place of the id, however old the id. What an answer's age is
bounded by is therefore proved once, of `CachedRead`, and inherited; what the
old listing still does to the answers is said by `AnsweredWasSole` and
`MissJustified`, which are about ids and not about places.

## 6. What is proved

The theorems hold for every set of hosts, every bound on polls and addresses,
every number of jobs and requests, under the constants' named assumptions (finite
set of workers, positive bounds, `ServerOf` a function into the servers,
disjoint request sets, a finite set of server ids). `CachedRead`'s one condition,
`Readable`, is a hypothesis of its theorem, shown where `NameCache` instantiates it.

* `ProvisionProofs`: all safety properties of the run `provision` and the
  refinement. The inductive invariant has four parts. `TypeInv` adds to the
  types that the counters are below their bounds while they may grow.
  `Outcome` says that an outcome is decided exactly when the goroutine leaves
  the happy path (`Decided`), what the exit code stands for (`Recorded`), which
  deletions go with which outcome (`Deletions`) and that a goroutine about to
  create has seen our key or made it (`Keyed`; a keypair may vanish after that but
  not become another's). `Recorded` also knows that a goroutine whose caller is done
  with it has its failure in the exit code. `Hosts` carries the server's state and the Chef
  entries along the loop. `Waiting` says that the WaitGroup's counter is the
  cardinality of the set of goroutines in flight: none of the properties at the
  exit is inductive without it, since the exit looks at the counter only.
  `WorkIsBounded` proves an action property from `TypeInv`: `StepsLeft` is a
  natural number (`StepsCount`), a goroutine's own step lowers it (`WorkShrinks`,
  one case per action) and nobody else's touches it (`Elsewhere`).
* `MigrationProofs`: likewise; `Placed` relates job, poller and stop channel,
  `Owned` says who answers for a server that is migrating, `Recorded` and
  `Waiting` are as above. `NobodyStuck` needs of `Placed` that a waiting job has its
  poller and that `stop` holds only jobs that have timed out and returned.
* `DaemonProofs`: all properties of the run `daemon`. `InProgressIsTrue` needs
  that a run exists only once its request is answered (`Answered`), so that no
  handler restarts it; the other two need that every entry has its cause, a run
  that ended or an accepted start (`Caused`).
* `DeleteModeProofs`: all safety properties of the run `delete_mode`, for any
  list of names and any number of runs. `Found` says that a pending deletion
  has the sole bearer of its name, `Deleted` and `Cleaned` say what the turns
  behind the loop have achieved while the status is still 0, and `Ended` that a
  clean end leaves nothing half done, which is what makes the claim about
  half-cleaned names survive a rerun. The refinement of `BatchRun` needs
  `OnRecord`, that the status is 1 exactly when some turn has failed; `TurnDecided` and
  `Undecided` say which steps are one of the batch's and which are none.
* `RebalancePlanProofs`: all properties of the run `rebalance_plan`, for any
  number of servers and hypervisors and any order of maps and sorts. The invariant
  (`Moved`) says that a server that is not where it was listed was sent
  there by its own entry of the plan. The rest is counting with injections:
  of a hypervisor's servers the share or all stay (`Shares`, by their `Turn`), it has
  places for what it lacks (`Places`), nobody is sent to a place twice
  (`Arrivals`), and there is a place for everyone who leaves (`PlaceForAll`, which is where
  the average must have been rounded up).
* `CachedReadProofs`: the age of entries and of values in flight, together with
  `Timely` (no request is older than `Flight`).
* `NameCacheProofs`: the refinement, step by step; `AnswersFresh` by it from
  `CachedReadProofs`; for the other two an invariant on the age of the listing, of
  the snapshots, of the ids taken and of the answer, each one more time to live or
  flight than the one it was made from.
* `LaunchProofs`: all safety properties of the run `launch`, for any counts,
  strings and combinations of flags.
* `DaemonProofs.ChoiceSound`: the scheduler's choice, for every listing; `LoopStart` and
  `LoopTurn` are the invariant of its loop (`Held`), `SameHypervisors` says that a sort
  neither loses nor invents a hypervisor.

Only model-checked: `Terminates` (liveness under fairness and ENABLED are beyond
the prover) and the five expected violations. Of `Terminates`, the half that is safety is proved: in the create
mode no goroutine can go on for ever (`WorkIsBounded`), and in the create and
migrate modes no wait is left without whoever ends it (`WaitExact`,
`NobodyStuck`). What is left to TLC is that the steps that are possible are taken.

## 7. Not modelled, and the plan

Not modelled: the texts of `client.rb`, `hosts`, `bootstrap.json` and the
interfaces file and all logging (no state depends on them), the ssh agent and
sftp protocols (modelled by their outcomes), the handlers of the daemon that
pass one OpenStack answer through (`getServers`, `getServer`,
`getHypervisorInfo`, `getHypervisorStatistics`, `setupHost`: they keep nothing
and call nothing that does), and the declarations of types and interfaces.
OpenStack, the Chef server and the remote shell are external and modelled by
the outcomes the code distinguishes.

The plan, most important behaviour first, and where it stands:

1. `Provision` with `BatchRun`: the create mode, its races and its exit. Done, proved.
2. `Migration`: `MigrateHost` in both modes. Done, proved.
3. `Daemon`: the progress entry. Done, proved.
4. `DeleteMode`: the loop, `IDFromName`, `CleanupNode`, a second run. Done, proved.
5. `RebalancePlan`: usage, target, plan and its execution. Done, proved.
6. `CachedRead`, `NameCache`: cached reads over a changing cloud, with time. Done, proved.
7. `Launch`: the command line and the name generator. Done, proved.
8. `Placement`: the scheduler's choice. Done, proved.
9. `DeleteMode` as a batch, bounded work and released waits. Done, proved.
10. Left: the names of `Launch` composed with `Provision`, which takes any
   assignment of names to goroutines and so already covers two hosts of one name.
