# LSMC in TLA+

A verification development for LSMC, a simulator that explores the
interleavings of multithreaded AWS clients. Paths below are relative to the
repository; the proxy's sources are in `src/simcore/`, the driver is `main.py`.

## 1. Inventory

| part | state | operations | what makes it correct |
|---|---|---|---|
| **step tokens** (`dpor.py` 10-110) | – | `drop`, `delay`, `undrop`, `undelay`, `parse_step` | markers come off as they went on |
| **prefix generator** (`dpor.py` 113-248, `simulator_prefixes.py` 5-35) | – | `generate_forced_prefixes`, `prefix_sort_key` | a swap keeps the order of each thread; no marker on a marker; a total order of the queue |
| **scheduler** (`scheduler.py`) | forced prefix and position, `enforcing`, free-run contenders, gather deadline, the run's result | `start_run`, `wait_for_turn`, `consume_last_match`, `maybe_stop_enforcing`, `watchdog_tick` | the trace is the forced prefix and then free; somebody may always go; a stuck run is given up |
| **exploration** (`simulator_handlers.py` 39-156, `simulator_prefixes.py` 37-53) | queue, seen, explored, traces, results, `done` | `execution_done`, `pick_next_prefix_or_done`, `_reset_for_next_run` | no prefix twice, no trace counted twice, nothing lost, an end |
| **proxy handler** (`simulator_handlers.py` 159-333, `simulator_cache.py`) | trace, steps seen, per-run and stable cache | `proxy`: retry, refusal, DROP, forward, exception | a step executes once; a dropped one never; the answers come from the right run |
| **watchdog thread** (`simulator_watchdog.py`) | – | a tick every 250 ms until `done` | it lives as long as it is needed |
| **classification** (`sim_helpers.py` 74-99, `main.py` 42-98) | – | status → result; client output → result | a result is grounded in what a client met |
| **main loop** (`main.py` 132-220, 344-365) | run number, current post, the lines of the clients | poll, start clients, read, wait, post with retries | one post ends one run; it stops at DONE |
| **LocalStack reset** (`reset_localstack.py`, `sim_helpers.py` 102-115) | its place, its retries, the time used | list, delete, await, all with retries; killed after 20 s | a clean baseline, in time |
| forwarding (`http_proxy.py`), configuration, logs, output | – | – | not modelled, section 8 |

**How they interact.** `main.py` runs the proxy in a daemon thread of its own
process and the clients as child processes. Clients talk HTTP to the proxy, the
proxy talks HTTP to LocalStack while it holds `state.cond`, and `main.py` tells
the proxy over HTTP that a run is over. All handlers, posts and the watchdog
share one `SimState` under that one lock; the only place where a handler lets
go of it in the middle is `cond.wait` in `wait_for_turn`.

**What is hard.** Requests of crashed or impatient clients that stay parked
across runs; a post served twice; calls to LocalStack that time out and take
effect later; flags that coordinate handlers under a lock that a delay sleeps
with; a timeout that delays and calls use up; a watchdog whose thread ends;
infeasible prefixes; mutations of traces that were mutated already; a queue
whose entries go stale while they wait; results drawn from interleaved output;
a reset that fails half-way. The list with lines is `hazards` in `PROJECT.json`.

## 2. Modules

| module | models | extends |
|---|---|---|
| `StepTokens` | tokens and their markers | |
| `PrefixGenerator` | `generate_forced_prefixes`, the order of the queue | `StepTokens` |
| `PrefixScheduler` | `class PrefixScheduler` | `StepTokens` |
| `Outcomes` | `classify_http_failure`, the verdicts the errors of a run allow | |
| `SimulatorHandlers` | `SimState`, `proxy`, `execution_done`, caches, watchdog thread; what every module that uses them may rely on (`HonoursPrefix`, `NoNestedWrapper`) | the three above |
| `Session` | `main.py`, clients, requests in flight, LocalStack, faults | `SimulatorHandlers` |
| `SessionProperties` | properties of sessions, the refinement mapping | `Session` |
| `ForcedReplay` | abstract: what an exploration promises | `StepTokens` |
| `Exploration` | explorations to their end, threads that branch, no faults | `SimulatorHandlers` |
| `ProxyLock` | `proxy` statement by statement under `state.cond`; the mapping to `SimulatorHandlers` | `SimulatorHandlers` |
| `WatchdogTiming` | delay, call, patience and watchdog on a clock | |
| `ClientOutput` | `run_client_streaming`, `_classify_client_error_from_lines` | `Outcomes` |
| `ResetLocalStack` | `reset_localstack.py`, `reset_localstack_quiet` | |
| `MCTokens`, `MCSession`, `MCExploration`, `MCProxyLock`, `MCClientOutput` | values of the constants for TLC | |
| `HandlerProofs` | theorems about the generator; lemmas about tokens, scheduler, handlers and queue that the next four rest on | `SimulatorHandlers` |
| `SessionProofs`, `RequestProofs` | theorems about sessions: what is tried, replayed and counted; what is executed and answered | `SessionProperties`, `HandlerProofs` |
| `ExplorationProofs`, `ProxyLockProofs` | theorems about `Exploration` and `ProxyLock` | `HandlerProofs` |
| `WatchdogTimingProofs`, `ClientOutputProofs`, `ResetLocalStackProofs` | theorems about the three modules so named | |

**How they fit together.** `SimulatorHandlers` is the proxy with one action per
way through a handler. Three modules justify or use that: `ProxyLock` shows that
the code, statement by statement and with its waits, does the same; `Session`
composes it with clients, `main.py`, LocalStack and faults, over a few short
runs; `Exploration` leaves out the faults and follows whole explorations.
The other three give what these take as given: `ClientOutput` the verdicts that
`Session` chooses from, `WatchdogTiming` the watchdog that fires when a run is
stuck and not before, `ResetLocalStack` the clean start of a run.

**State.** Names are the source's. `forced_prefix`, `enforcing`, `forced_pos`,
`free_waiting`, `free_deadline` and `current_result` are the scheduler's;
`run_prefix` is `state.forced_prefix` (it differs from the scheduler's once the
exploration is done); the others of `SimulatorHandlers` are fields of `SimState`.
In `Session`, `arrived` are requests whose handler has not run, `parked` those
asleep in `wait_for_turn`, `effects` and `late` are LocalStack's, and `launched`
is a history variable. In `ProxyLock`, `pc` is where each handler is, `lock` who
holds `state.cond`, `last_match` what `wait_for_turn` leaves for
`consume_last_match`, and `committed` a history variable: what handlers may write,
as it was when the lock was last free. In `WatchdogTiming` all times are
intervals (`stuck_for` is `now - _last_progress_at`). In `ResetLocalStack`, `at` is
the call that is next.

**Tokens** are records `[wrap, step]`, the markers outermost first, in place of
strings with prefixes. `wrap` may hold two markers, so that a nested token can
be written and `NoNestedWrapper` says something.

**Actions.** In `Session` one action is one stretch of a handler between two
waits: `ServeRetry`, `RefuseRequest`, `DropRequest`, `ForwardRequest` and
`ForwardTimesOut` are the five returns of `proxy`, `KeepWaiting` a pass that goes
(back) to sleep. `ServePost` is `execution_done` whole; `LaunchClients`,
`ClientsExit`, `PostTimesOut` and `PollDone` are the steps of `main()`. In
`ProxyLock` an action is what a handler does between two places where it matters
who comes next: `Acquire`, `CheckDelay`, `CheckRetry`, `RetryLoop`, the passes of
`wait_for_turn`, `OwnSlot`, `Drop`, `StartDelay`, `DelayOver`, the call and its two
ends. In `ResetLocalStack` it is one call of LocalStack with what follows.

**Abstractions.**
- *The lock.* In `Session` and `Exploration`, `delay_active`,
  `inflight_steps_this_run` and the last match are no variables: `ProxyLock` shows
  that nobody who holds the lock ever finds them set (`FlagsStayUnderLock`), and
  that a handler is one step (`HandlersAreAtomic`).
- *Time.* A gather window is open, then passed. With `SIM_FREE_GATHER_MS > 0` (50
  by default) the rule of the first free decision ("N threads or the end of the
  window") waits as long as the general rule after it, so
  `_free_released_count`, `_free_seen_threads` and `SIM_FREE_MIN_THREADS` decide
  nothing and are left out; a window of 0 ms is not covered. In `Session` the
  deadlock timeout has no clock: the watchdog may fire when every living thread
  waits for a turn it cannot get, and at any other moment as the fault
  `watchdog`. `WatchdogTiming` has the clock.
- *The queue* is a set of records `[batch, prefix]`; `Before` is the deque's
  order. Entries skipped on the way to the next viable one leave it with it.
- *Answers* are statuses. Bodies and headers are left out.
- *The verdict on the clients' output* is in `Session` a set of outcomes
  (`Verdicts`); `ClientOutput` shows that the search of the output stays within it,
  as long as the clients print no more lines than it looks at.
- *Clients* are external. In `Session` a thread sends the steps of its program
  one at a time, goes on after the answers in `ContinueOn`, ends quietly after
  those in `QuietOn` (a branch not taken), repeats after those in `RetryOn`, and
  otherwise reports an error; answers are free. In `Exploration` LocalStack
  answers 404 to a step whose `needs` it has not executed, and a thread moves on
  by as many places as `moves` says, so that an earlier order or a drop decides
  what it does next. A refusal (503) ends a thread. The steps of a thread carry its
  name and occur once in its program (`OwnSteps`): the proxy would take a second
  one for a repetition.
- *Output.* A line is the set of marks the search looks for; clients print as the
  outputs in `test_http_classification.py` do.
- *Reset.* In `Session` a reset leaves nothing behind. `ResetLocalStack` says when
  that is so. In `retries` and `liveness` LocalStack's answers are free, so a run that
  starts with old state adds no behaviour there.

**Mutants.** Some definitions are preceded by one whose comment begins with
"Mutant of": the form a plausible bug would give it. No specification uses
them. Put in place of the original, each makes TLC refute the property
`PROJECT.json` names with it, so that the property is known to depend on it.

## 3. Properties and runs

| run | properties | instance | shows |
|---|---|---|---|
| `faults` | `TypeOK`, `HonoursPrefix`, `NoNestedWrapper`, `NoGhostContender`, `FreeRunsGoOn`, `ResultsAreDistinctTraces`, `NoPrefixTwice`, `NoMutationForgotten`, refinement `ReplaysSchedules` | 2 threads of one process, 1 step each, drop and delay, all 7 faults, 2 per session | replay, queue and counting survive every pair of faults; no free run sticks with all its requests asleep; for what can be derived a run is started or it is still queued, except for one mutation at most each time a repeated post ends a run once too often |
| `retries` | `EachRequestIsAStep`, `OneTurnPerStep`, `DroppedNeverReachesBackend`, `CleanBaseline` | 2 processes of a thread, with 2 and 1 steps, drop, answers 200, 408 or 503 at will, 2 tries, 6 runs | each run executes each request once: none twice because it is repeated, none missing because an earlier run had it; none changes LocalStack in a later run |
| `liveness` | `RunsEnd`, `SessionEnds` | the same without drop, answers 200 or 404 (a branch not taken), one crash or failed call | runs and session end |
| `exploration` | `TypeOK`, `EveryRunIsNew`, `TracesAreInterleavings`, `EveryOrderIsTried`, `RunsAreBounded`, `CompleteInTime` | 4 workloads of 3 or 4 steps in 2 or 3 threads, one of them with late requests and one with a branch, drop, to the end | no run is wasted, also when a thread branches; each executes an interleaving, none is cut short; every order is tried, and, with requests in time, with every choice of drops (96 schedules for 2 × 2 steps) |
| `mixed` | `ExplorationClosed`, `EveryOrderIsTried`, `NoRunSticks`, `PrefixesAreFeasible` | 2 workloads with a branch on the answer of a HEAD request and one without, drop and delay, `delay_first`, to the end | a prefix that cannot be followed has both kinds of markers, and its threads branch; nothing derivable is left when the session says DONE; every order is tried also where `drop_and_delay` finds schedules missing; only such a prefix leaves a run to the watchdog |
| `lock` | `TypeOK`, `FlagsStayUnderLock`, `DelayIsStrict`, `HandlersAreAtomic` | 3 handlers, 2 of one step, drop and delay, 2 runs ended at any moment | `proxy` under its lock does what `SimulatorHandlers` says |
| `timing` | `TypeOK`, `NoFalseTimeout`, `GivenUpInTime` | delay 5, timeout max(6, 5 + 3), calls of 1, clients of 2, resets of 4 | the watchdog gives up the stuck runs, all of them, and no others |
| `output` | `TypeOK`, `VerdictFollowsErrors`, `ReportsAreGrounded` | processes of 2 and 1 threads, up to 5 lines each, a window of 5 | what is reported is one of the verdicts that `Session` chooses from, whatever the order of the output; errors get lost only together with a 408 |
| `reset` | `TypeOK`, `CleanWhenDone`, `StubbornNeverAborts`, `OneSurvivorInTime` | 2 buckets, 2 tables, 2 objects, the code's 5 retries, 10 s of waiting and 20 s in all, 5 faults | what a reset leaves, and when it ends |

**Bounds.** `MaxFaults` 2 in `faults`: each fault alone and each pair, enough for a
leftover request to meet a second fault in the next run. `MaxLaunches` cuts
sessions off (4 runs in `faults`: the free run, a swap and two mutations; 6 in
`retries`, where what a run remembers of the one before would show); in
`liveness` it is larger than any session needs, and is never reached.
`Exploration` has no bound but its workloads. `MaxTries` 2: the first copy and one
repetition. `NotifyAttempts` is the code's 4, and 2 in `faults`, so that both the
repetition and the last, unguarded post happen within two faults. Threads are
few because the scheduler compares two steps at a time. The
workloads of three steps that are not `prompt` (one in `exploration`, two in `mixed`)
have free choices in any order; in the others
all threads reach the scheduler within its gather window, which leaves
one order per run, and the exploration a chain of runs. `lock` needs two handlers
of one step (a repetition, or a leftover) and one of another; `MaxRuns` 2 lets a
handler sleep through the end of a run. `timing` keeps the proportions of 20 s,
60 s, 30 s and 10 s and has a delay that is longer than the margin. In `output` the
window of 5 is smaller than what both processes print, as 80 lines may be.
In `reset` a poll is the unit of time, and `MaxFaults` 5 is what one `_retry` gives
up after, so that giving up happens, once.

**Symmetry** is not used: the scheduler prefers the smallest step.

**Deadlock** is checked in every run; `Finished` (`Returned`, `ResetOver`) is the
stuttering of what is over or has used up `MaxLaunches`.

**Fairness** (`FairSpec` of `Session`): `main()` goes on; a post in flight is served;
as long as some handler can make a pass that changes something, one does (each
wakes at least every 0.1 s and takes the lock); windows close; the watchdog
ticks. No fault and no late effect is forced. Fairness is for all handlers
together, not for each: nothing in the code keeps one thread from losing every
race for the lock. In `WatchdogTiming` no fairness is needed: time does not pass
beyond a moment at which somebody has to act, so `GivenUpInTime` is a safety
property.

### Runs that end in a violation

Each checks one sentence of the repository. The quotes are in `PROJECT.json`.

| run | what the code does |
|---|---|
| `repeat_while_parked` | a request repeated while parked takes a second turn; a dropped step is executed |
| `hidden_timeout` | without `--408-as-timeout`, a client's timeout is lost when a line about a 408 comes after it |
| `drop_and_delay` | with `--drop --delay`, 4 of the 81 schedules of three steps are never tried |

About `hidden_timeout`: `_classify_client_error_from_lines` ignores a 408 unless there
is another timeout (`main.py` 85), and looks for that one in `detail`, the last line
about an error, only. One client thread prints "FAIL ReadTimeout", another "FAIL
ClientError 408": in this order the run is reported as free of errors, in the other
one as a TIMEOUT. `Verdicts` has both, as it says what the code may report, and so
`VerdictFollowsErrors` holds of both; the run refutes what the README promises. Its
window is the code's 80 lines, more than the clients print, so the window has no part
in it.

About `drop_and_delay`: from the trace `b1, L a1, a2` come the prefixes `L b1, L a1`
and `L b1, L a1, D a2` (L delayed, D dropped) by way of different parents. When
the longer one runs first, the shorter is a prefix of an explored trace and is
skipped, and `L b1, L a1, a2` is then out of reach, as no mutation takes a marker off.
What is lost is a combination of markers, never an order of the steps
(`EveryOrderIsTried`, proved), and nothing that the generator would derive is lost
either way (`ExplorationClosed`, proved for every workload, and
`NothingForgotten`, proved under all faults but repeated posts).

One kind of mutation is not always enough to be complete. With `--drop` alone and
four threads of one step each whose requests may miss the gather window, TLC
finds an exploration of 382 runs that ends with 382 of the 384 schedules: the free
choices after a forced prefix then go in any order, and an exploration may be so
timed that a longer prefix runs before the one it begins with. (It is
`Unbranched(..., FALSE)` over four threads; too large for a run that is checked
whole.) With up to three late steps (`exploration`), and with requests that are in
time, no instance with one kind of mutation has shown it. `CompleteInTime` says the
latter. With both kinds, requests in time do not help: 2 × 2 steps that are in time
miss schedules too.

### Divergences that are visible without a run

- A post of `/__execution_done__` that is repeated after 30 s ends a second run,
  one that no client was started for (or cuts the next one short), and marks its
  prefix as "actually explored/executed" (`main.py` 218, against `dpor.py` 149). The
  mutation is then lost, and the empty trace of a run that never was may be counted
  among the results. `NoMutationForgotten` says that no more than that is lost: at
  most one mutation for each such end (a run that was started and then cut short
  counts as started).
- Each execution should begin "from a clean baseline, not from the leftover effects of
  a previous run" (README 474). A request whose client has died or has stopped waiting
  stays in `cond.wait` (`scheduler.py` 271), survives `_reset_for_next_run`, takes a turn
  in the next run, and changes LocalStack there. With the fault `crash` or `giveup` TLC
  refutes `CleanBaseline` within four runs; without them it holds (`retries`,
  `RunsBeginClean`). Replay and free runs are right in spite of it (`faults`).
- After a poll of `/__ready__` that fails, `main.py` starts a run although all is
  done; the watchdog's thread has ended by then (`simulator_watchdog.py` 10), and
  a run that a late post has made enforce a prefix may be stuck for ever.
- A dropped step is "treated as OK" (`simulator_handlers.py` 230), but answered
  with the first answer the step ever got, an error included
  (`simulator_cache.py` 17).
- Scheduled order is effect order (`simulator_handlers.py` 251) unless LocalStack
  executes a request after the 10 s of its call.
- Steps of two clients that use one thread name are never exchanged
  (`dpor.py` 167).
- The second of two equal requests of a client is a retry, never a step
  (`simulator_handlers.py` 175).
- A delayed create does not "let a later head_bucket race before it" (README 389):
  the delay is strict, and no other step is granted before its effect
  (`DelayIsStrict`). For the order of the effects a delayed step is as an undelayed one.
- The waits on `delay_active` and on `inflight_steps_this_run` are never entered
  (`FlagsStayUnderLock`): the lock is held over the sleep and the call.
- A crash becomes a TIMEOUT, and so does every exit code that is not 0;
  `RUN_CRASH` is never assigned (`simulator_handlers.py` 55, against section 17 of
  the README).
- Without `--408-as-timeout` a 408 hides the failures other threads report
  (`main.py` 90, against README 442), and a timeout unless the last line about an
  error tells of it (`hidden_timeout`, against README 465); `ReportsAreGrounded` says
  that these are the only ways in which an error can be lost.
- When forwarding the last forced step raises, the handler skips
  `maybe_stop_enforcing`, and the next request takes the branch of
  `wait_for_turn` that "should not happen" (`scheduler.py` 239, `TakeUnexpected`).
- The reset "retries transient failures" (`reset_localstack.py` 6), but not those of
  deleting an object, which are passed over (85, 91): the bucket then stays
  (`swallowed` in `CleanWhenDone`). A reset that ends with an error is still
  announced as "LocalStack reset complete" (`check=False`).

## 4. The abstract specification

`ForcedReplay` has a schedule, a trace, the explored schedules and `done`. A
step extends the trace as the schedule says, or freely after its end; a run
ends at any point, its schedule is explored, and the next one is new, or the
exploration is done. `Session` implements it with `prefix` being the scheduler's
`forced_prefix`, and `explored` being `explored_prefixes`. Everything else,
from requests to faults, is stuttering.

One level down, `SimulatorHandlers` is the abstract specification of `ProxyLock`:
the variables a handler writes are mapped to their values when the lock was last
free (`committed`), so that a handler's statements are stuttering until it lets go
of the lock, and one of `Refuse`, `DropStep`, `Forward`, `ForwardFails`, `WaitTurn` or a
retry then, with the answer it gives (`HandlersAreAtomic`).

## 5. Proofs

Proved for all values of the constants that meet the named assumptions of the
modules (`StringRankAssumption`, `ConfigAssumption`, `OutcomesAssumption`,
`HandlersAssumption`, `SessionAssumption`, `ExplorationAssumption`, `LockAssumption`,
`TimingAssumption`, `OutputAssumption`, `ResetAssumption`), and what the table adds:

| theorem | module | says | beyond the assumptions |
|---|---|---|---|
| `SwapPreservesThreadOrder` | `HandlerProofs` | a swap keeps the order of the steps of each thread | |
| `MutationsStayFlat` | `HandlerProofs` | no generated prefix has a marker on a marker | |
| `TypeCorrect` | `SessionProofs` and five others | `Spec => []TypeOK` | |
| `PrefixHonoured` | `SessionProofs` | `Spec => []HonoursPrefix` | |
| `NeverNested` | `SessionProofs` | `Spec => []NoNestedWrapper` | |
| `SessionReplaysSchedules` | `SessionProofs` | `Spec => ReplaysSchedules`, the refinement of `ForcedReplay` | |
| `SchedulesTriedOnce` | `SessionProofs` | `Spec => []NoPrefixTwice` | |
| `MutationsAreKept` | `SessionProofs` | `Spec => []NoMutationForgotten` | |
| `NothingForgotten` | `SessionProofs` | `Spec => [](Forgotten = {})` | no fault `post` |
| `TracesCountedOnce` | `SessionProofs` | `Spec => []ResultsAreDistinctTraces` | |
| `NoGhosts` | `RequestProofs` | `Spec => []NoGhostContender` | |
| `FreeRunsNeverStick` | `RequestProofs` | `Spec => []FreeRunsGoOn` | |
| `StepsHaveOneTurn` | `RequestProofs` | `Spec => []OneTurnPerStep` | `PatientClients`, `OwnSteps` |
| `DroppedStaysDropped` | `RequestProofs` | `Spec => []DroppedNeverReachesBackend` | the same, no fault `late` |
| `RunsBeginClean` | `RequestProofs` | `Spec => CleanBaseline` | the same as `StepsHaveOneTurn` |
| `TraceIsWhatClientsSaw` | `RequestProofs` | `Spec => []EachRequestIsAStep` | `PatientClients`, `DistinctSteps`, no fault `post` |
| `UnmixedPrefixesAreFollowed` | `ExplorationProofs` | `Spec => PrefixesAreFeasible` | |
| `ExplorationsEndClosed` | `ExplorationProofs` | `Spec => []ExplorationClosed` | |
| `NoRunIsWasted` | `ExplorationProofs` | `Spec => []EveryRunIsNew` | not both `--drop` and `--delay`, or `Straight` |
| `RunsGoOn` | `ExplorationProofs` | `Spec => []NoRunSticks` | |
| `RunsAreInterleavings` | `ExplorationProofs` | `Spec => []TracesAreInterleavings` | |
| `OrdersAreTried` | `ExplorationProofs` | `Spec => []EveryOrderIsTried` | `NamesDiffer` |
| `ReorderingsAreComplete` | `ExplorationProofs` | `Spec => []ExplorationComplete` | `NamesDiffer`, neither `--drop` nor `--delay` |
| `ExplorationsAreBounded` | `ExplorationProofs` | `Spec => []RunsAreBounded` | finitely many threads |
| `WaitsAreNeverEntered` | `ProxyLockProofs` | `Spec => []FlagsStayUnderLock` | |
| `NothingOvertakes` | `ProxyLockProofs` | `Spec => DelayIsStrict` | |
| `ProxyIsAtomic` | `ProxyLockProofs` | `Spec => HandlersAreAtomic`, the refinement of `SimulatorHandlers` | |
| `DelaysAreNoTimeouts` | `WatchdogTimingProofs` | `Spec => []NoFalseTimeout` | |
| `StuckRunsAreGivenUp` | `WatchdogTimingProofs` | `Spec => []GivenUpInTime` | |
| `ErrorsAreGrounded` | `ClientOutputProofs` | `Spec => []ReportsAreGrounded` | |
| `VerdictsAreRight` | `ClientOutputProofs` | `Spec => []VerdictFollowsErrors` | |
| `OnlyFaultsAbort` | `ResetLocalStackProofs` | `Spec => []StubbornNeverAborts` | |
| `ResetCleans` | `ResetLocalStackProofs` | `Spec => []CleanWhenDone` | |
| `OneSurvivorCosts` | `ResetLocalStackProofs` | `Spec => []OneSurvivorInTime` | `MAX_RETRIES * MAX_RETRIES + MAX_WAIT < Limit` |

**The hypotheses** are those without which the code does not have the property.
`PatientClients`: no client gives up on a request, or dies, while the request is
being served; without it `repeat_while_parked` is a counterexample. `OwnSteps` and
`DistinctSteps`: threads do not share names, and (for `EachRequestIsAStep`) send no
step twice, as the proxy takes it for a repetition. No `late`: LocalStack executes
nothing after the proxy has given up on the call. No `post`: a post that times
out ends a run too soon. The run `retries` meets all of them. `Straight`:
threads that do not branch; for others there is no set of schedules to compare an
exploration with, and a prefix with both kinds of markers may be infeasible.
`NamesDiffer`: no two threads have one name, since only steps of different names are
exchanged (`dpor.py` 167). That `ReorderingsAreComplete` is stated without mutations is due to
`drop_and_delay` and the counterexample above. The inequality on the
reset reads 25 + 40 < 80 with the numbers of the code (in units of 0.25 s).

*Sessions, types and replay.* `TypeOK` is inductive; its proof follows the
composition: lemmas on the scheduler's operators, on the handlers, on
`execution_done` (`HandlerProofs`), then one lemma per action of `Session`.
`HonoursPrefix` is inductive relative to it. The lemma `ReplaySteps` reduces every
step of a session to one of three: a turn is taken and its token appended,
`execution_done`, or neither trace nor exploration changes. The refinement needs
more: a run that ends marks `run_prefix` as explored, while the schedule replayed
is `forced_prefix`. `ReplayInv` says that the two agree, or that the exploration was
over once and both the empty prefix and `run_prefix` are explored already.
`NoNestedWrapper` follows since the trace is the prefix and bare steps
(`HonoursPrefix`), and `MutationsStayFlat`.

*The queue and the count.* `QueueInv`: what is queued has been seen and is not
explored, what has been seen is explored, walked or queued, and all mutations of
executed traces have been seen. It is kept since `execution_done` is the only
writer, since what `pick_next_prefix_or_done` skips is explored or walked, and
since the queue's order puts no entry before itself (`BeforeIsIrreflexive`): the
entry that is picked is no other than the one that is removed. `ResultsInv` adds
that the set of traces is finite, so that a new trace adds 1 to its cardinality.
That a prefix is explored does not mean that a run was started for it, as a repeated post
ends runs of its own. `RepeatsInv` keeps account: the prefixes explored without a run
(`Unlaunched`), and the one that is about to be (`Doomed`), are no more than the ends
that `main.py` did not ask for (`RepeatedEnds`). The end of a run adds at most one
prefix and, when it is not the one `main.py` waits for, one such end; the start of
a run only takes prefixes away. What is forgotten is among the former
(`ForgottenIsUnlaunched`). When no post times out there is one post at a time and
`main.py` waits for it (`OnePost`), so there are no such ends, and nothing is
forgotten (`NothingForgotten`).

*Requests.* `PassCases` reduces the pass of a handler to four: it takes a turn,
answers a repetition, is refused, or waits. `GhostInv` says that no request is ahead
of the thread that sent it (so that a new request is never one that is asleep)
and that contenders belong to sleepers. As a gather window is open or passed only when there are
contenders, and the smallest of them belongs to a sleeper, that sleeper may go
(`FreeRunsNeverStick`). `TurnInv` says that the only requests are
those that some thread waits for, and that the steps of the trace are those seen;
so two requests of one step are one, and the second copy comes after the answer
to the first and finds the step seen, and no request is older than the run
(`RunsBeginClean`). `EffectInv` ties the effects to tokens of the
trace without DROP. `AnswerInv` says that the steps seen are those answered, as
long as the run is a success, and that nothing is seen between two runs.

*Explorations.* That a prefix can be followed is said by a *walk* along it: the
places of all threads and what LocalStack has executed, before and after each
token. `ExplorationInv` says that the run under way has walked along its trace; that the forced
prefix and every prefix in the queue has a walk, unless it has both kinds of
markers; that the answers a walk depends on are remembered (`stable_response_cache`,
which never changes an answer); and what is known to be explored. The lemma
at its centre, `MutationsCanBeFollowed`, gives every mutation of a trace with
a walk a walk of its own: a swap takes two steps that waited together, a drop is
answered as before, a delay changes nothing. With two kinds of mutation that is
false, and tlapm rejects the lemma without its hypothesis: the thread that hears
of the drop may go elsewhere than to the step that is delayed. Then a forced run whose
prefix has a walk always has somebody who may go (`ExpectedIsThere`), hence follows its
prefix to the end, hence finds a trace that begins with a prefix which no
explored trace begins with. For threads that do not branch, all markers leave a walk a
walk, so the hypothesis is one kind of markers or `Straight`. In a free run it is the smallest
contender who may go; `GatherInv` says that all contenders wait, as `GhostInv` does for
sessions (`RunsGoOn`).

*Orders.* Straight threads take as many turns as they have steps: `TurnsTaken` and
`Follows` relate the places of a walk to the turns in the trace, and a run that ends
has all of them (`RunsAreInterleavings`). For `OrdersAreTried`, take any order with any
marks, and any executed trace. Where its order first departs from the given one, the
thread whose turn it should be comes later (`ComesLater`), and a swap brings it one
place forward; where a mark is first missing, a drop or a delay sets it. Each is a
mutation, so when the exploration is done some executed trace begins with it
(`ExplorationsEndClosed`), and it keeps all turns before that place and the marks
on them. What is right already is never touched, while the thread comes closer or
a mark is gained, so one of the executed traces agrees to the end (`SwapsReachAll`).
The trace that begins with a mutation may have markers the mutation has not: that is why
the theorem says "others maybe too", and why completeness follows only where there are no
markers. Where no trace agrees further, a least or last number
(`SmallestNumber`, `LastNumber`, from the well-foundedness of `<`) gives the place;
no induction is used. For `ExplorationsAreBounded`, the runs are
as many as the results (`NoRunIsWasted`), the results as the traces, and each trace is
one of the schedules, which are finitely many.

*The lock* (`ProxyLockProofs`): the flags are set and cleared between acquiring
and releasing the lock, so `LockInv` says of each place of a handler which of them
may be set there, and that only the holder of the lock is at such a place. For
`HandlersAreAtomic`, `CommitInv` says at each place what the holder has changed since the
lock was last free (`Progress`): nothing, the turn it has taken, its step in the caches, or
all that the one-step handler changes. A handler that lets go of the lock makes the
one step; everything before is stuttering.

*Timing* (`WatchdogTimingProofs`): the invariant bounds `stuck_for` by what the
phases up to now can have used (delay, call, client), and in the phase in which a
step is waited for that is less than the timeout by the assumption
`CallTime + ClientTime <= Margin`: main.py's 30 s, against the 10 s of a call and what
a client needs to come with its next step. The watchdog's lateness is bounded by
its period, since it wakes at its time or as soon as the lock is free.

*Output* (`ClientOutputProofs`): `OutputInv` says that a process that has not crashed
has printed a line about every error its threads met, and no line about any
other; that `all_lines` has exactly the lines of the processes whose reader has
ended; and that a verdict was drawn when all had. The order of lines never
enters; the window does only where `VerdictFollowsErrors` mentions it. What is proved is
that `Session` leaves out no verdict the search may yield, among them those that hide
an error behind a 408; that the search is right is not (`hidden_timeout`).

*Reset* (`ResetLocalStackProofs`): for `CleanWhenDone`, what is still there at each
call is stubborn, listed, or at hand. For `StubbornNeverAborts`, the attempts of all
calls but a refused deletion are paid for by faults. For `OneSurvivorInTime`, the sleep
is bounded by a sum: n attempts of one `_retry` sleep 1 + ... + n, the
faults of all calls together less than those of one `_retry`, and only the survivor
is retried to the end and waited for. Each invariant was checked by TLC before it was
proved.

**Left to TLC.** Liveness (`RunsEnd`, `SessionEnds`): fairness and ENABLED are out of
the prover's reach; the parts of it that are a matter of safety are `FreeRunsNeverStick`, `RunsGoOn` and
`ExplorationsAreBounded`.
`CompleteInTime`: a conjecture beyond the instances of `exploration`. That no combination of drops
is missed depends on the order in which traces are found, which for requests in time is
determined by the names of the steps, and we know no invariant that captures it.
What is proved of it is that the orders are all tried, that no mutation is lost
(`ExplorationsEndClosed`) and that each can be followed (`UnmixedPrefixesAreFollowed`).
All other properties of the passing runs are theorems.

## 6. Running it

    tlc -config faults.cfg MCSession.tla            # also retries, liveness, repeat_while_parked
    tlc -config exploration.cfg MCExploration.tla   # also mixed, drop_and_delay
    tlc -config lock.cfg MCProxyLock.tla
    tlc -config timing.cfg WatchdogTiming.tla
    tlc -config output.cfg MCClientOutput.tla       # also hidden_timeout
    tlc -config reset.cfg ResetLocalStack.tla
    tlapm SessionProofs.tla                         # and the other proof modules

The longest runs (`lock`, `retries`) take about half a minute, each proof module
up to two minutes.

## 7. Plan

1. *done* – `StepTokens`, `PrefixGenerator`, `PrefixScheduler`,
   `SimulatorHandlers`, `Session`, `ForcedReplay`, their properties and theorems.
2. *done* – `ProxyLock`, `WatchdogTiming`, `ClientOutput`, `ResetLocalStack`,
   `Exploration`; the theorems on the lock and on time.
3. *done* – the theorems on the queue and the count, on requests, the atomicity of
   the handlers, the clients' output, the reset, and whole explorations.
4. *done* – what all runs amount to for threads that do not branch: interleavings,
   every order, no more runs than schedules.
5. Open: `CompleteInTime` for every workload, or a counterexample. A version of
   `OneTurnPerStep` for clients that crash, for the steps of the clients that do not.

## 8. Not modelled

- `http_proxy.py`: one call of the requests library; its outcomes are in the
  model (a status, an exception, an effect that comes late).
- Configuration, the command line and `expand_client_commands`: sequential
  parsing of text; what the flags mean is in the constants, and the choice of the
  deadlock timeout is in `WatchdogTiming`. An explicit `--forced-prefix-timeout` is
  not held against the delay, by the code or here.
- Logs, summary and pretty printing: nothing reads them back. The texts of
  failure reasons are left out with them.
- `wait_ready` and the start of the proxy: a session begins when it is up.
- Listings of LocalStack in pages, and the time its calls take within a reset.
- How much of a client's output one read returns: a line is read whole.
