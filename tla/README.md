# dnspatch in TLA+

dnspatch is a dynamic DNS daemon in Go. For every configured *instance* a
goroutine asks *retrievers* for the public addresses of the host and writes those
that changed to DNS *providers*. This directory holds TLA+ modules of the daemon,
from its configuration file to the calls it makes to DNS services and brokers,
TLC configurations that check them on small instances, and proofs checked by
TLAPS for every value of the constants. `PROJECT.json` names the source lines
behind every definition, the runs, the theorems and the hazards.

## The system

| Part | Source (under `src/`) | State it keeps | Operations |
|---|---|---|---|
| instance | `internal/runner/instance.go` | per provider: `lastV4`/`lastV6`, `failures`, `lastErr`, `next`; a `trackedState` for each retriever, each provider and itself | `run`, `tick`, `retrieve`, `update`, `emit`, `observe`, `runHooks`, `attempt` |
| runner | `internal/runner/runner.go` | none | `Run`, `Validate`, `SignalContext` |
| backoff | `internal/runner/backoff.go` | `base`, `max` | `newBackoff`, `delay` |
| events | `internal/runner/event.go` | `trackedState` | `observe` |
| clock | `internal/runner/clock.go` | a ticker, attempt timers | `Now`, `Ticker`, `WithTimeout` |
| health | `internal/health/health.go` | one status file per instance, on disk | `NewRecorder`, `AfterCycle`, `CheckAll`, `fileName` |
| hooks | `internal/hooks/notify`, `internal/hooks/ping` | a connection shared by instances | `OnEvent`, `AfterCycle`, `Close` |
| application | `internal/app` | none after the start | `Run`, `buildInstances`, `attachNotify`, `printConfigSummary`, `healthcheck` |
| configuration | `internal/config` | the parsed file | `Load`, resolving of references, overlaying, defaults, validation |
| plugins | `plugin/registry`, `plugin/decode`, `internal/paramspec` | the registry | registration, decoding of parameters |
| providers | `plugins/providers/*` | cached tokens in some; the zone is the service's | `Update` |
| retrievers | `plugins/retrievers/*` | none | `Retrieve` |
| notifiers | `plugins/notifiers/*` | a connection and its mutex | `Publish`, `Close` |

**How they interact.** `app.Run` loads the configuration, builds instances,
connects the notifiers, adds the health recorder and calls `runner.Run`, which
starts a goroutine per instance and waits for all of them. An instance calls its
retrievers and providers one after the other, each under `attempt`, which gives
the call a context with a timeout and *waits for the call to return*. It calls its
hooks synchronously: `OnEvent` in the middle of a cycle, `AfterCycle` at its end.
Instances share nothing but notifier connections and, when so configured, records.
The signal handler cancels one context that everybody sees. `dnspatch healthcheck`
is another process that shares only the status directory.

**What is hard.** The signal comes at any moment, also between two attempts of a
cycle. A write that fails may have reached the record, in one family or both.
Memory is lost in a restart, also in the middle of a write; status files are not.
Decisions rest on remembered values (`lastV4`, `lastV6`) that may have become
wrong. Cycles may last longer than the interval, and the ticker holds one tick.
Only transitions are published, some in the middle of a cycle. Several retrievers
with different hints fill two families. Retry delays are measured from the start
of a tick and computed with integers of a fixed width. Providers replace a record
by several calls, each of which may fail before or after its effect.

**What makes each part correct.**

- instance: what it believes published is published; a family stays empty only
  after every source was asked; a cycle is reported successful only when every
  provider holds every address found; a failing plugin stops nobody else; the
  address arrives once the world is calm, and writes then end; after a
  cancellation nothing starts, nothing is reported, and the goroutine ends.
- events: a subscriber to all events can rebuild what fails and what was written.
- backoff: no overflow, delays between half a ceiling and the ceiling.
- health: what is stuck is reported; what completed a cycle in time is not.
- providers: success means that exactly the wanted address is there; the name
  resolves throughout; what was cut short is completed by a later call, and no
  retry makes a second record; nothing but the families asked for changes.
- notifiers: a publication with mqtt ends near its deadline however many instances
  share the connection, and one with rabbitmq is held up by closes besides, each for a
  bounded time; no connection is leaked, not even one that comes late; a shutdown ends
  with a broker that never answers.
- configuration and application: a document means what the documentation says, in
  whichever form it is written; an accepted one always starts; events reach the
  notifiers an instance names and no others; what is unused cannot fail.

## Modules

| Module | What it is |
|---|---|
| `Backoff` | the closed form of the delay: `DelayLimit`, `Ceiling`, `Delays` |
| `BackoffLoop` | the loop of `backoff.delay`, on machine integers that wrap |
| `Instance` | one instance with its plugins, hooks, ticker, signal and restarts |
| `RecordKeeper` | the abstract promise of an instance: records and beliefs about them |
| `InstanceKeeps` | the refinement mapping from `Instance` to `RecordKeeper` |
| `InstanceHealth` | `Instance` with the age of its status file beside it |
| `Health` | status files, the daemon that touches them and the health check, for several instances |
| `Regru` | the provider `regru`: replacing a record by adding and removing |
| `ProviderContract` | the abstract promise of a provider to the instance that calls it |
| `Provider` | what all other providers share: families one by one, errors joined, a service that fails, an operator who edits |
| `SeparateRecords` | cloudflare and timeweb: one object for each record, created or changed |
| `RecordSets`, `TokenCache` | selectel and yandexcloud: one object for each name and type, and the token sent with every call |
| `WholeName` | beget: everything at the name is read and written back |
| `OneRequest` | dyndns2, duckdns, namecheap and rfc2136: one request and the reading of its answer |
| `Providers` | all of these composed, with their properties and the refinement of the contract |
| `Publisher` | one mqtt or rabbitmq notifier shared by instances |
| `Plugins` | the registry of a build and the decoding of parameters |
| `Config` | the configuration file, as operators: from a document to what was asked for, or to problems |
| `Retrievers` | what the retrievers answer |
| `Startup` | `app.Run` and `--check-config`, composed of the last three |
| `InstanceProofs`, `InstanceReportProofs` | theorems about `Instance`: what it believes, with the refinement; what it reports, with its status file |
| `BackoffProofs`, `HealthProofs`, `RegruProofs`, `ProvidersProofs`, `PublisherProofs`, `StartupProofs` | theorems about the module of that name |
| `MC*` | values for constants |

### Instance

One variable for each piece of memory the Go code keeps, under its name (`last`
for `lastV4` and `lastV6`, `due` for `next`), and `pc`/`idx` for the place the
goroutine is at. An attempt takes two steps, the call (`Fetch`, `Write`) and its
outcome (`FetchOK`, `FetchFailed`, `FetchInterrupted`, `WriteOK`, `WriteFailed`,
`WriteInterrupted`), with time, signals and changes of the address in between.
Loops over lists are one step per element with the loop's own guard, including its
look at `ctx.Err()`. Every other handler is one action, with the events it emits.

Beside the program's memory stand the things it reaches only through plugins:
`ip`, `record`, and what a subscriber that receives everything believes (`told`,
`announced`, `outcome`). `called` is history, for `FallbackExhausted`.

Time is counted in units that only `Elapse` adds, and every moment is a distance
from the start of the current tick, up to `MaxDelay`, beyond which distances no
longer matter for `due`. `phase` and `tickPending` are the ticker and its buffer of one.

Assumptions of the model, each of them about code outside of the module:

- Each provider keeps a record of its own, and nobody else edits it. Where two
  providers keep one record the beliefs of the code are not about it at all.
- A request that was given up reaches the record before the call returns, or
  never. The plugin contract asks plugins to return promptly on cancellation.
- A retriever answers with addresses the host has at that moment, of the families
  of its hint, which is what the retrievers pinned to a family enforce.
- The look at the context and the emission that follows it are one step. The
  signal that comes between them reports what was about to be reported anyway.
- There is at least one hook, since `runHooks` returns early without any; the
  daemon always adds one unless the status directory is unusable.
- `KindStarted`, `KindStopped` and the wording of events are left out.

### RecordKeeper and its refinement

`RecordKeeper` has three actions: a write of the families not believed to be there
is accepted; or fails in part and leaves no belief about that provider; or the
process forgets everything, perhaps in the middle of a write. `InstanceKeeps` maps
`belief` to `last` while the instance is not cancelled, and to no belief after that:
an interrupted write leaves `last` alone although the record may have changed, and
this is sound only because no write follows a cancellation.

### Health

Instances seen from outside, each completing cycles or hanging; a daemon that starts
and stops; a directory that is writable or not, at the start and later (one that
exists counts as prepared at the start although nothing can be written to it); one file for
each `fileName`. `Problem` is `check`. Names are strings that `url.PathEscape`
leaves alone, because `fileName` is injective on its output except for the prefix
that the module models.

### Regru

`Update` writes both families, each by `setOne`: list, perhaps refuse, add, remove.
Every call has a failing version with and without its effect. `Crash` stops the
process between calls. `mine` (history) tells the provider's records from others'.
`zone` has the addresses and `twice` those that two records have: `setOne` counts
records before it refuses, but lists and removes each content once. The caller retries
after a failure, as an instance does.

### Providers

`Provider` holds the state of an update (`todo`, `failed`, `result`, `pc` for the
call that comes next) and of the name at the service (`zone` by record type, `text`
for a record of a type dnspatch never writes). Four modules say what one call of
which service does; `Providers` composes them. A call may fail before or after it
took effect, or be answered with a failure under a status of success (the layers of
a cloudflare or beget answer, the lines of a dyndns2 answer). The process may stop
between calls, and an operator may edit the name during or between updates
(`disturbed`, history, since the last update began). Which call it was that failed
does not matter to anybody; that one did is `trouble` (history).

- The token (`TokenCache`) is absent, fresh or about to expire, and accepted or not.
  It can expire or be withdrawn between any two steps. A call that is refused drops
  it and is made once more with a new one, by the same request; the second refusal
  is an error.
- selectel addresses the zone and the set that it found in earlier calls, so that a
  set that somebody removed meanwhile makes the replacement fail. yandexcloud puts its
  set in place of whatever is there.
- timeweb and cloudflare read one page, of the zone the one and of a name and type
  the other. `overfull` has the families for which there are more records than that
  (both or none with timeweb), and the code then gives up rather than decide on a part
  of them, even if the address it wants is among those it got.
- beget writes back what it read, the other types included.
- rfc2136 is signed or not (`keyed`); a signed update is confirmed by a signed reply.
- `zone` has the addresses of the records of a type, and `doubled` the families in
  which one of them has a second record. cloudflare, timeweb and beget count records
  before they refuse to guess (`Several`), so that two records of one old address are
  refused. The operator may leave such a family, but does not remove all of it while
  the program runs. The other services keep the records of a type as one set, in which
  an address is once.

`ProviderContract` is what `Instance` relies on: an update changes only families it
was given, towards the address asked for, and returns success only when all of them
hold it. Nothing is promised for an update that somebody else interferes with.

Assumptions: an operation that yandexcloud accepted completes, although the code
does not wait for it; the parameters of an operator's zone (proxied, ttl) are carried
along and not modelled; nicru and the other named wrappers of dyndns2 are its code.

### Publisher

Per instance, what it does (`state`) and for how long (`age` and `hung`); the `sync.Mutex`,
with the queue of those that wait, the one that was woken and finds the mutex taken
by another (`starving`, after which it is handed over, as Go's mutex does after a
millisecond); the connections by identity. `OnEvent` sets the deadline *before* it
waits for the mutex, and the mutex does not look at the deadline. Dialling has a
timeout of its own; a publication that gives up on it leaves it to a goroutine
(`left`, rabbitmq) or drops it (mqtt). `kind` is chosen at the start, since the two
differ in little else. `Breaks` with "nochannel" is rabbitmq's connection that is up
while its channel is closed. The signal cancels every publication but the last one,
which reports the stop under a context without cancellation; `Close` runs when
`runner.Run` has returned.

To disconnect is one step with mqtt, which calls `Disconnect(0)`, or in `Close`, when
nobody publishes any more, `Disconnect(disconnectQuiesce)`, a quarter of a second.
rabbitmq calls `conn.Close()` with the mutex held, and that is a handshake: the broker
is asked
(`HangsUp` after a failed publication, `HangsUpOld` before connecting again,
`HangsUpLast` in `Close`, `HangsUpLate` in the goroutine that was left behind), the
connection is "closing", and only when that is over (`CloseEnds`) the code goes on. It
looks at no deadline; it ends with the broker's answer, or when the client misses
heartbeats, after `CloseTime` at the latest. Only a connection that the client knows to
be lost ("dead") is dropped at once. The ticks during which the holder of the mutex
waits for such a handshake are counted apart, in `hung`, so that `HeldBriefly` can say
what closes cost and what everything else costs.

Steps that take no time come before the next tick (`Urgent`). Assumed: a deadline wakes
its goroutine, and the client library of rabbitmq ends a connection without heartbeats.
Not modelled: redis, which keeps no state of its own around its client, and the
contents of events.

### Startup, Config, Plugins and Retrievers

A document is a function from keys to values (see `Config`). `ParseProblems` and
`Parse` are the checks and the result of `config.Load`; problems are words, for what
an error is about. `Startup` runs it: load, build, validate, attach the notifiers,
then the summary or the health recorder and the run. A failing step ends with exit
code "config". `Ask` calls a retriever of the running daemon, which answers any of
`GetAddresses`.

The properties compare what came out with reference definitions that read the
document directly and do not use the resolver: `Wanted` (the places an instance's
events should reach, which `HooksReachWhatTheyName` compares with where its hooks
lead, and no two hooks to one place), `Layered` (the value of a parameter), `Lean`
(the document without what is unused) and `InPlace` (the document with definitions
written out).

Of the plugins, one of each family is registered with those parameters that the
properties tell apart, and two builds exist, with and without the optional plugins.
Parameters are strings; a value of another type is `NotText`. Text is taken apart
only where the code does (`${...}` references, case of names).

### Variants

Operators marked `variant` next to a definition are plausible mistakes in that place
(a dropped guard, a missing reset, an off-by-one). Nothing uses them. They are there
to test the properties: with the variant in the definition's place, the property
named with it in `PROJECT.json` ("mutants") fails in its run.

## Runs

| Run | Questions | Bounds |
|---|---|---|
| `backoff_loop` | Does the loop overflow or overshoot, and does it compute the closed form and stay within jitter? | integers up to 31, maximum 12 (no power of two times most intervals), every interval, up to 7 failures |
| `instance_fallback` | `TypeOK`, `BeliefIsTrue`, `FailureIsConsistent`, `FallbackExhausted`, `KeepsRecords` | a pinned and a dual retriever, one provider, two addresses, a restart, faults that may end |
| `instance_providers` | `SuccessMeansPublished`, `SubscriberKnows`, `ChangesAreAnnounced`, `OldIsTrue`, `NoAttemptAfterCancel`, `QuietShutdown`, `RunningIsFresh` | one retriever, two providers, two failures counted, delays up to four units, a restart; an interval in which exactly the three attempts of a cycle fit, with a status file beside it |
| `instance_live` | `Convergence`, `WritesCease`, `CyclesContinue`, `CancelStops` | a provider that may fail for ever before a reliable one, attempts and hooks as long as the interval, so that a cycle is longer than it and ticks are dropped |
| `health_files` | `StuckIsReported`, `RecentIsHealthy` | two instances, one below and one above the floor of the threshold, one name that is escaped |
| `regru_faults` | `SuccessIsExact`, `StaysResolvable`, `FailedRemovalHeals` | both families, three addresses, any three records found at the start, two of one address among them |
| `providers` | `SuccessIsPublished`, `FailsForAReason`, `OthersSurvive`, `NeverMultiplies`, `HealsOnceCalm`, `KeepsContract` | nine types, both families, two addresses of the host and one other, names with no, one or two addresses of a type, one of them perhaps in two records, more records than a page, one edit |
| `publisher` | `HeldBriefly`, `NothingLeaks`, `ClosedLast`, `ShutdownIsClean` | three instances, three connections, a publish timeout of one tick, a longer dial timeout, closes of up to a tick |
| `startup` | `LoadedIsRunnable`, `HooksReachWhatTheyName`, `UnusedNeedsNothing`, `LayersAreKept`, `FormsAgree`, `AnswersFitTheHint`, `SummaryTellsApart` | some 11,000 documents, each in two environments and two builds, with and without `--check-config` |
| `health_short_interval`, `regru_refuses`, `family_hint` | see "Where the code and its words differ" | the smallest that shows it |

**Why these bounds.** Two addresses tell old from new, and changing back covers
stale memory; nothing compares more than two. Two retrievers with different hints
give every way a family can come from the first, from the second or from none. Two
providers give every order of success and failure in a cycle; a third would be
visited like the second. Failures beyond the cap have the same ceiling as at it,
because the caps chosen reach the maximum delay. One restart shows what is lost;
after it the state is that of a start, with a record left by the past. Families
nobody asks for have no address, which halves the states and touches no property.
In `regru_faults` three addresses give a wanted one and two old ones, the fewest
that are ambiguous. Addresses are symmetric where no liveness is checked.

In `providers` the found records are none, one that is not wanted, and two of which
one may be wanted: the cases that the code of any provider tells apart. One edit is
enough to fall between any two calls, and calls that were disturbed are promised
nothing. In `publisher` one instance holds the mutex, one waits, and one can
overtake it; the theorem shows that more change nothing, and that longer closes do not
either. A dial that outlives a publication needs a dial timeout above the publish
timeout. As many connections as instances suffice, because a publication starts only
when an identity is free; that is a bound of the model, on connections that are still
being given up. In `startup`
the documents come in four families in each of which one part varies fully (lists
of up to two entries, or three for providers, which is what duplicates and
differences among three need) while the rest is a fixed, valid document.

**Fairness.** `WF(Program)`: the goroutine is scheduled, and plugin and hook calls
return, which the plugin contract demands of a call whose context ended and which
`attempt` waits for. `WF(Elapse)`: time passes. Nothing else is fair: no signal, no
change of address, no calm has to come, and no single plugin call has to succeed
unless the world is calm and the plugin is not one of the flaky ones. Liveness is
stated as "if the world becomes calm, then": `calm` means that the address stays
and the plugins outside of `FlakyR` and `FlakyP` work. `Regru` and `Providers` use
`WF` of the provider's own steps and of its caller's retries in the same way.
`Publisher` has `WF` of its goroutines, of time, and of the last report of an instance,
which `instance.run` makes before it returns. The broker owes nothing, neither an answer
nor a connection: what ends a wait is a deadline, the timeout of the dial or, for the
answer to a close, the heartbeats that are missed.

`CHECK_DEADLOCK` is left on: a stopped instance, a returned delay, a satisfied
caller, a closed notifier and an ended process have an explicit step that changes
nothing.

## Where the code and its words differ

Each of these is a run that is expected to fail.

- **`health_short_interval`**: the threshold leaves room for one attempt, as its
  comment says for each; a cycle consists of several, and with a short interval a
  loop that runs is reported as stuck. The floor is exactly one attempt timeout
  (`health.go:35`, `runner.go:26`, which `app.go` leaves as it is), so it never covers a
  cycle of two attempts that time out. What protects a loop that runs is twice the
  interval, where the interval has room for the attempts and hooks of a cycle:
  `instance_providers` shows it where they just fit, `RunningStaysFresh` proves it.
- **`regru_refuses`**: a replacement cut short, followed by another address, leaves
  two records that the provider made itself and then refuses to touch, for ever.
- **`family_hint`**: `Family = "ipv4"` pins the retriever, since parameters are
  matched ignoring case, but not the instance, which reads `family` as it is
  spelled and goes on to look for an IPv6 address.

Others were met while modelling and proving and have no run of their own, the first
two because an `ASSUME` that TLC evaluates with the runs says it all:

- The instance names `.` and `_.` share a status file: `url.PathEscape` leaves both
  alone and `fileName` puts `_` before the first. The cycles of one hide that the other
  hangs, although the package comment promises a file for each (`MCHealth`;
  `StuckIsNotOverlooked` proves that nothing else hides it).
- The name generated for a notifier declared in place, `<instance>/<type>#<position>`,
  is no key where names have slashes: the instance `home` with one of type `lan/redis`
  and the instance `home/lan` with one of type `redis` both make `home/lan/redis#1`. One
  replaces the other, so `home` publishes on the connection of `home/lan` and nobody
  notices the type that does not exist, although `notify.go:16-17` says that such a
  notifier "is never shared with another instance" (`MCStartup`; `HooksReach` proves
  that events go astray in no other way).
- The comment on `update` (`instance.go:353-355`) says that anchoring the next
  attempt at the start of the tick keeps a slow attempt from eating into the delay.
  `instance.go:407` does the opposite: the time of the attempt is taken off the pause.
- `hook.go:15-18` of the notification hook says that a broker that does not answer
  must not hold an instance for long. rabbitmq's `disconnect` (`rabbitmq.go:177-183`)
  closes the connection with the mutex held, which waits for the broker without a look
  at `publishTimeout`, until heartbeats are missed: after a publication that expired, and
  once more when the next one connects. Everybody that waits for the mutex waits as
  well, so that what a silent broker may cost an instance grows with the number of
  instances that share the notifier (`LongestHung`).
- `redis.go:3-4` says that the next cycle announces a status again, so a missed
  message is harmless. `observe` returns early unless the state changed, so a
  subscriber that missed a transition stays wrong until the next one.
- `duplicateProviders` compares parameters by their spelling. A definition without
  `zone`, referred to twice with `zone` and `Zone` overridden to one value, keeps one
  record with two providers, which `Instance` assumes never happens.
- An override in another spelling than the definition's is refused as a parameter
  that is set twice, although names are matched ignoring case. A notifier declared
  in place is refused when its generated name is that of an unused definition.
- `attachNotify` returns an error before its deferred close is set up, so earlier
  connections are left to the end of the process, which follows at once.

## Proofs

Checked by TLAPS for every number of retrievers and providers, every hint, every
set of addresses, all durations, and all documents. Each theorem has the form
`Spec => []P` and follows from an invariant that contains `P`; what is named below
is what had to be added to make it inductive. Every invariant that a passing run
checks is proved.

- **`InstanceProofs`**: what an instance believes. `TypeCorrect` (`TypeOK` is
  inductive; one step per action). `BeliefsAreTrue`: `BeliefIsTrue` is inductive
  together with `TypeOK`. It is stated for an instance that is not cancelled, which is
  what makes `WriteInterrupted` pass; the steps that leave records and memory alone are
  gathered in `Idle`, so that the proof looks only at writes, the signal and the
  restart. `FailuresAgree`: `FailureIsConsistent` is inductive too, since `last`,
  `failures`, `lastErr`, `status` and `due` of a provider only change together.
  `KeeperRefinement`: `Spec => Keeper!Spec`. An accepted write is `Accept`, a failed one
  `Fail`, an interrupted one, the signal and a restart are `Forget`, everything else
  stutters; that the families `update` sends are exactly the abstract `Missing` ones is
  `ChangedIsMissing`. `KeeperKnows`: in the abstract specification beliefs are true, so
  with the refinement they are in the code.
- **`InstanceReportProofs`**: what an instance reports.
  `NothingBeginsAfterCancel` and `ShutdownIsQuiet` are about single steps and need
  no more than the guards, each at the place where the signal can come.
  `SubscribersKnow` needs only that nothing is known of anybody at the start: a
  transition that is reported changes `told` in the same step as `status`.
  `PublishedIsAnnounced` and `OldAddressesAreTrue` have one invariant,
  `AnnouncementInv`: an address in `last` has been announced *or is collected* in
  `changes` (`AllReported`), and `changes` is of providers that were passed
  (`PassedOnly`). Neither property holds by itself in the middle of a cycle, where an
  address is accepted and not yet announced.
  `FallbackIsExhausted` follows the list of retrievers: each one that was passed
  was called or could not add anything (`Polled`).
  `SuccessIsPublication` follows both lists of a cycle without errors: retrievers that
  were called work, providers that were passed hold what was found, and the update
  only begins with something found (`OutcomeInv`). It needs that the host has an
  address in every family asked for, which `Instance` assumes of the host.
  `RunningStaysFresh`: the age of the status file and the most that may remain of
  the cycle together never exceed `LongestCycle`, the interval plus a timeout for every
  attempt and hook (`Fresh`). Its hypothesis is `LongestWork <= Interval`, that those
  timeouts fit into an interval, which `instance_providers` meets with equality and
  `health_short_interval` does not; the age starts over with a process.
- **`HealthProofs`**. `RecentIsNotReported` needs that a file that was kept is at most
  as old as the cycle it records (`KeptIsYoung`), and holds for any names.
  `StuckIsNotOverlooked` needs the opposite, that no file is younger than the last cycle
  of its instance (`NoFalseSign`). That holds if the names have different files, which
  is its hypothesis `FilesDiffer`: the configuration does not guarantee it, as
  `MCHealth` notes. `Old`, a constant, is the
  age beyond which a file counts as that old; it is above every threshold.
- **`BackoffProofs`**. `DurationsFit` and `CeilingStaysInRange`: the ceiling stays
  between interval and limit, so no doubling wraps, for every width of the integers.
  This is the invariant `RangeInv`; neither half is inductive without the other.
  `LoopMeetsClosedForm`: the ceiling is the interval times a power of two, cut at
  the limit, and once it is cut no further failure changes it, which is why the loop
  may stop early. What is needed of powers of two (`PowerDoubles`, `PowerGrows`) comes
  from counting subsets, since `^` is not defined by recursion for the provers.
- **`RegruProofs`**. `SuccessMeansExact`, `AddsBeforeRemoving`, `NameStaysResolvable`.
  The invariant adds how the list of records to remove relates to the zone
  (`ListIsExact`) and that families already written without an error hold their
  address (`DoneIsExact`). `ReturnKeeps` does the end of `setOne` once, for every
  way it can return.
- **`ProvidersProofs`**, for all nine types at once. `SuccessMeansPublished`,
  `EveryProviderKeepsContract` and `ProvidersTypeOK`: the invariant adds that the
  families done without an error hold their address (`DoneSoFar`), that what a provider
  read is what is there when it writes (`SnapshotHolds`) and that a service that takes
  both families in one request has none left over (`AllAtOnce`); each is claimed only
  until somebody else edits. `FailureHasAReason`: a family that failed has a reason
  as soon as it failed (`ReasonSoFar`): the records leave no choice, are more than one
  page lists, or the service has no such family; and a token that was replaced after a
  refusal is accepted, or gone, so that the second refusal does not come unless a call
  went wrong (`TokenTrusted`). `OtherRecordsSurvive` and `RecordsNeverMultiply` are about steps:
  each call is shown to spare what is not its own (`Spares`) and to leave a family
  with one record (`Unifies`). `ReturnKeeps` does the end of a family once, for
  every way it can end.
- **`PublisherProofs`**. `NobodyIsHeldLong`: at most twice the publish timeout, and
  with rabbitmq two closes for each instance and for one that overtakes, for every
  number of instances and all timeouts. The invariant (`MutexInv`) has the mutex and its
  queue agree with what instances do, those that wait be sorted by how long they have, and
  (`Ages`) nobody wait longer than the holder holds, until one is overtaken, and at
  most a timeout longer after that. The steps are first reduced to six kinds
  (`StepKinds`). For the closes (`HungInv`), the time an instance has hung and the most
  that those before it can still hang, each of them twice, stay below the bound
  (`Ahead`, `RoomToWait`), since no more than all instances are in the queue (`Turns`).
  `NoConnectionLeaks` and
  `CloseComesLast` rest on there being one attempt to connect, the holder's
  (`OneAttempt`), during which nothing is kept; `PublisherTypeOK` is the sum.
- **`StartupProofs`**, for every document, environment and build. The invariant
  (`Inv`) is short: what `Load` made of the document stays as it is, instances are what
  `buildInstances` made of it, and every plugin could be built. The work is in what an
  accepted document then has, and most lemmas are about the operators of `Config`.
  `AcceptedIsRunnable`: the two validators agree (`AcceptedIff` takes the first apart).
  `ParametersAreLayered`: overlaying and decoding, each by the spelling it uses, give the
  reference definition, because a table that gives a parameter in two spellings is
  refused (`GivenOnce`).
  `FormsAreOne`: an entry whose definition is written out resolves to the same plugin but
  for its name (`SameEntry`), so the document in that form is accepted too.
  `UnusedIsIgnored`: definitions outside of what is referred to can be taken away from a
  pool without a difference to any check (`Trims`, then entry by entry).
  `ConnectionsExist`: `attachNotify` indexes no connection that is not there.
  `HooksReach`: once attached, the hooks of an instance are a ping, one for each
  notifier it names in the document's order, and the recorder (`HooksInv`, `Sends`). Its
  hypothesis `NamesAreTold`, that different notifiers have different generated names,
  is checked by TLC of every document of `startup`, and refuted of `Alike`
  (`MCStartup`). `AnswersAreOfTheFamily` and `SummaryIsUnambiguous` are about one
  plugin and one list of providers.
  That a configuration is finite tables and lists is `DocumentAssumption`; it says
  nothing of what they hold.

The assumptions are the named `ASSUME`s on the constants, all of which TLC evaluates,
and the hypotheses named above. A `UNION` that is followed by another operator has its
operand in parentheses: TLC and the provers read it alike only then.

**Only model-checked:** the properties under fairness (`Convergence`, `WritesCease`,
`CyclesContinue`, `CancelStops`, `FailedRemovalHeals`, `HealsOnceCalm`,
`ShutdownIsClean`): fairness is about `ENABLED`, which is out of the prover's reach. And
the three runs that fail, each of which is a counterexample to what it states.
`TypeOK` of `BackoffLoop`, `Regru`, `Providers` and `Publisher` is proved and no longer
a question of a run.

## What is left

Theorems that would say more than the runs ask: that a successful write of any
`Providers` type is what `Instance` takes `Apply` to be, which is the composition of
`KeeperRefinement` with `EveryProviderKeepsContract`; and the safety parts of the
liveness properties, such as that an undisturbed update of a provider that failed leaves
a zone from which the next one cannot fail for ever.

**Partly modelled.** The runner, without the names it gives unnamed plugins in logs.
The hooks, without the JSON of an event and the request of a ping. Plugins, without
values of other types than strings, nested tables and the hints for misspelled
names: `decode` is reflection over Go types. Notifiers, without redis.

**Not modelled.** A write that a timeout gave up and that reaches the record after a
later one: what a service does then is outside of the code. Building HTTP clients,
requests and URLs (`httpx`), the search for the configuration file, TOML, the layout
of summaries and the texts of errors, the generators of documentation and plugin
lists, test helpers: they keep no state that another part reads, and what could go
wrong in them is in reach of unit tests. An interval of over a hundred years, whose
double overflows a duration: `Health` uses unbounded integers.
