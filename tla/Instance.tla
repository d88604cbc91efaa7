------------------------------ MODULE Instance ------------------------------
(***************************************************************************)
(* One instance of dnspatch, internal/runner/instance.go: a goroutine that *)
(* on every tick asks its retrievers, in order, for the addresses of the   *)
(* host and writes the families that changed to its providers, in order.   *)
(* It remembers what each provider last accepted, backs off from a failing *)
(* provider, tells its hooks what happened and stops when its context is   *)
(* cancelled. A restart loses everything it remembers.                     *)
(*                                                                         *)
(* External state that the code only reaches through plugins and hooks is  *)
(* kept beside it: the address the host really has (ip), what the DNS      *)
(* records really hold (record), and what a subscriber that received every *)
(* event believes (told, announced, outcome).                              *)
(*                                                                         *)
(* Time is a count of units. Only Elapse lets it pass; every moment is     *)
(* kept as a distance from the start of the current tick.                  *)
(***************************************************************************)
EXTENDS Backoff, FiniteSets

CONSTANTS
    NR,             \* number of retrievers, polled in the order 1..NR
    NP,             \* number of providers, visited in the order 1..NP
    Hint,           \* family hint of each retriever
    Addr,           \* addresses a family of the host may have
    Unknown,        \* the zero netip.Addr: no address, or not known
    Interval,       \* polling interval
    MaxBackoff,     \* maxBackoff, before it is raised to the interval
    AttemptTimeout, \* bound on one retrieval or one write
    HookTimeout,    \* bound on what the hooks do between two attempts
    FailureCap,     \* bound: consecutive failures are counted up to here
    MaxRestarts,    \* bound: how often the process may be restarted
    Settles,        \* whether the world may become calm
    FlakyR, FlakyP  \* retrievers and providers that may fail even then

ASSUME CountAssumption ==
    /\ NR \in Nat \ {0}
    /\ NP \in Nat \ {0}
    /\ Hint \in [1..NR -> {"ipv4", "ipv6", "dual"}]
    /\ FlakyR \subseteq 1..NR
    /\ FlakyP \subseteq 1..NP
    /\ Settles \in BOOLEAN

ASSUME AddrAssumption == Unknown \notin Addr

ASSUME TimeAssumption ==
    /\ Interval \in Nat \ {0}
    /\ MaxBackoff \in Nat
    /\ AttemptTimeout \in Nat
    /\ HookTimeout \in Nat
    /\ FailureCap \in Nat \ {0}
    /\ MaxRestarts \in Nat

Retrievers == 1..NR
Providers  == 1..NP
Families   == {"v4", "v6"}
Maybe      == Addr \cup {Unknown}
Nothing    == [f \in Families |-> Unknown]
MaxDelay   == DelayLimit(Interval, MaxBackoff)

\* What a status event can be about.
RetrieverOf(r) == <<"retriever", r>>
ProviderOf(p)  == <<"provider", p>>
TheInstance    == <<"instance", 0>>
Subjects == {RetrieverOf(r) : r \in Retrievers}
            \cup {ProviderOf(p) : p \in Providers}
            \cup {TheInstance}

VARIABLES
    pc,          \* where the goroutine is
    idx,         \* position in the list of retrievers or of providers
    addrs,       \* addresses found by the current tick
    errs,        \* whether the current tick collected an error
    called,      \* retrievers called by the current tick (history)
    changes,     \* addresses written by the current tick
    last,        \* lastV4 and lastV6 of each provider
    failures,    \* consecutive failed writes of each provider
    lastErr,     \* whether the provider has an error to repeat
    due,         \* next of each provider, from the start of the current tick
    status,      \* trackedState of every subject
    cancelled,   \* the context is cancelled
    since,       \* time since the start of the current tick, up to MaxDelay
    age,         \* time the current step has taken
    phase,       \* time until the ticker fires next
    tickPending, \* a tick waits in the ticker's channel
    ip,          \* the addresses the host has, of the families asked for
    record,      \* what the record behind each provider holds
    told,        \* subjects a subscriber believes to be failing
    announced,   \* addresses a subscriber was last told of by ip_change
    outcome,     \* outcome of the last cycle reported
    calm,        \* from now on only flaky plugins fail, and ip stays
    restarts     \* restarts so far

tick     == <<idx, addrs, errs, called, changes>>
provider == <<last, failures, lastErr, due>>
ticker   == <<since, tickPending>>
view     == <<told, announced, outcome>>
outside  == <<cancelled, phase, ip, calm, restarts>>
vars     == <<pc, tick, provider, status, ticker, view, record, outside, age>>

-----------------------------------------------------------------------------
(* Families, retrievers and what is still missing.                         *)

\* The families a retriever might supply, by its hint (neededFamilies).
Supplies(r) == CASE Hint[r] = "ipv4" -> {"v4"}
                 [] Hint[r] = "ipv6" -> {"v6"}
                 [] OTHER            -> Families

Need == UNION {Supplies(r) : r \in Retrievers}

Found == {f \in Families : addrs[f] # Unknown}

DoneWithAny == Need \cap Found # {}     \* variant: one family is enough
Done == Need \subseteq Found

IsNeeded(r) == (Supplies(r) \cap Need) \ Found # {}

\* The families update sends to provider p.
ChangedAlways(p) == Found               \* variant: last is not consulted
Changed(p) == {f \in Found : addrs[f] # last[p][f]}

-----------------------------------------------------------------------------
(* Events. emit drops everything once the context is cancelled.            *)

EmitsAlways == TRUE                     \* variant: the context is not checked
Emits == ~cancelled

IsChange(state, failed) ==              \* variant: a first failure is no news
    state # "unseen" /\ (state = "failed") # failed
IsNews(state, failed) ==
    IF state = "unseen" THEN failed ELSE (state = "failed") # failed

Observe(s, failed) ==
    /\ status' = [status EXCEPT ![s] = IF failed THEN "failed" ELSE "ok"]
    /\ told' = IF Emits /\ IsNews(status[s], failed)
               THEN [told EXCEPT ![s] = failed]
               ELSE told

\* The changes of a successful write, taken before last is overwritten.
ChangesAfter(p) ==                      \* variant: ... or after it
    [provider : {p}, family : Changed(p), old : {addrs[f] : f \in Changed(p)}]
ChangesOf(p) ==
    {[provider |-> p, family |-> f, old |-> last[p][f]] : f \in Changed(p)}

\* What a subscriber knows once ip_change has been emitted, if it is.
Announce(publish) ==
    announced' =
        [p \in Providers |-> [f \in Families |->
            IF publish /\ \E c \in changes : c.provider = p /\ c.family = f
            THEN last[p][f]
            ELSE announced[p][f]]]
EmitCleanChanges == Announce(Emits /\ ~errs)  \* variant: only without errors
EmitChanges == Announce(Emits)

-----------------------------------------------------------------------------
(* run                                                                     *)

Init ==
    /\ pc = "starting" /\ cancelled = FALSE
    /\ idx = 1 /\ addrs = Nothing /\ errs = FALSE
    /\ called = {} /\ changes = {}
    /\ last = [p \in Providers |-> Nothing]
    /\ failures = [p \in Providers |-> 0]
    /\ lastErr = [p \in Providers |-> FALSE]
    /\ due = [p \in Providers |-> 0]
    /\ status = [s \in Subjects |-> "unseen"]
    /\ since = 0 /\ age = 0 /\ phase = Interval /\ tickPending = FALSE
    /\ ip \in [Families -> Maybe]
    /\ \A f \in Families : ip[f] = Unknown <=> f \notin Need
    /\ record \in [Providers -> [Families -> Maybe]]
    /\ \A p \in Providers, f \in Families \ Need : record[p][f] = Unknown
    /\ told = [s \in Subjects |-> FALSE]
    /\ announced = [p \in Providers |-> Nothing]
    /\ outcome = "none"
    /\ calm = FALSE
    /\ restarts = 0

\* run up to its loop: the instance announces itself, and a subscriber starts
\* from scratch like the instance does.
Start ==
    /\ pc = "starting"
    /\ pc' = "loop"
    /\ told' = IF Emits THEN [s \in Subjects |-> FALSE] ELSE told
    /\ UNCHANGED <<tick, provider, status, ticker, announced, outcome, record>>

GoesOnForEver == TRUE                   \* variant: for without a condition
GoesOn == ~cancelled

\* tick begins: p.next is from now on measured from this moment.
BeginTick ==
    /\ pc = "loop" /\ GoesOn
    /\ pc' = "retrieve"
    /\ idx' = 1 /\ addrs' = Nothing /\ errs' = FALSE
    /\ called' = {} /\ changes' = {}
    /\ due' = [p \in Providers |-> Larger(0, due[p] - since)]
    /\ since' = 0
    /\ UNCHANGED <<last, failures, lastErr, status, tickPending, view, record>>

Stop ==
    /\ pc = "loop" /\ ~GoesOn
    /\ pc' = "stopped"
    /\ UNCHANGED <<tick, provider, status, ticker, view, record>>

-----------------------------------------------------------------------------
(* retrieve                                                                *)

MoreRetrievers == ~cancelled /\ idx \in Retrievers /\ ~Done

Fetch ==
    /\ pc = "retrieve" /\ MoreRetrievers /\ IsNeeded(idx)
    /\ pc' = "fetching"
    /\ called' = called \cup {idx}
    /\ UNCHANGED <<idx, addrs, errs, changes>>
    /\ UNCHANGED <<provider, status, ticker, view, record>>

SkipRetriever ==
    /\ pc = "retrieve" /\ MoreRetrievers /\ ~IsNeeded(idx)
    /\ idx' = idx + 1
    /\ UNCHANGED <<pc, addrs, errs, called, changes>>
    /\ UNCHANGED <<provider, status, ticker, view, record>>

\* The loop ends; without any address the tick ends too.
EndRetrieve ==
    /\ pc = "retrieve" /\ ~MoreRetrievers
    /\ pc' = IF Found = {} THEN "hooks" ELSE "update"
    /\ idx' = 1
    /\ UNCHANGED <<addrs, errs, called, changes>>
    /\ UNCHANGED <<provider, status, ticker, view, record>>

\* The retriever answers with the families in got. The first retriever that
\* reports a family wins it.
FetchOK(got) ==
    /\ pc = "fetching"
    /\ got # {} /\ got \subseteq Supplies(idx)
    /\ calm /\ idx \notin FlakyR => got = Supplies(idx)
    /\ addrs' = [f \in Families |->
                    IF f \in got /\ addrs[f] = Unknown THEN ip[f] ELSE addrs[f]]
    /\ Observe(RetrieverOf(idx), FALSE)
    /\ idx' = idx + 1
    /\ pc' = "retrieve"
    /\ UNCHANGED <<errs, called, changes, provider, ticker>>
    /\ UNCHANGED <<announced, outcome, record>>

RetryInPlace == idx                     \* variant: the same one is tried again
AfterFailedFetch == idx + 1

\* The retriever returns an error or no address, or runs into the timeout.
FetchFailed ==
    /\ pc = "fetching" /\ ~cancelled
    /\ calm => idx \in FlakyR
    /\ errs' = TRUE
    /\ Observe(RetrieverOf(idx), TRUE)
    /\ idx' = AfterFailedFetch
    /\ pc' = "retrieve"
    /\ UNCHANGED <<addrs, called, changes, provider, ticker>>
    /\ UNCHANGED <<announced, outcome, record>>

FetchInterrupted ==
    /\ pc = "fetching" /\ cancelled
    /\ idx' = idx + 1
    /\ pc' = "retrieve"
    /\ UNCHANGED <<addrs, errs, called, changes>>
    /\ UNCHANGED <<provider, status, ticker, view, record>>

-----------------------------------------------------------------------------
(* update                                                                  *)

MoreProvidersEver == idx \in Providers  \* variant: the context is not checked
MoreProviders == ~cancelled /\ idx \in Providers

UpToDate ==
    /\ pc = "update" /\ MoreProviders /\ Changed(idx) = {}
    /\ idx' = idx + 1
    /\ UNCHANGED <<pc, addrs, errs, called, changes>>
    /\ UNCHANGED <<provider, status, ticker, view, record>>

SkipsSilently(p) == FALSE               \* variant: a skip is not an error
SkipError(p) == lastErr[p]

\* Skipped, with the error of the last failed write.
BackingOff ==
    /\ pc = "update" /\ MoreProviders /\ Changed(idx) # {} /\ due[idx] > 0
    /\ errs' = (errs \/ SkipError(idx))
    /\ idx' = idx + 1
    /\ UNCHANGED <<pc, addrs, called, changes>>
    /\ UNCHANGED <<provider, status, ticker, view, record>>

Write ==
    /\ pc = "update" /\ MoreProviders /\ Changed(idx) # {} /\ due[idx] = 0
    /\ pc' = "writing"
    /\ UNCHANGED <<tick, provider, status, ticker, view, record>>

\* The families of sent reach the record behind the current provider.
Apply(sent) ==
    record' = [record EXCEPT ![idx] =
                 [f \in Families |-> IF f \in sent THEN addrs[f] ELSE @[f]]]

WriteOK ==
    /\ pc = "writing"
    /\ Apply(Changed(idx))
    /\ last' = [last EXCEPT ![idx] =
                  [f \in Families |->
                      IF f \in Changed(idx) THEN addrs[f] ELSE @[f]]]
    /\ changes' = changes \cup ChangesOf(idx)
    /\ failures' = [failures EXCEPT ![idx] = 0]
    /\ lastErr' = [lastErr EXCEPT ![idx] = FALSE]
    /\ due' = [due EXCEPT ![idx] = 0]
    /\ Observe(ProviderOf(idx), FALSE)
    /\ idx' = idx + 1
    /\ pc' = "update"
    /\ UNCHANGED <<addrs, errs, called, ticker, announced, outcome>>

\* What is believed of provider p after a failed write.
KeepsAll(p) == last[p]                  \* variant: nothing is forgotten
KeepsUnsent(p) ==                       \* variant: only what was sent is
    [f \in Families |-> IF f \in Changed(p) THEN Unknown ELSE last[p][f]]
AfterFailure(p) == Nothing

GivesUp == NP + 1                       \* variant: a failure ends the loop
AfterFailedWrite == idx + 1

\* The write fails or times out; any part of it may have reached the record.
WriteFailed(sent) ==
    /\ pc = "writing" /\ ~cancelled
    /\ calm => idx \in FlakyP
    /\ sent \subseteq Changed(idx) /\ Apply(sent)
    /\ last' = [last EXCEPT ![idx] = AfterFailure(idx)]
    /\ failures' = [failures EXCEPT ![idx] = Smaller(@ + 1, FailureCap)]
    /\ lastErr' = [lastErr EXCEPT ![idx] = TRUE]
    /\ \E d \in Delays(Interval, MaxDelay, failures'[idx]) :
          due' = [due EXCEPT ![idx] = d]
    /\ errs' = TRUE
    /\ Observe(ProviderOf(idx), TRUE)
    /\ idx' = AfterFailedWrite
    /\ pc' = "update"
    /\ UNCHANGED <<addrs, called, changes, ticker, announced, outcome>>

\* Shutdown cut the write short: nothing is recorded, nothing is reported.
WriteInterrupted(sent) ==
    /\ pc = "writing" /\ cancelled
    /\ sent \subseteq Changed(idx) /\ Apply(sent)
    /\ idx' = idx + 1
    /\ pc' = "update"
    /\ UNCHANGED <<addrs, errs, called, changes>>
    /\ UNCHANGED <<provider, status, ticker, view>>

EndUpdate ==
    /\ pc = "update" /\ ~MoreProviders
    /\ EmitChanges
    /\ changes' = {}
    /\ pc' = "hooks"
    /\ UNCHANGED <<idx, addrs, errs, called, provider, status, ticker>>
    /\ UNCHANGED <<told, outcome, record>>

-----------------------------------------------------------------------------
(* runHooks and the wait for the next tick                                 *)

RunHooks ==
    /\ pc = "hooks" /\ ~cancelled
    /\ Observe(TheInstance, errs)
    /\ outcome' = IF errs THEN "failed" ELSE "ok"
    /\ pc' = "waiting"
    /\ UNCHANGED <<tick, provider, ticker, announced, record>>

SkipHooks ==
    /\ pc = "hooks" /\ cancelled
    /\ pc' = "waiting"
    /\ UNCHANGED <<tick, provider, status, ticker, view, record>>

\* select may take the tick even when the context is done as well.
TakeTick ==
    /\ pc = "waiting" /\ tickPending
    /\ tickPending' = FALSE
    /\ pc' = "loop"
    /\ UNCHANGED <<tick, provider, status, since, view, record>>

WakeCancelled ==
    /\ pc = "waiting" /\ cancelled
    /\ pc' = "loop"
    /\ UNCHANGED <<tick, provider, status, ticker, view, record>>

\* What the goroutine does by itself. A step does not move time, and what is
\* outside of the instance is not its doing.
Run == Start \/ BeginTick \/ Stop \/ TakeTick \/ WakeCancelled

Retrieve ==
    \/ Fetch \/ SkipRetriever \/ EndRetrieve
    \/ \E got \in SUBSET Families : FetchOK(got)
    \/ FetchFailed \/ FetchInterrupted

Update ==
    \/ UpToDate \/ BackingOff \/ Write \/ WriteOK \/ EndUpdate
    \/ \E sent \in SUBSET Families : WriteFailed(sent) \/ WriteInterrupted(sent)

Hooks == RunHooks \/ SkipHooks

Program == (Run \/ Retrieve \/ Update \/ Hooks) /\ age' = 0 /\ UNCHANGED outside

-----------------------------------------------------------------------------
(* Time, the signal, the host's address and the process                    *)

\* An attempt ends by its timeout, hooks by theirs; the wait ends with a tick.
CanElapse ==
    \/ pc \in {"fetching", "writing"} /\ age < AttemptTimeout
    \/ pc \in {"starting", "retrieve", "update", "hooks"} /\ age < HookTimeout
    \/ pc = "waiting" /\ ~tickPending

\* The ticker's channel holds one tick; a further one is dropped.
Elapse ==
    /\ CanElapse
    /\ since' = Smaller(since + 1, MaxDelay)
    /\ age' = IF pc = "waiting" THEN 0 ELSE age + 1
    /\ phase' = IF phase = 1 THEN Interval ELSE phase - 1
    /\ tickPending' = (tickPending \/ phase = 1)
    /\ UNCHANGED <<pc, tick, provider, status, view, record>>
    /\ UNCHANGED <<cancelled, ip, calm, restarts>>

Cancel ==
    /\ ~cancelled
    /\ cancelled' = TRUE
    /\ UNCHANGED <<pc, tick, provider, status, ticker, view, record, age>>
    /\ UNCHANGED <<phase, ip, calm, restarts>>

ChangeAddress(f, a) ==
    /\ ~calm /\ f \in Need /\ a # ip[f]
    /\ ip' = [ip EXCEPT ![f] = a]
    /\ UNCHANGED <<pc, tick, provider, status, ticker, view, record, age>>
    /\ UNCHANGED <<cancelled, phase, calm, restarts>>

CalmDown ==
    /\ Settles /\ ~calm
    /\ calm' = TRUE
    /\ UNCHANGED <<pc, tick, provider, status, ticker, view, record, age>>
    /\ UNCHANGED <<cancelled, phase, ip, restarts>>

\* The process dies, or has stopped, and is started again: memory is lost. A
\* write it was in the middle of may have reached the record in part.
Restart(sent) ==
    /\ restarts < MaxRestarts
    /\ sent \subseteq (IF pc = "writing" THEN Changed(idx) ELSE {})
    /\ IF sent = {} THEN UNCHANGED record ELSE Apply(sent)
    /\ pc' = "starting" /\ cancelled' = FALSE
    /\ idx' = 1 /\ addrs' = Nothing /\ errs' = FALSE
    /\ called' = {} /\ changes' = {}
    /\ last' = [p \in Providers |-> Nothing]
    /\ failures' = [p \in Providers |-> 0]
    /\ lastErr' = [p \in Providers |-> FALSE]
    /\ due' = [p \in Providers |-> 0]
    /\ status' = [s \in Subjects |-> "unseen"]
    /\ since' = 0 /\ age' = 0 /\ phase' = Interval /\ tickPending' = FALSE
    /\ restarts' = restarts + 1
    /\ UNCHANGED <<view, ip, calm>>

Environment ==
    \/ Elapse \/ Cancel \/ CalmDown
    \/ \E f \in Families, a \in Addr : ChangeAddress(f, a)
    \/ \E sent \in SUBSET Families : Restart(sent)

Terminated == pc = "stopped" /\ UNCHANGED vars

Next == Program \/ Environment \/ Terminated

\* The goroutine is scheduled, its calls return (the plugin contract, and the
\* hooks' own timeouts), and time passes. Nobody has to send a signal.
Fairness == WF_vars(Program) /\ WF_vars(Elapse)

Spec     == Init /\ [][Next]_vars
FairSpec == Spec /\ Fairness

-----------------------------------------------------------------------------
(* What makes an instance correct.                                         *)

\* Every variable has its type: tick never indexes past its lists while a call
\* is open, and no delay exceeds the limit of backoff.
TypeOK ==
    /\ pc \in {"starting", "loop", "retrieve", "fetching", "update", "writing",
               "hooks", "waiting", "stopped"}
    /\ idx \in Nat \ {0}
    /\ pc = "fetching" => idx \in Retrievers
    /\ pc = "writing" => idx \in Providers
    /\ addrs \in [Families -> Maybe]
    /\ errs \in BOOLEAN
    /\ called \subseteq Retrievers
    /\ changes \subseteq [provider : Providers, family : Families, old : Maybe]
    /\ last \in [Providers -> [Families -> Maybe]]
    /\ failures \in [Providers -> 0..FailureCap]
    /\ lastErr \in [Providers -> BOOLEAN]
    /\ due \in [Providers -> 0..MaxDelay]
    /\ status \in [Subjects -> {"unseen", "ok", "failed"}]
    /\ cancelled \in BOOLEAN
    /\ since \in 0..MaxDelay
    /\ age \in Nat
    /\ phase \in 1..Interval
    /\ tickPending \in BOOLEAN
    /\ ip \in [Families -> Maybe]
    /\ record \in [Providers -> [Families -> Maybe]]
    /\ told \in [Subjects -> BOOLEAN]
    /\ announced \in [Providers -> [Families -> Maybe]]
    /\ outcome \in {"none", "ok", "failed"}
    /\ calm \in BOOLEAN
    /\ restarts \in 0..MaxRestarts

\* providerState.lastV4 and lastV6: an address the instance believes a provider
\* holds, and therefore does not write again, is the one in the record. Failed
\* and half-done writes, and restarts, must make the instance forget.
BeliefIsTrue ==
    ~cancelled =>
        \A p \in Providers, f \in Families :
            last[p][f] # Unknown => record[p][f] = last[p][f]

\* The four things remembered of a provider agree: it has failed exactly when
\* it has an error to repeat and its status says so, then nothing is believed
\* of its record, and only then may it be backing off.
FailureIsConsistent ==
    \A p \in Providers :
        /\ lastErr[p] <=> failures[p] > 0
        /\ lastErr[p] <=> status[ProviderOf(p)] = "failed"
        /\ lastErr[p] => last[p] = Nothing
        /\ due[p] > 0 => lastErr[p]

\* behaviour.md: a cycle is successful only when no provider of the instance is
\* in a failed state; and then every provider holds every address found, and
\* no retriever called has failed.
SuccessMeansPublished ==
    pc = "waiting" /\ ~cancelled /\ outcome = "ok" =>
        /\ \A p \in Providers : ~lastErr[p]
        /\ \A p \in Providers, f \in Found : record[p][f] = addrs[f]
        /\ \A r \in called : status[RetrieverOf(r)] = "ok"

\* Status events are transitions only, yet a subscriber that gets all of them
\* since the instance started knows what is failing now.
SubscriberKnows ==
    ~cancelled /\ pc # "starting" =>
        \A s \in Subjects : told[s] = (status[s] = "failed")

\* A subscriber to ip_change knows every address the instance believes to be
\* published, except what the current tick has still to report, whatever else
\* failed in between.
ChangesAreAnnounced ==
    ~cancelled /\ pc # "starting" =>
        \A p \in Providers, f \in Families :
            \/ last[p][f] \in {Unknown, announced[p][f]}
            \/ \E c \in changes : c.provider = p /\ c.family = f

\* AddressChange.Old is empty or the address announced before, and each change
\* is a change.
OldIsTrue ==
    \A c \in changes :
        /\ c.old \in {Unknown, announced[c.provider][c.family]}
        /\ last[c.provider][c.family] \notin {Unknown, c.old}

\* Instance.Retrievers: a family stays empty for a tick only when every
\* retriever that might supply it was called, in this tick.
FallbackExhausted ==
    pc \in {"update", "writing"} /\ ~cancelled =>
        \A f \in Need \ Found :
            {r \in Retrievers : f \in Supplies(r)} \subseteq called

\* Once the context is cancelled no retrieval and no write begins.
NoAttemptAfterCancel ==
    [][cancelled /\ cancelled' /\ pc' \in {"fetching", "writing"}
           => pc' = pc]_vars

\* notification-events.md: what a shutdown interrupts is not reported: after
\* the cancellation no status, no address change and no outcome is.
QuietShutdown == [][cancelled /\ cancelled' => UNCHANGED view]_vars

\* run: cycles go on for as long as the instance is not told to stop, whatever
\* fails.
CyclesContinue == []<>(cancelled \/ pc = "waiting")

\* A cancelled instance stops, unless it is restarted first.
CancelStops == cancelled ~> (pc = "stopped" \/ ~cancelled)

\* The retrievers and providers that may be relied on once the world is calm.
Reachable == UNION {Supplies(r) : r \in Retrievers \ FlakyR}

Published ==
    \A p \in Providers \ FlakyP, f \in Reachable : record[p][f] = ip[f]

\* Once the address stays and the reliable plugins work, every reliable
\* provider gets the address and keeps it, however much failed before and
\* whatever the flaky ones do.
Convergence == (<>calm) => <>[](cancelled \/ Published)

\* ... and then it is not written to again.
WritesCease ==
    (<>calm) => <>[](cancelled \/ ~(pc = "writing" /\ idx \notin FlakyP))

=============================================================================
