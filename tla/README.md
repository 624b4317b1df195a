# Vasool in TLA+

TLA+ models of Vasool, the agent that recovers failed payments: a diagnoser proposes an action, a
pure Gate of invariants I1..I7 allows or denies it, an executor records the intent and performs it
against a payments backend, and a hash-chained ledger lets a new process continue after a crash. The
models are translated from `src/vasool/`; TLC checks them on small instances. TLAPS proves, for every
instance, each safety invariant and action property those runs check and both refinements; liveness is
left to TLC.

Paths below are relative to `src/vasool/`.

## Contents

| Module | What it is |
|---|---|
| `VasoolTypes` | the closed vocabularies of `core/types.py` |
| `AuditTrail` | abstract specification: recorded, then done at most once, then reported |
| `Executor` | one case through gate, write-ahead intent, call, timeout, reconciliation, crash, restart |
| `ExecutorProofs` | theorems about `Executor`, checked by TLAPS |
| `Kernel` | the Gate: I1..I7, the review that merges them, the repair test (pure operators) |
| `Classifier` | who says what a failure was: code, prose, both, or a model; the router; the benchmark's evidence (pure operators) |
| `ClassifierProofs` | theorems about `Classifier`, checked by TLAPS |
| `Planner` | the diagnosers without a model: plan, consent and hours; the cron schedule (pure operators) |
| `PlannerProofs` | theorems about `Planner` and `Kernel`, checked by TLAPS |
| `Runner` | the loop of `run_arm` on one case, for any arm of the catalogue, on top of `Kernel` and `Planner` |
| `RunnerProofs` | theorems about `Runner`, checked by TLAPS |
| `Warmer` | the threads of `diagnosis/warm.py`, the response cache they fill and flush, the circuit breakers they share |
| `WarmerProofs` | theorems about `Warmer`, checked by TLAPS |
| `CircuitBreaker` | the breaker of `diagnosis/llm.py` as operators on its state |
| `Diagnoser` | one diagnoser: router, response cache, breaker, and requests to three kinds of model provider |
| `DiagnoserProofs` | theorems about `Diagnoser`, checked by TLAPS |
| `Backend` | abstract specification: what `executor/backend.py` promises the executor |
| `McpClient` | the stdio client of the MCP backend: pipe, buffer, request ids, deadlines, a server that may die |
| `Backends` | the REST and the MCP backend with the provider behind them; implements `Backend` |
| `BackendsProofs` | theorems about `Backends`, the refinement among them, checked by TLAPS |
| `Ledger` | the JSON-lines file and its hash chain, written in stages, torn, reopened, corrupted |
| `LedgerProofs` | theorems about `Ledger`, checked by TLAPS |
| `MCExecutor`, `MCRunner`, `MCRules`, `MCLedger`, `MCBackends`, `MCDiagnoser` | the small instances TLC runs; one `.cfg` per run (`Warmer` needs no instance of its own) |

`Executor` refines `AuditTrail` and `Backends` refines `Backend` (`INSTANCE ... WITH`). `Runner` extends
`Planner`, which extends `Kernel` and `Classifier`; `Diagnoser` and `Warmer` extend `CircuitBreaker`;
`Backends` extends `McpClient`. `Runner` takes the whole of
`Executor.execute` as one step with a fate; `Executor` takes a ledger append as one atomic step;
`Ledger` is where that step is opened. `PROJECT.json` maps every definition to the lines it models.

## The system

| Component | State | Operations | Interacts with |
|---|---|---|---|
| types, policy (`core/`) | none | key of a decision, policy validation | all |
| kernel (`kernel/`) | none | `Gate.review`, I1..I7, `repairable` | reads settlement from the backend |
| executor (`executor/executor.py`) | none of its own; mutates the case | `execute`, `_resolve_unknown`, `_apply`, `record_denial` | ledger, backend |
| resume (`executor/resume.py`) | none | `rebuild` | ledger |
| ledger (`executor/ledger.py`) | records and tip in memory, a file | `append`, `verify`, `load`, open | file system |
| REST backend (`executor/razorpay_rest.py`) | none | `is_settled`, `execute`, `reconcile` | provider over HTTP |
| MCP backend (`executor/razorpay_mcp.py`) | subprocess, request ids | the same three, JSON-RPC over pipes | provider |
| runner (`bench/runner.py`) | clock, case, result buckets | `run_arm` | all of the above |
| environment (`bench/environment.py`) | settled orders, hidden customers | the simulator's backend | runner, gate |
| fault wrappers (`faults/inject.py`) | applied keys, call counts | a backend that times out, errs, or cannot be read | runner |
| diagnosers (`diagnosis/llm.py`, `router.py`, `fallback.py`) | circuit breaker | `propose` | response cache, model providers, runner |
| model providers (`diagnosis/providers.py`) | the learned request format | `complete` | model endpoints over HTTP |
| response cache, warmer (`diagnosis/cache.py`, `warm.py`) | answers in memory, a file | `get`, `put`, `flush` | threads of the warmer |
| generator, reports, CLI, demo | data and text | | |

What is hard here: a write whose answer is lost; the read that should resolve it failing too; a
process that dies between the intent and the outcome and is continued from the ledger; a customer who
pays by another route between a read and the action that rests on it; answers of a subprocess that come late,
out of order or in prose; a breaker between a provider that throttles and a batch that must not lose the
model; policies over sliding windows
of time, across repairs and retries; a file that is torn in the middle of a line. `PROJECT.json`
lists these hazards by line, with the properties that watch them.

## Executor

State: the `ledger` (durable), the provider (`wire`, `effects`, `paid`, `settled`), the process (`pc`,
`cur`, `reply`, `case`) and one history variable (`inherited`, the keys the last restart found).

| Code | Action |
|---|---|
| gate approval, `execute` lines 86-108 | `Intend` |
| `backend.execute` leaves the process | `Send` |
| its answers: outcome, no live action, `ProviderError`, `UnknownOutcome` | `Answered`, `NoLiveAction`, `ProviderErrors`, `TimesOut` |
| `_resolve_unknown` | `FoundLanded`, `FoundAbsent`, `FoundNothingOut`, `Replay`, `ReplayFails` |
| `_apply` and the outcome record | `Finish` |
| the runner's STOP and terminal denials | `Stop`, `CloseOnDenial` |
| a crash anywhere; `resume.rebuild` | `Crash`, `Restart` |
| the provider and the customer | `Land`, `PayLink`, `PayOutOfBand` |

The provider is external and modelled from how `razorpay_rest.py` uses it: the idempotency key is the
reference id of a link, a reference id takes effect at most once, and a request that timed out may
still arrive. Proposals are new decisions stamped with the case's ordinal, or a second delivery of a
key already in the ledger. The gate appears with the checks that depend on what a crash or a timeout
can disturb: I1 with a read that may fail, I2, and the caps of I4, I6 and I7. I3, I5 and the clock
only deny more and are in `Kernel`.

Run `executor` (a replay, a link and a handoff; two money actions, one retry, one contact; three
intents; one crash; 1.7 million states) checks:

- `RebuildPessimistic`: at every moment, the case a crash would lead to has at least the keys,
  attempts and contacts of the case in memory.
- `NoReplayAcrossRestart`: a key with an intent on record is never sent by a later process.
- `NewDecisionIsFresh`: I2 never refuses a decision nobody has made yet, also after a restart.
- `ExecutedOnce`: after an executed outcome the ledger holds no further intent or outcome of its key.
- `NoSilentEffect`: an effect is never on record as a clean failure.
- `CapsSurviveRestart`: the actions and contacts on record stay within the caps, through the restart.
- `AuditSpec`: the refinement of `AuditTrail`.

All of them are also theorems. Three intents are enough to use a key, have it fail, and use it again before or after the crash, and
to exceed a cap of two if one count were lost; one crash already separates two processes.

## Kernel and Runner

`Kernel` has one operator per invariant, each the set of denials it returns, and `denials` for
`Gate.review` with the branch for a settlement that cannot be read. Time is in ticks of five minutes
(`Hour == 12`) from the first step of the case, since a case opens five minutes after its failure and
the planner waits for five, fifteen or fifty minutes; orders are in rupees, costs in paise, priors in parts
per million (`success_prior` multiplies by 11/20 per attempt and rounds down there, where the code
keeps floats). What the rules read of an error, its code or its prose, is the failure class it speaks
for, `UNKNOWN` when it says nothing.

`Runner` has one step per iteration of the loop in `run_arm`: `Stop`, `DueTooLate`, `Wait`, `Act`,
`Refused`, `Repair` (ended by `RepairByStopping`, `RepairAccepted` or `RepairRefused`), and `Over` when
the loop's guard fails. Each is the whole iteration with the settlement read, the executor's effect on the case, and the
accounting. A repair is reviewed with a read of its own, which may succeed where the first failed. A
write has a fate: answered, failed, or unseen (it took effect and the executor was told it did not).
An arm is one of the five of `bench/report.py` (`catalogue`): which diagnoser, with a gate or
without, with repairs or without. The model of arms C and D may propose anything in `Proposals`, so
nothing here rests on how a model behaves, or degrade to the plan of the rules.

Run `runner` (three events, eight proposals, two hours at which the customer may pay, a horizon of 76
hours, at most four iterations; arm D; 135 thousand states) checks:

- `ContactsRespectPolicy`: what the customer experiences stays within budget, cooling-off, quiet
  hours, channels, consent and the do-not-disturb register, over every window and through every repair,
  provided the case is told of what took effect.
- `PaidAtMostOnce`, `NeverChasesMoney`: I1 end to end, also when settlement reads fail.
- `WorkIsBounded`: I6 and I7 counted at the provider.
- `OneBucket`, `HonestCredit`: a closed case is in one bucket, and the bucket says whose money it was.
- `TimeMovesOn`, `Terminates`: each iteration moves the clock, and every case closes.

The numbers make each clause bind. An executed action is looked at again after 24 hours; a cooling-off
of 27 refuses what is then proposed at once, and is just over for what is due three hours later. A budget of
two contacts in 54 hours meets a cap of three money actions, so there is an attempt left for a third
contact, which at 54 hours after the first is on the edge of the window; four iterations and 76 hours
leave room for the action past the cap that a lost count would let through. One customer has opted out, one is on the
do-not-disturb register and fails at ten in the evening, one is neither. No case of this instance outlives
the horizon by more than a day, and the limit of four iterations cuts behaviours off the way
`MAX_STEPS_PER_CASE` does. `Terminates` assumes weak fairness of `Step`: the loop is a single thread
with nothing to wait for, so it always takes its next turn. There is no fairness of the customer or
the provider.

### The arms without a model

`Planner` is `diagnosis/fallback.py` as operators: `classify`, then `plan`, which picks a cure for the class,
the channel, the hour and the amount, and checks consent, contact budget and cooling-off itself, so
that it does not go on proposing what the kernel refuses. `cron` is the baseline arm's schedule. The
planner and the kernel are two independent statements of the same policy, and the interesting question
is whether they agree.

Run `rules` (arms A, B and E, the committed policy, costs and priors, fifteen kinds of failure, every
write answered or failed, two hours at which the customer may pay; 285 thousand states) checks:

- `PlanPassesReview`: what the rules propose as a contact, the kernel lets through on everything but value
  and the caps; a plan is never refused for its hour, channel, consent, amount or currency.
- `BaselineIsCivil`: the contacts of the arms stay within budget, gap, quiet hours and consent, gate or not.
- `StepsSuffice`: no case of the rules is cut off by the step limit.

The horizon of this run is 14 days, two thirds of the committed 21: the events a case can go through (all
attempts spent, the contact window slid past, the horizon reached) lie within it. The step limit is
16, one step a day and one to spare, so `StepsSuffice` says more than the committed 40 steps for 21 days
ask.

`CHECK_DEADLOCK FALSE` in every configuration: a closed case, a closed ledger and a provider with
nothing left to do are the ends the program has.

## Ledger

`append` is three steps, in the code's order: the record is chained in memory (`Remember`), the line
is written (`Write`), it is synced and the receipt returned (`Sync`). A crash keeps what was synced,
any more that was written, and possibly a line that breaks off or lacks its newline. `Reopen` is the
constructor that adopts a chain `load` has verified, `Refuse` the one that raises. A write or a sync
that raises is a crash: `append` has no handler, and no caller of it has one (`executor.py`,
`bench/runner.py`, `cli/live.py`, `faults/demo.py`), so the process ends with a record in memory that the
file lacks, and the next one adopts the file. While no process
has the file open, one line may be edited, lost, doubled or moved, or, for a signed chain, rewritten
without the key. A digest is the tuple of what it digests.

Run `ledger` (two payloads, three lines, two crashes, one corruption; 17 thousand states) checks:

- `ReceiptsSurvive`: a record whose receipt was returned is there for every later process.
- `OnlyGenuineChains`: a process works from a chain some process built, whole or cut at its end.
  Loss of lines at the end goes unnoticed, and the property says so.
- `WholeFileIsAChain`: as long as every write was whole, the file verifies.

## Warmer

The only concurrency of the program: the threads of `diagnosis/warm.py`, which share one response cache
and, because a case picks its diagnoser by its number, each other's circuit breakers. A worker takes
a case and looks it up (`Take`), asks the breaker (`LookAtBreaker`, then `AskBreaker` or, when another
thread closed it in between, `BreakerClosed`, where `is_open` subtracts `None` and raises), has an answer or none
(`Parsed`, `NoAnswer`), stores it (`Put`) and flushes when one is due (`NothingToFlush`,
`SomethingToFlush`, `Snapshot`, `Rename`, `WriteFails`). A step is what no other thread can get between:
the cache's lock, or a stretch of bytecode without a call. The provider goes down and comes up, the
cool-down runs out at any time, the process is killed and started again on the file. A call that an outage
has met (`doomed`) may succeed or fail, also after the outage: its timeout runs for minutes.

Run `warmer` (seven cases, two threads, a flush every two answers, a breaker that opens at one failure
and probes every second case, one outage, one kill, one failed write per process; 1.1 million states) checks:

- `KillLosesLittle`: memory is never ahead of the file by more than `Worth`, a flush and an answer per
  further thread, and by as much again for each snapshot that is being written and holds what the file lacks. A kill
  during a flush is included: with flush 2 and two threads, one snapshot on its way and two more answers make
  four. Excepted are a write that failed and a snapshot that was overtaken (`InOrder`).
- `FinishedMeansStored`: unless a write failed or was overtaken, everything put is on disk at the end.
- `HiccupIsShort`: once the provider answers again, a diagnoser passes over no more cases than it takes
  until a probe, for each thread. A call the outage had met may fail later and open the breaker again, once
  for each thread that was out; the count starts again there.
- `Finishes`: the warmer ends, whatever the provider does. Weak fairness of every thread: the operating
  system schedules it, and a call to the provider ends by its timeout.

With seven cases one diagnoser has four: enough to fail, skip, probe and skip again, which the mutant
of `Skips` needs. The committed six failures and 25 skips only lengthen the stretches between.

## Backends

`Backend` is `executor/backend.py` as a specification: one call at a time, `is_settled`, `execute` or
`reconcile`, and what each result and exception says about the provider. `Backends` is what
`razorpay_rest.py` and `razorpay_mcp.py` do, and implements it.

State: the call in progress (`call`, `stage`, `result`), the client (`proc`, `nextId`, `waiting`, `late`, `pipe`,
`buffer`), the requests and answers under way, the provider (`effects`, `settled`, `crowded`).

| Code | Action |
|---|---|
| `is_settled`, `execute`, `reconcile` are called | `Begin` |
| an intervention no backend carries out | `NotLive` |
| `McpStdioClient.start`: the process and its handshake | `Starts` |
| a request leaves, or its write hits a broken pipe | `Asks`, `Requests` |
| `_request`: an answer, a timeout, a reset, a 5xx, a body that is not JSON | `RestAnswered`, `RestFails` |
| one turn of `_call`'s loop: another's line, the answer, the end of the stream, the deadline | `McpSkips`, `McpAnswered`, `McpFails` |
| `except` clauses, the lookup after an error that names the reference id, the result | `Concludes`, `Returns` |
| the provider, the network, the customer | `Deals`, `Refuses`, `Loses`, `Pay` |
| the MCP server answering for a provider that failed or is slow | `Relays` |
| the server process, its clock and its pipe | `Speaks`, `Server`, `Late` |

Requests and answers are sets, so they are reordered freely, and a request is dealt with at any time, also
after its caller has given up. Between the server and `readline` are two buffers, the pipe and the text
layer of the process object; `select` sees only the first. `stop()` is modelled although only a caller
outside the program would use it. A write that times out over REST is an `UnknownOutcome`; over MCP it
is a `ProviderError`.

Both backends look a link up after any error whose text names `reference_id`, that of a duplicate or of a
refusal for another reason. Over MCP every error answer looks alike (`razorpay_mcp.py:128-129`, `147-148`),
a refusal as well as a timeout of the server's own call to the provider; after `Relays` the write is still on
its way, with an id no answer will carry. Failures the server relays, and bodies that are not JSON, are taken
not to name the reference id.

Run `backends` (both backends; a link, a retry and a handoff; two calls, a pipe of two lines; 1.4 million
states) checks:

- `ExecutedMeansLanded`: a call that says "executed" has its link, whatever late answers were about.
- `RefusedMeansNothing`: a write reported as a `ProviderError` has no effect, then or later. Over MCP this
  is about the calls that made no request and the refusals that name the reference id.
- `ContractSpec`: the refinement of `Backend`.
- `CallsEnd`: every call returns or raises. Weak fairness of the caller's thread and of its clock: each
  request has a timeout. Nothing is assumed of the server, except that it finishes a line it has begun:
  `readline` blocks on half a line, beyond any deadline.

The first two and the refinement have a named exception, `unread`: prose in place of JSON over MCP, a
write's timeout, broken stream or error answer over MCP, and a 2xx whose body is not JSON over REST. There the results
are not what `backend.py` says, and `Honest` names the exception that would be. Run `lost_write` shows the
one that matters. Two calls are enough for an answer to the first to be taken for the second's; a single
call over MCP already has three requests (handshake, write, lookup) whose answers can be mixed up. One
link suffices: a reconciliation of another key than the one written reads the same list.

## Diagnoser

A decision goes through the router (`ByRules`), the response cache (`FromCache`), the breaker (`PassedOver`),
and then to the provider, one step per request: `Retry` and `Gives_up` are `_post_json`, `NextFormat` the loop of
`complete` over request formats, `Fails`, `Junk` and `Answered` what `_obtain` makes of it. A client has the
formats it can make (`known`), a provider those it accepts (`supported`), any of them or none, and it is up,
throttling or down (`Swing`), also between two requests of one decision. An OpenAI-compatible endpoint has two
formats, goes on to the second after any `ProviderError`, an HTTP 400 among them, and learns which one works.
With Anthropic only the `TypeError` of an SDK that cannot make the thinking request leads to the plain one;
an HTTP 400 costs the case and counts as a failure (`providers.py:160`, `llm.py:278-287`). Ollama has one
format. What the model proposes is left out: it may be anything in `Runner`.

Run `diagnoser` (two cases, one the router hands to the model and one it does not; three providers or none;
a breaker that opens at two failures and probes every second case; one retry, five decisions, two swings of
health; 729 thousand states) checks:

- `FailingProviderLeftAlone`: the calls since the last good answer are bounded by the threshold, the
  cool-downs and the rounds of skipped cases.
- `RepairIsFresh`: a repair never gets the answer of a first proposal, from the model or from the cache.
  (Which refusal a repair answers is not in the cache key, and the property does not say so.)
- `HealthyMeansAnswered`: a first request in a format that will not do costs no case, where a second one will:
  with a compatible endpoint that accepts one of the modes, and with an SDK that can make the plain request.
- `ThrottleSparesBreaker`: with Ollama, throttling leaves the breaker as it was.
- `Answers`: every decision ends. Weak fairness of the requests: each has a timeout.

Two failures open the breaker, two decisions skip and probe, the fifth is the first that would be one
request too many; the mutant of `AfterAsking` needs all five. `record_failure` resets a misspelt
`skips_while_open` (`llm.py:146`), which is harmless because `_close` resets the right one.

`Classifier` holds the two sources of a classification, the reason code and the prose, and the four ways to
combine them. Of the keyword table only the class it finds is modelled. Its order matters in two places the
message bank contains: "session expired" is found as a dead instrument before it is found as an abandoned
authentication, and a standing instruction "cancelled at bank" as an abandoned authentication before an
invalid mandate; `BenchmarkFacts` therefore speaks of the class the message is read as.

## Where the code and its documentation part

Each of these runs checks one sentence of the repository that the code does not keep; the finding in
`PROJECT.json` quotes it.

| Run | What happens |
|---|---|
| `lost_write` | over MCP, a write that times out is reported as a definitive failure, and takes effect |
| `throttled` | a throttling endpoint is counted as a failing one, because its `RateLimited` is wrapped on the way |
| `resume_retries` | the count of auto-retries is not rebuilt, so a restart grants new ones |
| `crash_doubles` | the decision in flight at a crash gets a new key and can take effect twice |
| `torn` | a line cut short by a crash makes the ledger file unreadable |

Four more are premises of the passing runs or a theorem, and have no run of their own:

- A key recorded as unresolved, "leave it for a human" (`executor.py:170-172`), is sent again by the next
  decision, and what landed unseen is not counted against the contact budget: `AllTold` in `Runner`.
- An unreadable settlement lets a handoff through on a paid order (`gate.py:87`, against `types.py:101-107`):
  `NeverChasesMoney` speaks of `MONEY_MOVING` only.
- Of two flushes the older snapshot can be renamed last, and the final flush finds nothing to do
  (`cache.py:90`, against `warm.py:7-8`): `InOrder` in `Warmer`.
- The planner's handoff comes at the attempt cap, which refuses it before its value is looked at
  (`fallback.py:290`, against `ARCHITECTURE.md:239-245`): theorem `EscalationIsRefused`.

## What is proved

Every theorem below holds for every value of the constants that meets the assumptions named in its module.
An assumption is there because the code has it: numbers that a dataclass or a schema makes natural
(`schema.py:62-63` for a proposed amount), at least one key, at least one worker. What goes beyond that is a
hypothesis of the single theorem and is discussed with it.

Neither `TypeOK` nor the properties are inductive. For each component there is a stronger invariant, a conjunction
of named parts, each with one idea; it holds initially, every action keeps it, and it implies the property. The parts that
carry the argument are these.

### Executor

| Theorem | Property |
|---|---|
| `TypeCorrect` | `TypeOK`: also that `rebuild` returns a well-formed case for every ledger |
| `WriteAheadHolds` | I8: nothing is on the wire or in effect without an intent on record |
| `NoReplay` | `NoReplayAcrossRestart` |
| `ImplementsAuditTrail` | `AuditSpec`, the refinement |
| `RebuildIsPessimistic` | `RebuildPessimistic` |
| `NewDecisionsAreFresh` | `NewDecisionIsFresh` |
| `KeysExecuteOnce` | `ExecutedOnce` |
| `EffectsAreTold` | `NoSilentEffect` |
| `CapsHoldAcrossRestarts` | `CapsSurviveRestart` |

The first four rest on `IInv`. `WriteAhead` needs that the key in hand is recorded (`CurRecorded`); that a
report follows its effect needs what the answer in hand and the ledger's outcomes say of the provider
(`Honest`); that the key in hand was not inherited needs that a restarted process has every inherited key
(`InheritedKept`), which `rebuild` establishes by counting every intended key as used; `OrdinalsBounded`
relates the ordinal in memory to those on record.

The other five rest on `Books`, on top of it. `Counted` puts the case in memory between two readings of the
ledger: at least what is reported executed (or the caps could be exceeded), at most what is intended less what is
reported unexecuted, less one while an action is in progress (or a rebuild would know less than memory).
Both bounds are needed at once: the lower one of the next process is the upper one of the last. `Telling`
says that whatever is on the wire or in effect has been told, was recorded as unresolved, or is still open. The
counts are cardinalities of sets of positions in the ledger, and the lemmas say what one more record does to them.

### Runner

| Theorem | Property | Under |
|---|---|---|
| `TypeCorrect` | `TypeOK` | |
| `CasesAreCountedOnce` | `OneBucket` | |
| `ClockMovesOn` | `TimeMovesOn` | |
| `OrdersArePaidOnce` | `PaidAtMostOnce` | `Gated`, `SizedOrders` |
| `PaidOrdersAreLeftAlone` | `NeverChasesMoney` | `Gated`, `SizedOrders` |
| `CreditIsHonest` | `HonestCredit` | `Gated`, `SizedOrders` |
| `CustomersAreSpared` | `ContactsRespectPolicy` | `Gated` |
| `WorkStaysWithinCaps` | `WorkIsBounded` | `Gated` |
| `RulesAreCivil` | `BaselineIsCivil` | `PolicyIsCivil` |
| `RulesPassReview` | `PlanPassesReview` | `RulesFitPolicy` |
| `DaysSuffice` | `StepsSuffice` | `RulesFitPolicy`, every settlement can be read, `HorizonHours <= MaxSteps * 24` |

- `Gated`: the arms are D and E, which ask the kernel. Without it the properties are false, which is what the
  arms are there to measure.
- `SizedOrders`: the least part of an order is not nothing. An order of nothing is never "settled", so it
  could be paid for ever. Orders start at 99 rupees (`config/generator.yaml:38`), of which the policy's floor of
  a quarter is 24.
- `PolicyIsCivil`: e-mail is permitted and no hour from ten to eight in the evening is quiet. `RulesFitPolicy`
  adds that part payments are allowed and that the orders' currency is. The committed policy meets both, and
  run `rules` is an instance. The planner has the hours, the e-mail and the part payments built in
  and does not ask.
- `StepsSuffice` needs readable settlements: an unreadable one is refused, and the refusal is not terminal,
  so the loop goes round every six hours. 21 days take 21 of the 40 steps.

The proofs have two layers. `Turns` says that each iteration is of one of seven kinds, for whichever of the
code's branches took it, and `Effects` that the books of case and provider then move in one of four ways: not at
all, by a write the case was told of, by one whose success was told late, or by one it was not told of. The
invariants are proved over these. `Base` is enough for the types, the buckets and the clock. `Money` relates what was
received to the amount, to what the arm is credited with and to what landed (`Earned`, `Explained`): the
gate's I1 alone does not give `PaidAtMostOnce`. An accepted repair rests on the second of two reads, each of
which may fail. A write that landed untold is
answered from what it did when its key comes again, and a handoff passes an unreadable settlement.
`InStep` is what the contacts need: for every window, the case's own list holds at least as
many contacts as the customer had, and none later than its last; then I4, which reads that list, bounds what the
customer saw. `DaysGoBy` says that the clock is never behind a day per step.

### Backends

`TypeCorrect`, `ExecutedIsLanded` (`ExecutedMeansLanded`), `RefusedIsNothing` (`RefusedMeansNothing`) and
`ImplementsContract` (`ContractSpec`, the refinement of `Backend`). The invariant follows a request through its life: the
request whose id is waited for is that of this stage and of this call (`RequestsMatch`); a call writes
at most once (`WritesOnce`), also when the server has answered in the provider's stead and the write goes on without
an id; a write that took effect has its answer still to come (`PerformedMatches`); an answer
with the id that is waited for says what is true of the provider, in whichever buffer it is (`AnswersMatch`), except that
an error over MCP says nothing of a write;
and once a call is over nothing of a refused write is left that could still be dealt with (`Concluded`). The
refinement then maps a write that is posted to `Write`, one that is dealt with to `Perform` or `Lose`, `Pay`, `Begin`
and a return to their namesakes, and all else (orders, lookups, `Relays`, the server, pipe and buffer) to a stutter.

### Ledger

`TypeCorrect`, `ReceiptsAlwaysSurvive` (`ReceiptsSurvive`), `ChainsAreGenuine` (`OnlyGenuineChains`) and
`WholeFileVerifies` (`WholeFileIsAChain`). The hash of a link names all of the chain before it (`TipNamesChain`), every line in the
file carries a hash of some process or one made without the key (`FileOfLines`), and every initial part of a chain some
process built is such a chain (`GenuineChains`): whatever a corruption did to a signed file, what verifies is
genuine. `TipNamesChain` goes by induction on the length, as a least number outside a set (`Climb`). `Adopted` ties memory to the file up to the record being written, `Untampered` the receipts to
the synced lines. Records nest their digests to no fixed depth, so there is no set of all chains, and the
lemmas on sequences are about sequences over some set (`IsSeq`).

### Warmer

`TypeCorrect`, `KillsLoseLittle` (`KillLosesLittle`), `FinishedIsStored` (`FinishedMeansStored`) and
`HiccupsAreShort` (`HiccupIsShort`), for any number of threads. In order, the latest snapshot is in the file or
on its way there, and what was put since is counted (`LatestIsKept`); a flush is due every so many puts
and whoever owes one is on the way (`FlushesAreDue`); each snapshot adds at most that much to the one before it,
so the snapshots still being written count by their number: together these bound what a kill loses. Main flushes when every
thread is done (`MainIsLast`). A breaker that is not closed owes every full round of skips to a thread whose probe
has not come back (`ProbesAreOut`), which is why the bound is a round per thread; the late failure of a doomed call
starts the count anew.

### Diagnoser

| Theorem | Property |
|---|---|
| `TypeCorrect` | `TypeOK` |
| `RepairIsAnswered` | `RepairIsFresh` |
| `ProviderLeftAlone` | `FailingProviderLeftAlone`, for a probe interval above one |
| `UnknownFormatsCostNothing` | `HealthyMeansAnswered` |
| `OllamaMayThrottle` | `ThrottleSparesBreaker` |

`Apart`: no first proposal is ever stored under the key of a repair, nor the other way round. `Accounted`: there is
a number of probes, each paid for by the skips before it, such that the calls are those probes, a
threshold's worth for every opening and the failures now being counted, with room for the call in progress;
the bound itself does not say where the breaker stands. `OneIsLeft`: where a second format will do, and the
decision has met nothing but the first one's refusal, one that will do is still to be tried, and what was learned
is one that does.

### Planner and classifiers

- `PlannedContactsPass`: every contact the rules plan, a handoff apart, passes I4 and I5 at the hour it is
  due, for every event, case and hour, under `PolicyIsCivil`. On the way: the channel picked is usable
  (`ChannelIsUsable`), and fourteen tries of an hour find a sane one (`SendTimeIsSane`).
- `EscalationIsRefused`: a handoff the rules propose never reaches the value test of I7, whatever the
  policy and the priors. `ARCHITECTURE.md:239-245` has it that the value refuses them.
- `UnaskedIsAdjudicated`: a case the router does not hand to the model has the class the rules with
  adjudication give it, in either mode. It follows from `ConflictIsDisagreement`: the router's conflicts
  are exactly the cases in which believing the prose gives another class than believing the code.
- `BenchmarkFacts`: what `router.py:4-7` says of the benchmark's styles of evidence, with the exception it
  leaves out: a misleading case whose message says nothing, or speaks for the wrong code's class, is no
  conflict to the router.

### Model-checked only

Liveness: `Terminates`, `Finishes`, `CallsEnd` and `Answers` rest on fairness, and ENABLED is out of the
prover's reach. `ClockMovesOn`, with the horizon, is the part of `Terminates` that can be proved. The keyword table, the
priors and the costs are data that the runs take as committed and the theorems do not look into.

## Not modelled

- Success probabilities and harm tallies of the simulator, the random data of the generator beyond the
  evidence it makes up for a cause, and the sums and tables of the reports: arithmetic and draws without a protocol.
- The command line and the demo: entry points that drive the same loop and print.
- The prompt, the schema and `_to_action`: the text a model reads and writes is abstracted to the proposals
  it can lead to, any of which may come out.
- Of the MCP client, `list_tools`, standard error, and a server command that cannot be started at all,
  which raises out of the backend. A server that stops in the middle of a line blocks `readline` for good;
  `Server` finishes what it has begun.
- A customer's reply, which enters the cache key by `hash` (`llm.py:226`): Python draws that anew in every
  process unless `PYTHONHASHSEED` is set, so such an answer is not found again after a restart. The
  benchmark passes no reply.

Concurrency exists only in the cache warmer (`Warmer`); the executor is one thread per case and one
process per ledger file.

## Plan

All components of the inventory that hold a protocol are modelled, their properties checked, and the safety
properties proved. What is worth adding:

1. An abstract specification of the cache, "what was put is read back", which `Warmer` implements as long as
   flushes reach the disk in order.
2. The fates of a write in `Runner` derived from `Executor`: that the four effects of `Effects` are what a run of
   `Executor` from `Intend` to `Finish` can leave behind.
3. The unmodelled rest of the fault wrappers and of the simulator's settlement sweep after the loop.
