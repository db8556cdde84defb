# Verification of brainapi-go-sdk

TLA+ models of the SDK, its CLI, its MCP server and its TypeScript client, TLC
runs over small instances of them, and TLAPS proofs of the properties that
matter most. All paths below are relative to the repository root. The reference
is the code; where a comment or a document says something else, section 6 says
so, with a run for the three worst.

## 1. The system

`pkg/brainapi` is a client library for the BRAIN web API. One `Client` per
account is shared by many goroutines. Around it are a CLI (`cmd/brainapi`), an
MCP server (`cmd/brainapi-mcp`), a TypeScript client that spawns the CLI
(`clients/typescript`), a captcha solver (`pkg/captcha/altcha`) and a feedback
sender (`pkg/feedback`).

| Component | State | Operations | What makes it correct |
|---|---|---|---|
| Request loop (`transport.go`, `retry.go`) | per call: error retries, long-poll ticks, relogin flag; per client: 403 streak, ban flag, ban reason | `do`, `preflight`, `evaluate` | every call ends; requests are bounded; a ban is earned, not missed, and explained; a done context stops it |
| Credentials and session (`auth.go`, `client.go`) | e-mail and password | `Login`, `Logout`, `SetCredentials`, `ClearCredentials` | cleared stays cleared; logout only after the server's |
| Cookie jar (`transport.go`) | cookies in memory, jar file, temporary files | load, save, clear | the file is whole, follows the memory, and does not bring a wiped session back |
| Budget and slots (`client.go`, `simulations.go`) | day, two counters, a semaphore | `checkBudget`, `checkBudgetN`, `reserveSimSlot` | counters match the calls let through; slots match the POSTs in flight; quotas hold per day |
| Waiting for simulations (`simulations.go`) | loop counters, resolved children, first error | `WaitForSimulation`, `WaitForMultiSimulation` | ends; best effort; a missing child is reported |
| Submission (`alphas.go`) | polls, last answer | `SubmitAlpha`, `parseSubmitVerdict` | a verdict is the truth about the alpha; ends |
| Pagination (`iterators.go` and the drains) | cursor, two channels | `paginateAll`, `drainAll`, `drainChan` | nothing silently lost; goroutine ends |
| Captcha solver (`solver.go`) | number found, stop flag | `Solve` | an answer is right; "no solution" is not a guess; no goroutine is left |
| Registration (`register.go`, `adapter.go`) | place in the sequence, retries of the POST | `Register`, `FetchCaptchaChallenge` | success means an account; an error with an account means a lost answer |
| Endpoints and error classification (`alphas.go`, `users.go`, `schema.go`, ..., `errors.go`) | none | one request and what is made of its response; `Classify` | the caller learns what happened |
| CLI and MCP server (`cmd/`) | process, exit code, envelope | commands, tools, the submit gate | the two surfaces agree; a slot is not wasted |
| TypeScript client (`clients/typescript`) | timer, promise, child process | `run`, `spawnCapture`, `parseEnvelope`, `backtest` | a promise settles, once, and says the truth |
| Feedback (`feedback.go`) | none | `File` | one report, one issue |
| Local self-correlation (`selfcorr.go`) | none | `SelfCorrLocal`, `MaxSelfCorr` | the number is the correlation |
| Observer, data types, profiles, scripts | | | see section 8 |

How they interact: every endpoint method goes through `Client.do`. `do` calls
`Login` on a 401, and `Login` calls `do`. `do` calls `tlsHTTP.do`, which saves the jar
after each answer. Creates and submissions pass `checkBudget` first, creates
then take a slot and hold it while `do` runs. The waits and the submission call
`do` once per poll. The iterators run in a goroutine of their own and hand items
to a consumer over an unbuffered channel. `Register` fetches a challenge, hands it
through the adapter to the solver's goroutines, and POSTs the solution. The
`submit_alpha` tool reads the alpha's correlation, decides at its gate, and then
calls `SubmitAlpha`. The TypeScript client spawns one CLI process per method (three
for `backtest`), may signal and kill it, and reads exit code and stdout when it
has closed.

What is hard to test there: answers to concurrent calls evaluated in any order
(ban, credentials, jar); retries of requests that were carried out; a clock that
rolls over between a read and a lock; a process that dies while it saves; lists
and books that change between two reads; goroutines racing on a flag; a timeout
racing the exit of a process that has already changed something. `PROJECT.json`
lists each of these under "hazards" with its line and the properties about it.

## 2. Modules

| Module | Models | Proofs |
|---|---|---|
| `RequestPromise` | what a call of `Client.do` promises its caller: the abstract specification | |
| `RequestLoop` | `Client.do`, `preflight`, `evaluate`, with Login and Logout around it; implements `RequestPromise` | `RequestLoopProofs` |
| `SimBudget` | budget, slots, and the three methods that go through them | `SimBudgetProofs` |
| `SimWait` | the two waits | `CliClientProofs` |
| `SubmitAlpha` | submission and the parsing of its verdict | `SubmitAlphaProofs` |
| `SubmitTool` | the `submit_alpha` tool, which extends it | `SubmitAlphaProofs` |
| `CookieJar` | jar in memory and in the file | `CookieJarProofs` |
| `Paginate` | `paginateAll` and the drains | `PaginateProofs` |
| `AltchaSolver` | `Solve` | `AltchaSolverProofs` |
| `Register` | the registration, which extends it | `AltchaSolverProofs` |
| `Endpoints` | the methods that are one request, `Classify` | |
| `Surfaces` | the commands of the CLI, the tools of the MCP server | |
| `Feedback` | `File` and its GitHub POST | |
| `SelfCorr` | the local self-correlation and its definition | `SelfCorrProofs` |
| `CliClient` | the TypeScript client over the CLI process; composes `SimWait`, `Surfaces`, `Feedback`, `SelfCorr` | `CliClientProofs` |

`MCRequestLoop` and `MCSimBudget` add the symmetry sets TLC uses, `MCCookieJar` the
set of goroutines, `MCCliClient` the inputs of `corr-local`.

An operator named `X_Something` next to an operator `X` is a plausible mistake in
the code `X` models: an off-by-one, a dropped guard, a wrong order. With it in the
place of `X` the property it is paired with in `PROJECT.json` fails, which shows
that the property depends on that piece of code.

### RequestLoop and RequestPromise

One element of `Calls` is one goroutine inside one `do`. `pc` is the place in
the code: `preflight` and `refused` in `preflight`, `loop` at the head of the
`for`, `wait` during the round trip, `sleep` in `sleepCtx`, `trip` and
`publish` between the stores of a ban, `store` and `wipe` in Login and Logout.
The nested Login is the frame `relogin` with its own `errAttempt`. Each action
from `NetworkError` to `ClientError` is a case of `evaluate`, in the code's
order of precedence where that matters (the kinds of a request, as its hints
say, decide between them). Loads and stores of the shared atomics are steps of
their own where the code has several: the streak's `Add` is one step, the flag
and the reason are two, `preflight` loads the flag in one step and reason and
streak in the next. The server may give any answer to any request; the one
exception is a body with `checks`, which only alpha endpoints have. Options are
the caller's values, so `NewClient`'s defaulting is part of the model.

`RequestPromise` forgets all of that. A call asks, is let in while there is no ban
or turned away, sends at most `Budget` requests, none of them after its caller
gave up, and returns; "banned" only once the client refuses new calls, "stopped"
only to a caller that gave up. `RequestLoop!Promised` is the refinement mapping:
`phase` from `pc` and `frame`, `requests` as the sum over both frames, `Budget` as the
number the options give. The nested Login is a part of its call there: its
requests count, and its own `preflight` is no second admission.

### SimBudget

`ReadDay` and `CheckBudget` are apart because the code reads the clock before it
locks; `CheckBudget` is one step because it holds `budgetMu` throughout.
`Midnight` moves the clock at any time. A call's `do` is at most
`1 + MaxRetries` attempts, each of which BRAIN may or may not have carried out,
and holds the slot until it returns. The history variables count what was
admitted under each day's name and which calls were let through since a reset.

### SimWait

`do` is one step: a snapshot, an error, or the JSON of an edge 403, which decodes
to a simulation that has not ended (`PollBlocked`). `finished` is the set of the
simulations that ended; any may end at any time, children before their parent too.

### SubmitAlpha and SubmitTool

BRAIN's own state of the alpha is a variable. Its honest answers follow it. The edge
may answer instead, whether or not BRAIN took the POST up: with an opaque 403, or with
any 2xx, 3xx or 503 that has no checks, which `do` hands back at once as it does
BRAIN's own; or the answer is lost. `heard` records that one of BRAIN's own came back.
`errAttempt` is kept because an opaque 403 only comes back as a response when the
retries are spent. `SubmitTool` puts the tool around it: the read of the
correlation (whose answer may be the edge's), the gate, `confirm`, and a `book` of the
account's submitted alphas that grows at any time, also between the read and
BRAIN's screening. What `corrMax` holds and what the book was are separate
variables, as the gate only sees the first.

### CookieJar

Sessions are numbered in the order BRAIN hands them out. `saveJar` is four steps
(lock and snapshot, create, write, rename), any of which may fail or be the last
of a process; `saveMu` is the predicate `Unlocked`. `clearJar` reads the cookies,
expires them, and removes the file under `saveMu`. A method that returns forgets
its local variables. `wiped` only counts a session no other process held when
it was wiped, `saved` and `writer` say who put what into the file. Several goroutines per process
and several processes are instances of the same actions.

### Paginate

The producer, the two channels and the drain are apart; a send on the unbuffered
channel is one step with its receive. The list may change between any two
steps. A page may be the edge's instead of BRAIN's: JSON that decodes to no items
and no next link (`PageBlocked`, remembered in `blocked`). The four iterators tell the
last page from a missing next link or from a count, which is the same for a server
whose answers agree with its list.

### AltchaSolver and Register

SHA-256 is the set of the numbers that match: any subset, so that no solution and
several solutions both occur. Each worker's check of the flag, hash, swap and
store are steps of their own, and so are the watcher's and the caller's. The
refused challenges at the top of `Solve` change no state and are left out.

`Register` runs that search between the fetch of the challenge and the POST, which
is repeated when its answer is lost. BRAIN makes one account and takes a solution
once; the edge may answer in its place, and the context may end at any moment.

### Endpoints and Surfaces

An outcome of `do` is an error, as the set of types and sentinels in its chain, or a
response, as its status and what its body is (the endpoint's own, other JSON, no
JSON, something that begins like JSON, nothing). Each method of the client is an
operator from an outcome to a result, in the terms of the decoding it does;
`Classify` is a sequence of kinds in the code's order of cases. `Surfaces` adds, per
command of the CLI, which arguments it refuses before, in, or after the client is
made, the envelope and the exit code, and, per tool of the MCP server, what the
agent is given.

### Feedback and SelfCorr

`Feedback` is a function of the report, the token, the confirmation and what GitHub
did with the one POST. `SelfCorr` has the code's steps (trim, differences, merge of
two sorted series, Pearson, stable ranking) in integer arithmetic, and
beside them `IsSelfCorr`, which says over sets of dates what the result should be:
who was considered and who was skipped, the number for each neighbour that is shown,
that no neighbour left out or further down is a worse one, and the head of the list.
No series has two records of one date, as BRAIN's daily records have not
(`IsInput`; `sort.Slice` would leave their order open).

### CliClient

One TypeScript call: spawn, the process (argument checks, the method or the wait,
envelope, exit), the timer with SIGTERM and, two seconds later, SIGKILL, and the
close event, which settles the promise or starts the next step of a backtest. A
signal before the handler has its context kills the process, one after it cancels
the context, and `corr-local` has no context. BRAIN and GitHub may have carried
out what the process asked for whether or not it heard so. The MCP tool
of the same command is given the same outcome, so that the two can be compared.

## 3. Runs

| Run | Shows | Bounds |
|---|---|---|
| `RequestLoop_single` | types and budgets, bounded requests, termination | 1 call of any of 6 kinds, 2 retries, 1 long poll (2 for checks), threshold 2 |
| `RequestLoop_concurrent` | the ban's safety, and that the loop implements `RequestPromise` | 2 calls, 1 retry, threshold 2 |
| `SimBudget_gates` | types, counters, slots, overrun, executions against units | 3 calls, budgets 2 and 1, one slot, 1 retry, 2 days, batches of 2 and 11 |
| `SubmitAlpha_verdict` | true verdicts, pending true once BRAIN has answered, the gate, an answer | 1 retry, 2 polls, a book that is empty, low or high |
| `CookieJar_one` | wiped stays wiped, the file follows the memory, saves in order | 1 process, 2 goroutines, 2 sessions, 1 crash |
| `CookieJar_two` | the file is whole | 2 processes, 2 sessions, 1 crash |
| `Paginate_change` | what a drain gets from a list that changes | 5 items, pages of 2, offset 1, 1 insertion, 2 removals |
| `AltchaSolver_stripes` | right answers, no guess, true registrations, no goroutine left | 5 numbers, 3 workers, 1 retry of the POST |
| `CliClient_promise` | the waits, the promise, exit codes, CLI against MCP, reports, correlation | every command, up to 3 children, 2 polls, 72 inputs of 5 days |

The other three runs end in the counterexamples of section 6.

Why the bounds are enough. Two calls suffice for every race on the ban, as each
race is between the call that counts and one that resets or reads; a threshold
of 2 tells "reached" from "counted". Three calls around one rollover are a call
that straddles it, one that has already moved the day on and one that spends
the second budget. A batch of 11 is refused, a batch of 2 fits or overruns. The
semaphore is shared by creates only, so three calls on one slot queue behind each
other. Two
pages and a short last one meet every boundary of the cursor, and the server's
page being smaller than the limit asked for tells the two apart. Two retries
tell "spent" from "one left". Three workers over five numbers have stripes of
different lengths, and every set of matches is an initial state. Three children
are one that fails, one before and one after it; two polls tell a simulation that
ended in time from one that did not. The 72 correlation inputs combine eight
shapes of a series (rising, falling, with a gap, with values that are not finite,
starting late, flat, too short, empty) of the candidate with those of the
neighbours, with `TrimDays` 3 and `MinOverlapDays` 2 so that the window cuts and the
overlap fails, and `CorrTopK` 2 of three neighbours. Every other data case of
`CliClient_promise` is a class of `Endpoints` or `Surfaces` and is enumerated in full.

Deadlock checking is off where the system stops by itself: all calls have
returned, and the bounded clock, list or cancellation is used up.

## 4. Fairness

Liveness is checked under weak fairness of the steps of each call (or goroutine)
that has begun: the Go scheduler runs a goroutine that can run. An HTTP attempt
counts as such a step because the client's timeout (`Options.Timeout`,
`transport.go:39`) turns it into an error at the latest. (A timeout below a second is
truncated to 0 there, which this leaves out.) `FairToolSpec` and `FairRegisterSpec`
assume the same of the tool, the registration, each worker and the watcher.
`FairCliSpec` assumes it of a CLI process only while no timer watches it: a process
with a timer may hang for good, and the promise must settle all the same, through
the timer, the kill and the close event, which are Node's and weakly fair each.
Nothing is assumed of the caller, the server's answers, cancellation or changes of
the list. `SimBudget` and `CookieJar` are checked for safety only: that a waiting
create gets its slot follows from `SlotsMatchCalls`, as every call that holds one
returns.

## 5. What is proved

The proofs hold for every value of the constants that the named assumptions
admit: natural numbers for options, any finite or infinite set of calls.

`RequestLoopProofs`. `LoopInv` is the types, an account of each call's requests
(`Accounted`) and the facts about the ban (`BanInv`). The types alone are not
inductive: that `longPollSeen` stays within one of its cap needs that a call
which still runs has not exceeded it. `Accounted` says that what a frame has
sent is covered by its retries, its ticks and its one re-login, with one request
to spare in front of `Send`; each action that goes back to the loop pays with the
counter it increments. `BanInv` says that the streak is at most the number of
opaque 403s, and that a ban or a call at `trip` needs the threshold. From it
follow `TypesHold`, `RequestsStayBounded`, `BanStaysEarned`, `NoBanIsLost`,
`ReasonIsPublished`.

`LoopKeepsPromise` is the refinement: initial states map to initial states, and
under `PromiseInv` every step of the loop is a step of `RequestPromise` or a stutter.
`PromiseInv` adds to `LoopInv` what a call has behind it (`Behind`): a call that
waits for or handles an answer has sent a request, one in the nested Login has sent
one in its main frame, one that was refused met a ban. `Answered` gathers where any
case of `evaluate` may take a call, so that the cases are mapped once and not one by
one, and the budget's bound comes from `Accounted`.

`SimBudgetProofs`. `BudgetInv` joins the types with the equality of the
semaphore's count and the number of calls in flight, which the library's facts
on cardinality carry through each step. `OverrunInv` relates what was
admitted under each day's name to the counter in force and to the resets that
went back: a reset to an earlier day pays for one more budget under later
names. From them `TypesHold`, `SlotsAreCounted`, `OverrunIsBounded`.

The sums over calls and days are cardinalities there: a call of `n` units is the set of
its `n` pairs `<<c, 1>>` to `<<c, n>>`, a day's name with `a` admitted units the set of
`a` pairs, so that the library's facts on finite sets carry a sum through a step, where
a recursive one would need induction. `AccountInv` is then an equality of two of these sets: the
units of the calls that were let through (`Through`) are as many as those admitted under
all days' names (`Balanced`), whatever way the clock and the counters were turned; and
only such a call sends anything, once per attempt (`Sent`). From it `CountersAreExact`
(the counters in force are the units of the calls since the last reset, so a refused
batch or a rollover leaves no rest) and `ExecutionsAreCovered`.

`SubmitAlphaProofs`. `SubmitInv` says that the last response is `Truthful`: its
decided checks are so for BRAIN's alpha; that the verdict is `Founded` on it; and what
one answer of BRAIN's own settles (`Informed`): it comes after the POST, and for an
alpha that is not past the gates it is a verdict and the last answer, so the edge has
none to give after it. BRAIN's screening keeps `Truthful` because a queued alpha has no
decided correlation to contradict. From it `TypesHold`, `VerdictsAreTrue`, and
`PendingMeansTold`, which assumes nothing of the answers that are not BRAIN's but that
they have no checks. `ToolRunsSubmit` shows that
every behaviour of the tool is one of `SubmitAlpha`, whatever the book does, so those
carry over (`ToolVerdictsAreTrue`); `GateInv` ties what the tool read to what BRAIN
had then, and gives `GateHolds`.

`CookieJarProofs`. `IInv` joins the types and the whole file with six facts: all that
is held was handed out (`HandedOut`), a process that is down does nothing
(`DownIsIdle`), one save at a time with its snapshot in its temporary file (`Locked`),
no wiped session where a save or a restart could take it up (`Gone`), what is saved
next is not older (`Forward`), and if the file lags behind the memory then a goroutine
is still going to bring it up (`Follows`). From it `JarFileStaysWhole`,
`WipedSessionsStayGone`, `FileFollowsMemory`, `SavesOnlyMoveForward`.

`AltchaSolverProofs`. `SearchInv` says that a worker has no match behind it in its
stripe, that a worker which stopped has exhausted the stripe, or the number is
found, or the context is done (`Justified`), and why the stop flag is set.
`StripesCover` (division with remainder) gives that the stripes leave no gap.
From them `TypesHold`, `NoSolutionIsNeverAGuess`, `SolutionsAreTrue`, `FirstFindIsKept`.
`RegisterRunsSolve` carries these over to the registration: a number that is POSTed
solves the challenge, from which `RegistrationsAreTrue`; `ErrorsLeaveNoAccount`
follows from the same invariant.

`RegisterTypesHold` adds the types, in particular that the POST is repeated `MaxRetries` times
at most.

`PaginateProofs`. `PageInv` relates three things to the list as it was at first: what was
handed out and what is on the page (`Held`), and what the list has from the cursor on
(`Ahead`). `InOrder` is for a list nobody touches: what is held is the piece of the list from
the offset to the cursor, in order. `NothingLost` is for a list in which nothing is removed:
each item is held or ahead, as an insertion moves items only back, across the cursor or away from
it, and what crosses it is repeated. `FewLost` is for a list in which nothing is
inserted: held and ahead are disjoint, nothing is held twice, and the items that are neither
(`Passed`) are no more than the removals. That last count is why it is inductive: a
removal in front of the cursor moves at most one item across it, and one behind it moves
none. `Control` says which exits of the producer and the drain mean that the page taken for
the last has been handed out in full, without which a drain that returns no error
proves nothing about the list. From these `ListIsRead`, `InsertionsAreHarmless`,
`RemovalsAreBounded`, for every length, page size and offset and any number of changes.

`CliClientProofs` is about the whole of a TypeScript call, `CliSpec`.

Its first part is about the waits. They run in a process that is signalled, killed, and
restarted within a backtest. `WaitInv` says that the children handed
over come before the one waited for and are all of them unless an error says
otherwise (`Progress`), that what was passed has been polled (`Polled`), that what
resolves has ended (`Ended`), and what a return leaves (`Returned`). A backtest waits
for one simulation (`IInv`), and its waiting starts over in a later process only
from a state that satisfies it. From it `WaitTypesHold`, `ChildrenStayResolved`,
`WaitsAreBestEffort`.

Its second part is about what the call promises. First come lemmas about the operators of `Endpoints` and
`Surfaces`. `Classified` and `ExitCodes`: every error has a kind, every kind an exit code
and a row in the published table. `CallIsSound`, `DecodingsAreSound`, `MethodsAreSound`:
only a method that was given too little blames its arguments. `MutationsAreHeard`: a
mutation that succeeds met a 2xx of BRAIN's, but for logout and the setters of an alpha,
and what BRAIN confirms in full is a success, but for a login that asks for an inquiry.
`ToolsRunMethods`, `CommandsRunMethods`: both surfaces print the result of the same method.

`CliInv` has four parts. `CallInv`: the three processes of a backtest each start from the
success of the one before. `RunInv`: a promise is settled by the close event, by the timer,
or because there was no process, and nothing runs after it. `WorldInv`: what has been sent,
carried out or filed at each point of the process. `ExitInv`: what an exit code and an
envelope say of that, `GoodExit` for a payload and `BadExit` for anything else. A kill at any
moment has to keep it, so a mutation that was carried out by then must count as unheard.
From it `CliTypesHold`, `PromisesAreTrue`, `RejectionsAreTrue`, `SurfacesStayEqual`,
`ReportsAreFiledOnce`.

`SelfCorrProofs` is about `corr-local` as a function: for any candidate, any number of
neighbours, series of any length with gaps and values that are not finite, and any three
limits. `SelfCorrAssumption` takes the limits for natural numbers, the overlap and the length of the
list for positive ones, and `NaN` for no integer. The data are of any size, so each fold, recursive function and recursive
library operator is characterised first, by the function its definition chooses: it
exists, because the set of lengths up to which it does has no least exception (`Least`,
`Upward`), and then its steps can be used. The argument follows the code. A sort is a
permutation in the order it is by (`Places`, from which `ByDateSorts` and, for the
ranking, `RankedSorts`). What the trim keeps is the window, and each difference is to
the finite day before (`ReturnsGive`). The merge has joined, at each step, what lies
behind its two cursors, and what it drops has no partner ahead (`AlignJoins`). The
sums of the products of deviations are `n` times the sums the covariance is made of
(`DeviationsAreCovariance`), so numerator and squared denominator grow by the same
factor, and sign and square agree with the textbook's (`CorrelationIs`). The order by
absolute value is one of fractions with positive denominators, hence transitive
(`BeyondOrders`). `LocalIsSelfCorr` joins these over the exclusion of the candidate, the
overlap limit and the cut to the first `CorrTopK`. `CorrLocalIsRight`, in
`CliClientProofs`, gives the invariant `CorrIsReference` from it: a fulfilled call was one
with fit arguments (`PaidIsFit`), so what it hands back is computed from an input.

Nothing goes on for ever. For each actor there is a measure, a natural number that only
the options bound and that is spent exactly when the actor is done; the theorems say
that each of its steps lowers the measure, and what the steps of the others may do
to it. `CallsRunOut` (a request costs a retry, a tick or the one re-login, and no
other call can take from a call's measure or add to it), `ToolRunsOut` (attempts and
long polls of a submission; BRAIN's screening does not touch them), `RegisterRunsOut`
(each worker of the search, its watcher, the caller and the registration has one of
its own), `PromiseRunsOut` (processes, polls, timer and kill of a TypeScript call
together), `DrainRunsOut` (two steps for each item the list can come to hold, with
what an insertion adds counted in advance). `NeverStuck`: while a drain is not over,
producer or consumer can move (`CanMove` spells out the guards, as there is no ENABLED). `SettledIsFinal`: after a promise is settled there is
no process, timer or poll left that could change anything. They are the safety half of
the liveness properties below; that an actor which can step does step is fairness.

Every invariant and every action property a passing run checks is stated by one of the
theorems, as is the refinement of `RequestPromise`. Only model-checked: liveness
(`CallsReturn`, `ToolReturns`, `ProducerEnds`, `RegisterReturns`, `PromiseSettles`), because the
prover does no ENABLED, and so no fairness.

## 6. Where code and words differ

Three runs end in a counterexample; `PROJECT.json` quotes the lines.

| Run | Difference |
|---|---|
| `RequestLoop_logout` | Logout wipes the session after a DELETE that was refused |
| `RequestLoop_cleared` | a re-login brings cleared credentials back |
| `SimBudget_rollover` | a day's budget can be spent twice at a rollover |

Met on the way, without a run; the models contain each of these behaviours:

- `preflight` reports the 403 counter of the moment (`transport.go:360`): a ban error
  may give a streak below the threshold, and, between the stores of flag and reason,
  no reason (`client.go:119` says it is captured when the flag is set).
- `BanThreshold: 0` becomes 3 (`client.go:161-162`); `client.go:68` and `README.md:274` say it
  disables the ban.
- A 404 or another plain client error between two 403s does not end the streak
  that `client.go:67` calls consecutive.
- A 2xx submit answer without an `is` block counts as verified (`alphas.go:185`), and an
  opaque 403 that `do` hands back as submit_failed (`alphas.go:187`), though the alpha
  may be queued.
- A 503, a 3xx or an empty 2xx that the edge gives to the submit POST, or to a poll, is
  polled on like BRAIN's (`transport.go:477-486`, `alphas.go:157-166`); `alphas.go:161`
  and `docs/protocol.md:113-115` read it as queued. If no answer at all is BRAIN's own,
  `SubmitAlpha` ends with pending_corr, "verdict still computing" (`types.go:319`), for an
  alpha that was never received, or that the gates rejected, and the tool calls it
  submitted. `PendingIsTold` shows that
  one answer of BRAIN's own rules this out.
- A second process writes an older session over a newer one in the shared jar;
  `transport.go:198` calls the last writer harmless.
- An alpha that leaves the list between two pages hides the next one
  (`RemovalsHideFew` bounds this), and a page that the edge answers with a JSON 403
  ends the list without an error (`alphas.go:588`); `alphas.go:569` says
  `ListAlphasAll` yields every alpha.
- The `performance` tool of the MCP server always calls the method for a competition
  (`cmd/brainapi-mcp/main.go:202`), which refuses an empty id; `main.go:159` offers to
  omit it for the pool variant. `SurfacesAgree` therefore excepts this command.
- A correlation answer without a max opens the submit gate (`cmd/brainapi-mcp/main.go:363`),
  also when it is the JSON of an edge 403; `main.go:352` says the gate always runs.
  `GateSavesSlots` names this hole and the growing book as the only two.
- A malformed `--base-url` and an unreadable `--json` file are net.Errors to `Classify`
  (`errors.go:247`): kind network, exit 8, before anything was sent;
  `docs/sdk-protocol.md:115` has that for failures of the transport.
- `--tags` with a blank value leaves the tags as they are (`cmd_alphas.go:181` and
  `omitempty`); `cmd_alphas.go:212-213` calls setting to empty an intentional clear.
- `CompletePersona` makes its POST before `Login` looks at its arguments
  (`CompletePersona` in `Endpoints`).
- Methods that do not check the status take the JSON of an edge 403 for success:
  Logout, and the two that set something on an alpha (`FulfilledIsTrue` names them).
- A report whose answer from GitHub was lost comes back as a draft, which the caller
  is to file again (`ReportIsFiledOnce` shows that this is the only way).
- `README.md:273` and `docs/protocol.md:216` have the BRAIN day roll at 3 AM Eastern, while
  `client.go:336-346` rolls it at midnight UTC-4 and says why.
- `docs/sdk-protocol.md:159-163` advances the cursor by the limit, the code by the
  number of items.
- `ErrCooldown` and the cooldown gate are never reached: nothing sets `cooldownUntil`.

## 7. External parts

Modelled from how the code uses them: BRAIN (answers, sessions, lists,
screening, its check of a captcha and its one account per registration), GitHub
(one issue per POST it carries out), `context.Context`, the cookie jar of
tls-client, the file system, signals and the process's end, Node's child process
events. Some answers are assumed to be BRAIN's or GitHub's own: decided checks of a
submission, a 200 or 201 to `POST /users` (an account is confirmed with no other
status, and `Register` would take the edge's for BRAIN's), and a 2xx of the issue POST
(with other JSON it would be called filed). The tls-client jar is taken to forget a cookie that is set again
with a date in the past, as `clearJar` intends; what it does for cookies with
a domain or a path of their own is in that library.

## 8. Not modelled, and what is left

Left out for good: durations and jitter, header order and fingerprints, the
parsing of `Retry-After` and rate-limit headers (they only decide how long a sleep
is), rounding of floating-point numbers, fields of the payloads and their JSON
decoding, the declarations of flags, `describe` and `version`, wording of issues and
errors, the observer (it only records), generated type tables and browser profiles,
smoke scripts, installers and examples. So are a few rare paths that change no state:
a request body that does not marshal (`transport.go:377-384`), the repeat of the
registration's POST after a nested re-login, a last date of a series that does not
parse, which leaves it untrimmed (`selfcorr.go:108-111`), the length of calendar years
(`TrimDays` stands for all), and, as arithmetic is exact, a rounding residue at the
`varA == 0` guard (`selfcorr.go:182`).

Further work, in this order:

1. `challengeDayStr` on a small calendar, against the day's definition.
2. The clamps of `Retry-After`, if a property about the time a call may take is wanted.
