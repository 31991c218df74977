# A verification development of BANG

BANG checks executable specifications and realizes them: it parses and checks a
small Core language, normalizes it, generates boundaries for two targets, runs
probes of what it generated, and keeps qualifications, plans and assemblies as
published records. Around that compiler stand services on SQLite files. This
directory models the program in TLA+, checks it with TLC on small instances and
proves its most important properties with TLAPS for every instance.

- `*.tla` without prefix: a component, with its properties.
- `MC*.tla` and `*.cfg`: the small instances TLC checks.
- `*Proofs.tla`: theorems about a component, for every value of its constants.
- `PROJECT.json`: components, runs, faulty variants, source lines, hazards,
  findings, theorems.

An operator that stands just before another and differs from it by a plausible
bug is a *faulty variant*. No specification uses it: put in the place of the
sound definition, it must make the property `PROJECT.json` names for it fail,
which shows that the property says something about that code.

## Inventory

Sources are under `apps/bang/src` (applications) and `packages/*/src`.

| Component | State | Operations | What is hard | Status |
| --- | --- | --- | --- | --- |
| M026 semantic database: `semantic-database-runtime.ts` | one SQLite row per account (balance, revision, remaining uses); one connection per process; Reactivity subscriptions | create, query, dispatch, subscribe, the journey | read, foreign handler and update in one transaction; publication after COMMIT; post-commit reads; crashes | modelled, proved |
| M027 transfer: `semantic-database-transfer-runtime.ts` | two rows, three reactivity keys, a derived total | create, query, transfer, subscribe, the journey | two conditional updates in one transaction, a total over all rows, three reads after COMMIT | modelled, proved |
| M028 evolution: `semantic-database-evolution-runtime.ts` | a version row beside the accounts | initialize, read, cutover, the journey | operators that race at the version row, a death after COMMIT, a cutover between two transfers | modelled, proved |
| Atomic publication: `publication.ts` | the repository tree, staged files, custody copies | stage, custody, rename, roll back | failure of one step of many, failing rollback, kill between renames, other publishers | modelled, proved |
| M020 family ledger: `ledger-storage.ts`, `ledger-domain.ts` | ledger, account, transaction and posting tables | init, account create, post, journal, balances, rebuild verify | concurrent CLI processes, stale snapshots, repeated posts, torn entries, bounded totals | modelled, proved |
| M024 channel trace: `channel-runtime.ts`, `trace.ts`, `packages/theories` | two owners, handled messages, observations | validate, deliver, drop, force, evaluate | every order of deliveries; what is left over from the schedule before; an evaluator that sees observations only | modelled, proved |
| M030-M033: `classify.ts`, `plan.ts`, `assemble.ts`, `packages/planning` | published records, staged closures | classify (two versions), plan, assemble, explain | inputs edited between reads; staged pipelines nested in one another; a choice without scoring | modelled, proved |
| M034 audit: `audit.ts` | a published closure and its citations | audit, invalidate | three reads of one thing at three times; requalification that publishes on its own | modelled, proved |
| Core: `packages/core` | none | check, normalize, compare | later readers look up without testing; reuse must follow the closure of what changed | modelled, proved |
| Theories: `packages/theories` | none | exact-one: apply, classify, invalidators; channel: validate, evaluate | a result that outlives what decided it | modelled, proved |
| Evidence: `packages/evidence` | records | decode, check | accepted exactly when it says what the boundary promises | partly: M031 and M018 |
| Effect target: `packages/target-effect` | grants and their use | the exact-one boundary and its probe | fibers that hold one grant; implementations that refuse or die | partly: exact-one |
| Gleam target: `packages/target-gleam` | an actor, its mailbox, consumed grants, a supervisor | the entities and the probe | crash and restart, mail lost with the mailbox, callers that give up | partly: entities |
| M025: `project.ts`, `export-schemas.ts` | a project closure | compile a project to its report | files read one after the other, one of them twice, while they are edited | partly: the project command |
| Obligations: `packages/obligations` | none | derive | obligations Core leaves open are discharged by the shape of guards | partly: state invariants |
| Commands: `explain.ts`, `normalize.ts`, `check.ts` | none | explain, normalize, check | sources edited while read | partly: explain, normalize |
| CLI: `command.ts` | none of its own | one process, one storage layer per invocation | the order of migration, lookup and command | partly |
| M026 planning and rendering: `semantic-database-target.ts` | none | check references, render | predicates that must mean the same at check time and run time | partly: the predicates |
| Surface: `packages/surface` | none | parse | text | not modelled |
| Rust target: `packages/target-rust` | none | generate pure types | text | not modelled |
| Demonstration scripts, tests | none | drive the CLI | none of their own | not modelled, read for claims |

How they interact. A CLI command is one process. `classify`, `plan`, `assemble`
and `audit` compute a closure and end in `publishAtomically`; the ledger commands
open the database, migrate it, run one storage operation and close it. The
database services are Effect layers over one SQLite file: a provider calls a
handler it did not write inside a transaction, and Reactivity calls
subscriptions back after it. The generated boundaries run inside probe processes
the compiler starts; their print-out becomes evidence, which classification
reads. Nothing but the file system and SQLite is shared between processes, and
nobody locks the repository, so any file may change between two reads.

What makes each component correct, in a sentence: the data service withdraws at
most once and nobody is told or shown anything else; a transfer preserves the
total and its answer tells whether it happened; a cutover is exclusive, final
and leaves the accounts alone; a publication leaves the whole new closure or the
prior tree; the ledger only grows by balanced entries, once per identity, and
can always be rebuilt; a trace handles each message once and after its cause;
published records are of one run and of the inputs they cite; an invalidation
retires what rests on a change of meaning and nothing that depends on none; what
the checker accepts every later reader can use; a grant buys one run.

## The modules

```
ExactOneAccount <-refines- SemanticDatabase <- SemanticDatabaseJourney
Bank            <-refines- TransferService  <- TransferJourney <- EvolutionJourney -> VersionCutover
LedgerDomain    <- LedgerBook <-refines- FamilyLedger; LedgerDomain <- FamilyLedger

CoreLanguage <- Normalization <- ExactOne <- Authoring
CoreLanguage <- TargetProjections, SingleUseEvidence;  with ExactOne <- Project
TargetEvidence <- Planning;  with Audit <- Toolchain;  TargetEvidence <- EffectBoundary, SupervisedEntity
Coordination <-refines- Channel
Boundaries -> Channel, EffectBoundary, SupervisedEntity, Publication
Toolchain, Boundaries, Authoring, Project <- Bang
FiniteSums <- TransferProofs, FamilyLedgerProofs, DocumentProofs
```

`A <- B` reads "B extends A", `A -> B` "A has an instance of B".

### SemanticDatabase, SemanticDatabaseJourney

`rows` is the committed table. A process has one connection (`conn[p]`, the
fiber whose transaction holds it), because `SqliteClient` serves a process
through a single connection behind a semaphore; the write lock `wlock` belongs to
the file. `fresh` holds the transactions whose snapshot is still the committed
state: SQLite refuses a write on any other. `pc`, `cmd`, `row` and `next` are the
step and the local values of a provider call, `sub` the subscriptions.

| Code | Actions |
| --- | --- |
| `query` | `StartQuery`, `Query` |
| `create`: existence check, `insertAccount`, `readAccountRow` | `StartCreate`, `CreateCheck`, `CreateInsert`, `CreateRead` |
| `dispatchProvider`: amount and existence check | `StartDispatch`, `Check` |
| `dispatch`: transaction, read and predicates, handler, `updateAccount` | `Begin`, `ReadRow` or `Refuse`, `Handler`, `Update` or `UpdateFails`, `Commit` |
| `Reactivity.mutation`, and the read after it | `Publish`, `ReadBack` |
| any `SqlError` | `SqlFails` |
| `subscribe` | `Subscribe`, `SubRead`, `SubFails`, `SubEmit` |
| the end of a process | `Crash` |

The handler may return any balance of `HandlerBalances`: it is foreign code.
A balance is an integer, since canonical decimal text loses none.
`ExactOneAccount` is what the service promises: an account is opened once and
withdrawn from at most once. Under `summary <- SummaryOf(rows[a])` only
`CreateInsert` opens, only `Commit` withdraws, and every other step, a crash
included, stutters.

`SemanticDatabaseJourney` lets one fiber and one subscriber run
`runM026DatabaseJourney`, alone in its process: `step` is the statement the
journey is at, `queue` the queue between the forked stream and the journey, and
`Deadline` the limit of `takeSnapshot`, which may expire whenever it is empty.
Meanwhile `Others` lets the clients of every other process open the same file,
call for the same account, commit, subscribe and die: nothing locks them out. In
a history without a journey `ServeClients` runs the service for clients anywhere.

### TransferService, TransferJourney, VersionCutover, EvolutionJourney

`TransferService` has the tables and locks of `SemanticDatabase` with two rows
per transfer: `Begin`, the two reads, `Handler` (any of `HandlerResults`),
the obligation check, `Update` twice, `Commit`, `Publish` of three keys, and the
three reads of the answer. `opened` and `moved` are histories. `Bank` is the
abstract service: accounts are opened, and money moves between two of them, no
more than the source holds. `tx[f]` holds the pair a transfer read and the
pair it writes.

`TransferJourney` is `runM027TransferJourney`, one driver with three
subscriptions, up to closing and reopening the file. `VersionCutover` is the
metadata row of M028: a cutover reads the row, compares it with the expected
baseline and updates it in one transaction; operators race, fail, and may die
after their COMMIT. Artifact and normalized digest are compared together and only
for equality, so one value stands for the pair. `EvolutionJourney` composes the
two: the transfer journey, the cutover in the same file, a second transfer under
the candidate plan and a comparison after reopening, with a rival operator.

### Publication

`files` is the tree; `before` remembers it. A publisher runs through the stages of
`publishAtomically` for its sorted entries: `Enter` (duplicates, temporary
directory), then `Stage`, `Inspect`, `Retain` per entry, then `Commit` per entry;
`CommitFails` starts the rollback, `Restore` and `RestoreFails` run it, last
committed entry first. `Kill` is an interruption or the death of the process at
any step: `Effect.catch` handles typed failures, so neither rolls back. A rename
is atomic; a `copyFile` cut short leaves `Torn` bytes. `RequestsAreSorted` states
what the duplicate check relies on, that equal paths are neighbours after
sorting; `localeCompare` provides it unless two different paths compare as equal,
as canonically equivalent Unicode spellings do.

### LedgerDomain, LedgerBook, FamilyLedger

`LedgerDomain` has the pure judgments: `Validate` (`validateEntry`, with its order
of refusals), `Fingerprint`, `Corrupt` and `FoldJournal` (`foldJournal`). A
fingerprint is the record of what `canonicalTransactionMaterial` writes with length
prefixes, so it is injective and leaves the kind of command out, as the code does.
`LedgerBook` is the abstract append-only book. `FamilyLedger` is the storage: an
invocation (`Invoke`) migrates the schema in a transaction (`MigrateTables`,
`MigrateRow`, `MigrateCommit`), looks the ledger up in a statement of its own
(`GetLedger`; `init` does not) and runs its command in a second transaction
(`Lookup`, `Replay`, `Check`, `CheckTotal`, `Insert`, `InsertLine`, `Commit`,
`PrintResult`; `ReadEntries`, `ReadSums` for the read commands). `work[c]` is what
its transaction sees. Transactions are deferred: the snapshot is taken by the
first read, and the first write is refused (`Busy`) when the snapshot is stale or
the lock is taken, which `mapSqlError` turns into `storage-failure`.

### Channel, Coordination

`Channel` is `bang trace`: `ReadSelection` validates; the executor takes a step of
a schedule at a time (`DeliverMessage`, `DropMessage`, `ForceCompletion`), starts
every schedule with new owners (`FinishSchedule`), and `EvaluateTrace` recomputes
five verdicts from observations alone. `Coordination` is what the owners promise
whatever the channel does. `Expected` says of a schedule what it implies without
running it, and is what the report is compared with.

### CoreLanguage, Normalization, ExactOne, Authoring

`CoreLanguage` is `validateCore` for every kind of declaration: data, refinements,
capabilities, services, state machines, realizations, theories, bridges and
finite models, with the derived obligations. `Normalization` gives every
construct an address, its dependencies and a body in which spelling does not
count, and compares two documents. `ExactOne` is the theory package: whether it
applies to a requirement, its premises and invalidators, and the classification
of a profile. These are operators. A term and a data type, which the schema
defines recursively, are lists of nodes, each after the nodes it is made of
(`IsTree`); `Decodes` is what the schema guarantees of a file. `Authoring` runs
`bang normalize` over them: files are read one at a time while an author edits
the candidate, and what was checked is normalized and compared.

### TargetEvidence, Planning, Audit, Toolchain

`TargetEvidence` holds the checks of a probe's print-out and of the records that
cite it. `Planning` is the planner: demands, contributions, candidates, the
undominated ones, and the reasons for having no plan. `Audit` is the inventory of
citations, drift, and the retirement, closed as the code closes it. `Toolchain` runs the commands:
a command is a list of stages, each an action that reads or computes one thing,
and an editor may change `files` or `published` between any two. `work` is what
the pipeline has read, `kept` what the first pipeline of an invalidation staged.
Bytes stand for their own digests; `MeaningOf` and `DigestOf` give a text's
decoded meaning. `publishAtomically` is one step here: `Publication` is about its
inside. Two operators say what an invalidation should retire after an edit of a
closure. `Resting` holds the records whose own recorded material has changed in
meaning; `StaleBy` adds what the design of M034 adds, every record that references
one of them. `RetiresOnlyTheStale` has the retired records between the two;
`RetirementReachesDependents`, that they are all of `StaleBy`, is a claim the code
does not keep.

### EffectBoundary, SupervisedEntity, TargetProjections, SingleUseEvidence, Project

`EffectBoundary` is the generated TypeScript boundary at run time. It keeps
nothing but each grant's use: destination and state are checked, the use is taken
by one atomic modify, and then the wrapped implementation runs, refuses or dies.
Concurrent fibers call it in phases (`journey`), and the generated probe is one
journey. `SupervisedEntity` is the Gleam actor with its mailbox, its list of
consumed grants and its supervisor; clients send to its registered name, give up
on calls, and the probe is one client among `Rivals`. Restart gives a new
incarnation with an empty mailbox, or the supervisor gives up.

`TargetProjections` says which documents each target generates code for, guard
by guard. `SingleUseEvidence` is the M018 manifest. `Project` is `bang project`:
selection, sources, artifact, theory, evidence and its materials, classification,
policy and report, each step an action, with files edited in between.

### Bang

`Bang` is the command line: one repository and commands of one family at a time.
The families share code and no state, so its state is theirs side by side and
its `Next` a disjunction of theirs. The publication every family ends in is a
family of its own (`PublishFiles`): several commands publishing at a time, step by
step.

## The runs

| Run | Instance | What it shows |
| --- | --- | --- |
| `SemanticDatabase` | two processes, two and one fibers, a subscriber, one account, valid and invalid amounts, a handler that may return an invalid balance or not return; the demonstration journey in one fiber, with the second process beside it; fair | `TypeOK`, `GrantUsedOnce`, `AckedIsFinal`, `CommitSeesItsRead`, `RunsOncePerRevision`, `JourneyChecksHold`, `ExactOne` as a refinement and `EveryRequestEnds`, under every crash and failing statement (242,894 states) |
| `SemanticDatabaseLive` | one process, two fibers, a subscriber, fair | `SubscribersCatchUp`, `QuietIsCurrent` (11,044) |
| `TransferService` | two processes with a fiber each, three accounts, handlers that break the total, an equation or the sign | `FundsConserved`, `AnswersShowTheTransfer`, `OutcomeTellsTruth`, and `MovesMoney` as a refinement of `Bank` (254,045) |
| `TransferClaim` | the same with two accounts and two revisions | *violated*: `FailedTransferChangesNothing`, see Findings |
| `EvolutionJourney` | the demonstration's amounts, three subscriptions, a rival operator, two services, fair | `EvolutionChecksHold`, `QuietIsCurrent`, `VersionFollowsData`, `CutoverIsFinal`, `JourneyEnds` (49,157) |
| `PublicationClaim` | one publisher | *violated*: `PublishesOrRestores`, see Findings |
| `FamilyLedger` | two invocations at a time, two accounts, two names for the ledger, an income posted with two payloads, a wrong kind, a split entry, verify; amounts bounded by 3 | `JournalRebuilds`, `AcceptedOnce`, `AggregatesFit`, and `KeepsTheBook` as a refinement |
| `FamilyLedgerClaim` | one post, no failures | *violated*: `ConcurrentReplaySucceeds`, see Findings |
| `Bang` | see below | Toolchain: `EvidenceHangsTogether`, `CalmRunsAreClean`, `PlanIgnoresOrder`, `FailedStagedRunsPublishNothing`, `RetiresOnlyTheStale`; Channel: `VerdictsTellTheSchedules`, `OwnersCoordinate`; Authoring: `CheckedDocumentsAreComplete`, `ReuseIsExact`, `InvalidatorsSuffice`; boundaries: `GrantsBuyOneRun`, `ProbesShowExactOne`; Project: `ProjectReportsStand`, `ProjectionsDischargeObligations`; Publication: `AtomicUnlessKilled`, `KilledLeavesPrefix`, `CustodyIsPrior` (781,402 in all) |
| `InvalidationClaim` | assemble, then invalidate | *violated*: `FailingRunsLeaveBytes`, see Findings |
| `AuditClaim` | assemble, then audit | *violated*: `CosmeticAuditRetiresNothing`, see Findings |
| `RetirementClaim` | assemble, then invalidate, one source text, three packages of two digests | *violated*: `RetirementReachesDependents`, see Findings |

### The instance of Bang, and its bounds

- Toolchain: `MaxCommands = 2` commands of seven kinds in sequence and
  `MaxEdits = 2` edits at any stage boundary, over four source texts (two of one
  meaning, one that does not check), three packages (two of one digest), two
  versions of `nix/gleam.nix`, and probes that print good or telling bad output.
  Two commands are what an invalidation needs (a closure, and the run that
  retires it); two edits let one thing change and change back, or two things
  change apart. All first inputs are `Home`: edits reach the others.
- Channel: every schedule of up to four steps out of seven moves, every pair of
  schedules of up to two steps, and ten selections that must be refused. Four
  steps hold the whole exchange and one disturbance: a repetition, a loss, an
  early message or a forced completion.
- Authoring: two source files that hold every kind of declaration,
  `MaxSourceEdits = 2` edits out of some forty, each a different rule of the
  checker; only files that are still to be read are edited, since an edit of a
  file already read is an edit for the next command.
- Effect boundary: the generated probe, and every journey of two racing fibers on
  the same or different grants followed by one more call.
- Supervised entity: the probe beside two rivals that send at most `MaxSent = 2`
  messages each, at most `MaxRestarts = 2`; and the plain entity.
- Project: source trees with one declaration edited, removed, added or moved, or
  one of some twenty-five selections, and twenty manifests; at most
  `MaxProjectEdits = 2` edits meanwhile. One departure at a time keeps every
  refusal attributable to a rule.
- Publication: three publishers of disjoint closures (three entries, one entry, a
  duplicate), from every prior tree. Three entries give a rollback a first, a
  middle and a last one.

### Bounds of the other runs

One account for M026: rows, grants and keys of accounts are independent but for
the connection and the write lock, which the second process already contends for.
Two fibers in one process and one in another give every pair of requests. Three
accounts for transfers let two transfers share none, one or two of them; there
the subscriptions belong to the journey run, and `MaxRevision` bounds how often an
account moves. Two invocations are every pairwise race on the ledger, and `MaxUnits = 3` lets
two valid posts exceed the bound together. Symmetry is used for interchangeable
invocations, with safety properties and a step-wise refinement only. No
state constraint and no view is used anywhere.

### Fairness

`Fairness` of `SemanticDatabase` asks of every fiber that its next `Statement` is
strongly fair: a statement waits for the connection of its process, a semaphore
with a first-in first-out queue, so a waiter that sees it free again and again gets
it. A subscription's query waits in the same queue (`SF`), and emitting is an
ordinary step of its fiber (`WF`). No fairness is asked of callers, failures, rivals,
crashes, or of the handler: it is foreign, its type allows an Effect that never
completes, and the code awaits it without a deadline while it holds the only
connection. So one hung handler blocks every caller of its process for good.
`EveryRequestEnds` and `SubscribersCatchUp` are therefore conditional on
`HandlersReturn`, that no handler of the same process stays out for ever, and the
first says with that, in a run of two processes, that a handler hung elsewhere, a
refused write, a failing statement or a crash keeps no caller waiting.

`EFairSpec` asks weak fairness of the driver's steps and of the subscriptions
together: a journey has one fiber, so nobody takes its connection away for ever.
The driver's steps include the handlers: the journey runs with the demonstration's
own, which compute their result and return, and not with any handler a user may
write. Reactivity is local to a process, so a commit of another one never
reaches a subscription, and `SubscribersCatchUp` is checked in one process; the
design document of M026 promises no more.

## The theorems

Checked by TLAPS with the SMT (Z3), Zenon and LS4 backends; they hold for finite
and infinite sets of processes, fibers, publishers, paths, invocations, operators,
schedules and grants alike. Where money is summed the summands are finitely many,
which is proved and not assumed: finitely many accounts have been opened, and
finitely many lines were posted.

| Module | Theorems | Rests on |
| --- | --- | --- |
| `SemanticDatabaseProofs` | `TypeCorrect`, `GrantIsUsedOnce`, `AckedWithdrawalsAreFinal`, `NoLostUpdate`, `ImplementsExactOne`, `QueriesRunOncePerRevision`, `QuietSubscriptionsAreCurrent`, `JourneyRunsTheService`, `JourneySucceeds` | `CallersAssumption` (types of what callers and handlers pass), `NoneAssumption` (the markers are not values), `JourneyAssumption` (the scenario the plan admits) |
| `TransferProofs` | `TypeCorrect`, `AnswersTellTheTruth`, `ImplementsBank`, `MoneyIsConserved`, `AnswersShowTheirTransfer`, `QuietSubscriptionsAreCurrent`; `CutoversAreFinal`, `JourneyCutoverIsFinal`, `RowsOnlyAdvance`, `JourneyRunsTheVersions`, `JourneyVersionFollowsData`, `JourneyChecksItself` | the first two, of `TransferService`; `JourneyAssumption`, `EvolutionAssumption`; the last also that the plan's amounts are the ones `assertExpectedBaseline` is written for (6 in both accounts after the first transfer) |
| `PublicationProofs` | `TypeCorrect`, `PublishedOrRestored`, `KilledLeavesAPrefix`, `CustodyIsThePriorTree` | `RequestsAreSorted`, assumed by `Boundaries` of its instance |
| `FamilyLedgerProofs` | `PostsAreAcceptedOnce`, `CommittedJournalsRebuild`, `NoAggregateOverflows`, `LedgerKeepsTheBook` | `CommandsAssumption` |
| `BoundariesProofs` | `TraceOwnersCoordinate`, `VerdictsAreTheSchedules`, `GrantsBuyOneRunAtBoth`, `ProbesShowExactOneAtBoth` | `SelectionsAreDecoded`, `JourneysAreTyped`, `AmountsAreIntegers`, assumed by `Boundaries` |
| `DocumentProofs` | `CheckedDocumentsAreCompleteAlways`, `ReuseIsExactAlways`, `InvalidatorsSufficeAlways`; `ProjectionsDischargeObligationsAlways`, `ProjectReportsStandAlways` | `BaselineAssumption` (the baseline is a list of files), for the first three; that a file decodes is what reading it checks |
| `ToolchainProofs` | `PipelinesStayGood`, `FailedRunsPublishNothing`, `CalmRunsStayClean`, `EvidenceStaysTogether`, `PlansIgnoreOrder`, `InvalidationsRetireOnlyTheStale` | `CommandsAssumption` of `Toolchain` |

TLC evaluates every one of these assumptions in a run that uses the module.
`Boundaries` puts the three guards and the publication side by side, under one name
each, for the theorems about them.

`SemanticDatabaseProofs`. The grant equation is not inductive alone: COMMIT
increments the revision of a row it read several steps before. `IInv` adds `TxInv`
(a fresh snapshot agrees with the committed row; a fiber about to commit holds the
lock on a fresh snapshot) and `RequestInv` (past its COMMIT, a fiber's account is
spent and nobody else was answered for it). One lemma per action keeps it, and
every step is a step of `ExactOneAccount` or a stutter. Subscriptions: a query is
owed for the registration and for every revision since, which `Publish` announces
and `SubRead` pays (`RunsAreCaused`); a subscription at rest that is not current has
a fiber that is about to publish (`SubsFollow`, in one process). The journey:
its steps, and those of the clients in other processes beside it, are steps of the
service (`JourneyRunsTheService`), and `JInv` says for each statement what the row may
be, what the queue holds and what was emitted. Another process may open the account
or withdraw first: then the journey is told so and ends with that failure. Where it
goes on, its own COMMIT was the account's only one, so the row cannot change behind
it, and its checks find what they expect.

`FiniteSums`. A sum of the community modules is a recursive function over an
element picked by `CHOOSE`. That such a function exists, that its value does not
depend on the order and what adding, removing and moving does to it is proved by
induction over the size of the set: the least size at which it fails
(`WFMin` of `WellFoundedInduction`), since the library's induction theorems have an
operator for a parameter. Everything below about money rests on it.

`TransferProofs`. A request has moved money only past its COMMIT
(`RequestInv`), and the pair it overwrites is the pair it read and whose new
balances passed the obligation check (`TxInv`). So an answer tells the truth, and
`Commit` is a move of `Bank`. It takes from one row what it gives the other, so
`SumMove` gives `MoneyIsConserved`. The answer of a transfer is read after its
COMMIT, when others may have moved money again: revisions only grow
(`RowsAdvance`), so what the transfer wrote stays shown or is overwritten by a
later revision (`WriteStaysShown`), and the total is read of rows no older than the
two shown before it (`TotalIsNewest`). `AnswerInv` carries that from the COMMIT
to the answer (`AnswersShowTheirTransfer`). Subscriptions are argued as above.

The journey of the evolution, in the same module. A cutover about to commit replaces a row of version 1 that
its fresh snapshot still shows (`CommitInv`), an acknowledged one left a row of
version 2 (`DoneInv`), so none replaces another. The script is a list of 44
statements put together from parts; lemmas on the parts give the statement at
each place (`PlaceInv`), and at each place what the two rows are: not yet there,
opened, or as far moved as the transfers passed (`RowsInv`), what the request in
service asks (`SaidInv`), and whether the cutover has been acknowledged (`CutInv`).
The overdraft exceeds what the source then holds and cannot commit. Thus money
moves a second time only after the cutover, which is final whatever rivals do.
`JourneyChecksItself` adds what the journey sees. `WatchInv` says of each
subscription, by the hour of the journey (the place, with the publication of the
first transfer as an hour between the ninth statement and the tenth), how many
queries it has run and what waits in its queue: it is due, has an answer to emit,
has emitted it, or has failed, and rests once its snapshot was taken. So a name is
noted with the rows of its stage (`GotInv`, after zero, one or two transfers), the
version read last is the one that was stored (`KeptVersions`), and no comparison
can fail.

`PublicationProofs`. The invariant is per publisher: if nobody else writes its
paths (`Alone`), then its paths are untouched before its first rename, exactly the
entries before `index` are published while it renames, and exactly those up to
`index` still are while it rolls back (`Own`). Steps of other publishers cannot
disturb it, which is a lemma; its own steps keep it, one lemma per stage.

`FamilyLedgerProofs`. `AcceptedOnce` does not say why a second invocation cannot
accept the same identity: it would have to hold the lock with a list of entries
that lacks it, while what the lock holder sees extends the committed list
(`LockInv`, `SnapshotInv`), and an identity accepted and not yet printed is in
that list already (`PrintInv`). The other three rest on `RInv`: the committed
database is sound (each transaction has exactly the lines of its material, which
is balanced, on known accounts, with its fingerprint, and the debits are within
`MaxUnits`), and a writer's copy is the committed one with as many lines added as
it has inserted. Sums over lines are sums over transactions of sums over postings,
so the SQL aggregates are the fold of the journal, and both sides of each are
equal. A sound database read back is a balanced journal: every COMMIT is a step of
`LedgerBook`.

`BoundariesProofs`. An acknowledgement completes the first owner only if its causal
parent was handled; validation makes the parent the commit message, so the second
owner has committed (`OwnersInv`). Nothing else touches the owners, observations
that force nobody leave `forced` as it is, and a new schedule starts at rest.
`VerdictsAreTheSchedules` compares what the evaluator rereads with what the steps of
the schedule say by themselves (`Expected`, which runs nothing). `Tells` relates the
two after any number of steps: which of the three messages are handled is which of
them were delivered in their causal order (`HandledTell`), the first owner
was forced exactly if a step forces it (`ForcesTell`), some rejection names a missing
cause exactly if some delivery came too early (`EarlyTell`), an acknowledgement was
dropped exactly if a step drops it (`DropsTell`), and the mutations are the handled
messages and the forced completion counted once each (`OwnersTell`). No observation
contradicts the schedule's attempts (`StandsUp`), so the evaluator refutes no trace.
Every finished trace keeps that relation (`TracesInv`), and then each verdict of the
evaluator is the one the schedule says. For the
Effect boundary, `BInv`: the runs a grant paid for and the calls that took its use
and have yet to run make up what is missing of its use; the one step that takes a
use is the step after which a call may run. For the supervised entity: grants carry
the incarnation that issued them, and the actor in being remembers every use of
its own (`Remembered`); messages and callers hold only grants that were issued
(`MailIsSound`, `ClientsAreSound`), so after a restart no grant of an earlier
incarnation passes.

`ProbesShowExactOneAtBoth` relates what a probe has shown to how far it is. The
Effect probe's seven phases are a table of callers, grants, balances and answers
(`ProbePhases` shows that the generated script is that table). `PInv`: as long as the
phases begun are the probe's (`OnProbe`), the phases that are over show what the table
says (`Closed`), and in the one under way either the use is still to be had and nobody
is past it, or one caller has it and the others are behind (`Race`); the defect layer
answers after it took the use. Which competitor wins is not said, and the print-out
does not depend on it. The Gleam probe's script has thirty-one steps; the table gives
the entity, the grant held, the answer and what was heard after each. `GInv`: the
probe is under way (`Probing`), lost, or there is none (`Unprobed`: rivals send for the
first trace only). Under way, three positions in the script, of what was sent, handled
and heard, fix mailbox, inbox, entity and traces (`OnCourse`); apart from that there are
the defect still to be handled, with the next call perhaps already behind it
(`AtDefect`), and the entity down (`Down`). When the defect strikes with that call behind
it, the call is lost with the mailbox and the prober waits for ever (`Lost`, which is
final: it is never done, so it prints nothing). A probe that is over has heard
every trace of the table, and the classifier passes that table (`ReportPasses`,
`EntityReportPasses`).

`ToolchainProofs`. A command is a list of stages. The stages still to go are a chain
of links that leads to one of the command's last stages (`Links`), so the stage at
hand tells which readings and checks came before it, for twenty-three stages and
seven commands at once. Past `qualify` the work is good: its observations passed
their checks, which fixes them, and its evidence cites the one source it was
computed of. All entries are functions of good work, so what is published hangs
together however files were edited between the readings. An execution nobody
disturbed has read the files as they are, and good work over the same readings is
the clean run's; an invalidation adds the first pipeline's entries, kept. A staged
command publishes in its last stage alone, after everything that may fail. The plan
takes the two contributions as a set. What an invalidation retires: a closure of
some inputs is what good work over them publishes (`ClosuresAreWork`), so each of
its citations has a known role, digest and citer (`CitationsFit`, `Fits`); the audit
of an undisturbed invalidation has digested the files as they are (`SeenOk`), which
fixes the verdict on each material (`VerdictIs`), and no record's name is the path
of a material, so the closure of the retirement adds nothing (`ClosureIsDirect`): the
retired records are the direct citers, `Resting`, and no more than `StaleBy`.

`DocumentProofs` is about what `validateCore` accepts and everything behind it that
takes an accepted document for granted. The command's invariants say little
(`AuthoringInv`, `DischargeInv`: what was read decodes, and what was answered was
accepted); the work is in lemmas on the operators, which hold of any document that
decodes and checks.

- *Completeness.* The drafts of each kind of declaration are a list whose addresses
  are apart and whose dependencies are among the document's own addresses (`Sound`,
  one lemma per kind, `DocumentDrafted`), since the checker asks for unique names and
  for every name to be found. So normalization is a function of the addresses
  (`NormalizationStands`), and its provenance places exist. `Reach` is a fold over
  as many rounds as there are addresses; it is the least set that holds its start
  and is closed (`ReachIsLeast`). A term is a list of nodes, each after its parts:
  the least node that fails to evaluate has parts that do, and a checked one then
  evaluates too (`ModelEvaluates`).
- *Reuse.* The comparison looks at the closure of one construct at a time, as it was
  listed when the construct was normalized. That listing is the least closed set of
  each document, so equal closures with equal fingerprints are equal premises all the
  way down, and equal premises give equal closures.
- *Invalidators.* An answer of the theory reads the realization, its requirement, the
  capability and the transition they are bound to. Each of these is among the
  invalidators, each fingerprint determines what the construct says
  (`RealizationSays`), and so nothing the answer reads differs (`SameAnswer`).
- *Discharge.* What each target's recognizer accepts is a machine of one shape, whose
  obligations are those the implementation meets (`DecodedDischarges`).
- *Reports.* `ReportInv` is `DischargeInv` with two more parts. `SelectionInv` ties
  what was read to the selection: profiles are paired with targets, and without edits
  the files are the current ones. `AnswerInv` keeps each answer until the
  report: the theory's for the compiled document, the evidence's that cites it, the
  classes of the two targets. Without the first the profiles could be of
  targets nobody selected, without the second a report would rest on nothing that is
  still known. The contract with the Gleam adapter cannot fail, because the theory's
  own manifest explains every profile (`ManifestExplained`).

What stays with TLC, and why: liveness (`EveryRequestEnds`, `SubscribersCatchUp`,
`JourneyEnds`), since fairness and `ENABLED` are out of the prover's reach, and the
claims that fail. Every invariant and every action property of a passing run has a
theorem.

Two definitions were changed for the proofs' sake, without another outcome for
TLC. `Preliminary` and `DispositionForDemand` were a `CASE` with arms that
overlap, whose value TLA+ leaves open where TLC takes the first; they are chains of
`IF` now, as the code's are. And `ReuseIsExact` asks for the same premises in its
second half: see the observation on bridges below.

## Findings

- `PublicationClaim`: `docs/repository-map.md` says that one transaction publishes
  a closure "or restores all prior bytes". A publisher interrupted or killed between
  two renames leaves a prefix published, and its custody is deleted or orphaned.
  `KilledLeavesPrefix` states what does hold.
- `FamilyLedgerClaim`: `tests/ledger-cli.test.ts` expects two identical concurrent
  posts to both succeed. A post whose snapshot became stale before its INSERT ends
  in `storage-failure`, and so may any command at its migration row. A repetition
  succeeds, and `AcceptedOnce` shows it is then replayed.
- `TransferClaim`: the design of M027 says that a failed transfer changes neither
  account. Its answer is composed of three reads after the COMMIT; when one fails,
  the caller is told of a failure although the money moved and was published.
  `OutcomeTellsTruth` states what every other answer means.
- `InvalidationClaim`: the design of M034 says that every failing run leaves
  persistent bytes unchanged. An invalidation assembles through
  `compileSelectedAssembly`, which publishes, before its own parity check and
  transaction. `CalmRunsAreClean` states what an undisturbed one leaves.
- `AuditClaim`: the README says that a cosmetic reorder retires nothing. That is so
  for the invalidation journey (`RetiresOnlyTheStale`), but `bang audit` compares
  digests only.
- `RetirementClaim`: the design of M034 says that a record is retired when "another
  record it references is retired", that retirement closes transitively, and that a
  changed field of the theory package retires lock, artifact, both evidence records,
  plan and assembly. `closeRetirement` looks for the path of a retired record's body
  (`recordBodyPath`) among the materials' paths, but a record is named
  `plan-report` or `evidence:<target>` and a material by its file, so nothing is found
  and the theory lock is retired alone. `RetiresOnlyTheStale` states what does hold:
  every record that cites a changed material directly, and none that is not stale.

Observations met while modelling, which no run is about:

- `compareNormalizedCore` compares a premise by its own fingerprint, and the closure
  as a set, so a premise that comes out as changed only because its own premises
  moved within an equal closure does not count. When the two theories of a bridge
  trade places, a law over two shared sorts can be reused although both sorts are
  reported as changed. `ReuseIsExact` states what the comparison does give.
- The first citation of a path fixes its digest in the inventory, so after a
  `classify` refreshed the evidence a stale plan or assembly is not retired.
- A handler that never returns blocks every caller of its process: see Fairness.
- The two rows and the total in the answer of a transfer are three reads, each of a
  moment of its own: with other transfers between them the two balances need not add
  up with the rest to that total. `AnswersShowTheTransfer` says what they do show.
- Version 1 of `classify` writes lock and artifact before later stages may fail.
  M026 publishes schema and bindings before its own checks.
- `supervised ?? true` takes a missing restart fact for a true one.
- Evidence cites the first source of the artifact only, whichever holds the requirement.
- `nix/gleam.nix` is cited by digest and used by path: see the hazard without a
  property.
- The channel evaluator counts a correctly rejected early message as a causal
  violation; a second `complete` step passes validation and fails execution.
- `check.ts` digests sources after it read them. M018 reads materials relative to
  the working directory and sources relative to the root, and reads materials
  again after the artifact was built.
- M018 evidence may cite any source of the artifact as its core material; its
  defect part may name the observation's own grant, and the reuse's states are not
  checked; its realization is never compared with the one being classified.
- The M023 failure `invalid-classification` cannot be reached after a valid profile.
- The Gleam probe's 50 ms sleep: a restart slower than that crashes the probe,
  it never makes it misreport (`ProbesShowExactOne`). The Effect probe's print-out
  has parts that are constants of the generator.
- The Effect boundary holds no state of its own, so two grants on one state value
  may both succeed: the state is the caller's to thread.

## Not modelled

Text: the Surface parser, diagnostics, rendering and code generation as such
(Rust, refinements, services, data types, theory suites), digests and the decoding
of malformed rows. The demonstration scripts drive the CLI and add nothing to it.
`check` runs external tools and reports their exits. The evidence manifests M010
to M017 and M019 record one fixed journey each and are compared with it field by
field: there is nothing between the fields to relate.

Time: the deadlines of journeys and calls may expire at any moment they are
waited for, and the supervisor's restart intensity is a choice to give up.
SQLite, Effect, the BEAM and the file system are external, modelled from how the
code uses them: durability of a COMMIT, atomicity of a rename, the order of a
semaphore and of a mailbox are assumed. Disk-level corruption and database files
edited by hand are outside the model.

Two paths of modelled components. `EffectBoundary`: a fiber interrupted between
taking the use and running the implementation (the use is then lost, as when the
implementation dies, which is modelled), and a grant the boundary never issued, which
is refused without a change of state. `Channel`: that schedule identities are
unique, and the evaluator's comparison of the owner and the previous state in a
forced completion, which cannot fail for an observation the executor made.

One hazard has no property: `assemble.ts` records the digest of `nix/gleam.nix`
from one read and builds from its path later. The code promises nothing about an
edit between the two; the next audit sees the edited file as changed.

## What is left

1. The plain Effect entity and the M010-M017 journeys as scripts of the
   boundaries that `EffectBoundary` and `SupervisedEntity` model.
2. Rust, as a third target of `TargetProjections`.
