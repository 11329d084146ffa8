# A TLA+ verification of AKEEM-BE

AKEEM-BE ("NexusFlow OS API") is a NestJS server on PostgreSQL, written with Sequelize. One process runs
(`docs/HETZNER_DEPLOYMENT.md:69`), restarted by systemd when it fails (`deploy/akeem-backend.service`).
Its handlers and background workers share one event loop: what runs between two `await`s is atomic,
and everything else interleaves. Most of what it stores is edited row by row; the parts where steps of
several actors meet are the subject of this project.

Paths of the form `src/...` in this file are those of `PROJECT.json`.

## Inventory

| Component | State | Operations | What is hard |
|---|---|---|---|
| Automation service (`src/src/automation`) | `automations`, `automation_runs`, `audit_logs`, the flag `working`, promises in flight | create, update, remove, run, retryRun; tick, enqueueSchedules, workOne; onModuleInit | one worker against API handlers, time-outs that do not stop the work, crashes between statements, retries |
| Document pipeline (`src/src/files`) | `files`, `knowledge_documents`, `knowledge_chunks`, blobs on disk, timers and the flag `processing` | upload, reprocess, remove; enqueue, process; onModuleInit, onModuleDestroy | an in-memory queue over persistent states, removal during processing |
| Agent team (`src/src/ceo-chat`) | `ai_agent_delegations`, conversations, messages, agents, the budget of a request | chat, routeRequest, executeDelegation, synthesize | concurrent specialists on one budget, partial failure, time-outs towards the client |
| Agent actions | tasks, invoices, budgets, reports, approvals, activities, audits | execute, executeOne | a record without its audit row |
| AI tasks | `ai_tasks` | create, update, run, cancel, retry | status checked, then written around a long await |
| Approvals | `approvals`, audits | create, review | check-then-act by several reviewers |
| Authentication (`src/src/auth`) | `users`, `refresh_tokens`, `password_reset_tokens`, the founder's organization and membership | signup, login, refresh, logout, forgotPassword, resetPassword | tokens are read, revoked and replaced in separate statements; a reset against sign-ins under way |
| Settings and invitations (`src/src/settings`) | `memberships`, `organization_invitations` | invite, acceptInvitation, resendInvitation, revokeInvitation, memberRole, removeMember; the own profile | acceptance under a lock, revocation and resending without; soft-deleted members |
| Projects and their demo (`src/src/project`) | `projects` with their `settings`, demo rows of seventeen types | create, update, archive; seed | one long transaction on a locked row, an older seed to be completed |
| CRM (`src/src/crm`) | `pipelines`, `pipeline_stages`, `deals`, companies, contacts | pipelines, create, update, stage, remove | defaults found or created, a deal read, checked and written apart |
| Finance (`src/src/finance`) | `invoices`, `invoice_items`, `transactions`, accounts, budgets | createInvoice, updateInvoice, createTransaction, overview | several statements without a transaction, amounts rounded one by one |
| Reports, retrieval, dashboard, notifications, administration, email, health, users | – | reads, single writes, I/O | little |

What makes the modelled components correct:

* Automation: every due occurrence gets exactly one run, a queued run settles, nothing is left running
  after a crash, what a completed run claims to have created exists, attempts are counted and bounded.
* Documents: an unfinished file is waited for, a ready file is searchable, nothing is left of a deleted one.
* Agent team: eight executions at most, no ancestor is called again, helpers finish first, an answer
  is given when all work is over, an error when nothing was done.
* Accounts: a link is good for one use, an exchanged refresh token is revoked, an acceptance stands, a reset ends the sessions
  that it finds, a member has an account and an organization.
* Workspace: a demo is inserted once and as a whole, a deal is at a stage of its pipeline and has that stage's status,
  an invoice has all its items, which add up to its total.
* AI tasks: a running task is being executed, a completed one shows a finished execution of its own and stays
  completed, and a running task comes to its end.
* Agents' actions: what is reported as executed exists and is audited, an invoice has its items.
* Approvals: a decision stands, and the audit log has the decision that the row shows.

The components interact through shared tables and direct calls: an AI task calls `chat()`, the actions of
agents and automations create tasks, budgets, approvals and reports, the chat reads the chunks that the
document pipeline writes. `AiTask` composes the three that act on each other directly: a task awaits the
actions of its agents, which ask for approvals that reviewers decide. `Accounts` composes authentication with
invitations: both create users and memberships, a sign-in and a refresh read the memberships that invitations
create and removals end, and an administrator's request needs a session. `Workspace` composes CRM, finance,
projects and the demo seed, which puts pipelines, deals and invoices into the tables the other two edit. Between these
groups no row is shared that any of them branches on, so each is a specification of its own. `Automation` is related
to `OccurrenceSchedule` by refinement.

## Modules

| Module | Content |
|---|---|
| `Automation` | the service, one action per stretch between two awaits |
| `OccurrenceSchedule` | abstract: the ledger of occurrences, fired and advanced in one step |
| `MCAutomation` | request bodies for TLC |
| `AutomationProofs`, `AutomationQueueProofs` | theorems about `Automation`, the refinement of `OccurrenceSchedule` among them |
| `OccurrenceScheduleProofs` | theorem about `OccurrenceSchedule` |
| `DocumentPipeline`, `DocumentPipelineProofs` | the file handlers and the processing worker; theorems about them |
| `AgentTeam`, `AgentTeamProofs` | one chat request with its executions; theorems about it |
| `Approval` | approvals and their reviewers |
| `AgentActions` | the actions of agents, statement by statement; extends `Approval` |
| `AiTask` | AI tasks, composed with `AgentActions` and `Approval` into one specification |
| `AiTaskProofs` | theorems about the three together |
| `AccountTables` | the tables of accounts and the requests under way, faults |
| `Sessions` | sign-up, sign-in, refresh tokens, password resets |
| `Invitations` | invitations and members |
| `Accounts`, `MCAccounts`, `AccountsProofs` | both together, what clients send, and the theorems |
| `WorkspaceTables` | the tables of deals, invoices and projects and the requests under way, faults |
| `Crm`, `Finance`, `ProjectDemo` | their services |
| `Workspace`, `MCWorkspace`, `WorkspaceProofs` | the three together, what clients send, and the theorems |

An operator whose name ends in `_Something` after that of another definition is a mutant: the same
definition with a plausible mistake. `PROJECT.json` names, for every checked property, a mutant under
which TLC finds it violated.

### Automation

| Code | Actions |
|---|---|
| `tick`, `enqueueSchedules` | `StartTick`, `EnqueueOccurrence`, `AdvanceSchedule`, `EndTick` |
| `workOne` | `PickRun`, `ClaimRun`, `LoadRun`, `FailMissing`, `CompleteRun`, `AuditCompleted`, `SettleFailure`, `AuditFailed` |
| `executeActions`, `withTimeout` | `PerformAction`, `ActionFails`, `TimeOut` |
| `create`, `update`, `remove`, `run`, `retryRun` | `CreateAutomation`, `StartUpdate`/`FinishUpdate`, `RemoveAutomation`, `StartRun`/`FinishRun`, `StartRetry`/`FinishRetry` |
| `onModuleInit`, the process, the database | `Recover`, `Crash`, `DatabaseFault`, `BackoffEnds`, `TimePasses` |

The tables are functions of ids (`autos`; `info`, `status`, `attempt`, `waiting`, `results`), the worker
is `pc` with its locals, and `inflight` holds the promises of `executeActions`: one that timed out stays
there and goes on creating records. `client` holds handlers suspended between reading and writing.
Sequelize writes only the columns that differ from what the instance has read (`Column`); the updates with
a `where` clause are conditional and atomic (`ClaimRun`, `Recover`), those on an instance are not.

Abstractions. Time is a counter for schedules and a flag for the back-off. A trigger is its interval, 0
standing for one that `nextRun` rejects; a cron expression behaves like an interval. The worker may pick
any available run and not just the oldest. An action creates one record. A failed statement has no
effect. The limit of 50 due rows, `AUTOMATION_WORKER_ENABLED=false` and `lockedAt`, which nothing reads,
are left out. A claim's audit rows and results carry the number of the claim, a history variable, so that
attempts can be told apart after `retryRun` has reset `attemptCount`.

### DocumentPipeline

| Code | Actions |
|---|---|
| `process` | `Start`, `MarkProcessing`, `ReadBlob`, `FindOrCreateDocument`, `MarkDocument`, `Extract`, `ClearChunks`, `InsertChunks`, `DocumentReady`, `FileReady`; catch: `FileFailed`, `DocumentFailed` |
| `upload`, `reprocess`, `remove` | `StartUpload`/`FinishUpload`, `StartReprocess`/`FinishReprocess`, `RemoveChunks`, `RemoveDocument`, `RemoveBlob`, `RemoveRow` |
| `onModuleInit`, `onModuleDestroy`, the process | `Recover`, `Shutdown`, `Exit`, `Crash`, `DatabaseFault`, `HandlerFault` |

A pending `setImmediate` or retry timer of a file is a ticket; a call that finds the worker busy becomes a
retry timer, which is the same ticket, so it needs no step. `RemoveChunks` merges the read of the file with
the first delete: what lies between them only delays it. A statement that fails in the catch block rejects a
promise nobody handles, which ends the process. A blob whose upload died before its row was created
stays on disk; no property is about it.

### AgentTeam

| Code | Actions |
|---|---|
| `chat` | `Ask`, `Route`, `Join`, `Reject` |
| `executeDelegation` | `Register`, `Consult` with `NextChild`, `Resume`, `Conclude`, `Act`, `Save`, `SaveFailure` |
| `RequestTimeoutInterceptor`, the process | `TimeOut`, `Crash` |

Each call of `executeDelegation` is a record in the sequence `execs`. It is charged to the budget in the same
step that makes the call (`Opened`, line 673), while the check of the loop (line 716) happens in the
step that resumes its caller; `may` is what the code found before it asked the provider. The answers of the
provider are arbitrary lists that `normalizeDelegations` lets through. A request that timed out or was
rejected leaves its executions running. What the messages say and the usage counters are left out.

### AiTask, AgentActions, Approval

| Code | Actions |
|---|---|
| `create`, `update`, `cancel`, `retry` of a task | `CreateTask`, `StartUpdate`/`FinishUpdate`, `StartCancel`/`FinishCancel`, `StartRetry`/`Requeue` |
| `run` | `StartRun` or, after create, update and retry, `ReadTask`; `MarkRunning`, `Chat`, `Answer`, `Complete`; catch: `Fail` |
| `execute`, `executeOne` | `Perform` (in `Chat`), `Refuse`, `CreateRecord`, `CreateInvoice`/`CommitInvoice`, `RequestApproval`/`Notify`, `AuditAction`; the catch block is `Throw` |
| `create`, `review` of an approval | `CreateApproval`, `StartReview`, `Decide`, `AuditDecision` |
| the database, the process | `Throws` and the `Fault` alternatives of each statement, `Crash` |

A request of a task is a record in `requests` that holds what it has read; `calls` holds the calls of `execute()`,
`reviews` those of `review()` that passed their checks. Every write is by id and unconditional, as Sequelize's
`update` of an instance is, and a mode that the row already has is not written. A request that a check refuses
changes nothing and has no step.

Abstractions. `chat()`, whose executions `AgentTeam` models, is one answer of the provider and one call of
`execute()`. The four action types that insert one row are the kind `record`. The items of an invoice are one
insert; until the commit nothing of it is visible. What an action's payload and the role of the agent allow is a
choice (`Refuse`), also in suggest mode (`Preview`). Reviewers keep their roles. `attemptCount`, `progress` and the
dates, which nothing reads, are left out.

### Accounts: Sessions and Invitations

| Code | Actions |
|---|---|
| `signup`, `login` | `Signup`/`CommitSignup`, `Login`/`FindMembership`, then `IssueTokens` |
| `refresh`, `logout` | `Refresh`, `CheckMembership`, `RevokeOld`, `IssueTokens`; `Logout` |
| `forgotPassword`, `resetPassword` | `ForgotPassword`; `ResetPassword`, `SweepSessions`, `CommitReset` |
| `invite`, `acceptInvitation` | `Invite`; `StartAccept`/`CommitAccept` |
| `resendInvitation`, `revokeInvitation` | `StartResend`/`FinishResend`, `StartRevoke`/`FinishRevoke` |
| `memberRole`, `removeMember` | `StartRole`/`FinishRole`, `StartRemove`/`FinishRemove` |
| `validateUserByJwt` | `Authorized` |
| the database, the process | `StatementFails`, `Crash` |

A user is known by the email and an organization by its founder's, so that there are as many organizations as
accounts. A request is a record in `requests` with what it has read. What a transaction writes appears with its
commit; while it is open it holds the row locks that other requests wait for (`Locked`, `UserLocked`, `TokenLocked`). A
soft-deleted member is `removed`: the queries do not find the row, but the unique index does, and an acceptance for
the same member fails (`Conflict`). A write through an instance writes the columns that differ from what the
instance read (`Resent`, `Revoked`), whatever is in the row by then.

A refresh token carries three history fields: which token it replaced, how often its user's password had been
reset when the request checked its credentials, and whether a reset has overtaken that request (`late`).
`ResetEndsSessions` exempts the late ones: a sign-in that has compared the old password finishes after the reset
has swept the sessions, and the code lets it.

Abstractions. Expired tokens and invitations, unknown ones and wrong passwords are refused, which changes nothing.
Owner and Admin pass the same checks. Slugs, hashes, e-mails and the user's status are left out, and so are the
handlers of the own profile (`updateUser`, preferences, avatar, `password`), which write columns nothing modelled reads.

### Workspace: CRM, Finance and ProjectDemo

| Code | Actions |
|---|---|
| `defaultPipeline`, `ensureDefaultStages` | `List`, `FindDefault`, `NewDefault`, `EnsureStage`, `FinishList` |
| `create`, `update`, `stage`, `remove` of a deal | `Create`/`InsertDeal`, `StartEdit` and `StartStatus`/`FinishEdit`, `StartMove`/`FinishMove`, `Remove` |
| `createInvoice`, `updateInvoice` | `InsertInvoice`, `AddItem`, `AnswerInvoice`; `StartPay`/`FinishPay` |
| `createTransaction` | `StartTransaction`, `NewAccount`, `InsertTransaction` |
| `create`, `update`, `archive` of a project | `CreateProject`, `Update` and `Archive`/`FinishUpdate` |
| `seed` of the demo, `seedDemoCrm` | `StartSeed`/`CommitSeed` |
| the database, the process | `StatementFails`, `Crash` |

A row's id is its place in a sequence. `rows` counts the demo rows of each type that are committed, `data` and `crm`
the counts that the project's settings record. The transaction of a seed writes everything at its commit; until then it
holds the project's row. Six deals of a demo are three, one for each kind of stage, since those at one stage are
alike. The figures of the demo are the code's, in cents; `ScenarioAddsUp` states that what the scenario
tells the agents is what `overview()` computes from the demo's rows, and TLC evaluates it. `Overview` is the
definition of `FinanceService.overview`.

Amounts a client sends are in fractions of a cent, `Unit` of them to the cent, and of any sign, since bodies come
unchecked (`finance.controller.ts` takes `b: any`) and a quantity, price or tax rate has decimals; the stored ones are
in cents, as in `DECIMAL(16, 2)`: the total and the discount are rounded once, every item by itself, and that is the
difference that `InvoiceAddsUp` bounds, half a cent for each of them. It can be reached: five lines of 19 cents taxed at
7.25 % are stored as 5 times 20 cents with a total of 102. The errors of the code's binary fractions before the rounding
are left out. A deal is `loose` once a client has chosen its status or two requests wrote it at once;
`DealIsSound` is about the others. The open stages Lead, Qualified, Proposal and Negotiation are one, `lead`.

Abstractions. Companies, contacts, members and activities are left out, as are the columns that are only shown.
An id of a pipeline or stage that is `null` passes the check of `update()` and fails on the column, which is NOT NULL.

## Runs

All runs use the bounds in their `.cfg`; requests, crashes and failing statements are counted in the guards.

| Run | States | Shows |
|---|---|---|
| `AutomationQueue` | 2.36 M | `CompletedIsBacked`, `CompletedIsCurrent`, `AuditIsTruthful`, `CompletedIsFinal` |
| `AutomationSchedule` | 2.43 M | `TypeOK`, `NoOccurrenceSkipped`, `ImplementsSchedule` |
| `AutomationLive` | 0.49 M | `RunningIsWorked`, `AttemptBound`, `EveryRunSettles`, `EveryOccurrenceFires` |
| `DocumentPipeline` | 1.23 M | `TypeOK`, `ReadyIsSearchable`, `DeletedIsClean`, `PendingIsQueued`, `EveryFileSettles` |
| `AgentTeam` | 0.42 M | `TypeOK`, `LimitsKept`, `HelpersFirst`, `ReplyIsTrue`, `RowsSettle`, `EverythingEnds` |
| `AiTask` | 0.57 M | `TypeOK`, `ExecutedIsAudited`, `InvoiceIsWhole`, `DecisionIsAudited`, `RunningIsExecuted`, `OutputIsFinal`, `DecisionStands`, `CompletionStands`, `EveryTaskSettles` |
| `Accounts` | 0.34 M | `TypeOK`, `LinkUsedOnce`, `ReplacedIsRevoked`, `ResetEndsSessions`, `AcceptanceStands` |
| `Workspace` | 0.41 M | `TypeOK`, `DemoIsWhole`, `InvoiceAddsUp`, `DealIsSound` |

Why the bounds are enough.

* `AutomationQueue` has one run of two actions, so that an attempt can time out halfway and go on beside its retry,
  and two clients with three requests, the fewest with which two retries of one run race; a failed statement can fall
  anywhere.
* `AutomationLive` has two runs, which share the worker (a tick works one of them and leaves the other to the next), a
  crash and a failed statement that can fall anywhere, in either order. That more runs change nothing is, for the
  safety properties, for the proofs.
* `AutomationSchedule` needs two automations (an error in one ends the tick of the other), two dates and one crash or
  fault between the two writes; with four rows every occurrence up to the time bound has a place.
* `DocumentPipeline` has two files, which wait for each other, two clients and four requests: upload both, then
  reprocess and remove one of them, all in the course of its processing.
* In `AgentTeam` a budget of three with two concurrent assignments is the smallest where both find a share left and
  only one gets it, and the longest path of three agents fits into it; two ordinary specialists besides the
  orchestrators are enough for helpers to meet ancestors.
* `AiTask` has three requests in all, so that a task can be created and run twice at once, or executed, cancelled and
  retried in the meantime, or two reviewers meet on one approval. One action, of any kind, and one failed statement or
  crash fall anywhere. A second action multiplies the states by more than ten; that actions follow one another, and
  more of everything, is for the proofs.
* `Accounts` and `Workspace` have three request slots, symmetric like the emails, and a budget of each kind of request
  (`Kinds`); all the requests together in one budget are too many, so each run has several scenarios, one initial
  state each, in `MCAccounts` and `MCWorkspace`.
* `Accounts`: one invitation accepted twice, resent twice and revoked with a fault; two invitations whose members
  change roles, are removed and refresh their sessions; sign-ins, two refreshes of one session and two resets with a
  fault. Four links are as many as these can send.
* `Workspace`: one project that is new or was seeded before the CRM data existed, seeded three times and updated
  beside it; deals of a demo edited, moved and removed at once; deals entered where there are two pipelines; two
  requests that find no default pipeline; invoices in tenths of a cent (`Unit` is 10) that are rounded up, down and
  from the half, with tax, a negative line, a negative discount and one larger than the invoice, among them one whose
  three lines of 0.4 cents are stored as nothing and whose total and discount as a cent each; paid with negative,
  broken and too large amounts while their items are inserted.

That there are more users, requests, tokens and invitations than these is for the proofs of `AccountsProofs` and
`WorkspaceProofs`; one project is enough in `Workspace` because no step reads another project's row.

Deadlock is checked for `Automation`, whose timer never stops. The other systems do stop: `DocumentPipeline` when
nothing is queued and the bounds are used up, `AgentTeam` when the request is over, `AiTask`, `Accounts` and
`Workspace` when their requests are. Their configurations switch the check off.

### Disagreements found

Each of these runs checks one statement of the code or its documents and TLC finds it violated.

| Run | What happens |
|---|---|
| `AutomationRetryRace` | two retry requests read `failed`; the second resets a run that is under way again ("Only failed runs can be retried") |
| `AutomationBadTrigger` | an automation created with `nextRunAt` and an unusable trigger ends every tick; no run of anyone settles |
| `DocumentDelete` | a file removed while processed keeps its chunks ("also removes its knowledge chunks") |
| `DocumentBacklog` | with more unfinished files than the restart enqueues, one stays `pending` ("stop on ready or failed"); 1 stands for 100 |

More are in the models without a run of their own: of two requests with one idempotency key the second gets
the error of the unique index (`FinishRun`; `docs/CUSTOMER_MVP_FE_INTEGRATION.md:178` says "returns the same run"); a
`retryLimit` of 0 counts as 3 (`MaxAttempts`); a delegation whose last update fails is recorded as failed, without
the actions it performed (`SaveFailure`). Two requests that both read a task before either writes it execute it twice, in
spite of "AI task is already running" (`ai-task.service.ts:88`), and the result of a cancelled task's execution
overwrites the cancellation; two reviewers who both read an approval as pending both decide it, in spite of "Approval
has already been reviewed" (`approval.service.ts:75`). `CompletionStands` and `DecisionStands` say what remains of these
promises: they hold from the moment no request with an older reading is left.

In `Accounts`: a revocation or a resend that has read an invitation as pending overwrites the acceptance that comes in
between, in spite of "Accepted invitations cannot be revoked" (`settings.service.ts:321`, and `:299` for resending), and
a link resent after such a revocation is usable by somebody who is a member already (`AcceptanceStands` says what
remains). A removed member cannot be invited back: the acceptance ends with the error of the unique index (`Conflict`).
Two refreshes of one token that overlap both succeed (`RevokeOld` asks nothing). A role is the one of the time a token was
issued (`Authorized`). Two owners can remove each other, and an owner can give up the role.
In `Workspace`: two requests that write one deal at once can leave a stage that does not go with the pipeline or the
status (`loose`), and `stage()` takes any text as a status. First requests that overlap create the default pipeline and
'Primary Cash' twice. An invoice whose creation a fault ends stays with some of its items.

### Fairness

`Automation`: weak fairness of the worker's steps (a timer calls `tick` again and again, an awaited statement
returns), of the executions (those the worker awaits end or time out), of the end of a back-off, and of
`Recover`, since systemd restarts the process. Clients and the clock are not fair, and nothing makes the process end.
So a run whose reload, automation or verdict a failing statement loses (`automation.service.ts:303-308`, `:341`, `:352`)
may stay `running` for ever: only `onModuleInit` frees it. `EveryRunSettles` names this as the one other end of a
queued run; it still asks that the worker goes on with the others, and with this one if there is a restart.
`DocumentPipeline`: the steps of `process`, a ticket of each file (its timer fires every 100 ms until the worker is
free), `Exit` and `Recover`. No handler is fair: a client may never come back, and `EveryFileSettles` holds without it.
`AgentTeam`: the steps of `chat` and of the executions; `providerRequest` gives up after a time-out and a
bounded number of retries, so that every await returns.
`AiTask`: each accepted request and each call of `execute()`, for the same reason. Reviews and clients are not fair.
`EveryTaskSettles` exempts executions with a failed statement (the update in the catch block may be the one that
fails) and those a crash has ended: `run()` and `retry()` refuse the task that is left `running`, `cancel()` accepts it.
`Accounts` and `Workspace` assume none: no property of theirs says that something comes about, and a client need not
send the request it could send. Each of their requests is a few statements without a wait of its own.

## Proofs

`tlapm` checks these for all values of the constants under the named assumptions (`ConstantsAssumption`,
`DocumentAssumption`, `NoFileAssumption`, `TeamAssumption`, `ApprovalAssumption`, `ActionsAssumption`,
`AccountsAssumption`, `WorkspaceAssumption`, `FinanceAssumption`): the bounds are natural numbers, reviewers are
users, the bodies have their fields' types, with amounts of any sign, a cent has at least one unit, keys of clients
are not schedule keys, the orchestrator may not assign more than the budget, `None` is no email and no project.
`WorkspaceAssumption` also says which projects a scenario may start with: one without a row has no demo, and one
without the other demo rows has no CRM rows, because `seed()` refuses before it records anything
(`project-demo.service.ts:101`) and adds the CRM rows with the others or to them (`:513`).

| Theorem | States |
|---|---|
| `TypeCorrect` | `Spec => []TypeOK` for `Automation` |
| `AttemptsBounded` | `AttemptBound` |
| `RunningWorked` | `RunningIsWorked` |
| `ExecutionsSafe`, `ResultsAreCurrent` | `CompletedIsBacked`, `CompletedIsCurrent` |
| `AuditTruthful` | `AuditIsTruthful` |
| `OccurrencesKept` | `NoOccurrenceSkipped` |
| `CompletedRunsStay` | `CompletedIsFinal` |
| `ScheduleHasNoGap` | `TypeOK` and `NoGap` of `OccurrenceSchedule` |
| `ScheduleImplemented` | `ImplementsSchedule`, if `EditsLeaveSchedules` |
| `OccurrencesConsecutive` | `RunsWithoutGap`, if `EditsLeaveSchedules` |
| `TeamTyped`, `LimitsSafe` | `TypeOK` and `LimitsKept` for `AgentTeam` |
| `RowsAreSettled`, `HelpersAreFirst`, `RepliesAreTrue` | `RowsSettle`, `HelpersFirst`, `ReplyIsTrue` |
| `PipelineTyped` | `TypeOK` of `DocumentPipeline` |
| `ReadyFilesFound`, `DeletedFilesLeaveNothing` | `ReadyIsSearchable`, `DeletedIsClean` |
| `WaitingFilesQueued` | `PendingIsQueued`, if `[]BacklogFits` |
| `FewFilesQueued` | `PendingIsQueued`, if there are at most `RecoverLimit` files |
| `TypeCorrect` (`AiTaskProofs`) | `TypeOK` of `AiTask`, with its actions and approvals |
| `ActionsAudited`, `InvoicesWhole` | `ExecutedIsAudited`, `InvoiceIsWhole` |
| `RunningExecuted`, `OutputFinal` | `RunningIsExecuted`, `OutputIsFinal` |
| `CompletionStays` | `CompletionStands` |
| `DecisionStays`, `DecisionAudited` | `DecisionStands`, `DecisionIsAudited` |
| `AccountsTyped` | `TypeOK` of `Accounts`: members have accounts and organizations |
| `RotationSafe`, `ResetSignsOut` | `ReplacedIsRevoked`, `ResetEndsSessions` |
| `LinkSingleUse`, `AcceptanceKept` | `LinkUsedOnce`, `AcceptanceStands` |
| `WorkspaceTyped` | `TypeOK` of `Workspace`: deals, stages and requests refer to rows that exist |
| `DealsAreSound`, `DemoStaysWhole`, `InvoicesAddUp` | `DealIsSound`, `DemoIsWhole`, `InvoiceAddsUp` |

The arguments. `AttemptInv`: the worker's copy of `attemptCount` is either the row's or one behind it between pick and
claim, and only a crash lets the count outgrow the limit, since recovery requeues a run without looking at it. Proving
it is how a limit of the claim came to light: with retry requests that race, the second may requeue a run whose
attempts the first has used up, so the bound is stated for runs nobody asked to retry. `ExecutionInv`: an execution
has performed its first `done` actions (`Performed`), what is in flight was claimed before (`Known`) and by a claim of
its own (`Distinct`), and the claim just taken is newer than all of it (`Fresh`). So when the worker completes a run
with the execution it awaits, the others of that run are of earlier claims, and they stay so because only a claim,
which makes the run `running`, adds one: the attempts do not mix. `AuditInv` relates a verdict in the log to the place
the worker was at. `HeldInv` says that the worker holds no completed run but between its completion and its audit,
`RestInv` that a run which a suspended retry request has read as failed still is, or another retry has requeued it.

The refinement. `Schedule` maps `nextRunAt` to the abstract cursor, or to one interval later when the run of
`nextRunAt` exists already: the insert of the run is the abstract step `Fire`, moving the row on is none, and so a
crash between them is none either. `ScheduleInv` is what the steps need: a due row agrees with the stored one, there
is one for an automation, the row the scheduler is at is one of them, and no scheduled run is of a date later than its
automation's `nextRunAt`, so that the date it moves to has no run yet. The hypothesis `EditsLeaveSchedules` says what
"nobody edits" means: edits may change what an automation does and its retry limit, but not its trigger, date or
switch, and since every `update()` clears the date of an automation that is off, there are edits only where such
automations have none. Without edits it holds for any automations. With others the refinement is false: the tick
writes the date after the one it has read over a newer one (see the hazards). `OccurrencesConsecutive` is what
`Automation` inherits from `NoGap` this way.

In `AgentTeam`, an execution is appended in the very step that takes its share of a positive budget; each one fits
under the one that called it (`Fit`: its path is the caller's and itself, whoever it may still ask is not on the path,
and who may ask at all is above the limit), and `Tree` says so of all of them. `Verdicts` relates an execution's phase
to its row and its result, `Helpers` says that of those who work for an execution only the last may still run, and
`Replies` that a reply stands for a request with nothing under way: `Join` knows only that the executions `chat()`
called have returned, and that then all are over goes from each to those it called.

`TaskInv` of `AiTask` adds to the types what an action in its later statements has left behind (`Staged`: its record
and, before the audit of an approval, the notification) and that a request has no call before it has asked the agents
and only an ended one when it stores its output (`CallsKnown`). With it every step has an effect on tasks, requests
and calls (`TaskEffect`, from `Effect` for the steps of one request) and one on approvals (`ApprovalEffect`) from
which all theorems follow. `RunningIsExecuted` rests on the catch block: the only statements after which an execution
is gone write a status other than `running`. The two action properties need that a request which could still write a
completed row has read it before it was completed.

`TypeInv` of `AccountsProofs` adds to the types what a waiting request has found (`Full`): its user exists, its row is
an invitation that was sent. `RotationInv`: a request about to issue a token in the place of another has revoked that,
which no step makes live again; `TokensStay` reduces all steps but `IssueTokens` to that. `SweptInv`: a reset that
waits for its commit has found every live token of its user but those issued since, which are late, and only one reset
of a user is that far because it locks the user. `LinkRows`: a link belongs to one row, a row whose link was used is
accepted; it is inductive together with `RowHeld`, that the row an acceptance has locked stays usable and is locked by
one. `NotAccepted`: who still resends or revokes had read another status than `accepted`.

`DocumentPipelineProofs`. `RowsKnown`: an upload is alone with a file that has no row yet, every other handler has
found the row. `ReadyInv`: only the worker makes a file ready, it never starts on one that is, and when it is about to
say so the chunks and the document are there. `RemovalInv`: what a removal has deleted stays away, since only the
worker and an upload write anything for a file, and a removal that meets the worker is in `overlap`. `QueueInv`: while
no statement has failed the worker has marked its file before anything else, so its failure is written, and it gives
up only a file that has another ticket or is no longer unfinished. What it cannot give is the step of `onModuleInit`,
which enqueues `RecoverLimit` files and no more: `BacklogFits` says that a restart finds no more, and
`DocumentBacklog` is the run in which one does.

`WorkspaceProofs`. `Typing` has the references: a deal's pipeline and stage, the row a request is about, a payment
that was checked not to be negative. `DealsFit` and `RequestsFit`: a deal that is not `loose` is at a stage of its
pipeline with that stage's status, and what a request has read and checked of pipelines is still so, because pipelines
and stages are only added; of two requests that write one deal the later makes it loose. `SeedsFit`: the project's row
is as the seed that holds it has read it, and no other seed has it; `UpdatesFit`: an update writes no project that was
not there; with both, what a seed commits is what the settings then record. `InvoicesFit`: the items inserted so far
are the rounded totals of as many lines, and the total is the rounded sum less a discount; the rest is arithmetic
about sums. `Unit` is any positive number, so that the proof says nothing of the fractions but that there is a common
one: `RoundOff` bounds a rounded amount in multiples of `Unit`, `Near` keeps such bounds through a sum, and `Cancel`
takes the factor out at the end.

Sums and paths need induction, over the items and over the callers of an execution. A scheme of induction takes an
operator, which the provers cannot instantiate; instead the proofs take the least element of the set of
counterexamples (`FirstOf`, `LeastOf`, from the well-foundedness of `<` on the naturals) and show that there is a
smaller one. `Sums` is a recursive function, running from the first amount to the last as `reduce` does; `SumsOf` says
that it is what its recursion describes, and `RoundedSum` that rounding each of n amounts moves their sum by at most n
halves of a cent, up or down.

Only model-checked: everything about liveness and fairness, which is beyond the prover (`EveryRunSettles`,
`EveryOccurrenceFires`, `EveryFileSettles`, `EverythingEnds`, `EveryTaskSettles`). Every other property of a passing
run has its theorem, `PendingIsQueued` and `ImplementsSchedule` under the hypotheses named above. `ScenarioAddsUp`,
which is about the constants of the demo, is evaluated by TLC.

## Plan

1. What the theorems suggest to state next: how much of the schedule is kept when an automation is edited (a run for every
   date the row has held, whatever the tick writes over it), and what the finders of defaults promise when requests overlap.
2. More of the system: `AgentRegistry` (agents and teams created twice, conversations that `AgentTeam` appends to),
   `ProviderRequest` (retries and time-outs of the provider); pure algorithms: the chunker and the limits of requests.

## Not modelled

Reads (dashboard, retrieval, lists), handlers that write one row nobody else branches on (companies, contacts,
notifications, administration, profiles, budgets), pure I/O (email, health), pure checks of bytes (file
security), rendering of reports, and start-up code. `PROJECT.json` lists every component.
