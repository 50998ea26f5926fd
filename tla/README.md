# Verification of Web API Extension (WebAX)

TLA+ models of the browser extension in this repository, the TLC runs that
check them on small instances, and proofs that TLAPS checks for every value of
the constants. Paths below are relative to the repository.

## 1. Inventory

The program runs in several contexts that share nothing but messages and
`chrome.storage`: a service worker that the browser may stop at any time, a
side panel, an offscreen document with a sandboxed frame, and content scripts
in the pages of the merchant platform.

| component | state | operations | interacts with |
|---|---|---|---|
| job executor (`background/sw-job-executor.ts`) | `activeJobId`, `abortController`, `activeSandboxRuntime`, `pendingProgress`, `segmentStart`; all lost when the worker stops | start, resume, pause, cancel, cancel by id, SDK call, progress | job store, offscreen host, API client, gateway telemetry, audit log |
| job store (`src/jobs/job-store.ts`) | one array `jobs` in local storage, `cachedJobs` per context | create, update, get, load, save, trim | every context that reads jobs |
| offscreen host, sandbox (`offscreen/offscreen.js`, `sandbox/sandbox.js`) | pending requests with timers, abort marks per job | compile, execute, abort, forward SDK calls and progress | executor, by messages |
| recovery (`background/service-worker.ts:76-113`) | none of its own | marks interrupted jobs as paused when the worker starts | the job array, by its own read and write |
| job runner and Jobs tab (`src/jobs/job-runner.ts`, `JobMonitor.tsx`) | the panel's idea of the active job, keep-alive port | start, resume, pause, cancel with retries; polling | executor, storage events |
| write confirmation (`src/bridge/*`) | one pending local dialog, one remote request in session storage, a scope | ask, answer, time out | tools, WebMCP handler, side panel |
| WebMCP (`content/bridge.ts`, `service-worker.ts:360-474, 544-667`) | registered tools, pending calls with timers in two worlds of a page | register tools, execute a tool for a page | confirmation, gateway, tools |
| rate limiter, API client (`src/lib`) | token balance, audit log in local storage | acquire, request with retries, append to the audit log | every request |
| gateway hooks (`src/gateway`) | decision cache, ambient telemetry context, settings, token, probe status | evaluate a policy, send telemetry, probe | WebMCP, chat, jobs, Connections page |
| credential storage (`src/lib/storage.ts`, `llm-storage.ts`, `gateway-storage.ts`) | encrypted blobs, unlocked session copies, active environment | save, unlock, lock, forget, switch | every request |
| Connections and Home pages | what is shown of each environment; operations under way | hydrate, save, test, delete, list and store tokens | credential storage, API client |
| chat (`ChatPage.tsx`, `src/chat`) | history, three switches in session storage, a busy flag | turn of model and tools, switches, drafts and their review card | tools, confirmation, executor |
| chat context (`src/chat/context-store.ts`, `content/context-scraper.ts`) | one merged record per tab | report, upsert, clear | chat |
| tools (`src/tools`) | none that lasts; an operation is a chain of requests | settings with inheritance, hierarchy, transactions, entities, contacts, merchant accounts, tokens, workflows | session, confirmation, API client |
| virtual SDK (`src/tools/workflow-sdk`, `src/sandbox`) | the record of a script's calls | guard, preview, plan, transport of a call | tools, API client, executor |
| counters, toast, lookups, generated data, build tools | counters; tables | | nothing depends on the counters |

What is hard:

* **Concurrency inside one thread.** Every `await` lets other handlers of the
  same worker run. The executor checks `activeJobId` before an `await` and
  stores it after one; job-store reads an array, changes one record and writes
  the array back.
* **Four contexts, no common order.** Messages between the worker, the
  offscreen document and the sandbox are not ordered with each other nor with
  storage events.
* **Crashes.** The browser stops the worker while the offscreen document, and
  the script in it, go on; or the whole browser stops.
* **Time limits.** A script's request is rejected by its timer while the
  script goes on; a confirmation times out while the user answers.

* **Several windows.** Every browser window has a side panel of its own with
  its own React state, over one storage and one worker.
* **A page that is switched while it works.** The Connections page, the gateway
  section, the chat and the review card go on with an operation whatever the
  user selects meanwhile.

What makes each component correct:

* executor: the job slot is taken only while a run of that job is under way,
  and is freed in the end; a job counts as completed only if its script
  finished; every request ends; a checkpoint stays in its own job.
* job store: a finished job is not changed by whoever reads the array after its end
  (who read it before may bring it back: `EndsStay`).
* recovery: no job that ran before a restart is `running` when it ends.
* panels: they come to show the active job; what the user reviewed is what runs.
* confirmation: a write runs only after an approval given to it; every asker is
  answered; "confirm all" is for its script, and ends with it.
* WebMCP: a page is told what happened; each call runs on its own decision.
* rate limiter and API client: overdraft is bounded; an aborted request makes no
  further attempt; no audit entry is lost but for the known race.
* credential storage: what is open in the session is what is stored, once nobody
  works on it.
* chat: calls and results stay paired; a tool that needs a mode runs in it.
* tools and SDK: what is sent is what was shown, once; what was created for a
  call is gone after it; what is reported is what is there.
* workflow drafts: a script that runs had no hits; a job is that of its card.

## 2. What is modelled

### JobExecutor

One module holds the executor, the store below it, the offscreen host and the
script above it, and the recovery, because the behaviours that matter are
interleavings of the four. Each operation is one action per stretch of code
between two awaits.

| state | in the code |
|---|---|
| `store` | the committed array under `jobs`; a job that does not exist is `NoRecord` |
| `q` | the storage requests the worker has sent and the browser has not answered; one channel, served in order |
| `cache` | `cachedJobs` of the worker |
| `active`, `runtime`, `stopped` | `activeJobId`, `activeSandboxRuntime`, the aborted controllers |
| `pc`, `job`, `base` | per start request: the await it stands at, its job, the record it read when its execution began |
| `cpc`, `ckind`, `cjob` | per pause or cancel request: where it stands, what it does, to which job |
| `rpc`, `found` | `pauseInterruptedJobs` |
| `host`, `script`, `pos`, `aborted` | the pending request in the offscreen document, the script, how far it got, the abort marks |
| `sdk`, `prog`, `posted` | the SDK call and progress message of a script, the last checkpoint it posted |
| `up`, `crashes` | whether the worker runs |

A storage request is an operation (`Load`, `Save`, `Create`, `Update`) in `q`.
`Fetch` lets the browser serve the `get` half of a read-modify-write, after
which the request is a `set` of a whole array computed from what was read; the
action that continues the task (`Answered`, `Settle`) commits the `set`. So a
second `get` may be served between the two halves, and a later `set` writes
back records that others have changed since.

Abstractions, all of data or of things outside the code:

* `results`, `logs` and `writes` are one field `saved`, the set of runs whose
  outcome was stored; a checkpoint is the position the script had reached.
  Call counts, elapsed time, summary and telemetry contents are left out.
* `computeJobOutcome` is an arbitrary member of `Outcomes`.
* The state `resumed` is in the type but no code assigns it.
* A script has at most one SDK call and one progress message in flight and
  posts a checkpoint once for each position it reaches.
* `pendingProgress` is flushed in the turn that sets it.
* Awaited telemetry, audit entries and the compile request are steps that may
  end at any time.
* `SwStart` runs the recovery once; that `onStartup` runs it a second time after a
  start of the browser, with the same effect on the same jobs, is left out.
* When the worker dies, the last array among a prefix of the requests already
  sent may be committed. An abort message in flight was delivered or is lost.
* `storage.onChanged` refreshes the cache at the commit.
* Storage writes are not rejected and jobs are not trimmed: the array stays
  far below its limits with two jobs.
* The branch for a `DOMException` in the executor's catch (716-727) is not
  modelled: `executeJobInOffscreen` rejects with a plain `Error`.

### MCJobExecutor

Model values for the constants and the symmetry of runs and jobs (used only by
runs that check safety).

### ConfirmFlow and Consent

`Consent` is the abstract promise: a write runs only after the user approved
that very write, or while an approval of everything its own script writes stands
("'Confirm all' only applies within the same scope", `confirm-bridge.ts:66`).
`ConfirmFlow` is the code: askers in the side panel (`confirm-bridge.ts`), WebMCP
calls in the worker that ask through three keys of session storage
(`remote-confirm.ts`, `service-worker.ts:406-474`), the one dialog both kinds meet
in (`use-confirm.ts`, `ConfirmDialog.tsx`), the mounting of that dialog
(`App.tsx`), and the page's own `window.confirm` (`content/bridge.ts`). The code
keeps the scope in module variables that do not say who asks, so a write of another
may be waved through; those writes are in `strays`. `ImplementsConsent` maps
ConfirmFlow to Consent: `ran` is the set of writes let through, less the strays,
`blanket` the scripts whose "confirm all" stands. That there are strays is the
finding `ScopeIsKept`.

| state | in the code |
|---|---|
| `ready`, `request`, `response` | `sidepanel:confirm-ready`, `remote-confirm:request`, `remote-confirm:response` |
| `st`, `choice` | where each `handleWebMcpExecuteTool` stands, and what its wait returned |
| `swq`, `ops` | storage operations sent by the worker and by the panel and not served yet, each served in order |
| `panel` | `closed`, `gated` (App is mounted without the dialog), `open` |
| `notices` | `storage.onChanged` events under way to the dialog |
| `remotePending` | the state of `useConfirm` |
| `pendingState`, `hasScope`, `scope`, `auto` | the module variables of `confirm-bridge.ts` |
| `asks`, `sc` | local askers; scripts in `runSandbox` |
| `agreed`, `viewed` | history only: what an approving answer was given to, and what was on display then |
| `grants`, `strays` | history only: the scripts whose write the standing "confirm all" was given to, and the writes waved through on another's |

Abstractions:

* The session is unlocked, the tool is known, the gateway allows the call, and
  it writes: what the handler does before line 413 is one step.
* Request ids (`crypto.randomUUID`) and scope ids are distinct, so a request is
  named by its call and a scope by its script.
* There is one side panel. Local writes are asked for in any order and at the
  same time: a chat turn goes on when ChatPage is unmounted, and the page that
  is mounted later starts turns of its own.
* `Author` says which local writes belong to a script. `execute_workflow` asks
  once for its script and has `runSandbox` confirm the single writes; a script
  that asks for each write is what `runSandbox` does by default.
* When the panel's document goes away no React effect is cleaned up, so
  `ready` stays; operations under way are served or lost; local state is gone.
* When the worker stops, a prefix of its operations still takes effect and
  every waiting call is lost; session storage survives.
* Storage operations are not rejected. The main-world script and its 600 s
  timer are in MainWorld.

### MCParts and MCProgress

The other modules model parts of the program that share no variable with each
other: a part reaches another only through calls whose answers it treats as
arbitrary. `MCParts` declares them all and checks each by itself: `part` names
the one that a behaviour is about, `others(p)` freezes the rest at their initial
states. The state spaces add up instead of multiplying, and one run asks the
safety questions of all of them. `MCProgress` does the same for the four parts
with liveness.

Where two parts do interact, one module models both sides: the limiter under the
API client (`ApiClient` extends `RateLimiter`), the panels with the worker's slot
(`JobPanels`), the two worlds of a page (`MainWorld`), the page and the storage of
the Connections page (`ConnectionForm`, `GatewayForm`), the chat page and its
turn (`ChatTurn`), the card, the tool and the job (`Drafts`).

| module | code | an action is |
|---|---|---|
| RateLimiter, ApiClient | `lib/rate-limiter.ts`, `apiRequest` and `fetchWithRetry` of `lib/api-client.ts` | the code between two awaits of one request: look at the balance, sleep, take, fetch, back off, log, report; `Elapses` is a tick of the clock |
| AuditLog | `appendAuditEntry`, `trimAuditLog`, `RunHistoryPage.tsx` | the read and the write of a whole log, by appends and by the page's deletions |
| GatewayPolicy | `handleWebMcpExecuteTool` around the tool, `gateway-sw-bridge.ts`, `gateway-client.ts`, `gateway-context.ts` | a step of a call: ask the cache or the service, store the decision, begin, end, restore the context |
| GatewayForm | `GatewaySettingsSection.tsx`, `gateway-storage.ts`, `testGatewayConnection` | one storage request or answer of one thread of a window, or of the worker that locks a rejected token |
| Credentials | `storage.ts`, `llm-storage.ts`, `gateway-storage.ts`, `App.tsx`, `PinEntryPage.tsx` | one storage request of a panel's save, unlock, lock, removal or reset |
| ConnectionForm | `ConnectionsPage.tsx`, `HomePage.tsx`, `useConnectionStatus` | a click, or the code after an await of the form's, the vault's or the check's operation |
| TestTransaction | `send-test-transaction.ts`, `transaction-client.ts`, the token vault | a request of a run: create (with retries), send, suspend, delete |
| ChatTurn | `ChatPage.tsx`, `adapters/gemini.ts`, `tool-bridge.ts`, `chat-mode.ts` | a step of a turn between two awaits, a switch of a mode in three steps, mounting and unmounting |
| Drafts | the drafting and review card of `ChatPage.tsx`, `workflow-static-preflight.ts`, `workflow-runtime.ts`, `execute_workflow` | an answer of the model, a button of the card, the start by card or tool, the end of the script |
| JobPanels | `job-runner.ts`, `use-jobs.ts`, `JobMonitor.tsx`, the reviewed jobs of `ChatPage.tsx` | a step of a click, a storage event, an answer to `job_status`; a request to the worker is one step of it |
| ChatContext | `context-store.ts`, `context-scraper.ts` | a frame's report, the read and the write of the tab's record, its clearing |
| MainWorld | `registerToolsInMainWorld`, `content/bridge.ts` | a poll for `modelContext`, a call, a relay, a timer, a dialog's answer |
| ToolCalls | `internal-router.ts`, `adapter.ts`, `execute-workflow.ts`, `runSandbox`'s limit | a step of a tool: take the session, ask, request, clean up |
| Settings | `manage-settings.ts` | one request to the gateway, with what the tool has cached, while others change settings |
| Hierarchy | `get-hierarchy.ts` | one listing of children, while others change the tree |
| WorkflowSdk | `workflow-sdk/*`, `buildSdkFacade`, `buildSwSdk` | a script's call: made, resolved, its target checked, posted, answered |
| WriteRoutes | `manage-entity.ts`, `manage-contact.ts`, `manage-merchant-account.ts`, `adapter.ts`, the SDK namespaces | one call through preview, answer, request |

How the state corresponds is said at each VARIABLE; a variable marked "history"
or "ghost" is in no code and only remembers something for a property.

Abstractions shared by these modules:

* A payload is what a property tells apart: a decision is its correlation id, a
  script is the mistakes in it and how each is written (`Drafts`), a page is the
  entity on it and how it is found (`ChatContext`), a body is the set of fields
  in it (`WriteRoutes`), a credential is the environment it was typed for
  (`ConnectionForm`).
* Time is a clock of few ticks where it is compared (limiter, cache of
  decisions) and elsewhere a step that may come at any time (time-outs).
* The network answers, refuses or loses an answer; a lost answer may have had
  its effect.
* The cryptography is one fact: what was encrypted with a PIN is opened by that
  PIN only.
* The gateway, the portal and the model of the chat are external: any answer of
  the kinds the code distinguishes.

Of the single modules:

* `GatewayPolicy`: the middle of a call (`ConfirmFlow`, `ToolCalls`) ends somehow.
  The ambient context is `parent`, one variable of the worker. The cache of
  decisions, a `Map` in the code, is a set of entries with their places in its order,
  so that pruning drops the oldest.
* `Credentials`: a panel does one operation at a time; two panels overlap, on the same
  environment (`met`, `tangled`, `astray` remember it for the properties) or on
  different ones. The two reads of `getActiveEnv` and the write of its fallback are one
  step. `ConnectionForm` takes the session as unlocked, and leaves encryption to it;
  other windows save, remove and choose while its page is open (`moved` remembers the
  environments they changed).
* `Settings`: `moments` remembers how the settings stood at each time of the call;
  `CallReturned` ends a call, and its cache with it.
* `ChatTurn`: the history is the sequence of kinds of its entries; the model
  calls at most `MaxCalls` tools at once.
* `JobPanels`: of the worker's awaits one thing is kept, that a final state is
  stored before the slot is free. What a chat page follows is gone when it unmounts
  (`ChatUnmounts`) and when the side panel is opened again (`PanelReopens`); `MaxStops`
  bounds these together with the stops of the worker. A window does one click at a
  time, and what it began goes on when the page that began it is gone.
* `Drafts`: a script is a set of mistakes, one of `Codes`. A mistake has a wording:
  plain, veiled (a quoted or computed key, an argument that is left out, blank or in an
  object, another name), or in a comment. `Flagged` is what the checks see of them,
  `Halts` what the run refuses; neither contains the other.
* `WriteRoutes`: the wording of a preview is its verb and its entity.


## 3. Runs

### JobExecutor

The bounds are the number of jobs (`Jobs`), start requests (`Runs`), pause and
cancel requests (`Ctls`), SDK calls per script (`MaxCalls`) and crashes
(`MaxCrashes`). Requests are finite, so the system may stop and deadlock is
not checked.

| run | bounds | question |
|---|---|---|
| `control` | 1 chat job, 1 run, 2 controls, 1 call, 1 crash | types; the slot has an owner (`SlotHasOwner`); completed means finished (`CompletedIsBacked`) |
| `jobs` | 2 jobs, 2 runs, 1 call, 1 crash | a checkpoint lands in its own job (`CheckpointBacked`); when the recovery ends no job is running but those that a request of this life of the worker started or resumed (`RecoveryPauses`, an action property); a finished job is changed only by a cancel by id or by an older copy of the array already under way, and no step after its end sends one (`FinishedStays`) |
| `live` | 1 job, 1 run, 1 control, 1 call, 1 crash | every request ends (`RequestsEnd`) |
| `slot` | 2 jobs, 2 runs, 1 crash | the slot is freed (`SlotFreed`) |

One run and two controls cover a pause against a cancel against the end of the
script; two runs of one job cover resume, double start and an orphaned script;
two runs of two jobs cover the window between the check and the store of
`activeJobId`. A third run or job adds no new pair of tasks.

Two runs each show a promise the code does not keep:

| run | promise | what happens |
|---|---|---|
| `v_pause` | a paused job stays paused (README.md:365, sw-job-executor.ts:717) | the abort wakes the run, which stores `failed` behind the pause |
| `v_checkpoint` | "Checkpoints enable resume" (README.md:550) | the flush after an error restores an old checkpoint |

Also in the model, and not the subject of a run: two starts pass the check of
`activeJobId` and both execute; the second of the two updates to `running`
overwrites a cancel stored between them; a `createJob`, or the recovery itself,
that read the array too early puts an interrupted job back to `running` after it
was paused (`OrphansArePaused` of the table below; `RecoveryPauses` is what is left
of the promise); a run that is paused drops its writes. The properties above hold in
spite of these.

### ConfirmFlow

The bounds are calls, local writes and scripts (sets), `MaxTurns` (how often
the panel opens, closes, shows or hides its dialog), `MaxOps` (the panel's
operations under way when a button is clicked: 1 means no second click before
the first answer is stored) and `MaxStops` (stops of the worker).

| run | bounds | question |
|---|---|---|
| `calls` | 2 calls, 3 turns, 1 operation, 1 stop | answers reach the call they were given to (`AnswersAreMeant`); the open panel's buttons answer a call that is alone, and it is shown unless a local request covers it (`RequestIsShown`); no call waits for ever (`AsksEnd`); the dialog of a finished call goes away (`DialogCloses`) |
| `scopes` | 1 call, a script's write and a direct one, 3 turns, 2 operations | types; `ImplementsConsent`: "confirm all" tied to its script, scopes and an unmounted dialog |

Two calls are what it takes for one request to replace another, or to be wiped
by another's end; a third meets the same three keys in the same way. Two turns
open the panel with its dialog, the third closes or hides it. Two operations let
a second click answer before the first answer is stored.

| run | promise | what happens |
|---|---|---|
| `v_seen` | "the extension shows the exact API calls and the user approves" (README.md:474) | with two requests the dialog shows the local one and its buttons answer the remote one |
| `v_fallback` | without an active side panel the page asks (README.md:445) | the ready flag survives the panel, the call waits for its timeout |

Also in the model: a second local request takes the first one's place and its
asker waits for ever; a second call replaces or wipes the first one's request,
which is then not shown (`RequestIsShown` speaks of a call alone); "confirm
all" covers writes that are not the script's (`ScopeIsKept`).

### MCParts: `safety`

| part | bounds | properties, and what they rule out |
|---|---|---|
| api | 2 requests, capacity 1, 2 retries | `DebtBounded`: waiters of one balance overdraw it without limit; `AbortIsHeard`: an attempt after an abort |
| audit | 3 appends, log of 2 | `AuditKept`: an entry lost otherwise than by a deletion, the trimming or an overlapped copy |
| gateway | 3 calls with 2 cache keys (1 writes), cache of 1, lifetime 1 | `CallsKeptApart`: a call run on another key's, a used up or an old decision, or reporting under another's id although calls end inside out |
| hooks | 1 window and the worker, 2 tokens, 3 operations | `GatewayFormIsSound`: a session's token that is not the stored one; a probe's status kept for other settings |
| credentials | 2 panels, 2 PINs, 2 operations, at most 3 of 5 secrets stored at first | `SessionMatchesVault`: an opened copy or an active environment with nothing stored behind it, after operations of two panels on different environments, or lone ones on the same |
| form | 4 steps of the user or of other windows | `FormIsSelected`: marks, fields or results of another environment under the lit button, but for what an operation begun before the switch, or another window, has set |
| transaction | 2 runs, batches of 2, 2 tokens, 2 attempts | `LeavesNothingBehind`: a temporary token left, a transaction processed twice |
| chat | 1 page, 2 turns, 2 rounds, 2 switches | `CallsAnswered`: a call in the history without its results, or the reverse |
| drafts | 2 answers, 1 move, 9 sets of mistakes, among them one of each wording and pairs | `DraftsAreSound`: a flagged script that runs, a card that hides a hit, a job that is not that of its card |
| panels | 1 window, 2 jobs, 3 clicks, 1 stop, unmount or reopening | `ChatFollowsJob`: a job started that is not the reviewed one; a followed job whose end is not told, or told wrongly |
| context | 2 frames, 3 loads, 2 merchants with a channel each | `ContextIsSound`: a better report replaced by a worse one, ids that do not fit the entity |
| main | 2 tools, 2 calls, 2 polls | `ToldTruly`: a result without a run, a run after the user cancelled |
| tools | 1 call, 2 inner calls, 2 changes | `SentAsAnswered`: requests after a cancel, an unasked or twice asked deletion, a plan that sends, a token left behind |
| settings | a chain of 3, 1 key, 2 foreign changes | `AnswersAreSound`: a value no entity of the chain had since the call began, one that was effective at no moment though at most one entity changed; two values of one cached read |
| hierarchy | 5 entities, 1 foreign change | `TreeIsSound`: a node that was not there, a node that was and is missing |
| sdk | 1 call, 2 keys | `AimedAtContext`: a guarded write to another channel; `WritesAreAccounted`: an unrecorded write, a write after a stop |
| routes | every call of three namespaces | `RoutesAreSound`: a request that is not the one previewed; the panel and a Job disagreeing |

`PartsTypeOK` is the type invariant of every part. Why the bounds are enough:
each part has as many actors as it takes for two of them to overlap (requests,
panels, runs, frames, page calls), or an actor and the user or the portal
changing things under it (tools, settings, hierarchy, form, panels), and as many
repetitions as the code has distinct rounds (first and repeated attempt, first and
second answer of the model). Four definitions use that actors are interchangeable,
so that of two behaviours that differ in their names only one is explored:
`FirstPin` (PINs), `FirstPanel` (panels), `RunsInOrder` (runs of the transaction
tools) and `SiblingsInOrder` (platforms below one parent); what the parts can reach,
they reach in one of these up to the names.
`MaxStored` bounds the initial states of `credentials`, where the order of
unlocking matters pair by pair, and a hierarchy begins with something to walk
(`MCInit`). Parts that stand still get one initial state
(`MCInit`). Deadlock is not checked: all of these parts may simply have nothing
left to do.

### MCProgress: `progress`

| part | property |
|---|---|
| api | `RequestsReturn`: every request returns or throws |
| chat | `PageFreed`: a page that waits for its turn is free again or unmounted |
| panels | `ShowsActive`: once the active job stays the same every panel comes to show it |
| main | `PageCallsSettle`: a page's call settles unless a dialog keeps the page; `LateContextFound`: tools are registered however late `modelContext` comes |

### What does not hold

The modules also state properties that follow from what a comment, a text or a
document says and that TLC refutes with the constants of these runs; each is
marked "Not so" above its definition. Those that contradict a quoted line are the
findings of `PROJECT.json`. To see a counterexample, name the property as an
`INVARIANT` in a copy of `Parts_safety.cfg` and give `Parts` the part alone.

| module | properties that fail |
|---|---|
| JobExecutor | `OrphansArePaused`, `EndsStay` (in MCJobExecutor, with a copy of `JobExecutor_jobs.cfg`; the second is a `PROPERTY`) |
| ConfirmFlow | `ScopeIsKept` (in MCConfirmFlow, with a copy of `ConfirmFlow_scopes.cfg`) |
| GatewayPolicy | `ContextCleared`, `RunsWhereDecided` (in ToolCalls) |
| Credentials, ConnectionForm, GatewayForm | `ResetOpensGate`, `RemovedIsGone`; `ShowsTheLit`, `LitIsActive`, `MarksAreStored`, `SavedAsTyped`; `StatusIsOfSettings`, `TestedTruly`, `InvalidIsLocked` |
| TestTransaction, AuditLog | `NoTokenLeft`; `AuditKeepsNewest`, `EveryWriteRecorded` |
| ChatTurn, JobPanels | `ModesNested`, `EveryCallAnswered`; `EveryEndAnnounced`, `CancelsNamed`, `KeptAlive`, `RunsWhereRecorded`, `OneJobPerClick`, `StaysFollowed` (a `PROPERTY`) |
| ChatContext | `MerchantFits`; `FollowsPage` (with `Frames = {f1}`: it speaks of a tab with one frame) |
| ToolCalls | `GoesWhereShown`, `WritesAreAsked`, `DryRunSendsNothing`, `ClaimedIsDeleted` |
| Settings | `EffectiveAtOnce` |
| Hierarchy, WorkflowSdk | `FullTree`; `MerchantWritesVerified`, `StoppedJobSendsNothing` |
| WriteRoutes, Drafts | `SeenIsSent`, `CreatesEntities`, `MutationsAudited`, `RejectedAlike`; `NoFalseAlarm`, `CurrencyIsBlocked`, `DeclarativeIsNoJob` |

Seen while modelling and in no property, because no line says what should
happen: after its time-out the in-panel sandbox's script goes on making SDK
calls; a declarative workflow reports "completed" when every call failed; a
batch of settings that throws loses its reports; two chat windows overwrite each
other's stored history; a tool that throws drops the turn's history; a pause
after a resume is not announced a second time; `tabs.onRemoved` of any tab pauses
the active job; the gateway section's hydration after a save discards unsaved
edits of its fields; a job's failed `entities.get` returns the error's body as
the entity.

### Fairness

`FairSpec` of ConfirmFlow (run `calls`) assumes weak fairness of the
worker's steps per call (storage answers, timers fire, tools end) and of the
panel's steps (its storage operations are served, its events arrive). Nobody
has to ask, click or open the panel.

`FairSpec` of JobExecutor (runs `live`, `slot`) assumes what the platform keeps
going: storage answers, the event loop continues a task whose await was
answered, a message between contexts arrives, a timer fires, and a stopped
worker is woken again (an open side panel polls it). Nothing is assumed of the
user, who need not ask for anything, nor of the script, which may hang, nor of
crashes. It is weak fairness per task: each such step stays possible until it
is taken.

`MCFairness` of MCProgress (run `progress`) is the fairness that `ApiFairness`,
`PanelFairness` and `MainFairness` state, and that of the chat's turns: the clock
ticks and a request whose timer or answer is there goes on; the worker frees the
slot of a run that is over, a panel hears its storage events, its requests are
served, and its polling timer fires; the script in the page polls, and a page's
call is delivered or times out while no dialog blocks the page; a turn of the
chat goes on, the model answers or fails, and the user answers what a tool asks
(the confirmation has a time limit of its own, see `AsksEnd`). All of it is weak
fairness of single steps that stay possible until they are taken. Nothing is
assumed of clicks, switches, new calls or stops. `LateContextFound` names in its
own premise what it needs beyond that: the page is shown again and again.

## 4. Proofs

Every safety property that a passing run checks is proved, for any sets of actors and
any bounds, in eight modules; what stays with TLC is at the end of this section.
Several components share a module of proofs:

| module | components |
|---|---|
| JobExecutorProofs | JobExecutor |
| ConfirmFlowProofs | ConfirmFlow, Consent |
| ApiClientProofs | RateLimiter, ApiClient, AuditLog, TestTransaction |
| MainWorldProofs | MainWorld, GatewayPolicy |
| ToolCallsProofs | ToolCalls, WorkflowSdk, WriteRoutes, Settings, Hierarchy |
| CredentialsProofs | Credentials, GatewayForm, ConnectionForm |
| DraftsProofs | Drafts, ChatTurn, ChatContext, JobPanels |
| PartsProofs | MCParts |

A proof has the same shape everywhere: an invariant `...IInv` that holds at first, is
kept by every action (a lemma per action or per kind of action), and implies the
property. Hardly any property is inductive; what follows says what had to be added.

### The executor

* `TypeCorrect`: `Spec => []TypeOK`. A task that continues writes the record of its
  job, so its job must exist, and a start that announces itself looks into the cache.
  `TasksOK` adds both facts. Lemmas on sequences of requests (append, tail, replacing
  the answered head) carry the type of `q`.
* `SlotOwned`: `Spec => []SlotHasOwner`. Whoever stores `activeJobId` is a run
  in `Holding`, and each step that takes a run out of `Holding` calls
  `cleanup()`, which empties the slot whoever holds it.
* `FinishedJobsStay`: `Spec => FinishedStays`. `Settled(j)` says that the job is final,
  the cache agrees with the store, no task works on it and no request in `q` is an
  update of it; older copies of the array may be in `q`. From such a state every action
  keeps the record, the rest, and the older copies among those that were there
  (`LeftAlone`), or serves one of them (`Overwritten`), or is `CancelById`, which looks
  at no state. A resume that looks the job up is refused.
* `RecordsAreBacked`: `Spec => []RecordsIInv`, from which follow
  `CompletedJobsAreBacked`, `CheckpointsAreBacked` and `RecoveryPausesJobs`. Arrays of
  records travel: a task reads one, a request carries it, a later `set` stores it over
  what others wrote. So the invariant speaks of every copy: of the store, the cache
  and the requests in `q`. It compares them with two witnesses, `Ends` (the runs of a
  job whose script came to its end) and `Posts` (the checkpoints its scripts posted),
  which only grow, so that an old copy stays backed however late it is written.
  `Recovering` is the part about a restart: the recovery's `get` is the new worker's
  first request, and from then on whatever is stored or queued has no job running but
  those it found and those this life of the worker started (`StartedJobs`; a crash
  forgets them); its own `set` has only the latter.

### The confirmation

* `TypesHold`: `Spec => []TypeOK`, inductive as it stands; lemmas say what
  appending, serving and unmounting do to the queues of operations.
* `AnswersStayMeant`: `Spec => []AnswersAreMeant`. `TypeOK /\ AnswersAreMeant`
  is inductive: it follows an approving answer from the click through the
  panel's queue, the response in session storage and the call's own `choice` to
  the tool, and each hop compares or copies the call's name. Its last conjunct
  (the local request on display has an asker) is needed by the refinement: a
  cancelling click must not take back a write that was let through.
* `FlowImplementsConsent`: `Spec => ImplementsConsent`. Initial states map to
  initial states; per action the proof says what `agreed`, `blanket` and `ran`
  do: a click approves, and for its script if it says so; the end of the wait or a
  confirmed second message runs, as does a write that is waved through for a script in
  `grants`, while a stray one is a stutter; a new or ended scope and a closed panel
  revoke.
* `LoneRequestIsShown`: `Spec => []RequestIsShown`. `Followed(c)` says of a call with
  no other: before its request is stored there is nothing to see or to answer; once
  it is, an open dialog holds it, or a storage event or a read that will bring it is
  under way, or the response is stored already. Each step that uses up one of these
  (a served read, a heard event, an unmounting) provides the next.

### The limiter, the client, the log and the test transactions

* `ApiIsTyped`; `AbortStaysHeard`: `ApiSpec => AbortIsHeard`, from the types: every
  step back to the fetch looks at the signal.
* `DebtStaysBounded`: `ApiSpec => []DebtBounded`. That the balance is bounded says
  nothing of who takes next. `Short(k)` are the waiting requests that would be more
  than k tokens short when they wake, if nobody took one meanwhile; `ShortAreFew` says
  that where there are such, they and k together are fewer than all requests. A
  request that looks at an overdrawn balance waits the debt off and is not short; one
  that takes makes the others shorter by one token and is itself no longer among them.
* `AuditLogIsKept`: `AuditSpec => []AuditKept`. `LogSound` is asked of every log that
  anybody holds (stored, read by an append, loaded by the page): its entries are
  written ones in their order, each once, and of the last `MaxAudit` written ones it
  lacks only those that were deleted or overlapped. An append or a deletion makes a
  sound log from a sound one, so a stale copy is as good as the stored log.
* `TestsLeaveNothing`: `TxSpec => []LeavesNothingBehind`. A run owns a token only once
  it has the answer to its creation; the body it is about to send was not processed,
  nor any after it; a deleted token stays deleted whatever other runs do.

### A page's calls and their decisions

* `PageIsToldTruly`: `MainSpec => []ToldTruly`. `CallIsTrue` follows an answer
  through the posted message: while a dialog is up nothing has run, a result that
  is on its way is of a call that ran, a cancel of one that is over and did not.
* `CallsAreKeptApart`: `GatewaySpec => []CallsKeptApart`. `DecisionsKeyed`: a decision
  is one call's alone while it is made, and is found later only under the key it was
  made for. `DecisionsFresh`: one that was used up is in no cache and in nobody's
  hands that began later. `Ordered`: `outer` orders the calls that run by their
  beginnings. `Nested`: the id of a call that was not crossed is the ambient context, or
  is kept by the call that began next after it.

### The tools and the SDK

* `ToolsSendAsAnswered`: `ToolSpec => []SentAsAnswered`. `CallSound` says of one
  call, at every stage, who has been asked and how often (`AskedSoFar`), that
  nothing was sent before (`QuietBefore`), that what is sent goes to the tool's own
  session and, in the chat, where the dialog showed (`SentThere`), and how far the
  token's clean-up is (`TokenOnItsWay`). Calls share only the environment, so each
  step is shown to give its call a sound record.
* `WorkflowWritesAreAimed`, `WorkflowWritesAreAccounted`: `WriteSound` counts what a
  call has posted and what of it was applied, and says that a call on its way to a
  request has passed the hooks of its workflow and is in the report.
* `RoutesStayTrue`: `RouteSpec => []RoutesAreSound`. The invariant says that what was
  announced and what is sent are `Preview` and `Request` of the call; the rest is about these
  operators, a lemma for each of the property's conjuncts.
* `SettingsAnswersAreSound`: `SettingsSpec => []AnswersAreSound`. On its way up a
  lookup has seen every entity below unset, each place is read once, and there is at
  most one answer per place, the one read last. When at most one entity of the chain
  changed, the moment at which that one was as it was read is the moment of all.
* `TreesAreSound`: `TreeSpec => []TreeIsSound`. Nobody is listed twice, because what
  is in the tree hangs below what was listed and `Rank` (a PSP is 0, a channel 3)
  grows on the way down; so the hidden ones are counted once. For completeness: on
  a way down that stood still, whoever is missing is below one that is still to be
  listed, with the depth that is left, or whose listing failed (`WaysFollowed`).

### Credentials and forms

* `SessionKeepsToVault`: `CredSpec => []SessionMatchesVault`. `Meets` says where two
  operations have met. For an environment on which none has (`Free`): what is opened is
  stored but for what is being removed, what is stored is opened but for what is being
  saved, and an unlock has opened what it has passed, whatever others do to the other
  environment. An operation that begins alone on an environment and ends alone there
  makes it free again. Unless a removal met another operation (`astray`), the active
  environment is stored, chosen by the user, or being replaced.
* `GatewayFormStaysSound`: `GatewayFormSpec => []GatewayFormIsSound`. A change of the
  token has two halves; between them only the thread that makes it works on tokens,
  and knows what is stored. A test that nothing overlaps works with the stored settings
  from its beginning to its last write.
* `FormShowsSelected`: `FormSpec => []FormIsSelected`, from six parts of the invariant:
  what is under way is of the page that is shown (`OpIsHere`); the marks are the stored
  credentials but for the one being stored and what other windows changed
  (`FlagsAreSaved`); what is typed is for the selected environment (`TypedForOwn`);
  fields, rows and list are of it as long as nothing begun for the other one has ended
  since (`FieldsOfSelected`, `TokensOfSelected`); and it is the active one
  (`ActiveIsLit`). `misplaced` names what such an operation has left, part by part; the
  next switch or reading clears it.

### The chat and the panels

* `DraftsStaySound`: `DraftsSpec => []DraftsAreSound`. Besides its conjuncts the
  invariant says that the draft kept during a redraft has hits, that the card being
  started is still shown and nothing runs yet, and that what was launched is a
  script. `RefusedWasUntold` is the lemma behind `OnlyUntoldStops`: a mistake that stops
  a script without hits is worded so that the checks cannot see it, or of a kind
  they do not look for.
* `ChatCallsAreAnswered`: `ChatSpec => []CallsAnswered`. Every history anybody holds
  (stored, a page's, a turn's) is `Complete`, or, in a turn whose calls are being
  answered, `Opened`: whole but for the calls at its end. Cutting a history keeps
  that but for the first entry; after a refused workflow there is the exception.
* `ContextStaysSound`: `ContextSpec => []ContextIsSound`. With one report at a time,
  what it has read is still stored when it writes, and is not better than the report.
* `ChatTellsOfItsJobs`: `PanelSpec => []ChatFollowsJob`. The last that a window will
  hear of the jobs is how they are stored; from the click on Start to the reading of
  the environment, the active one is among those seen since. A page
  that is mounted anew follows nothing, so an unmount and a reopening keep the claim.

### Types, and the parts together

`...IsTyped`, `...AreTyped`: each part's type invariant, with its bounds. Where the
part's invariant leaves a type open a `...Rest` predicate adds it (a lookup climbs at
most `MaxDepth`, a history is cut to `Kept`, a click makes at most one job per
attempt, the places of a cache are bounded so that one is the last).

`PartsRunAsSpecified`: a behaviour of MCParts is, for each part, one of that part's
specification, so what is proved of a part is proved of what the run `safety`
explores. `PartsAreTyped`: `MCSpec => []PartsTypeOK`.

### Assumptions

Those of the modules, each an `ASSUME` that TLC evaluates: bounds are natural numbers,
positive where the code's constant is; placeholders (`None`, `NoLog`, `NoPin`,
`NoBearer`, `NoEntity`, `Blank`) are none of the values they stand beside; requests,
the page's tools, platforms, keys and entities are finitely many. ConfirmFlow: calls and
local writes are distinct, `Author` is a function into the scripts and `None`.
JobExecutor: the chat jobs are jobs. ChatContext: a channel has a merchant.
Hierarchy: an entity is a PSP, a division, a merchant or a channel, one level below
what is above it. GatewayPolicy: the calls that write are calls, a decision lives for
at least one tick. Drafts: `Codes` are sets of defects. MCParts: `Parts` are the seventeen.

### Model-checked only

Every liveness property (`RequestsEnd`, `SlotFreed`, `AsksEnd`, `DialogCloses` and
those of `progress`): TLAPS does not reason about fairness
and `ENABLED`.

## 5. Not modelled, and why

* Rejected storage operations (a full quota) and the trimming of jobs: no code
  path or document says what should hold after them.
* `computeJobOutcome`: a pure classification; its result is arbitrary in JobExecutor.
* Workflow counters (read by nothing; `workflow-counters.ts:9-12` accepts lost
  updates) and the write status toast (a message without effect).
* Cryptography, redaction of logged data, prompts, argument defaults, formatting
  and rendering.
* The lookup of clearing institutes, the glossary, playbooks, generated tables and
  `tools-cli`: data and build-time code.
* The property syntax of the SDK's settings proxy: it only renames calls that
  `WorkflowSdk` has.

## 6. Plan

1. An abstract life cycle of a job, and the refinement by JobExecutor of what of
   it the code keeps: that what is stored as final has ended, and that only a start
   or a resume begins a run.
2. Two side panels in `ConfirmFlow`; rejected storage writes in `JobExecutor`, and
   the proofs again for both.
